------------------------ MODULE AgenticCommerceProofs -----------------------
(***************************************************************************)
(* Theorems about contracts/agentic-commerce-v6.clar for any principals,   *)
(* windows, budgets, balances and numbers of jobs and blocks. First the    *)
(* fee, the types, the separation of roles, the agreement of the maps jobs *)
(* and escrow-balances, and the escrow's arithmetic: the contract's STX    *)
(* cover what it owes to all jobs together, and move by exactly what it    *)
(* records. Then how a job is decided, paid and reported: due process, the *)
(* fee state the application reads, the retried reputation reports, and    *)
(* what no later step takes back; and that the contract implements         *)
(* EscrowPromise: under the refinement mapping of AgenticCommerce          *)
(* (DepositOf, Closed) every call is a step of the promise or leaves its   *)
(* three variables alone.                                                  *)
(***************************************************************************)
EXTENDS AgenticCommerce, WellFoundedInduction, TLAPS

-----------------------------------------------------------------------------
(* Clarity maps and the fee *)

LEMMA MapSetIsMap ==
    ASSUME NEW m, NEW K, NEW V, IsMap(m, K, V), NEW k \in K, NEW v \in V
    PROVE  /\ IsMap(MapSet(m, k, v), K, V)
           /\ DOMAIN MapSet(m, k, v) = DOMAIN m \cup {k}
           /\ MapSet(m, k, v)[k] = v
           /\ \A x \in DOMAIN m : x # k => MapSet(m, k, v)[x] = m[x]
BY DEF IsMap, MapSet

LEMMA MapDeleteIsMap ==
    ASSUME NEW m, NEW K, NEW V, IsMap(m, K, V), NEW k
    PROVE  /\ IsMap(MapDelete(m, k), K, V)
           /\ DOMAIN MapDelete(m, k) = DOMAIN m \ {k}
           /\ \A x \in DOMAIN m : x # k => MapDelete(m, k)[x] = m[x]
BY DEF IsMap, MapDelete, Restrict

LEMMA MapExceptIsMap ==
    ASSUME NEW m, NEW K, NEW V, IsMap(m, K, V), NEW k \in DOMAIN m, NEW v \in V
    PROVE  /\ IsMap([m EXCEPT ![k] = v], K, V)
           /\ DOMAIN [m EXCEPT ![k] = v] = DOMAIN m
BY DEF IsMap

LEMMA IsMapWiden ==
    ASSUME NEW m, NEW K, NEW L, NEW V, IsMap(m, K, V), K \subseteq L
    PROVE  IsMap(m, L, V)
BY DEF IsMap

LEMMA EmptyMapIsMap == \A K, V : IsMap(EmptyMap, K, V)
BY DEF IsMap, EmptyMap

LEMMA FeeInRange == \A gross \in Nat : Fee(gross) \in 0..gross
BY DEF Fee, SERVICE_FEE_DIVISOR

\* Dividing the gross by fifty is the floor of 200 basis points of it, nothing
\* is lost between the two legs, and the recipient of a paid job gets something.
THEOREM FeeIsTwoPercent == \A gross \in Nat : IsTwoPercent(gross)
BY DEF IsTwoPercent, Fee, Net, SERVICE_FEE_BPS, SERVICE_FEE_DIVISOR

\* The fee is a uint that fits in the gross, so net = gross - fee never
\* underflows and both transfer legs of a settlement are uints.
THEOREM FeeFits ==
    \A gross \in Nat : Fee(gross) \in 0..gross /\ Net(gross) \in 0..gross
BY DEF Fee, Net, SERVICE_FEE_DIVISOR

\* A larger budget never nets its recipient less.
THEOREM NetIsMonotone ==
    \A a, b \in Nat : a <= b => Fee(a) <= Fee(b) /\ Net(a) <= Net(b)
BY DEF Fee, Net, SERVICE_FEE_DIVISOR

\* stx-transfer? keeps every balance a uint.
LEMMA TransferType ==
    ASSUME NEW balances \in [Principals -> Nat], NEW amount \in Nat,
           NEW from \in Principals, NEW to \in Principals,
           CanTransfer(balances, amount, from, to)
    PROVE  Transfer(balances, amount, from, to) \in [Principals -> Nat]
BY DEF CanTransfer, Transfer

-----------------------------------------------------------------------------
(* Frames: a part of the state that an action leaves alone keeps its type *)

LEMMA GovernanceFrame ==
    ASSUME TypeOK, UNCHANGED governanceVars
    PROVE  GovernanceTypeOK'
BY DEF TypeOK, GovernanceTypeOK, governanceVars, ownerVars, authorityVars, configVars

LEMMA JobsFrame ==
    ASSUME TypeOK, UNCHANGED jobVars
    PROVE  JobsTypeOK'
BY DEF TypeOK, JobsTypeOK, jobVars

LEMMA MapsFrame ==
    ASSUME TypeOK, UNCHANGED <<jobCounter, decisions, feeVars, escrowBalances, reputationVars>>
    PROVE  MapsTypeOK'
BY DEF TypeOK, MapsTypeOK, feeVars, reputationVars

LEMMA ChainFrame ==
    ASSUME TypeOK, UNCHANGED <<stx, timeVars>>
    PROVE  ChainTypeOK'
BY DEF TypeOK, ChainTypeOK, timeVars

LEMMA RegistryFrame ==
    ASSUME TypeOK, UNCHANGED registryVars
    PROVE  Registry!TypeOK'
BY DEF TypeOK, registryVars, Registry!TypeOK

\* The row of one job is replaced by a row of the declared type.
LEMMA JobRowType ==
    ASSUME TypeOK, NEW j \in DOMAIN jobs, NEW row \in Job,
           jobs' = [jobs EXCEPT ![j] = row], UNCHANGED jobCounter
    PROVE  JobsTypeOK'
BY DEF TypeOK, JobsTypeOK

LEMMA JobType ==
    ASSUME TypeOK, NEW j \in DOMAIN jobs
    PROVE  /\ jobs[j] \in Job /\ jobs[j].budget \in Nat
           /\ j \in 1..jobCounter /\ jobCounter \in Nat
           /\ 1..jobCounter \subseteq JobIds
<1>1. jobs[j] \in Job /\ j \in 1..jobCounter /\ jobCounter \in 0..MaxJobs
  BY DEF TypeOK, JobsTypeOK
<1> QED
  BY <1>1, BoundAssumption DEF Job, JobIds

LEMMA StatusType ==
    ASSUME TypeOK, NEW j \in DOMAIN jobs, NEW s \in 0..8, UNCHANGED jobCounter,
           jobs' = [jobs EXCEPT ![j].status = s]
    PROVE  JobsTypeOK'
<1>1. [jobs[j] EXCEPT !.status = s] \in Job
  BY JobType DEF Job
<1> QED
  BY <1>1, JobRowType

LEMMA SubmittedType ==
    ASSUME NEW row \in Job, NEW s \in 0..8, NEW a \in Nat, NEW b \in Nat
    PROVE  [row EXCEPT !.status = s, !.submittedAtBurn = a, !.reviewDeadline = b] \in Job
BY DEF Job

-----------------------------------------------------------------------------
(* The registry inside the composition *)

LEMMA RegistryAdministrationType ==
    ASSUME Registry!TypeOK, NEW sender \in Principals, Registry!Administration(sender)
    PROVE  Registry!TypeOK'
<1> USE DEF Registry!TypeOK, Registry!aggregateVars, Registry!registryOwnerVars
<1>1. ASSUME NEW p \in Principals, Registry!ProposeOwner(sender, p)
      PROVE  Registry!TypeOK'
  BY <1>1 DEF Registry!ProposeOwner
<1>2. CASE Registry!AcceptOwner(sender)
  BY <1>2 DEF Registry!AcceptOwner
<1>3. CASE Registry!CancelOwnerProposal(sender)
  BY <1>3 DEF Registry!CancelOwnerProposal
<1>4. ASSUME NEW p \in Principals, Registry!AddProtocolCaller(sender, p)
      PROVE  Registry!TypeOK'
  BY <1>4 DEF Registry!AddProtocolCaller
<1>5. ASSUME NEW p \in Principals, Registry!RemoveProtocolCaller(sender, p)
      PROVE  Registry!TypeOK'
  BY <1>5 DEF Registry!RemoveProtocolCaller
<1> QED
  BY <1>1, <1>2, <1>3, <1>4, <1>5 DEF Registry!Administration

LEMMA RegistryMapSet ==
    ASSUME NEW m, NEW K, NEW V, Registry!IsMap(m, K, V), NEW k \in K, NEW v \in V
    PROVE  Registry!IsMap(Registry!MapSet(m, k, v), K, V)
BY DEF Registry!IsMap, Registry!MapSet

LEMMA RegistryRatingType ==
    ASSUME Registry!TypeOK, NEW source \in Principals, NEW agent \in Principals,
           NEW rater \in Principals, NEW score \in Nat, NEW jobId \in JobIds,
           Registry!SubmitRating(source, agent, rater, score, jobId)
    PROVE  Registry!TypeOK'
<1> DEFINE key == Registry!KeyOfRating(source, agent, rater, jobId)
           total == agentReputation[agent].totalScore + score
           count == agentReputation[agent].ratingCount + 1
<1>1. key \in Registry!RatingKey /\ score \in 1..5
  BY DEF Registry!SubmitRating, Registry!KeyOfRating, Registry!RatingKey,
         Registry!IsValidScore
<1>2. Registry!IsMap(ratings', Registry!RatingKey, 1..5)
  BY <1>1, RegistryMapSet DEF Registry!SubmitRating, Registry!TypeOK
<1>3. agentReputation[agent] \in Registry!Reputation
  BY DEF Registry!TypeOK
<1>4. total \in Nat /\ count \in Nat /\ count > 0
  BY <1>3 DEF Registry!Reputation
<1>5. (total * 100) \div count \in Nat
  BY <1>4
<1>6. [agentReputation[agent] EXCEPT !.totalScore = total, !.ratingCount = count,
          !.averageX100 = (total * 100) \div count] \in Registry!Reputation
  BY <1>3, <1>4, <1>5 DEF Registry!Reputation
<1>7. agentReputation' \in [Principals -> Registry!Reputation]
  BY <1>6 DEF Registry!SubmitRating, Registry!TypeOK
<1> QED
  BY <1>2, <1>7 DEF Registry!SubmitRating, Registry!TypeOK, Registry!registryOwnerVars

LEMMA RegistryOutcomeType ==
    ASSUME Registry!TypeOK, NEW source \in Principals, NEW agent \in Principals,
           NEW jobId \in JobIds, NEW completed \in BOOLEAN, NEW disputed \in BOOLEAN,
           Registry!RecordJobOutcome(source, agent, jobId, completed, disputed)
    PROVE  Registry!TypeOK'
<1> DEFINE c == IF completed THEN 1 ELSE 0
           d == IF disputed THEN 1 ELSE 0
           rep == [agentReputation[agent] EXCEPT !.completedJobs = @ + c,
                                                 !.disputedJobs = @ + d]
<1>1. Registry!IsMap(jobOutcomes', Registry!OutcomeKey, Registry!Outcome)
  <2>1. [source |-> source, jobId |-> jobId] \in Registry!OutcomeKey
    BY DEF Registry!OutcomeKey
  <2>2. [agent |-> agent, completed |-> completed, disputed |-> disputed]
            \in Registry!Outcome
    BY DEF Registry!Outcome
  <2> QED
    BY <2>1, <2>2, RegistryMapSet DEF Registry!RecordJobOutcome, Registry!TypeOK
<1>2. agentReputation[agent] \in Registry!Reputation
  BY DEF Registry!TypeOK
<1>3. rep \in Registry!Reputation
  <2>1. c \in Nat /\ d \in Nat
    OBVIOUS
  <2> HIDE DEF c, d
  <2>2. /\ agentReputation[agent].completedJobs + c \in Nat
        /\ agentReputation[agent].disputedJobs + d \in Nat
    BY <1>2, <2>1 DEF Registry!Reputation
  <2> QED
    BY <1>2, <2>2, Zenon DEF Registry!Reputation
<1>4. agentReputation' = [agentReputation EXCEPT ![agent] = rep]
  BY <1>2 DEF Registry!RecordJobOutcome, Registry!TypeOK, Registry!Reputation
<1>5. agentReputation' \in [Principals -> Registry!Reputation]
  <2> HIDE DEF rep
  <2> QED
    BY <1>3, <1>4 DEF Registry!TypeOK
<1> QED
  BY <1>1, <1>5 DEF Registry!RecordJobOutcome, Registry!TypeOK, Registry!registryOwnerVars

LEMMA RegistryStepType ==
    ASSUME TypeOK, NEW sender \in Users, RegistryStep(sender)
    PROVE  TypeOK'
<1> USE DEF Users
<1>1. Registry!TypeOK
  BY DEF TypeOK
<1>2. Registry!TypeOK'
  <2>1. CASE Registry!Administration(sender)
    BY <1>1, <2>1, RegistryAdministrationType
  <2>2. CASE Registry!Report(sender)
    BY <1>1, <2>2, InputAssumption, RegistryRatingType, RegistryOutcomeType
    DEF Registry!Report
  <2> QED
    BY <2>1, <2>2 DEF RegistryStep
<1>3. UNCHANGED <<governanceVars, jobVars, decisions, feeVars, escrowBalances,
                  reputationVars, stx, timeVars>>
  BY DEF RegistryStep, commerceVars
<1> QED
  BY <1>2, <1>3, GovernanceFrame, JobsFrame, MapsFrame, ChainFrame DEF TypeOK, jobVars

-----------------------------------------------------------------------------
(* Type correctness, one lemma per group of operations *)

LEMMA InitTypeOK == Init => TypeOK
<1> SUFFICES ASSUME Init PROVE TypeOK
  OBVIOUS
<1> USE PrincipalsAssumption, LedgerAssumption, BoundAssumption
<1>1. GovernanceTypeOK
  BY DEF Init, GovernanceTypeOK
<1>2. JobsTypeOK
  BY DEF Init, JobsTypeOK, EmptyMap
<1>3. MapsTypeOK
  BY EmptyMapIsMap DEF Init, MapsTypeOK
<1>4. ChainTypeOK
  BY DEF Init, ChainTypeOK
<1>5. Registry!TypeOK
  <2>1. Registry!EmptyReputation \in Registry!Reputation
    BY DEF Registry!EmptyReputation, Registry!Reputation
  <2> QED
    BY <2>1 DEF Init, Registry!RegistryInit, Registry!TypeOK, Registry!IsMap, Registry!EmptyMap
<1> QED
  BY <1>1, <1>2, <1>3, <1>4, <1>5 DEF TypeOK

LEMMA GovernanceStepType ==
    ASSUME TypeOK, NEW sender \in Users, Governance(sender)
    PROVE  TypeOK'
<1> USE DEF Users, ownerVars, authorityVars, configVars
<1>1. GovernanceTypeOK
  BY DEF TypeOK
<1> DEFINE Goal == /\ GovernanceTypeOK'
                   /\ UNCHANGED <<jobVars, decisions, feeVars, moneyVars,
                                  reputationVars, timeVars, registryVars>>
<1>2. Goal
  <2>1. ASSUME NEW w \in AppealWindows, NEW authority \in Principals,
               NEW treasury \in Principals,
               InitializeProtocol(sender, w, authority, treasury)
        PROVE  Goal
    BY <1>1, <2>1, WindowAssumption DEF InitializeProtocol, GovernanceTypeOK
  <2>2. ASSUME NEW p \in Principals, ProposeOwner(sender, p) PROVE Goal
    BY <1>1, <2>2 DEF ProposeOwner, GovernanceTypeOK
  <2>3. CASE AcceptOwner(sender)
    BY <1>1, <2>3 DEF AcceptOwner, GovernanceTypeOK
  <2>4. CASE CancelOwnerProposal(sender)
    BY <1>1, <2>4 DEF CancelOwnerProposal, GovernanceTypeOK
  <2>5. ASSUME NEW p \in Principals, ProposeAppealAuthority(sender, p) PROVE Goal
    BY <1>1, <2>5 DEF ProposeAppealAuthority, GovernanceTypeOK
  <2>6. CASE AcceptAppealAuthority(sender)
    BY <1>1, <2>6 DEF AcceptAppealAuthority, GovernanceTypeOK
  <2>7. CASE CancelAppealAuthorityProposal(sender)
    BY <1>1, <2>7 DEF CancelAppealAuthorityProposal, GovernanceTypeOK
  <2> QED
    BY <2>1, <2>2, <2>3, <2>4, <2>5, <2>6, <2>7 DEF Governance
<1> QED
  BY <1>2, JobsFrame, MapsFrame, ChainFrame, RegistryFrame
  DEF TypeOK, jobVars, moneyVars

LEMMA CreateJobType ==
    ASSUME TypeOK, NEW sender \in Users, NEW p \in Principals \cup {NONE},
           NEW e \in Principals, NEW x \in Nat,
           CreateJob(sender, p, e, x)
    PROVE  TypeOK'
<1> USE PrincipalsAssumption, BoundAssumption
<1>1. JobsTypeOK /\ MapsTypeOK /\ GovernanceTypeOK
  BY DEF TypeOK
<1> DEFINE row == [client |-> sender, provider |-> p, evaluator |-> e,
                   appealAuthority |-> appealAuthority, treasury |-> serviceTreasury,
                   budget |-> 0, expiredAt |-> x, status |-> STATUS_OPEN,
                   submittedAtBurn |-> NONE, reviewDeadline |-> NONE]
<1>2. JobsTypeOK'
  <2>1. row \in Job
    BY <1>1 DEF Job, GovernanceTypeOK, Users, STATUS_OPEN
  <2>2. jobs' = MapSet(jobs, jobCounter + 1, row) /\ jobCounter' = jobCounter + 1
    BY DEF CreateJob
  <2> HIDE DEF row
  <2>3. DOMAIN jobs \cup {jobCounter + 1} = 1..(jobCounter + 1)
    BY <1>1 DEF JobsTypeOK
  <2> QED
    BY <1>1, <2>1, <2>2, <2>3 DEF JobsTypeOK, MapSet, CreateJob
<1>3. 1..jobCounter \subseteq (1..jobCounter)'
  BY <1>1 DEF CreateJob, JobsTypeOK
<1>4. MapsTypeOK'
  BY <1>3, <1>1, IsMapWiden DEF CreateJob, MapsTypeOK, feeVars, reputationVars, moneyVars
<1> QED
  BY <1>2, <1>4, GovernanceFrame, ChainFrame, RegistryFrame DEF TypeOK, CreateJob, moneyVars

LEMMA SetBudgetType ==
    ASSUME TypeOK, NEW sender \in Users, NEW j \in JobIds, NEW amount \in Nat,
           SetBudget(sender, j, amount)
    PROVE  TypeOK'
<1>1. j \in DOMAIN jobs
  BY DEF SetBudget
<1>2. [jobs[j] EXCEPT !.budget = amount] \in Job
  BY <1>1, JobType DEF Job
<1>3. JobsTypeOK'
  BY <1>1, <1>2, JobRowType DEF SetBudget
<1> QED
  BY <1>3, GovernanceFrame, MapsFrame, ChainFrame, RegistryFrame
  DEF TypeOK, SetBudget, moneyVars

LEMMA FundJobType ==
    ASSUME TypeOK, NEW sender \in Users, NEW j \in JobIds, FundJob(sender, j)
    PROVE  TypeOK'
<1>1. j \in DOMAIN jobs
  BY DEF FundJob
<1>2. jobs[j].budget \in Nat /\ j \in 1..jobCounter
  BY <1>1, JobType
<1>3. JobsTypeOK'
  <2>1. STATUS_FUNDED \in 0..8
    BY DEF STATUS_FUNDED
  <2> QED
    BY <1>1, <2>1, StatusType DEF FundJob
<1>4. MapsTypeOK'
  <2>1. IsMap(escrowBalances', 1..jobCounter, Nat)
    BY <1>2, MapSetIsMap DEF FundJob, TypeOK, MapsTypeOK
  <2> QED
    BY <2>1 DEF FundJob, TypeOK, MapsTypeOK, feeVars, reputationVars
<1>5. ChainTypeOK'
  BY <1>2, TransferType, PrincipalsAssumption
  DEF FundJob, StxTransfer, TypeOK, ChainTypeOK, Users, timeVars
<1> QED
  BY <1>3, <1>4, <1>5, GovernanceFrame, RegistryFrame DEF TypeOK, FundJob

LEMMA AssignProviderType ==
    ASSUME TypeOK, NEW sender \in Users, NEW j \in JobIds, NEW p \in Principals,
           AssignProvider(sender, j, p)
    PROVE  TypeOK'
<1>1. j \in DOMAIN jobs
  BY DEF AssignProvider
<1>2. [jobs[j] EXCEPT !.provider = p] \in Job
  BY <1>1, JobType DEF Job
<1>3. JobsTypeOK'
  BY <1>1, <1>2, JobRowType DEF AssignProvider
<1> QED
  BY <1>3, GovernanceFrame, MapsFrame, ChainFrame, RegistryFrame
  DEF TypeOK, AssignProvider, moneyVars

LEMMA SubmitWorkType ==
    ASSUME TypeOK, NEW sender \in Users, NEW j \in JobIds, SubmitWork(sender, j)
    PROVE  TypeOK'
<1> DEFINE row == [jobs[j] EXCEPT !.status = STATUS_SUBMITTED,
                                  !.submittedAtBurn = burnHeight,
                                  !.reviewDeadline = burnHeight + ReviewWindow]
<1>1. j \in DOMAIN jobs
  BY DEF SubmitWork
<1>2. burnHeight \in Nat /\ burnHeight + ReviewWindow \in Nat
  BY WindowAssumption, BoundAssumption DEF TypeOK, ChainTypeOK
<1>3. row \in Job
  <2>1. STATUS_SUBMITTED \in 0..8
    BY DEF STATUS_SUBMITTED
  <2> QED
    BY <1>1, <1>2, <2>1, JobType, SubmittedType
<1>4. jobs' = [jobs EXCEPT ![j] = row]
  BY <1>1 DEF SubmitWork, TypeOK, JobsTypeOK, Job
<1>5. JobsTypeOK'
  <2> HIDE DEF row
  <2> QED
    BY <1>1, <1>3, <1>4, JobRowType DEF SubmitWork
<1> QED
  BY <1>5, GovernanceFrame, MapsFrame, ChainFrame, RegistryFrame
  DEF TypeOK, SubmitWork, moneyVars

LEMMA RecordDecisionType ==
    ASSUME TypeOK, NEW sender \in Users, NEW j \in JobIds, NEW decision \in 0..3,
           NEW hash \in Hashes, NEW explanationHash \in Hashes,
           RecordDecision(sender, j, decision, hash, explanationHash)
    PROVE  TypeOK'
<1> DEFINE row == [original |-> decision, final |-> NONE,
                   decidedAtBurn |-> burnHeight,
                   appealDeadline |-> burnHeight + appealWindow,
                   appealedBy |-> NONE, resolutionDeadline |-> NONE,
                   finalizedBy |-> NONE, finalizedAtBurn |-> NONE]
<1>1. j \in DOMAIN jobs /\ j \in 1..jobCounter
  BY JobType DEF RecordDecision
<1>2. burnHeight \in Nat /\ burnHeight + appealWindow \in Nat
  BY BoundAssumption DEF TypeOK, ChainTypeOK, GovernanceTypeOK
<1>3. row \in Decision
  BY <1>2 DEF RecordDecision, IsValidDecision, Decision
<1>4. IsMap(decisions', 1..jobCounter, Decision)
  <2>1. decisions' = MapSet(decisions, j, row)
    BY DEF RecordDecision
  <2> HIDE DEF row
  <2> QED
    BY <1>1, <1>3, <2>1, MapSetIsMap DEF TypeOK, MapsTypeOK
<1>5. MapsTypeOK'
  BY <1>4 DEF RecordDecision, TypeOK, MapsTypeOK, feeVars, moneyVars, reputationVars
<1>6. JobsTypeOK'
  <2>1. STATUS_DECISION_PENDING \in 0..8
    BY DEF STATUS_DECISION_PENDING
  <2> QED
    BY <1>1, <2>1, StatusType DEF RecordDecision
<1> QED
  BY <1>5, <1>6, GovernanceFrame, ChainFrame, RegistryFrame
  DEF TypeOK, RecordDecision, moneyVars

LEMMA DecisionRows ==
    ASSUME NEW row \in Decision
    PROVE  /\ \A p \in Principals, n \in Nat :
                [row EXCEPT !.appealedBy = p, !.resolutionDeadline = n] \in Decision
           /\ \A d \in {DECISION_APPROVE, DECISION_REJECT}, p \in Principals, n \in Nat :
                [row EXCEPT !.final = d, !.finalizedBy = p, !.finalizedAtBurn = n]
                    \in Decision
BY DEF Decision

LEMMA AppealDecisionType ==
    ASSUME TypeOK, NEW sender \in Users, NEW j \in JobIds, NEW hash \in Hashes,
           AppealDecision(sender, j, hash)
    PROVE  TypeOK'
<1> DEFINE row == [decisions[j] EXCEPT !.appealedBy = sender,
                       !.resolutionDeadline = burnHeight + appealWindow]
<1>1. j \in DOMAIN jobs /\ j \in DOMAIN decisions
  BY DEF AppealDecision
<1>2. IsMap(decisions, 1..jobCounter, Decision) /\ decisions[j] \in Decision
  BY <1>1 DEF TypeOK, MapsTypeOK, IsMap
<1>3. burnHeight + appealWindow \in Nat
  BY BoundAssumption DEF TypeOK, ChainTypeOK, GovernanceTypeOK
<1>4. row \in Decision
  BY <1>2, <1>3, DecisionRows DEF Users
<1>5. decisions' = [decisions EXCEPT ![j] = row]
  BY <1>1, <1>2 DEF AppealDecision, Decision, IsMap
<1>6. IsMap(decisions', 1..jobCounter, Decision)
  <2> HIDE DEF row
  <2> QED
    BY <1>1, <1>2, <1>4, <1>5, MapExceptIsMap
<1>7. MapsTypeOK'
  BY <1>6 DEF AppealDecision, TypeOK, MapsTypeOK, feeVars, moneyVars, reputationVars
<1>8. JobsTypeOK'
  <2>1. STATUS_DISPUTED \in 0..8
    BY DEF STATUS_DISPUTED
  <2> QED
    BY <1>1, <2>1, StatusType DEF AppealDecision
<1> QED
  BY <1>7, <1>8, GovernanceFrame, ChainFrame, RegistryFrame
  DEF TypeOK, AppealDecision, moneyVars

\* The two legs of a settlement move uints: the fee never exceeds the gross.
LEMMA SettleServicePaymentType ==
    ASSUME TypeOK, NEW j \in DOMAIN jobs, NEW recipient \in Principals,
           SettleServicePayment(j, recipient)
    PROVE  /\ stx' \in [Principals -> Nat]
           /\ IsMap(serviceFeeSettlements', 1..jobCounter, Settlement)
<1> DEFINE gross == jobs[j].budget
           fee == ChargedFee(j)
           net == gross - fee
           afterNet == Transfer(stx, net, Escrow, recipient)
           row == [gross |-> gross, recipient |-> recipient, net |-> net,
                   chargedFee |-> fee, refundedFee |-> 0]
<1>1. jobs[j] \in Job /\ gross \in Nat /\ j \in 1..jobCounter
  BY JobType
<1>2. fee \in 0..gross
  BY <1>1, FeeInRange DEF ChargedFee
<1>3. net \in Nat /\ fee \in Nat
  BY <1>1, <1>2
<1>4. Escrow \in Principals /\ jobs[j].treasury \in Principals
  BY <1>1, PrincipalsAssumption DEF Job
<1> HIDE DEF fee, net
<1>5. stx \in [Principals -> Nat]
  BY DEF TypeOK, ChainTypeOK
<1>6. afterNet \in [Principals -> Nat]
  <2>1. CanTransfer(stx, net, Escrow, recipient)
    BY DEF SettleServicePayment, fee, net
  <2> QED
    BY <1>3, <1>4, <1>5, <2>1, TransferType
<1> HIDE DEF afterNet
<1>7. stx' \in [Principals -> Nat]
  <2>1. \/ /\ CanTransfer(afterNet, fee, Escrow, jobs[j].treasury)
           /\ stx' = Transfer(afterNet, fee, Escrow, jobs[j].treasury)
        \/ stx' = afterNet
    BY DEF SettleServicePayment, AfterSettlement, fee, net, afterNet
  <2> QED
    BY <1>3, <1>4, <1>6, <2>1, TransferType
<1>8. row \in Settlement
  BY <1>1, <1>3 DEF Settlement
<1>9. serviceFeeSettlements' = MapSet(serviceFeeSettlements, j, row)
  BY DEF SettleServicePayment, fee, net
<1>10. IsMap(serviceFeeSettlements', 1..jobCounter, Settlement)
  <2> HIDE DEF row
  <2> QED
    BY <1>1, <1>8, <1>9, MapSetIsMap DEF TypeOK, MapsTypeOK
<1> QED
  BY <1>7, <1>10

LEMMA SyncReputationType ==
    ASSUME TypeOK, NEW j \in DOMAIN jobs, NEW agent \in Principals,
           NEW outcome \in {OUTCOME_COMPLETED, OUTCOME_DISPUTED},
           SyncReputation(j, agent, outcome)
    PROVE  /\ Registry!TypeOK'
           /\ IsMap(reputationSync', 1..jobCounter, Sync)
<1> DEFINE completed == outcome = OUTCOME_COMPLETED
           disputed == outcome = OUTCOME_DISPUTED
           result == Registry!RecordOutcomeResult(Escrow, j, completed, disputed)
<1>1. j \in 1..jobCounter /\ j \in JobIds
  BY JobType
<1>2. result \in Nat
  BY DEF Registry!RecordOutcomeResult, Registry!OK, Registry!ErrNotAuthorized,
         Registry!ErrInvalidOutcome, Registry!ErrOutcomeAlreadyRecorded
<1>3. IsMap(reputationSync', 1..jobCounter, Sync)
  <2>1. reputationSync' = MapSet(reputationSync, j, SyncRow(outcome, result))
    BY DEF SyncReputation
  <2> HIDE DEF result
  <2>2. SyncRow(outcome, result) \in Sync
    BY <1>2 DEF SyncRow, Sync
  <2> QED
    BY <1>1, <2>1, <2>2, MapSetIsMap DEF TypeOK, MapsTypeOK
<1>4. Registry!TypeOK'
  <2>1. CASE result = Registry!OK
    <3>1. Registry!RecordJobOutcome(Escrow, agent, j, completed, disputed)
      BY <2>1 DEF SyncReputation
    <3> QED
      BY <1>1, <3>1, PrincipalsAssumption, RegistryOutcomeType DEF TypeOK
  <2>2. CASE result # Registry!OK
    BY <2>2, RegistryFrame DEF SyncReputation
  <2> QED
    BY <2>1, <2>2
<1> QED
  BY <1>3, <1>4

LEMMA SettleType ==
    ASSUME TypeOK, NEW sender \in Users, NEW j \in DOMAIN jobs, j \in DOMAIN decisions,
           jobs[j].provider # NONE, NEW decision \in {DECISION_APPROVE, DECISION_REJECT},
           Settle(sender, j, decision)
    PROVE  TypeOK'
<1> DEFINE row == [decisions[j] EXCEPT !.final = decision, !.finalizedBy = sender,
                                       !.finalizedAtBurn = burnHeight]
<1>1. j \in 1..jobCounter /\ jobs[j] \in Job
  BY JobType
<1>2. jobs[j].provider \in Principals /\ Recipient(jobs[j], decision) \in Principals
  BY <1>1 DEF Job, Recipient
<1>3. /\ stx' \in [Principals -> Nat]
      /\ IsMap(serviceFeeSettlements', 1..jobCounter, Settlement)
  BY <1>2, SettleServicePaymentType DEF Settle
<1>4. /\ Registry!TypeOK'
      /\ IsMap(reputationSync', 1..jobCounter, Sync)
  <2>1. OutcomeFor(decision) \in {OUTCOME_COMPLETED, OUTCOME_DISPUTED}
    BY DEF OutcomeFor
  <2> QED
    BY <1>2, <2>1, SyncReputationType DEF Settle
<1>5. IsMap(decisions', 1..jobCounter, Decision)
  <2>1. IsMap(decisions, 1..jobCounter, Decision) /\ decisions[j] \in Decision
    BY DEF TypeOK, MapsTypeOK, IsMap
  <2>2. burnHeight \in Nat
    BY BoundAssumption DEF TypeOK, ChainTypeOK
  <2>3. row \in Decision
    BY <2>1, <2>2, DecisionRows DEF Users
  <2>4. decisions' = [decisions EXCEPT ![j] = row]
    BY <2>1 DEF Settle, Decision, IsMap
  <2> HIDE DEF row
  <2> QED
    BY <2>1, <2>3, <2>4, MapExceptIsMap
<1>6. IsMap(escrowBalances', 1..jobCounter, Nat)
  BY MapDeleteIsMap DEF Settle, EscrowWithout, TypeOK, MapsTypeOK
<1>7. MapsTypeOK'
  BY <1>3, <1>4, <1>5, <1>6 DEF Settle, TypeOK, MapsTypeOK
<1>8. JobsTypeOK'
  <2>1. StatusFor(decision) \in 0..8
    BY DEF StatusFor, STATUS_COMPLETED, STATUS_REJECTED
  <2> QED
    BY <2>1, StatusType DEF Settle
<1>9. ChainTypeOK'
  BY <1>3 DEF Settle, TypeOK, ChainTypeOK, timeVars
<1> QED
  BY <1>4, <1>7, <1>8, <1>9, GovernanceFrame DEF TypeOK, Settle

\* The three calls that settle a decision.
LEMMA SettlementsType ==
    ASSUME TypeOK, NEW sender \in Users, NEW j \in JobIds,
           \/ FinalizeDecision(sender, j)
           \/ SettleAppealTimeout(sender, j)
           \/ \E decision \in 0..3, hash \in Hashes : ResolveAppeal(sender, j, decision, hash)
    PROVE  TypeOK'
<1>1. ASSUME j \in DOMAIN decisions
      PROVE  decisions[j].original \in {DECISION_APPROVE, DECISION_REJECT}
  BY <1>1 DEF TypeOK, MapsTypeOK, IsMap, Decision
<1>2. CASE FinalizeDecision(sender, j)
  BY <1>1, <1>2, SettleType DEF FinalizeDecision
<1>3. CASE SettleAppealTimeout(sender, j)
  BY <1>1, <1>3, SettleType DEF SettleAppealTimeout
<1>4. ASSUME NEW decision \in 0..3, NEW hash \in Hashes,
             ResolveAppeal(sender, j, decision, hash)
      PROVE  TypeOK'
  BY <1>4, SettleType DEF ResolveAppeal, IsValidDecision
<1> QED
  BY <1>2, <1>3, <1>4

LEMMA SettleReviewTimeoutType ==
    ASSUME TypeOK, NEW sender \in Users, NEW j \in JobIds, SettleReviewTimeout(sender, j)
    PROVE  TypeOK'
<1>1. j \in DOMAIN jobs /\ jobs[j].provider # NONE
  BY DEF SettleReviewTimeout
<1>2. jobs[j].budget \in Nat /\ jobs[j].provider \in Principals
  BY <1>1, JobType DEF Job
<1>3. JobsTypeOK'
  <2>1. STATUS_TIMEOUT_PAID \in 0..8
    BY DEF STATUS_TIMEOUT_PAID
  <2> QED
    BY <1>1, <2>1, StatusType DEF SettleReviewTimeout
<1>4. IsMap(escrowBalances', 1..jobCounter, Nat)
  BY MapDeleteIsMap DEF SettleReviewTimeout, EscrowWithout, TypeOK, MapsTypeOK
<1>5. MapsTypeOK'
  BY <1>4 DEF SettleReviewTimeout, TypeOK, MapsTypeOK, feeVars, reputationVars
<1>6. ChainTypeOK'
  BY <1>2, TransferType, PrincipalsAssumption
  DEF SettleReviewTimeout, StxTransfer, TypeOK, ChainTypeOK, timeVars
<1> QED
  BY <1>3, <1>5, <1>6, GovernanceFrame, RegistryFrame DEF TypeOK, SettleReviewTimeout

LEMMA ExpireJobType ==
    ASSUME TypeOK, NEW sender \in Users, NEW j \in JobIds, ExpireJob(sender, j)
    PROVE  TypeOK'
<1> DEFINE escrowed == MapGetOr(escrowBalances, j, 0)
<1>1. j \in DOMAIN jobs
  BY DEF ExpireJob
<1>2. escrowed \in Nat /\ jobs[j].client \in Principals
  BY <1>1, JobType DEF Job, MapGetOr, TypeOK, MapsTypeOK, IsMap
<1>3. JobsTypeOK'
  <2>1. STATUS_EXPIRED \in 0..8
    BY DEF STATUS_EXPIRED
  <2> QED
    BY <1>1, <2>1, StatusType DEF ExpireJob
<1>4. /\ IsMap(escrowBalances', 1..jobCounter, Nat)
      /\ stx' \in [Principals -> Nat]
  <2>1. CASE escrowed > 0
    <3>1. /\ escrowBalances' = EscrowWithout(j)
          /\ StxTransfer(escrowed, Escrow, jobs[j].client)
      BY <2>1 DEF ExpireJob
    <3>2. IsMap(escrowBalances', 1..jobCounter, Nat)
      BY <3>1, MapDeleteIsMap DEF EscrowWithout, TypeOK, MapsTypeOK
    <3> HIDE DEF escrowed
    <3>3. stx' \in [Principals -> Nat]
      BY <1>2, <3>1, TransferType, PrincipalsAssumption
      DEF StxTransfer, TypeOK, ChainTypeOK
    <3> QED
      BY <3>2, <3>3
  <2>2. CASE ~(escrowed > 0)
    BY <2>2 DEF ExpireJob, moneyVars, TypeOK, MapsTypeOK, ChainTypeOK
  <2> QED
    BY <2>1, <2>2
<1>5. MapsTypeOK'
  BY <1>4 DEF ExpireJob, TypeOK, MapsTypeOK, feeVars, reputationVars
<1>6. ChainTypeOK'
  BY <1>4 DEF ExpireJob, TypeOK, ChainTypeOK, timeVars
<1> QED
  BY <1>3, <1>5, <1>6, GovernanceFrame, RegistryFrame DEF TypeOK, ExpireJob

LEMMA WaiveServiceFeeType ==
    ASSUME TypeOK, NEW sender \in Users, NEW j \in JobIds, NEW hash \in Hashes,
           WaiveServiceFee(sender, j, hash)
    PROVE  TypeOK'
<1>1. j \in 1..jobCounter
  BY JobType DEF WaiveServiceFee
<1>2. MapsTypeOK'
  BY <1>1 DEF WaiveServiceFee, TypeOK, MapsTypeOK, jobVars, moneyVars, reputationVars
<1> QED
  BY <1>2, GovernanceFrame, JobsFrame, ChainFrame, RegistryFrame
  DEF TypeOK, WaiveServiceFee, moneyVars

LEMMA RefundServiceFeeType ==
    ASSUME TypeOK, NEW sender \in Users, NEW j \in JobIds, RefundServiceFee(sender, j)
    PROVE  TypeOK'
<1> DEFINE s == serviceFeeSettlements[j]
           row == [s EXCEPT !.refundedFee = s.chargedFee]
<1>1. j \in DOMAIN jobs /\ j \in DOMAIN serviceFeeSettlements
  BY DEF RefundServiceFee
<1>2. /\ IsMap(serviceFeeSettlements, 1..jobCounter, Settlement)
      /\ s \in Settlement /\ jobs[j].treasury \in Principals
  BY <1>1, JobType DEF TypeOK, MapsTypeOK, IsMap, Job
<1>3. IsMap(serviceFeeSettlements', 1..jobCounter, Settlement)
  <2>1. row \in Settlement
    BY <1>2 DEF Settlement
  <2>2. serviceFeeSettlements' = [serviceFeeSettlements EXCEPT ![j] = row]
    BY DEF RefundServiceFee
  <2> HIDE DEF row
  <2> QED
    BY <1>1, <1>2, <2>1, <2>2, MapExceptIsMap
<1>4. stx' \in [Principals -> Nat]
  <2>1. s.recipient \in Principals /\ s.chargedFee \in Nat /\ s.refundedFee \in Nat
    BY <1>2 DEF Settlement
  <2>2. StxTransfer(s.chargedFee - s.refundedFee, jobs[j].treasury, s.recipient)
    BY DEF RefundServiceFee, RefundPayer
  <2> DEFINE due == s.chargedFee - s.refundedFee
  <2>3. due \in Int /\ due > 0
    BY <2>1, <2>2 DEF StxTransfer, CanTransfer
  <2> QED
    BY <1>2, <2>1, <2>2, <2>3, TransferType DEF StxTransfer, TypeOK, ChainTypeOK
<1>5. MapsTypeOK'
  BY <1>3 DEF RefundServiceFee, TypeOK, MapsTypeOK, jobVars, reputationVars
<1>6. ChainTypeOK'
  BY <1>4 DEF RefundServiceFee, TypeOK, ChainTypeOK, timeVars
<1> QED
  BY <1>5, <1>6, GovernanceFrame, JobsFrame, RegistryFrame DEF TypeOK, RefundServiceFee

LEMMA RetryReputationSyncType ==
    ASSUME TypeOK, NEW sender \in Users, NEW j \in JobIds, RetryReputationSync(sender, j)
    PROVE  TypeOK'
<1>1. j \in DOMAIN jobs /\ jobs[j].provider \in Principals
  BY JobType DEF RetryReputationSync, Job
<1>2. reputationSync[j].outcome \in {OUTCOME_COMPLETED, OUTCOME_DISPUTED}
  BY DEF RetryReputationSync, TypeOK, MapsTypeOK, IsMap, Sync
<1>3. /\ Registry!TypeOK'
      /\ IsMap(reputationSync', 1..jobCounter, Sync)
  BY <1>1, <1>2, SyncReputationType DEF RetryReputationSync
<1>4. MapsTypeOK'
  BY <1>3 DEF RetryReputationSync, TypeOK, MapsTypeOK, jobVars, feeVars, moneyVars
<1> QED
  BY <1>3, <1>4, GovernanceFrame, JobsFrame, ChainFrame
  DEF TypeOK, RetryReputationSync, moneyVars

LEMMA RateProviderType ==
    ASSUME TypeOK, NEW sender \in Users, NEW j \in JobIds, NEW score \in Nat,
           RateProvider(sender, j, score)
    PROVE  TypeOK'
<1>1. j \in 1..jobCounter /\ jobs[j].provider \in Principals /\ score \in 1..5
  BY JobType DEF RateProvider, Job
<1>2. Registry!TypeOK'
  BY <1>1, PrincipalsAssumption, RegistryRatingType DEF RateProvider, Users, TypeOK
<1>3. IsMap(jobRatings', [jobId : 1..jobCounter, rater : Principals], 1..5)
  <2>1. [jobId |-> j, rater |-> sender] \in [jobId : 1..jobCounter, rater : Principals]
    BY <1>1 DEF Users
  <2> QED
    BY <1>1, <2>1, MapSetIsMap DEF RateProvider, TypeOK, MapsTypeOK
<1>4. MapsTypeOK'
  BY <1>3 DEF RateProvider, TypeOK, MapsTypeOK, jobVars, feeVars, moneyVars
<1> QED
  BY <1>2, <1>4, GovernanceFrame, JobsFrame, ChainFrame DEF TypeOK, RateProvider, moneyVars

LEMMA WorldType == ASSUME TypeOK, World PROVE TypeOK'
<1> USE DEF commerceVars, jobVars
<1>1. CASE AdvanceStacksBlock
  <2>1. ChainTypeOK'
    BY <1>1, BoundAssumption DEF AdvanceStacksBlock, TypeOK, ChainTypeOK
  <2> QED
    BY <1>1, <2>1, GovernanceFrame, JobsFrame, MapsFrame, RegistryFrame
    DEF AdvanceStacksBlock, TypeOK
<1>2. CASE AdvanceBurnBlock
  <2>1. ChainTypeOK'
    BY <1>2, BoundAssumption DEF AdvanceBurnBlock, TypeOK, ChainTypeOK
  <2> QED
    BY <1>2, <2>1, GovernanceFrame, JobsFrame, MapsFrame, RegistryFrame
    DEF AdvanceBurnBlock, TypeOK
<1>3. ASSUME NEW sender \in Users, NEW to \in Principals, NEW amount \in ExternalAmounts,
             ExternalTransfer(sender, to, amount)
      PROVE  TypeOK'
  <2>1. ChainTypeOK'
    BY <1>3, InputAssumption, TransferType
    DEF ExternalTransfer, StxTransfer, TypeOK, ChainTypeOK, timeVars, Users
  <2> QED
    BY <1>3, <2>1, GovernanceFrame, JobsFrame, MapsFrame, RegistryFrame
    DEF ExternalTransfer, TypeOK
<1>4. ASSUME NEW sender \in Users, RegistryStep(sender) PROVE TypeOK'
  BY <1>4, RegistryStepType
<1> QED
  BY <1>1, <1>2, <1>3, <1>4 DEF World

LEMMA NextTypeOK == TypeOK /\ [Next]_vars => TypeOK'
<1> SUFFICES ASSUME TypeOK, [Next]_vars PROVE TypeOK'
  OBVIOUS
<1>1. CASE UNCHANGED vars
  BY <1>1, GovernanceFrame, JobsFrame, MapsFrame, ChainFrame, RegistryFrame
  DEF vars, TypeOK, jobVars, moneyVars
<1>2. ASSUME NEW sender \in Users, Governance(sender) PROVE TypeOK'
  BY <1>2, GovernanceStepType
<1>3. ASSUME NEW sender \in Users, Hiring(sender) PROVE TypeOK'
  BY <1>3, InputAssumption, CreateJobType, SetBudgetType, FundJobType,
     AssignProviderType, SubmitWorkType DEF Hiring
<1>4. ASSUME NEW sender \in Users, Judging(sender) PROVE TypeOK'
  BY <1>4, RecordDecisionType, AppealDecisionType, SettlementsType,
     WaiveServiceFeeType DEF Judging
<1>5. ASSUME NEW sender \in Users, NEW j \in JobIds, Permissionless(sender, j)
      PROVE  TypeOK'
  BY <1>5, SettlementsType, SettleReviewTimeoutType, ExpireJobType DEF Permissionless
<1>6. ASSUME NEW sender \in Users, Aftermath(sender) PROVE TypeOK'
  BY <1>6, InputAssumption, RefundServiceFeeType, RetryReputationSyncType,
     RateProviderType DEF Aftermath
<1>7. CASE World
  BY <1>7, WorldType
<1> QED
  BY <1>1, <1>2, <1>3, <1>4, <1>5, <1>6, <1>7 DEF Next

\* Every map, balance, clock and registry aggregate keeps its declared type
\* whatever the parties call in whatever order: in particular no uint of the
\* contract underflows (net = gross - fee, charged - refunded, every balance).
THEOREM TypeCorrect == Spec => []TypeOK
BY InitTypeOK, NextTypeOK, PTL DEF Spec

-----------------------------------------------------------------------------
(* Owner, appeal authority and treasury *)

\* GovernanceSeparated is not inductive by itself: an authority proposed before
\* the configuration would only have been compared with the roles of then.  The
\* contract accepts no such proposal.
GovernanceInv ==
    /\ GovernanceSeparated
    /\ ~protocolConfigured => pendingAppealAuthority = NONE

LEMMA GovernanceInit == Init => GovernanceInv
BY DEF Init, GovernanceInv, GovernanceSeparated

LEMMA GovernanceStep ==
    ASSUME TypeOK, GovernanceInv, NEW sender \in Users, Governance(sender)
    PROVE  GovernanceInv'
<1> USE DEF GovernanceInv, GovernanceSeparated, ownerVars, authorityVars, configVars
<1>1. ASSUME NEW w \in AppealWindows, NEW authority \in Principals,
             NEW treasury \in Principals,
             InitializeProtocol(sender, w, authority, treasury)
      PROVE  GovernanceInv'
  BY <1>1 DEF InitializeProtocol
<1>2. ASSUME NEW p \in Principals, ProposeOwner(sender, p) PROVE GovernanceInv'
  BY <1>2 DEF ProposeOwner
<1>3. CASE AcceptOwner(sender)
  BY <1>3 DEF AcceptOwner
<1>4. CASE CancelOwnerProposal(sender)
  BY <1>4 DEF CancelOwnerProposal
<1>5. ASSUME NEW p \in Principals, ProposeAppealAuthority(sender, p)
      PROVE  GovernanceInv'
  BY <1>5 DEF ProposeAppealAuthority
<1>6. CASE AcceptAppealAuthority(sender)
  BY <1>6, PrincipalsAssumption DEF AcceptAppealAuthority, MayTakeAuthority, Users
<1>7. CASE CancelAppealAuthorityProposal(sender)
  BY <1>7 DEF CancelAppealAuthorityProposal
<1> QED
  BY <1>1, <1>2, <1>3, <1>4, <1>5, <1>6, <1>7 DEF Governance

JobCalls ==
    \E sender \in Users :
        \/ Hiring(sender)
        \/ Judging(sender)
        \/ \E j \in JobIds : Permissionless(sender, j)
        \/ Aftermath(sender)

\* Every other operation leaves the governance alone.
LEMMA OthersKeepGovernance == JobCalls \/ World => UNCHANGED governanceVars
<1>1. ASSUME NEW sender \in Users, Hiring(sender) PROVE UNCHANGED governanceVars
  BY <1>1 DEF Hiring, CreateJob, SetBudget, FundJob, AssignProvider, SubmitWork
<1>2. ASSUME NEW sender \in Users, Judging(sender) PROVE UNCHANGED governanceVars
  BY <1>2 DEF Judging, RecordDecision, AppealDecision, ResolveAppeal, Settle,
              WaiveServiceFee
<1>3. ASSUME NEW sender \in Users, NEW j \in JobIds, Permissionless(sender, j)
      PROVE  UNCHANGED governanceVars
  BY <1>3 DEF Permissionless, FinalizeDecision, SettleAppealTimeout, Settle,
              SettleReviewTimeout, ExpireJob
<1>4. ASSUME NEW sender \in Users, Aftermath(sender) PROVE UNCHANGED governanceVars
  BY <1>4 DEF Aftermath, RefundServiceFee, RetryReputationSync, RateProvider
<1>5. CASE World
  BY <1>5 DEF World, AdvanceStacksBlock, AdvanceBurnBlock, ExternalTransfer,
              RegistryStep, commerceVars
<1> QED
  BY <1>1, <1>2, <1>3, <1>4, <1>5 DEF JobCalls

LEMMA NextCases ==
    Next => (\E sender \in Users : Governance(sender)) \/ JobCalls \/ World
BY DEF Next, JobCalls

LEMMA GovernanceNext == TypeOK /\ GovernanceInv /\ [Next]_vars => GovernanceInv'
<1> SUFFICES ASSUME TypeOK, GovernanceInv, [Next]_vars PROVE GovernanceInv'
  OBVIOUS
<1>1. ASSUME NEW sender \in Users, Governance(sender) PROVE GovernanceInv'
  BY <1>1, GovernanceStep
<1>2. ASSUME UNCHANGED governanceVars PROVE GovernanceInv'
  BY <1>2 DEF GovernanceInv, GovernanceSeparated, governanceVars, ownerVars,
              authorityVars, configVars
<1> QED
  BY <1>1, <1>2, NextCases, OthersKeepGovernance DEF vars

\* Owner, appeal authority and treasury stay three different principals in every
\* order of proposing, cancelling and accepting two overlapping rotations.
THEOREM GovernanceStaysSeparated == Spec => []GovernanceSeparated
<1>1. Spec => []TypeOK
  BY TypeCorrect
<1>2. GovernanceInv => GovernanceSeparated
  BY DEF GovernanceInv
<1> QED
  BY <1>1, <1>2, GovernanceInit, GovernanceNext, PTL DEF Spec

-----------------------------------------------------------------------------
(* The parties of a job *)

\* A step that creates no job and assigns no provider: every role stays.
RolesKept ==
    /\ DOMAIN jobs' = DOMAIN jobs
    /\ \A j \in DOMAIN jobs :
        /\ jobs'[j].client = jobs[j].client
        /\ jobs'[j].provider = jobs[j].provider
        /\ jobs'[j].evaluator = jobs[j].evaluator
        /\ jobs'[j].appealAuthority = jobs[j].appealAuthority
        /\ jobs'[j].treasury = jobs[j].treasury

LEMMA StatusKeepsRoles ==
    ASSUME TypeOK, NEW j \in DOMAIN jobs, NEW s, jobs' = [jobs EXCEPT ![j].status = s]
    PROVE  RolesKept
BY DEF TypeOK, JobsTypeOK, Job, RolesKept

LEMMA UnchangedKeepsRoles == UNCHANGED jobs => RolesKept
BY DEF RolesKept

LEMMA HiringRoles ==
    ASSUME TypeOK, NEW sender \in Users, Hiring(sender)
    PROVE  \/ RolesKept
           \/ \E p \in Principals \cup {NONE}, e \in Principals,
                 x \in Nat : CreateJob(sender, p, e, x)
           \/ \E j \in JobIds, p \in Principals : AssignProvider(sender, j, p)
<1>1. ASSUME NEW j \in JobIds, NEW amount \in Budgets, SetBudget(sender, j, amount)
      PROVE  RolesKept
  BY <1>1 DEF SetBudget, TypeOK, JobsTypeOK, Job, RolesKept
<1>2. ASSUME NEW j \in JobIds, FundJob(sender, j) PROVE RolesKept
  BY <1>2, StatusKeepsRoles DEF FundJob
<1>3. ASSUME NEW j \in JobIds, SubmitWork(sender, j) PROVE RolesKept
  BY <1>3 DEF SubmitWork, TypeOK, JobsTypeOK, Job, RolesKept
<1> QED
  BY <1>1, <1>2, <1>3 DEF Hiring

LEMMA SettleKeepsRoles ==
    ASSUME TypeOK, NEW sender, NEW j \in DOMAIN jobs, NEW d, Settle(sender, j, d)
    PROVE  RolesKept
BY StatusKeepsRoles DEF Settle

LEMMA OthersKeepRoles ==
    ASSUME TypeOK, NEW sender \in Users,
           \/ Governance(sender) \/ Judging(sender)
           \/ \E j \in JobIds : Permissionless(sender, j)
           \/ Aftermath(sender) \/ World
    PROVE  RolesKept
<1>1. CASE Governance(sender)
  BY <1>1, UnchangedKeepsRoles
  DEF Governance, InitializeProtocol, ProposeOwner, AcceptOwner, CancelOwnerProposal,
      ProposeAppealAuthority, AcceptAppealAuthority, CancelAppealAuthorityProposal, jobVars
<1>2. CASE Judging(sender)
  BY <1>2, StatusKeepsRoles, SettleKeepsRoles, UnchangedKeepsRoles
  DEF Judging, RecordDecision, AppealDecision, ResolveAppeal, WaiveServiceFee, jobVars
<1>3. ASSUME NEW j \in JobIds, Permissionless(sender, j) PROVE RolesKept
  BY <1>3, StatusKeepsRoles, SettleKeepsRoles
  DEF Permissionless, FinalizeDecision, SettleAppealTimeout, SettleReviewTimeout, ExpireJob
<1>4. CASE Aftermath(sender)
  BY <1>4, UnchangedKeepsRoles
  DEF Aftermath, RefundServiceFee, RetryReputationSync, RateProvider, jobVars
<1>5. CASE World
  BY <1>5, UnchangedKeepsRoles
  DEF World, AdvanceStacksBlock, AdvanceBurnBlock, ExternalTransfer, RegistryStep,
      commerceVars, jobVars
<1> QED
  BY <1>1, <1>2, <1>3, <1>4, <1>5

LEMMA PartiesNext ==
    TypeOK /\ GovernanceInv /\ JobPartiesSeparated /\ [Next]_vars => JobPartiesSeparated'
<1> SUFFICES ASSUME TypeOK, GovernanceInv, JobPartiesSeparated, [Next]_vars
             PROVE  JobPartiesSeparated'
  OBVIOUS
<1>1. ASSUME RolesKept PROVE JobPartiesSeparated'
  BY <1>1 DEF RolesKept, JobPartiesSeparated
<1>2. ASSUME NEW sender \in Users, NEW p \in Principals \cup {NONE},
             NEW e \in Principals, NEW x \in Nat,
             CreateJob(sender, p, e, x)
      PROVE  JobPartiesSeparated'
  BY <1>2, PrincipalsAssumption
  DEF CreateJob, MapSet, JobPartiesSeparated, GovernanceInv, GovernanceSeparated,
      TypeOK, JobsTypeOK, GovernanceTypeOK, Users
<1>3. ASSUME NEW sender \in Users, NEW j \in JobIds, NEW p \in Principals,
             AssignProvider(sender, j, p)
      PROVE  JobPartiesSeparated'
  BY <1>3 DEF AssignProvider, MayProvide, JobPartiesSeparated, TypeOK, JobsTypeOK, Job
<1>4. CASE UNCHANGED vars
  BY <1>1, <1>4, UnchangedKeepsRoles DEF vars, jobVars
<1>5. Users # {}
  BY PrincipalsAssumption DEF Users
<1> QED
  BY <1>1, <1>2, <1>3, <1>4, <1>5, HiringRoles, OthersKeepRoles DEF Next

\* No principal ever holds two of the roles of a job, whatever rotation or
\* reassignment happened since it was created.
THEOREM PartiesStaySeparated == Spec => []JobPartiesSeparated
<1>1. Init => JobPartiesSeparated
  BY DEF Init, EmptyMap, JobPartiesSeparated
<1>2. Spec => []TypeOK
  BY TypeCorrect
<1> QED
  BY <1>1, <1>2, GovernanceInit, GovernanceNext, PartiesNext, PTL DEF Spec

\* Nobody ever holds two roles, neither of the protocol nor of a job.
THEOREM RolesStaySeparated == Spec => []RolesSeparated
<1>1. GovernanceSeparated /\ JobPartiesSeparated => RolesSeparated
  BY DEF RolesSeparated
<1> QED
  BY <1>1, GovernanceStaysSeparated, PartiesStaySeparated, PTL

-----------------------------------------------------------------------------
(* Induction on a set of numbers *)

LEMMA LeastNumber ==
    ASSUME NEW T, T \subseteq Nat, T # {}
    PROVE  \E x \in T : \A y \in T : x <= y
<1> DEFINE R == OpToRel(<, Nat)
<1>1. IsWellFoundedOn(R, Nat)
  BY NatLessThanWellFounded
<1>2. \A y, x \in Nat : y < x => <<y, x>> \in R
  BY DEF OpToRel
<1> HIDE DEF R
<1>3. PICK x \in T : \A y \in T : ~ (<<y, x>> \in R)
  BY <1>1, WFMin
<1>4. ASSUME NEW y \in T PROVE x <= y
  <2>1. x \in Nat /\ y \in Nat
    OBVIOUS
  <2>2. ~ (y < x)
    BY <1>2, <1>3, <2>1, Zenon
  <2> QED
    BY <2>1, <2>2
<1> QED
  BY <1>4

LEMMA SetInduction ==
    ASSUME NEW S, 0 \in S, \A n \in Nat : n \in S => n + 1 \in S
    PROVE  Nat \subseteq S
<1> SUFFICES ASSUME ~ (Nat \subseteq S) PROVE FALSE
  OBVIOUS
<1>1. PICK x \in Nat \ S : \A y \in Nat \ S : x <= y
  BY LeastNumber
<1>2. x # 0 /\ x - 1 \in Nat
  BY <1>1
<1>3. x - 1 \in S
  BY <1>1, <1>2
<1> QED
  BY <1>1, <1>2, <1>3

-----------------------------------------------------------------------------
(* What the escrow map owes *)

At(b, n) == MapGetOr(b, n, 0)

\* s[n] is what b owes for the jobs 1..n.
IsPartialSum(s, b, m) ==
    s = [n \in 0..m |-> IF n = 0 THEN 0 ELSE s[n - 1] + At(b, n)]

LEMMA PartialSumExists ==
    ASSUME NEW b, \A n \in Nat : At(b, n) \in Int
    PROVE  \A m \in Nat : \E s \in [0..m -> Int] : IsPartialSum(s, b, m)
<1> DEFINE S == {m \in Nat : \E s \in [0..m -> Int] : IsPartialSum(s, b, m)}
<1>1. 0 \in S
  <2> DEFINE s == [n \in 0..0 |-> 0]
  <2>1. s \in [0..0 -> Int] /\ IsPartialSum(s, b, 0)
    BY DEF IsPartialSum
  <2> QED
    BY <2>1
<1>2. ASSUME NEW m \in S PROVE m + 1 \in S
  <2>1. PICK s \in [0..m -> Int] : IsPartialSum(s, b, m)
    OBVIOUS
  <2> DEFINE t == [n \in 0..(m + 1) |-> IF n = m + 1 THEN s[m] + At(b, m + 1) ELSE s[n]]
  <2>2. m \in Nat /\ m \in 0..m /\ s[m] + At(b, m + 1) \in Int
    OBVIOUS
  <2>3. t \in [0..(m + 1) -> Int]
    BY <2>1, <2>2
  <2>4. \A n \in 0..(m + 1) : t[n] = IF n = 0 THEN 0 ELSE t[n - 1] + At(b, n)
    <3> SUFFICES ASSUME NEW n \in 0..(m + 1)
                 PROVE  t[n] = IF n = 0 THEN 0 ELSE t[n - 1] + At(b, n)
      OBVIOUS
    <3>1. CASE n = m + 1
      <4>1. t[n] = s[m] + At(b, m + 1)
        BY <3>1
      <4>2. n # 0 /\ n - 1 = m /\ t[m] = s[m]
        BY <2>2, <3>1
      <4> QED
        BY <3>1, <4>1, <4>2
    <3>2. CASE n # m + 1
      <4>1. n \in 0..m /\ t[n] = s[n]
        BY <2>2, <3>2
      <4>2. s[n] = IF n = 0 THEN 0 ELSE s[n - 1] + At(b, n)
        BY <2>1, <4>1 DEF IsPartialSum
      <4>3. n # 0 => n - 1 \in 0..(m + 1) /\ t[n - 1] = s[n - 1]
        BY <2>2, <4>1
      <4> QED
        BY <4>1, <4>2, <4>3
    <3> QED
      BY <3>1, <3>2
  <2>5. IsPartialSum(t, b, m + 1)
    <3> HIDE DEF t
    <3> QED
      BY <2>3, <2>4 DEF IsPartialSum
  <2> HIDE DEF t
  <2> QED
    BY <2>2, <2>3, <2>5
<1> HIDE DEF S
<1>3. Nat \subseteq S
  BY <1>1, <1>2, SetInduction
<1> QED
  BY <1>3 DEF S

LEMMA PartialSumUnique ==
    ASSUME NEW b, NEW m \in Nat, NEW s, NEW t, IsPartialSum(s, b, m), IsPartialSum(t, b, m)
    PROVE  s[m] = t[m]
<1> DEFINE S == {n \in Nat : n \in 0..m => s[n] = t[n]}
<1>1. 0 \in S
  BY DEF IsPartialSum
<1>2. ASSUME NEW n \in S PROVE n + 1 \in S
  BY DEF IsPartialSum
<1> HIDE DEF S
<1>3. Nat \subseteq S
  BY <1>1, <1>2, SetInduction
<1> QED
  BY <1>3 DEF S

LEMMA OwedIsPartialSum ==
    ASSUME NEW b, \A n \in Nat : At(b, n) \in Int
    PROVE  \E s \in [0..MaxJobs -> Int] : IsPartialSum(s, b, MaxJobs) /\ Owed(b) = s[MaxJobs]
<1> DEFINE c == CHOOSE s : IsPartialSum(s, b, MaxJobs)
<1>1. PICK s \in [0..MaxJobs -> Int] : IsPartialSum(s, b, MaxJobs)
  BY PartialSumExists, BoundAssumption
<1>2. IsPartialSum(c, b, MaxJobs)
  BY <1>1
<1>3. Owed(b) = c[MaxJobs]
  BY DEF Owed, IsPartialSum, At
<1>4. c[MaxJobs] = s[MaxJobs]
  BY <1>1, <1>2, PartialSumUnique, BoundAssumption
<1> QED
  BY <1>1, <1>3, <1>4

\* Changing the row of one job changes what is owed by the change of that row.
LEMMA OwedUpdate ==
    ASSUME NEW b, \A n \in Nat : At(b, n) \in Int,
           NEW c, \A n \in Nat : At(c, n) \in Int,
           NEW k \in JobIds, \A n \in Nat : n # k => At(c, n) = At(b, n)
    PROVE  /\ Owed(b) \in Int /\ Owed(c) \in Int
           /\ Owed(c) - Owed(b) = At(c, k) - At(b, k)
<1> DEFINE d == At(c, k) - At(b, k)
<1>1. k \in Nat /\ k > 0 /\ k <= MaxJobs /\ MaxJobs \in Nat
  BY BoundAssumption DEF JobIds
<1>2. d \in Int /\ At(c, k) = At(b, k) + d
  BY <1>1
<1>3. PICK s \in [0..MaxJobs -> Int] : IsPartialSum(s, b, MaxJobs) /\ Owed(b) = s[MaxJobs]
  BY OwedIsPartialSum
<1>4. PICK u \in [0..MaxJobs -> Int] : IsPartialSum(u, c, MaxJobs) /\ Owed(c) = u[MaxJobs]
  BY OwedIsPartialSum
<1> DEFINE t == [n \in 0..MaxJobs |-> IF n >= k THEN s[n] + d ELSE s[n]]
<1> HIDE DEF d
<1>5. \A n \in 0..MaxJobs : t[n] = IF n = 0 THEN 0 ELSE t[n - 1] + At(c, n)
  <2> SUFFICES ASSUME NEW n \in 0..MaxJobs
               PROVE  t[n] = IF n = 0 THEN 0 ELSE t[n - 1] + At(c, n)
    OBVIOUS
  <2>1. s[n] = IF n = 0 THEN 0 ELSE s[n - 1] + At(b, n)
    BY <1>3 DEF IsPartialSum
  <2>2. CASE n = 0
    BY <1>1, <2>1, <2>2
  <2>3. CASE n # 0
    <3>1. n \in Nat /\ n - 1 \in 0..MaxJobs /\ At(b, n) \in Int /\ At(c, n) \in Int
      BY <1>1, <2>3
    <3>2. s[n] \in Int /\ s[n - 1] \in Int
      BY <3>1
    <3>3. CASE n = k
      BY <1>1, <1>2, <2>1, <2>3, <3>1, <3>2, <3>3
    <3>4. CASE n # k
      <4>1. At(c, n) = At(b, n)
        BY <3>1, <3>4
      <4>2. s[n] = s[n - 1] + At(c, n)
        BY <2>1, <2>3, <4>1
      <4>3. CASE n < k
        BY <1>1, <2>3, <3>1, <4>2, <4>3
      <4>4. CASE n > k
        <5>1. t[n] = s[n] + d /\ t[n - 1] = s[n - 1] + d
          BY <1>1, <3>1, <4>4
        <5> QED
          BY <1>2, <2>3, <3>1, <3>2, <4>2, <5>1
      <4> QED
        BY <1>1, <3>1, <3>4, <4>3, <4>4
    <3> QED
      BY <3>3, <3>4
  <2> QED
    BY <2>2, <2>3
<1>6. IsPartialSum(t, c, MaxJobs)
  <2>1. t = [n \in 0..MaxJobs |-> t[n]]
    OBVIOUS
  <2> HIDE DEF t
  <2> QED
    BY <1>5, <2>1 DEF IsPartialSum
<1>7. t[MaxJobs] = u[MaxJobs]
  <2> HIDE DEF t
  <2> QED
    BY <1>1, <1>4, <1>6, PartialSumUnique
<1>8. t[MaxJobs] = s[MaxJobs] + d
  BY <1>1
<1>9. s[MaxJobs] \in Int /\ u[MaxJobs] \in Int
  BY <1>1
<1> HIDE DEF t
<1>10. Owed(c) - Owed(b) = d
  BY <1>2, <1>3, <1>4, <1>7, <1>8, <1>9
<1> QED
  BY <1>3, <1>4, <1>9, <1>10 DEF d

LEMMA OwedNothing ==
    ASSUME NEW b, \A n \in Nat : At(b, n) = 0
    PROVE  Owed(b) = 0
<1>1. \A n \in Nat : At(b, n) \in Int
  OBVIOUS
<1>2. PICK s \in [0..MaxJobs -> Int] : IsPartialSum(s, b, MaxJobs) /\ Owed(b) = s[MaxJobs]
  BY <1>1, OwedIsPartialSum
<1> DEFINE z == [n \in 0..MaxJobs |-> 0]
<1>3. IsPartialSum(z, b, MaxJobs)
  BY BoundAssumption DEF IsPartialSum
<1>4. z[MaxJobs] = 0
  BY BoundAssumption
<1> HIDE DEF z
<1> QED
  BY <1>2, <1>3, <1>4, PartialSumUnique, BoundAssumption

-----------------------------------------------------------------------------
(* The escrow row of a job exists exactly while its status holds money *)

LEMMA Closing ==
    \A s \in {STATUS_COMPLETED, STATUS_REJECTED, STATUS_EXPIRED, STATUS_TIMEOUT_PAID} :
        s \notin HeldStatuses
BY DEF HeldStatuses, STATUS_FUNDED, STATUS_SUBMITTED, STATUS_COMPLETED, STATUS_REJECTED,
       STATUS_EXPIRED, STATUS_TIMEOUT_PAID, STATUS_DECISION_PENDING, STATUS_DISPUTED

LEMMA Held == /\ HeldStatuses = {1, 2, 7, 8}
              /\ STATUS_OPEN = 0 /\ STATUS_FUNDED = 1 /\ STATUS_SUBMITTED = 2
              /\ STATUS_COMPLETED = 3 /\ STATUS_REJECTED = 4 /\ STATUS_EXPIRED = 5
              /\ STATUS_TIMEOUT_PAID = 6 /\ STATUS_DECISION_PENDING = 7
              /\ STATUS_DISPUTED = 8
BY DEF HeldStatuses, STATUS_OPEN, STATUS_FUNDED, STATUS_SUBMITTED, STATUS_COMPLETED,
       STATUS_REJECTED, STATUS_EXPIRED, STATUS_TIMEOUT_PAID, STATUS_DECISION_PENDING,
       STATUS_DISPUTED

\* A step that moves a job between two statuses that hold money, or none.
MoneyStays ==
    /\ UNCHANGED escrowBalances
    /\ DOMAIN jobs' = DOMAIN jobs
    /\ \A j \in DOMAIN jobs :
        /\ jobs'[j].budget = jobs[j].budget
        /\ jobs'[j].status \in HeldStatuses <=> jobs[j].status \in HeldStatuses

LEMMA MoneyStaysMatches ==
    ASSUME EscrowMatchesStatus, MoneyStays
    PROVE  EscrowMatchesStatus'
BY DEF EscrowMatchesStatus, MoneyStays, HeldStatuses

LEMMA StatusMoves ==
    ASSUME TypeOK, NEW j \in DOMAIN jobs, NEW s, UNCHANGED escrowBalances,
           jobs' = [jobs EXCEPT ![j].status = s],
           s \in HeldStatuses <=> jobs[j].status \in HeldStatuses
    PROVE  MoneyStays
BY DEF MoneyStays, TypeOK, JobsTypeOK, Job

LEMMA MoneyLeaves ==
    ASSUME TypeOK, EscrowMatchesStatus, NEW j \in DOMAIN jobs, NEW s,
           s \notin HeldStatuses, jobs' = [jobs EXCEPT ![j].status = s],
           escrowBalances' = EscrowWithout(j)
    PROVE  EscrowMatchesStatus'
<1>1. /\ DOMAIN escrowBalances' = DOMAIN escrowBalances \ {j}
      /\ \A x \in DOMAIN escrowBalances : x # j => escrowBalances'[x] = escrowBalances[x]
  BY MapDeleteIsMap DEF EscrowWithout, TypeOK, MapsTypeOK
<1>2. /\ DOMAIN jobs' = DOMAIN jobs
      /\ jobs'[j].status = s
      /\ \A x \in DOMAIN jobs : x # j => jobs'[x] = jobs[x]
  BY DEF TypeOK, JobsTypeOK, Job
<1> QED
  BY <1>1, <1>2 DEF EscrowMatchesStatus

LEMMA HiringMatches ==
    ASSUME TypeOK, EscrowMatchesStatus, NEW sender \in Users, Hiring(sender)
    PROVE  EscrowMatchesStatus'
<1>1. ASSUME NEW p \in Principals \cup {NONE}, NEW e \in Principals,
             NEW x \in Nat, CreateJob(sender, p, e, x)
      PROVE  EscrowMatchesStatus'
  <2>1. jobCounter \in Nat /\ DOMAIN jobs = 1..jobCounter
    BY BoundAssumption DEF TypeOK, JobsTypeOK
  <2>2. jobCounter + 1 \notin DOMAIN escrowBalances
    BY <2>1 DEF TypeOK, MapsTypeOK, IsMap
  <2>3. /\ DOMAIN jobs' = DOMAIN jobs \cup {jobCounter + 1}
        /\ jobs'[jobCounter + 1].status = STATUS_OPEN
        /\ \A j \in DOMAIN jobs : jobs'[j] = jobs[j]
    BY <1>1, <2>1 DEF CreateJob, MapSet
  <2>4. UNCHANGED escrowBalances
    BY <1>1 DEF CreateJob, moneyVars
  <2> QED
    BY <2>2, <2>3, <2>4, Held DEF EscrowMatchesStatus
<1>2. ASSUME NEW j \in JobIds, NEW amount \in Budgets, SetBudget(sender, j, amount)
      PROVE  EscrowMatchesStatus'
  BY <1>2, Held DEF SetBudget, TypeOK, JobsTypeOK, Job, EscrowMatchesStatus, moneyVars
<1>3. ASSUME NEW j \in JobIds, FundJob(sender, j) PROVE EscrowMatchesStatus'
  <2>1. /\ DOMAIN escrowBalances' = DOMAIN escrowBalances \cup {j}
        /\ escrowBalances'[j] = jobs[j].budget
        /\ \A x \in DOMAIN escrowBalances : x # j => escrowBalances'[x] = escrowBalances[x]
    BY <1>3 DEF FundJob, MapSet
  <2>2. /\ DOMAIN jobs' = DOMAIN jobs
        /\ jobs'[j].status = STATUS_FUNDED /\ jobs'[j].budget = jobs[j].budget
        /\ jobs[j].budget > 0
        /\ \A x \in DOMAIN jobs : x # j => jobs'[x] = jobs[x]
    BY <1>3 DEF FundJob, TypeOK, JobsTypeOK, Job
  <2> QED
    BY <2>1, <2>2, Held DEF EscrowMatchesStatus
<1>4. ASSUME NEW j \in JobIds, NEW p \in Principals, AssignProvider(sender, j, p)
      PROVE  EscrowMatchesStatus'
  <2>1. MoneyStays
    BY <1>4 DEF AssignProvider, MoneyStays, TypeOK, JobsTypeOK, Job, moneyVars
  <2> QED
    BY <2>1, MoneyStaysMatches
<1>5. ASSUME NEW j \in JobIds, SubmitWork(sender, j) PROVE EscrowMatchesStatus'
  <2>1. MoneyStays
    BY <1>5, Held DEF SubmitWork, MoneyStays, TypeOK, JobsTypeOK, Job, moneyVars
  <2> QED
    BY <2>1, MoneyStaysMatches
<1> QED
  BY <1>1, <1>2, <1>3, <1>4, <1>5 DEF Hiring

LEMMA SettleMatches ==
    ASSUME TypeOK, EscrowMatchesStatus, NEW sender, NEW j \in DOMAIN jobs, NEW d,
           Settle(sender, j, d)
    PROVE  EscrowMatchesStatus'
<1>1. StatusFor(d) \notin HeldStatuses
  BY Held DEF StatusFor
<1> QED
  BY <1>1, MoneyLeaves DEF Settle

LEMMA JudgingMatches ==
    ASSUME TypeOK, EscrowMatchesStatus, NEW sender \in Users, Judging(sender)
    PROVE  EscrowMatchesStatus'
<1>1. ASSUME NEW j \in JobIds, NEW d \in 0..3, NEW h \in Hashes, NEW g \in Hashes,
             RecordDecision(sender, j, d, h, g)
      PROVE  EscrowMatchesStatus'
  <2>1. MoneyStays
    BY <1>1, StatusMoves, Held DEF RecordDecision, moneyVars
  <2> QED
    BY <2>1, MoneyStaysMatches
<1>2. ASSUME NEW j \in JobIds, NEW h \in Hashes, AppealDecision(sender, j, h)
      PROVE  EscrowMatchesStatus'
  <2>1. MoneyStays
    BY <1>2, StatusMoves, Held DEF AppealDecision, moneyVars
  <2> QED
    BY <2>1, MoneyStaysMatches
<1>3. ASSUME NEW j \in JobIds, NEW d \in 0..3, NEW h \in Hashes,
             ResolveAppeal(sender, j, d, h)
      PROVE  EscrowMatchesStatus'
  BY <1>3, SettleMatches DEF ResolveAppeal
<1>4. ASSUME NEW j \in JobIds, NEW h \in Hashes, WaiveServiceFee(sender, j, h)
      PROVE  EscrowMatchesStatus'
  BY <1>4 DEF WaiveServiceFee, EscrowMatchesStatus, jobVars, moneyVars
<1> QED
  BY <1>1, <1>2, <1>3, <1>4 DEF Judging

LEMMA PermissionlessMatches ==
    ASSUME TypeOK, EscrowMatchesStatus, NEW sender \in Users, NEW j \in JobIds,
           Permissionless(sender, j)
    PROVE  EscrowMatchesStatus'
<1>1. CASE FinalizeDecision(sender, j)
  BY <1>1, SettleMatches DEF FinalizeDecision
<1>2. CASE SettleAppealTimeout(sender, j)
  BY <1>2, SettleMatches DEF SettleAppealTimeout
<1>3. CASE SettleReviewTimeout(sender, j)
  BY <1>3, MoneyLeaves, Closing DEF SettleReviewTimeout
<1>4. CASE ExpireJob(sender, j)
  <2>1. CASE j \in DOMAIN escrowBalances
    <3>1. MapGetOr(escrowBalances, j, 0) > 0
      BY <1>4, <2>1 DEF ExpireJob, EscrowMatchesStatus, MapGetOr
    <3> QED
      BY <1>4, <3>1, MoneyLeaves, Closing DEF ExpireJob
  <2>2. CASE j \notin DOMAIN escrowBalances
    <3>1. MapGetOr(escrowBalances, j, 0) = 0
      BY <2>2 DEF MapGetOr
    <3>2. UNCHANGED escrowBalances
      BY <1>4, <3>1 DEF ExpireJob, moneyVars
    <3>3. jobs[j].status \notin HeldStatuses
      BY <1>4, <2>2 DEF ExpireJob, EscrowMatchesStatus
    <3>4. MoneyStays
      BY <1>4, <3>2, <3>3, StatusMoves, Closing DEF ExpireJob
    <3> QED
      BY <3>4, MoneyStaysMatches
  <2> QED
    BY <2>1, <2>2
<1> QED
  BY <1>1, <1>2, <1>3, <1>4 DEF Permissionless

LEMMA MatchesNext ==
    TypeOK /\ EscrowMatchesStatus /\ [Next]_vars => EscrowMatchesStatus'
<1> SUFFICES ASSUME TypeOK, EscrowMatchesStatus, [Next]_vars PROVE EscrowMatchesStatus'
  OBVIOUS
<1>1. ASSUME UNCHANGED <<jobs, escrowBalances>> PROVE EscrowMatchesStatus'
  BY <1>1 DEF EscrowMatchesStatus
<1> USE DEF jobVars, moneyVars, commerceVars
<1>2. ASSUME NEW sender \in Users, Governance(sender) PROVE EscrowMatchesStatus'
  BY <1>1, <1>2
  DEF Governance, InitializeProtocol, ProposeOwner, AcceptOwner, CancelOwnerProposal,
      ProposeAppealAuthority, AcceptAppealAuthority, CancelAppealAuthorityProposal
<1>3. ASSUME NEW sender \in Users, Aftermath(sender) PROVE EscrowMatchesStatus'
  BY <1>1, <1>3 DEF Aftermath, RefundServiceFee, RetryReputationSync, RateProvider
<1>4. CASE World
  BY <1>1, <1>4
  DEF World, AdvanceStacksBlock, AdvanceBurnBlock, ExternalTransfer, RegistryStep
<1>5. CASE UNCHANGED vars
  BY <1>1, <1>5 DEF vars
<1> QED
  BY <1>2, <1>3, <1>4, <1>5, HiringMatches, JudgingMatches, PermissionlessMatches DEF Next

\* jobs, escrow-balances and the budgets never disagree about whose money is
\* held: a job cannot be settled twice, expire after a settlement, or lose its
\* escrow row while it is open to judgement.
THEOREM EscrowAlwaysMatchesStatus == Spec => []EscrowMatchesStatus
<1>1. Init => EscrowMatchesStatus
  BY DEF Init, EmptyMap, EscrowMatchesStatus
<1>2. Spec => []TypeOK
  BY TypeCorrect
<1> QED
  BY <1>1, <1>2, MatchesNext, PTL DEF Spec

-----------------------------------------------------------------------------
(* The contract's STX move by what it records *)

\* A settled fee is refunded to an account, never to the escrow itself:
\* stx-transfer? had refused a settlement whose recipient was the contract.
RecipientsOutside ==
    \A j \in DOMAIN serviceFeeSettlements : serviceFeeSettlements[j].recipient # Escrow

EscrowInv == TypeOK /\ EscrowMatchesStatus /\ RecipientsOutside

Balanced == stx'[Escrow] - stx[Escrow] = Owed(escrowBalances') - Owed(escrowBalances)
Gift == stx'[Escrow] > stx[Escrow] /\ UNCHANGED commerceVars

LEMMA RowsAreInt ==
    ASSUME NEW b, NEW K, IsMap(b, K, Nat)
    PROVE  \A n \in Nat : At(b, n) \in Int
BY DEF IsMap, At, MapGetOr

LEMMA StillBalanced ==
    ASSUME TypeOK, UNCHANGED escrowBalances, stx'[Escrow] = stx[Escrow]
    PROVE  Balanced
<1>1. Owed(escrowBalances) \in Int
  BY RowsAreInt, OwedIsPartialSum, BoundAssumption DEF TypeOK, MapsTypeOK
<1>2. stx[Escrow] \in Int
  BY PrincipalsAssumption DEF TypeOK, ChainTypeOK
<1> QED
  BY <1>1, <1>2 DEF Balanced

\* One job's row goes from a to b and the contract's STX move by b - a.
LEMMA RowBalanced ==
    ASSUME TypeOK, NEW K, IsMap(escrowBalances', K, Nat), NEW j \in JobIds,
           \A n \in Nat : n # j => At(escrowBalances', n) = At(escrowBalances, n),
           stx'[Escrow] - stx[Escrow] = At(escrowBalances', j) - At(escrowBalances, j)
    PROVE  Balanced
<1>1. /\ \A n \in Nat : At(escrowBalances, n) \in Int
      /\ \A n \in Nat : At(escrowBalances', n) \in Int
  BY RowsAreInt DEF TypeOK, MapsTypeOK
<1> QED
  BY <1>1, OwedUpdate DEF Balanced

LEMMA PaidIn ==
    ASSUME TypeOK, NEW sender \in Users, NEW j \in JobIds, FundJob(sender, j)
    PROVE  Balanced
<1> DEFINE amount == jobs[j].budget
<1>1. amount \in Nat /\ j \in 1..jobCounter
  BY JobType DEF FundJob
<1>2. /\ escrowBalances' = MapSet(escrowBalances, j, amount)
      /\ j \notin DOMAIN escrowBalances
      /\ stx' = Transfer(stx, amount, sender, Escrow)
  BY DEF FundJob, StxTransfer
<1> HIDE DEF amount
<1>3. IsMap(escrowBalances', 1..jobCounter, Nat)
  BY <1>1, <1>2, MapSetIsMap DEF TypeOK, MapsTypeOK
<1>4. /\ At(escrowBalances', j) = amount /\ At(escrowBalances, j) = 0
      /\ \A n \in Nat : n # j => At(escrowBalances', n) = At(escrowBalances, n)
  BY <1>2 DEF At, MapGetOr, MapSet
<1>5. stx'[Escrow] - stx[Escrow] = amount
  BY <1>1, <1>2, PrincipalsAssumption DEF Transfer, TypeOK, ChainTypeOK, Users
<1> QED
  BY <1>1, <1>3, <1>4, <1>5, RowBalanced

\* A row is deleted and its amount leaves the contract.
LEMMA PaidOut ==
    ASSUME TypeOK, NEW j \in JobIds, NEW amount \in Nat,
           At(escrowBalances, j) = amount,
           escrowBalances' = EscrowWithout(j),
           stx'[Escrow] = stx[Escrow] - amount
    PROVE  Balanced
<1>1. IsMap(escrowBalances', 1..jobCounter, Nat)
  BY MapDeleteIsMap DEF EscrowWithout, TypeOK, MapsTypeOK
<1>2. /\ At(escrowBalances', j) = 0
      /\ \A n \in Nat : n # j => At(escrowBalances', n) = At(escrowBalances, n)
  <2>1. /\ DOMAIN escrowBalances' = DOMAIN escrowBalances \ {j}
        /\ \A x \in DOMAIN escrowBalances : x # j => escrowBalances'[x] = escrowBalances[x]
    BY MapDeleteIsMap DEF EscrowWithout, TypeOK, MapsTypeOK
  <2> QED
    BY <2>1 DEF At, MapGetOr
<1>3. stx'[Escrow] - stx[Escrow] = At(escrowBalances', j) - At(escrowBalances, j)
  BY <1>2, PrincipalsAssumption DEF TypeOK, ChainTypeOK
<1> QED
  BY <1>1, <1>2, <1>3, RowBalanced

\* The net and the fee leg together take the gross out of the contract, and
\* neither leads back to it.
LEMMA SettlementTakesGross ==
    ASSUME TypeOK, NEW j \in DOMAIN jobs, NEW recipient \in Principals,
           SettleServicePayment(j, recipient)
    PROVE  /\ stx'[Escrow] = stx[Escrow] - jobs[j].budget
           /\ At(escrowBalances, j) = jobs[j].budget
           /\ recipient # Escrow
           /\ \E row : /\ serviceFeeSettlements' = MapSet(serviceFeeSettlements, j, row)
                       /\ row.recipient = recipient
<1> DEFINE gross == jobs[j].budget
           fee == ChargedFee(j)
           net == gross - fee
           afterNet == Transfer(stx, net, Escrow, recipient)
           treasury == jobs[j].treasury
<1>1. gross \in Nat /\ jobs[j] \in Job
  BY JobType
<1>2. fee \in 0..gross
  BY <1>1, FeeInRange DEF ChargedFee
<1>3. net \in Nat /\ fee \in Nat /\ net + fee = gross
  BY <1>1, <1>2
<1>4. Escrow \in Principals /\ treasury \in Principals /\ stx \in [Principals -> Nat]
  BY <1>1, PrincipalsAssumption DEF Job, TypeOK, ChainTypeOK
<1>5. /\ gross = At(escrowBalances, j)
      /\ CanTransfer(stx, net, Escrow, recipient)
      /\ \/ /\ CanTransfer(afterNet, fee, Escrow, treasury)
            /\ stx' = Transfer(afterNet, fee, Escrow, treasury)
         \/ fee = 0 /\ stx' = afterNet
  BY <1>2 DEF SettleServicePayment, AfterSettlement, FeeIsDue, At
<1> HIDE DEF fee, net, gross, treasury
<1>6. recipient # Escrow
  BY <1>5 DEF CanTransfer
<1>7. afterNet \in [Principals -> Int] /\ afterNet[Escrow] = stx[Escrow] - net
  BY <1>3, <1>4, <1>6 DEF Transfer
<1> HIDE DEF afterNet
<1>8. stx'[Escrow] = stx[Escrow] - gross
  <2>1. CASE fee = 0 /\ stx' = afterNet
    BY <1>3, <1>4, <1>7, <2>1
  <2>2. CASE /\ CanTransfer(afterNet, fee, Escrow, treasury)
             /\ stx' = Transfer(afterNet, fee, Escrow, treasury)
    <3>1. treasury # Escrow
      BY <2>2 DEF CanTransfer
    <3>2. stx'[Escrow] = afterNet[Escrow] - fee
      BY <1>3, <1>4, <1>7, <2>2, <3>1 DEF Transfer
    <3> QED
      BY <1>3, <1>4, <1>7, <3>2
  <2> QED
    BY <1>5, <2>1, <2>2
<1>9. \E row : /\ serviceFeeSettlements' = MapSet(serviceFeeSettlements, j, row)
               /\ row.recipient = recipient
  BY DEF SettleServicePayment
<1> QED
  BY <1>5, <1>6, <1>8, <1>9 DEF gross

LEMMA SettleMoney ==
    ASSUME EscrowInv, NEW sender, NEW j \in DOMAIN jobs, jobs[j].provider # NONE,
           NEW d \in {DECISION_APPROVE, DECISION_REJECT}, Settle(sender, j, d)
    PROVE  Balanced /\ RecipientsOutside'
<1> DEFINE recipient == Recipient(jobs[j], d)
<1>1. recipient \in Principals /\ jobs[j].budget \in Nat /\ j \in JobIds
  BY JobType DEF Job, Recipient, EscrowInv
<1>2. TypeOK /\ SettleServicePayment(j, recipient)
  BY DEF Settle, EscrowInv
<1> HIDE DEF recipient
<1>3. /\ stx'[Escrow] = stx[Escrow] - jobs[j].budget
      /\ At(escrowBalances, j) = jobs[j].budget
      /\ recipient # Escrow
      /\ \E row : /\ serviceFeeSettlements' = MapSet(serviceFeeSettlements, j, row)
                  /\ row.recipient = recipient
  BY <1>1, <1>2, SettlementTakesGross
<1>4. Balanced
  BY <1>1, <1>2, <1>3, PaidOut DEF Settle
<1>5. RecipientsOutside'
  BY <1>3 DEF RecipientsOutside, EscrowInv, MapSet
<1> QED
  BY <1>4, <1>5

LEMMA HiringMoney ==
    ASSUME EscrowInv, NEW sender \in Users, Hiring(sender)
    PROVE  Balanced /\ RecipientsOutside'
<1>1. UNCHANGED serviceFeeSettlements
  BY DEF Hiring, CreateJob, SetBudget, FundJob, AssignProvider, SubmitWork, feeVars
<1>2. RecipientsOutside'
  BY <1>1 DEF EscrowInv, RecipientsOutside
<1>3. \/ UNCHANGED moneyVars
      \/ \E j \in JobIds : FundJob(sender, j)
  BY DEF Hiring, CreateJob, SetBudget, AssignProvider, SubmitWork
<1> QED
  BY <1>2, <1>3, PaidIn, StillBalanced DEF EscrowInv, moneyVars

LEMMA JudgingMoney ==
    ASSUME EscrowInv, NEW sender \in Users, Judging(sender)
    PROVE  Balanced /\ RecipientsOutside'
<1>1. CASE UNCHANGED <<moneyVars, serviceFeeSettlements>>
  BY <1>1, StillBalanced DEF EscrowInv, RecipientsOutside, moneyVars
<1>2. ASSUME NEW j \in JobIds, NEW d \in 0..3, NEW h \in Hashes, ResolveAppeal(sender, j, d, h)
      PROVE  Balanced /\ RecipientsOutside'
  BY <1>2, SettleMoney DEF ResolveAppeal, IsValidDecision
<1>3. \/ UNCHANGED <<moneyVars, serviceFeeSettlements>>
      \/ \E j \in JobIds, d \in 0..3, h \in Hashes : ResolveAppeal(sender, j, d, h)
  BY DEF Judging, RecordDecision, AppealDecision, WaiveServiceFee, feeVars
<1> QED
  BY <1>1, <1>2, <1>3

LEMMA PermissionlessMoney ==
    ASSUME EscrowInv, NEW sender \in Users, NEW j \in JobIds, Permissionless(sender, j)
    PROVE  Balanced /\ RecipientsOutside'
<1>1. ASSUME j \in DOMAIN decisions
      PROVE  decisions[j].original \in {DECISION_APPROVE, DECISION_REJECT}
  BY <1>1 DEF EscrowInv, TypeOK, MapsTypeOK, IsMap, Decision
<1>2. CASE FinalizeDecision(sender, j)
  BY <1>1, <1>2, SettleMoney DEF FinalizeDecision
<1>3. CASE SettleAppealTimeout(sender, j)
  BY <1>1, <1>3, SettleMoney DEF SettleAppealTimeout
<1>4. CASE SettleReviewTimeout(sender, j)
  <2>1. TypeOK /\ j \in DOMAIN jobs /\ jobs[j].provider # NONE
    BY <1>4 DEF SettleReviewTimeout, EscrowInv
  <2>2. jobs[j].budget \in Nat /\ jobs[j].provider \in Principals
    BY <2>1, JobType DEF Job
  <2>3. At(escrowBalances, j) = jobs[j].budget
    BY <1>4, <2>1, Held DEF SettleReviewTimeout, EscrowInv, EscrowMatchesStatus, At, MapGetOr
  <2>4. stx'[Escrow] = stx[Escrow] - jobs[j].budget
    BY <1>4, <2>1, <2>2, PrincipalsAssumption
    DEF SettleReviewTimeout, StxTransfer, CanTransfer, Transfer, TypeOK, ChainTypeOK
  <2>5. Balanced
    BY <1>4, <2>1, <2>2, <2>3, <2>4, PaidOut DEF SettleReviewTimeout
  <2> QED
    BY <1>4, <2>5 DEF SettleReviewTimeout, feeVars, EscrowInv, RecipientsOutside
<1>5. CASE ExpireJob(sender, j)
  <2> DEFINE escrowed == MapGetOr(escrowBalances, j, 0)
  <2>1. /\ TypeOK /\ j \in DOMAIN jobs /\ jobs[j].client \in Principals
        /\ escrowed \in Nat
    BY <1>5, JobType DEF ExpireJob, EscrowInv, Job, MapGetOr, TypeOK, MapsTypeOK, IsMap
  <2>2. Balanced
    <3>1. CASE escrowed > 0
      <4>1. /\ escrowBalances' = EscrowWithout(j)
            /\ StxTransfer(escrowed, Escrow, jobs[j].client)
        BY <1>5, <3>1 DEF ExpireJob
      <4>2. At(escrowBalances, j) = escrowed
        BY DEF At
      <4> HIDE DEF escrowed
      <4>3. stx'[Escrow] = stx[Escrow] - escrowed
        BY <2>1, <4>1, PrincipalsAssumption
        DEF StxTransfer, CanTransfer, Transfer, TypeOK, ChainTypeOK
      <4> QED
        BY <2>1, <4>1, <4>2, <4>3, PaidOut
    <3>2. CASE ~ (escrowed > 0)
      BY <1>5, <2>1, <3>2, StillBalanced DEF ExpireJob, moneyVars
    <3> QED
      BY <3>1, <3>2
  <2> QED
    BY <1>5, <2>2 DEF ExpireJob, feeVars, EscrowInv, RecipientsOutside
<1> QED
  BY <1>2, <1>3, <1>4, <1>5 DEF Permissionless

\* The treasury refunds a fee out of its own pocket, to somebody else than the escrow.
LEMMA RefundMoney ==
    ASSUME EscrowInv, NEW sender \in Users, NEW j \in JobIds, RefundServiceFee(sender, j)
    PROVE  Balanced /\ RecipientsOutside'
<1> DEFINE s == serviceFeeSettlements[j]
           due == s.chargedFee - s.refundedFee
<1>1. /\ TypeOK /\ j \in DOMAIN serviceFeeSettlements /\ s \in Settlement
      /\ IsMap(serviceFeeSettlements, 1..jobCounter, Settlement)
  BY DEF RefundServiceFee, EscrowInv, TypeOK, MapsTypeOK, IsMap
<1>2. sender # Escrow /\ sender \in Principals /\ s.recipient # Escrow
  BY <1>1 DEF Users, EscrowInv, RecipientsOutside
<1>3. StxTransfer(due, sender, s.recipient)
  BY DEF RefundServiceFee, RefundPayer
<1>4. stx'[Escrow] = stx[Escrow]
  <2> HIDE DEF due, s
  <2> QED
    BY <1>1, <1>2, <1>3, PrincipalsAssumption DEF StxTransfer, Transfer, TypeOK, ChainTypeOK
<1>5. Balanced
  BY <1>1, <1>4, StillBalanced DEF RefundServiceFee
<1>6. RecipientsOutside'
  BY <1>1 DEF RefundServiceFee, RecipientsOutside, EscrowInv, IsMap, Settlement
<1> QED
  BY <1>5, <1>6

LEMMA WorldMoney ==
    ASSUME EscrowInv, World
    PROVE  (Balanced \/ Gift) /\ RecipientsOutside'
<1> USE DEF commerceVars, feeVars
<1>1. RecipientsOutside'
  BY DEF World, AdvanceStacksBlock, AdvanceBurnBlock, ExternalTransfer, RegistryStep,
         EscrowInv, RecipientsOutside
<1>2. ASSUME NEW sender \in Users, NEW to \in Principals, NEW amount \in ExternalAmounts,
             ExternalTransfer(sender, to, amount)
      PROVE  Balanced \/ Gift
  <2>1. /\ amount \in Nat /\ amount > 0 /\ sender \in Principals /\ sender # Escrow
        /\ stx \in [Principals -> Nat] /\ stx' = Transfer(stx, amount, sender, to)
    BY <1>2, InputAssumption
    DEF ExternalTransfer, StxTransfer, CanTransfer, EscrowInv, TypeOK, ChainTypeOK, Users
  <2>2. CASE to = Escrow
    <3>1. stx'[Escrow] > stx[Escrow]
      BY <2>1, <2>2, PrincipalsAssumption DEF Transfer
    <3> QED
      BY <1>2, <3>1 DEF ExternalTransfer, Gift
  <2>3. CASE to # Escrow
    <3>1. stx'[Escrow] = stx[Escrow]
      BY <2>1, <2>3, PrincipalsAssumption DEF Transfer
    <3> QED
      BY <1>2, <3>1, StillBalanced DEF ExternalTransfer, EscrowInv
  <2> QED
    BY <2>2, <2>3
<1>3. ASSUME \/ AdvanceStacksBlock \/ AdvanceBurnBlock
             \/ \E sender \in Users : RegistryStep(sender)
      PROVE  Balanced
  <2>1. UNCHANGED <<escrowBalances, stx>>
    BY <1>3 DEF AdvanceStacksBlock, AdvanceBurnBlock, RegistryStep
  <2> QED
    BY <2>1, StillBalanced DEF EscrowInv
<1> QED
  BY <1>1, <1>2, <1>3 DEF World

LEMMA MoneyNext == EscrowInv /\ [Next]_vars => (Balanced \/ Gift) /\ RecipientsOutside'
<1> SUFFICES ASSUME EscrowInv, [Next]_vars
             PROVE  (Balanced \/ Gift) /\ RecipientsOutside'
  OBVIOUS
<1>1. ASSUME UNCHANGED <<moneyVars, serviceFeeSettlements>>
      PROVE  Balanced /\ RecipientsOutside'
  BY <1>1, StillBalanced DEF EscrowInv, RecipientsOutside, moneyVars
<1>2. ASSUME NEW sender \in Users, Governance(sender) PROVE Balanced /\ RecipientsOutside'
  BY <1>1, <1>2
  DEF Governance, InitializeProtocol, ProposeOwner, AcceptOwner, CancelOwnerProposal,
      ProposeAppealAuthority, AcceptAppealAuthority, CancelAppealAuthorityProposal, feeVars
<1>3. ASSUME NEW sender \in Users, Aftermath(sender) PROVE Balanced /\ RecipientsOutside'
  BY <1>1, <1>3, RefundMoney DEF Aftermath, RetryReputationSync, RateProvider, feeVars
<1>4. CASE UNCHANGED vars
  BY <1>1, <1>4 DEF vars, feeVars
<1> QED
  BY <1>2, <1>3, <1>4, HiringMoney, JudgingMoney, PermissionlessMoney, WorldMoney DEF Next

LEMMA EscrowInvHolds == Spec => []EscrowInv
<1>1. Init => RecipientsOutside
  BY DEF Init, EmptyMap, RecipientsOutside
<1>2. EscrowInv <=> TypeOK /\ EscrowMatchesStatus /\ RecipientsOutside
  BY DEF EscrowInv
<1>3. Spec => []TypeOK /\ []EscrowMatchesStatus
  BY TypeCorrect, EscrowAlwaysMatchesStatus
<1> QED
  BY <1>1, <1>2, <1>3, MoneyNext, PTL DEF Spec

\* Every step moves the contract's STX by exactly what it changes in the sum of
\* the recorded escrows of all jobs, gifts from outside excepted: no leg of any
\* settlement, timeout, expiry or refund is missing, doubled or rounded away.
THEOREM EscrowIsConserved == Spec => EscrowConservation
<1>1. EscrowInv /\ [Next]_vars => Balanced \/ Gift
  BY MoneyNext
<1> QED
  <2>1. EscrowInv /\ [Next]_vars =>
            [Balanced \/ Gift]_vars
    BY <1>1
  <2> QED
    BY <2>1, EscrowInvHolds, PTL DEF Spec, EscrowConservation, Balanced, Gift

LEMMA BackedNext == EscrowInv /\ EscrowBacked /\ [Next]_vars => EscrowBacked'
<1> SUFFICES ASSUME EscrowInv, EscrowBacked, [Next]_vars PROVE EscrowBacked'
  OBVIOUS
<1>1. TypeOK /\ TypeOK'
  BY NextTypeOK DEF EscrowInv
<1>2. /\ stx[Escrow] \in Int /\ stx'[Escrow] \in Int
      /\ Owed(escrowBalances) \in Int /\ Owed(escrowBalances') \in Int
  <2>1. /\ stx[Escrow] \in Int /\ stx'[Escrow] \in Int
        /\ IsMap(escrowBalances, 1..jobCounter, Nat)
        /\ IsMap(escrowBalances', 1..jobCounter', Nat)
    BY <1>1, PrincipalsAssumption DEF TypeOK, ChainTypeOK, MapsTypeOK
  <2>2. /\ \A n \in Nat : At(escrowBalances, n) \in Int
        /\ \A n \in Nat : At(escrowBalances', n) \in Int
    BY <2>1, RowsAreInt
  <2> QED
    BY <2>1, <2>2, OwedIsPartialSum, BoundAssumption
<1>3. CASE Balanced
  BY <1>2, <1>3 DEF Balanced, EscrowBacked
<1>4. CASE Gift
  BY <1>2, <1>4 DEF Gift, EscrowBacked, commerceVars
<1> QED
  BY <1>3, <1>4, MoneyNext

\* The contract can pay every job it holds money for, all at once, however many
\* jobs there are and in whatever order they are settled.
THEOREM EscrowStaysBacked == Spec => []EscrowBacked
<1>1. Init => EscrowBacked
  <2> SUFFICES ASSUME Init PROVE EscrowBacked
    OBVIOUS
  <2>1. \A n \in Nat : At(escrowBalances, n) = 0
    <3>1. DOMAIN escrowBalances = {}
      BY DEF Init, EmptyMap
    <3> QED
      BY <3>1 DEF At, MapGetOr
  <2>2. Owed(escrowBalances) = 0
    BY <2>1, OwedNothing
  <2> QED
    BY <2>2, LedgerAssumption DEF Init, EscrowBacked
<1> QED
  BY <1>1, BackedNext, EscrowInvHolds, PTL DEF Spec

-----------------------------------------------------------------------------
(* The life of a job, as far as one row of each map tells it *)

\* A job has been handed in from its submission to its settlement.
HandedInStatuses == {STATUS_SUBMITTED} \cup DecidedStatuses

CaseInOrder(j) ==
    LET job == jobs[j]
        d == decisions[j]
    IN  /\ j \in DOMAIN decisions <=> job.status \in DecidedStatuses
        /\ job.status \in {STATUS_OPEN, STATUS_FUNDED} => job.reviewDeadline = NONE
        /\ job.status \in HandedInStatuses =>
               job.reviewDeadline # NONE /\ job.provider # NONE
        /\ job.status = STATUS_DECISION_PENDING =>
               d.final = NONE /\ d.appealedBy = NONE /\ d.resolutionDeadline = NONE
        /\ job.status = STATUS_DISPUTED =>
               d.final = NONE /\ d.appealedBy # NONE /\ d.resolutionDeadline # NONE
        /\ job.status \in SettledStatuses => d.final # NONE

\* DueProcess is not inductive by itself: what an appeal or a settlement may
\* find in the decision of a job follows from the status of the job.
CaseInv == (\A j \in DOMAIN jobs : CaseInOrder(j)) /\ DueProcess

\* A job exists only once the protocol is configured, and then its treasury is
\* for ever the protocol's, which is not the escrow itself.
TreasuryInv ==
    /\ DOMAIN jobs # {} => protocolConfigured
    /\ protocolConfigured => serviceTreasury # Escrow

\* What service-fees.ts reads of one job, apart from who its parties are.
FeeReadable(j) ==
    LET job == jobs[j]
        s == serviceFeeSettlements[j]
    IN  /\ job.treasury = serviceTreasury
        /\ j \in serviceFeeWaivers => j \in DOMAIN decisions
        /\ j \in DOMAIN serviceFeeSettlements <=> job.status \in SettledStatuses
        /\ j \in DOMAIN serviceFeeSettlements =>
            /\ job.budget > 0 /\ s.gross = job.budget
            /\ s.net + s.chargedFee = s.gross
            /\ s.recipient = IF job.status = STATUS_COMPLETED
                             THEN job.provider ELSE job.client
            /\ \/ s.chargedFee = Fee(job.budget)
               \/ j \in serviceFeeWaivers /\ s.chargedFee = 0
            /\ \/ s.refundedFee = 0
               \/ j \in serviceFeeWaivers /\ s.refundedFee = s.chargedFee

FeeInv == TreasuryInv /\ \A j \in DOMAIN jobs : FeeReadable(j)

\* Nobody but the escrow reports under its name: the registry has no outcome of
\* a job the contract has not created yet.
OwnReports ==
    \A key \in DOMAIN jobOutcomes : key.source = Escrow => key.jobId \in DOMAIN jobs

ReputationInv == OwnReports /\ ReputationFollowsOutcome


-----------------------------------------------------------------------------
(* Due process *)

\* A step that is about one job leaves every other job and its decision alone.
OnlyCase(k) ==
    /\ DOMAIN jobs' = DOMAIN jobs
    /\ \A j \in DOMAIN jobs \ {k} :
        /\ jobs'[j] = jobs[j]
        /\ j \in DOMAIN decisions' <=> j \in DOMAIN decisions
        /\ j \in DOMAIN decisions => decisions'[j] = decisions[j]

\* DueProcess, read for one job.
FairlyDecided(j) ==
    LET d == decisions[j]
        loser == IF d.original = DECISION_APPROVE
                 THEN jobs[j].client ELSE jobs[j].provider
    IN  /\ d.decidedAtBurn <= jobs[j].reviewDeadline
        /\ d.appealedBy \in {NONE, loser}
        /\ d.final # NONE =>
            \/ /\ d.appealedBy # NONE
               /\ d.finalizedBy = jobs[j].appealAuthority
               /\ d.finalizedAtBurn <= d.resolutionDeadline
            \/ /\ d.final = d.original
               /\ d.finalizedAtBurn > (IF d.appealedBy = NONE
                                       THEN d.appealDeadline
                                       ELSE d.resolutionDeadline)

LEMMA DueProcessByCase ==
    ASSUME TypeOK
    PROVE  CaseInv <=> \A j \in DOMAIN jobs :
                           CaseInOrder(j) /\ (j \in DOMAIN decisions => FairlyDecided(j))
<1>1. DOMAIN decisions \subseteq DOMAIN jobs
  BY DEF TypeOK, MapsTypeOK, JobsTypeOK, IsMap
<1>2. DueProcess <=> \A j \in DOMAIN decisions : FairlyDecided(j)
  BY DEF DueProcess, FairlyDecided
<1> QED
  BY <1>1, <1>2 DEF CaseInv

LEMMA OneCaseAtATime ==
    ASSUME TypeOK, TypeOK', CaseInv, NEW k \in DOMAIN jobs, OnlyCase(k), CaseInOrder(k)',
           k \in DOMAIN decisions' => FairlyDecided(k)'
    PROVE  CaseInv'
<1>1. ASSUME NEW j \in DOMAIN jobs \ {k}
      PROVE  CaseInOrder(j)' /\ (j \in DOMAIN decisions' => FairlyDecided(j)')
  <2>1. CaseInOrder(j) /\ (j \in DOMAIN decisions => FairlyDecided(j))
    BY DueProcessByCase
  <2>2. CaseInOrder(j)'
    BY <2>1 DEF OnlyCase, CaseInOrder, DecidedStatuses, SettledStatuses
  <2>3. j \in DOMAIN decisions' => FairlyDecided(j)'
    BY <2>1 DEF OnlyCase, FairlyDecided
  <2> QED
    BY <2>2, <2>3
<1>2. DOMAIN decisions' \subseteq DOMAIN jobs'
  BY DEF TypeOK, MapsTypeOK, JobsTypeOK, IsMap
<1>3. \A j \in DOMAIN jobs' : CaseInOrder(j)' /\ (j \in DOMAIN decisions' => FairlyDecided(j)')
  BY <1>1 DEF OnlyCase
<1>4. DueProcess'
  BY <1>2, <1>3 DEF DueProcess, FairlyDecided
<1> QED
  BY <1>3, <1>4 DEF CaseInv

LEMMA Statuses ==
    /\ SettledStatuses = {3, 4} /\ DecidedStatuses = {3, 4, 7, 8}
    /\ HandedInStatuses = {2, 3, 4, 7, 8}
    /\ DECISION_APPROVE # DECISION_REJECT
BY Held DEF SettledStatuses, DecidedStatuses, HandedInStatuses, DECISION_APPROVE, DECISION_REJECT

LEMMA DecisionType ==
    ASSUME TypeOK, NEW j \in DOMAIN decisions
    PROVE  decisions[j] \in Decision /\ j \in DOMAIN jobs
BY DEF TypeOK, MapsTypeOK, JobsTypeOK, IsMap

LEMMA NoneIsNoNumber == NONE \notin Int /\ NONE \notin Principals
BY PrincipalsAssumption

LEMMA CreateJobCase ==
    ASSUME TypeOK, CaseInv, TypeOK', NEW sender \in Users, NEW p, NEW e, NEW x,
           CreateJob(sender, p, e, x)
    PROVE  CaseInv'
<1> PICK k : k = jobCounter + 1
  OBVIOUS
<1>1. jobCounter \in Nat /\ DOMAIN jobs = 1..jobCounter /\ DOMAIN decisions \subseteq 1..jobCounter
  BY BoundAssumption DEF TypeOK, JobsTypeOK, MapsTypeOK, IsMap
<1>2. k \notin DOMAIN jobs /\ k \notin DOMAIN decisions
  BY <1>1
<1>3. /\ DOMAIN jobs' = DOMAIN jobs \cup {k}
      /\ jobs'[k].status = STATUS_OPEN /\ jobs'[k].reviewDeadline = NONE
      /\ \A j \in DOMAIN jobs : jobs'[j] = jobs[j]
      /\ decisions' = decisions
  BY <1>1 DEF CreateJob, MapSet
<1>4. CaseInOrder(k)'
  BY <1>2, <1>3, Held, Statuses DEF CaseInOrder
<1>5. ASSUME NEW j \in DOMAIN jobs PROVE CaseInOrder(j)'
  BY <1>3 DEF CaseInv, CaseInOrder
<1>6. DueProcess'
  BY <1>1, <1>3 DEF CaseInv, DueProcess
<1> QED
  BY <1>3, <1>4, <1>5, <1>6 DEF CaseInv

\* A step that changes no decision, and of the job only what no decision reads.
LEMMA UndecidedCase ==
    ASSUME TypeOK, TypeOK', CaseInv, NEW k \in DOMAIN jobs, k \notin DOMAIN decisions,
           UNCHANGED decisions, OnlyCase(k),
           jobs'[k].status \notin DecidedStatuses,
           jobs'[k].status \in {STATUS_OPEN, STATUS_FUNDED} => jobs'[k].reviewDeadline = NONE,
           jobs'[k].status \in HandedInStatuses =>
               jobs'[k].reviewDeadline # NONE /\ jobs'[k].provider # NONE
    PROVE  CaseInv'
<1>1. CaseInOrder(k)'
  BY Statuses, Held DEF CaseInOrder
<1> QED
  BY <1>1, OneCaseAtATime

\* Before the work is handed in a job has no decision and no deadline of review.
LEMMA Unsubmitted ==
    ASSUME CaseInv, NEW j \in DOMAIN jobs, jobs[j].status \in {STATUS_OPEN, STATUS_FUNDED}
    PROVE  j \notin DOMAIN decisions /\ jobs[j].reviewDeadline = NONE
BY Held, Statuses DEF CaseInv, CaseInOrder

LEMMA HiringCase ==
    ASSUME TypeOK, TypeOK', CaseInv, NEW sender \in Users, Hiring(sender)
    PROVE  CaseInv'
<1>1. ASSUME NEW j \in JobIds, NEW amount \in Budgets, SetBudget(sender, j, amount)
      PROVE  CaseInv'
  <2>1. /\ j \in DOMAIN jobs /\ jobs[j].status = STATUS_OPEN /\ UNCHANGED decisions
        /\ OnlyCase(j)
        /\ jobs'[j].status = STATUS_OPEN /\ jobs'[j].reviewDeadline = jobs[j].reviewDeadline
    BY <1>1 DEF SetBudget, OnlyCase, TypeOK, JobsTypeOK, Job
  <2> QED
    BY <2>1, Unsubmitted, UndecidedCase, Held, Statuses
<1>2. ASSUME NEW j \in JobIds, FundJob(sender, j) PROVE CaseInv'
  <2>1. /\ j \in DOMAIN jobs /\ jobs[j].status = STATUS_OPEN /\ UNCHANGED decisions
        /\ OnlyCase(j)
        /\ jobs'[j].status = STATUS_FUNDED /\ jobs'[j].reviewDeadline = jobs[j].reviewDeadline
    BY <1>2 DEF FundJob, OnlyCase, TypeOK, JobsTypeOK, Job
  <2> QED
    BY <2>1, Unsubmitted, UndecidedCase, Held, Statuses
<1>3. ASSUME NEW j \in JobIds, NEW p \in Principals, AssignProvider(sender, j, p)
      PROVE  CaseInv'
  <2>1. /\ j \in DOMAIN jobs /\ jobs[j].status = STATUS_FUNDED /\ UNCHANGED decisions
        /\ OnlyCase(j)
        /\ jobs'[j].status = STATUS_FUNDED /\ jobs'[j].reviewDeadline = jobs[j].reviewDeadline
    BY <1>3 DEF AssignProvider, ProviderIsOpen, OnlyCase, TypeOK, JobsTypeOK, Job
  <2> QED
    BY <2>1, Unsubmitted, UndecidedCase, Held, Statuses
<1>4. ASSUME NEW j \in JobIds, SubmitWork(sender, j) PROVE CaseInv'
  <2>1. /\ j \in DOMAIN jobs /\ jobs[j].status = STATUS_FUNDED /\ UNCHANGED decisions
        /\ OnlyCase(j)
        /\ jobs'[j].status = STATUS_SUBMITTED
        /\ jobs'[j].reviewDeadline = burnHeight + ReviewWindow
        /\ jobs'[j].provider = sender
    BY <1>4 DEF SubmitWork, OnlyCase, TypeOK, JobsTypeOK, Job
  <2>2. burnHeight + ReviewWindow \in Int
    BY BoundAssumption, WindowAssumption DEF TypeOK, ChainTypeOK
  <2>3. jobs'[j].reviewDeadline # NONE /\ jobs'[j].provider # NONE
    BY <2>1, <2>2, NoneIsNoNumber DEF Users
  <2> QED
    BY <2>1, <2>3, Unsubmitted, UndecidedCase, Held, Statuses
<1> QED
  BY <1>1, <1>2, <1>3, <1>4, CreateJobCase DEF Hiring

LEMMA RecordDecisionCase ==
    ASSUME TypeOK, TypeOK', CaseInv, NEW sender \in Users, NEW j \in JobIds, NEW d \in 0..3,
           NEW h, NEW g, RecordDecision(sender, j, d, h, g)
    PROVE  CaseInv'
<1>1. /\ j \in DOMAIN jobs /\ jobs[j].status = STATUS_SUBMITTED
      /\ ~ (burnHeight > jobs[j].reviewDeadline)
      /\ jobs' = [jobs EXCEPT ![j].status = STATUS_DECISION_PENDING]
      /\ jobs[j] \in Job /\ burnHeight \in Nat
  BY BoundAssumption, JobType DEF RecordDecision, Passed, TypeOK, ChainTypeOK
<1>2. CaseInOrder(j)
  BY <1>1 DEF CaseInv
<1>3. j \notin DOMAIN decisions /\ jobs[j].reviewDeadline # NONE /\ jobs[j].provider # NONE
  BY <1>1, <1>2, Held, Statuses DEF CaseInOrder
<1>4. burnHeight <= jobs[j].reviewDeadline
  <2>1. jobs[j].reviewDeadline \in Nat
    BY <1>1, <1>3 DEF Job
  <2> QED
    BY <1>1, <2>1
<1>5. /\ DOMAIN decisions' = DOMAIN decisions \cup {j}
      /\ \A x \in DOMAIN decisions : x # j => decisions'[x] = decisions[x]
      /\ decisions'[j].final = NONE /\ decisions'[j].appealedBy = NONE
      /\ decisions'[j].resolutionDeadline = NONE
      /\ decisions'[j].decidedAtBurn = burnHeight
  BY <1>3 DEF RecordDecision, MapSet
<1>6. /\ DOMAIN jobs' = DOMAIN jobs
      /\ \A x \in DOMAIN jobs : x # j => jobs'[x] = jobs[x]
      /\ jobs'[j].status = STATUS_DECISION_PENDING
      /\ jobs'[j].reviewDeadline = jobs[j].reviewDeadline
      /\ jobs'[j].provider = jobs[j].provider
  BY <1>1 DEF TypeOK, JobsTypeOK, Job
<1>7. OnlyCase(j)
  BY <1>5, <1>6 DEF OnlyCase
<1>8. CaseInOrder(j)'
  BY <1>3, <1>5, <1>6, Held, Statuses DEF CaseInOrder
<1>9. FairlyDecided(j)'
  BY <1>4, <1>5, <1>6 DEF FairlyDecided
<1> QED
  BY <1>1, <1>7, <1>8, <1>9, OneCaseAtATime

LEMMA AppealDecisionCase ==
    ASSUME TypeOK, TypeOK', CaseInv, NEW sender \in Users, NEW j \in JobIds,
           NEW h, AppealDecision(sender, j, h)
    PROVE  CaseInv'
<1>1. /\ j \in DOMAIN jobs /\ j \in DOMAIN decisions
      /\ jobs[j].status = STATUS_DECISION_PENDING
      /\ jobs' = [jobs EXCEPT ![j].status = STATUS_DISPUTED]
      /\ jobs[j] \in Job /\ decisions[j] \in Decision
      /\ burnHeight + appealWindow \in Int
  BY BoundAssumption, JobType, DecisionType
  DEF AppealDecision, TypeOK, ChainTypeOK, GovernanceTypeOK
<1>2. CaseInOrder(j) /\ FairlyDecided(j)
  BY <1>1, DueProcessByCase
<1>3. /\ jobs[j].reviewDeadline # NONE /\ jobs[j].provider # NONE
      /\ decisions[j].final = NONE
  BY <1>1, <1>2, Held, Statuses DEF CaseInOrder
<1>4. /\ DOMAIN decisions' = DOMAIN decisions
      /\ \A x \in DOMAIN decisions : x # j => decisions'[x] = decisions[x]
      /\ decisions'[j].final = NONE /\ decisions'[j].appealedBy = sender
      /\ decisions'[j].resolutionDeadline = burnHeight + appealWindow
      /\ decisions'[j].decidedAtBurn = decisions[j].decidedAtBurn
      /\ decisions'[j].original = decisions[j].original
  BY <1>1, <1>3 DEF AppealDecision, Decision
<1>5. /\ DOMAIN jobs' = DOMAIN jobs
      /\ \A x \in DOMAIN jobs : x # j => jobs'[x] = jobs[x]
      /\ jobs'[j].status = STATUS_DISPUTED
      /\ jobs'[j].reviewDeadline = jobs[j].reviewDeadline
      /\ jobs'[j].provider = jobs[j].provider /\ jobs'[j].client = jobs[j].client
  BY <1>1 DEF TypeOK, JobsTypeOK, Job
<1>6. OnlyCase(j)
  BY <1>4, <1>5 DEF OnlyCase
<1>7. sender # NONE /\ burnHeight + appealWindow # NONE
  BY <1>1, NoneIsNoNumber DEF Users
<1>8. CaseInOrder(j)'
  BY <1>1, <1>3, <1>4, <1>5, <1>7, Held, Statuses DEF CaseInOrder
<1>9. FairlyDecided(j)'
  BY <1>2, <1>4, <1>5 DEF FairlyDecided, AppealDecision
<1> QED
  BY <1>1, <1>6, <1>8, <1>9, OneCaseAtATime

\* The three ways to settle a decided job, seen from its decision.
LEMMA SettleCase ==
    ASSUME TypeOK, TypeOK', CaseInv, NEW sender \in Users, NEW j \in DOMAIN jobs,
           j \in DOMAIN decisions, NEW d \in {DECISION_APPROVE, DECISION_REJECT},
           Settle(sender, j, d), jobs[j].provider # NONE,
           jobs[j].status \in {STATUS_DECISION_PENDING, STATUS_DISPUTED},
           \/ /\ d = decisions[j].original
              /\ burnHeight > (IF decisions[j].appealedBy = NONE
                               THEN decisions[j].appealDeadline
                               ELSE decisions[j].resolutionDeadline)
           \/ /\ decisions[j].appealedBy # NONE
              /\ sender = jobs[j].appealAuthority
              /\ burnHeight <= decisions[j].resolutionDeadline
    PROVE  CaseInv'
<1>1. /\ jobs[j] \in Job /\ decisions[j] \in Decision /\ d # NONE
  BY JobType, DecisionType, NoneIsNoNumber DEF DECISION_APPROVE, DECISION_REJECT
<1>2. CaseInOrder(j) /\ FairlyDecided(j)
  BY DueProcessByCase
<1>3. jobs[j].reviewDeadline # NONE
  BY <1>2, Held, Statuses DEF CaseInOrder
<1>4. /\ DOMAIN decisions' = DOMAIN decisions
      /\ \A x \in DOMAIN decisions : x # j => decisions'[x] = decisions[x]
      /\ decisions'[j].final = d /\ decisions'[j].finalizedBy = sender
      /\ decisions'[j].finalizedAtBurn = burnHeight
      /\ decisions'[j].appealedBy = decisions[j].appealedBy
      /\ decisions'[j].appealDeadline = decisions[j].appealDeadline
      /\ decisions'[j].resolutionDeadline = decisions[j].resolutionDeadline
      /\ decisions'[j].decidedAtBurn = decisions[j].decidedAtBurn
      /\ decisions'[j].original = decisions[j].original
  BY <1>1 DEF Settle, Decision
<1>5. /\ DOMAIN jobs' = DOMAIN jobs
      /\ \A x \in DOMAIN jobs : x # j => jobs'[x] = jobs[x]
      /\ jobs'[j].status \in SettledStatuses
      /\ jobs'[j].reviewDeadline = jobs[j].reviewDeadline
      /\ jobs'[j].provider = jobs[j].provider /\ jobs'[j].client = jobs[j].client
      /\ jobs'[j].appealAuthority = jobs[j].appealAuthority
  BY <1>1 DEF Settle, StatusFor, SettledStatuses, TypeOK, JobsTypeOK, Job
<1>6. OnlyCase(j)
  BY <1>4, <1>5 DEF OnlyCase
<1>7. CaseInOrder(j)'
  BY <1>1, <1>3, <1>4, <1>5, Held, Statuses DEF CaseInOrder
<1>8. FairlyDecided(j)'
  BY <1>1, <1>2, <1>4, <1>5 DEF FairlyDecided
<1> QED
  BY <1>6, <1>7, <1>8, OneCaseAtATime

\* What a call finds in the decision of a job it may settle.
LEMMA BeforeSettlement ==
    ASSUME TypeOK, CaseInv, NEW j \in DOMAIN jobs, j \in DOMAIN decisions
    PROVE  /\ decisions[j].original \in {DECISION_APPROVE, DECISION_REJECT}
           /\ jobs[j].status = STATUS_DECISION_PENDING => decisions[j].appealedBy = NONE
           /\ jobs[j].status = STATUS_DISPUTED => decisions[j].appealedBy # NONE
<1>1. CaseInOrder(j)
  BY DEF CaseInv
<1>2. decisions[j].original \in {DECISION_APPROVE, DECISION_REJECT}
  BY DecisionType DEF Decision
<1> QED
  BY <1>1, <1>2 DEF CaseInOrder

LEMMA JudgingCase ==
    ASSUME TypeOK, TypeOK', CaseInv, NEW sender \in Users, Judging(sender)
    PROVE  CaseInv'
<1>1. ASSUME NEW j \in JobIds, NEW d \in 0..3, NEW h \in Hashes, ResolveAppeal(sender, j, d, h)
      PROVE  CaseInv'
  <2>1. /\ j \in DOMAIN jobs /\ j \in DOMAIN decisions
        /\ jobs[j].provider # NONE /\ jobs[j].status = STATUS_DISPUTED
        /\ d \in {DECISION_APPROVE, DECISION_REJECT}
        /\ Settle(sender, j, d) /\ sender = jobs[j].appealAuthority
        /\ decisions[j].resolutionDeadline # NONE
        /\ ~ (burnHeight > decisions[j].resolutionDeadline)
    BY <1>1 DEF ResolveAppeal, IsValidDecision, Passed
  <2>2. burnHeight <= decisions[j].resolutionDeadline
    <3>1. burnHeight \in Nat /\ decisions[j].resolutionDeadline \in Nat
      BY <2>1, BoundAssumption, DecisionType DEF TypeOK, ChainTypeOK, Decision
    <3> QED
      BY <2>1, <3>1
  <2> QED
    BY <2>1, <2>2, BeforeSettlement, SettleCase
<1>2. ASSUME NEW j \in JobIds, NEW h \in Hashes, WaiveServiceFee(sender, j, h) PROVE CaseInv'
  BY <1>2 DEF WaiveServiceFee, jobVars, CaseInv, CaseInOrder, DueProcess
<1> QED
  BY <1>1, <1>2, RecordDecisionCase, AppealDecisionCase DEF Judging

LEMMA PermissionlessCase ==
    ASSUME TypeOK, TypeOK', CaseInv, NEW sender \in Users, NEW j \in JobIds,
           Permissionless(sender, j)
    PROVE  CaseInv'
<1>1. CASE FinalizeDecision(sender, j)
  BY <1>1, BeforeSettlement, SettleCase DEF FinalizeDecision, Passed
<1>2. CASE SettleAppealTimeout(sender, j)
  BY <1>2, BeforeSettlement, SettleCase DEF SettleAppealTimeout, Passed
<1>3. ASSUME j \in DOMAIN jobs, UNCHANGED decisions,
             NEW s \in {STATUS_TIMEOUT_PAID, STATUS_EXPIRED},
             jobs[j].status \in {STATUS_OPEN, STATUS_FUNDED, STATUS_SUBMITTED},
             jobs' = [jobs EXCEPT ![j].status = s]
      PROVE  CaseInv'
  <2>1. j \notin DOMAIN decisions
    BY <1>3, Held, Statuses DEF CaseInv, CaseInOrder
  <2>2. OnlyCase(j) /\ jobs'[j].status = s
    BY <1>3 DEF OnlyCase, TypeOK, JobsTypeOK, Job
  <2> QED
    BY <1>3, <2>1, <2>2, UndecidedCase, Held, Statuses
<1>4. CASE SettleReviewTimeout(sender, j)
  BY <1>3, <1>4 DEF SettleReviewTimeout
<1>5. CASE ExpireJob(sender, j)
  BY <1>3, <1>5 DEF ExpireJob
<1> QED
  BY <1>1, <1>2, <1>4, <1>5 DEF Permissionless

LEMMA CaseInvNext == TypeOK /\ TypeOK' /\ CaseInv /\ [Next]_vars => CaseInv'
<1> SUFFICES ASSUME TypeOK, TypeOK', CaseInv, [Next]_vars PROVE CaseInv'
  OBVIOUS
<1>1. ASSUME UNCHANGED <<jobs, decisions>> PROVE CaseInv'
  BY <1>1 DEF CaseInv, CaseInOrder, DueProcess
<1> USE DEF jobVars
<1>2. ASSUME NEW sender \in Users, Governance(sender) PROVE CaseInv'
  BY <1>1, <1>2
  DEF Governance, InitializeProtocol, ProposeOwner, AcceptOwner, CancelOwnerProposal,
      ProposeAppealAuthority, AcceptAppealAuthority, CancelAppealAuthorityProposal
<1>3. ASSUME NEW sender \in Users, Aftermath(sender) PROVE CaseInv'
  BY <1>1, <1>3 DEF Aftermath, RefundServiceFee, RetryReputationSync, RateProvider
<1>4. CASE World
  BY <1>1, <1>4
  DEF World, AdvanceStacksBlock, AdvanceBurnBlock, ExternalTransfer, RegistryStep, commerceVars
<1>5. CASE UNCHANGED vars
  BY <1>1, <1>5 DEF vars
<1> QED
  BY <1>2, <1>3, <1>4, <1>5, HiringCase, JudgingCase, PermissionlessCase DEF Next

LEMMA CaseInvHolds == Spec => []CaseInv
<1>1. Init => CaseInv
  BY DEF Init, EmptyMap, CaseInv, DueProcess
<1>2. Spec => []TypeOK
  BY TypeCorrect
<1> QED
  BY <1>1, <1>2, CaseInvNext, PTL DEF Spec

\* Whoever calls what and when: the evaluator decides within the review window,
\* only the loser appeals and only within the window, an unappealed decision
\* becomes final only after it, and nothing but a timely decision of the job's
\* own authority overturns the evaluator.
THEOREM ProcessIsDue == Spec => []DueProcess
<1>1. CaseInv => DueProcess
  BY DEF CaseInv
<1> QED
  BY <1>1, CaseInvHolds, PTL

-----------------------------------------------------------------------------
(* The fee state the application reads *)

LEMMA GovernanceFee ==
    ASSUME TypeOK, FeeInv, NEW sender \in Users, Governance(sender)
    PROVE  FeeInv'
<1> USE DEF FeeInv, TreasuryInv
<1>1. ASSUME UNCHANGED <<configVars, jobVars, decisions, feeVars>> PROVE FeeInv'
  BY <1>1 DEF configVars, jobVars, feeVars, FeeReadable
<1>2. ASSUME NEW w \in AppealWindows, NEW authority \in Principals,
             NEW treasury \in Principals,
             InitializeProtocol(sender, w, authority, treasury)
      PROVE  FeeInv'
  <2>1. DOMAIN jobs = {} /\ UNCHANGED jobs /\ serviceTreasury' # Escrow
    BY <1>2 DEF InitializeProtocol, TypeOK, JobsTypeOK, jobVars
  <2> QED
    BY <2>1
<1> QED
  BY <1>1, <1>2
  DEF Governance, ProposeOwner, AcceptOwner, CancelOwnerProposal,
      ProposeAppealAuthority, AcceptAppealAuthority, CancelAppealAuthorityProposal

\* A step about a job that is not settled, and does not settle it.
LEMMA UnsettledFee ==
    ASSUME FeeInv, NEW k \in DOMAIN jobs, OnlyCase(k),
           jobs'[k].treasury = jobs[k].treasury,
           jobs[k].status \notin SettledStatuses, jobs'[k].status \notin SettledStatuses,
           UNCHANGED <<feeVars, configVars>>, DOMAIN decisions \subseteq DOMAIN decisions'
    PROVE  FeeInv'
<1>1. TreasuryInv'
  BY DEF FeeInv, TreasuryInv, configVars, OnlyCase
<1>2. FeeReadable(k)'
  BY DEF FeeInv, FeeReadable, feeVars, configVars
<1>3. ASSUME NEW j \in DOMAIN jobs \ {k} PROVE FeeReadable(j)'
  BY DEF FeeInv, FeeReadable, feeVars, configVars, OnlyCase
<1> QED
  BY <1>1, <1>2, <1>3 DEF FeeInv, OnlyCase

LEMMA CreateJobFee ==
    ASSUME TypeOK, FeeInv, NEW sender \in Users, NEW p, NEW e, NEW x,
           CreateJob(sender, p, e, x)
    PROVE  FeeInv'
<1> PICK k : k = jobCounter + 1
  OBVIOUS
<1>1. /\ jobCounter \in Nat /\ DOMAIN jobs = 1..jobCounter
      /\ serviceFeeWaivers \subseteq 1..jobCounter
      /\ DOMAIN serviceFeeSettlements \subseteq 1..jobCounter
  BY BoundAssumption DEF TypeOK, JobsTypeOK, MapsTypeOK, IsMap
<1>2. k \notin DOMAIN jobs /\ k \notin serviceFeeWaivers /\ k \notin DOMAIN serviceFeeSettlements
  BY <1>1
<1>3. /\ DOMAIN jobs' = DOMAIN jobs \cup {k}
      /\ jobs'[k].status = STATUS_OPEN /\ jobs'[k].treasury = serviceTreasury
      /\ \A j \in DOMAIN jobs : jobs'[j] = jobs[j]
      /\ protocolConfigured
      /\ UNCHANGED <<decisions, feeVars, configVars>>
  BY <1>1 DEF CreateJob, MapSet, governanceVars
<1>4. FeeReadable(k)'
  BY <1>2, <1>3, Held, Statuses DEF FeeReadable, feeVars, configVars
<1>5. ASSUME NEW j \in DOMAIN jobs PROVE FeeReadable(j)'
  BY <1>3 DEF FeeInv, FeeReadable, feeVars, configVars
<1> QED
  BY <1>3, <1>4, <1>5 DEF FeeInv, TreasuryInv, configVars

LEMMA HiringFee ==
    ASSUME TypeOK, FeeInv, NEW sender \in Users, Hiring(sender)
    PROVE  FeeInv'
<1> USE Held, Statuses DEF OnlyCase, TypeOK, JobsTypeOK, Job, governanceVars
<1>1. ASSUME NEW j \in JobIds, NEW amount \in Budgets, SetBudget(sender, j, amount)
      PROVE  FeeInv'
  BY <1>1, UnsettledFee DEF SetBudget
<1>2. ASSUME NEW j \in JobIds, FundJob(sender, j) PROVE FeeInv'
  <2>1. /\ j \in DOMAIN jobs /\ OnlyCase(j) /\ jobs'[j].treasury = jobs[j].treasury
        /\ jobs[j].status \in {STATUS_OPEN, STATUS_FUNDED} /\ jobs'[j].status = STATUS_FUNDED
    BY <1>2 DEF FundJob
  <2>2. UNCHANGED <<feeVars, configVars, decisions>>
    BY <1>2 DEF FundJob
  <2> QED
    BY <2>1, <2>2, UnsettledFee
<1>3. ASSUME NEW j \in JobIds, NEW p \in Principals, AssignProvider(sender, j, p)
      PROVE  FeeInv'
  BY <1>3, UnsettledFee DEF AssignProvider, ProviderIsOpen
<1>4. ASSUME NEW j \in JobIds, SubmitWork(sender, j) PROVE FeeInv'
  <2>1. /\ j \in DOMAIN jobs /\ OnlyCase(j) /\ jobs'[j].treasury = jobs[j].treasury
        /\ jobs[j].status \in {STATUS_OPEN, STATUS_FUNDED} /\ jobs'[j].status = STATUS_SUBMITTED
    BY <1>4 DEF SubmitWork
  <2>2. UNCHANGED <<feeVars, configVars, decisions>>
    BY <1>4 DEF SubmitWork
  <2> QED
    BY <2>1, <2>2, UnsettledFee
<1> QED
  BY <1>1, <1>2, <1>3, <1>4, CreateJobFee DEF Hiring

\* The row a settlement writes.
LEMMA SettleFee ==
    ASSUME TypeOK, FeeInv, NEW sender \in Users, NEW j \in DOMAIN jobs,
           NEW d \in {DECISION_APPROVE, DECISION_REJECT}, Settle(sender, j, d)
    PROVE  FeeInv'
<1> DEFINE gross == jobs[j].budget
           fee == ChargedFee(j)
           row == [gross |-> gross, recipient |-> Recipient(jobs[j], d),
                   net |-> gross - fee, chargedFee |-> fee, refundedFee |-> 0]
<1>1. /\ gross > 0 /\ j \notin DOMAIN serviceFeeSettlements
      /\ serviceFeeSettlements' = MapSet(serviceFeeSettlements, j, row)
      /\ UNCHANGED <<serviceFeeWaivers, configVars>>
      /\ DOMAIN decisions' = DOMAIN decisions
      /\ jobs' = [jobs EXCEPT ![j].status = StatusFor(d)]
  BY DEF Settle, SettleServicePayment, governanceVars
<1>2. gross \in Nat /\ fee \in 0..gross /\ jobs[j] \in Job
  BY JobType, FeeInRange DEF ChargedFee
<1>3. gross - fee + fee = gross
  BY <1>2
<1>4. fee = Fee(gross) \/ (j \in serviceFeeWaivers /\ fee = 0)
  BY DEF ChargedFee
<1>5. /\ DOMAIN jobs' = DOMAIN jobs
      /\ \A x \in DOMAIN jobs \ {j} : jobs'[x] = jobs[x]
      /\ jobs'[j].status = StatusFor(d) /\ jobs'[j].budget = gross
      /\ jobs'[j].treasury = jobs[j].treasury
      /\ jobs'[j].provider = jobs[j].provider /\ jobs'[j].client = jobs[j].client
  BY <1>1, <1>2 DEF TypeOK, JobsTypeOK, Job
<1>6. /\ jobs'[j].status \in SettledStatuses
      /\ Recipient(jobs[j], d) = IF jobs'[j].status = STATUS_COMPLETED
                                 THEN jobs'[j].provider ELSE jobs'[j].client
  BY <1>5, Held DEF Recipient, StatusFor, SettledStatuses
<1>7. /\ DOMAIN serviceFeeSettlements' = DOMAIN serviceFeeSettlements \cup {j}
      /\ serviceFeeSettlements'[j] = row
      /\ \A x \in DOMAIN serviceFeeSettlements :
             x # j => serviceFeeSettlements'[x] = serviceFeeSettlements[x]
  BY <1>1 DEF MapSet
<1>8. /\ row.gross = gross /\ row.recipient = Recipient(jobs[j], d)
      /\ row.net = gross - fee /\ row.chargedFee = fee /\ row.refundedFee = 0
  OBVIOUS
<1> HIDE DEF gross, fee, row
<1>9. FeeReadable(j)'
  BY <1>1, <1>3, <1>4, <1>5, <1>6, <1>7, <1>8 DEF FeeInv, FeeReadable, configVars
<1>10. ASSUME NEW x \in DOMAIN jobs \ {j} PROVE FeeReadable(x)'
  BY <1>1, <1>5, <1>7 DEF FeeInv, FeeReadable, configVars
<1> QED
  BY <1>1, <1>5, <1>9, <1>10 DEF FeeInv, TreasuryInv, configVars

LEMMA JudgingFee ==
    ASSUME TypeOK, FeeInv, NEW sender \in Users, Judging(sender)
    PROVE  FeeInv'
<1> USE Held, Statuses DEF OnlyCase, TypeOK, JobsTypeOK, Job, governanceVars
<1>1. ASSUME NEW j \in JobIds, NEW d \in 0..3, NEW h \in Hashes, NEW g \in Hashes,
             RecordDecision(sender, j, d, h, g)
      PROVE  FeeInv'
  <2>1. /\ j \in DOMAIN jobs /\ OnlyCase(j) /\ jobs'[j].treasury = jobs[j].treasury
        /\ jobs[j].status = STATUS_SUBMITTED /\ jobs'[j].status = STATUS_DECISION_PENDING
        /\ DOMAIN decisions \subseteq DOMAIN decisions'
    BY <1>1 DEF RecordDecision, MapSet
  <2>2. UNCHANGED <<feeVars, configVars>>
    BY <1>1 DEF RecordDecision
  <2>3. jobs[j].status \notin SettledStatuses /\ jobs'[j].status \notin SettledStatuses
    BY <2>1
  <2> QED
    BY <2>1, <2>2, <2>3, UnsettledFee, Zenon
<1>2. ASSUME NEW j \in JobIds, NEW h \in Hashes, AppealDecision(sender, j, h) PROVE FeeInv'
  <2>1. /\ j \in DOMAIN jobs /\ OnlyCase(j) /\ jobs'[j].treasury = jobs[j].treasury
        /\ jobs[j].status = STATUS_DECISION_PENDING /\ jobs'[j].status = STATUS_DISPUTED
        /\ DOMAIN decisions \subseteq DOMAIN decisions'
    BY <1>2 DEF AppealDecision
  <2>2. UNCHANGED <<feeVars, configVars>>
    BY <1>2 DEF AppealDecision
  <2>3. jobs[j].status \notin SettledStatuses /\ jobs'[j].status \notin SettledStatuses
    BY <2>1
  <2> QED
    BY <2>1, <2>2, <2>3, UnsettledFee, Zenon
<1>3. ASSUME NEW j \in JobIds, NEW d \in 0..3, NEW h \in Hashes, ResolveAppeal(sender, j, d, h)
      PROVE  FeeInv'
  BY <1>3, SettleFee DEF ResolveAppeal, IsValidDecision
<1>4. ASSUME NEW j \in JobIds, NEW h \in Hashes, WaiveServiceFee(sender, j, h) PROVE FeeInv'
  BY <1>4 DEF WaiveServiceFee, jobVars, configVars, FeeInv, TreasuryInv, FeeReadable
<1> QED
  BY <1>1, <1>2, <1>3, <1>4 DEF Judging

LEMMA PermissionlessFee ==
    ASSUME TypeOK, FeeInv, NEW sender \in Users, NEW j \in JobIds, Permissionless(sender, j)
    PROVE  FeeInv'
<1>1. ASSUME j \in DOMAIN decisions
      PROVE  decisions[j].original \in {DECISION_APPROVE, DECISION_REJECT}
  BY <1>1, DecisionType DEF Decision
<1>2. CASE FinalizeDecision(sender, j)
  BY <1>1, <1>2, SettleFee DEF FinalizeDecision
<1>3. CASE SettleAppealTimeout(sender, j)
  BY <1>1, <1>3, SettleFee DEF SettleAppealTimeout
<1>4. ASSUME j \in DOMAIN jobs, UNCHANGED <<governanceVars, decisions, feeVars>>,
             NEW s \in {STATUS_TIMEOUT_PAID, STATUS_EXPIRED},
             jobs[j].status \notin SettledStatuses,
             jobs' = [jobs EXCEPT ![j].status = s]
      PROVE  FeeInv'
  <2>1. /\ OnlyCase(j) /\ jobs'[j].status = s /\ jobs'[j].treasury = jobs[j].treasury
    BY <1>4 DEF OnlyCase, TypeOK, JobsTypeOK, Job
  <2> QED
    BY <1>4, <2>1, UnsettledFee, Held, Statuses DEF governanceVars
<1>5. CASE SettleReviewTimeout(sender, j)
  BY <1>4, <1>5, Held, Statuses DEF SettleReviewTimeout
<1>6. CASE ExpireJob(sender, j)
  BY <1>4, <1>6, Held, Statuses DEF ExpireJob
<1> QED
  BY <1>2, <1>3, <1>5, <1>6 DEF Permissionless

LEMMA RefundFee ==
    ASSUME TypeOK, FeeInv, NEW sender \in Users, NEW j \in JobIds, RefundServiceFee(sender, j)
    PROVE  FeeInv'
<1>1. /\ j \in DOMAIN serviceFeeSettlements /\ j \in serviceFeeWaivers
      /\ serviceFeeSettlements[j] \in Settlement
      /\ serviceFeeSettlements' = [serviceFeeSettlements EXCEPT
             ![j].refundedFee = serviceFeeSettlements[j].chargedFee]
      /\ UNCHANGED <<governanceVars, jobVars, decisions, serviceFeeWaivers>>
  BY DEF RefundServiceFee, TypeOK, MapsTypeOK, IsMap
<1>2. /\ DOMAIN serviceFeeSettlements' = DOMAIN serviceFeeSettlements
      /\ \A x \in DOMAIN serviceFeeSettlements :
             x # j => serviceFeeSettlements'[x] = serviceFeeSettlements[x]
      /\ LET old == serviceFeeSettlements[j]
             new == serviceFeeSettlements'[j]
         IN  /\ new.gross = old.gross /\ new.net = old.net
             /\ new.recipient = old.recipient /\ new.chargedFee = old.chargedFee
             /\ new.refundedFee = old.chargedFee
  BY <1>1 DEF Settlement
<1>3. UNCHANGED <<configVars, jobs, decisions, serviceFeeWaivers>>
  BY <1>1 DEF governanceVars, jobVars
<1>4. ASSUME NEW x \in DOMAIN jobs PROVE FeeReadable(x)'
  <2>1. FeeReadable(x)
    BY DEF FeeInv
  <2>2. CASE x = j
    BY <1>1, <1>2, <1>3, <2>1, <2>2 DEF FeeReadable, configVars
  <2>3. CASE x # j
    BY <1>2, <1>3, <2>1, <2>3 DEF FeeReadable, configVars
  <2> QED
    BY <2>2, <2>3
<1> QED
  BY <1>3, <1>4 DEF FeeInv, TreasuryInv, configVars

LEMMA FeeNext == TypeOK /\ FeeInv /\ [Next]_vars => FeeInv'
<1> SUFFICES ASSUME TypeOK, FeeInv, [Next]_vars PROVE FeeInv'
  OBVIOUS
<1>1. ASSUME UNCHANGED <<governanceVars, jobVars, decisions, feeVars>> PROVE FeeInv'
  BY <1>1 DEF FeeInv, TreasuryInv, FeeReadable, governanceVars, configVars, jobVars, feeVars
<1>2. ASSUME NEW sender \in Users, Aftermath(sender) PROVE FeeInv'
  BY <1>1, <1>2, RefundFee DEF Aftermath, RetryReputationSync, RateProvider
<1>3. CASE World
  BY <1>1, <1>3
  DEF World, AdvanceStacksBlock, AdvanceBurnBlock, ExternalTransfer, RegistryStep, commerceVars
<1>4. CASE UNCHANGED vars
  BY <1>1, <1>4 DEF vars
<1> QED
  BY <1>2, <1>3, <1>4, GovernanceFee, HiringFee, JudgingFee, PermissionlessFee DEF Next

LEMMA FeeInvHolds == Spec => []FeeInv
<1>1. Init => FeeInv
  BY DEF Init, EmptyMap, FeeInv, TreasuryInv
<1>2. Spec => []TypeOK
  BY TypeCorrect
<1> QED
  BY <1>1, <1>2, FeeNext, PTL DEF Spec

\* Every fee state the contract reaches is one the application can read: what
\* parseServiceFeeState refuses (a foreign treasury, a settlement without its
\* decision, legs that do not add up, a refund without a waiver) never exists.
THEOREM FeeStateStaysReadable == Spec => []FeeStateReadable
<1>1. ASSUME TypeOK, CaseInv, FeeInv, GovernanceSeparated, JobPartiesSeparated
      PROVE  FeeStateReadable
  <2> SUFFICES ASSUME NEW j \in DOMAIN jobs
               PROVE  /\ FeeReadable(j)
                      /\ serviceTreasury \notin
                             {jobs[j].client, jobs[j].provider, jobs[j].evaluator,
                              jobs[j].appealAuthority, appealAuthority}
                      /\ j \in DOMAIN decisions <=> jobs[j].status \in DecidedStatuses
    BY DEF FeeStateReadable, FeeReadable
  <2>1. FeeReadable(j) /\ protocolConfigured
    BY <1>1 DEF FeeInv, TreasuryInv
  <2>2. j \in DOMAIN decisions <=> jobs[j].status \in DecidedStatuses
    BY <1>1 DEF CaseInv, CaseInOrder
  <2>3. jobs[j].treasury = serviceTreasury
    BY <2>1 DEF FeeReadable
  <2> QED
    BY <1>1, <2>1, <2>2, <2>3 DEF JobPartiesSeparated, GovernanceSeparated
<1> QED
  BY <1>1, TypeCorrect, CaseInvHolds, FeeInvHolds, GovernanceStaysSeparated,
     PartiesStaySeparated, PTL

-----------------------------------------------------------------------------
(* The registry and the retry queue *)

OwnKey(j) == [source |-> Escrow, jobId |-> j]

\* ReputationFollowsOutcome, read for one job.
Reported(j) ==
    LET job == jobs[j]
        sync == reputationSync[j]
    IN  /\ j \in DOMAIN reputationSync <=> job.status \in SettledStatuses
        /\ j \in DOMAIN reputationSync =>
            /\ sync.pending <=> OwnKey(j) \notin DOMAIN jobOutcomes
            /\ sync.pending => sync.lastError = Registry!ErrNotAuthorized
            /\ sync.outcome = IF job.status = STATUS_COMPLETED
                              THEN OUTCOME_COMPLETED ELSE OUTCOME_DISPUTED
        /\ OwnKey(j) \in DOMAIN jobOutcomes =>
            /\ job.status \in SettledStatuses
            /\ jobOutcomes[OwnKey(j)] =
                   [agent |-> job.provider,
                    completed |-> job.status = STATUS_COMPLETED,
                    disputed |-> job.status = STATUS_REJECTED]

LEMMA ReportsByJob ==
    ReputationInv <=> OwnReports /\ \A j \in DOMAIN jobs : Reported(j)
BY DEF ReputationInv, ReputationFollowsOutcome, Reported, OwnKey

LEMMA OwnKeys ==
    /\ \A j : OwnKey(j).source = Escrow /\ OwnKey(j).jobId = j
    /\ \A j, x : j # x => OwnKey(j) # OwnKey(x)
<1>1. \A j : OwnKey(j).source = Escrow /\ OwnKey(j).jobId = j
  BY DEF OwnKey
<1> QED
  BY <1>1

\* One attempt to report a job the registry has no outcome of.
LEMMA SyncReports ==
    ASSUME TypeOK, NEW j \in DOMAIN jobs, NEW agent \in Principals,
           NEW outcome \in {OUTCOME_COMPLETED, OUTCOME_DISPUTED},
           SyncReputation(j, agent, outcome), OwnKey(j) \notin DOMAIN jobOutcomes
    PROVE  /\ \A x : x \in DOMAIN reputationSync' <=> x = j \/ x \in DOMAIN reputationSync
           /\ \A x \in DOMAIN reputationSync : x # j => reputationSync'[x] = reputationSync[x]
           /\ reputationSync'[j].outcome = outcome
           /\ reputationSync'[j].pending <=> OwnKey(j) \notin DOMAIN jobOutcomes'
           /\ reputationSync'[j].pending =>
                  reputationSync'[j].lastError = Registry!ErrNotAuthorized
           /\ OwnKey(j) \in DOMAIN jobOutcomes' =>
                  jobOutcomes'[OwnKey(j)] = [agent |-> agent,
                                             completed |-> outcome = OUTCOME_COMPLETED,
                                             disputed |-> outcome = OUTCOME_DISPUTED]
           /\ DOMAIN jobOutcomes \subseteq DOMAIN jobOutcomes'
           /\ DOMAIN jobOutcomes' \subseteq DOMAIN jobOutcomes \cup {OwnKey(j)}
           /\ \A key \in DOMAIN jobOutcomes : jobOutcomes'[key] = jobOutcomes[key]
<1> DEFINE completed == outcome = OUTCOME_COMPLETED
           disputed == outcome = OUTCOME_DISPUTED
           result == Registry!RecordOutcomeResult(Escrow, j, completed, disputed)
           report == [agent |-> agent, completed |-> completed, disputed |-> disputed]
<1>1. completed # disputed
  BY DEF OUTCOME_COMPLETED, OUTCOME_DISPUTED
<1>2. result \in {Registry!OK, Registry!ErrNotAuthorized}
  BY <1>1 DEF Registry!RecordOutcomeResult, OwnKey
<1>3. Registry!OK # Registry!ErrNotAuthorized
  BY DEF Registry!OK, Registry!ErrNotAuthorized
<1>4. reputationSync' = MapSet(reputationSync, j, SyncRow(outcome, result))
  BY DEF SyncReputation
<1>5. CASE result = Registry!OK
  <2>1. jobOutcomes' = Registry!MapSet(jobOutcomes, OwnKey(j), report)
    BY <1>5 DEF SyncReputation, Registry!RecordJobOutcome, OwnKey
  <2> HIDE DEF result, report
  <2>2. /\ DOMAIN jobOutcomes' = DOMAIN jobOutcomes \cup {OwnKey(j)}
        /\ jobOutcomes'[OwnKey(j)] = report
        /\ \A key \in DOMAIN jobOutcomes : jobOutcomes'[key] = jobOutcomes[key]
    BY <2>1 DEF Registry!MapSet
  <2>3. /\ reputationSync'[j].outcome = outcome
        /\ reputationSync'[j].pending = FALSE
    BY <1>4, <1>5 DEF MapSet, SyncRow
  <2> QED
    BY <1>4, <2>2, <2>3 DEF MapSet, report
<1>6. CASE result = Registry!ErrNotAuthorized
  <2>1. UNCHANGED jobOutcomes
    BY <1>3, <1>6 DEF SyncReputation, registryVars
  <2> HIDE DEF result
  <2>2. /\ reputationSync'[j].outcome = outcome
        /\ reputationSync'[j].pending = TRUE
        /\ reputationSync'[j].lastError = Registry!ErrNotAuthorized
    BY <1>3, <1>4, <1>6 DEF MapSet, SyncRow
  <2> QED
    BY <1>4, <2>1, <2>2 DEF MapSet
<1> QED
  BY <1>2, <1>5, <1>6

\* A step about a job that is not settled, and reports nothing.
LEMMA UnreportedJob ==
    ASSUME ReputationInv, NEW k \in DOMAIN jobs, DOMAIN jobs' = DOMAIN jobs,
           \A j \in DOMAIN jobs \ {k} : jobs'[j] = jobs[j],
           UNCHANGED <<reputationSync, jobOutcomes>>,
           jobs[k].status \notin SettledStatuses, jobs'[k].status \notin SettledStatuses
    PROVE  ReputationInv'
<1>1. OwnReports /\ \A j \in DOMAIN jobs : Reported(j)
  BY ReportsByJob
<1>2. OwnReports'
  BY <1>1 DEF OwnReports
<1>3. Reported(k)'
  BY <1>1 DEF Reported, OwnKey
<1>4. ASSUME NEW j \in DOMAIN jobs \ {k} PROVE Reported(j)'
  BY <1>1 DEF Reported, OwnKey
<1> QED
  BY <1>2, <1>3, <1>4 DEF ReputationInv, ReputationFollowsOutcome, Reported, OwnKey

LEMMA CreateJobReports ==
    ASSUME TypeOK, ReputationInv, NEW sender \in Users, NEW p, NEW e, NEW x,
           CreateJob(sender, p, e, x)
    PROVE  ReputationInv'
<1> PICK k : k = jobCounter + 1
  OBVIOUS
<1>1. /\ jobCounter \in Nat /\ DOMAIN jobs = 1..jobCounter
      /\ DOMAIN reputationSync \subseteq 1..jobCounter
  BY BoundAssumption DEF TypeOK, JobsTypeOK, MapsTypeOK, IsMap
<1>2. OwnReports /\ \A j \in DOMAIN jobs : Reported(j)
  BY ReportsByJob
<1>3. k \notin DOMAIN jobs /\ k \notin DOMAIN reputationSync /\ OwnKey(k) \notin DOMAIN jobOutcomes
  BY <1>1, <1>2, OwnKeys DEF OwnReports
<1>4. /\ DOMAIN jobs' = DOMAIN jobs \cup {k}
      /\ jobs'[k].status = STATUS_OPEN
      /\ \A j \in DOMAIN jobs : jobs'[j] = jobs[j]
      /\ UNCHANGED <<reputationSync, jobOutcomes>>
  BY <1>1 DEF CreateJob, MapSet, reputationVars, registryVars
<1>5. Reported(k)'
  BY <1>3, <1>4, Held, Statuses DEF Reported, OwnKey
<1>6. ASSUME NEW j \in DOMAIN jobs PROVE Reported(j)'
  BY <1>2, <1>4 DEF Reported, OwnKey
<1>7. OwnReports'
  BY <1>2, <1>4 DEF OwnReports
<1> QED
  BY <1>4, <1>5, <1>6, <1>7 DEF ReputationInv, ReputationFollowsOutcome, Reported, OwnKey

LEMMA HiringReports ==
    ASSUME TypeOK, ReputationInv, NEW sender \in Users, Hiring(sender)
    PROVE  ReputationInv'
<1> USE DEF TypeOK, JobsTypeOK, Job, reputationVars, registryVars
<1>1. ASSUME NEW j \in JobIds, NEW amount \in Budgets, SetBudget(sender, j, amount)
      PROVE  ReputationInv'
  <2>1. /\ j \in DOMAIN jobs /\ DOMAIN jobs' = DOMAIN jobs
        /\ \A x \in DOMAIN jobs \ {j} : jobs'[x] = jobs[x]
        /\ jobs[j].status = STATUS_OPEN /\ jobs'[j].status = STATUS_OPEN
        /\ UNCHANGED <<reputationSync, jobOutcomes>>
    BY <1>1 DEF SetBudget
  <2>2. jobs[j].status \notin SettledStatuses /\ jobs'[j].status \notin SettledStatuses
    BY <2>1, Held, Statuses
  <2> QED
    BY <2>1, <2>2, UnreportedJob, Zenon
<1>2. ASSUME NEW j \in JobIds, FundJob(sender, j) PROVE ReputationInv'
  <2>1. /\ j \in DOMAIN jobs /\ DOMAIN jobs' = DOMAIN jobs
        /\ \A x \in DOMAIN jobs \ {j} : jobs'[x] = jobs[x]
        /\ jobs[j].status = STATUS_OPEN /\ jobs'[j].status = STATUS_FUNDED
        /\ UNCHANGED <<reputationSync, jobOutcomes>>
    BY <1>2 DEF FundJob
  <2>2. jobs[j].status \notin SettledStatuses /\ jobs'[j].status \notin SettledStatuses
    BY <2>1, Held, Statuses
  <2> QED
    BY <2>1, <2>2, UnreportedJob, Zenon
<1>3. ASSUME NEW j \in JobIds, NEW p \in Principals, AssignProvider(sender, j, p)
      PROVE  ReputationInv'
  <2>1. /\ j \in DOMAIN jobs /\ DOMAIN jobs' = DOMAIN jobs
        /\ \A x \in DOMAIN jobs \ {j} : jobs'[x] = jobs[x]
        /\ jobs[j].status = STATUS_FUNDED /\ jobs'[j].status = STATUS_FUNDED
        /\ UNCHANGED <<reputationSync, jobOutcomes>>
    BY <1>3 DEF AssignProvider, ProviderIsOpen
  <2>2. jobs[j].status \notin SettledStatuses /\ jobs'[j].status \notin SettledStatuses
    BY <2>1, Held, Statuses
  <2> QED
    BY <2>1, <2>2, UnreportedJob, Zenon
<1>4. ASSUME NEW j \in JobIds, SubmitWork(sender, j) PROVE ReputationInv'
  <2>1. /\ j \in DOMAIN jobs /\ DOMAIN jobs' = DOMAIN jobs
        /\ \A x \in DOMAIN jobs \ {j} : jobs'[x] = jobs[x]
        /\ jobs[j].status = STATUS_FUNDED /\ jobs'[j].status = STATUS_SUBMITTED
        /\ UNCHANGED <<reputationSync, jobOutcomes>>
    BY <1>4 DEF SubmitWork
  <2>2. jobs[j].status \notin SettledStatuses /\ jobs'[j].status \notin SettledStatuses
    BY <2>1, Held, Statuses
  <2> QED
    BY <2>1, <2>2, UnreportedJob, Zenon
<1> QED
  BY <1>1, <1>2, <1>3, <1>4, CreateJobReports DEF Hiring

\* A report of one job, of whatever status the step leaves it in, is filed
\* under that job alone.
LEMMA OneReport ==
    ASSUME TypeOK, ReputationInv, NEW j \in DOMAIN jobs, NEW agent \in Principals,
           NEW outcome \in {OUTCOME_COMPLETED, OUTCOME_DISPUTED},
           SyncReputation(j, agent, outcome), OwnKey(j) \notin DOMAIN jobOutcomes,
           DOMAIN jobs' = DOMAIN jobs, \A x \in DOMAIN jobs \ {j} : jobs'[x] = jobs[x],
           jobs'[j].provider = agent,
           jobs'[j].status = IF outcome = OUTCOME_COMPLETED
                             THEN STATUS_COMPLETED ELSE STATUS_REJECTED
    PROVE  ReputationInv'
<1>1. OwnReports /\ \A x \in DOMAIN jobs : Reported(x)
  BY ReportsByJob
<1>2. OUTCOME_COMPLETED # OUTCOME_DISPUTED
  BY DEF OUTCOME_COMPLETED, OUTCOME_DISPUTED
<1> DEFINE report == [agent |-> agent, completed |-> outcome = OUTCOME_COMPLETED,
                      disputed |-> outcome = OUTCOME_DISPUTED]
<1>3. /\ \A x : x \in DOMAIN reputationSync' <=> x = j \/ x \in DOMAIN reputationSync
      /\ \A x \in DOMAIN reputationSync : x # j => reputationSync'[x] = reputationSync[x]
  BY SyncReports, Zenon
<1>4. /\ DOMAIN jobOutcomes \subseteq DOMAIN jobOutcomes'
      /\ DOMAIN jobOutcomes' \subseteq DOMAIN jobOutcomes \cup {OwnKey(j)}
      /\ \A key \in DOMAIN jobOutcomes : jobOutcomes'[key] = jobOutcomes[key]
  BY SyncReports, Zenon
<1>5. /\ reputationSync'[j].outcome = outcome
      /\ reputationSync'[j].pending <=> OwnKey(j) \notin DOMAIN jobOutcomes'
      /\ reputationSync'[j].pending =>
             reputationSync'[j].lastError = Registry!ErrNotAuthorized
      /\ OwnKey(j) \in DOMAIN jobOutcomes' => jobOutcomes'[OwnKey(j)] = report
  BY SyncReports, Zenon
<1>6. OwnReports'
  BY <1>1, <1>4, OwnKeys DEF OwnReports
<1>7. Reported(j)'
  <2>1. /\ jobs'[j].status \in SettledStatuses
        /\ outcome = IF jobs'[j].status = STATUS_COMPLETED
                     THEN OUTCOME_COMPLETED ELSE OUTCOME_DISPUTED
        /\ (outcome = OUTCOME_COMPLETED) = (jobs'[j].status = STATUS_COMPLETED)
        /\ (outcome = OUTCOME_DISPUTED) = (jobs'[j].status = STATUS_REJECTED)
    BY <1>2, Held, Statuses
  <2>2. OwnKey(j)' = OwnKey(j)
    BY DEF OwnKey
  <2> QED
    BY <1>3, <1>5, <2>1, <2>2 DEF Reported
<1>8. ASSUME NEW x \in DOMAIN jobs \ {j} PROVE Reported(x)'
  <2>1. OwnKey(x) # OwnKey(j) /\ OwnKey(x)' = OwnKey(x)
    BY OwnKeys DEF OwnKey
  <2>2. /\ x \in DOMAIN reputationSync' <=> x \in DOMAIN reputationSync
        /\ x \in DOMAIN reputationSync => reputationSync'[x] = reputationSync[x]
        /\ OwnKey(x) \in DOMAIN jobOutcomes' <=> OwnKey(x) \in DOMAIN jobOutcomes
        /\ OwnKey(x) \in DOMAIN jobOutcomes =>
               jobOutcomes'[OwnKey(x)] = jobOutcomes[OwnKey(x)]
    BY <1>3, <1>4, <2>1
  <2>3. jobs'[x] = jobs[x] /\ Reported(x)
    BY <1>1
  <2> QED
    BY <2>1, <2>2, <2>3 DEF Reported
<1> QED
  BY <1>6, <1>7, <1>8 DEF ReputationInv, ReputationFollowsOutcome, Reported, OwnKey

LEMMA SettleReports ==
    ASSUME TypeOK, ReputationInv, NEW sender, NEW j \in DOMAIN jobs,
           jobs[j].provider # NONE, jobs[j].status \notin SettledStatuses,
           NEW d \in {DECISION_APPROVE, DECISION_REJECT}, Settle(sender, j, d)
    PROVE  ReputationInv'
<1>1. jobs[j] \in Job /\ jobs[j].provider \in Principals
  BY JobType DEF Job
<1>2. OwnKey(j) \notin DOMAIN jobOutcomes
  BY ReportsByJob DEF Reported
<1>3. /\ OutcomeFor(d) \in {OUTCOME_COMPLETED, OUTCOME_DISPUTED}
      /\ StatusFor(d) = IF OutcomeFor(d) = OUTCOME_COMPLETED
                        THEN STATUS_COMPLETED ELSE STATUS_REJECTED
  BY DEF OutcomeFor, StatusFor, OUTCOME_COMPLETED, OUTCOME_DISPUTED
<1>4. /\ SyncReputation(j, jobs[j].provider, OutcomeFor(d))
      /\ DOMAIN jobs' = DOMAIN jobs
      /\ \A x \in DOMAIN jobs \ {j} : jobs'[x] = jobs[x]
      /\ jobs'[j].provider = jobs[j].provider /\ jobs'[j].status = StatusFor(d)
  BY <1>1 DEF Settle, TypeOK, JobsTypeOK, Job
<1> QED
  BY <1>1, <1>2, <1>3, <1>4, OneReport

LEMMA JudgingReports ==
    ASSUME TypeOK, ReputationInv, NEW sender \in Users, Judging(sender)
    PROVE  ReputationInv'
<1> USE DEF TypeOK, JobsTypeOK, Job, reputationVars, registryVars
<1>1. ASSUME NEW j \in JobIds, NEW d \in 0..3, NEW h \in Hashes, NEW g \in Hashes,
             RecordDecision(sender, j, d, h, g)
      PROVE  ReputationInv'
  <2>1. /\ j \in DOMAIN jobs /\ DOMAIN jobs' = DOMAIN jobs
        /\ \A x \in DOMAIN jobs \ {j} : jobs'[x] = jobs[x]
        /\ jobs[j].status = STATUS_SUBMITTED /\ jobs'[j].status = STATUS_DECISION_PENDING
        /\ UNCHANGED <<reputationSync, jobOutcomes>>
    BY <1>1 DEF RecordDecision
  <2>2. jobs[j].status \notin SettledStatuses /\ jobs'[j].status \notin SettledStatuses
    BY <2>1, Held, Statuses
  <2> QED
    BY <2>1, <2>2, UnreportedJob, Zenon
<1>2. ASSUME NEW j \in JobIds, NEW h \in Hashes, AppealDecision(sender, j, h)
      PROVE  ReputationInv'
  <2>1. /\ j \in DOMAIN jobs /\ DOMAIN jobs' = DOMAIN jobs
        /\ \A x \in DOMAIN jobs \ {j} : jobs'[x] = jobs[x]
        /\ jobs[j].status = STATUS_DECISION_PENDING /\ jobs'[j].status = STATUS_DISPUTED
        /\ UNCHANGED <<reputationSync, jobOutcomes>>
    BY <1>2 DEF AppealDecision
  <2>2. jobs[j].status \notin SettledStatuses /\ jobs'[j].status \notin SettledStatuses
    BY <2>1, Held, Statuses
  <2> QED
    BY <2>1, <2>2, UnreportedJob, Zenon
<1>3. ASSUME NEW j \in JobIds, NEW d \in 0..3, NEW h \in Hashes, ResolveAppeal(sender, j, d, h)
      PROVE  ReputationInv'
  BY <1>3, SettleReports, Held, Statuses DEF ResolveAppeal, IsValidDecision
<1>4. ASSUME NEW j \in JobIds, NEW h \in Hashes, WaiveServiceFee(sender, j, h)
      PROVE  ReputationInv'
  BY <1>4
  DEF WaiveServiceFee, jobVars, ReputationInv, OwnReports, ReputationFollowsOutcome
<1> QED
  BY <1>1, <1>2, <1>3, <1>4 DEF Judging

LEMMA PermissionlessReports ==
    ASSUME TypeOK, ReputationInv, NEW sender \in Users, NEW j \in JobIds,
           Permissionless(sender, j)
    PROVE  ReputationInv'
<1>1. ASSUME j \in DOMAIN decisions
      PROVE  decisions[j].original \in {DECISION_APPROVE, DECISION_REJECT}
  BY <1>1, DecisionType DEF Decision
<1>2. CASE FinalizeDecision(sender, j)
  BY <1>1, <1>2, SettleReports, Held, Statuses DEF FinalizeDecision
<1>3. CASE SettleAppealTimeout(sender, j)
  BY <1>1, <1>3, SettleReports, Held, Statuses DEF SettleAppealTimeout
<1>4. ASSUME j \in DOMAIN jobs, UNCHANGED <<reputationVars, registryVars>>,
             NEW s \in {STATUS_TIMEOUT_PAID, STATUS_EXPIRED},
             jobs[j].status \notin SettledStatuses,
             jobs' = [jobs EXCEPT ![j].status = s]
      PROVE  ReputationInv'
  <2>1. /\ DOMAIN jobs' = DOMAIN jobs /\ jobs'[j].status = s
        /\ \A x \in DOMAIN jobs \ {j} : jobs'[x] = jobs[x]
    BY <1>4 DEF TypeOK, JobsTypeOK, Job
  <2>2. jobs'[j].status \notin SettledStatuses
    BY <2>1, Held, Statuses
  <2> QED
    BY <1>4, <2>1, <2>2, UnreportedJob DEF reputationVars, registryVars
<1>5. CASE SettleReviewTimeout(sender, j)
  BY <1>4, <1>5, Held, Statuses DEF SettleReviewTimeout
<1>6. CASE ExpireJob(sender, j)
  BY <1>4, <1>6, Held, Statuses DEF ExpireJob
<1> QED
  BY <1>2, <1>3, <1>5, <1>6 DEF Permissionless

\* A retry is of a job the registry has no outcome of.
LEMMA RetryReports ==
    ASSUME TypeOK, ReputationInv, NEW sender \in Users, NEW j \in JobIds,
           RetryReputationSync(sender, j)
    PROVE  ReputationInv'
<1>1. /\ j \in DOMAIN jobs /\ j \in DOMAIN reputationSync
      /\ jobs[j].provider \in Principals
      /\ reputationSync[j].pending
      /\ jobs[j].status \in {STATUS_COMPLETED, STATUS_REJECTED}
      /\ SyncReputation(j, jobs[j].provider, reputationSync[j].outcome)
      /\ UNCHANGED jobs
  BY JobType DEF RetryReputationSync, Job, jobVars
<1>2. Reported(j)
  BY <1>1, ReportsByJob
<1>3. /\ OwnKey(j) \notin DOMAIN jobOutcomes
      /\ reputationSync[j].outcome \in {OUTCOME_COMPLETED, OUTCOME_DISPUTED}
      /\ reputationSync[j].outcome = IF jobs[j].status = STATUS_COMPLETED
                                     THEN OUTCOME_COMPLETED ELSE OUTCOME_DISPUTED
  BY <1>1, <1>2 DEF Reported
<1>4. jobs[j].status = IF reputationSync[j].outcome = OUTCOME_COMPLETED
                       THEN STATUS_COMPLETED ELSE STATUS_REJECTED
  BY <1>1, <1>3 DEF OUTCOME_COMPLETED, OUTCOME_DISPUTED
<1> QED
  BY <1>1, <1>3, <1>4, OneReport

\* Another source may report what it likes: it is filed under its own name.
LEMMA RegistryReports ==
    ASSUME TypeOK, ReputationInv, NEW sender \in Users, RegistryStep(sender)
    PROVE  ReputationInv'
<1>1. /\ DOMAIN jobOutcomes \subseteq DOMAIN jobOutcomes'
      /\ \A key \in DOMAIN jobOutcomes' \ DOMAIN jobOutcomes : key.source # Escrow
      /\ \A key \in DOMAIN jobOutcomes :
             key.source = Escrow => jobOutcomes'[key] = jobOutcomes[key]
  <2>1. CASE UNCHANGED jobOutcomes
    BY <2>1
  <2>2. ASSUME NEW agent \in Principals, NEW jobId \in JobIds,
               NEW completed \in BOOLEAN, NEW disputed \in BOOLEAN,
               Registry!RecordJobOutcome(sender, agent, jobId, completed, disputed)
        PROVE  <1>1!1 /\ <1>1!2 /\ <1>1!3
    BY <2>2 DEF Registry!RecordJobOutcome, Registry!MapSet, Users
  <2> QED
    BY <2>1, <2>2
    DEF RegistryStep, Registry!Administration, Registry!ProposeOwner, Registry!AcceptOwner,
        Registry!CancelOwnerProposal, Registry!AddProtocolCaller,
        Registry!RemoveProtocolCaller, Registry!Report, Registry!SubmitRating,
        Registry!aggregateVars
<1>2. UNCHANGED <<jobs, reputationSync>>
  BY DEF RegistryStep, commerceVars, jobVars, reputationVars
<1>3. OwnReports'
  BY <1>1, <1>2 DEF ReputationInv, OwnReports
<1>4. ASSUME NEW j \in DOMAIN jobs PROVE Reported(j)'
  <2>1. Reported(j) /\ OwnKey(j)' = OwnKey(j) /\ OwnKey(j).source = Escrow
    BY ReportsByJob, OwnKeys DEF OwnKey
  <2>2. /\ OwnKey(j) \in DOMAIN jobOutcomes' <=> OwnKey(j) \in DOMAIN jobOutcomes
        /\ OwnKey(j) \in DOMAIN jobOutcomes => jobOutcomes'[OwnKey(j)] = jobOutcomes[OwnKey(j)]
    BY <1>1, <2>1
  <2> QED
    BY <1>2, <2>1, <2>2 DEF Reported
<1> QED
  BY <1>2, <1>3, <1>4 DEF ReputationInv, ReputationFollowsOutcome, Reported, OwnKey

LEMMA ReputationNext == TypeOK /\ ReputationInv /\ [Next]_vars => ReputationInv'
<1> SUFFICES ASSUME TypeOK, ReputationInv, [Next]_vars PROVE ReputationInv'
  OBVIOUS
<1>1. ASSUME UNCHANGED <<jobs, reputationSync, jobOutcomes>> PROVE ReputationInv'
  BY <1>1 DEF ReputationInv, OwnReports, ReputationFollowsOutcome
<1> USE DEF jobVars, reputationVars, registryVars, commerceVars
<1>2. ASSUME NEW sender \in Users, Governance(sender) PROVE ReputationInv'
  BY <1>1, <1>2
  DEF Governance, InitializeProtocol, ProposeOwner, AcceptOwner, CancelOwnerProposal,
      ProposeAppealAuthority, AcceptAppealAuthority, CancelAppealAuthorityProposal
<1>3. ASSUME NEW sender \in Users, Aftermath(sender) PROVE ReputationInv'
  BY <1>1, <1>3, RetryReports
  DEF Aftermath, RefundServiceFee, RateProvider, Registry!SubmitRating
<1>4. CASE World
  BY <1>1, <1>4, RegistryReports
  DEF World, AdvanceStacksBlock, AdvanceBurnBlock, ExternalTransfer
<1>5. CASE UNCHANGED vars
  BY <1>1, <1>5 DEF vars
<1> QED
  BY <1>2, <1>3, <1>4, <1>5, HiringReports, JudgingReports, PermissionlessReports DEF Next

LEMMA ReputationInvHolds == Spec => []ReputationInv
<1>1. Init => ReputationInv
  BY DEF Init, EmptyMap, ReputationInv, OwnReports, ReputationFollowsOutcome,
         Registry!RegistryInit, Registry!EmptyMap
<1>2. Spec => []TypeOK
  BY TypeCorrect
<1> QED
  BY <1>1, <1>2, ReputationNext, PTL DEF Spec

\* A settled job is waiting for a retry exactly while the registry has no outcome
\* of it, and what the registry has is the final decision about the provider
\* that was paid: a retry neither counts a job twice nor is refused as a
\* duplicate, whatever the registry's owner and its other sources do meanwhile.
THEOREM ReputationStaysInStep == Spec => []ReputationFollowsOutcome
<1>1. ReputationInv => ReputationFollowsOutcome
  BY DEF ReputationInv
<1> QED
  BY <1>1, ReputationInvHolds, PTL

-----------------------------------------------------------------------------
(* What no later step takes back *)

JobsKept ==
    \A j \in DOMAIN jobs :
        LET old == jobs[j]
            new == jobs'[j]
        IN  /\ old.client = new.client /\ old.evaluator = new.evaluator
            /\ old.appealAuthority = new.appealAuthority
            /\ old.treasury = new.treasury /\ old.expiredAt = new.expiredAt
            /\ old.budget = new.budget \/ new.status = STATUS_OPEN
            /\ old.provider = new.provider \/ new.status = STATUS_FUNDED
            /\ old.reviewDeadline \in {NONE, new.reviewDeadline}
            /\ old.status \notin HeldStatuses \cup {STATUS_OPEN}
               => new.status = old.status

DecisionsKept ==
    \A j \in DOMAIN decisions :
        LET old == decisions[j]
            new == decisions'[j]
        IN  /\ old.original = new.original
            /\ old.appealDeadline = new.appealDeadline
            /\ old.appealedBy \in {NONE, new.appealedBy}
            /\ old.resolutionDeadline \in {NONE, new.resolutionDeadline}
            /\ old.final # NONE => new = old

FeesKept ==
    /\ \A j \in DOMAIN serviceFeeSettlements :
            LET old == serviceFeeSettlements[j]
                new == serviceFeeSettlements'[j]
            IN  new \in {old, [old EXCEPT !.refundedFee = old.chargedFee]}
    /\ serviceFeeWaivers \subseteq serviceFeeWaivers'

LEMMA CommitmentsByMap ==
    CommitmentsAreKept <=> [][JobsKept /\ DecisionsKept /\ FeesKept]_vars
BY PTL DEF CommitmentsAreKept, JobsKept, DecisionsKept, FeesKept

\* A job whose status moves from one a job may leave.
LEMMA StatusKept ==
    ASSUME TypeOK, NEW j \in DOMAIN jobs, NEW s, jobs' = [jobs EXCEPT ![j].status = s],
           jobs[j].status \in HeldStatuses \cup {STATUS_OPEN}
    PROVE  JobsKept
<1>1. /\ jobs'[j] = [jobs[j] EXCEPT !.status = s]
      /\ \A x \in DOMAIN jobs : x # j => jobs'[x] = jobs[x]
      /\ jobs[j] \in Job
  BY JobType DEF TypeOK, JobsTypeOK
<1> QED
  BY <1>1 DEF JobsKept, Job

LEMMA HiringKeepsJobs ==
    ASSUME TypeOK, CaseInv, NEW sender \in Users, Hiring(sender)
    PROVE  JobsKept
<1>1. ASSUME NEW p, NEW e, NEW x, CreateJob(sender, p, e, x) PROVE JobsKept
  <2>1. \A j \in DOMAIN jobs : jobs'[j] = jobs[j]
    BY <1>1, BoundAssumption DEF CreateJob, MapSet, TypeOK, JobsTypeOK
  <2> QED
    BY <2>1 DEF JobsKept
<1>2. ASSUME NEW j \in JobIds, NEW amount \in Budgets, SetBudget(sender, j, amount)
      PROVE  JobsKept
  <2>1. /\ j \in DOMAIN jobs /\ jobs[j] \in Job /\ jobs[j].status = STATUS_OPEN
        /\ jobs'[j] = [jobs[j] EXCEPT !.budget = amount]
        /\ \A x \in DOMAIN jobs : x # j => jobs'[x] = jobs[x]
    BY <1>2, JobType DEF SetBudget, TypeOK, JobsTypeOK
  <2> QED
    BY <2>1 DEF JobsKept, Job
<1>3. ASSUME NEW j \in JobIds, FundJob(sender, j) PROVE JobsKept
  BY <1>3, StatusKept DEF FundJob
<1>4. ASSUME NEW j \in JobIds, NEW p \in Principals, AssignProvider(sender, j, p)
      PROVE  JobsKept
  <2>1. /\ j \in DOMAIN jobs /\ jobs[j] \in Job /\ jobs[j].status = STATUS_FUNDED
        /\ jobs'[j] = [jobs[j] EXCEPT !.provider = p]
        /\ \A x \in DOMAIN jobs : x # j => jobs'[x] = jobs[x]
    BY <1>4, JobType DEF AssignProvider, ProviderIsOpen, TypeOK, JobsTypeOK
  <2> QED
    BY <2>1 DEF JobsKept, Job
<1>5. ASSUME NEW j \in JobIds, SubmitWork(sender, j) PROVE JobsKept
  <2>1. /\ j \in DOMAIN jobs /\ jobs[j] \in Job /\ jobs[j].status = STATUS_FUNDED
        /\ jobs'[j] = [jobs[j] EXCEPT !.status = STATUS_SUBMITTED,
                                     !.submittedAtBurn = burnHeight,
                                     !.reviewDeadline = burnHeight + ReviewWindow]
        /\ \A x \in DOMAIN jobs : x # j => jobs'[x] = jobs[x]
    BY <1>5, JobType DEF SubmitWork, TypeOK, JobsTypeOK
  <2>2. jobs[j].reviewDeadline = NONE /\ jobs[j].status \in HeldStatuses
    BY <2>1, Unsubmitted, Held
  <2> QED
    BY <2>1, <2>2 DEF JobsKept, Job
<1> QED
  BY <1>1, <1>2, <1>3, <1>4, <1>5 DEF Hiring

LEMMA NextKeepsJobs ==
    ASSUME TypeOK, CaseInv, [Next]_vars
    PROVE  JobsKept
<1>1. ASSUME UNCHANGED jobs PROVE JobsKept
  BY <1>1 DEF JobsKept
<1> USE DEF jobVars
<1>2. ASSUME NEW sender \in Users, Governance(sender) PROVE JobsKept
  BY <1>1, <1>2
  DEF Governance, InitializeProtocol, ProposeOwner, AcceptOwner, CancelOwnerProposal,
      ProposeAppealAuthority, AcceptAppealAuthority, CancelAppealAuthorityProposal
<1>3. ASSUME NEW sender \in Users, NEW j \in JobIds, NEW h \in Hashes,
             NEW d \in 0..3, NEW g \in Hashes, RecordDecision(sender, j, d, h, g)
      PROVE  JobsKept
  BY <1>3, StatusKept, Held DEF RecordDecision
<1>4. ASSUME NEW sender \in Users, NEW j \in JobIds, NEW h \in Hashes,
             AppealDecision(sender, j, h)
      PROVE  JobsKept
  BY <1>4, StatusKept, Held DEF AppealDecision
<1>5. ASSUME NEW sender, NEW j \in DOMAIN jobs, NEW d, Settle(sender, j, d),
             jobs[j].status \in HeldStatuses
      PROVE  JobsKept
  BY <1>5, StatusKept DEF Settle
<1>6. ASSUME NEW sender \in Users, Judging(sender) PROVE JobsKept
  BY <1>1, <1>3, <1>4, <1>5, <1>6, Held DEF Judging, ResolveAppeal, WaiveServiceFee
<1>7. ASSUME NEW sender \in Users, NEW j \in JobIds, Permissionless(sender, j) PROVE JobsKept
  <2>1. CASE FinalizeDecision(sender, j) \/ SettleAppealTimeout(sender, j)
    BY <1>5, <2>1, Held DEF FinalizeDecision, SettleAppealTimeout
  <2>2. CASE SettleReviewTimeout(sender, j)
    BY <2>2, StatusKept, Held DEF SettleReviewTimeout
  <2>3. CASE ExpireJob(sender, j)
    BY <2>3, StatusKept, Held DEF ExpireJob
  <2> QED
    BY <1>7, <2>1, <2>2, <2>3 DEF Permissionless
<1>8. ASSUME NEW sender \in Users, Aftermath(sender) PROVE JobsKept
  BY <1>1, <1>8 DEF Aftermath, RefundServiceFee, RetryReputationSync, RateProvider
<1>9. CASE World
  BY <1>1, <1>9
  DEF World, AdvanceStacksBlock, AdvanceBurnBlock, ExternalTransfer, RegistryStep, commerceVars
<1>10. CASE UNCHANGED vars
  BY <1>1, <1>10 DEF vars
<1> QED
  BY <1>2, <1>6, <1>7, <1>8, <1>9, <1>10, HiringKeepsJobs DEF Next

\* No call takes a job number back.
LEMMA CounterGrows ==
    ASSUME TypeOK, [Next]_vars
    PROVE  jobCounter' >= jobCounter /\ jobCounter \in Nat
<1>0. jobCounter \in Nat
  BY DEF TypeOK, JobsTypeOK
<1>1. ASSUME UNCHANGED jobCounter PROVE jobCounter' >= jobCounter
  BY <1>0, <1>1
<1> USE DEF jobVars
<1>2. ASSUME NEW sender \in Users, Governance(sender) PROVE UNCHANGED jobCounter
  BY <1>2
  DEF Governance, InitializeProtocol, ProposeOwner, AcceptOwner, CancelOwnerProposal,
      ProposeAppealAuthority, AcceptAppealAuthority, CancelAppealAuthorityProposal
<1>3. ASSUME NEW p, NEW sender, NEW e, NEW x, CreateJob(sender, p, e, x)
      PROVE  jobCounter' >= jobCounter
  BY <1>0, <1>3 DEF CreateJob
<1>4. ASSUME NEW sender \in Users, Hiring(sender) PROVE jobCounter' >= jobCounter
  BY <1>1, <1>3, <1>4 DEF Hiring, SetBudget, FundJob, AssignProvider, SubmitWork
<1>5. ASSUME NEW sender \in Users, Judging(sender) PROVE UNCHANGED jobCounter
  BY <1>5 DEF Judging, RecordDecision, AppealDecision, ResolveAppeal, Settle,
              WaiveServiceFee
<1>6. ASSUME NEW sender \in Users, NEW j \in JobIds, Permissionless(sender, j)
      PROVE  UNCHANGED jobCounter
  BY <1>6 DEF Permissionless, FinalizeDecision, SettleAppealTimeout, Settle,
              SettleReviewTimeout, ExpireJob
<1>7. ASSUME NEW sender \in Users, Aftermath(sender) PROVE UNCHANGED jobCounter
  BY <1>7 DEF Aftermath, RefundServiceFee, RetryReputationSync, RateProvider
<1>8. CASE World
  BY <1>0, <1>1, <1>8 DEF World, AdvanceStacksBlock, AdvanceBurnBlock, ExternalTransfer,
                          RegistryStep, commerceVars
<1>9. CASE UNCHANGED vars
  BY <1>0, <1>1, <1>9 DEF vars
<1> QED
  BY <1>0, <1>1, <1>2, <1>4, <1>5, <1>6, <1>7, <1>8, <1>9 DEF Next

LEMMA NextKeepsDecisions ==
    ASSUME TypeOK, CaseInv, [Next]_vars
    PROVE  DecisionsKept
<1>1. ASSUME UNCHANGED decisions PROVE DecisionsKept
  BY <1>1 DEF DecisionsKept
<1>2. \A j \in DOMAIN decisions : j \in DOMAIN jobs /\ decisions[j] \in Decision /\ CaseInOrder(j)
  BY DecisionType DEF CaseInv
<1>3. ASSUME NEW sender \in Users, NEW j \in JobIds, NEW h \in Hashes,
             NEW d \in 0..3, NEW g \in Hashes, RecordDecision(sender, j, d, h, g)
      PROVE  DecisionsKept
  <2>1. j \notin DOMAIN decisions
    BY <1>2, <1>3, Held, Statuses DEF RecordDecision, CaseInOrder
  <2>2. \A x \in DOMAIN decisions : decisions'[x] = decisions[x]
    BY <1>3, <2>1 DEF RecordDecision, MapSet
  <2> QED
    BY <2>2 DEF DecisionsKept
<1>4. ASSUME NEW sender \in Users, NEW j \in JobIds, NEW h \in Hashes,
             AppealDecision(sender, j, h)
      PROVE  DecisionsKept
  <2>1. /\ j \in DOMAIN decisions /\ decisions[j] \in Decision
        /\ decisions[j].final = NONE /\ decisions[j].appealedBy = NONE
        /\ decisions[j].resolutionDeadline = NONE
    BY <1>2, <1>4 DEF AppealDecision, CaseInOrder
  <2>2. /\ decisions'[j] = [decisions[j] EXCEPT !.appealedBy = sender,
                                !.resolutionDeadline = burnHeight + appealWindow]
        /\ \A x \in DOMAIN decisions : x # j => decisions'[x] = decisions[x]
    BY <1>4, <2>1 DEF AppealDecision
  <2> QED
    BY <2>1, <2>2 DEF DecisionsKept, Decision
<1>5. ASSUME NEW sender, NEW j \in DOMAIN decisions, NEW d, Settle(sender, j, d),
             jobs[j].status \in {STATUS_DECISION_PENDING, STATUS_DISPUTED}
      PROVE  DecisionsKept
  <2>1. decisions[j] \in Decision /\ decisions[j].final = NONE
    BY <1>2, <1>5 DEF CaseInOrder
  <2>2. /\ decisions'[j] = [decisions[j] EXCEPT !.final = d, !.finalizedBy = sender,
                                !.finalizedAtBurn = burnHeight]
        /\ \A x \in DOMAIN decisions : x # j => decisions'[x] = decisions[x]
    BY <1>5 DEF Settle
  <2> QED
    BY <2>1, <2>2 DEF DecisionsKept, Decision
<1>6. ASSUME NEW sender \in Users, Governance(sender) PROVE DecisionsKept
  BY <1>1, <1>6
  DEF Governance, InitializeProtocol, ProposeOwner, AcceptOwner, CancelOwnerProposal,
      ProposeAppealAuthority, AcceptAppealAuthority, CancelAppealAuthorityProposal
<1>7. ASSUME NEW sender \in Users, Hiring(sender) PROVE DecisionsKept
  BY <1>1, <1>7 DEF Hiring, CreateJob, SetBudget, FundJob, AssignProvider, SubmitWork
<1>8. ASSUME NEW sender \in Users, Judging(sender) PROVE DecisionsKept
  BY <1>1, <1>3, <1>4, <1>5, <1>8 DEF Judging, ResolveAppeal, WaiveServiceFee
<1>9. ASSUME NEW sender \in Users, NEW j \in JobIds, Permissionless(sender, j)
      PROVE  DecisionsKept
  BY <1>1, <1>5, <1>9
  DEF Permissionless, FinalizeDecision, SettleAppealTimeout, SettleReviewTimeout, ExpireJob
<1>10. ASSUME NEW sender \in Users, Aftermath(sender) PROVE DecisionsKept
  BY <1>1, <1>10 DEF Aftermath, RefundServiceFee, RetryReputationSync, RateProvider
<1>11. CASE World
  BY <1>1, <1>11
  DEF World, AdvanceStacksBlock, AdvanceBurnBlock, ExternalTransfer, RegistryStep, commerceVars
<1>12. CASE UNCHANGED vars
  BY <1>1, <1>12 DEF vars
<1> QED
  BY <1>6, <1>7, <1>8, <1>9, <1>10, <1>11, <1>12 DEF Next

LEMMA NextKeepsFees ==
    ASSUME TypeOK, [Next]_vars
    PROVE  FeesKept
<1>1. ASSUME UNCHANGED feeVars PROVE FeesKept
  BY <1>1 DEF FeesKept, feeVars
<1>2. ASSUME NEW sender, NEW j, NEW d, Settle(sender, j, d) PROVE FeesKept
  <2>1. /\ \A x \in DOMAIN serviceFeeSettlements :
               serviceFeeSettlements'[x] = serviceFeeSettlements[x]
        /\ UNCHANGED serviceFeeWaivers
    BY <1>2 DEF Settle, SettleServicePayment, MapSet
  <2> QED
    BY <2>1 DEF FeesKept
<1>3. ASSUME NEW sender, NEW j, RefundServiceFee(sender, j) PROVE FeesKept
  BY <1>3 DEF RefundServiceFee, FeesKept
<1>4. ASSUME NEW sender, NEW j, NEW h, WaiveServiceFee(sender, j, h) PROVE FeesKept
  BY <1>4 DEF WaiveServiceFee, FeesKept
<1>5. ASSUME NEW sender \in Users, Governance(sender) PROVE FeesKept
  BY <1>1, <1>5
  DEF Governance, InitializeProtocol, ProposeOwner, AcceptOwner, CancelOwnerProposal,
      ProposeAppealAuthority, AcceptAppealAuthority, CancelAppealAuthorityProposal
<1>6. ASSUME NEW sender \in Users, Hiring(sender) PROVE FeesKept
  BY <1>1, <1>6 DEF Hiring, CreateJob, SetBudget, FundJob, AssignProvider, SubmitWork
<1>7. ASSUME NEW sender \in Users, Judging(sender) PROVE FeesKept
  BY <1>1, <1>2, <1>4, <1>7 DEF Judging, RecordDecision, AppealDecision, ResolveAppeal
<1>8. ASSUME NEW sender \in Users, NEW j \in JobIds, Permissionless(sender, j) PROVE FeesKept
  BY <1>1, <1>2, <1>8
  DEF Permissionless, FinalizeDecision, SettleAppealTimeout, SettleReviewTimeout, ExpireJob
<1>9. ASSUME NEW sender \in Users, Aftermath(sender) PROVE FeesKept
  BY <1>1, <1>3, <1>9 DEF Aftermath, RetryReputationSync, RateProvider
<1>10. CASE World
  BY <1>1, <1>10
  DEF World, AdvanceStacksBlock, AdvanceBurnBlock, ExternalTransfer, RegistryStep, commerceVars
<1>11. CASE UNCHANGED vars
  BY <1>1, <1>11 DEF vars
<1> QED
  BY <1>5, <1>6, <1>7, <1>8, <1>9, <1>10, <1>11 DEF Next

\* What a party relied on when it acted stays: the roles and the expiry from
\* the job's creation, the budget from its funding, the provider and the review
\* deadline from the submission, the decision and its appeal from their
\* recording, and the final decision, the settlement and the waiver for ever.
THEOREM CommitmentsStayKept == Spec => CommitmentsAreKept
<1>1. TypeOK /\ CaseInv /\ [Next]_vars => [JobsKept /\ DecisionsKept /\ FeesKept]_vars
  BY NextKeepsJobs, NextKeepsDecisions, NextKeepsFees
<1>2. Spec => []TypeOK /\ []CaseInv
  BY TypeCorrect, CaseInvHolds
<1>3. Spec => [][JobsKept /\ DecisionsKept /\ FeesKept]_vars
  BY <1>1, <1>2, PTL DEF Spec
<1> QED
  BY <1>3, CommitmentsByMap

-----------------------------------------------------------------------------
(* The refinement of EscrowPromise *)

\* The mapped variables, and a mapped step.
Deposits == [j \in JobIds |-> DepositOf(j)]
Stutter == UNCHANGED <<stx, Deposits, Closed>>
PromiseStep == Promise!Next \/ Stutter

\* What the mapping needs to know of the state a call starts from.
PromiseInv == EscrowInv /\ CaseInv /\ FeeInv /\ JobPartiesSeparated

\* The statuses of a job that is not over.
LiveStatuses == HeldStatuses \cup {STATUS_OPEN}

-----------------------------------------------------------------------------
(* What a call does to the mapped variables *)

LEMMA DepositIsItsRow ==
    ASSUME TypeOK, EscrowMatchesStatus, NEW j \in DOMAIN jobs
    PROVE  /\ DepositOf(j) = NONE <=> j \notin DOMAIN escrowBalances
           /\ j \in DOMAIN escrowBalances <=> jobs[j].status \in HeldStatuses
           /\ j \in DOMAIN escrowBalances =>
                /\ DepositOf(j) # NONE
                /\ DepositOf(j).payer = jobs[j].client
                /\ DepositOf(j).amount = jobs[j].budget /\ jobs[j].budget > 0
                /\ DepositOf(j).worker = IF jobs[j].status = STATUS_FUNDED
                                         THEN NONE ELSE jobs[j].provider
<1>1. jobs[j] \in Job
  BY JobType
<1>2. CASE j \notin DOMAIN escrowBalances
  BY <1>2 DEF DepositOf, EscrowMatchesStatus
<1>3. CASE j \in DOMAIN escrowBalances
  <2> DEFINE r == [payer |-> jobs[j].client, amount |-> escrowBalances[j],
                   worker |-> IF jobs[j].status = STATUS_FUNDED
                              THEN NONE ELSE jobs[j].provider]
  <2>1. DepositOf(j) = r
    BY <1>3 DEF DepositOf
  <2>2. escrowBalances[j] \in Nat
    BY <1>3 DEF TypeOK, MapsTypeOK, IsMap
  <2>3. r \in [payer : Principals, amount : Nat, worker : Principals \cup {NONE}]
    BY <1>1, <2>2 DEF Job
  <2>4. r # NONE
    BY <2>3, NoneAssumption
  <2> QED
    BY <1>3, <2>1, <2>4 DEF EscrowMatchesStatus
<1> QED
  BY <1>2, <1>3

\* A job that keeps its row of escrow-balances, its client, whether it is being
\* worked on and by whom, and whether it is over.
JobStays(j) ==
    /\ j \in DOMAIN jobs' /\ jobs'[j].client = jobs[j].client
    /\ j \in DOMAIN escrowBalances' <=> j \in DOMAIN escrowBalances
    /\ j \in DOMAIN escrowBalances => escrowBalances'[j] = escrowBalances[j]
    /\ jobs'[j].status = STATUS_FUNDED <=> jobs[j].status = STATUS_FUNDED
    /\ j \in DOMAIN escrowBalances /\ jobs[j].status # STATUS_FUNDED
       => jobs'[j].provider = jobs[j].provider
    /\ jobs'[j].status \in LiveStatuses <=> jobs[j].status \in LiveStatuses

LEMMA StaysMapped ==
    ASSUME NEW j, JobStays(j)
    PROVE  DepositOf(j)' = DepositOf(j)
BY DEF JobStays, DepositOf

LEMMA AllStay ==
    ASSUME TypeOK, TypeOK', EscrowMatchesStatus, EscrowMatchesStatus', UNCHANGED stx,
           \A j \in DOMAIN jobs : JobStays(j),
           \A j \in DOMAIN jobs' \ DOMAIN jobs : jobs'[j].status = STATUS_OPEN
    PROVE  Stutter
<1>1. /\ DOMAIN escrowBalances \subseteq DOMAIN jobs
      /\ DOMAIN escrowBalances' \subseteq DOMAIN jobs'
  BY DEF TypeOK, MapsTypeOK, JobsTypeOK, IsMap
<1>2. ASSUME NEW j \in JobIds PROVE DepositOf(j)' = DepositOf(j)
  <2>1. CASE j \in DOMAIN jobs
    BY <2>1, StaysMapped
  <2>2. CASE j \notin DOMAIN jobs
    <3>1. j \notin DOMAIN escrowBalances /\ j \notin DOMAIN escrowBalances'
      BY <1>1, <2>2, Held DEF EscrowMatchesStatus
    <3> QED
      BY <3>1 DEF DepositOf
  <2> QED
    BY <2>1, <2>2
<1>3. Deposits' = Deposits
  BY <1>2 DEF Deposits
<1>4. Closed' = Closed
  BY Held DEF Closed, JobStays, LiveStatuses
<1> QED
  BY <1>3, <1>4 DEF Stutter

\* A call about one job that moves no money and ends no job.
LEMMA OneStays ==
    ASSUME TypeOK, TypeOK', EscrowMatchesStatus, EscrowMatchesStatus',
           NEW k \in DOMAIN jobs, DOMAIN jobs' = DOMAIN jobs,
           \A j \in DOMAIN jobs \ {k} : jobs'[j] = jobs[j],
           UNCHANGED <<stx, escrowBalances>>, jobs'[k].client = jobs[k].client,
           jobs'[k].status = STATUS_FUNDED <=> jobs[k].status = STATUS_FUNDED,
           jobs[k].status \in HeldStatuses \ {STATUS_FUNDED}
               => jobs'[k].provider = jobs[k].provider,
           jobs'[k].status \in LiveStatuses, jobs[k].status \in LiveStatuses
    PROVE  Stutter
<1>1. JobStays(k)
  BY DEF JobStays, EscrowMatchesStatus
<1>2. \A j \in DOMAIN jobs \ {k} : JobStays(j)
  BY DEF JobStays
<1> QED
  BY <1>1, <1>2, AllStay

LEMMA PayNothing ==
    ASSUME NEW f \in [Principals -> Int], NEW a \in Principals, NEW b \in Principals
    PROVE  Promise!Pay(f, 0, a, b) = f
BY DEF Promise!Pay

\* What funding a job does to the mapped variables, whatever it is paid with.
LEMMA FundOpensDeposit ==
    ASSUME PromiseInv, NEW sender \in Users, NEW j \in JobIds, FundJob(sender, j)
    PROVE  /\ Deposits[j] = NONE /\ j \notin Closed
           /\ Deposits' = [Deposits EXCEPT ![j] =
                  [payer |-> sender, amount |-> jobs[j].budget, worker |-> NONE]]
           /\ Closed' = Closed
<1>1. /\ TypeOK /\ EscrowMatchesStatus /\ j \in DOMAIN jobs
      /\ jobs[j].status = STATUS_OPEN /\ jobs[j].client = sender
      /\ escrowBalances' = MapSet(escrowBalances, j, jobs[j].budget)
      /\ jobs' = [jobs EXCEPT ![j].status = STATUS_FUNDED]
  BY DEF FundJob, PromiseInv, EscrowInv
<1>2. j \notin DOMAIN escrowBalances /\ DepositOf(j) = NONE
  BY <1>1, Held DEF EscrowMatchesStatus, DepositOf
<1>3. /\ DOMAIN jobs' = DOMAIN jobs
      /\ \A x \in DOMAIN jobs \ {j} : jobs'[x] = jobs[x]
      /\ jobs'[j].status = STATUS_FUNDED /\ jobs'[j].client = sender
      /\ DOMAIN escrowBalances' = DOMAIN escrowBalances \cup {j}
      /\ escrowBalances'[j] = jobs[j].budget
      /\ \A x \in DOMAIN escrowBalances : x # j => escrowBalances'[x] = escrowBalances[x]
  BY <1>1 DEF TypeOK, JobsTypeOK, Job, MapSet
<1>4. DepositOf(j)' = [payer |-> sender, amount |-> jobs[j].budget, worker |-> NONE]
  BY <1>3 DEF DepositOf
<1>5. ASSUME NEW x \in JobIds, x # j PROVE DepositOf(x)' = DepositOf(x)
  <2>1. CASE x \in DOMAIN escrowBalances
    <3>1. x \in DOMAIN jobs
      BY <2>1, <1>1 DEF TypeOK, MapsTypeOK, JobsTypeOK, IsMap
    <3> QED
      BY <1>3, <1>5, <2>1, <3>1 DEF DepositOf
  <2>2. CASE x \notin DOMAIN escrowBalances
    BY <1>3, <1>5, <2>2 DEF DepositOf
  <2> QED
    BY <2>1, <2>2
<1>6. j \notin Closed /\ Closed' = Closed
  BY <1>1, <1>3, Held DEF Closed
<1> QED
  BY <1>2, <1>4, <1>5, <1>6 DEF Deposits

\* The money of a job is paid in.
LEMMA FundIsDeposit ==
    ASSUME PromiseInv, NEW sender \in Users, NEW j \in JobIds, FundJob(sender, j)
    PROVE  Promise!Next
<1>1. /\ TypeOK /\ jobs[j].budget \in Nat /\ jobs[j].budget > 0
      /\ stx[sender] >= jobs[j].budget
      /\ stx' = Transfer(stx, jobs[j].budget, sender, Escrow)
  BY JobType DEF FundJob, StxTransfer, CanTransfer, PromiseInv, EscrowInv, Job
<1>2. /\ sender \in Principals /\ sender # Escrow /\ Escrow \in Principals
      /\ stx \in [Principals -> Nat]
  BY <1>1, PrincipalsAssumption DEF Users, TypeOK, ChainTypeOK
<1>3. jobs[j].budget \in 1..stx[sender]
  BY <1>1, <1>2
<1>4. stx' = Promise!Pay(stx, jobs[j].budget, sender, Escrow)
  BY <1>1 DEF Transfer, Promise!Pay
<1>5. stx' # stx
  <2>1. stx'[sender] = stx[sender] - jobs[j].budget
    BY <1>1, <1>2 DEF Transfer
  <2> QED
    BY <1>1, <1>2, <2>1
<1>6. Promise!Deposit(j, sender)
  BY <1>3, <1>4, FundOpensDeposit DEF Promise!Deposit, Deposits
<1> QED
  BY <1>5, <1>6 DEF Promise!Next, Promise!MoneyMoves, Promise!Others, Users

\* The provider hands in the work and can no longer be replaced.
LEMMA SubmitIsEngage ==
    ASSUME PromiseInv, TypeOK', EscrowMatchesStatus', NEW sender \in Users,
           NEW j \in JobIds, SubmitWork(sender, j)
    PROVE  Promise!Next
<1>1. /\ TypeOK /\ EscrowMatchesStatus /\ j \in DOMAIN jobs
      /\ jobs[j].status = STATUS_FUNDED /\ jobs[j].provider = sender
      /\ jobs[j].status \in HeldStatuses /\ j \in DOMAIN escrowBalances
      /\ UNCHANGED <<stx, escrowBalances>>
  BY Held DEF SubmitWork, PromiseInv, EscrowInv, EscrowMatchesStatus, moneyVars
<1>2. /\ DOMAIN jobs' = DOMAIN jobs
      /\ \A x \in DOMAIN jobs \ {j} : jobs'[x] = jobs[x]
      /\ jobs'[j].status = STATUS_SUBMITTED /\ jobs'[j].client = jobs[j].client
      /\ jobs'[j].provider = sender
  BY <1>1 DEF SubmitWork, TypeOK, JobsTypeOK, Job
<1>3. /\ DepositOf(j) = [payer |-> jobs[j].client, amount |-> escrowBalances[j],
                         worker |-> NONE]
      /\ DepositOf(j) # NONE
      /\ DepositOf(j)' = [payer |-> jobs[j].client, amount |-> escrowBalances[j],
                          worker |-> sender]
  BY <1>1, <1>2, DepositIsItsRow, Held DEF DepositOf
<1>4. sender # jobs[j].client
  BY <1>1 DEF PromiseInv, JobPartiesSeparated
<1>5. ASSUME NEW x \in JobIds, x # j PROVE DepositOf(x)' = DepositOf(x)
  <2>1. x \in DOMAIN escrowBalances => x \in DOMAIN jobs
    BY <1>1 DEF TypeOK, MapsTypeOK, JobsTypeOK, IsMap
  <2> QED
    BY <1>1, <1>2, <1>5, <2>1 DEF DepositOf
<1>6. Closed' = Closed
  BY <1>1, <1>2, Held DEF Closed
<1>7. DepositOf(j)' = [DepositOf(j) EXCEPT !.worker = sender]
  BY <1>3
<1>8. Deposits' = [Deposits EXCEPT ![j].worker = sender]
  BY <1>5, <1>7 DEF Deposits
<1>9. /\ Deposits[j] # NONE /\ Deposits[j].worker = NONE
      /\ sender # Deposits[j].payer
  BY <1>3, <1>4 DEF Deposits
<1>10. Promise!Engage(j, sender)
  BY <1>1, <1>6, <1>8, <1>9 DEF Promise!Engage, Deposits
<1> QED
  BY <1>10 DEF Promise!Next, Promise!Others, Users

\* Who a job that is held is between.
LEMMA HeldDeposit ==
    ASSUME PromiseInv, NEW j \in DOMAIN jobs, jobs[j].status \in HeldStatuses
    PROVE  /\ j \in JobIds /\ Deposits[j] # NONE
           /\ Deposits[j].payer = jobs[j].client
           /\ Deposits[j].amount = jobs[j].budget
           /\ Deposits[j].worker = IF jobs[j].status = STATUS_FUNDED
                                   THEN NONE ELSE jobs[j].provider
           /\ jobs[j].treasury \in Users
           /\ jobs[j].treasury \notin {Deposits[j].payer, Deposits[j].worker}
<1>1. TypeOK /\ EscrowMatchesStatus /\ jobs[j] \in Job /\ j \in JobIds
  BY JobType DEF PromiseInv, EscrowInv
<1>2. /\ Deposits[j] # NONE
      /\ Deposits[j].payer = jobs[j].client
      /\ Deposits[j].amount = jobs[j].budget
      /\ Deposits[j].worker = IF jobs[j].status = STATUS_FUNDED
                              THEN NONE ELSE jobs[j].provider
  BY <1>1, DepositIsItsRow DEF Deposits
<1>3. /\ jobs[j].treasury \notin {jobs[j].client, jobs[j].provider}
      /\ jobs[j].treasury \in Users
  <2>1. /\ jobs[j].treasury = serviceTreasury /\ serviceTreasury # Escrow
        /\ jobs[j].treasury \in Principals
    BY <1>1 DEF PromiseInv, FeeInv, FeeReadable, TreasuryInv, Job
  <2> QED
    BY <2>1 DEF PromiseInv, JobPartiesSeparated, Users
<1> QED
  BY <1>1, <1>2, <1>3, NoneIsNoNumber DEF Users

\* What emptying the row of a job and closing it does to the mapped variables.
LEMMA CloseEndsDeposit ==
    ASSUME PromiseInv, NEW j \in DOMAIN jobs, jobs[j].status \in HeldStatuses,
           NEW s, s \notin LiveStatuses, jobs' = [jobs EXCEPT ![j].status = s],
           escrowBalances' = EscrowWithout(j)
    PROVE  Deposits' = [Deposits EXCEPT ![j] = NONE] /\ Closed' = Closed \cup {j}
<1>1. TypeOK /\ jobs[j] \in Job /\ j \in JobIds
  BY JobType DEF PromiseInv, EscrowInv
<1>2. /\ DOMAIN jobs' = DOMAIN jobs /\ jobs'[j].status = s
      /\ \A x \in DOMAIN jobs \ {j} : jobs'[x] = jobs[x]
      /\ DOMAIN escrowBalances' = DOMAIN escrowBalances \ {j}
      /\ \A x \in DOMAIN escrowBalances : x # j => escrowBalances'[x] = escrowBalances[x]
  BY <1>1, MapDeleteIsMap DEF EscrowWithout, TypeOK, JobsTypeOK, MapsTypeOK, Job
<1>3. \A x \in JobIds : DepositOf(x)' = IF x = j THEN NONE ELSE DepositOf(x)
  <2>1. DepositOf(j)' = NONE
    BY <1>2 DEF DepositOf
  <2>2. ASSUME NEW x \in JobIds, x # j PROVE DepositOf(x)' = DepositOf(x)
    <3>1. x \in DOMAIN escrowBalances => x \in DOMAIN jobs
      BY <1>1 DEF TypeOK, MapsTypeOK, JobsTypeOK, IsMap
    <3> QED
      BY <1>2, <2>2, <3>1 DEF DepositOf
  <2> QED
    BY <2>1, <2>2
<1>4. Deposits' = [Deposits EXCEPT ![j] = NONE]
  BY <1>1, <1>3 DEF Deposits
<1>5. Closed' = Closed \cup {j}
  BY <1>2 DEF Closed, LiveStatuses
<1> QED
  BY <1>4, <1>5

\* A payment that empties the row of a job and closes it.
LEMMA CloseIsRelease ==
    ASSUME PromiseInv, NEW j \in DOMAIN jobs, jobs[j].status \in HeldStatuses,
           NEW s, s \notin LiveStatuses, jobs' = [jobs EXCEPT ![j].status = s],
           escrowBalances' = EscrowWithout(j),
           NEW to \in Users, to \in {jobs[j].client, jobs[j].provider},
           jobs[j].status = STATUS_FUNDED => to = jobs[j].client,
           NEW fee \in {0, Fee(jobs[j].budget)},
           fee > 0 => jobs[j].status # STATUS_FUNDED /\ jobs[j].provider # NONE,
           stx' = Promise!Pay(Promise!Pay(stx, jobs[j].budget - fee, Escrow, to),
                              fee, Escrow, jobs[j].treasury),
           stx' # stx
    PROVE  Promise!Next
<1> DEFINE treasury == jobs[j].treasury
<1>1. /\ j \in JobIds /\ treasury \in Users /\ Deposits[j] # NONE
      /\ treasury \notin {Deposits[j].payer, Deposits[j].worker}
      /\ Deposits[j].amount = jobs[j].budget
  BY HeldDeposit
<1>2. to \in {Deposits[j].payer, Deposits[j].worker}
  BY HeldDeposit
<1>3. fee > 0 => Deposits[j].worker # NONE
  BY HeldDeposit
<1>4. fee \in {0, Promise!Fee(Deposits[j].amount)}
  BY <1>1 DEF Fee, Promise!Fee, SERVICE_FEE_DIVISOR, Promise!SERVICE_FEE_DIVISOR
<1>5. Deposits' = [Deposits EXCEPT ![j] = NONE] /\ Closed' = Closed \cup {j}
  BY CloseEndsDeposit
<1> HIDE DEF treasury
<1>6. \E f \in {0, Promise!Fee(Deposits[j].amount)} :
          /\ f > 0 => Deposits[j].worker # NONE
          /\ stx' = Promise!Pay(Promise!Pay(stx, Deposits[j].amount - f, Escrow, to),
                                f, Escrow, treasury)
  BY <1>1, <1>3, <1>4 DEF treasury
<1>7. Promise!Release(j, to, treasury)
  BY <1>1, <1>2, <1>5, <1>6 DEF Promise!Release, Deposits
<1> QED
  BY <1>1, <1>7 DEF Promise!Next, Promise!MoneyMoves, Promise!Others, Users

\* What the two legs of a settlement leave of a ledger.
LEMMA SettlementShares ==
    ASSUME TypeOK, NEW j \in DOMAIN jobs, NEW to \in Principals,
           NEW ledger \in [Principals -> Nat]
    PROVE  /\ ChargedFee(j) \in {0, Fee(jobs[j].budget)}
           /\ ChargedFee(j) \in 0..jobs[j].budget
           /\ AfterSettlement(ledger, j, to) =
                  Promise!Pay(Promise!Pay(ledger, jobs[j].budget - ChargedFee(j), Escrow, to),
                              ChargedFee(j), Escrow, jobs[j].treasury)
<1> DEFINE fee == ChargedFee(j)
           budget == jobs[j].budget
           afterNet == Transfer(ledger, budget - fee, Escrow, to)
<1>1. jobs[j] \in Job /\ budget \in Nat /\ jobs[j].treasury \in Principals
  BY JobType DEF Job
<1>2. fee \in {0, Fee(budget)} /\ fee \in 0..budget
  BY <1>1, FeeInRange DEF ChargedFee
<1>3. afterNet = Promise!Pay(ledger, budget - fee, Escrow, to)
  BY DEF Transfer, Promise!Pay
<1>4. afterNet \in [Principals -> Int]
  BY <1>1, <1>2, PrincipalsAssumption DEF Transfer
<1>5. AfterSettlement(ledger, j, to) =
          IF fee > 0 THEN Transfer(afterNet, fee, Escrow, jobs[j].treasury) ELSE afterNet
  BY DEF AfterSettlement, FeeIsDue
<1> HIDE DEF fee, afterNet
<1>6. Promise!Pay(afterNet, 0, Escrow, jobs[j].treasury) = afterNet
  BY <1>1, <1>4, PayNothing, PrincipalsAssumption
<1>7. Transfer(afterNet, fee, Escrow, jobs[j].treasury) =
          Promise!Pay(afterNet, fee, Escrow, jobs[j].treasury)
  BY DEF Transfer, Promise!Pay
<1>8. AfterSettlement(ledger, j, to) = Promise!Pay(afterNet, fee, Escrow, jobs[j].treasury)
  BY <1>1, <1>2, <1>5, <1>6, <1>7
<1> QED
  BY <1>2, <1>3, <1>8 DEF fee

\* The three ways to settle a decided job.
LEMMA SettleIsRelease ==
    ASSUME PromiseInv, NEW sender, NEW j \in DOMAIN jobs, jobs[j].provider # NONE,
           jobs[j].status \in {STATUS_DECISION_PENDING, STATUS_DISPUTED},
           NEW d \in {DECISION_APPROVE, DECISION_REJECT}, Settle(sender, j, d)
    PROVE  Promise!Next
<1> DEFINE to == Recipient(jobs[j], d)
           fee == ChargedFee(j)
           budget == jobs[j].budget
<1>1. /\ TypeOK /\ jobs[j] \in Job /\ budget \in Nat
      /\ Escrow \in Principals /\ stx \in [Principals -> Nat]
      /\ to \in {jobs[j].client, jobs[j].provider} /\ to \in Principals
  BY JobType, PrincipalsAssumption
  DEF PromiseInv, EscrowInv, TypeOK, ChainTypeOK, Recipient, Job
<1>2. /\ SettleServicePayment(j, to) /\ budget > 0
      /\ escrowBalances' = EscrowWithout(j)
      /\ jobs' = [jobs EXCEPT ![j].status = StatusFor(d)]
  BY DEF Settle, SettleServicePayment
<1>3. StatusFor(d) \notin LiveStatuses
  BY Held DEF StatusFor, LiveStatuses
<1>4. jobs[j].status \in HeldStatuses /\ jobs[j].status # STATUS_FUNDED
  BY Held
<1>5. fee \in {0, Fee(budget)} /\ fee \in 0..budget
  BY <1>1, SettlementShares
<1>6. stx'[Escrow] = stx[Escrow] - budget /\ to # Escrow
  BY <1>1, <1>2, SettlementTakesGross
<1>7. stx' # stx
  BY <1>1, <1>2, <1>6
<1>8. stx' = Promise!Pay(Promise!Pay(stx, budget - fee, Escrow, to), fee, Escrow,
                         jobs[j].treasury)
  BY <1>1, <1>2, SettlementShares DEF SettleServicePayment
<1>9. to \in Users
  BY <1>1, <1>6 DEF Users
<1> HIDE DEF fee, to
<1> QED
  BY <1>1, <1>2, <1>3, <1>4, <1>5, <1>7, <1>8, <1>9, CloseIsRelease

\* The whole budget to one party, without a fee.
LEMMA GrossIsRelease ==
    ASSUME PromiseInv, NEW j \in DOMAIN jobs, jobs[j].status \in HeldStatuses,
           NEW s, s \notin LiveStatuses, jobs' = [jobs EXCEPT ![j].status = s],
           escrowBalances' = EscrowWithout(j),
           NEW to \in Principals, to \in {jobs[j].client, jobs[j].provider},
           jobs[j].status = STATUS_FUNDED => to = jobs[j].client,
           StxTransfer(jobs[j].budget, Escrow, to)
    PROVE  Promise!Next
<1> DEFINE budget == jobs[j].budget
<1>1. /\ TypeOK /\ jobs[j] \in Job /\ budget \in Nat /\ budget > 0
      /\ Escrow \in Principals /\ stx \in [Principals -> Nat]
      /\ to # Escrow /\ stx' = Transfer(stx, budget, Escrow, to)
  BY JobType, PrincipalsAssumption
  DEF PromiseInv, EscrowInv, TypeOK, ChainTypeOK, StxTransfer, CanTransfer
<1>2. stx'[Escrow] = stx[Escrow] - budget
  BY <1>1 DEF Transfer
<1>3. stx' # stx
  BY <1>1, <1>2
<1>4. stx' \in [Principals -> Int] /\ stx' = Promise!Pay(stx, budget, Escrow, to)
  BY <1>1 DEF Transfer, Promise!Pay
<1>5. jobs[j].treasury \in Principals /\ to \in Users
  BY <1>1 DEF Job, Users
<1> PICK fee : fee = 0
  OBVIOUS
<1>6. stx' = Promise!Pay(Promise!Pay(stx, budget - fee, Escrow, to), fee, Escrow,
                         jobs[j].treasury)
  <2>1. budget - fee = budget
    BY <1>1
  <2> QED
    BY <1>1, <1>4, <1>5, <2>1, PayNothing
<1>7. fee \in {0, Fee(budget)} /\ ~ (fee > 0)
  OBVIOUS
<1> QED
  BY <1>3, <1>5, <1>6, <1>7, CloseIsRelease

LEMMA PermissionlessMapped ==
    ASSUME PromiseInv, TypeOK', EscrowMatchesStatus', NEW sender \in Users,
           NEW j \in JobIds, Permissionless(sender, j)
    PROVE  PromiseStep
<1>1. ASSUME j \in DOMAIN decisions
      PROVE  decisions[j].original \in {DECISION_APPROVE, DECISION_REJECT}
  BY <1>1, DecisionType DEF PromiseInv, EscrowInv, Decision
<1>2. CASE FinalizeDecision(sender, j)
  BY <1>1, <1>2, SettleIsRelease DEF FinalizeDecision, PromiseStep
<1>3. CASE SettleAppealTimeout(sender, j)
  BY <1>1, <1>3, SettleIsRelease DEF SettleAppealTimeout, PromiseStep
<1>4. CASE SettleReviewTimeout(sender, j)
  <2>1. /\ j \in DOMAIN jobs /\ jobs[j].provider \in Principals
        /\ jobs[j].status = STATUS_SUBMITTED
        /\ StxTransfer(jobs[j].budget, Escrow, jobs[j].provider)
        /\ escrowBalances' = EscrowWithout(j)
        /\ jobs' = [jobs EXCEPT ![j].status = STATUS_TIMEOUT_PAID]
    BY <1>4, JobType DEF SettleReviewTimeout, PromiseInv, EscrowInv, Job
  <2>2. /\ jobs[j].status \in HeldStatuses /\ jobs[j].status # STATUS_FUNDED
        /\ STATUS_TIMEOUT_PAID \notin LiveStatuses
    BY <2>1, Held DEF LiveStatuses
  <2> QED
    BY <2>1, <2>2, GrossIsRelease DEF PromiseStep
<1>5. CASE ExpireJob(sender, j)
  <2>1. /\ j \in DOMAIN jobs /\ jobs[j].status \in {STATUS_OPEN, STATUS_FUNDED}
        /\ jobs' = [jobs EXCEPT ![j].status = STATUS_EXPIRED]
        /\ TypeOK /\ EscrowMatchesStatus /\ jobs[j] \in Job
        /\ STATUS_EXPIRED \notin LiveStatuses
    BY <1>5, JobType, Held DEF ExpireJob, PromiseInv, EscrowInv, LiveStatuses
  <2>2. CASE jobs[j].status = STATUS_FUNDED
    <3>1. /\ jobs[j].status \in HeldStatuses
          /\ j \in DOMAIN escrowBalances /\ escrowBalances[j] = jobs[j].budget
          /\ jobs[j].budget > 0
      BY <2>1, <2>2, Held DEF EscrowMatchesStatus
    <3>2. /\ StxTransfer(jobs[j].budget, Escrow, jobs[j].client)
          /\ escrowBalances' = EscrowWithout(j)
      BY <1>5, <3>1 DEF ExpireJob, MapGetOr
    <3>3. jobs[j].client \in Principals
      BY <2>1 DEF Job
    <3> QED
      BY <2>1, <3>1, <3>2, <3>3, GrossIsRelease DEF PromiseStep
  <2>3. CASE jobs[j].status = STATUS_OPEN
    <3>1. j \notin DOMAIN escrowBalances /\ DepositOf(j) = NONE /\ j \notin Closed
      BY <2>1, <2>3, Held DEF EscrowMatchesStatus, DepositOf, Closed
    <3>2. UNCHANGED <<stx, escrowBalances>>
      BY <1>5, <3>1 DEF ExpireJob, MapGetOr, moneyVars
    <3>3. /\ DOMAIN jobs' = DOMAIN jobs /\ jobs'[j].status = STATUS_EXPIRED
          /\ \A x \in DOMAIN jobs \ {j} : jobs'[x] = jobs[x]
      BY <2>1 DEF TypeOK, JobsTypeOK, Job
    <3>4. ASSUME NEW x \in JobIds PROVE DepositOf(x)' = DepositOf(x)
      <4>1. x \in DOMAIN escrowBalances => x \in DOMAIN jobs /\ x # j
        BY <2>1, <3>1 DEF TypeOK, MapsTypeOK, JobsTypeOK, IsMap
      <4> QED
        BY <3>2, <3>3, <4>1 DEF DepositOf
    <3>5. Closed' = Closed \cup {j}
      BY <2>1, <3>3 DEF Closed, LiveStatuses
    <3>6. Promise!Abandon(j)
      BY <3>1, <3>2, <3>4, <3>5 DEF Promise!Abandon
    <3> QED
      BY <3>6 DEF PromiseStep, Promise!Next
  <2> QED
    BY <2>1, <2>2, <2>3
<1> QED
  BY <1>2, <1>3, <1>4, <1>5 DEF Permissionless

\* An ordinary transfer of somebody else's money.
LEMMA TransferIsElsewhere ==
    ASSUME TypeOK, NEW from \in Users, NEW to \in Principals, NEW amount \in Nat,
           StxTransfer(amount, from, to), UNCHANGED <<jobs, escrowBalances>>
    PROVE  Promise!Next
<1>1. /\ stx \in [Principals -> Nat] /\ from \in Principals
      /\ amount > 0 /\ from # to /\ stx[from] >= amount
      /\ stx' = Transfer(stx, amount, from, to)
  BY DEF TypeOK, ChainTypeOK, Users, StxTransfer, CanTransfer
<1>2. amount \in 1..stx[from] /\ stx' = Promise!Pay(stx, amount, from, to)
  BY <1>1 DEF Transfer, Promise!Pay
<1>3. stx'[from] = stx[from] - amount
  BY <1>1 DEF Transfer
<1>4. stx' # stx
  BY <1>1, <1>3
<1>5. Deposits' = Deposits /\ Closed' = Closed
  BY DEF Deposits, DepositOf, Closed
<1>6. Promise!Elsewhere(from, to)
  BY <1>2, <1>5 DEF Promise!Elsewhere, Deposits
<1> QED
  BY <1>4, <1>6 DEF Promise!Next, Promise!MoneyMoves, Promise!Others, Users

\* The treasury pays a waived fee back out of its own balance.
LEMMA RefundIsElsewhere ==
    ASSUME PromiseInv, NEW sender \in Users, NEW j \in JobIds, RefundServiceFee(sender, j)
    PROVE  Promise!Next
<1> DEFINE s == serviceFeeSettlements[j]
           due == s.chargedFee - s.refundedFee
<1>1. /\ TypeOK /\ j \in DOMAIN jobs /\ j \in DOMAIN serviceFeeSettlements
      /\ s \in Settlement /\ jobs[j].treasury = sender
      /\ StxTransfer(due, sender, s.recipient)
      /\ UNCHANGED <<jobs, escrowBalances>>
  BY DEF RefundServiceFee, RefundPayer, PromiseInv, EscrowInv, TypeOK, MapsTypeOK, IsMap, jobVars
<1>2. due \in Nat /\ s.recipient \in Principals
  BY <1>1 DEF Settlement, StxTransfer, CanTransfer
<1> QED
  BY <1>1, <1>2, TransferIsElsewhere

LEMMA HiringMapped ==
    ASSUME PromiseInv, TypeOK', EscrowMatchesStatus', NEW sender \in Users, Hiring(sender)
    PROVE  PromiseStep
<1>0. TypeOK /\ EscrowMatchesStatus
  BY DEF PromiseInv, EscrowInv
<1>1. ASSUME NEW p, NEW e, NEW x, CreateJob(sender, p, e, x) PROVE PromiseStep
  <2>1. /\ DOMAIN jobs \subseteq DOMAIN jobs'
        /\ \A j \in DOMAIN jobs : jobs'[j] = jobs[j]
        /\ \A j \in DOMAIN jobs' \ DOMAIN jobs : jobs'[j].status = STATUS_OPEN
        /\ UNCHANGED <<stx, escrowBalances>>
    BY <1>0, <1>1, BoundAssumption DEF CreateJob, MapSet, TypeOK, JobsTypeOK, moneyVars
  <2>2. \A j \in DOMAIN jobs : JobStays(j)
    BY <2>1 DEF JobStays
  <2> QED
    BY <1>0, <2>1, <2>2, AllStay DEF PromiseStep
<1>2. ASSUME NEW j \in JobIds, NEW amount \in Budgets, SetBudget(sender, j, amount)
      PROVE  PromiseStep
  <2>1. /\ j \in DOMAIN jobs /\ DOMAIN jobs' = DOMAIN jobs
        /\ \A x \in DOMAIN jobs \ {j} : jobs'[x] = jobs[x]
        /\ jobs[j].status = STATUS_OPEN /\ jobs'[j].status = STATUS_OPEN
        /\ jobs'[j].client = jobs[j].client
        /\ UNCHANGED <<stx, escrowBalances>>
    BY <1>0, <1>2 DEF SetBudget, TypeOK, JobsTypeOK, Job, moneyVars
  <2>2. STATUS_OPEN \notin HeldStatuses /\ STATUS_OPEN \in LiveStatuses
    BY Held DEF LiveStatuses
  <2> QED
    BY <1>0, <2>1, <2>2, OneStays DEF PromiseStep
<1>3. ASSUME NEW j \in JobIds, NEW p \in Principals, AssignProvider(sender, j, p)
      PROVE  PromiseStep
  <2>1. /\ j \in DOMAIN jobs /\ DOMAIN jobs' = DOMAIN jobs
        /\ \A x \in DOMAIN jobs \ {j} : jobs'[x] = jobs[x]
        /\ jobs[j].status = STATUS_FUNDED /\ jobs'[j].status = STATUS_FUNDED
        /\ jobs'[j].client = jobs[j].client
        /\ UNCHANGED <<stx, escrowBalances>>
    BY <1>0, <1>3 DEF AssignProvider, ProviderIsOpen, TypeOK, JobsTypeOK, Job, moneyVars
  <2>2. STATUS_FUNDED \in LiveStatuses
    BY Held DEF LiveStatuses
  <2> QED
    BY <1>0, <2>1, <2>2, OneStays DEF PromiseStep
<1> QED
  BY <1>1, <1>2, <1>3, FundIsDeposit, SubmitIsEngage DEF Hiring, PromiseStep

LEMMA JudgingMapped ==
    ASSUME PromiseInv, TypeOK', EscrowMatchesStatus', NEW sender \in Users, Judging(sender)
    PROVE  PromiseStep
<1>0. TypeOK /\ EscrowMatchesStatus
  BY DEF PromiseInv, EscrowInv
<1>1. ASSUME NEW j \in DOMAIN jobs, NEW s, jobs' = [jobs EXCEPT ![j].status = s],
             UNCHANGED <<stx, escrowBalances>>,
             jobs[j].status \in HeldStatuses \ {STATUS_FUNDED},
             s \in HeldStatuses \ {STATUS_FUNDED}
      PROVE  PromiseStep
  <2>1. /\ DOMAIN jobs' = DOMAIN jobs /\ jobs'[j].status = s
        /\ \A x \in DOMAIN jobs \ {j} : jobs'[x] = jobs[x]
        /\ jobs'[j].client = jobs[j].client /\ jobs'[j].provider = jobs[j].provider
    BY <1>0, <1>1 DEF TypeOK, JobsTypeOK, Job
  <2> QED
    BY <1>0, <1>1, <2>1, OneStays DEF PromiseStep, LiveStatuses
<1>2. /\ STATUS_SUBMITTED \in HeldStatuses \ {STATUS_FUNDED}
      /\ STATUS_DECISION_PENDING \in HeldStatuses \ {STATUS_FUNDED}
      /\ STATUS_DISPUTED \in HeldStatuses \ {STATUS_FUNDED}
  BY Held
<1>3. ASSUME NEW j \in JobIds, NEW h \in Hashes, NEW d \in 0..3, NEW g \in Hashes,
             RecordDecision(sender, j, d, h, g)
      PROVE  PromiseStep
  <2>1. /\ j \in DOMAIN jobs /\ jobs[j].status = STATUS_SUBMITTED
        /\ jobs' = [jobs EXCEPT ![j].status = STATUS_DECISION_PENDING]
        /\ UNCHANGED <<stx, escrowBalances>>
    BY <1>3 DEF RecordDecision, moneyVars
  <2> QED
    BY <1>1, <1>2, <2>1
<1>4. ASSUME NEW j \in JobIds, NEW h \in Hashes, AppealDecision(sender, j, h)
      PROVE  PromiseStep
  <2>1. /\ j \in DOMAIN jobs /\ jobs[j].status = STATUS_DECISION_PENDING
        /\ jobs' = [jobs EXCEPT ![j].status = STATUS_DISPUTED]
        /\ UNCHANGED <<stx, escrowBalances>>
    BY <1>4 DEF AppealDecision, moneyVars
  <2> QED
    BY <1>1, <1>2, <2>1
<1>5. ASSUME NEW j \in JobIds, NEW d \in 0..3, NEW h \in Hashes, ResolveAppeal(sender, j, d, h)
      PROVE  PromiseStep
  BY <1>5, SettleIsRelease DEF ResolveAppeal, IsValidDecision, PromiseStep
<1>6. ASSUME NEW j \in JobIds, NEW h \in Hashes, WaiveServiceFee(sender, j, h)
      PROVE  PromiseStep
  BY <1>6
  DEF WaiveServiceFee, jobVars, moneyVars, PromiseStep, Stutter, Deposits, DepositOf, Closed
<1> QED
  BY <1>3, <1>4, <1>5, <1>6 DEF Judging

LEMMA NextMapped ==
    ASSUME PromiseInv, TypeOK', EscrowMatchesStatus', [Next]_vars
    PROVE  PromiseStep
<1>1. ASSUME UNCHANGED <<stx, jobs, escrowBalances>> PROVE PromiseStep
  BY <1>1 DEF PromiseStep, Stutter, Deposits, DepositOf, Closed
<1> USE DEF jobVars, moneyVars
<1>2. ASSUME NEW sender \in Users, Governance(sender) PROVE PromiseStep
  BY <1>1, <1>2
  DEF Governance, InitializeProtocol, ProposeOwner, AcceptOwner, CancelOwnerProposal,
      ProposeAppealAuthority, AcceptAppealAuthority, CancelAppealAuthorityProposal
<1>3. ASSUME NEW sender \in Users, Aftermath(sender) PROVE PromiseStep
  BY <1>1, <1>3, RefundIsElsewhere DEF Aftermath, RetryReputationSync, RateProvider, PromiseStep
<1>4. CASE World
  <2>1. ASSUME NEW sender \in Users, NEW to \in Principals, NEW amount \in ExternalAmounts,
               ExternalTransfer(sender, to, amount)
        PROVE  PromiseStep
    BY <2>1, TransferIsElsewhere, InputAssumption
    DEF ExternalTransfer, commerceVars, PromiseInv, EscrowInv, PromiseStep
  <2> QED
    BY <1>1, <1>4, <2>1
    DEF World, AdvanceStacksBlock, AdvanceBurnBlock, RegistryStep, commerceVars
<1>5. CASE UNCHANGED vars
  BY <1>1, <1>5 DEF vars
<1> QED
  BY <1>2, <1>3, <1>4, <1>5, HiringMapped, JudgingMapped, PermissionlessMapped DEF Next

LEMMA PromiseInvHolds == Spec => []PromiseInv
<1>1. EscrowInv /\ CaseInv /\ FeeInv /\ JobPartiesSeparated => PromiseInv
  BY DEF PromiseInv
<1> QED
  BY <1>1, EscrowInvHolds, CaseInvHolds, FeeInvHolds, PartiesStaySeparated, PTL

\* The contract implements EscrowPromise: whatever its parties, clocks,
\* rotations and registry do in whatever order, the money of a job is paid in
\* once and out once, in full, to the party the promise allows, and the vault
\* pays for nothing else.
THEOREM PromiseIsKept == Spec => KeepsPromise
<1>1. Init => Promise!Init
  <2> SUFFICES ASSUME Init PROVE Promise!Init
    OBVIOUS
  <2>1. Closed = {} /\ \A j \in JobIds : DepositOf(j) = NONE
    BY DEF Init, EmptyMap, Closed, DepositOf
  <2> QED
    BY <2>1, LedgerAssumption DEF Init, Promise!Init
<1>2. PromiseStep <=> [Promise!Next]_(Promise!promiseVars)
  BY DEF PromiseStep, Stutter, Deposits, Promise!promiseVars
<1>3. PromiseInv /\ PromiseInv' /\ [Next]_vars => [Promise!Next]_(Promise!promiseVars)
  BY <1>2, NextMapped DEF PromiseInv, EscrowInv
<1> QED
  BY <1>1, <1>3, PromiseInvHolds, PTL DEF Spec, KeepsPromise, Promise!Spec

=============================================================================
