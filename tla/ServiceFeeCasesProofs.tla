----------------------- MODULE ServiceFeeCasesProofs -----------------------
(***************************************************************************)
(* The two service-fee scripts for any accounts, windows, budgets, numbers *)
(* of restarts and losses: whatever they do is a behaviour of the escrow,  *)
(* so that every theorem about the escrow holds for them; no operation is  *)
(* handed to the network twice in the life of a receipt; and a receipt     *)
(* closed as passed is true to the last micro-STX.                         *)
(***************************************************************************)
EXTENDS ServiceFeeCases, AgenticCommerceProofs, SequenceTheorems

TxStates == {"pending", "success", "abort", "dropped"}

-----------------------------------------------------------------------------
(* Scenarios and operations *)

Scenario == [original : 0..2, final : 0..2,
             wait : {"none", "appeal", "resolution", "review"},
             waiver : BOOLEAN, refund : BOOLEAN]

LEMMA ScenarioType ==
    ASSUME NEW o \in 0..2, NEW f \in 0..2,
           NEW w \in {"appeal", "resolution", "review"}
    PROVE  /\ Immediate(o, f) \in Scenario /\ Delayed(o, w) \in Scenario
           /\ [Immediate(o, f) EXCEPT !.waiver = TRUE] \in Scenario
           /\ [Immediate(o, f) EXCEPT !.refund = TRUE] \in Scenario
BY DEF Immediate, Delayed, Scenario

LEMMA SpecType == case \in CaseIds => spec \in Scenario
<1> SUFFICES ASSUME case \in CaseIds PROVE spec \in Scenario
  OBVIOUS
<1>1. /\ SCENARIOS.approveNoAppeal \in Scenario
      /\ SCENARIOS.rejectNoAppeal \in Scenario
      /\ SCENARIOS.approveAppealResolveReject \in Scenario
      /\ SCENARIOS.rejectAppealResolveApprove \in Scenario
      /\ SCENARIOS.approveAppealTimeout \in Scenario
      /\ SCENARIOS.reviewTimeout \in Scenario
      /\ SCENARIOS.waiveApprove \in Scenario
      /\ SCENARIOS.waiveReject \in Scenario
      /\ SCENARIOS.refundApprove \in Scenario
      /\ SCENARIOS.refundReject \in Scenario
  BY ScenarioType DEF SCENARIOS
<1>2. DOMAIN SCENARIOS =
          {"approveNoAppeal", "rejectNoAppeal", "approveAppealResolveReject",
           "rejectAppealResolveApprove", "approveAppealTimeout", "reviewTimeout",
           "waiveApprove", "waiveReject", "refundApprove", "refundReject"}
  BY DEF SCENARIOS
<1>3. \A n \in DOMAIN SCENARIOS : SCENARIOS[n] \in Scenario
  BY <1>1, <1>2
<1>4. case.name \in DOMAIN SCENARIOS
  BY CaseAssumption
<1>5. "rejectAppealResolveApprove" \in DOMAIN SCENARIOS
  BY <1>2
<1> QED
  BY <1>3, <1>4, <1>5 DEF spec, MainScenario

LEMMA ActorType ==
    /\ \A o \in AllOperations : Role(o) \in Roles /\ Signer(o) \in Users
    /\ \A r \in Roles : Actors[r] \in Users
    /\ Actors.client \in Users /\ Actors.provider \in Users
    /\ Actors.evaluator \in Users /\ Actors.authority \in Users
    /\ Actors.treasury \in Users
<1>1. \A o \in AllOperations : Role(o) \in Roles
  BY DEF AllOperations, Role, Roles
<1> QED
  BY <1>1, CaseAssumption DEF Signer, Roles

LEMMA PartsType ==
    LET S == Seq(AllOperations)
    IN  /\ <<>> \in S /\ Hiring_ \in S /\ MainTopUp \in S /\ TestJudging \in S
        /\ TestSettling \in S /\ TestAftermath \in S
        /\ <<"decision", "appeal", "settle">> \in S
<1> DEFINE S == Seq(AllOperations)
<1>1. <<>> \in S
  BY EmptySeq
<1>2. Hiring_ \in S
  BY DEF Hiring_, AllOperations
<1>3. <<"topUp">> \in S /\ <<"decision">> \in S /\ <<"settle">> \in S
  BY DEF AllOperations
<1>4. <<"decision", "appeal">> \in S /\ <<"waiver", "settle">> \in S
      /\ <<"waiver", "refund">> \in S
  BY DEF AllOperations
<1>5. <<"decision", "appeal", "settle">> \in S
  BY DEF AllOperations
<1> QED
  BY <1>1, <1>2, <1>3, <1>4, <1>5
  DEF MainTopUp, TestJudging, TestSettling, TestAftermath

LEMMA OperationsType ==
    /\ Operations \in Seq(AllOperations)
    /\ \A i \in 1..Len(Operations) : Operations[i] \in AllOperations
<1> DEFINE S == Seq(AllOperations)
<1>1. /\ Hiring_ \in S /\ MainTopUp \in S /\ TestJudging \in S
      /\ TestSettling \in S /\ TestAftermath \in S
      /\ <<"decision", "appeal", "settle">> \in S
  BY PartsType
<1>2. \A s, t \in S : s \o t \in S
  BY ConcatProperties
<1>3. TestOperations \in S
  <2>1. Hiring_ \o TestJudging \in S
    BY <1>1, <1>2
  <2>2. (Hiring_ \o TestJudging) \o TestSettling \in S
    BY <2>1, <1>1, <1>2
  <2> QED
    BY <2>2, <1>1, <1>2 DEF TestOperations
<1>4. MainOperations \in S
  <2>1. MainTopUp \o Hiring_ \in S
    BY <1>1, <1>2
  <2> QED
    BY <2>1, <1>1, <1>2 DEF MainOperations
<1>5. Operations \in S
  BY <1>3, <1>4 DEF Operations
<1> QED
  BY <1>5, ElementOfSeq

\* A transaction changes state: what becomes of it keeps the record well formed.
LEMMA BecomesType ==
    ASSUME CaseTypeOK, NEW o \in AllOperations, NEW i \in DOMAIN sent[o],
           NEW outcome \in TxStates, Becomes(o, i, outcome)
    PROVE  /\ sent' \in [AllOperations -> Seq(TxStates)]
           /\ \A p \in AllOperations : Len(sent'[p]) = Len(sent[p])
<1>1. sent \in [AllOperations -> Seq(TxStates)] /\ sent[o] \in Seq(TxStates)
  BY DEF CaseTypeOK, TxStates
<1>2. i \in 1..Len(sent[o])
  BY <1>1, LenProperties
<1>3. /\ [sent[o] EXCEPT ![i] = outcome] \in Seq(TxStates)
      /\ Len([sent[o] EXCEPT ![i] = outcome]) = Len(sent[o])
  BY <1>1, <1>2, ExceptSeq
<1>4. sent' = [sent EXCEPT ![o] = [sent[o] EXCEPT ![i] = outcome]]
  BY DEF Becomes
<1> QED
  BY <1>1, <1>3, <1>4

\* A top-up is only among the operations of a case whose plan asks for one.
LEMMA TopUpIsPlanned ==
    ASSUME CaseTypeOK, NEW i \in 1..Len(Operations), Operations[i] = "topUp"
    PROVE  IsMain /\ receipt.plan \in 1..GasReserve
<1> DEFINE R == AllOperations \ {"topUp"}
           S == Seq(R)
<1>1. /\ <<>> \in S /\ Hiring_ \in S /\ TestJudging \in S
      /\ TestSettling \in S /\ TestAftermath \in S
      /\ <<"decision", "appeal", "settle">> \in S
  <2>1. <<>> \in S
    BY EmptySeq
  <2>2. Hiring_ \in S
    BY DEF Hiring_, AllOperations
  <2>3. <<"decision">> \in S /\ <<"settle">> \in S
    BY DEF AllOperations
  <2>4. <<"decision", "appeal">> \in S /\ <<"waiver", "settle">> \in S
        /\ <<"waiver", "refund">> \in S
    BY DEF AllOperations
  <2>5. <<"decision", "appeal", "settle">> \in S
    BY DEF AllOperations
  <2> QED
    BY <2>1, <2>2, <2>3, <2>4, <2>5 DEF TestJudging, TestSettling, TestAftermath
<1>2. \A s, t \in S : s \o t \in S
  BY ConcatProperties
<1>3. Operations \notin S
  <2>1. ASSUME Operations \in S PROVE Operations[i] \in R
    BY <2>1, ElementOfSeq
  <2> QED
    BY <2>1
<1>4. TestOperations \in S
  <2>1. Hiring_ \o TestJudging \in S
    BY <1>1, <1>2
  <2>2. (Hiring_ \o TestJudging) \o TestSettling \in S
    BY <2>1, <1>1, <1>2
  <2> QED
    BY <2>2, <1>1, <1>2 DEF TestOperations
<1>5. ASSUME MainTopUp \in S PROVE MainOperations \in S
  <2>1. MainTopUp \o Hiring_ \in S
    BY <1>1, <1>2, <1>5
  <2> QED
    BY <2>1, <1>1, <1>2 DEF MainOperations
<1>6. IsMain /\ MainTopUp \notin S
  BY <1>3, <1>4, <1>5 DEF Operations
<1>7. receipt.plan \notin {NONE, 0}
  BY <1>1, <1>6 DEF MainTopUp
<1>8. receipt.plan \in 0..GasReserve \cup {NONE}
  BY DEF CaseTypeOK, Receipt
<1> QED
  BY <1>6, <1>7, <1>8, CaseAssumption

\* The operations depend on the case and on the plan of the top-up only.
LEMMA OperationsKept ==
    case' = case /\ receipt'.plan = receipt.plan => Operations' = Operations
BY DEF Operations, MainOperations, MainTopUp, TestOperations, TestJudging,
       TestSettling, TestAftermath, Hiring_, IsMain, spec

-----------------------------------------------------------------------------
(* What a step of a script does to its receipt and to itself *)

\* What a script may write before it signs: its terms and its snapshot, never
\* an entry or the plan.
OnlyTerms ==
    /\ receipt' \in Receipt
    /\ receipt'.entries = receipt.entries /\ receipt'.plan = receipt.plan
    /\ receipt.expiredAt # NONE => receipt'.expiredAt = receipt.expiredAt

LEMMA ReceiptFields ==
    ASSUME receipt \in Receipt
    PROVE  /\ \A x \in Nat : [receipt EXCEPT !.expiredAt = x] \in Receipt
           /\ \A x \in [provider : Nat, treasury : Nat] :
                  [receipt EXCEPT !.snapshot = x] \in Receipt
           /\ [receipt EXCEPT !.failed = TRUE] \in Receipt
           /\ \A x \in {"awaiting-deadline", "passed"} :
                  [receipt EXCEPT !.result = x] \in Receipt
           /\ \A o \in AllOperations :
                  [receipt EXCEPT !.entries = @ \cup {o}] \in Receipt
BY DEF Receipt

\* A run that ends, and one that goes on to sign its operation.
Ended == phase' = "idle" /\ step' = 1 /\ fresh' = FALSE /\ held' = 0
Signs == phase' = "sign" /\ UNCHANGED <<step, fresh, held>>

LEMMA BalancesType == TypeOK => Balances \in [provider : Nat, treasury : Nat]
BY ActorType DEF Balances, TypeOK, ChainTypeOK, Users

LEMMA PoisonEffect == CaseTypeOK /\ Poison => OnlyTerms /\ Ended
BY ReceiptFields DEF CaseTypeOK, Poison, Stop, Ended, OnlyTerms, Receipt

LEMMA TestSignsEffect ==
    ASSUME CaseTypeOK, NEW o, TestSigns(o)
    PROVE  OnlyTerms /\ (Ended \/ Signs)
<1>1. CASE o = "refund" /\ ~TestRefundIsOwed
  BY <1>1, PoisonEffect DEF TestSigns
<1>2. CASE ~(o = "refund" /\ ~TestRefundIsOwed)
  <2>1. receipt' = receipt /\ (Enter("sign") \/ Stop)
    BY <1>2 DEF TestSigns
  <2> QED
    BY <2>1 DEF CaseTypeOK, OnlyTerms, Enter, Stop, Ended, Signs
<1> QED
  BY <1>1, <1>2

LEMMA TestAwaitsEffect ==
    ASSUME CaseTypeOK, TestAwaits
    PROVE  OnlyTerms /\ (Ended \/ Signs)
<1>1. CASE receipt' = receipt /\ Stop
  BY <1>1 DEF CaseTypeOK, OnlyTerms, Stop, Ended
<1>2. CASE receipt' = [receipt EXCEPT !.result = "awaiting-deadline"] /\ Stop
  BY <1>2, ReceiptFields DEF CaseTypeOK, Receipt, OnlyTerms, Stop, Ended
<1>3. CASE TestSigns("settle")
  BY <1>3, TestSignsEffect
<1> QED
  BY <1>1, <1>2, <1>3 DEF TestAwaits

LEMMA MainSignsEffect ==
    ASSUME TypeOK, CaseTypeOK, NEW o \in AllOperations, MainSigns(o)
    PROVE  /\ OnlyTerms /\ (Ended \/ Signs)
           /\ Signs /\ o = "create" => receipt'.expiredAt # NONE
<1>1. CASE ~MainChecks(o)
  BY <1>1, PoisonEffect DEF MainSigns, Ended, Signs
<1>2. CASE MainChecks(o)
  <2>1. receipt' = MainSaves(o) /\ (Enter("sign") \/ Stop)
    BY <1>2 DEF MainSigns
  <2>2. Ended \/ Signs
    BY <2>1 DEF Enter, Stop, Ended, Signs
  <2>3. receipt \in Receipt
    BY DEF CaseTypeOK
  <2>4. MainTerms \in Nat /\ (receipt.expiredAt # NONE => MainTerms = receipt.expiredAt)
    BY <2>3, CaseAssumption, BoundAssumption
    DEF TypeOK, ChainTypeOK, MainTerms, Receipt
  <2>5. MainSnapshot \in [provider : Nat, treasury : Nat]
    BY <2>3, BalancesType DEF MainSnapshot, Receipt
  <2>6. CASE o = "create"
    <3>1. receipt' = [receipt EXCEPT !.expiredAt = MainTerms]
      BY <2>1, <2>6 DEF MainSaves
    <3>2. receipt'.expiredAt = MainTerms /\ MainTerms # NONE
      BY <3>1, <2>3, <2>4, PrincipalsAssumption DEF Receipt
    <3> QED
      BY <3>1, <3>2, <2>2, <2>3, <2>4, ReceiptFields DEF OnlyTerms, Receipt
  <2>7. CASE o # "create"
    <3>1. receipt' = receipt \/ receipt' = [receipt EXCEPT !.snapshot = MainSnapshot]
      BY <2>1, <2>7 DEF MainSaves
    <3> QED
      BY <3>1, <2>2, <2>3, <2>5, <2>7, ReceiptFields DEF OnlyTerms, Receipt
  <2> QED
    BY <2>6, <2>7
<1> QED
  BY <1>1, <1>2

-----------------------------------------------------------------------------
(* The invariant of a case *)

\* What the process is about to do fits what the receipt and the network have.
SentInv ==
    /\ phase \in {"sign", "send", "wait", "reconcile"} => step \in 1..Len(Operations)
    /\ phase = "sign" => op \notin receipt.entries
    /\ phase \in {"send", "wait", "reconcile"} => op \in receipt.entries
    /\ phase = "send" => sent[op] = <<>>
    /\ FeeSentOnce

\* Nothing is recorded before its terms are fixed.
TermsInv ==
    /\ phase # "idle" => IF IsMain THEN receipt.plan # NONE
                                   ELSE receipt.expiredAt # NONE
    /\ phase = "sign" /\ op = "create" => receipt.expiredAt # NONE
    /\ "create" \in receipt.entries => receipt.expiredAt # NONE
    /\ "topUp" \in receipt.entries => receipt.plan \in 1..GasReserve

ScriptInv == CaseTypeOK /\ SentInv /\ TermsInv

LEMMA ExecutesIsNext ==
    ASSUME CaseTypeOK, TermsInv, NEW o \in receipt.entries, Executes(o)
    PROVE  Next
<1>1. /\ Signer(o) \in Users /\ Actors.provider \in Principals
      /\ Actors.evaluator \in Principals
  BY ActorType DEF Users, CaseTypeOK, Receipt
<1>2. TheJob \in JobIds /\ "commitment" \in Hashes /\ receipt \in Receipt
  BY CaseAssumption DEF Hashes, CaseTypeOK
<1>3. spec.original \in 0..3 /\ spec.final \in 0..3
  BY SpecType DEF CaseTypeOK, Scenario
<1>4. CASE o = "topUp"
  <2>1. receipt.plan \in ExternalAmounts
    BY <1>4, CaseAssumption DEF TermsInv
  <2>2. ExternalTransfer(Signer(o), Actors.provider, receipt.plan)
    BY <1>4 DEF Executes
  <2> QED
    BY <1>1, <2>1, <2>2 DEF Next, World
<1>5. CASE o = "create"
  <2>1. receipt.expiredAt \in Nat
    BY <1>5, <1>2 DEF TermsInv, Receipt
  <2>2. CreateJob(Signer(o), NONE, Actors.evaluator, receipt.expiredAt)
    BY <1>5 DEF Executes
  <2>3. Hiring(Signer(o))
    BY <1>1, <2>1, <2>2 DEF Hiring
  <2> QED
    BY <1>1, <2>3 DEF Next
<1>6. CASE o \in {"budget", "fund", "assign", "submit"}
  <2>1. \/ SetBudget(Signer(o), TheJob, Budget)
        \/ FundJob(Signer(o), TheJob)
        \/ AssignProvider(Signer(o), TheJob, Actors.provider)
        \/ SubmitWork(Signer(o), TheJob)
    BY <1>6 DEF Executes
  <2>2. Hiring(Signer(o))
    BY <1>1, <1>2, <2>1, CaseAssumption DEF Hiring
  <2> QED
    BY <1>1, <2>2 DEF Next
<1>7. CASE o \in {"decision", "appeal", "waiver"}
  <2>1. \/ RecordDecision(Signer(o), TheJob, spec.original, "commitment", "commitment")
        \/ AppealDecision(Signer(o), TheJob, "commitment")
        \/ WaiveServiceFee(Signer(o), TheJob, "commitment")
    BY <1>7 DEF Executes
  <2>2. Judging(Signer(o))
    BY <1>2, <1>3, <2>1 DEF Judging
  <2> QED
    BY <1>1, <2>2 DEF Next
<1>8. CASE o = "settle"
  <2>1. TestSettles
    BY <1>8 DEF Executes
  <2>2. \/ Permissionless(Signer(o), TheJob)
        \/ ResolveAppeal(Signer(o), TheJob, spec.final, "commitment")
    BY <2>1, <1>8 DEF TestSettles, Permissionless
  <2>3. CASE Permissionless(Signer(o), TheJob)
    BY <1>1, <1>2, <2>3 DEF Next
  <2>4. CASE ResolveAppeal(Signer(o), TheJob, spec.final, "commitment")
    <3>1. Judging(Signer(o))
      BY <1>2, <1>3, <2>4 DEF Judging
    <3> QED
      BY <1>1, <3>1 DEF Next
  <2> QED
    BY <2>2, <2>3, <2>4
<1>9. CASE o = "refund"
  <2>1. RefundServiceFee(Signer(o), TheJob)
    BY <1>9 DEF Executes
  <2>2. Aftermath(Signer(o))
    BY <1>2, <2>1 DEF Aftermath
  <2> QED
    BY <1>1, <2>2 DEF Next
<1> QED
  BY <1>2, <1>4, <1>5, <1>6, <1>7, <1>8, <1>9 DEF AllOperations, Receipt

\* A call of the world, and everything a script does by itself.
LEMMA WorldIsNext ==
    /\ Configure => Next
    /\ Authorise \/ Withdraw => Next
    /\ StrangerActs => Next
    /\ TreasurySpends => Next
    /\ StacksBlock \/ BurnBlock => Next
<1>1. /\ Deployer \in Users /\ RegistryDeployer \in Users
  BY PrincipalsAssumption DEF Users
<1>2. Configure => Next
  <2> SUFFICES ASSUME Configure PROVE Next
    OBVIOUS
  <2>1. PICK w \in AppealWindows :
            InitializeProtocol(Deployer, w, Actors.authority, Actors.treasury)
    BY DEF Configure
  <2>2. Governance(Deployer)
    BY <2>1, ActorType DEF Governance, Users
  <2> QED
    BY <1>1, <2>2 DEF Next
<1>3. Authorise \/ Withdraw => Next
  <2> SUFFICES ASSUME NEW allowed \in BOOLEAN, SetAuthorised(allowed) PROVE Next
    BY DEF Authorise, Withdraw
  <2>1. RegistryStep(RegistryDeployer)
    BY PrincipalsAssumption DEF SetAuthorised, RegistryStep, Registry!Administration
  <2> QED
    BY <1>1, <2>1 DEF Next, World
<1>4. StrangerActs => Next
  <2> SUFFICES ASSUME StrangerActs PROVE Next
    OBVIOUS
  <2>1. Permissionless(Stranger, TheJob) \/ Aftermath(Stranger)
    BY CaseAssumption DEF StrangerActs, Aftermath
  <2> QED
    BY <2>1, CaseAssumption DEF Next
<1>5. TreasurySpends => Next
  BY ActorType, CaseAssumption DEF TreasurySpends, Next, World, Users
<1>6. StacksBlock \/ BurnBlock => Next
  BY DEF StacksBlock, BurnBlock, Next, World
<1> QED
  BY <1>2, <1>3, <1>4, <1>5, <1>6

LEMMA ScriptInvInit == CaseInit => ScriptInv
<1> SUFFICES ASSUME CaseInit PROVE ScriptInv
  OBVIOUS
<1>1. CaseTypeOK
  <2>1. receipt \in Receipt
    BY DEF CaseInit, NoReceipt, Receipt
  <2>2. sent \in [AllOperations -> Seq({"pending", "success", "abort", "dropped"})]
    BY EmptySeq DEF CaseInit
  <2>3. fresh \in BOOLEAN /\ calm \in BOOLEAN
    BY DEF CaseInit
  <2>4. step \in Nat \ {0} /\ held \in Nat /\ gifted \in Nat /\ case \in CaseIds
    BY DEF CaseInit
  <2> QED
    BY <2>1, <2>2, <2>3, <2>4 DEF CaseInit, CaseTypeOK
<1>2. SentInv /\ TermsInv
  BY DEF CaseInit, SentInv, TermsInv, FeeSentOnce, NoReceipt
<1> QED
  BY <1>1, <1>2 DEF ScriptInv

\* A step that leaves what the script and the network have alone.
LEMMA ScriptFrame ==
    ASSUME ScriptInv, UNCHANGED <<case, receipt, processVars, sent>>,
           gifted' \in Nat, calm' \in BOOLEAN
    PROVE  ScriptInv'
<1>1. Operations' = Operations /\ op' = op
  BY OperationsKept DEF processVars, op
<1> QED
  BY <1>1 DEF ScriptInv, CaseTypeOK, SentInv, TermsInv, FeeSentOnce, processVars, IsMain

\* A run that ends leaves its receipt in order.
LEMMA ProcessType ==
    ASSUME CaseTypeOK, receipt' \in Receipt, UNCHANGED <<case, sent, gifted, calm>>,
           phase' \in {"idle", "next", "sign", "send", "wait", "reconcile"},
           step' \in Nat \ {0}, fresh' \in BOOLEAN, held' \in Nat
    PROVE  CaseTypeOK'
<1>1. receipt' \in Receipt'
  BY DEF Receipt
<1> QED
  BY <1>1 DEF CaseTypeOK

LEMMA EndedKeeps ==
    ASSUME ScriptInv, OnlyTerms, Ended, UNCHANGED <<case, sent, gifted, calm>>
    PROVE  ScriptInv'
<1>1. step' \in Nat \ {0} /\ held' \in Nat
  BY DEF Ended
<1>2. fresh' \in BOOLEAN
  BY DEF Ended
<1>3. CaseTypeOK'
  BY <1>1, <1>2, ProcessType DEF ScriptInv, OnlyTerms, Ended
<1>4. SentInv' /\ TermsInv'
  BY DEF ScriptInv, SentInv, TermsInv, FeeSentOnce, OnlyTerms, Ended
<1> QED
  BY <1>3, <1>4 DEF ScriptInv

LEMMA MainPlanType ==
    ASSUME TypeOK, receipt \in Receipt
    PROVE  /\ MainPlan \in 0..GasReserve /\ MainPlan # NONE
           /\ receipt.plan # NONE => MainPlan = receipt.plan
<1>1. stx[Actors.provider] \in Nat
  BY ActorType DEF TypeOK, ChainTypeOK, Users
<1>2. MainPlan \in 0..GasReserve /\ (receipt.plan # NONE => MainPlan = receipt.plan)
  BY <1>1, CaseAssumption DEF MainPlan, Receipt
<1> QED
  BY <1>2, CaseAssumption, PrincipalsAssumption

LEMMA StartKeeps == TypeOK /\ ScriptInv /\ Start => ScriptInv'
<1> SUFFICES ASSUME TypeOK, ScriptInv, Start PROVE ScriptInv'
  OBVIOUS
<1>1. receipt \in Receipt /\ case' = case /\ sent' = sent /\ (IsMain' <=> IsMain)
  BY DEF ScriptInv, CaseTypeOK, Start, IsMain
<1>2. stx[Actors.provider] \in Nat /\ stacksHeight \in Nat
  BY ActorType, BoundAssumption DEF TypeOK, ChainTypeOK, Users
<1>3. CASE IsMain
  <2>1. MainPlan \in 0..GasReserve /\ (receipt.plan # NONE => MainPlan = receipt.plan)
    BY <1>1, MainPlanType
  <2>2. receipt' = MainOpens /\ MainFunds \in BOOLEAN
    BY <1>3 DEF Start, MainFunds
  <2>3. /\ receipt' \in Receipt /\ receipt'.plan = MainPlan
        /\ receipt'.entries = receipt.entries /\ receipt'.expiredAt = receipt.expiredAt
    BY <1>1, <2>1, <2>2 DEF MainOpens, Receipt
  <2>4. receipt'.plan # NONE
    BY <2>1, <2>3, CaseAssumption, PrincipalsAssumption
  <2>5. \/ UNCHANGED processVars /\ phase = "idle"
        \/ phase' = "next" /\ step' = 1 /\ fresh' = FALSE /\ held' \in Nat
    BY <1>2 DEF Start
  <2>6. CaseTypeOK'
    <3>1. CASE UNCHANGED processVars
      BY <1>1, <2>3, <3>1, ProcessType DEF ScriptInv, CaseTypeOK, Start, processVars
    <3>2. CASE phase' = "next" /\ step' = 1 /\ fresh' = FALSE /\ held' \in Nat
      <4>1. step' \in Nat \ {0} /\ held' \in Nat
        BY <3>2
      <4>2. fresh' \in BOOLEAN
        BY <3>2
      <4> QED
        BY <1>1, <2>3, <3>2, <4>1, <4>2, ProcessType DEF ScriptInv, Start
    <3> QED
      BY <2>5, <3>1, <3>2
  <2>7. SentInv'
    BY <1>1, <2>3, <2>5 DEF ScriptInv, SentInv, FeeSentOnce, processVars
  <2>8. TermsInv'
    BY <1>1, <1>3, <2>1, <2>3, <2>4, <2>5, CaseAssumption, PrincipalsAssumption
    DEF ScriptInv, TermsInv, processVars
  <2> QED
    BY <2>6, <2>7, <2>8 DEF ScriptInv
<1>4. CASE ~IsMain
  <2>1. receipt' = TestOpens /\ stacksHeight + ExpiryBlocks \in Nat
    BY <1>2, <1>4, CaseAssumption DEF Start
  <2>2. /\ receipt' \in Receipt /\ receipt'.plan = receipt.plan
        /\ receipt'.entries = receipt.entries /\ receipt'.expiredAt # NONE
    <3>1. CASE receipt.expiredAt # NONE
      BY <1>1, <2>1, <3>1 DEF TestOpens
    <3>2. CASE receipt.expiredAt = NONE
      <4>1. receipt' = [receipt EXCEPT !.expiredAt = stacksHeight + ExpiryBlocks]
        BY <2>1, <3>2 DEF TestOpens
      <4> QED
        BY <1>1, <2>1, <4>1, ReceiptFields, PrincipalsAssumption DEF Receipt
    <3> QED
      BY <3>1, <3>2
  <2>3. phase' = "next" /\ step' = 1 /\ fresh' = FALSE /\ held' \in Nat
    BY <1>2, <1>4 DEF Start
  <2>4. CaseTypeOK'
    <3>1. step' \in Nat \ {0} /\ held' \in Nat
      BY <2>3
    <3>2. fresh' \in BOOLEAN
      BY <2>3
    <3> QED
      BY <1>1, <2>2, <2>3, <3>1, <3>2, ProcessType DEF ScriptInv, Start
  <2>5. SentInv' /\ TermsInv'
    BY <1>1, <1>4, <2>2, <2>3 DEF ScriptInv, SentInv, TermsInv, FeeSentOnce
  <2> QED
    BY <2>4, <2>5 DEF ScriptInv
<1> QED
  BY <1>3, <1>4

LEMMA ReviewEffect ==
    ASSUME TypeOK, ScriptInv, Review
    PROVE  /\ phase = "next" /\ UNCHANGED <<case, sent, gifted, calm>>
           /\ step \in 1..Len(Operations) /\ op \in AllOperations \ receipt.entries
           /\ OnlyTerms /\ (Ended \/ Signs)
           /\ Signs /\ IsMain /\ op = "create" => receipt'.expiredAt # NONE
<1>1. CaseTypeOK /\ phase = "next" /\ UNCHANGED <<case, sent, gifted, calm>>
  BY DEF ScriptInv, Review
<1>2. step \in 1..Len(Operations) /\ op \in AllOperations \ receipt.entries
  BY <1>1, OperationsType, LenProperties DEF Review, Done, IsRecorded, op, CaseTypeOK
<1>3. CASE IsMain
  BY <1>1, <1>2, <1>3, MainSignsEffect DEF Review
<1>4. CASE ~IsMain
  BY <1>1, <1>2, <1>4, TestSignsEffect, TestAwaitsEffect DEF Review
<1> QED
  BY <1>3, <1>4

LEMMA ReviewKeeps == TypeOK /\ ScriptInv /\ Review => ScriptInv'
<1> SUFFICES ASSUME TypeOK, ScriptInv, Review PROVE ScriptInv'
  OBVIOUS
<1>1. CaseTypeOK /\ phase = "next" /\ UNCHANGED <<case, sent, gifted, calm>>
  BY DEF ScriptInv, Review
<1>2. step \in 1..Len(Operations) /\ op \in AllOperations \ receipt.entries
  BY ReviewEffect
<1>3. /\ OnlyTerms /\ (Ended \/ Signs)
      /\ Signs /\ IsMain /\ op = "create" => receipt'.expiredAt # NONE
  BY ReviewEffect
<1>4. CASE Ended
  BY <1>1, <1>3, <1>4, EndedKeeps
<1>5. CASE Signs
  <2>1. /\ Operations' = Operations /\ op' = op /\ (IsMain' <=> IsMain)
    BY <1>1, <1>3, <1>5, OperationsKept DEF OnlyTerms, Signs, op, IsMain
  <2>2. CaseTypeOK'
    BY <1>1, <1>3, <1>5 DEF CaseTypeOK, OnlyTerms, Signs
  <2>3. SentInv'
    BY <1>1, <1>2, <1>3, <1>5, <2>1 DEF ScriptInv, SentInv, FeeSentOnce, OnlyTerms, Signs
  <2>4. TermsInv'
    BY <1>1, <1>3, <1>5, <2>1 DEF ScriptInv, TermsInv, OnlyTerms, Signs
  <2> QED
    BY <2>2, <2>3, <2>4 DEF ScriptInv
<1> QED
  BY <1>3, <1>4, <1>5

LEMMA ResumeKeeps == ScriptInv /\ Resume => ScriptInv'
<1> SUFFICES ASSUME ScriptInv, Resume PROVE ScriptInv'
  OBVIOUS
<1>1. /\ CaseTypeOK /\ phase = "next" /\ phase' \in {"wait", "reconcile"}
      /\ UNCHANGED <<case, receipt, step, fresh, held, sent, gifted, calm>>
  BY DEF ScriptInv, Resume
<1>2. step \in 1..Len(Operations) /\ op \in receipt.entries
  BY <1>1, OperationsType, LenProperties DEF Resume, Done, IsRecorded, CaseTypeOK
<1>3. Operations' = Operations /\ op' = op /\ (IsMain' <=> IsMain)
  BY <1>1, OperationsKept DEF op, IsMain
<1>4. CaseTypeOK'
  BY <1>1, ProcessType DEF CaseTypeOK
<1>5. SentInv' /\ TermsInv'
  BY <1>1, <1>2, <1>3 DEF ScriptInv, SentInv, TermsInv, FeeSentOnce
<1> QED
  BY <1>4, <1>5 DEF ScriptInv

\* A run that stops for a reason the receipt does not hold.
LEMMA StopKeeps ==
    ASSUME ScriptInv, Stop, UNCHANGED <<case, receipt, sent, gifted, calm>>
    PROVE  ScriptInv'
BY EndedKeeps DEF ScriptInv, CaseTypeOK, OnlyTerms, Ended, Stop

LEMMA SignKeeps == ScriptInv /\ Sign => ScriptInv'
<1> SUFFICES ASSUME ScriptInv, Sign PROVE ScriptInv'
  OBVIOUS
<1>1. CaseTypeOK /\ phase = "sign" /\ UNCHANGED <<case, sent, gifted, calm>>
  BY DEF ScriptInv, Sign
<1>2. /\ step \in 1..Len(Operations) /\ op \in AllOperations \ receipt.entries
      /\ receipt \in Receipt
  BY <1>1, OperationsType DEF ScriptInv, SentInv, op, CaseTypeOK
<1>3. CASE ~SignerIsIdle(op)
  BY <1>1, <1>3, StopKeeps DEF Sign
<1>4. CASE SignerIsIdle(op)
  <2>1. /\ receipt' = [receipt EXCEPT !.entries = @ \cup {op}]
        /\ phase' = "send" /\ UNCHANGED <<step, held>>
    BY <1>4 DEF Sign, Record
  <2>2. fresh' = TRUE
    BY <1>4 DEF Sign
  <2>3. /\ receipt' \in Receipt /\ receipt'.entries = receipt.entries \cup {op}
        /\ receipt'.plan = receipt.plan /\ receipt'.expiredAt = receipt.expiredAt
    BY <1>2, <2>1, ReceiptFields DEF Receipt
  <2>4. Operations' = Operations /\ op' = op /\ (IsMain' <=> IsMain)
    BY <1>1, <2>1, <2>3, OperationsKept DEF op, IsMain
  <2>5. CaseTypeOK'
    <3>1. fresh' \in BOOLEAN
      BY <2>2
    <3> QED
      BY <1>1, <2>1, <2>3, <3>1, ProcessType DEF CaseTypeOK
  <2>6. Len(sent[op]) \in Nat /\ Len(sent[op]) <= 0 /\ sent[op] = <<>>
    BY <1>1, <1>2, EmptySeq, LenProperties DEF ScriptInv, SentInv, FeeSentOnce, CaseTypeOK
  <2>7. FeeSentOnce'
    <3> SUFFICES ASSUME NEW o \in AllOperations
                 PROVE  Len(sent[o]) <= (IF o \in receipt'.entries THEN 1 ELSE 0)
      BY <1>1 DEF FeeSentOnce
    <3>1. Len(sent[o]) <= (IF o \in receipt.entries THEN 1 ELSE 0)
      BY DEF ScriptInv, SentInv, FeeSentOnce
    <3> QED
      BY <2>3, <2>6, <3>1
  <2>8. SentInv'
    BY <1>1, <1>2, <2>1, <2>3, <2>4, <2>6, <2>7 DEF SentInv
  <2>9. op = "topUp" => receipt.plan \in 1..GasReserve
    BY <1>1, <1>2, TopUpIsPlanned DEF op
  <2>10. TermsInv'
    BY <1>1, <2>1, <2>3, <2>4, <2>9 DEF ScriptInv, TermsInv
  <2> QED
    BY <2>5, <2>8, <2>10 DEF ScriptInv
<1> QED
  BY <1>3, <1>4

\* What the network gets is the first transaction of its operation.
LEMMA HandedOver ==
    ASSUME ScriptInv, phase = "send", sent' = [sent EXCEPT ![op] = Append(@, "pending")],
           UNCHANGED <<case, gifted, calm>>
    PROVE  /\ sent' \in [AllOperations -> Seq(TxStates)]
           /\ \A o \in AllOperations :
                  Len(sent'[o]) <= (IF o \in receipt.entries THEN 1 ELSE 0)
           /\ receipt.entries \cup {op} = receipt.entries
<1>1. /\ sent \in [AllOperations -> Seq(TxStates)] /\ receipt \in Receipt
      /\ step \in 1..Len(Operations) /\ op \in receipt.entries /\ sent[op] = <<>>
  BY DEF ScriptInv, SentInv, CaseTypeOK, TxStates
<1>2. op \in AllOperations
  BY <1>1 DEF Receipt
<1>3. Append(sent[op], "pending") \in Seq(TxStates) /\ Len(Append(sent[op], "pending")) = 1
  BY <1>1 DEF TxStates
<1>4. \A o \in AllOperations : Len(sent[o]) <= (IF o \in receipt.entries THEN 1 ELSE 0)
  BY DEF ScriptInv, SentInv, FeeSentOnce
<1> QED
  BY <1>1, <1>2, <1>3, <1>4

LEMMA BroadcastKeeps == ScriptInv /\ Broadcast => ScriptInv'
<1> SUFFICES ASSUME ScriptInv, Broadcast PROVE ScriptInv'
  OBVIOUS
<1>1. /\ CaseTypeOK /\ phase = "send" /\ phase' = "wait"
      /\ UNCHANGED <<step, fresh, held, case, gifted, calm>>
      /\ receipt' = [receipt EXCEPT !.entries = @ \cup {op}]
      /\ sent' = [sent EXCEPT ![op] = Append(@, "pending")]
  BY DEF ScriptInv, Broadcast, Enter
<1>2. receipt \in Receipt /\ step \in 1..Len(Operations) /\ op \in receipt.entries
  BY <1>1 DEF ScriptInv, SentInv, CaseTypeOK
<1>3. receipt' = receipt
  BY <1>1, <1>2, HandedOver DEF Receipt
<1>4. Operations' = Operations /\ op' = op /\ (IsMain' <=> IsMain)
  BY <1>1, <1>3, OperationsKept DEF op, IsMain
<1>5. CaseTypeOK'
  BY <1>1, <1>3, HandedOver DEF CaseTypeOK, TxStates
<1>6. FeeSentOnce'
  BY <1>1, <1>3, HandedOver DEF FeeSentOnce
<1>7. SentInv' /\ TermsInv'
  BY <1>1, <1>2, <1>3, <1>4, <1>6 DEF ScriptInv, SentInv, TermsInv
<1> QED
  BY <1>5, <1>7 DEF ScriptInv

LEMMA BroadcastFailsKeeps == ScriptInv /\ BroadcastFails => ScriptInv'
<1> SUFFICES ASSUME ScriptInv, BroadcastFails PROVE ScriptInv'
  OBVIOUS
<1>1. phase = "send" /\ Stop /\ UNCHANGED <<case, receipt, gifted, calm>>
  BY DEF BroadcastFails
<1>2. CASE sent' = sent
  BY <1>1, <1>2, StopKeeps
<1>3. CASE sent' = [sent EXCEPT ![op] = Append(@, "pending")]
  <2>1. CaseTypeOK'
    <3>1. step' \in Nat \ {0} /\ held' \in Nat
      BY <1>1 DEF Stop
    <3>2. fresh' \in BOOLEAN
      BY <1>1 DEF Stop
    <3>3. phase' = "idle" /\ sent' \in [AllOperations -> Seq(TxStates)]
      BY <1>1, <1>3, HandedOver DEF Stop
    <3> QED
      BY <1>1, <3>1, <3>2, <3>3 DEF ScriptInv, CaseTypeOK, TxStates
  <2>2. FeeSentOnce'
    BY <1>1, <1>3, HandedOver DEF FeeSentOnce
  <2>3. SentInv' /\ TermsInv'
    BY <1>1, <2>2 DEF ScriptInv, SentInv, TermsInv, Stop
  <2> QED
    BY <2>1, <2>3 DEF ScriptInv
<1> QED
  BY <1>2, <1>3 DEF BroadcastFails

LEMMA ConfirmKeeps == ScriptInv /\ Confirm => ScriptInv'
<1> SUFFICES ASSUME ScriptInv, Confirm PROVE ScriptInv'
  OBVIOUS
<1>1. CaseTypeOK /\ UNCHANGED <<case, sent, gifted, calm>>
  BY DEF ScriptInv, Confirm
<1>2. CASE After(op)
  <2>1. phase' = "next" /\ step' = step + 1 /\ UNCHANGED <<receipt, held>>
    BY <1>2 DEF Confirm
  <2>2. fresh' = FALSE
    BY <1>2 DEF Confirm
  <2>3. step' \in Nat \ {0} /\ held' \in Nat /\ receipt' \in Receipt
    BY <1>1, <2>1 DEF CaseTypeOK
  <2>4. fresh' \in BOOLEAN
    BY <2>2
  <2>5. CaseTypeOK'
    BY <1>1, <2>1, <2>3, <2>4, ProcessType
  <2>6. phase # "idle"
    BY DEF Confirm
  <2>7. SentInv' /\ TermsInv'
    BY <1>1, <2>1, <2>6 DEF ScriptInv, SentInv, TermsInv, FeeSentOnce, IsMain
  <2> QED
    BY <2>5, <2>7 DEF ScriptInv
<1>3. CASE ~After(op)
  BY <1>1, <1>3, PoisonEffect, EndedKeeps DEF Confirm
<1> QED
  BY <1>2, <1>3

LEMMA CloseKeeps == ScriptInv /\ Close => ScriptInv'
<1> SUFFICES ASSUME ScriptInv, Close PROVE ScriptInv'
  OBVIOUS
<1>1. CaseTypeOK /\ UNCHANGED <<case, sent, gifted, calm>>
  BY DEF ScriptInv, Close
<1>2. \/ Poison
      \/ Stop /\ receipt' \in {receipt, [receipt EXCEPT !.result = "passed"]}
  BY DEF Close, TestCloses, MainCloses
<1>3. CASE Poison
  BY <1>1, <1>3, PoisonEffect, EndedKeeps
<1>4. CASE Stop /\ receipt' \in {receipt, [receipt EXCEPT !.result = "passed"]}
  <2>1. Ended
    BY <1>4 DEF Stop, Ended
  <2>2. receipt \in Receipt
    BY <1>1 DEF CaseTypeOK
  <2>3. receipt' \in Receipt
    BY <1>4, <2>2, ReceiptFields
  <2>4. /\ receipt'.entries = receipt.entries /\ receipt'.plan = receipt.plan
        /\ receipt'.expiredAt = receipt.expiredAt
    BY <1>4, <2>2 DEF Receipt
  <2> QED
    BY <1>1, <2>1, <2>3, <2>4, EndedKeeps DEF OnlyTerms
<1> QED
  BY <1>2, <1>3, <1>4

\* What becomes of a transaction is not its script's doing.
LEMMA NetworkKeeps ==
    ASSUME ScriptInv, NEW o \in AllOperations, NEW i \in DOMAIN sent[o],
           NEW outcome \in TxStates, Becomes(o, i, outcome),
           UNCHANGED <<case, receipt, processVars, gifted, calm>>
    PROVE  ScriptInv'
<1>1. CaseTypeOK /\ UNCHANGED <<phase, step, fresh, held>>
  BY DEF ScriptInv, processVars
<1>2. /\ sent' \in [AllOperations -> Seq(TxStates)]
      /\ \A p \in AllOperations : Len(sent'[p]) = Len(sent[p])
  BY <1>1, BecomesType
<1>3. CaseTypeOK'
  BY <1>1, <1>2 DEF CaseTypeOK, TxStates
<1>4. Operations' = Operations /\ op' = op /\ (IsMain' <=> IsMain)
  BY <1>1, OperationsKept DEF op, IsMain
<1>5. ASSUME phase = "send" PROVE sent'[op] = <<>>
  <2>1. op \in AllOperations /\ sent[op] = <<>>
    BY <1>1, <1>5 DEF ScriptInv, SentInv, CaseTypeOK, Receipt
  <2>2. Len(sent'[op]) = 0 /\ sent'[op] \in Seq(TxStates)
    BY <1>2, <2>1, EmptySeq
  <2> QED
    BY <2>2, EmptySeq
<1>6. FeeSentOnce'
  BY <1>1, <1>2 DEF ScriptInv, SentInv, FeeSentOnce
<1>7. SentInv' /\ TermsInv'
  BY <1>1, <1>4, <1>5, <1>6 DEF ScriptInv, SentInv, TermsInv
<1> QED
  BY <1>3, <1>7 DEF ScriptInv

\* A pending transaction is one the receipt names.
LEMMA PendingIsRecorded ==
    ASSUME ScriptInv, NEW o \in AllOperations, NEW i \in DOMAIN sent[o]
    PROVE  o \in receipt.entries
<1>1. sent[o] \in Seq(TxStates) /\ i \in 1..Len(sent[o]) /\ Len(sent[o]) \in Nat
  BY LenProperties DEF ScriptInv, CaseTypeOK, TxStates
<1>2. Len(sent[o]) <= (IF o \in receipt.entries THEN 1 ELSE 0)
  BY DEF ScriptInv, SentInv, FeeSentOnce
<1> QED
  BY <1>1, <1>2

LEMMA MineStep == ScriptInv /\ Mine => ScriptInv' /\ [Next]_vars
<1> SUFFICES ASSUME ScriptInv, Mine PROVE ScriptInv' /\ [Next]_vars
  OBVIOUS
<1>1. UNCHANGED <<case, receipt, processVars, gifted, calm>>
  BY DEF Mine
<1>2. PICK o \in AllOperations : \E i \in DOMAIN sent[o] :
          \/ Executes(o) /\ Becomes(o, i, "success")
          \/ UNCHANGED vars /\ Becomes(o, i, "abort")
  BY DEF Mine
<1>3. PICK i \in DOMAIN sent[o] :
          \/ Executes(o) /\ Becomes(o, i, "success")
          \/ UNCHANGED vars /\ Becomes(o, i, "abort")
  BY <1>2
<1>4. ScriptInv'
  BY <1>1, <1>3, NetworkKeeps DEF TxStates
<1>5. o \in receipt.entries
  BY PendingIsRecorded
<1> QED
  BY <1>3, <1>4, <1>5, ExecutesIsNext DEF ScriptInv

LEMMA WorldKeeps ==
    ASSUME ScriptInv, CaseWorld, ~Mine
    PROVE  ScriptInv' /\ [Next]_vars
<1>1. gifted \in Nat /\ calm \in BOOLEAN
  BY DEF ScriptInv, CaseTypeOK
<1>2. CASE Lose
  <2>1. PICK o \in AllOperations : \E i \in DOMAIN sent[o] : Becomes(o, i, "dropped")
    BY <1>2 DEF Lose
  <2>2. PICK i \in DOMAIN sent[o] : Becomes(o, i, "dropped")
    BY <2>1
  <2> QED
    BY <1>2, <2>2, NetworkKeeps DEF Lose, TxStates
<1>3. CASE \/ Configure \/ Authorise \/ Withdraw \/ StrangerActs \/ StacksBlock
           \/ BurnBlock
  <2>1. UNCHANGED <<scriptVars, gifted, calm>>
    BY <1>3 DEF Configure, Authorise, Withdraw, SetAuthorised, StrangerActs,
                StacksBlock, BurnBlock
  <2> QED
    BY <1>1, <1>3, <2>1, ScriptFrame, WorldIsNext DEF scriptVars
<1>4. CASE TreasurySpends
  BY <1>1, <1>4, ScriptFrame, WorldIsNext DEF TreasurySpends, scriptVars
<1>5. CASE CalmDown
  <2>1. calm' \in BOOLEAN
    BY <1>5 DEF CalmDown
  <2> QED
    BY <1>1, <1>5, <2>1, ScriptFrame DEF CalmDown, scriptVars
<1> QED
  BY <1>2, <1>3, <1>4, <1>5 DEF CaseWorld

LEMMA CaseStep ==
    TypeOK /\ ScriptInv /\ [CaseNext]_allCaseVars => ScriptInv' /\ [Next]_vars
<1> SUFFICES ASSUME TypeOK, ScriptInv, [CaseNext]_allCaseVars
             PROVE  ScriptInv' /\ [Next]_vars
  OBVIOUS
<1>1. CASE UNCHANGED allCaseVars
  BY <1>1, ScriptFrame DEF allCaseVars, caseVars, ScriptInv, CaseTypeOK
<1>2. CASE Start
  BY <1>2, StartKeeps DEF Start
<1>3. CASE CaseRun
  <2>1. UNCHANGED vars
    BY <1>3 DEF CaseRun, Review, Resume, Sign, Broadcast, Confirm, GivesUp, Close
  <2>2. ASSUME GivesUp PROVE ScriptInv'
    BY <2>2, StopKeeps DEF GivesUp
  <2> QED
    BY <1>3, <2>1, <2>2, ReviewKeeps, ResumeKeeps, SignKeeps, BroadcastKeeps,
       ConfirmKeeps, CloseKeeps DEF CaseRun
<1>4. CASE BroadcastFails
  BY <1>4, BroadcastFailsKeeps DEF BroadcastFails
<1>5. CASE Crash
  BY <1>5, StopKeeps DEF Crash
<1>6. CASE CaseWorld
  BY <1>6, MineStep, WorldKeeps
<1> QED
  BY <1>1, <1>2, <1>3, <1>4, <1>5, <1>6 DEF CaseNext

LEMMA ScriptInvHolds == CaseSpec => [](TypeOK /\ ScriptInv)
<1>1. CaseInit => TypeOK /\ ScriptInv
  BY ScriptInvInit, InitTypeOK DEF CaseInit
<1>2. TypeOK /\ ScriptInv /\ [CaseNext]_allCaseVars => (TypeOK /\ ScriptInv)'
  BY CaseStep, NextTypeOK
<1> QED
  BY <1>1, <1>2, PTL DEF CaseSpec

\* The receipt, the process and what the network was handed keep their types.
THEOREM CaseTypeCorrect == CaseSpec => []CaseTypeOK
BY ScriptInvHolds, PTL DEF ScriptInv

\* Whatever the scripts, the network and strangers do in a case, the contract
\* goes through one of its own behaviours: every theorem about Spec holds while
\* the scripts run.
THEOREM ScriptsUseTheContract == CaseSpec => Spec
<1>1. CaseInit => Init
  BY DEF CaseInit
<1> QED
  BY <1>1, ScriptInvHolds, CaseStep, PTL DEF CaseSpec, Spec

\* Whatever run of a script dies, times out or gets no answer, wherever, no
\* operation is handed to the network twice, and none the receipt does not name.
THEOREM OperationsAreSentOnce == CaseSpec => []FeeSentOnce
BY ScriptInvHolds, PTL DEF ScriptInv, SentInv

-----------------------------------------------------------------------------
(* What the chain has executed of a case *)

Executed == {o \in AllOperations : sent[o] = <<"success">>}

\* There is at most one transaction of an operation, and none of one the
\* receipt does not name.
LEMMA RecordedTx ==
    ASSUME ScriptInv, NEW o \in AllOperations
    PROVE  /\ sent[o] \in Seq(TxStates) /\ Len(sent[o]) \in 0..1
           /\ o \notin receipt.entries => sent[o] = <<>>
<1>1. sent[o] \in Seq(TxStates) /\ Len(sent[o]) \in Nat
  BY LenProperties DEF ScriptInv, CaseTypeOK, TxStates
<1>2. /\ o \in receipt.entries => Len(sent[o]) <= 1
      /\ o \notin receipt.entries => Len(sent[o]) <= 0
  BY DEF ScriptInv, SentInv, FeeSentOnce
<1>3. Len(sent[o]) \in 0..1
  <2>1. Len(sent[o]) \in Nat /\ Len(sent[o]) <= 1
    BY <1>1, <1>2
  <2>2. \A n \in Nat : n <= 1 => n \in 0..1
    OBVIOUS
  <2> QED
    BY <2>1, <2>2
<1>4. Len(sent[o]) <= 0 => sent[o] = <<>>
  BY <1>1, EmptySeq
<1> QED
  BY <1>1, <1>2, <1>3, <1>4

LEMMA ExecutedIsRecorded ==
    ASSUME ScriptInv
    PROVE  /\ Executed \subseteq receipt.entries
           /\ "topUp" \in Executed => receipt.plan # NONE
<1>1. ASSUME NEW o \in Executed PROVE o \in receipt.entries
  <2>1. o \in AllOperations /\ sent[o] # <<>>
    BY DEF Executed
  <2> QED
    BY <2>1, RecordedTx
<1> QED
  BY <1>1, CaseAssumption, PrincipalsAssumption DEF ScriptInv, TermsInv

LEMMA SuccessIsExecuted ==
    ASSUME ScriptInv, NEW o \in AllOperations
    PROVE  Observed(o) = "success" => o \in Executed
<1>1. sent[o] \in Seq(TxStates) /\ Len(sent[o]) \in 0..1
  BY RecordedTx
<1>2. ASSUME Observed(o) = "success" PROVE sent[o] = <<"success">>
  <2>1. sent[o] # <<>> /\ sent[o][Len(sent[o])] = "success"
    BY <1>2 DEF Observed
  <2>2. Len(sent[o]) = 1
    BY <1>1, <2>1, EmptySeq
  <2> QED
    BY <1>1, <2>1, <2>2
<1> QED
  BY <1>2 DEF Executed

\* A pending transaction becomes what the network makes of it.
LEMMA ExecutedGrows ==
    ASSUME ScriptInv, NEW o \in AllOperations, NEW i \in DOMAIN sent[o],
           sent[o][i] = "pending", NEW outcome \in TxStates \ {"pending"},
           Becomes(o, i, outcome)
    PROVE  /\ o \notin Executed
           /\ Executed' = IF outcome = "success" THEN Executed \cup {o} ELSE Executed
<1>1. /\ sent[o] \in Seq(TxStates) /\ Len(sent[o]) \in 0..1
      /\ sent \in [AllOperations -> Seq(TxStates)]
  BY RecordedTx DEF ScriptInv, CaseTypeOK, TxStates
<1>2. i \in 1..Len(sent[o])
  BY <1>1, LenProperties
<1>3. i = 1 /\ Len(sent[o]) = 1
  BY <1>1, <1>2
<1>4. sent[o] = <<"pending">>
  BY <1>1, <1>3
<1>5. sent'[o] = <<outcome>> /\ \A p \in AllOperations \ {o} : sent'[p] = sent[p]
  <2>1. sent' = [sent EXCEPT ![o] = [sent[o] EXCEPT ![i] = outcome]]
    BY DEF Becomes
  <2>2. [sent[o] EXCEPT ![i] = outcome] = <<outcome>>
    BY <1>3, <1>4
  <2> QED
    BY <1>1, <2>1, <2>2
<1>6. <<"pending">> # <<"success">> /\ (<<outcome>> = <<"success">> <=> outcome = "success")
  BY DEF TxStates
<1> QED
  BY <1>4, <1>5, <1>6 DEF Executed

LEMMA ExecutedStays == UNCHANGED sent => Executed' = Executed
BY DEF Executed

\* The operations every case has, and one that only some have.
Has(s, o) == \E i \in 1..Len(s) : s[i] = o

LEMMA HasAfterConcat ==
    ASSUME NEW s \in Seq(AllOperations), NEW t \in Seq(AllOperations), NEW o,
           Has(s, o) \/ Has(t, o)
    PROVE  Has(s \o t, o)
<1>1. /\ Len(s) \in Nat /\ Len(t) \in Nat /\ Len(s \o t) = Len(s) + Len(t)
      /\ \A i \in 1..Len(s) : (s \o t)[i] = s[i]
      /\ \A i \in 1..Len(t) : (s \o t)[Len(s) + i] = t[i]
  BY LenProperties
<1>2. ASSUME NEW i \in 1..Len(s), s[i] = o PROVE Has(s \o t, o)
  BY <1>1, <1>2 DEF Has
<1>3. ASSUME NEW i \in 1..Len(t), t[i] = o PROVE Has(s \o t, o)
  <2>1. Len(s) + i \in 1..Len(s \o t) /\ (s \o t)[Len(s) + i] = o
    BY <1>1, <1>3
  <2> QED
    BY <2>1 DEF Has
<1> QED
  BY <1>2, <1>3 DEF Has

LEMMA EveryCaseHires ==
    /\ Has(Operations, "create") /\ Has(Operations, "fund")
    /\ IsMain /\ receipt.plan \notin {NONE, 0} => Has(Operations, "topUp")
<1> DEFINE S == Seq(AllOperations)
<1>1. /\ Hiring_ \in S /\ MainTopUp \in S /\ TestJudging \in S
      /\ TestSettling \in S /\ TestAftermath \in S
      /\ <<"decision", "appeal", "settle">> \in S
  BY PartsType
<1>2. Has(Hiring_, "create") /\ Has(Hiring_, "fund")
  <2>1. Len(Hiring_) = 5 /\ Hiring_[1] = "create" /\ Hiring_[3] = "fund"
    BY DEF Hiring_
  <2> QED
    BY <2>1 DEF Has
<1>3. \A s, t \in S : s \o t \in S
  BY ConcatProperties
<1>4. CASE IsMain
  <2>1. MainTopUp \o Hiring_ \in S
    BY <1>1, <1>3
  <2>2. Has(MainTopUp \o Hiring_, "create") /\ Has(MainTopUp \o Hiring_, "fund")
    BY <1>1, <1>2, HasAfterConcat
  <2>3. Has(MainOperations, "create") /\ Has(MainOperations, "fund")
    BY <1>1, <2>1, <2>2, HasAfterConcat DEF MainOperations
  <2>4. ASSUME receipt.plan \notin {NONE, 0} PROVE Has(MainOperations, "topUp")
    <3>1. MainTopUp = <<"topUp">>
      BY <2>4 DEF MainTopUp
    <3>2. Has(MainTopUp, "topUp")
      BY <3>1 DEF Has
    <3>3. Has(MainTopUp \o Hiring_, "topUp")
      BY <1>1, <3>2, HasAfterConcat
    <3> QED
      BY <1>1, <2>1, <3>3, HasAfterConcat DEF MainOperations
  <2> QED
    BY <1>4, <2>3, <2>4 DEF Operations
<1>5. CASE ~IsMain
  <2> DEFINE judged == Hiring_ \o TestJudging
             settled == judged \o TestSettling
  <2>1. judged \in S /\ settled \in S
    BY <1>1, <1>3
  <2>2. Has(judged, "create") /\ Has(judged, "fund")
    BY <1>1, <1>2, HasAfterConcat
  <2> HIDE DEF judged
  <2>3. Has(settled, "create") /\ Has(settled, "fund")
    BY <1>1, <2>1, <2>2, HasAfterConcat
  <2> HIDE DEF settled
  <2>4. Has(settled \o TestAftermath, "create") /\ Has(settled \o TestAftermath, "fund")
    BY <1>1, <2>1, <2>3, HasAfterConcat
  <2> QED
    BY <1>5, <2>4 DEF Operations, TestOperations, settled, judged
<1> QED
  BY <1>4, <1>5

-----------------------------------------------------------------------------
(* The job and the money of a case *)

\* The one job there is, and what its row owes to the operations executed.
JobInv ==
    /\ protocolConfigured => serviceTreasury = Actors.treasury
    /\ jobCounter = IF "create" \in Executed THEN 1 ELSE 0
    /\ "fund" \in Executed => "create" \in Executed
    /\ "create" \in Executed =>
        /\ Job_.client = Actors.client /\ Job_.treasury = Actors.treasury
        /\ Job_.provider \in {NONE, Actors.provider}
        /\ "fund" \in Executed => Job_.status # STATUS_OPEN /\ Job_.budget = Budget
        /\ "fund" \notin Executed => /\ Job_.status \in {STATUS_OPEN, STATUS_EXPIRED}
                                     /\ Job_.budget \in {0, Budget}
    /\ ~IsMain => gifted = 0

\* What the contract has paid to an account of the case.
ContractPaid(p) ==
    IF "create" \notin Executed THEN 0
    ELSE IF Job_.status \in SettledStatuses
    THEN (IF p = Settlement_.recipient
          THEN Settlement_.net + Settlement_.refundedFee ELSE 0)
         + (IF p = Actors.treasury
            THEN Settlement_.chargedFee - Settlement_.refundedFee ELSE 0)
    ELSE IF Job_.status = STATUS_TIMEOUT_PAID
    THEN IF p = Actors.provider THEN Budget ELSE 0
    ELSE IF Job_.status = STATUS_EXPIRED /\ "fund" \in Executed
    THEN IF p = Actors.client THEN Budget ELSE 0
    ELSE 0
Deposited == IF "fund" \in Executed THEN Budget ELSE 0
ToppedUp == IF "topUp" \in Executed THEN receipt.plan ELSE 0

\* Every micro-STX of the case's accounts is accounted for.
LedgerInv ==
    /\ stx[Actors.client] =
           InitialOf("client") - Deposited - ToppedUp + ContractPaid(Actors.client)
    /\ stx[Actors.provider] =
           InitialOf("provider") + ToppedUp + gifted + ContractPaid(Actors.provider)
    /\ stx[Actors.treasury] =
           InitialOf("treasury") - gifted + ContractPaid(Actors.treasury)

LEMMA Accounts ==
    /\ Actors.client # Actors.provider /\ Actors.client # Actors.treasury
    /\ Actors.provider # Actors.treasury
    /\ Actors.client # Escrow /\ Actors.provider # Escrow /\ Actors.treasury # Escrow
    /\ Actors.client \in Principals /\ Actors.provider \in Principals
    /\ Actors.treasury \in Principals /\ Escrow \in Principals
    /\ Budget \in Nat /\ TheJob = 1
    /\ NONE \notin {Actors.client, Actors.provider, Actors.treasury}
<1>1. /\ "client" \in Roles /\ "provider" \in Roles /\ "treasury" \in Roles
  BY DEF Roles
<1>2. Actors.client # Actors.provider /\ Actors.client # Actors.treasury
      /\ Actors.provider # Actors.treasury
  BY <1>1, CaseAssumption
<1> QED
  BY <1>2, ActorType, CaseAssumption, PrincipalsAssumption, InputAssumption
  DEF Users, TheJob

LEMMA JobExists ==
    ASSUME TypeOK, JobInv
    PROVE  /\ TheJob \in DOMAIN jobs <=> "create" \in Executed
           /\ DOMAIN jobs \subseteq {TheJob}
           /\ TheJob \in DOMAIN jobs => Job_ \in Job
<1>1. jobs \in [1..jobCounter -> Job]
  BY DEF TypeOK, JobsTypeOK
<1>2. CASE "create" \in Executed
  <2>1. jobCounter = 1
    BY <1>2 DEF JobInv
  <2>2. 1..1 = {TheJob}
    BY DEF TheJob
  <2>3. jobs \in [{TheJob} -> Job]
    BY <1>1, <2>1, <2>2
  <2> QED
    BY <1>2, <2>3 DEF Job_
<1>3. CASE "create" \notin Executed
  <2>1. DOMAIN jobs = {}
    BY <1>1, <1>3 DEF JobInv
  <2> QED
    BY <1>3, <2>1
<1> QED
  BY <1>2, <1>3

\* What an execution or a stranger's call leaves of the rest of the case.
SameDeposits ==
    /\ "create" \in Executed' <=> "create" \in Executed
    /\ "fund" \in Executed' <=> "fund" \in Executed
    /\ "topUp" \in Executed' <=> "topUp" \in Executed
SameCase == UNCHANGED <<case, receipt, gifted>>
SamePolicy == UNCHANGED <<jobCounter, protocolConfigured, serviceTreasury>>

\* A step the case's books take no notice of.
LEMMA BooksStay ==
    ASSUME JobInv, LedgerInv, SameDeposits,
           UNCHANGED <<case, gifted, stx, jobVars, serviceFeeSettlements>>,
           protocolConfigured' => serviceTreasury' = Actors.treasury,
           "topUp" \in Executed => receipt'.plan = receipt.plan
    PROVE  JobInv' /\ LedgerInv'
<1>1. JobInv'
  BY DEF JobInv, SameDeposits, jobVars, Job_, IsMain
<1>2. /\ ContractPaid(Actors.client)' = ContractPaid(Actors.client)
      /\ ContractPaid(Actors.provider)' = ContractPaid(Actors.provider)
      /\ ContractPaid(Actors.treasury)' = ContractPaid(Actors.treasury)
      /\ Deposited' = Deposited /\ ToppedUp' = ToppedUp
  BY DEF ContractPaid, Deposited, ToppedUp, SameDeposits, jobVars, Job_, Settlement_
<1>3. LedgerInv'
  BY <1>2 DEF LedgerInv
<1> QED
  BY <1>1, <1>3

UnpaidStatuses == HeldStatuses \cup {STATUS_OPEN}

LEMMA NothingPaid ==
    ASSUME NEW p, "create" \in Executed => Job_.status \in UnpaidStatuses
    PROVE  ContractPaid(p) = 0
BY Held DEF ContractPaid, UnpaidStatuses, SettledStatuses

\* A step that changes the row of the job and moves no money.
LEMMA RowMoves ==
    ASSUME JobInv, LedgerInv, SameDeposits, SameCase, SamePolicy,
           UNCHANGED <<stx, serviceFeeSettlements>>,
           "create" \in Executed, Job_.status \in UnpaidStatuses,
           Job_'.client = Job_.client, Job_'.treasury = Job_.treasury,
           Job_'.provider \in {NONE, Actors.provider},
           "fund" \in Executed => /\ Job_'.status \in HeldStatuses
                                  /\ Job_'.budget = Job_.budget,
           "fund" \notin Executed => /\ Job_'.status = STATUS_OPEN
                                     /\ Job_'.budget \in {0, Budget}
    PROVE  JobInv' /\ LedgerInv'
<1>1. JobInv'
  BY Held DEF JobInv, SameDeposits, SameCase, SamePolicy, IsMain
<1>2. /\ ContractPaid(Actors.client) = 0 /\ ContractPaid(Actors.provider) = 0
      /\ ContractPaid(Actors.treasury) = 0
  BY NothingPaid
<1>3. Job_'.status \in UnpaidStatuses
  BY DEF UnpaidStatuses
<1>4. /\ ContractPaid(Actors.client)' = 0 /\ ContractPaid(Actors.provider)' = 0
      /\ ContractPaid(Actors.treasury)' = 0
  BY <1>3, Held DEF ContractPaid, UnpaidStatuses, SettledStatuses
<1>5. Deposited' = Deposited /\ ToppedUp' = ToppedUp
  BY DEF Deposited, ToppedUp, SameDeposits, SameCase
<1>6. LedgerInv'
  BY <1>2, <1>4, <1>5 DEF LedgerInv, SameCase
<1> QED
  BY <1>1, <1>6

LEMMA FeeType ==
    ASSUME TypeOK, NEW j \in DOMAIN jobs
    PROVE  ChargedFee(j) \in 0..jobs[j].budget
BY JobType, FeeInRange DEF ChargedFee, Job

\* Both legs of a settlement, at the two accounts they go to.
LEMMA SettlementPays ==
    ASSUME TypeOK, NEW j \in DOMAIN jobs, NEW payee \in Principals \ {Escrow},
           jobs[j].treasury # Escrow, SettleServicePayment(j, payee)
    PROVE  LET fee == ChargedFee(j)
               treasury == jobs[j].treasury
           IN  /\ payee # treasury
               /\ stx'[payee] = stx[payee] + jobs[j].budget - fee
               /\ stx'[treasury] = stx[treasury] + fee
               /\ \A p \in Principals \ {Escrow, payee, treasury} : stx'[p] = stx[p]
               /\ j \in DOMAIN serviceFeeSettlements'
               /\ serviceFeeSettlements'[j] =
                      [gross |-> jobs[j].budget, recipient |-> payee,
                       net |-> jobs[j].budget - fee, chargedFee |-> fee,
                       refundedFee |-> 0]
<1> DEFINE gross == jobs[j].budget
           fee == ChargedFee(j)
           net == gross - fee
           afterNet == Transfer(stx, net, Escrow, payee)
           treasury == jobs[j].treasury
<1>1. gross \in Nat /\ fee \in 0..gross /\ treasury \in Principals \ {Escrow}
  BY JobType, FeeType DEF Job
<1>2. net \in Nat /\ fee \in Nat
  BY <1>1
<1>3. Escrow \in Principals /\ stx \in [Principals -> Nat]
  BY PrincipalsAssumption DEF TypeOK, ChainTypeOK
<1>4. payee # treasury
  BY DEF SettleServicePayment
<1>5. \/ fee > 0 /\ stx' = Transfer(afterNet, fee, Escrow, treasury)
      \/ ~(fee > 0) /\ stx' = afterNet
  BY DEF SettleServicePayment, AfterSettlement, FeeIsDue
<1>6. /\ j \in DOMAIN serviceFeeSettlements'
      /\ serviceFeeSettlements'[j] =
             [gross |-> gross, recipient |-> payee, net |-> net,
              chargedFee |-> fee, refundedFee |-> 0]
  BY DEF SettleServicePayment, MapSet
<1> HIDE DEF fee, gross, net, treasury
<1>7. /\ afterNet \in [Principals -> Int]
      /\ afterNet[payee] = stx[payee] + net
      /\ \A p \in Principals \ {Escrow, payee} : afterNet[p] = stx[p]
  BY <1>2, <1>3 DEF Transfer
<1> HIDE DEF afterNet
<1>8. /\ stx'[payee] = stx[payee] + net
      /\ stx'[treasury] = stx[treasury] + fee
      /\ \A p \in Principals \ {Escrow, payee, treasury} : stx'[p] = stx[p]
  <2>1. CASE ~(fee > 0) /\ stx' = afterNet
    BY <1>1, <1>2, <1>3, <1>4, <1>7, <2>1
  <2>2. CASE stx' = Transfer(afterNet, fee, Escrow, treasury)
    BY <1>1, <1>2, <1>3, <1>4, <1>7, <2>2 DEF Transfer
  <2> QED
    BY <1>5, <2>1, <2>2
<1> QED
  BY <1>1, <1>3, <1>4, <1>6, <1>8 DEF fee, gross, net, treasury

LEMMA AmountsType ==
    ASSUME ScriptInv
    PROVE  /\ Deposited \in Nat /\ ToppedUp \in Nat /\ gifted \in Nat
           /\ InitialOf("client") \in Nat /\ InitialOf("provider") \in Nat
           /\ InitialOf("treasury") \in Nat
<1>1. "topUp" \in Executed => receipt.plan \in Nat
  BY ExecutedIsRecorded, CaseAssumption DEF ScriptInv, TermsInv
<1>2. gifted \in Nat
  BY DEF ScriptInv, CaseTypeOK
<1> QED
  BY <1>1, <1>2, Accounts, LedgerAssumption DEF Deposited, ToppedUp, InitialOf

\* A step that closes the job in a status and pays what the books then say.
LEMMA JobCloses ==
    ASSUME TypeOK, ScriptInv, JobInv, LedgerInv, SameDeposits, SameCase, SamePolicy,
           "fund" \in Executed, Job_.status \in HeldStatuses,
           NEW s \in {STATUS_COMPLETED, STATUS_REJECTED, STATUS_TIMEOUT_PAID, STATUS_EXPIRED},
           jobs' = [jobs EXCEPT ![TheJob].status = s],
           stx'[Actors.client] = stx[Actors.client] + ContractPaid(Actors.client)',
           stx'[Actors.provider] = stx[Actors.provider] + ContractPaid(Actors.provider)',
           stx'[Actors.treasury] = stx[Actors.treasury] + ContractPaid(Actors.treasury)',
           ContractPaid(Actors.client)' \in Int, ContractPaid(Actors.provider)' \in Int,
           ContractPaid(Actors.treasury)' \in Int
    PROVE  JobInv' /\ LedgerInv'
<1>1. TheJob \in DOMAIN jobs /\ Job_ \in Job /\ "create" \in Executed
  BY JobExists DEF JobInv
<1>2. Job_' = [Job_ EXCEPT !.status = s]
  BY <1>1 DEF Job_, TypeOK, JobsTypeOK
<1>3. JobInv'
  BY <1>1, <1>2, Held DEF JobInv, SameDeposits, SameCase, SamePolicy, IsMain, Job
<1>4. /\ ContractPaid(Actors.client) = 0 /\ ContractPaid(Actors.provider) = 0
      /\ ContractPaid(Actors.treasury) = 0
  BY NothingPaid DEF UnpaidStatuses
<1>5. Deposited' = Deposited /\ ToppedUp' = ToppedUp
  BY DEF Deposited, ToppedUp, SameDeposits, SameCase
<1>6. /\ gifted' = gifted /\ gifted \in Nat /\ Deposited \in Nat /\ ToppedUp \in Nat
      /\ InitialOf("client") \in Nat /\ InitialOf("provider") \in Nat
      /\ InitialOf("treasury") \in Nat
  BY AmountsType DEF SameCase
<1>7. LedgerInv'
  BY <1>4, <1>5, <1>6 DEF LedgerInv
<1> QED
  BY <1>3, <1>7

LEMMA SettleBooks ==
    ASSUME TypeOK, ScriptInv, JobInv, LedgerInv, SameDeposits, SameCase,
           NEW sender, NEW d \in {DECISION_APPROVE, DECISION_REJECT},
           TheJob \in DOMAIN jobs, Job_.provider # NONE,
           Job_.status \in {STATUS_DECISION_PENDING, STATUS_DISPUTED},
           Settle(sender, TheJob, d)
    PROVE  JobInv' /\ LedgerInv'
<1> DEFINE payee == Recipient(Job_, d)
           fee == ChargedFee(TheJob)
<1>1. /\ "create" \in Executed /\ "fund" \in Executed /\ Job_.status \in HeldStatuses
      /\ Job_.client = Actors.client /\ Job_.treasury = Actors.treasury
      /\ Job_.provider = Actors.provider /\ Job_.budget = Budget
  BY JobExists, Held DEF JobInv
<1>2. payee \in {Actors.client, Actors.provider}
  BY <1>1 DEF Recipient
<1>3. payee \in Principals \ {Escrow} /\ Job_.treasury # Escrow
  BY <1>1, <1>2, Accounts
<1>4. SettleServicePayment(TheJob, payee)
  BY DEF Settle, Job_
<1>5. fee \in 0..Budget
  BY <1>1, FeeType DEF Job_
<1> HIDE DEF payee, fee
<1>6. /\ payee # Actors.treasury
      /\ stx'[payee] = stx[payee] + Budget - fee
      /\ stx'[Actors.treasury] = stx[Actors.treasury] + fee
      /\ \A p \in Principals \ {Escrow, payee, Actors.treasury} : stx'[p] = stx[p]
      /\ Settlement_' = [gross |-> Budget, recipient |-> payee,
                         net |-> Budget - fee, chargedFee |-> fee, refundedFee |-> 0]
  BY <1>1, <1>3, <1>4, SettlementPays DEF Job_, Settlement_, fee
<1>7. PICK s \in {STATUS_COMPLETED, STATUS_REJECTED} :
          jobs' = [jobs EXCEPT ![TheJob].status = s]
  BY DEF Settle, StatusFor
<1>8. Job_'.status = s /\ "create" \in Executed'
  BY <1>1, <1>7, JobExists DEF Job_, TypeOK, JobsTypeOK, SameDeposits, Job
<1>9. s \in SettledStatuses /\ fee \in Nat /\ Budget - fee \in Nat
  BY <1>5, Accounts DEF SettledStatuses
<1>10. \A p \in Principals : ContractPaid(p)' =
          (IF p = payee THEN Budget - fee ELSE 0)
          + (IF p = Actors.treasury THEN fee ELSE 0)
  BY <1>6, <1>8, <1>9 DEF ContractPaid
<1>11. /\ \A p \in {Actors.client, Actors.provider, Actors.treasury} :
            stx'[p] = stx[p] + ContractPaid(p)' /\ ContractPaid(p)' \in Int
  <2> SUFFICES ASSUME NEW p \in {Actors.client, Actors.provider, Actors.treasury}
               PROVE  stx'[p] = stx[p] + ContractPaid(p)' /\ ContractPaid(p)' \in Int
    OBVIOUS
  <2>1. p \in Principals \ {Escrow} /\ stx[p] \in Nat
    BY Accounts DEF TypeOK, ChainTypeOK
  <2>2. CASE p = payee
    BY <1>5, <1>6, <1>9, <1>10, <2>1, <2>2, Accounts
  <2>3. CASE p = Actors.treasury
    BY <1>5, <1>6, <1>9, <1>10, <2>1, <2>3, Accounts
  <2>4. CASE p # payee /\ p # Actors.treasury
    BY <1>6, <1>10, <2>1, <2>4
  <2> QED
    BY <2>2, <2>3, <2>4
<1>12. SamePolicy
  BY DEF Settle, SamePolicy, governanceVars, configVars
<1> QED
  BY <1>1, <1>7, <1>11, <1>12, JobCloses

LEMMA ReviewTimeoutBooks ==
    ASSUME TypeOK, ScriptInv, JobInv, LedgerInv, SameDeposits, SameCase,
           NEW sender, SettleReviewTimeout(sender, TheJob)
    PROVE  JobInv' /\ LedgerInv'
<1>1. /\ TheJob \in DOMAIN jobs /\ Job_.status = STATUS_SUBMITTED
      /\ Job_.provider # NONE
      /\ jobs' = [jobs EXCEPT ![TheJob].status = STATUS_TIMEOUT_PAID]
      /\ StxTransfer(Job_.budget, Escrow, Job_.provider)
  BY DEF SettleReviewTimeout, Job_
<1>2. /\ "create" \in Executed /\ "fund" \in Executed /\ Job_.status \in HeldStatuses
      /\ Job_.provider = Actors.provider /\ Job_.budget = Budget
  BY <1>1, JobExists, Held DEF JobInv
<1>3. /\ stx'[Actors.client] = stx[Actors.client]
      /\ stx'[Actors.provider] = stx[Actors.provider] + Budget
      /\ stx'[Actors.treasury] = stx[Actors.treasury]
  BY <1>1, <1>2, Accounts DEF StxTransfer, Transfer, TypeOK, ChainTypeOK
<1>4. Job_'.status = STATUS_TIMEOUT_PAID /\ "create" \in Executed'
  BY <1>1, <1>2, JobExists DEF Job_, TypeOK, JobsTypeOK, SameDeposits, Job
<1>5. /\ ContractPaid(Actors.client)' = 0 /\ ContractPaid(Actors.provider)' = Budget
      /\ ContractPaid(Actors.treasury)' = 0
  BY <1>4, Accounts, Held DEF ContractPaid, SettledStatuses
<1>6. SamePolicy
  BY DEF SettleReviewTimeout, SamePolicy, governanceVars, configVars
<1>7. /\ stx[Actors.client] \in Nat /\ stx[Actors.treasury] \in Nat /\ Budget \in Nat
  BY Accounts DEF TypeOK, ChainTypeOK
<1> QED
  BY <1>1, <1>2, <1>3, <1>5, <1>6, <1>7, JobCloses

LEMMA ExpireBooks ==
    ASSUME TypeOK, ScriptInv, JobInv, LedgerInv, EscrowMatchesStatus,
           SameDeposits, SameCase, NEW sender, ExpireJob(sender, TheJob)
    PROVE  JobInv' /\ LedgerInv'
<1>1. /\ TheJob \in DOMAIN jobs /\ Job_.status \in {STATUS_OPEN, STATUS_FUNDED}
      /\ jobs' = [jobs EXCEPT ![TheJob].status = STATUS_EXPIRED]
      /\ SamePolicy
  BY DEF ExpireJob, Job_, SamePolicy, governanceVars, configVars
<1>2. /\ "create" \in Executed /\ Job_ \in Job
      /\ Job_' = [Job_ EXCEPT !.status = STATUS_EXPIRED]
      /\ Job_'.status = STATUS_EXPIRED /\ "create" \in Executed'
  BY <1>1, JobExists DEF Job_, TypeOK, JobsTypeOK, SameDeposits, Job
<1>3. CASE Job_.status = STATUS_FUNDED
  <2>1. "fund" \in Executed /\ Job_.status \in HeldStatuses
        /\ Job_.client = Actors.client /\ Job_.budget = Budget
    BY <1>2, <1>3, Held DEF JobInv
  <2>2. MapGetOr(escrowBalances, TheJob, 0) = Budget /\ Budget > 0
    BY <1>1, <2>1 DEF EscrowMatchesStatus, MapGetOr, Job_
  <2>3. StxTransfer(Budget, Escrow, Actors.client)
    BY <2>1, <2>2 DEF ExpireJob, Job_
  <2>4. /\ stx'[Actors.client] = stx[Actors.client] + Budget
        /\ stx'[Actors.provider] = stx[Actors.provider]
        /\ stx'[Actors.treasury] = stx[Actors.treasury]
    BY <2>3, Accounts DEF StxTransfer, Transfer, TypeOK, ChainTypeOK
  <2>5. "fund" \in Executed'
    BY <2>1 DEF SameDeposits
  <2>6. /\ ContractPaid(Actors.client)' = Budget /\ ContractPaid(Actors.provider)' = 0
        /\ ContractPaid(Actors.treasury)' = 0
    BY <1>2, <2>5, Accounts, Held DEF ContractPaid, SettledStatuses
  <2>7. /\ stx[Actors.provider] \in Nat /\ stx[Actors.treasury] \in Nat /\ Budget \in Nat
    BY Accounts DEF TypeOK, ChainTypeOK
  <2> QED
    BY <1>1, <2>1, <2>4, <2>6, <2>7, JobCloses
<1>4. CASE Job_.status = STATUS_OPEN
  <2>1. "fund" \notin Executed /\ "fund" \notin Executed'
    BY <1>2, <1>4 DEF JobInv, SameDeposits
  <2>2. TheJob \notin DOMAIN escrowBalances
    BY <1>1, <1>4, Held DEF EscrowMatchesStatus, Job_
  <2>3. stx' = stx
    BY <2>2 DEF ExpireJob, MapGetOr, moneyVars
  <2>4. JobInv'
    BY <1>1, <1>2, <2>1 DEF JobInv, SameDeposits, SameCase, SamePolicy, IsMain, Job
  <2>5. /\ ContractPaid(Actors.client) = 0 /\ ContractPaid(Actors.provider) = 0
        /\ ContractPaid(Actors.treasury) = 0
    BY <1>4, NothingPaid DEF UnpaidStatuses
  <2>6. /\ ContractPaid(Actors.client)' = 0 /\ ContractPaid(Actors.provider)' = 0
        /\ ContractPaid(Actors.treasury)' = 0
    BY <1>2, <2>1, Held DEF ContractPaid, SettledStatuses
  <2>7. Deposited' = Deposited /\ ToppedUp' = ToppedUp
    BY DEF Deposited, ToppedUp, SameDeposits, SameCase
  <2>8. LedgerInv'
    BY <2>3, <2>5, <2>6, <2>7 DEF LedgerInv, SameCase
  <2> QED
    BY <2>4, <2>8
<1> QED
  BY <1>1, <1>3, <1>4

\* Who settles the job or lets it expire makes no difference to the books.
LEMMA PermissionlessBooks ==
    ASSUME TypeOK, ScriptInv, JobInv, LedgerInv, EscrowMatchesStatus,
           SameDeposits, SameCase, NEW sender, Permissionless(sender, TheJob)
    PROVE  JobInv' /\ LedgerInv'
<1>1. CASE FinalizeDecision(sender, TheJob) \/ SettleAppealTimeout(sender, TheJob)
  <2>1. /\ TheJob \in DOMAIN jobs /\ Job_.provider # NONE
        /\ Job_.status \in {STATUS_DECISION_PENDING, STATUS_DISPUTED}
        /\ TheJob \in DOMAIN decisions
        /\ Settle(sender, TheJob, decisions[TheJob].original)
    BY <1>1 DEF FinalizeDecision, SettleAppealTimeout, Job_
  <2>2. decisions[TheJob].original \in {DECISION_APPROVE, DECISION_REJECT}
    BY <2>1, DecisionType DEF Decision
  <2> QED
    BY <2>1, <2>2, SettleBooks
<1>2. CASE SettleReviewTimeout(sender, TheJob)
  BY <1>2, ReviewTimeoutBooks
<1>3. CASE ExpireJob(sender, TheJob)
  BY <1>3, ExpireBooks
<1> QED
  BY <1>1, <1>2, <1>3 DEF Permissionless

LEMMA PaidType ==
    ASSUME TypeOK, JobInv, FeeStateReadable, NEW p
    PROVE  ContractPaid(p) \in Int
<1>1. ASSUME "create" \in Executed, Job_.status \in SettledStatuses
      PROVE  Settlement_ \in Settlement
  <2>1. TheJob \in DOMAIN serviceFeeSettlements
    BY <1>1, JobExists DEF FeeStateReadable, Job_
  <2> QED
    BY <2>1 DEF TypeOK, MapsTypeOK, IsMap, Settlement_
<1> QED
  BY <1>1, Accounts DEF ContractPaid, Settlement

\* What the operations of a case do to its books.
BooksInOrder ==
    /\ TypeOK /\ ScriptInv /\ JobInv /\ LedgerInv
    /\ EscrowMatchesStatus /\ FeeStateReadable

LEMMA BooksType ==
    ASSUME BooksInOrder
    PROVE  /\ \A p : ContractPaid(p) \in Int
           /\ stx \in [Principals -> Nat]
           /\ stx[Actors.client] \in Nat /\ stx[Actors.provider] \in Nat
           /\ stx[Actors.treasury] \in Nat
BY PaidType, Accounts DEF BooksInOrder, TypeOK, ChainTypeOK

LEMMA TopUpBooks ==
    ASSUME BooksInOrder, SameCase, "topUp" \in receipt.entries \ Executed,
           Executed' = Executed \cup {"topUp"},
           ExternalTransfer(Actors.client, Actors.provider, receipt.plan)
    PROVE  JobInv' /\ LedgerInv'
<1>1. /\ StxTransfer(receipt.plan, Actors.client, Actors.provider)
      /\ SamePolicy /\ UNCHANGED <<jobVars, serviceFeeSettlements>>
  BY DEF ExternalTransfer, commerceVars, SamePolicy, governanceVars, configVars,
         jobVars, feeVars
<1>2. receipt.plan \in Nat
  BY CaseAssumption DEF BooksInOrder, ScriptInv, TermsInv
<1>3. /\ stx'[Actors.client] = stx[Actors.client] - receipt.plan
      /\ stx'[Actors.provider] = stx[Actors.provider] + receipt.plan
      /\ stx'[Actors.treasury] = stx[Actors.treasury]
  BY <1>1, <1>2, Accounts, BooksType DEF StxTransfer, Transfer
<1>4. JobInv'
  BY <1>1 DEF BooksInOrder, JobInv, SameCase, SamePolicy, jobVars, Job_, IsMain
<1>5. /\ ContractPaid(Actors.client)' = ContractPaid(Actors.client)
      /\ ContractPaid(Actors.provider)' = ContractPaid(Actors.provider)
      /\ ContractPaid(Actors.treasury)' = ContractPaid(Actors.treasury)
      /\ Deposited' = Deposited /\ ToppedUp' = receipt.plan /\ ToppedUp = 0
  BY <1>1 DEF ContractPaid, Deposited, ToppedUp, jobVars, Job_, Settlement_, SameCase
<1>6. /\ gifted' = gifted /\ gifted \in Nat /\ Deposited \in Nat
      /\ InitialOf("client") \in Nat /\ InitialOf("provider") \in Nat
      /\ InitialOf("treasury") \in Nat
  BY AmountsType DEF SameCase, BooksInOrder
<1>7. /\ ContractPaid(Actors.client) \in Int /\ ContractPaid(Actors.provider) \in Int
      /\ ContractPaid(Actors.treasury) \in Int
  BY BooksType
<1>8. LedgerInv
  BY DEF BooksInOrder
<1>9. LedgerInv'
  BY <1>2, <1>3, <1>5, <1>6, <1>7, <1>8, BooksType DEF LedgerInv
<1> QED
  BY <1>4, <1>9

LEMMA GiftBooks ==
    ASSUME BooksInOrder, TreasurySpends
    PROVE  JobInv' /\ LedgerInv'
<1>1. /\ StxTransfer(1, Actors.treasury, Actors.provider)
      /\ IsMain /\ gifted = 0 /\ gifted' = 1
      /\ SamePolicy /\ UNCHANGED <<jobVars, serviceFeeSettlements, case, receipt, sent>>
  BY DEF TreasurySpends, ExternalTransfer, commerceVars, SamePolicy, governanceVars,
         configVars, jobVars, feeVars, scriptVars
<1>2. /\ stx'[Actors.client] = stx[Actors.client]
      /\ stx'[Actors.provider] = stx[Actors.provider] + 1
      /\ stx'[Actors.treasury] = stx[Actors.treasury] - 1
  BY <1>1, Accounts, BooksType DEF StxTransfer, Transfer
<1>3. Executed' = Executed
  BY <1>1, ExecutedStays
<1>4. JobInv'
  BY <1>1, <1>3 DEF BooksInOrder, JobInv, SamePolicy, jobVars, Job_, IsMain
<1>5. /\ ContractPaid(Actors.client)' = ContractPaid(Actors.client)
      /\ ContractPaid(Actors.provider)' = ContractPaid(Actors.provider)
      /\ ContractPaid(Actors.treasury)' = ContractPaid(Actors.treasury)
      /\ Deposited' = Deposited /\ ToppedUp' = ToppedUp
  BY <1>1, <1>3 DEF ContractPaid, Deposited, ToppedUp, jobVars, Job_, Settlement_
<1>6. /\ Deposited \in Nat /\ ToppedUp \in Nat
      /\ InitialOf("client") \in Nat /\ InitialOf("provider") \in Nat
      /\ InitialOf("treasury") \in Nat
  BY AmountsType DEF BooksInOrder
<1>7. /\ ContractPaid(Actors.client) \in Int /\ ContractPaid(Actors.provider) \in Int
      /\ ContractPaid(Actors.treasury) \in Int
  BY BooksType
<1>8. LedgerInv
  BY DEF BooksInOrder
<1>9. LedgerInv'
  BY <1>1, <1>2, <1>5, <1>6, <1>7, <1>8, BooksType DEF LedgerInv
<1> QED
  BY <1>4, <1>9

LEMMA CreateBooks ==
    ASSUME BooksInOrder, SameCase, "create" \notin Executed,
           Executed' = Executed \cup {"create"}, NEW expiry,
           CreateJob(Actors.client, NONE, Actors.evaluator, expiry)
    PROVE  JobInv' /\ LedgerInv'
<1>1. /\ jobCounter = 0 /\ jobCounter' = 1 /\ protocolConfigured
      /\ UNCHANGED <<stx, serviceFeeSettlements, protocolConfigured, serviceTreasury>>
      /\ "fund" \notin Executed
  BY DEF BooksInOrder, CreateJob, JobInv, moneyVars, feeVars, governanceVars, configVars
<1>2. /\ Job_'.client = Actors.client /\ Job_'.treasury = serviceTreasury
      /\ Job_'.provider = NONE /\ Job_'.budget = 0 /\ Job_'.status = STATUS_OPEN
  BY <1>1 DEF CreateJob, MapSet, Job_, TheJob
<1>3. JobInv'
  BY <1>1, <1>2 DEF BooksInOrder, JobInv, SameCase, IsMain
<1>4. /\ ContractPaid(Actors.client) = 0 /\ ContractPaid(Actors.provider) = 0
      /\ ContractPaid(Actors.treasury) = 0
  BY DEF ContractPaid
<1>5. /\ ContractPaid(Actors.client)' = 0 /\ ContractPaid(Actors.provider)' = 0
      /\ ContractPaid(Actors.treasury)' = 0
  BY <1>2, Held DEF ContractPaid, SettledStatuses
<1>6. Deposited' = Deposited /\ ToppedUp' = ToppedUp
  BY DEF Deposited, ToppedUp, SameCase
<1>7. LedgerInv'
  BY <1>1, <1>4, <1>5, <1>6 DEF BooksInOrder, LedgerInv, SameCase
<1> QED
  BY <1>3, <1>7

LEMMA FundBooks ==
    ASSUME BooksInOrder, SameCase, "fund" \notin Executed,
           Executed' = Executed \cup {"fund"}, FundJob(Actors.client, TheJob)
    PROVE  JobInv' /\ LedgerInv'
<1>1. /\ TheJob \in DOMAIN jobs /\ Job_.status = STATUS_OPEN /\ Job_.budget > 0
      /\ StxTransfer(Job_.budget, Actors.client, Escrow)
      /\ jobs' = [jobs EXCEPT ![TheJob].status = STATUS_FUNDED]
      /\ SamePolicy /\ serviceFeeSettlements' = serviceFeeSettlements
  BY DEF FundJob, Job_, SamePolicy, governanceVars, configVars, feeVars
<1>2. "create" \in Executed /\ "create" \in Executed' /\ Job_ \in Job
  BY <1>1, JobExists DEF BooksInOrder
<1>3. Job_.budget = Budget
  BY <1>1, <1>2 DEF BooksInOrder, JobInv, Job
<1>4. Job_' = [Job_ EXCEPT !.status = STATUS_FUNDED]
  BY <1>1 DEF BooksInOrder, Job_, TypeOK, JobsTypeOK
<1>5. Job_'.status = STATUS_FUNDED
  BY <1>2, <1>4 DEF Job
<1>6. JobInv'
  BY <1>1, <1>2, <1>3, <1>4, Held DEF BooksInOrder, JobInv, SameCase, SamePolicy, IsMain, Job
<1>7. /\ stx'[Actors.client] = stx[Actors.client] - Budget
      /\ stx'[Actors.provider] = stx[Actors.provider]
      /\ stx'[Actors.treasury] = stx[Actors.treasury]
  BY <1>1, <1>3, Accounts, BooksType DEF StxTransfer, Transfer
<1>8. /\ ContractPaid(Actors.client) = 0 /\ ContractPaid(Actors.provider) = 0
      /\ ContractPaid(Actors.treasury) = 0
  BY <1>1, NothingPaid DEF UnpaidStatuses
<1>9. /\ ContractPaid(Actors.client)' = 0 /\ ContractPaid(Actors.provider)' = 0
      /\ ContractPaid(Actors.treasury)' = 0
  BY <1>5, Held DEF ContractPaid, SettledStatuses
<1>10. Deposited = 0 /\ Deposited' = Budget /\ ToppedUp' = ToppedUp
  BY DEF Deposited, ToppedUp, SameCase
<1>11. /\ gifted' = gifted /\ gifted \in Nat /\ ToppedUp \in Nat /\ Budget \in Nat
       /\ InitialOf("client") \in Nat /\ InitialOf("provider") \in Nat
       /\ InitialOf("treasury") \in Nat
  BY AmountsType, Accounts DEF SameCase, BooksInOrder
<1>12. LedgerInv
  BY DEF BooksInOrder
<1>13. LedgerInv'
  BY <1>7, <1>8, <1>9, <1>10, <1>11, <1>12, BooksType DEF LedgerInv
<1> QED
  BY <1>6, <1>13

\* An operation that changes the row of the job, and nothing else the books read.
LEMMA RowBooks ==
    ASSUME BooksInOrder, SameCase, NEW o \in {"budget", "assign", "submit", "decision", "appeal"},
           Executed' = Executed \cup {o}, Executes(o)
    PROVE  JobInv' /\ LedgerInv'
<1> DEFINE by == Signer(o)
<1>1. TheJob \in DOMAIN jobs /\ UNCHANGED <<stx, serviceFeeSettlements>> /\ SamePolicy
  BY DEF Executes, SetBudget, AssignProvider, SubmitWork, RecordDecision, AppealDecision,
         moneyVars, feeVars, governanceVars, configVars, SamePolicy
<1>2. SameDeposits
  BY DEF SameDeposits
<1>3. "create" \in Executed /\ Job_ \in Job /\ jobs \in [1..jobCounter -> Job]
  BY <1>1, JobExists DEF BooksInOrder, TypeOK, JobsTypeOK
<1>4. JobInv /\ LedgerInv
  BY DEF BooksInOrder
<1>5. CASE o = "budget"
  <2>1. Job_.status = STATUS_OPEN /\ jobs' = [jobs EXCEPT ![TheJob].budget = Budget]
    BY <1>5 DEF Executes, SetBudget, Job_
  <2>2. Job_' = [Job_ EXCEPT !.budget = Budget]
    BY <1>1, <1>3, <2>1 DEF Job_
  <2>3. "fund" \notin Executed
    BY <1>3, <1>4, <2>1 DEF JobInv
  <2> QED
    BY <1>1, <1>2, <1>3, <1>4, <2>1, <2>2, <2>3, RowMoves DEF JobInv, UnpaidStatuses, Job
<1>6. CASE o = "assign"
  <2>1. Job_.status = STATUS_FUNDED /\ jobs' = [jobs EXCEPT ![TheJob].provider = Actors.provider]
    BY <1>6 DEF Executes, AssignProvider, ProviderIsOpen, Job_
  <2>2. Job_' = [Job_ EXCEPT !.provider = Actors.provider]
    BY <1>1, <1>3, <2>1 DEF Job_
  <2>3. "fund" \in Executed /\ Job_.status \in HeldStatuses
    BY <1>3, <1>4, <2>1, Held DEF JobInv
  <2> QED
    BY <1>1, <1>2, <1>3, <1>4, <2>1, <2>2, <2>3, RowMoves DEF UnpaidStatuses, Job
<1>7. CASE o = "submit"
  <2>1. /\ Job_.status = STATUS_FUNDED
        /\ jobs' = [jobs EXCEPT ![TheJob].status = STATUS_SUBMITTED,
                                ![TheJob].submittedAtBurn = burnHeight,
                                ![TheJob].reviewDeadline = burnHeight + ReviewWindow]
    BY <1>7 DEF Executes, SubmitWork, Job_
  <2>2. Job_' = [Job_ EXCEPT !.status = STATUS_SUBMITTED, !.submittedAtBurn = burnHeight,
                             !.reviewDeadline = burnHeight + ReviewWindow]
    BY <1>1, <1>3, <2>1 DEF Job_
  <2>3. /\ Job_'.status = STATUS_SUBMITTED /\ Job_'.budget = Job_.budget
        /\ Job_'.client = Job_.client /\ Job_'.treasury = Job_.treasury
        /\ Job_'.provider = Job_.provider
    BY <1>3, <2>2 DEF Job
  <2>4. /\ "fund" \in Executed /\ Job_.status \in HeldStatuses
        /\ STATUS_SUBMITTED \in HeldStatuses
    BY <1>3, <1>4, <2>1, Held DEF JobInv
  <2> QED
    BY <1>1, <1>2, <1>3, <1>4, <2>3, <2>4, RowMoves DEF JobInv, UnpaidStatuses
<1>8. CASE o \in {"decision", "appeal"}
  <2>1. PICK s \in {STATUS_DECISION_PENDING, STATUS_DISPUTED} :
            jobs' = [jobs EXCEPT ![TheJob].status = s]
    BY <1>8 DEF Executes, RecordDecision, AppealDecision
  <2>2. Job_.status \in {STATUS_SUBMITTED, STATUS_DECISION_PENDING}
    BY <1>8 DEF Executes, RecordDecision, AppealDecision, Job_
  <2>3. Job_' = [Job_ EXCEPT !.status = s]
    BY <1>1, <1>3, <2>1 DEF Job_
  <2>4. /\ "fund" \in Executed /\ Job_.status \in HeldStatuses /\ s \in HeldStatuses
    BY <1>3, <1>4, <2>1, <2>2, Held DEF JobInv
  <2> QED
    BY <1>1, <1>2, <1>3, <1>4, <2>3, <2>4, RowMoves DEF JobInv, UnpaidStatuses, Job
<1> QED
  BY <1>5, <1>6, <1>7, <1>8

LEMMA RefundBooks ==
    ASSUME BooksInOrder, SameCase, SameDeposits,
           RefundServiceFee(Actors.treasury, TheJob)
    PROVE  JobInv' /\ LedgerInv'
<1> DEFINE s == Settlement_
           owed == s.chargedFee - s.refundedFee
<1>1. /\ TheJob \in DOMAIN jobs /\ TheJob \in DOMAIN serviceFeeSettlements
      /\ StxTransfer(owed, RefundPayer(TheJob), s.recipient)
      /\ serviceFeeSettlements' = [serviceFeeSettlements EXCEPT
             ![TheJob].refundedFee = s.chargedFee]
      /\ SamePolicy /\ UNCHANGED jobVars
  BY DEF RefundServiceFee, Settlement_, SamePolicy, governanceVars, configVars, jobVars
<1>2. "create" \in Executed /\ "create" \in Executed' /\ Job_.treasury = Actors.treasury
  BY <1>1, JobExists DEF BooksInOrder, JobInv, SameDeposits
<1>3. Job_.status \in SettledStatuses /\ Job_'.status = Job_.status
  BY <1>1 DEF BooksInOrder, FeeStateReadable, Job_, jobVars
<1>4. /\ s \in Settlement /\ serviceFeeSettlements \in [DOMAIN serviceFeeSettlements -> Settlement]
  BY <1>1 DEF BooksInOrder, TypeOK, MapsTypeOK, IsMap, Settlement_
<1>5. Settlement_' = [s EXCEPT !.refundedFee = s.chargedFee]
  BY <1>1, <1>4 DEF Settlement_
<1>6. /\ Settlement_'.recipient = s.recipient /\ Settlement_'.net = s.net
      /\ Settlement_'.chargedFee = s.chargedFee /\ Settlement_'.refundedFee = s.chargedFee
      /\ s.net \in Nat /\ s.chargedFee \in Nat /\ s.refundedFee \in Nat
      /\ s.recipient \in Principals
  BY <1>4, <1>5 DEF Settlement
<1>7. owed \in Int /\ s.recipient # Actors.treasury
      /\ stx' = Transfer(stx, owed, Actors.treasury, s.recipient)
  BY <1>1, <1>2, <1>6 DEF StxTransfer, CanTransfer, RefundPayer, Job_
<1>8. \A p \in Principals :
          /\ ContractPaid(p) = (IF p = s.recipient THEN s.net + s.refundedFee ELSE 0)
                               + (IF p = Actors.treasury THEN owed ELSE 0)
          /\ ContractPaid(p)' = (IF p = s.recipient THEN s.net + s.chargedFee ELSE 0)
                                + (IF p = Actors.treasury
                                   THEN s.chargedFee - s.chargedFee ELSE 0)
  BY <1>2, <1>3, <1>6 DEF ContractPaid
<1>9. ASSUME NEW p \in {Actors.client, Actors.provider, Actors.treasury}
      PROVE  stx'[p] - stx[p] = ContractPaid(p)' - ContractPaid(p)
             /\ ContractPaid(p) \in Int /\ ContractPaid(p)' \in Int /\ stx'[p] \in Int
  <2>1. p \in Principals /\ stx[p] \in Nat /\ stx \in [Principals -> Nat]
    BY Accounts, BooksType
  <2>2. /\ p = s.recipient => ContractPaid(p) = s.net + s.refundedFee
        /\ p = s.recipient => ContractPaid(p)' = s.net + s.chargedFee
        /\ p = Actors.treasury => ContractPaid(p) = owed /\ ContractPaid(p)' = 0
        /\ p \notin {s.recipient, Actors.treasury} =>
               ContractPaid(p) = 0 /\ ContractPaid(p)' = 0
    BY <1>6, <1>7, <1>8, <2>1
  <2> HIDE DEF owed
  <2>3. /\ p = s.recipient => stx'[p] = stx[p] + owed
        /\ p = Actors.treasury => stx'[p] = stx[p] - owed
        /\ p \notin {s.recipient, Actors.treasury} => stx'[p] = stx[p]
    BY <1>6, <1>7, <2>1, Accounts DEF Transfer
  <2> USE DEF owed
  <2>4. CASE p = s.recipient
    BY <1>6, <2>1, <2>2, <2>3, <2>4
  <2>5. CASE p = Actors.treasury
    BY <1>6, <1>7, <2>1, <2>2, <2>3, <2>5
  <2>6. CASE p \notin {s.recipient, Actors.treasury}
    BY <2>1, <2>2, <2>3, <2>6
  <2> QED
    BY <2>4, <2>5, <2>6
<1> HIDE DEF s, owed
<1>10. JobInv'
  BY <1>1 DEF BooksInOrder, JobInv, SameCase, SameDeposits, SamePolicy, jobVars, Job_, IsMain
<1>11. Deposited' = Deposited /\ ToppedUp' = ToppedUp
  BY DEF Deposited, ToppedUp, SameDeposits, SameCase
<1>12. /\ gifted' = gifted /\ gifted \in Nat /\ Deposited \in Nat /\ ToppedUp \in Nat
       /\ InitialOf("client") \in Nat /\ InitialOf("provider") \in Nat
       /\ InitialOf("treasury") \in Nat
  BY AmountsType DEF SameCase, BooksInOrder
<1>13. LedgerInv
  BY DEF BooksInOrder
<1>14. LedgerInv'
  BY <1>9, <1>11, <1>12, <1>13, BooksType DEF LedgerInv
<1> QED
  BY <1>10, <1>14

LEMMA ExecutesBooks ==
    ASSUME BooksInOrder, SameCase, NEW o \in receipt.entries, o \notin Executed,
           Executed' = Executed \cup {o}, Executes(o)
    PROVE  JobInv' /\ LedgerInv'
<1>1. TypeOK /\ ScriptInv /\ JobInv /\ LedgerInv /\ EscrowMatchesStatus
  BY DEF BooksInOrder
<1>2. o \in AllOperations
  BY <1>1 DEF ScriptInv, CaseTypeOK, Receipt
<1>3. CASE o = "topUp"
  BY <1>3, TopUpBooks DEF Executes, Signer, Role
<1>4. CASE o = "create"
  BY <1>4, CreateBooks DEF Executes, Signer, Role
<1>5. CASE o = "fund"
  BY <1>5, FundBooks DEF Executes, Signer, Role
<1>6. CASE o \in {"budget", "assign", "submit", "decision", "appeal"}
  BY <1>6, RowBooks
<1>7. CASE o = "waiver"
  <2>1. /\ SameDeposits /\ UNCHANGED <<stx, jobVars, serviceFeeSettlements>>
        /\ SamePolicy
    BY <1>7 DEF Executes, WaiveServiceFee, SameDeposits, SamePolicy, jobVars,
                moneyVars, governanceVars, configVars
  <2> QED
    BY <1>1, <2>1, BooksStay DEF SamePolicy, SameCase, JobInv
<1>8. CASE o = "settle"
  <2>1. SameDeposits
    BY <1>8 DEF SameDeposits
  <2>2. \/ Permissionless(Signer(o), TheJob)
        \/ ResolveAppeal(Signer(o), TheJob, spec.final, "commitment")
    BY <1>8 DEF Executes, TestSettles, Permissionless
  <2>3. CASE Permissionless(Signer(o), TheJob)
    BY <1>1, <2>1, <2>3, PermissionlessBooks
  <2>4. CASE ResolveAppeal(Signer(o), TheJob, spec.final, "commitment")
    <3>1. /\ TheJob \in DOMAIN jobs /\ Job_.provider # NONE
          /\ Job_.status \in {STATUS_DECISION_PENDING, STATUS_DISPUTED}
          /\ spec.final \in {DECISION_APPROVE, DECISION_REJECT}
          /\ Settle(Signer(o), TheJob, spec.final)
      BY <2>4 DEF ResolveAppeal, IsValidDecision, Job_
    <3> QED
      BY <1>1, <2>1, <3>1, SettleBooks
  <2> QED
    BY <2>2, <2>3, <2>4
<1>9. CASE o = "refund"
  <2>1. SameDeposits
    BY <1>9 DEF SameDeposits
  <2> QED
    BY <1>9, <2>1, RefundBooks DEF Executes, Signer, Role
<1> QED
  BY <1>2, <1>3, <1>4, <1>5, <1>6, <1>7, <1>8, <1>9 DEF AllOperations

-----------------------------------------------------------------------------
(* How far a case has come *)

\* What any step of a run, and its end, leaves for the books.
RunMoves ==
    /\ case' = case /\ receipt'.plan = receipt.plan
    /\ Executed' = Executed
    /\ \/ receipt'.entries = receipt.entries
       \/ phase = "sign" /\ receipt'.entries = receipt.entries \cup {op}
    /\ \/ phase' = "idle"
       \/ phase # "idle" /\ step' = step
       \/ phase # "idle" /\ step' = step + 1 /\ op \in Executed

\* What is handed over is executed later, if at all.
LEMMA HandedOverIsPending ==
    ASSUME ScriptInv, phase = "send", sent' = [sent EXCEPT ![op] = Append(@, "pending")]
    PROVE  Executed' = Executed
<1>1. /\ sent \in [AllOperations -> Seq(TxStates)] /\ op \in AllOperations
      /\ sent[op] = <<>>
  BY DEF ScriptInv, SentInv, CaseTypeOK, TxStates, Receipt
<1>2. sent'[op] = <<"pending">> /\ \A o \in AllOperations \ {op} : sent'[o] = sent[o]
  BY <1>1
<1>3. <<"pending">> # <<"success">> /\ <<>> # <<"success">>
  OBVIOUS
<1> QED
  BY <1>1, <1>2, <1>3 DEF Executed

LEMMA RunEffect ==
    ASSUME TypeOK, ScriptInv, CaseRun \/ BroadcastFails \/ Crash
    PROVE  RunMoves /\ UNCHANGED <<vars, gifted>>
<1>0. UNCHANGED <<vars, gifted>> /\ CaseTypeOK /\ receipt \in Receipt
  BY DEF CaseRun, Review, Resume, Sign, Broadcast, Confirm, GivesUp, Close,
         BroadcastFails, Crash, ScriptInv, CaseTypeOK
<1>1. ASSUME UNCHANGED <<case, sent>>, OnlyTerms, Ended PROVE RunMoves
  BY <1>1, ExecutedStays DEF RunMoves, OnlyTerms, Ended
<1>2. CASE Review
  <2>1. phase = "next" /\ UNCHANGED <<case, sent>> /\ OnlyTerms /\ (Ended \/ Signs)
    BY <1>2, ReviewEffect
  <2>2. Ended => phase' = "idle"
    BY DEF Ended
  <2>3. Signs => step' = step
    BY DEF Signs
  <2>4. phase # "idle"
    BY <2>1
  <2>5. receipt'.entries = receipt.entries /\ receipt'.plan = receipt.plan
    BY <2>1 DEF OnlyTerms
  <2> QED
    BY <1>0, <2>1, <2>2, <2>3, <2>4, <2>5, ExecutedStays DEF RunMoves
<1>3. CASE Resume
  BY <1>3, ExecutedStays DEF Resume, RunMoves
<1>4. CASE Sign
  <2>1. phase = "sign" /\ UNCHANGED <<case, sent>>
    BY <1>4 DEF Sign
  <2>2. CASE SignerIsIdle(op)
    <3>1. /\ receipt' = [receipt EXCEPT !.entries = @ \cup {op}] /\ step' = step
      BY <1>4, <2>2 DEF Sign, Record
    <3> QED
      BY <1>0, <2>1, <3>1, ExecutedStays DEF RunMoves, Receipt
  <2>3. CASE ~SignerIsIdle(op)
    BY <1>4, <2>1, <2>3, ExecutedStays DEF Sign, Stop, RunMoves
  <2> QED
    BY <2>2, <2>3
<1>5. CASE Broadcast
  <2>1. /\ phase = "send" /\ step' = step /\ case' = case
        /\ receipt' = [receipt EXCEPT !.entries = @ \cup {op}]
        /\ sent' = [sent EXCEPT ![op] = Append(@, "pending")]
    BY <1>5 DEF Broadcast, Enter
  <2>2. receipt.entries \cup {op} = receipt.entries
    BY <2>1 DEF ScriptInv, SentInv
  <2> QED
    BY <1>0, <2>1, <2>2, HandedOverIsPending DEF RunMoves, Receipt
<1>6. CASE Confirm
  <2>1. phase # "idle" /\ UNCHANGED <<case, sent>> /\ Observed(op) = "success"
    BY <1>6 DEF Confirm, Accepts
  <2>2. op \in AllOperations
    BY <1>0, <1>6 DEF ScriptInv, SentInv, Confirm, Receipt
  <2>3. op \in Executed
    BY <2>1, <2>2, SuccessIsExecuted
  <2>4. CASE After(op)
    BY <1>6, <2>1, <2>3, <2>4, ExecutedStays DEF Confirm, RunMoves
  <2>5. CASE ~After(op)
    BY <1>0, <1>1, <1>6, <2>1, <2>5, PoisonEffect DEF Confirm
  <2> QED
    BY <2>4, <2>5
<1>7. CASE GivesUp \/ Crash
  BY <1>7, ExecutedStays DEF GivesUp, Crash, Stop, RunMoves
<1>8. CASE Close
  <2>1. UNCHANGED <<case, sent>>
    BY <1>8 DEF Close
  <2>2. \/ Poison
        \/ Stop /\ receipt' \in {receipt, [receipt EXCEPT !.result = "passed"]}
    BY <1>8 DEF Close, TestCloses, MainCloses
  <2>3. CASE Poison
    BY <1>0, <1>1, <2>1, <2>3, PoisonEffect
  <2>4. CASE Stop /\ receipt' \in {receipt, [receipt EXCEPT !.result = "passed"]}
    BY <1>0, <2>1, <2>4, ExecutedStays DEF Stop, RunMoves, Receipt
  <2> QED
    BY <2>2, <2>3, <2>4
<1>9. CASE BroadcastFails
  <2>1. phase = "send" /\ Stop /\ UNCHANGED <<case, receipt>>
    BY <1>9 DEF BroadcastFails
  <2>2. Executed' = Executed
    BY <1>9, <2>1, HandedOverIsPending, ExecutedStays DEF BroadcastFails
  <2>3. phase' = "idle"
    BY <2>1 DEF Stop
  <2> QED
    BY <1>0, <2>1, <2>2, <2>3 DEF RunMoves
<1> QED
  BY <1>0, <1>2, <1>3, <1>4, <1>5, <1>6, <1>7, <1>8, <1>9 DEF CaseRun

LEMMA MineEffect ==
    ASSUME ScriptInv, Mine
    PROVE  /\ UNCHANGED <<case, receipt, processVars, gifted>>
           /\ \E o \in receipt.entries :
                /\ o \in AllOperations /\ o \notin Executed
                /\ \E i \in DOMAIN sent[o] : sent[o][i] = "pending"
                /\ \/ Executes(o) /\ Executed' = Executed \cup {o}
                   \/ UNCHANGED vars /\ Executed' = Executed
<1>1. UNCHANGED <<case, receipt, processVars, gifted>>
  BY DEF Mine
<1>2. PICK o \in AllOperations : \E i \in DOMAIN sent[o] :
          /\ sent[o][i] = "pending"
          /\ \/ Executes(o) /\ Becomes(o, i, "success")
             \/ UNCHANGED vars /\ Becomes(o, i, "abort")
  BY DEF Mine
<1>3. PICK i \in DOMAIN sent[o] :
          /\ sent[o][i] = "pending"
          /\ \/ Executes(o) /\ Becomes(o, i, "success")
             \/ UNCHANGED vars /\ Becomes(o, i, "abort")
  BY <1>2
<1>4. o \in receipt.entries
  BY PendingIsRecorded
<1>5. CASE Executes(o) /\ Becomes(o, i, "success")
  <2>1. o \notin Executed /\ Executed' = Executed \cup {o}
    BY <1>3, <1>5, ExecutedGrows DEF TxStates
  <2> QED
    BY <1>1, <1>3, <1>4, <1>5, <2>1
<1>6. CASE UNCHANGED vars /\ Becomes(o, i, "abort")
  <2>1. o \notin Executed /\ Executed' = Executed
    BY <1>3, <1>6, ExecutedGrows DEF TxStates
  <2> QED
    BY <1>1, <1>3, <1>4, <1>6, <2>1
<1> QED
  BY <1>3, <1>5, <1>6

LEMMA LoseEffect ==
    ASSUME ScriptInv, Lose
    PROVE  /\ UNCHANGED <<vars, case, receipt, processVars, gifted>> /\ Executed' = Executed
           /\ \E o \in receipt.entries :
                /\ o \in AllOperations /\ o \notin Executed
                /\ \E i \in DOMAIN sent[o] : sent[o][i] = "pending"
<1>1. PICK o \in AllOperations : \E i \in DOMAIN sent[o] :
          sent[o][i] = "pending" /\ Becomes(o, i, "dropped")
  BY DEF Lose
<1>2. PICK i \in DOMAIN sent[o] : sent[o][i] = "pending" /\ Becomes(o, i, "dropped")
  BY <1>1
<1>3. o \notin Executed /\ Executed' = Executed /\ o \in receipt.entries
  BY <1>2, ExecutedGrows, PendingIsRecorded DEF TxStates
<1> QED
  BY <1>2, <1>3 DEF Lose

\* What the world does around a case beside its transactions.
Around == Configure \/ Authorise \/ Withdraw \/ StrangerActs \/ TreasurySpends
          \/ StacksBlock \/ BurnBlock \/ CalmDown

LEMMA AroundEffect ==
    ASSUME Around
    PROVE  UNCHANGED <<case, receipt, processVars, sent>> /\ Executed' = Executed
<1>1. UNCHANGED <<case, receipt, processVars, sent>>
  BY DEF Around, Configure, Authorise, Withdraw, SetAuthorised, StrangerActs,
         TreasurySpends, StacksBlock, BurnBlock, CalmDown, scriptVars
<1> QED
  BY <1>1, ExecutedStays

LEMMA StartEffect ==
    ASSUME TypeOK, ScriptInv, Start
    PROVE  /\ UNCHANGED <<vars, case, sent, gifted>> /\ Executed' = Executed
           /\ receipt'.entries = receipt.entries /\ receipt'.result = receipt.result
           /\ receipt.plan # NONE \/ ~IsMain => receipt'.plan = receipt.plan
           /\ IsMain => receipt'.plan # NONE /\ receipt.result # "passed"
           /\ phase' = "idle" \/ (phase' = "next" /\ step' = 1)
<1>1. receipt \in Receipt /\ UNCHANGED <<vars, case, sent, gifted>> /\ phase = "idle"
  BY DEF ScriptInv, CaseTypeOK, Start
<1>2. Executed' = Executed
  BY <1>1, ExecutedStays
<1>3. phase' = "idle" \/ (phase' = "next" /\ step' = 1)
  <2>1. \/ UNCHANGED processVars /\ phase = "idle"
        \/ phase' = "next" /\ step' = 1 /\ fresh' = FALSE
    BY DEF Start
  <2>2. CASE UNCHANGED processVars /\ phase = "idle"
    BY <2>2 DEF processVars
  <2>3. CASE phase' = "next" /\ step' = 1 /\ fresh' = FALSE
    BY <2>3
  <2> QED
    BY <2>1, <2>2, <2>3
<1>4. CASE IsMain
  <2>1. receipt' = [receipt EXCEPT !.plan = MainPlan, !.failed = ~MainFunds]
    BY <1>4 DEF Start, MainOpens
  <2>2. MainPlan # NONE /\ (receipt.plan # NONE => MainPlan = receipt.plan)
    BY <1>1, MainPlanType
  <2>3. receipt'.plan = MainPlan
    BY <1>1, <2>1 DEF Receipt
  <2>4. receipt'.entries = receipt.entries /\ receipt'.result = receipt.result
    BY <1>1, <2>1 DEF Receipt
  <2> QED
    BY <1>1, <1>2, <1>3, <1>4, <2>2, <2>3, <2>4 DEF Start, MainMayStart
<1>5. CASE ~IsMain
  <2>1. receipt' = receipt \/ receipt' = [receipt EXCEPT !.expiredAt = stacksHeight + ExpiryBlocks]
    BY <1>5 DEF Start, TestOpens
  <2>2. /\ receipt'.plan = receipt.plan /\ receipt'.entries = receipt.entries
        /\ receipt'.result = receipt.result
    BY <1>1, <2>1 DEF Receipt
  <2> QED
    BY <1>1, <1>2, <1>3, <1>5, <2>2
<1> QED
  BY <1>4, <1>5

LEMMA WorldCases == CaseWorld => Mine \/ Lose \/ Around
BY DEF CaseWorld, Around

LEMMA SamePolicyKeeps ==
    JobInv /\ SamePolicy => (protocolConfigured' => serviceTreasury' = Actors.treasury)
BY DEF JobInv, SamePolicy

LEMMA UnchangedVars ==
    UNCHANGED vars =>
        /\ UNCHANGED <<stx, jobVars, jobs, jobCounter, serviceFeeSettlements>>
        /\ UNCHANGED <<escrowBalances, reputationSync>> /\ SamePolicy
BY DEF vars, jobVars, feeVars, moneyVars, reputationVars, governanceVars, configVars, SamePolicy

LEMMA AroundBooks ==
    ASSUME BooksInOrder, Around
    PROVE  JobInv' /\ LedgerInv'
<1>1. TypeOK /\ ScriptInv /\ JobInv /\ LedgerInv /\ EscrowMatchesStatus
  BY DEF BooksInOrder
<1>2. UNCHANGED <<case, receipt>> /\ Executed' = Executed /\ SameDeposits
  BY AroundEffect DEF SameDeposits
<1>3. CASE Configure
  <2>1. UNCHANGED <<gifted, stx, jobVars, serviceFeeSettlements>>
    BY <1>3 DEF Configure, InitializeProtocol, moneyVars, feeVars
  <2>2. serviceTreasury' = Actors.treasury
    BY <1>3 DEF Configure, InitializeProtocol
  <2> QED
    BY <1>1, <1>2, <2>1, <2>2, BooksStay
<1>4. CASE Authorise \/ Withdraw \/ StacksBlock \/ BurnBlock \/ CalmDown
  <2>1. UNCHANGED <<gifted, stx, jobVars, serviceFeeSettlements>> /\ SamePolicy
    <3>1. CASE Authorise \/ Withdraw \/ StacksBlock \/ BurnBlock
      BY <3>1 DEF Authorise, Withdraw, SetAuthorised, StacksBlock, AdvanceStacksBlock,
                  BurnBlock, AdvanceBurnBlock, commerceVars, jobVars, feeVars,
                  governanceVars, configVars, SamePolicy
    <3>2. CASE CalmDown
      BY <3>2, UnchangedVars DEF CalmDown
    <3> QED
      BY <1>4, <3>1, <3>2
  <2> QED
    BY <1>1, <1>2, <2>1, BooksStay, SamePolicyKeeps
<1>5. CASE StrangerActs
  <2>1. gifted' = gifted /\ SameCase
    BY <1>2, <1>5 DEF StrangerActs, SameCase
  <2>2. CASE Permissionless(Stranger, TheJob)
    BY <1>1, <1>2, <2>1, <2>2, PermissionlessBooks
  <2>3. CASE RetryReputationSync(Stranger, TheJob)
    <3>1. UNCHANGED <<stx, jobVars, serviceFeeSettlements>> /\ SamePolicy
      BY <2>3 DEF RetryReputationSync, jobVars, moneyVars, feeVars, governanceVars,
                  configVars, SamePolicy
    <3> QED
      BY <1>1, <1>2, <2>1, <3>1, BooksStay, SamePolicyKeeps
  <2> QED
    BY <1>5, <2>2, <2>3 DEF StrangerActs
<1>6. CASE TreasurySpends
  BY <1>6, GiftBooks
<1> QED
  BY <1>3, <1>4, <1>5, <1>6 DEF Around

LEMMA BooksStep ==
    ASSUME BooksInOrder, [CaseNext]_allCaseVars
    PROVE  JobInv' /\ LedgerInv'
<1>1. TypeOK /\ ScriptInv /\ JobInv /\ LedgerInv
  BY DEF BooksInOrder
<1>2. ASSUME UNCHANGED <<vars, case, gifted>>, Executed' = Executed,
             "topUp" \in Executed => receipt'.plan = receipt.plan
      PROVE  JobInv' /\ LedgerInv'
  BY <1>1, <1>2, BooksStay, UnchangedVars, SamePolicyKeeps DEF SameDeposits
<1>3. CASE UNCHANGED allCaseVars
  BY <1>2, <1>3, ExecutedStays DEF allCaseVars, caseVars
<1>4. CASE Start
  <2>1. "topUp" \in Executed => receipt'.plan = receipt.plan
    BY <1>1, <1>4, StartEffect, ExecutedIsRecorded
  <2> QED
    BY <1>1, <1>2, <1>4, <2>1, StartEffect
<1>5. CASE CaseRun \/ BroadcastFails \/ Crash
  BY <1>1, <1>2, <1>5, RunEffect DEF RunMoves
<1>6. CASE Mine
  <2>1. SameCase
    BY <1>1, <1>6, MineEffect DEF SameCase
  <2>2. PICK o \in receipt.entries :
            /\ o \notin Executed
            /\ \/ Executes(o) /\ Executed' = Executed \cup {o}
               \/ UNCHANGED vars /\ Executed' = Executed
    BY <1>1, <1>6, MineEffect
  <2>3. CASE Executes(o) /\ Executed' = Executed \cup {o}
    BY <2>1, <2>2, <2>3, ExecutesBooks
  <2>4. CASE UNCHANGED vars /\ Executed' = Executed
    BY <1>2, <2>1, <2>4 DEF SameCase
  <2> QED
    BY <2>2, <2>3, <2>4
<1>7. CASE Lose
  BY <1>1, <1>2, <1>7, LoseEffect
<1>8. CASE Around
  BY <1>8, AroundBooks
<1> QED
  BY <1>3, <1>4, <1>5, <1>6, <1>7, <1>8, WorldCases DEF CaseNext

\* A run goes past an operation when the chain has executed it, and records no
\* operation that is none of the case's.
ProgressInv ==
    /\ phase # "idle" =>
           \A i \in 1..Len(Operations) : i < step => Operations[i] \in Executed
    /\ IsMain /\ receipt.plan = NONE => receipt.entries = {}
    /\ \A o \in receipt.entries : Has(Operations, o)

LEMMA ProgressStays ==
    ASSUME ProgressInv, UNCHANGED <<case, receipt, processVars>>,
           Executed \subseteq Executed'
    PROVE  ProgressInv'
<1>1. Operations' = Operations
  BY OperationsKept
<1> QED
  BY <1>1 DEF ProgressInv, processVars, IsMain, Has

LEMMA RunProgress ==
    ASSUME CaseTypeOK, SentInv, TermsInv, ProgressInv, RunMoves
    PROVE  ProgressInv'
<1>1. Operations' = Operations /\ (IsMain' <=> IsMain) /\ Executed' = Executed
  BY OperationsKept DEF RunMoves, IsMain
<1>2. ASSUME phase' # "idle", NEW i \in 1..Len(Operations), i < step'
      PROVE  Operations[i] \in Executed
  <2>1. i \in Nat /\ step \in Nat /\ phase # "idle"
    BY <1>2, OperationsType, LenProperties DEF RunMoves, CaseTypeOK
  <2>2. CASE i < step
    BY <2>1, <2>2 DEF ProgressInv
  <2>3. CASE ~(i < step)
    <3>1. step' = step + 1 /\ op \in Executed
      BY <1>2, <2>3 DEF RunMoves
    <3>2. i = step
      BY <1>2, <2>1, <2>3, <3>1
    <3> QED
      BY <3>1, <3>2 DEF op
  <2> QED
    BY <2>2, <2>3
<1>3. \A o \in receipt'.entries : Has(Operations, o)
  <2>1. phase = "sign" => Has(Operations, op)
    BY DEF SentInv, Has, op
  <2> QED
    BY <2>1 DEF RunMoves, ProgressInv
<1>4. IsMain /\ receipt'.plan = NONE => receipt'.entries = {}
  <2>1. receipt'.plan = receipt.plan
    BY DEF RunMoves
  <2>2. phase = "sign" /\ IsMain => receipt.plan # NONE
    BY DEF TermsInv
  <2> QED
    BY <2>1, <2>2 DEF RunMoves, ProgressInv
<1> QED
  BY <1>1, <1>2, <1>3, <1>4 DEF ProgressInv, Has

LEMMA ProgressStep ==
    ASSUME TypeOK, ScriptInv, ProgressInv, [CaseNext]_allCaseVars
    PROVE  ProgressInv'
<1>1. CASE UNCHANGED allCaseVars
  BY <1>1, ProgressStays, ExecutedStays DEF allCaseVars, caseVars
<1>2. CASE Start
  <2>1. receipt'.entries = receipt.entries /\ (IsMain' <=> IsMain) /\ case' = case
    BY <1>2, StartEffect DEF IsMain
  <2>2. \A o \in receipt'.entries : Has(Operations, o)'
    <3>1. CASE receipt'.plan = receipt.plan
      <4>1. Operations' = Operations
        BY <2>1, <3>1, OperationsKept
      <4> QED
        BY <2>1, <4>1 DEF ProgressInv, Has
    <3>2. CASE receipt'.plan # receipt.plan
      BY <1>2, <2>1, <3>2, StartEffect DEF ProgressInv
    <3> QED
      BY <3>1, <3>2
  <2>3. phase' # "idle" => \A i \in (1..Len(Operations))' : ~(i < step')
    <3>1. phase' # "idle" => step' = 1
      BY <1>2, StartEffect
    <3> QED
      BY <3>1
  <2>4. ~(IsMain' /\ receipt'.plan = NONE)
    BY <1>2, <2>1, StartEffect
  <2> QED
    BY <2>2, <2>3, <2>4 DEF ProgressInv
<1>3. CASE CaseRun \/ BroadcastFails \/ Crash
  BY <1>3, RunEffect, RunProgress DEF ScriptInv
<1>4. CASE Mine
  BY <1>4, MineEffect, ProgressStays
<1>5. CASE Lose
  BY <1>5, LoseEffect, ProgressStays
<1>6. CASE Around
  BY <1>6, AroundEffect, ProgressStays
<1> QED
  BY <1>1, <1>2, <1>3, <1>4, <1>5, <1>6, WorldCases DEF CaseNext

-----------------------------------------------------------------------------
(* What a receipt says that is closed as passed *)

TrueVerdict ==
    /\ \A i \in 1..Len(Operations) : Operations[i] \in Executed
    /\ Job_.status = status
    /\ spec.wait # "review" =>
        /\ Settlement_ = [gross |-> Budget, recipient |-> recipient,
                          net |-> Budget - charged, chargedFee |-> charged,
                          refundedFee |-> refunded]
        /\ ~reputationSync[TheJob].pending

PassedInv ==
    receipt.result = "passed" => phase \notin {"sign", "send"} /\ TrueVerdict

LEMMA VerdictStays ==
    ASSUME TrueVerdict, Executed \subseteq Executed', receipt'.plan = receipt.plan,
           UNCHANGED <<case, jobs, serviceFeeSettlements, reputationSync>>
    PROVE  TrueVerdict'
<1>1. Operations' = Operations
  BY OperationsKept
<1>2. /\ spec' = spec /\ charged' = charged /\ refunded' = refunded
      /\ recipient' = recipient /\ status' = status
  BY DEF spec, charged, refunded, recipient, status, IsMain
<1> QED
  BY <1>1, <1>2 DEF TrueVerdict, Job_, Settlement_

\* When every operation is executed, nothing is pending and nothing is left to
\* review: no run signs again, no transaction is mined or lost.
LEMMA AllRecorded ==
    ASSUME ScriptInv, ProgressInv, TrueVerdict
    PROVE  /\ \A o \in receipt.entries : o \in Executed
           /\ \A i \in 1..Len(Operations) : Operations[i] \in receipt.entries
<1>1. \A o \in receipt.entries : o \in Executed
  BY DEF ProgressInv, Has, TrueVerdict
<1>2. \A i \in 1..Len(Operations) : Operations[i] \in receipt.entries
  BY ExecutedIsRecorded DEF TrueVerdict
<1> QED
  BY <1>1, <1>2

\* The status a case must end in is one nobody can move the job out of.
LEMMA FinalStatus ==
    ASSUME CaseTypeOK
    PROVE  /\ spec.wait = "review" => status = STATUS_TIMEOUT_PAID
           /\ spec.wait # "review" => status \in SettledStatuses
           /\ status \in {3, 4, 6}
<1>1. StatusFor(spec.final) \in {STATUS_COMPLETED, STATUS_REJECTED}
  BY DEF StatusFor
<1> QED
  BY <1>1, Held DEF status, SettledStatuses

\* Which steps close a receipt.
LEMMA OnlyCloseSaysPassed ==
    ASSUME ScriptInv, TypeOK, CaseRun \/ BroadcastFails \/ Crash, ~Close
    PROVE  receipt'.result \in {receipt.result, "awaiting-deadline"}
<1>1. receipt \in Receipt
  BY DEF ScriptInv, CaseTypeOK
<1>2. ASSUME Poison PROVE receipt'.result = receipt.result
  BY <1>1, <1>2 DEF Poison, Receipt
<1>3. ASSUME NEW o, TestSigns(o) PROVE receipt'.result = receipt.result
  <2>1. Poison \/ receipt' = receipt
    BY <1>3 DEF TestSigns
  <2> QED
    BY <1>2, <2>1
<1>4. ASSUME TestAwaits PROVE receipt'.result \in {receipt.result, "awaiting-deadline"}
  <2>1. \/ receipt' = receipt
        \/ receipt' = [receipt EXCEPT !.result = "awaiting-deadline"]
        \/ TestSigns("settle")
    BY <1>4 DEF TestAwaits
  <2> QED
    BY <1>1, <1>3, <2>1 DEF Receipt
<1>5. ASSUME NEW o, MainSigns(o) PROVE receipt'.result = receipt.result
  <2>1. Poison \/ receipt' = MainSaves(o)
    BY <1>5 DEF MainSigns
  <2>2. \/ MainSaves(o) = [receipt EXCEPT !.expiredAt = MainTerms]
        \/ MainSaves(o) = [receipt EXCEPT !.snapshot = MainSnapshot]
        \/ MainSaves(o) = receipt
    BY DEF MainSaves
  <2> QED
    BY <1>1, <1>2, <2>1, <2>2 DEF Receipt
<1>6. CASE Review
  BY <1>3, <1>4, <1>5, <1>6 DEF Review
<1>7. CASE Sign
  BY <1>1, <1>7 DEF Sign, Record, Receipt
<1>8. CASE Broadcast
  BY <1>1, <1>8 DEF Broadcast, Receipt
<1>9. CASE Confirm
  <2>1. Poison \/ receipt' = receipt
    BY <1>9 DEF Confirm
  <2> QED
    BY <1>2, <2>1
<1>10. CASE Resume \/ GivesUp \/ BroadcastFails \/ Crash
  BY <1>10 DEF Resume, GivesUp, BroadcastFails, Crash
<1> QED
  BY <1>6, <1>7, <1>8, <1>9, <1>10 DEF CaseRun

LEMMA ClosesOnTheTruth ==
    ASSUME ScriptInv, TypeOK, ProgressInv, Close, receipt.result # "passed",
           receipt'.result = "passed"
    PROVE  TrueVerdict
<1>1. receipt \in Receipt /\ phase = "next" /\ Done
  BY DEF ScriptInv, CaseTypeOK, Close
<1>2. \A i \in 1..Len(Operations) : Operations[i] \in Executed
  <2>1. step > Len(Operations) /\ Len(Operations) \in Nat /\ step \in Nat
    BY <1>1, OperationsType, LenProperties DEF Done, ScriptInv, CaseTypeOK
  <2> QED
    BY <1>1, <2>1 DEF ProgressInv
<1>3. ~Poison
  BY <1>1 DEF Poison, Receipt
<1>4. CASE IsMain
  <2>1. MainFinalChecks
    BY <1>3, <1>4 DEF Close, MainCloses
  <2>2. spec = MainScenario
    BY <1>4 DEF spec
  <2>3. /\ spec.wait = "none" /\ spec.waiver = FALSE /\ spec.refund = FALSE
        /\ spec.final = DECISION_APPROVE
    BY <2>2 DEF MainScenario, SCENARIOS, Immediate, DECISION_APPROVE
  <2>4. /\ refunded = 0 /\ recipient = Actors.provider /\ status = STATUS_COMPLETED
    BY <2>3 DEF refunded, recipient, status, StatusFor, DECISION_APPROVE, DECISION_REJECT
  <2> QED
    BY <1>2, <2>1, <2>4 DEF TrueVerdict, MainFinalChecks, MainReputation
<1>5. CASE ~IsMain
  <2>1. TestStatusChecks /\ TestLedger /\ TestVerdict
    BY <1>1, <1>3, <1>5 DEF Close, TestCloses
  <2> QED
    BY <1>2, <2>1 DEF TrueVerdict, TestStatusChecks, TestLedger, TestVerdict
<1> QED
  BY <1>4, <1>5

LEMMA AroundKeepsVerdict ==
    ASSUME ScriptInv, TrueVerdict, Around
    PROVE  TrueVerdict'
<1>1. UNCHANGED <<case, receipt>> /\ Executed' = Executed
  BY AroundEffect
<1>2. CASE Configure \/ Authorise \/ Withdraw \/ TreasurySpends \/ StacksBlock \/ BurnBlock
  <2>1. UNCHANGED <<jobs, serviceFeeSettlements, reputationSync>>
    BY <1>2 DEF Configure, InitializeProtocol, Authorise, Withdraw, SetAuthorised,
                TreasurySpends, ExternalTransfer, StacksBlock, AdvanceStacksBlock,
                BurnBlock, AdvanceBurnBlock, commerceVars, jobVars, feeVars, reputationVars
  <2> QED
    BY <1>1, <2>1, VerdictStays
<1>3. CASE CalmDown
  BY <1>1, <1>3, UnchangedVars, VerdictStays DEF CalmDown
<1>4. CASE StrangerActs
  <2>1. Job_.status \in {3, 4, 6}
    BY FinalStatus DEF TrueVerdict, ScriptInv
  <2>2. ~Permissionless(Stranger, TheJob)
    BY <2>1, Held DEF Permissionless, FinalizeDecision, SettleAppealTimeout,
                      SettleReviewTimeout, ExpireJob, Job_
  <2>3. RetryReputationSync(Stranger, TheJob)
    BY <1>4, <2>2 DEF StrangerActs
  <2>4. Job_.status \in SettledStatuses /\ reputationSync[TheJob].pending
    BY <2>3 DEF RetryReputationSync, SettledStatuses, Job_
  <2>5. spec.wait # "review"
    BY <2>4, FinalStatus, Held DEF TrueVerdict, SettledStatuses, ScriptInv
  <2> QED
    BY <2>4, <2>5 DEF TrueVerdict
<1> QED
  BY <1>2, <1>3, <1>4 DEF Around

LEMMA PassedStep ==
    ASSUME TypeOK, ScriptInv, ProgressInv, PassedInv, [CaseNext]_allCaseVars
    PROVE  PassedInv'
<1>1. CASE UNCHANGED allCaseVars
  BY <1>1, VerdictStays, UnchangedVars, ExecutedStays
  DEF allCaseVars, caseVars, processVars, PassedInv
<1>2. CASE Start
  <2>1. receipt'.result = receipt.result /\ phase' \notin {"sign", "send"}
        /\ UNCHANGED <<case, vars>> /\ Executed' = Executed
    BY <1>2, StartEffect
  <2>2. receipt.result = "passed" => receipt'.plan = receipt.plan
    BY <1>2, StartEffect
  <2> QED
    BY <2>1, <2>2, VerdictStays, UnchangedVars DEF PassedInv
<1>3. CASE CaseRun \/ BroadcastFails \/ Crash
  <2>1. /\ UNCHANGED vars /\ case' = case /\ receipt'.plan = receipt.plan
        /\ Executed' = Executed
    BY <1>3, RunEffect DEF RunMoves
  <2>2. TrueVerdict => TrueVerdict'
    BY <2>1, VerdictStays, UnchangedVars
  <2>3. CASE receipt.result = "passed"
    <3>1. TrueVerdict /\ phase \notin {"sign", "send"}
      BY <2>3 DEF PassedInv
    <3>2. ~Review
      <4>1. ASSUME Review PROVE step \in 1..Len(Operations) /\ op \notin receipt.entries
        BY <4>1, ReviewEffect
      <4> QED
        BY <3>1, <4>1, AllRecorded DEF op
    <3>3. ~Sign /\ ~Broadcast /\ ~BroadcastFails
      BY <3>1 DEF Sign, Broadcast, BroadcastFails
    <3>4. CASE Resume
      BY <2>2, <3>1, <3>4 DEF Resume, PassedInv
    <3>5. CASE Confirm
      <4>1. phase' = "idle" \/ phase' = "next"
        BY <3>5 DEF Confirm, Poison, Stop
      <4> QED
        BY <2>2, <3>1, <4>1 DEF PassedInv
    <3>6. CASE GivesUp \/ Close \/ Crash
      <4>1. phase' = "idle"
        BY <3>6 DEF GivesUp, Crash, Close, MainCloses, TestCloses, Poison, Stop
      <4> QED
        BY <2>2, <3>1, <4>1 DEF PassedInv
    <3> QED
      BY <1>3, <3>2, <3>3, <3>4, <3>5, <3>6 DEF CaseRun
  <2>4. CASE receipt.result # "passed"
    <3>1. CASE ~Close
      BY <1>3, <2>4, <3>1, OnlyCloseSaysPassed DEF PassedInv
    <3>2. CASE Close
      <4>1. phase' = "idle"
        BY <3>2 DEF Close, MainCloses, TestCloses, Poison, Stop
      <4>2. receipt'.result = "passed" => TrueVerdict
        BY <2>4, <3>2, ClosesOnTheTruth
      <4> QED
        BY <2>2, <4>1, <4>2 DEF PassedInv
    <3> QED
      BY <3>1, <3>2
  <2> QED
    BY <2>3, <2>4
<1>4. CASE Mine \/ Lose
  <2>1. receipt' = receipt
    BY <1>4, MineEffect, LoseEffect
  <2>2. PICK o \in receipt.entries : o \notin Executed
    BY <1>4, MineEffect, LoseEffect
  <2>3. ~TrueVerdict
    BY <2>2, AllRecorded
  <2> QED
    BY <2>1, <2>3 DEF PassedInv
<1>5. CASE Around
  <2>1. UNCHANGED <<receipt, phase>>
    BY <1>5, AroundEffect DEF processVars
  <2> QED
    BY <1>5, <2>1, AroundKeepsVerdict DEF PassedInv
<1> QED
  BY <1>1, <1>2, <1>3, <1>4, <1>5, WorldCases DEF CaseNext

LEMMA CaseInvInit == CaseInit => JobInv /\ LedgerInv /\ ProgressInv /\ PassedInv
<1> SUFFICES ASSUME CaseInit PROVE JobInv /\ LedgerInv /\ ProgressInv /\ PassedInv
  OBVIOUS
<1>1. Executed = {}
  <2>1. <<>> # <<"success">>
    OBVIOUS
  <2> QED
    BY <2>1 DEF CaseInit, Executed
<1>2. JobInv
  BY <1>1 DEF CaseInit, Init, JobInv
<1>3. LedgerInv
  <2>1. /\ ContractPaid(Actors.client) = 0 /\ ContractPaid(Actors.provider) = 0
        /\ ContractPaid(Actors.treasury) = 0 /\ Deposited = 0 /\ ToppedUp = 0
    BY <1>1 DEF ContractPaid, Deposited, ToppedUp
  <2>2. stx = InitialSTX /\ gifted = 0
    BY DEF CaseInit, Init
  <2>3. /\ InitialSTX[Actors.client] \in Nat /\ InitialSTX[Actors.provider] \in Nat
        /\ InitialSTX[Actors.treasury] \in Nat
    BY Accounts, LedgerAssumption
  <2> QED
    BY <2>1, <2>2, <2>3 DEF LedgerInv, InitialOf
<1>4. ProgressInv /\ PassedInv
  BY DEF CaseInit, NoReceipt, ProgressInv, PassedInv
<1> QED
  BY <1>2, <1>3, <1>4

LEMMA CaseInvariants == CaseSpec => [](BooksInOrder /\ ProgressInv /\ PassedInv)
<1>1. CaseSpec => [](TypeOK /\ ScriptInv) /\ []EscrowMatchesStatus /\ []FeeStateReadable
  BY ScriptInvHolds, ScriptsUseTheContract, EscrowAlwaysMatchesStatus,
     FeeStateStaysReadable
<1>2. /\ TypeOK /\ ScriptInv /\ EscrowMatchesStatus /\ FeeStateReadable
      /\ JobInv /\ LedgerInv /\ ProgressInv /\ PassedInv
      /\ [CaseNext]_allCaseVars
      => (JobInv /\ LedgerInv /\ ProgressInv /\ PassedInv)'
  BY BooksStep, ProgressStep, PassedStep DEF BooksInOrder
<1>3. /\ TypeOK /\ ScriptInv /\ EscrowMatchesStatus /\ FeeStateReadable
      /\ JobInv /\ LedgerInv /\ ProgressInv /\ PassedInv
      => BooksInOrder /\ ProgressInv /\ PassedInv
  BY DEF BooksInOrder
<1> QED
  BY <1>1, <1>2, <1>3, CaseInvInit, PTL DEF CaseSpec

\* A case whose operations are all executed has hired, funded and topped up.
LEMMA AllExecuted ==
    ASSUME TypeOK, ScriptInv, ProgressInv, TrueVerdict
    PROVE  /\ \A i \in DOMAIN Operations : sent[Operations[i]] = <<"success">>
           /\ "create" \in Executed /\ Deposited = Budget
           /\ ToppedUp = IF IsMain THEN receipt.plan ELSE 0
<1>1. \A o : Has(Operations, o) => o \in Executed
  BY DEF Has, TrueVerdict
<1>2. \A i \in DOMAIN Operations : sent[Operations[i]] = <<"success">>
  <2>1. DOMAIN Operations = 1..Len(Operations)
    BY OperationsType, LenProperties
  <2> QED
    BY <2>1 DEF TrueVerdict, Executed
<1>3. "create" \in Executed /\ "fund" \in Executed
  BY <1>1, EveryCaseHires
<1>4. "create" \in receipt.entries /\ (\A o \in Executed : o \in receipt.entries)
  BY <1>3, ExecutedIsRecorded
<1>5. CASE IsMain
  <2>1. receipt.plan # NONE
    BY <1>4, <1>5 DEF ProgressInv
  <2>2. CASE receipt.plan = 0
    <3>1. "topUp" \notin Executed
      BY <1>4, <2>2 DEF ScriptInv, TermsInv
    <3> QED
      BY <1>2, <1>3, <1>5, <2>2, <3>1 DEF Deposited, ToppedUp
  <2>3. CASE receipt.plan # 0
    BY <1>1, <1>2, <1>3, <1>5, <2>1, <2>3, EveryCaseHires DEF Deposited, ToppedUp
  <2> QED
    BY <2>2, <2>3
<1>6. CASE ~IsMain
  <2>1. "topUp" \notin Executed
    BY <1>4, <1>6, TopUpIsPlanned DEF ProgressInv, Has, ScriptInv
  <2> QED
    BY <1>2, <1>3, <1>6, <2>1 DEF Deposited, ToppedUp
<1> QED
  BY <1>5, <1>6

\* The books of a case that has ended as its receipt says.
LEMMA SettledBooks ==
    ASSUME BooksInOrder, ReputationFollowsOutcome, TrueVerdict,
           TheJob \in DOMAIN jobs, spec.wait # "review"
    PROVE  LET due == Budget - charged + refunded
               key == [source |-> Escrow, jobId |-> TheJob]
           IN  /\ ContractPaid(Actors.client) =
                      IF recipient = Actors.client THEN due ELSE 0
               /\ ContractPaid(Actors.provider) =
                      IF recipient = Actors.provider THEN due ELSE 0
               /\ ContractPaid(Actors.treasury) = charged - refunded
               /\ key \in DOMAIN jobOutcomes
               /\ jobOutcomes[key].completed = (spec.final = DECISION_APPROVE)
<1>1. /\ Job_.status = status /\ status \in SettledStatuses
      /\ status = StatusFor(spec.final) /\ ~reputationSync[TheJob].pending
  BY FinalStatus DEF TrueVerdict, BooksInOrder, ScriptInv, status
<1>2. /\ recipient \in {Actors.client, Actors.provider} /\ recipient # Actors.treasury
      /\ Budget \in Int /\ charged \in Int /\ refunded \in Int
  <2>1. Fee(Budget) \in Int
    BY Accounts, FeeFits
  <2> QED
    BY <2>1, Accounts DEF recipient, charged, refunded
<1>3. "create" \in Executed
  BY JobExists DEF BooksInOrder
<1>4. /\ Settlement_.recipient = recipient
      /\ Settlement_.net + Settlement_.refundedFee = Budget - charged + refunded
      /\ Settlement_.chargedFee - Settlement_.refundedFee = charged - refunded
  BY DEF TrueVerdict
<1>5. ASSUME NEW p
      PROVE  ContractPaid(p) =
                 (IF p = recipient THEN Budget - charged + refunded ELSE 0)
                 + (IF p = Actors.treasury THEN charged - refunded ELSE 0)
  BY <1>1, <1>3, <1>4 DEF ContractPaid
<1>6. /\ ContractPaid(Actors.client) =
             IF recipient = Actors.client THEN Budget - charged + refunded ELSE 0
      /\ ContractPaid(Actors.provider) =
             IF recipient = Actors.provider THEN Budget - charged + refunded ELSE 0
      /\ ContractPaid(Actors.treasury) = charged - refunded
  BY <1>2, <1>5, Accounts
<1> DEFINE key == [source |-> Escrow, jobId |-> TheJob]
<1>7. key \in DOMAIN jobOutcomes
  BY <1>1 DEF ReputationFollowsOutcome, Job_
<1>8. jobOutcomes[key].completed = (status = STATUS_COMPLETED)
  <2>1. jobOutcomes[key] = [agent |-> Job_.provider,
                            completed |-> Job_.status = STATUS_COMPLETED,
                            disputed |-> Job_.status = STATUS_REJECTED]
    BY <1>7 DEF ReputationFollowsOutcome, Job_
  <2>2. jobOutcomes[key].completed = (Job_.status = STATUS_COMPLETED)
    BY <2>1
  <2> QED
    BY <1>1, <2>2
<1>9. status = STATUS_COMPLETED <=> spec.final = DECISION_APPROVE
  BY <1>1, Held DEF StatusFor
<1>10. jobOutcomes[key].completed = (spec.final = DECISION_APPROVE)
  BY <1>8, <1>9
<1> QED
  BY <1>6, <1>7, <1>10

LEMMA TimeoutBooks ==
    ASSUME BooksInOrder, ReputationFollowsOutcome, TrueVerdict,
           TheJob \in DOMAIN jobs, spec.wait = "review"
    PROVE  /\ ~IsMain /\ gifted = 0
           /\ ContractPaid(Actors.provider) = Budget
           /\ ContractPaid(Actors.treasury) = 0
           /\ [source |-> Escrow, jobId |-> TheJob] \notin DOMAIN jobOutcomes
<1>1. Job_.status = STATUS_TIMEOUT_PAID
  BY FinalStatus DEF TrueVerdict, BooksInOrder, ScriptInv
<1>2. Job_.status \notin SettledStatuses /\ Job_.status # STATUS_EXPIRED
  BY <1>1, Held DEF SettledStatuses
<1>3. ~IsMain
  <2>1. IsMain => spec.wait = "none"
    BY DEF spec, MainScenario, SCENARIOS, Immediate
  <2> QED
    BY <2>1
<1>4. gifted = 0
  BY <1>3 DEF BooksInOrder, JobInv
<1>5. "create" \in Executed
  BY JobExists DEF BooksInOrder
<1>6. /\ ContractPaid(Actors.provider) = Budget
      /\ ContractPaid(Actors.treasury) = 0
  BY <1>1, <1>2, <1>5, Accounts DEF ContractPaid
<1>7. [source |-> Escrow, jobId |-> TheJob] \notin DOMAIN jobOutcomes
  BY <1>2 DEF ReputationFollowsOutcome, Job_
<1> QED
  BY <1>3, <1>4, <1>6, <1>7

LEMMA PassedIsSettled ==
    ASSUME BooksInOrder, ProgressInv, PassedInv, ReputationFollowsOutcome
    PROVE  FeePassedMeansSettled
<1> DEFINE due == Budget - charged + refunded
           topUp == IF IsMain THEN receipt.plan ELSE 0
           earned(role) == IF recipient = Actors[role] THEN due ELSE 0
           key == [source |-> Escrow, jobId |-> TheJob]
<1> SUFFICES ASSUME receipt.result = "passed" PROVE FeePassedMeansSettled
  BY DEF FeePassedMeansSettled
<1>1. TrueVerdict /\ LedgerInv /\ TypeOK /\ ScriptInv
  BY DEF PassedInv, BooksInOrder
<1>2. /\ \A i \in DOMAIN Operations : sent[Operations[i]] = <<"success">>
      /\ "create" \in Executed /\ Deposited = Budget /\ ToppedUp = topUp
  BY <1>1, AllExecuted
<1>3. TheJob \in DOMAIN jobs
  BY <1>2, JobExists DEF BooksInOrder
<1>4. Job_.status = status /\ TheJob \notin DOMAIN escrowBalances
  <2>1. status \notin HeldStatuses
    BY <1>1, FinalStatus, Held DEF ScriptInv
  <2> QED
    BY <1>1, <1>3, <2>1 DEF TrueVerdict, BooksInOrder, EscrowMatchesStatus, Job_
<1>5. /\ stx[Actors.client] =
             InitialOf("client") - Budget - topUp + ContractPaid(Actors.client)
      /\ stx[Actors.provider] =
             InitialOf("provider") + topUp + gifted + ContractPaid(Actors.provider)
      /\ stx[Actors.treasury] =
             InitialOf("treasury") - gifted + ContractPaid(Actors.treasury)
  BY <1>1, <1>2 DEF LedgerInv
<1>6. ASSUME spec.wait # "review"
      PROVE  /\ stx[Actors.client] =
                    InitialOf("client") - Budget - topUp + earned("client")
             /\ stx[Actors.provider] =
                    InitialOf("provider") + topUp + gifted + earned("provider")
             /\ stx[Actors.treasury] =
                    InitialOf("treasury") + charged - refunded - gifted
             /\ key \in DOMAIN jobOutcomes
             /\ jobOutcomes[key].completed = (spec.final = DECISION_APPROVE)
  <2>1. /\ ContractPaid(Actors.client) = earned("client")
        /\ ContractPaid(Actors.provider) = earned("provider")
        /\ ContractPaid(Actors.treasury) = charged - refunded
        /\ key \in DOMAIN jobOutcomes
        /\ jobOutcomes[key].completed = (spec.final = DECISION_APPROVE)
    BY <1>1, <1>3, <1>6, SettledBooks
  <2>2. /\ charged \in Int /\ refunded \in Int /\ gifted \in Int
        /\ InitialOf("treasury") \in Int
    <3>1. Fee(Budget) \in Int
      BY Accounts, FeeFits
    <3>2. InitialSTX[Actors.treasury] \in Nat
      BY Accounts, LedgerAssumption
    <3> QED
      BY <1>1, <3>1, <3>2 DEF charged, refunded, InitialOf, ScriptInv, CaseTypeOK
  <2> QED
    BY <1>5, <2>1, <2>2
<1>7. ASSUME spec.wait = "review"
      PROVE  /\ stx[Actors.provider] = InitialOf("provider") + Budget
             /\ stx[Actors.treasury] = InitialOf("treasury")
             /\ key \notin DOMAIN jobOutcomes
  <2>1. /\ topUp = 0 /\ gifted = 0 /\ ContractPaid(Actors.provider) = Budget
        /\ ContractPaid(Actors.treasury) = 0 /\ key \notin DOMAIN jobOutcomes
    BY <1>1, <1>3, <1>7, TimeoutBooks
  <2>2. InitialOf("provider") \in Int /\ InitialOf("treasury") \in Int
    BY Accounts, LedgerAssumption DEF InitialOf
  <2> QED
    BY <1>5, <2>1, <2>2, Accounts
<1> QED
  BY <1>2, <1>4, <1>6, <1>7 DEF FeePassedMeansSettled

\* Whatever was interrupted, lost, overtaken or withdrawn on the way, a receipt
\* that a script closed as passed is about a case that took place as its scenario
\* says: every operation was executed once, client, provider and treasury hold to
\* the last micro-STX what it owes them, and the registry has its outcome.
THEOREM PassedReceiptsAreTrue == CaseSpec => []FeePassedMeansSettled
<1>1. CaseSpec => []ReputationFollowsOutcome
  BY ScriptsUseTheContract, ReputationStaysInStep
<1> QED
  BY <1>1, CaseInvariants, PassedIsSettled, PTL

=============================================================================
