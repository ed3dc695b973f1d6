--------------------------- MODULE MCApplication ---------------------------
(***************************************************************************)
(* The deployed application, one part per behaviour:                       *)
(* - "journal": the deployment of its contracts (TxJournal);               *)
(* - "escrow": two jobs of the sBTC escrow, as MCSbtcCommerce plays them,  *)
(*   each in whatever token is the default when it is funded;              *)
(* - "evaluation": an evaluable job, from its creation or from the account *)
(*   of its provider, one tab and the two routes (Evaluation).             *)
(* The variables of the other parts keep their first values.               *)
(***************************************************************************)
EXTENDS TxJournal, Evaluation, MCSbtcCommerce

VARIABLE part

allVars == <<part, journalVars, vars, evaluationVars>>

-----------------------------------------------------------------------------
(* The journal *)

OfJournal(A) ==
    /\ part = "journal" /\ A
    /\ UNCHANGED <<part, vars, evaluationVars>>

JournalPart ==
    \/ OfJournal(Begin)
    \/ OfJournal(Stop)
    \/ OfJournal(Crash)
    \/ OfJournal(Recover)
    \/ OfJournal(Plan)
    \/ OfJournal(Reconcile)
    \/ OfJournal(Postflight)
    \/ OfJournal(TipReached)
    \/ OfJournal(Revalidate)
    \/ OfJournal(Pass)
    \/ OfJournal(Pick)
    \/ OfJournal(Sign)
    \/ OfJournal(RecordAttempt)
    \/ OfJournal(Broadcast)
    \/ OfJournal(Answered)
    \/ OfJournal(SeePending)
    \/ OfJournal(Confirm)
    \/ OfJournal(Mine)
    \/ OfJournal(MineOther)
    \/ OfJournal(Fork)
    \/ OfJournal(Drop)
    \/ OfJournal(IndexFollows)

-----------------------------------------------------------------------------
(* The escrow *)

OfEscrow(A) ==
    part = "escrow" /\ A /\ UNCHANGED <<part, journalVars, evaluationVars>>

EscrowPart ==
    \/ OfEscrow(Setup)
    \/ \E token \in Tokens : OfEscrow(SetPaymentToken(Deployer, token))
    \/ OfEscrow(HiringByCast)
    \/ \E sender \in {Client, Provider, Evaluator, Authority} :
           OfEscrow(Judging(sender))
    \/ \E j \in JobIds, token \in Tokens :
           OfEscrow(Permissionless(Client, j, token))
    \/ \E j \in JobIds, token \in Tokens :
           OfEscrow(RefundServiceFee(Treasury, j, token))
    \/ OfEscrow(AdvanceBlocks)

-----------------------------------------------------------------------------
(* The evaluable job *)

\* An address can be written in two ways.
Addresses == [a |-> "a", A |-> "a", b |-> "b"]

\* The job is yet to be created, or open with its provider.
Start(status, client, provider, criteria) ==
    [status |-> status, client |-> client, provider |-> provider,
     criteria |-> criteria, deliverable |-> NOTHING]
OpenJob ==
    Start("open", Client, Provider, [client |-> Client, readable |-> TRUE])

FirstJobs == {Start("none", NOTHING, NOTHING, NOTHING), OpenJob}

FirstEvaluation ==
    /\ EvaluationInit
    /\ address = (IF job = OpenJob THEN Provider ELSE Client)
    /\ \A uri \in Uris : files[uri] = 1

OfEvaluation(A) ==
    part = "evaluation" /\ A /\ UNCHANGED <<part, journalVars, vars>>

\* After the last event, or the submission, nothing that is asked of the wallet
\* changes the job.
Asks(A) == events < MaxEvents /\ job.status \in {"none", "open"} /\ OfEvaluation(A)

EvaluationPart ==
    \/ OfEvaluation(Elsewhere)
    \/ OfEvaluation(Decide)
    \/ \E content \in Contents \cup {NOTHING} : OfEvaluation(Publish("a", content))
    \/ \E account \in Accounts : OfEvaluation(Connect(account))
    \/ \E account \in Accounts : OfEvaluation(Signed(account))
    \/ Asks(Refused)
    \/ OfEvaluation(LoadJobs)
    \/ OfEvaluation(Leave)
    \/ Asks(handleCreateJob)
    \/ Asks(OpenForm)
    \/ Asks(Cancel)
    \/ \E text \in {"A", "b"} : Asks(Type(text))
    \/ Asks(Inspect)
    \/ \E uri \in Uris : \E read \in inspectEvidence(uri) :
           Asks(FormReads(read))
    \/ Asks(Inspected)
    \/ Asks(Submit)
    \/ \E text \in {"a", "b"} : OfEvaluation(EditPanel(text))
    \/ OfEvaluation(requestEvaluation)
    \/ \E uri \in Uris : \E read \in inspectEvidence(uri) :
           OfEvaluation(PanelReads(read))
    \/ OfEvaluation(Post)
    \/ \E reached \in BOOLEAN, outcome \in {"queued", "manual", "error"} :
           OfEvaluation(relayEvaluation(reached, outcome))

-----------------------------------------------------------------------------
ApplicationInit ==
    /\ part \in {"journal", "escrow", "evaluation"}
    /\ JournalInit /\ Init
    /\ FirstEvaluation /\ (part # "evaluation" => job = OpenJob)

ApplicationSpec ==
    /\ ApplicationInit
    /\ [][JournalPart \/ EscrowPart \/ EvaluationPart]_allVars
=============================================================================
