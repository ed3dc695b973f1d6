----------------------------- MODULE Evaluation -----------------------------
(***************************************************************************)
(* Evaluable jobs: a client writes acceptance criteria into the job        *)
(* (app/jobs/page.tsx, services/evaluable-jobs.ts), the provider commits   *)
(* to a published file (CommittedSubmitForm of EvaluableJob.tsx), and      *)
(* anybody asks the Evaluator to decide (RequestEvaluationPanel), over two *)
(* routes of the application: api/evidence/inspect, which reads the file,  *)
(* and api/evaluations, which forwards the request.                        *)
(*                                                                         *)
(* One job and one tab.  The two hashes are injective: a criteria hash is  *)
(* the client it binds and whether its text can be rebuilt from the chain, *)
(* an evidence hash the parties and the file it binds; network, asset,     *)
(* contract, job number and evaluator are the same throughout, and the     *)
(* review deadline is fixed by the submission.  Funding, consents and the  *)
(* fee are in JobsPage.                                                    *)
(***************************************************************************)
EXTENDS Nothing, Integers

CONSTANTS
    Accounts,      \* of the people; the evaluator is nobody's
    Typed,         \* what may be written into a field for an address
    Normal,        \* Typed -> the address as new URL prints it
    Contents,      \* of a file, with its size and its type
    Jobs,          \* the job that is there already, or NoJob
    MaxEvents      \* bound: signatures, calls by others, edits, changes of account

Uris == {Normal[text] : text \in Typed}
OrNothing(set) == set \cup {NOTHING}

\* Evidence is an address and what is published at it; the job's people are accounts.
Evidences == [uri : Uris, content : OrNothing(Contents)]
Commitments == [client : OrNothing(Accounts), provider : OrNothing(Accounts),
                evidence : Evidences]
AllCriteria == [client : OrNothing(Accounts), readable : BOOLEAN]
JobRecords == [status : {"none", "open", "submitted", "decided"},
               client : OrNothing(Accounts), provider : OrNothing(Accounts),
               criteria : OrNothing(AllCriteria), deliverable : OrNothing(Commitments)]

\* An address in its normal form may be written as well.  Work that is committed to
\* names the client of its job.
ASSUME NormalAssumption == Normal \in [Typed -> Typed]
ASSUME JobsAssumption ==
    \A j \in Jobs : /\ j \in JobRecords
                    /\ j.deliverable # NOTHING => j.deliverable.client = j.client

VARIABLES
    job,           \* the job on the chain
    files,         \* what is published at an address, or NOTHING
    received,      \* the requests that reached the Evaluator
    events,
    address,       \* the account the tab is connected to
    card,          \* the job as the tab read it, or NOTHING
    form,          \* CommittedSubmitForm, or NOTHING
    panel,         \* RequestEvaluationPanel
    popup,         \* the request the wallet shows, or NOTHING
    remembered     \* the evidence in the browser's storage

world == <<job, files, received>>
evaluationVars == <<world, events, address, card, form, panel, popup, remembered>>

Event == events < MaxEvents /\ events' = events + 1

-----------------------------------------------------------------------------
(* Commitments *)

NoJob == [status |-> "none", client |-> NOTHING, provider |-> NOTHING,
          criteria |-> NOTHING, deliverable |-> NOTHING]

\* buildEvaluableDescription puts the criteria in clear on the chain; the SDK keeps
\* them elsewhere.
Criteria(client, readable) == [client |-> client, readable |-> readable]

\* buildCommittedSubmission rebuilds the criteria and compares their hash.
parseEvaluableDescription(j) == j.criteria # NOTHING /\ j.criteria.readable
IsRebuilt(j, provider) ==
    /\ parseEvaluableDescription(j)
    /\ j.criteria = Criteria(j.client, TRUE)
    /\ provider # j.client

Commitment(j, provider, evidence) ==
    [client |-> j.client, provider |-> provider, evidence |-> evidence]

-----------------------------------------------------------------------------
(* Others *)

\* Others create the job with the SDK, fund and assign it, or submit for the
\* provider, with a commitment or with any other bytes.
CreateElsewhere(client) ==
    /\ job.status = "none"
    /\ job' = [NoJob EXCEPT !.status = "open", !.client = client,
                            !.criteria = Criteria(client, FALSE)]
Assign(provider) ==
    /\ job.status = "open" /\ provider \notin {job.client, job.provider}
    /\ job' = [job EXCEPT !.provider = provider]
SubmitElsewhere(deliverable) ==
    /\ job.status = "open" /\ job.provider # NOTHING
    /\ job' = [job EXCEPT !.status = "submitted", !.deliverable = deliverable]
Published(uri) == [uri |-> uri, content |-> files[uri]]
Elsewhere ==
    /\ Event
    /\ \/ \E a \in Accounts : CreateElsewhere(a) \/ Assign(a)
       \/ SubmitElsewhere(NOTHING)
       \/ \E uri \in Uris :
              SubmitElsewhere(Commitment(job, job.provider, Published(uri)))
    /\ UNCHANGED <<files, received, address, card, form, panel, popup, remembered>>

\* The file is replaced or taken away.
Publish(uri, content) ==
    /\ Event /\ files[uri] # content
    /\ files' = [files EXCEPT ![uri] = content]
    /\ UNCHANGED <<job, received, address, card, form, panel, popup, remembered>>

\* The Evaluator records a decision, or the review window ends without one.
Decide ==
    /\ job.status = "submitted"
    /\ job' = [job EXCEPT !.status = "decided"]
    /\ UNCHANGED <<files, received, events, address, card, form, panel, popup,
                   remembered>>

Connect(account) ==
    /\ Event /\ account # address
    /\ address' = account
    /\ UNCHANGED <<world, card, form, panel, popup, remembered>>

-----------------------------------------------------------------------------
(* The page and the wallet *)

Quiet == [uri |-> NOTHING, at |-> "idle", asked |-> NOTHING, read |-> NOTHING,
          of |-> NOTHING, outcome |-> "none"]

\* The list is read again; with the card comes a panel that recalls the evidence.
LoadJobs ==
    /\ job.status # "none" /\ card # job
    /\ card' = job
    /\ panel' = IF card = NOTHING THEN [Quiet EXCEPT !.uri = remembered] ELSE panel
    /\ UNCHANGED <<world, events, address, form, popup, remembered>>

\* The page is left: the answers its components wait for find nobody.
Leave ==
    /\ card # NOTHING
    /\ card' = NOTHING /\ form' = NOTHING /\ panel' = Quiet
    /\ UNCHANGED <<world, events, address, popup, remembered>>

Ask(call, value, shown) ==
    popup' = [call |-> call, value |-> value, shown |-> shown]

\* The commitment names the account the page is connected to.
handleCreateJob ==
    /\ job.status = "none" /\ popup = NOTHING
    /\ Ask("create-job", Criteria(address, TRUE), NOTHING)
    /\ UNCHANGED <<world, events, address, card, form, panel, remembered>>

\* The wallet signs with the account selected in it, and the call is mined; until
\* then it counts as asked for.
create_job(by) ==
    IF job.status = "none"
    THEN job' = [NoJob EXCEPT !.status = "open", !.client = by,
                              !.criteria = popup.value]
    ELSE UNCHANGED job
submit_work(by) ==
    IF job.status = "open" /\ job.provider = by
    THEN job' = [job EXCEPT !.status = "submitted", !.deliverable = popup.value]
    ELSE UNCHANGED job
Signed(by) ==
    /\ popup # NOTHING /\ Event
    /\ IF popup.call = "create-job" THEN create_job(by) /\ UNCHANGED form
       ELSE submit_work(by) /\ form' = NOTHING
    /\ popup' = NOTHING
    /\ UNCHANGED <<files, received, address, card, panel, remembered>>

Refused ==
    /\ popup # NOTHING
    /\ popup' = NOTHING
    /\ form' = IF form # NOTHING /\ form.at = "submitting"
               THEN [form EXCEPT !.at = "idle"] ELSE form
    /\ UNCHANGED <<world, events, address, card, panel, remembered>>

-----------------------------------------------------------------------------
(* CommittedSubmitForm *)

OpenForm ==
    /\ card # NOTHING /\ form = NOTHING
    /\ card.status = "open" /\ card.provider = address /\ card.criteria # NOTHING
    /\ form' = [uri |-> NOTHING, inspected |-> NOTHING, at |-> "idle",
                asked |-> NOTHING, read |-> NOTHING, overtaken |-> FALSE]
    /\ UNCHANGED <<world, events, address, card, panel, popup, remembered>>

Cancel ==
    /\ form # NOTHING /\ form' = NOTHING
    /\ UNCHANGED <<world, events, address, card, panel, popup, remembered>>

\* onChange, also while an inspection is under way.
AfterTyping_Kept(text) == [form EXCEPT !.uri = text]                \* mutant
AfterTyping(text) == [form EXCEPT !.uri = text, !.inspected = NOTHING]
Type(text) ==
    /\ form # NOTHING /\ form.uri # text
    /\ form' = [AfterTyping(text) EXCEPT
                    !.overtaken = form.at \in {"asked", "read"}]
    /\ UNCHANGED <<world, events, address, card, panel, popup, remembered>>

\* api/evidence/inspect: the bytes that are there now, or an error.
inspectEvidence(uri) ==
    {NOTHING} \cup (IF files[uri] = NOTHING THEN {} ELSE {Published(uri)})

Inspect ==
    /\ form # NOTHING /\ form.at = "idle" /\ form.uri # NOTHING
    /\ form' = [form EXCEPT !.at = "asked", !.asked = Normal[form.uri],
                            !.overtaken = FALSE]
    /\ UNCHANGED <<world, events, address, card, panel, popup, remembered>>

FormReads(answer) ==
    /\ form # NOTHING /\ form.at = "asked"
    /\ answer \in inspectEvidence(form.asked)
    /\ form' = [form EXCEPT !.at = "read", !.read = answer]
    /\ UNCHANGED <<world, events, address, card, panel, popup, remembered>>

Inspected ==
    /\ form # NOTHING /\ form.at = "read"
    /\ form' = [form EXCEPT !.at = "idle", !.inspected = form.read,
                            !.asked = NOTHING, !.read = NOTHING]
    /\ UNCHANGED <<world, events, address, card, panel, popup, remembered>>

\* A job whose criteria cannot be rebuilt is not submitted here.
Evidence_AsTyped == [form.inspected EXCEPT !.uri = form.uri]        \* mutant
Evidence == form.inspected
Submit ==
    /\ form # NOTHING /\ form.at = "idle" /\ form.inspected # NOTHING
    /\ popup = NOTHING /\ IsRebuilt(card, address)
    /\ Ask("submit-work", Commitment(card, address, Evidence),
           IF form.overtaken THEN NOTHING ELSE form.uri)
    /\ remembered' = form.inspected.uri
    /\ form' = [form EXCEPT !.at = "submitting"]
    /\ UNCHANGED <<world, events, address, card, panel>>

-----------------------------------------------------------------------------
(* RequestEvaluationPanel and the relay *)

IsShown == /\ card # NOTHING /\ card.status = "submitted"
           /\ parseEvaluableDescription(card) /\ card.deliverable # NOTHING

\* What is written during a request is for the next one.
EditPanel(text) ==
    /\ IsShown /\ panel.at = "idle" /\ panel.uri # text
    /\ panel' = [panel EXCEPT !.uri = text]
    /\ UNCHANGED <<world, events, address, card, form, popup, remembered>>

requestEvaluation ==
    /\ IsShown /\ panel.at = "idle" /\ panel.uri # NOTHING
    /\ panel' = [panel EXCEPT !.at = "asked", !.asked = Normal[panel.uri],
                              !.of = card, !.outcome = "none"]
    /\ UNCHANGED <<world, events, address, card, form, popup, remembered>>

PanelReads(answer) ==
    /\ panel.at = "asked" /\ answer \in inspectEvidence(panel.asked)
    /\ panel' = [panel EXCEPT !.at = "read", !.read = answer]
    /\ UNCHANGED <<world, events, address, card, form, popup, remembered>>

\* What the request was about is kept where it is shown.
Answer(outcome) ==
    panel' = IF outcome \in {"mismatch", "manual"}
             THEN [panel EXCEPT !.at = "idle", !.asked = NOTHING, !.outcome = outcome]
             ELSE [Quiet EXCEPT !.uri = panel.uri, !.outcome = outcome]

\* The submission is built again for the job's provider and must be the one the
\* card shows; the request says so much of the job again.
Rebuilt == Commitment(panel.of, panel.of.provider, panel.read)
IsCommitted_Any == TRUE                                             \* mutant
IsCommitted == Rebuilt = panel.of.deliverable
Post ==
    /\ panel.at = "read"
    /\ IF panel.read = NOTHING \/ ~IsRebuilt(panel.of, panel.of.provider)
       THEN Answer("error")
       ELSE IF ~IsCommitted THEN Answer("mismatch")
       ELSE panel' = [panel EXCEPT !.at = "posted"]
    /\ UNCHANGED <<world, events, address, card, form, popup, remembered>>

\* The request is consistent in itself, so the relay sends it, or hands it back when
\* it has no Evaluator.  The Evaluator may have it although its answer is late.
relayEvaluation(reached, outcome) ==
    /\ panel.at = "posted"
    /\ outcome \in IF reached THEN {"queued", "error"} ELSE {"manual", "error"}
    /\ received' = IF reached THEN received \cup {Rebuilt} ELSE received
    /\ Answer(outcome)
    /\ UNCHANGED <<job, files, events, address, card, form, popup, remembered>>

-----------------------------------------------------------------------------
EvaluationInit ==
    /\ job \in Jobs /\ files \in [Uris -> Contents] /\ received = {}
    /\ events = 0 /\ address \in Accounts
    /\ card = NOTHING /\ form = NOTHING /\ panel = Quiet
    /\ popup = NOTHING /\ remembered = NOTHING

EvaluationNext ==
    \/ Elsewhere \/ Decide
    \/ \E uri \in Uris, content \in Contents \cup {NOTHING} : Publish(uri, content)
    \/ \E account \in Accounts : Connect(account) \/ Signed(account)
    \/ Refused \/ LoadJobs \/ Leave \/ handleCreateJob
    \/ OpenForm \/ Cancel \/ Inspect \/ Inspected \/ Submit
    \/ \E text \in Typed : Type(text) \/ EditPanel(text)
    \/ \E uri \in Uris : \E answer \in inspectEvidence(uri) :
           FormReads(answer) \/ PanelReads(answer)
    \/ requestEvaluation \/ Post
    \/ \E reached \in BOOLEAN, outcome \in {"queued", "manual", "error"} :
           relayEvaluation(reached, outcome)

EvaluationSpec == EvaluationInit /\ [][EvaluationNext]_evaluationVars

-----------------------------------------------------------------------------
(* Properties *)

\* Whatever the Evaluator received, or an operator is handed, is what the job on the
\* chain commits to, also when the file, the job and the tab change between the reads
\* and when a request is repeated after a late answer: all are the same request.
SentAsCommitted ==
    /\ \A request \in received : request = job.deliverable
    /\ panel.outcome = "manual" => Rebuilt = job.deliverable

\* The wallet is asked for the file whose address is in the field, unless the field
\* was edited while an inspection was under way: its answer is then taken for the new
\* address (EvaluableJob.tsx:104, 152).
SubmittedAsShown ==
    popup # NOTHING /\ popup.shown # NOTHING =>
        popup.value.evidence.uri = Normal[popup.shown]

\* The panel refuses evidence as not the committed one only when it is another file,
\* or when the work was signed for with another account than the page's.
RefusedWithReason ==
    panel.outcome = "mismatch" =>
        \/ panel.read # job.deliverable.evidence
        \/ job.deliverable.provider # job.provider

\* Evaluable jobs as docs promise them: what is asked of the Evaluator is what was
\* submitted, and what was submitted is what its provider was shown.
EvaluatedAsCommitted == SentAsCommitted /\ SubmittedAsShown /\ RefusedWithReason
=============================================================================
