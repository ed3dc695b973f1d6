------------------------- MODULE ReputationRegistry -------------------------
(***************************************************************************)
(* contracts/reputation-registry-v3.clar: ratings and job outcomes of      *)
(* agents, reported by the commerce contracts the registry's owner has     *)
(* authorised.  Every public function is a transaction: when one of its    *)
(* asserts! fails nothing changes, so a failed call is a stuttering step   *)
(* and the asserts! are the guards of the action.  The comment of a rating *)
(* and the printed events are left out: no branch reads them.              *)
(***************************************************************************)
EXTENDS ReputationTerms, Totals, ClarityMaps

CONSTANT SourceJobs   \* the job ids a caller may name

VARIABLES
    registryOwner,        \* contract-owner
    pendingRegistryOwner, \* pending-owner
    protocolCallers,      \* protocol-callers, absent keys read as false
    agentReputation,      \* agent-reputation, absent keys read as EmptyReputation
    ratings,              \* (source, agent, rater, job-id) -> score
    jobOutcomes           \* (source, job-id) -> outcome

registryVars == <<registryOwner, pendingRegistryOwner, protocolCallers,
                  agentReputation, ratings, jobOutcomes>>
aggregateVars == <<agentReputation, ratings, jobOutcomes>>
registryOwnerVars == <<registryOwner, pendingRegistryOwner>>

\* The error codes record-job-outcome can return (u501, u505, u506), 0 for ok.
OK == 0
ErrNotAuthorized == 501
ErrInvalidOutcome == 505
ErrOutcomeAlreadyRecorded == 506

Reputation == [totalScore : Nat, ratingCount : Nat, averageX100 : Nat,
               completedJobs : Nat, disputedJobs : Nat]
EmptyReputation == [totalScore |-> 0, ratingCount |-> 0, averageX100 |-> 0,
                    completedJobs |-> 0, disputedJobs |-> 0]
RatingKey == [source : Principals, agent : Principals, rater : Principals,
              jobId : SourceJobs]
OutcomeKey == [source : Principals, jobId : SourceJobs]
Outcome == [agent : Principals, completed : BOOLEAN, disputed : BOOLEAN]

-----------------------------------------------------------------------------
(* Two-step ownership and the list of authorised callers *)

RegistryInit ==
    /\ registryOwner = RegistryDeployer
    /\ pendingRegistryOwner = NONE
    /\ protocolCallers = [p \in Principals |-> FALSE]
    /\ agentReputation = [p \in Principals |-> EmptyReputation]
    /\ ratings = EmptyMap
    /\ jobOutcomes = EmptyMap

ProposeOwner(sender, newOwner) ==
    /\ sender = registryOwner
    /\ newOwner # registryOwner
    /\ pendingRegistryOwner' = newOwner
    /\ UNCHANGED <<registryOwner, protocolCallers, aggregateVars>>

AcceptOwner(sender) ==
    /\ sender = pendingRegistryOwner
    /\ registryOwner' = pendingRegistryOwner
    /\ pendingRegistryOwner' = NONE
    /\ UNCHANGED <<protocolCallers, aggregateVars>>

CancelOwnerProposal(sender) ==
    /\ sender = registryOwner
    /\ pendingRegistryOwner' = NONE
    /\ UNCHANGED <<registryOwner, protocolCallers, aggregateVars>>

AddProtocolCaller(sender, caller) ==
    /\ sender = registryOwner
    /\ protocolCallers' = [protocolCallers EXCEPT ![caller] = TRUE]
    /\ UNCHANGED <<registryOwnerVars, aggregateVars>>

RemoveProtocolCaller(sender, caller) ==
    /\ sender = registryOwner
    /\ protocolCallers' = [protocolCallers EXCEPT ![caller] = FALSE]
    /\ UNCHANGED <<registryOwnerVars, aggregateVars>>

-----------------------------------------------------------------------------
(* Reports.  source is tx-sender, a commerce contract under as-contract.   *)

IsValidScore(score) == score \in 1..5

KeyOfRating(source, agent, rater, jobId) ==
    [source |-> source, agent |-> agent, rater |-> rater, jobId |-> jobId]

IsNewRating_Repeatable(key) == key \in RatingKey                    \* mutant
IsNewRating(key) == key \notin DOMAIN ratings

SubmitRating(source, agent, rater, score, jobId) ==
    LET key == KeyOfRating(source, agent, rater, jobId)
        total == agentReputation[agent].totalScore + score
        count == agentReputation[agent].ratingCount + 1
    IN  /\ protocolCallers[source]
        /\ IsValidScore(score)
        /\ agent # rater
        /\ IsNewRating(key)
        /\ ratings' = MapSet(ratings, key, score)
        /\ agentReputation' = [agentReputation EXCEPT
               ![agent].totalScore = total,
               ![agent].ratingCount = count,
               ![agent].averageX100 = (total * 100) \div count]
        /\ UNCHANGED <<registryOwnerVars, protocolCallers, jobOutcomes>>

\* What record-job-outcome answers: the code of its first failing asserts!.
RecordOutcomeResult_Overwrite(source, jobId, completed, disputed) == \* mutant
    IF ~protocolCallers[source] THEN ErrNotAuthorized
    ELSE IF completed = disputed THEN ErrInvalidOutcome
    ELSE OK
RecordOutcomeResult(source, jobId, completed, disputed) ==
    IF ~protocolCallers[source] THEN ErrNotAuthorized
    ELSE IF completed = disputed THEN ErrInvalidOutcome
    ELSE IF [source |-> source, jobId |-> jobId] \in DOMAIN jobOutcomes
    THEN ErrOutcomeAlreadyRecorded
    ELSE OK

RecordJobOutcome(source, agent, jobId, completed, disputed) ==
    /\ RecordOutcomeResult(source, jobId, completed, disputed) = OK
    /\ jobOutcomes' = MapSet(jobOutcomes,
           [source |-> source, jobId |-> jobId],
           [agent |-> agent, completed |-> completed, disputed |-> disputed])
    /\ agentReputation' = [agentReputation EXCEPT
           ![agent].completedJobs = @ + (IF completed THEN 1 ELSE 0),
           ![agent].disputedJobs = @ + (IF disputed THEN 1 ELSE 0)]
    /\ UNCHANGED <<registryOwnerVars, protocolCallers, ratings>>

-----------------------------------------------------------------------------
\* What the registry's owner does.
Administration(sender) ==
    \/ \E p \in Principals : ProposeOwner(sender, p)
    \/ AcceptOwner(sender)
    \/ CancelOwnerProposal(sender)
    \/ \E p \in Principals : AddProtocolCaller(sender, p)
    \/ \E p \in Principals : RemoveProtocolCaller(sender, p)

\* What any account may call directly as a source.
Report(source) ==
    \E agent \in Principals, jobId \in SourceJobs :
        \/ \E rater \in Principals, score \in Scores :
               SubmitRating(source, agent, rater, score, jobId)
        \/ \E completed, disputed \in BOOLEAN :
               RecordJobOutcome(source, agent, jobId, completed, disputed)

RegistryNext == \E sender \in Principals : Administration(sender) \/ Report(sender)

RegistrySpec == RegistryInit /\ [][RegistryNext]_registryVars

-----------------------------------------------------------------------------
TypeOK ==
    /\ registryOwner \in Principals
    /\ pendingRegistryOwner \in Principals \cup {NONE}
    /\ protocolCallers \in [Principals -> BOOLEAN]
    /\ agentReputation \in [Principals -> Reputation]
    /\ IsMap(ratings, RatingKey, 1..5)
    /\ IsMap(jobOutcomes, OutcomeKey, Outcome)

RatingsOf(agent) == {key \in DOMAIN ratings : key.agent = agent}
OutcomesOf(agent) == {key \in DOMAIN jobOutcomes : jobOutcomes[key].agent = agent}

\* The aggregates get-reputation serves are those of the individual reports:
\* totals, counts and the floored average of the ratings, and one completed or
\* disputed job per recorded outcome, over all sources together.
AggregatesMatchReports ==
    \A agent \in Principals :
        LET rep == agentReputation[agent]
            total == Total(ratings, RatingsOf(agent))
            count == Cardinality(RatingsOf(agent))
        IN  /\ rep.totalScore = total
            /\ rep.ratingCount = count
            /\ rep.averageX100 = IF count = 0 THEN 0 ELSE (100 * total) \div count
            /\ rep.completedJobs =
                   Cardinality({key \in OutcomesOf(agent) : jobOutcomes[key].completed})
            /\ rep.completedJobs + rep.disputedJobs = Cardinality(OutcomesOf(agent))

\* A report is never replaced or withdrawn, and only its own authorised source
\* can have made it: a source that reuses another's job ids, is removed or
\* added again, or retries, changes none of what was recorded.
ReportsAreFinal ==
    [][/\ \A key \in DOMAIN ratings :
            key \in DOMAIN ratings' /\ ratings'[key] = ratings[key]
       /\ \A key \in DOMAIN jobOutcomes :
            key \in DOMAIN jobOutcomes' /\ jobOutcomes'[key] = jobOutcomes[key]
       /\ \A key \in DOMAIN jobOutcomes' \ DOMAIN jobOutcomes :
            protocolCallers[key.source]
       /\ \A key \in DOMAIN ratings' \ DOMAIN ratings :
            protocolCallers[key.source]]_registryVars
=============================================================================
