----------------------------- MODULE MCScripts -----------------------------
(***************************************************************************)
(* Small instances of the modules about scripts, one system per behaviour: *)
(* the escrow end-to-end scripts (MCEscrowScripts), the deployments, and   *)
(* the reputation registry that they deploy and read, with sources that    *)
(* report whatever they like about any agent, while its ownership and the  *)
(* list of callers change.                                                 *)
(* The variables of a system that is not explored keep their first values. *)
(***************************************************************************)
EXTENDS MCEscrowScripts, Deployments, ReputationRegistry

CONSTANTS
    Reporters,      \* the principals that report, are reported, administer
    MaxReports      \* bound: ratings and outcomes together

VARIABLE system

allVars == <<system, vars, deploymentVars, registryVars>>

\* Every script of the deployments in a clean world; every world of one that
\* checks it.
InWorlds(script, worlds) == [script : {script}, world : worlds]
MCDeployments ==
    UNION {
      InWorlds("auto-main", {"clean", "half", "foreign", "policy", "owner", "poor"}),
      InWorlds("auto-test", {"clean", "policy"}),
      InWorlds("ver-main", {"clean", "owner"}),
      InWorlds("ver-test", {"clean"}),
      InWorlds("current", {"clean", "foreign"}),
      InWorlds("identity", {"clean", "half", "foreign"}),
      InWorlds("fee-test", {"clean", "foreign", "policy", "owner"}),
      InWorlds("stx-v2", {"clean"}),
      InWorlds("testnet", {"clean"}) }

OfEscrows(A) == system = "escrow" /\ A /\ UNCHANGED <<system, deploymentVars, registryVars>>
OfDeployment(A) == system = "deployment" /\ A /\ UNCHANGED <<system, vars, registryVars>>
OfRegistry(A) == system = "registry" /\ A /\ UNCHANGED <<system, vars, deploymentVars>>

NoScript == case = (CHOOSE c \in Cases : TRUE) /\ funded = {}
NoDeployment == deployment = [script |-> "stx-v2", world |-> "clean"]

ScriptsInit ==
    /\ system \in {"escrow", "deployment", "registry"}
    /\ Init /\ DeploymentInit /\ RegistryInit
    /\ system # "escrow" => NoScript
    /\ system # "deployment" => NoDeployment

Reports == Cardinality(DOMAIN ratings) + Cardinality(DOMAIN jobOutcomes)
AnyReport(source) ==
    \E agent \in Reporters :
        \/ \E rater \in Reporters, score \in Scores :
               SubmitRating(source, agent, rater, score, 1)
        \/ \E completed, disputed \in BOOLEAN :
               RecordJobOutcome(source, agent, 1, completed, disputed)

ScriptsNext ==
    \/ OfEscrows(Begin)
    \/ OfEscrows(Check)
    \/ OfEscrows(Note)
    \/ OfEscrows(AwaitDeadline)
    \/ OfEscrows(CompareDeadline)
    \/ OfEscrows(Skip)
    \/ OfEscrows(Broadcast)
    \/ OfEscrows(NodeRefuses)
    \/ OfEscrows(Observe)
    \/ OfEscrows(TimeOut)
    \/ OfEscrows(Finish)
    \/ OfEscrows(Crash)
    \/ OfEscrows(Network)
    \/ OfEscrows(Strangers)
    \/ OfDeployment(BeginDeployment)
    \/ OfDeployment(AskMempool)
    \/ OfDeployment(InspectSources)
    \/ OfDeployment(ReviewAccount)
    \/ OfDeployment(FetchNonce)
    \/ OfDeployment(SkipOperation)
    \/ OfDeployment(Resume)
    \/ OfDeployment(Record)
    \/ OfDeployment(BroadcastOperation)
    \/ OfDeployment(RefuseOperation)
    \/ OfDeployment(ConfirmOperation)
    \/ OfDeployment(TimeOutOperation)
    \/ OfDeployment(FinishDeployment)
    \/ OfDeployment(CrashDeployment)
    \/ OfDeployment(MineNext)
    \/ OfDeployment(DropStuck)
    \/ OfDeployment(DropAny)
    \/ OfDeployment(OwnerSends)
    \/ OfDeployment(StrangerCreatesJob)
    \/ OfDeployment(TopUp)
    \/ \E sender, p \in Reporters : OfRegistry(ProposeOwner(sender, p))
    \/ \E sender \in Reporters : OfRegistry(AcceptOwner(sender))
    \/ \E sender \in Reporters : OfRegistry(CancelOwnerProposal(sender))
    \/ \E sender, p \in Reporters : OfRegistry(AddProtocolCaller(sender, p))
    \/ \E sender, p \in Reporters : OfRegistry(RemoveProtocolCaller(sender, p))
    \/ \E source \in Reporters \ {RegistryDeployer} :
           Reports < MaxReports /\ OfRegistry(AnyReport(source))

\* The fairness of each module.
ScriptsFairness ==
    /\ WF_allVars(OfEscrows(Run))
    /\ WF_allVars(OfDeployment(BeginDeployment))
    /\ WF_allVars(OfDeployment(RunDeployment))
    /\ WF_allVars(OfDeployment(MineNext))
    /\ WF_allVars(OfDeployment(DropStuck))
    /\ SF_allVars(OfDeployment(TopUp))

ScriptsSpec == ScriptsInit /\ [][ScriptsNext]_allVars /\ ScriptsFairness
=============================================================================
