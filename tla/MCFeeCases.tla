---------------------------- MODULE MCFeeCases ----------------------------
(***************************************************************************)
(* The life of one job: every lifecycle, fee and reputation operation,     *)
(* called by anyone of the cast of MCAgenticCommerce in any order, or what *)
(* one of the scripts of ServiceFeeCases does.  What the contract          *)
(* guarantees holds for both.                                              *)
(***************************************************************************)
EXTENDS MCAgenticCommerce, ServiceFeeCases

VARIABLE driver     \* "anyone" or "script"

MCActors == [client |-> Client, provider |-> Provider, evaluator |-> Evaluator,
             authority |-> Authority, treasury |-> Treasury]
OnTestnet(names) == [script : {"test"}, name : names]
MCCaseIds == OnTestnet({"approveAppealTimeout", "reviewTimeout", "waiveApprove",
                        "refundReject"})
             \cup [script : {"main"}, name : {"rejectAppealResolveApprove"}]

drivenVars == <<driver, vars, caseVars>>

ByAnyone(A) == driver = "anyone" /\ A /\ UNCHANGED <<driver, caseVars>>
ByScript(A) == driver = "script" /\ A /\ UNCHANGED driver

DrivenInit ==
    \/ driver = "script" /\ CaseInit
    \/ driver = "anyone" /\ CaseInit /\ case = CHOOSE c \in CaseIds : TRUE

DrivenNext ==
    \/ ByAnyone(Setup)
    \/ ByAnyone(HiringByCast)
    \/ ByAnyone(\E sender \in {Client, Provider, Evaluator, Authority, Understudy} :
                    Judging(sender))
    \/ ByAnyone(\E sender \in {Client, Authority}, j \in JobIds :
                    Permissionless(sender, j))
    \/ ByAnyone(\E sender \in {Treasury, Client, Evaluator} : Aftermath(sender))
    \/ ByAnyone(AdvanceStacksBlock)
    \/ ByAnyone(AdvanceBurnBlock)
    \/ ByAnyone(\E amount \in ExternalAmounts :
                    ExternalTransfer(Treasury, Escrow, amount))
    \/ ByAnyone(Listing)
    \/ ByScript(Start)
    \/ ByScript(Review)
    \/ ByScript(Resume)
    \/ ByScript(Sign)
    \/ ByScript(Broadcast)
    \/ ByScript(BroadcastFails)
    \/ ByScript(Confirm)
    \/ ByScript(GivesUp)
    \/ ByScript(Close)
    \/ ByScript(Crash)
    \/ ByScript(Mine)
    \/ ByScript(Lose)
    \/ ByScript(Configure)
    \/ ByScript(Authorise)
    \/ ByScript(Withdraw)
    \/ ByScript(StrangerActs)
    \/ ByScript(TreasurySpends)
    \/ ByScript(StacksBlock)
    \/ ByScript(BurnBlock)
    \/ ByScript(CalmDown)

\* The fairness of each module.
DrivenFairness ==
    /\ WF_drivenVars(ByAnyone(AdvanceStacksBlock))
    /\ WF_drivenVars(ByAnyone(AdvanceBurnBlock))
    /\ \A j \in JobIds :
           WF_drivenVars(ByAnyone(\E sender \in Users : Permissionless(sender, j)))
    /\ WF_drivenVars(ByScript(Start))
    /\ WF_drivenVars(ByScript(CaseRun))
    /\ WF_drivenVars(ByScript(Mine))
    /\ WF_drivenVars(ByScript(BurnBlock))
    /\ WF_drivenVars(ByScript(Configure))
    /\ WF_drivenVars(ByScript(Authorise))
    /\ WF_drivenVars(ByScript(CalmDown))

DrivenSpec == DrivenInit /\ [][DrivenNext]_drivenVars /\ DrivenFairness

-----------------------------------------------------------------------------
\* No escrow is held for ever, whichever of its parties stops acting
\* (EscrowIsReleased).  The blocks a script does not need are not modelled, so
\* this is asked of the jobs that are driven by anyone.
NoEscrowIsStuck == driver = "anyone" => EscrowIsReleased
\* A case that is started again after every stop is closed as passed, unless
\* the chain made that impossible (FeeCaseEnds).
EveryCaseEnds == driver = "script" => FeeCaseEnds
=============================================================================
