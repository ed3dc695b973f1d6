--------------------------- MODULE MCTwoQuestions ---------------------------
(* Two more questions about AgenticCommerce, with the cast of MCAgenticCommerce. *)
EXTENDS MCAgenticCommerce

VARIABLE question   \* what a behaviour is about

\* Those who play the roles: any of them may play any role.
Players == {Escrow, Deployer, Authority, Treasury, Client, Provider}

-----------------------------------------------------------------------------
(* Who may hold which role: configuration, rotations, hiring; no clock.    *)

GovernanceAmongPlayers(sender) ==
    \/ \E w \in AppealWindows, authority, treasury \in Players :
           InitializeProtocol(sender, w, authority, treasury)
    \/ \E p \in Players : ProposeOwner(sender, p)
    \/ AcceptOwner(sender)
    \/ CancelOwnerProposal(sender)
    \/ \E p \in Players : ProposeAppealAuthority(sender, p)
    \/ AcceptAppealAuthority(sender)
    \/ CancelAppealAuthorityProposal(sender)

RolesNext ==
    \E sender \in Players \ {Escrow} :
        \/ GovernanceAmongPlayers(sender)
        \/ \E p \in Players \cup {NONE}, e \in Players :
               jobCounter = 0 /\ CreateJob(sender, p, e, 1)
        \/ \E j \in JobIds :
            \/ \E amount \in Budgets : SetBudget(sender, j, amount)
            \/ FundJob(sender, j)
            \/ \E p \in Players : AssignProvider(sender, j, p)

-----------------------------------------------------------------------------
(* Two jobs of one client side by side; the authority may rotate between   *)
(* them, so that each is pinned to another one.  The registry lists nobody.*)

TwoJobsNext ==
    \/ Setup
    \/ ProposeAppealAuthority(Deployer, Understudy)
    \/ AcceptAppealAuthority(Understudy)
    \/ CreateJob(Client, Provider, Evaluator, 1)
    \/ \E j \in JobIds :
        \/ \E amount \in Budgets : SetBudget(Client, j, amount)
        \/ FundJob(Client, j)
        \/ SubmitWork(Provider, j)
        \/ Permissionless(Client, j)
        \/ RefundServiceFee(Treasury, j)
    \/ \E sender \in {Client, Provider, Evaluator, Authority, Understudy} :
           Judging(sender)
    \/ AdvanceStacksBlock
    \/ AdvanceBurnBlock

\* Two questions of one instance, chosen at the start: who may hold which role
\* of one job, and two jobs of one cast.
TwoQuestionsInit == Init /\ question \in {"roles", "two jobs"}
TwoQuestionsSpec ==
    /\ TwoQuestionsInit
    /\ [][/\ UNCHANGED question
          /\ \/ question = "roles" /\ RolesNext
             \/ question = "two jobs" /\ TwoJobsNext]_<<vars, question>>

=============================================================================
