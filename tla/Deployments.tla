---------------------------- MODULE Deployments ----------------------------
(***************************************************************************)
(* The scripts that put a generation of contracts on a chain and configure *)
(* it, each with one account:                                              *)
(*                                                                         *)
(*   "auto-main"   scripts/deploy-autonomous-escrow-mainnet.mjs            *)
(*   "auto-test"   scripts/deploy-autonomous-escrow-testnet.mjs            *)
(*   "ver-main"    scripts/deploy-versioned-escrow-mainnet.mjs             *)
(*   "ver-test"    scripts/deploy-versioned-escrow-testnet.mjs             *)
(*   "current"     scripts/deploy-current-mainnet.mjs                      *)
(*   "identity"    scripts/deploy-qa-identity-testnet.mjs                  *)
(*   "stx-v2"      scripts/deploy-stx-v2.mjs                               *)
(*   "testnet"     scripts/deploy-testnet.mjs                              *)
(*   "fee-test"    scripts/deploy-service-fee-testnet.mjs                  *)
(*                                                                         *)
(* A script reads what is there, sends what is missing, one transaction    *)
(* after the other, and waits for each.  A run may die, run out of time or *)
(* be refused anywhere; the operator starts it again, and what an earlier  *)
(* run left in the mempool may be mined at any moment of the next.         *)
(*                                                                         *)
(* Fees are in units of 100,000 micro-STX.  The nonces of the account are  *)
(* counted from the first one that is not used.                            *)
(***************************************************************************)
EXTENDS Integers, Sequences, FiniteSets, SequencesExt

CONSTANTS
    DeploymentCases, \* the [script, world] explored
    MaxMishaps,      \* bound: crashes, time-outs, refusals, drops, other transactions
    MaxPending       \* bound: transactions of the account in the mempool

DeploymentScripts == {"auto-main", "auto-test", "ver-main", "ver-test", "current",
                      "identity", "stx-v2", "testnet", "fee-test"}
DeploymentWorlds == {"clean", "half", "foreign", "policy", "owner", "poor"}

ASSUME DeploymentsAreKnown ==
    DeploymentCases \subseteq [script : DeploymentScripts, world : DeploymentWorlds]

VARIABLES
    deployment,
    \* the chain and the mempool
    deployed,    \* the contracts that are there with the reviewed source
    configured,  \* the calls whose setting is there, with the right value
    pending,     \* the mempool, by nonce: an operation, Other or Gap
    balance,
    inUse,       \* the escrows somebody created a job of
    \* a run
    stage,       \* "rest", then one reading or sending after the other
    position,    \* of Operations
    plan,        \* what it found missing
    nonce,       \* its next one
    awaited,     \* the nonce of the transaction it waits for, while pending
    outcome,     \* what became of that transaction
    maximum,     \* the fees it reviewed
    spent,       \* the fees of what it sent
    \* the file of "fee-test"
    journal,     \* the operations recorded before they were sent
    \* history
    verdict, mishaps, meddled

chainVars == <<deployed, configured, pending, balance, inUse>>
runVars == <<stage, position, plan, nonce, awaited, outcome, maximum, spent>>
pastVars == <<verdict, mishaps, meddled>>
deploymentVars == <<deployment, chainVars, runVars, journal, pastVars>>

IsScript(script) == deployment.script = script
World(w) == deployment.world = w

Deploy(c) == [kind |-> "deploy", of |-> c]
Initialize(c) == [kind |-> "initialize", of |-> c]
SetToken(c) == [kind |-> "token", of |-> c]
Allow(c) == [kind |-> "allow", of |-> c]
Other == [kind |-> "other", of |-> "none"]
Gap == [kind |-> "gap", of |-> "none"]
Deploys(contracts) == [i \in DOMAIN contracts |-> Deploy(contracts[i])]

-----------------------------------------------------------------------------
(* deploy-autonomous-escrow-mainnet.mjs *)

AutoMainDeploys == Deploys(<<"trait", "registry", "stx", "sbtc">>)
AutoMainInitializing == <<Initialize("stx"), Initialize("sbtc")>>
AutoMainToken == <<SetToken("sbtc")>>
AutoMainAllowing == <<Allow("stx"), Allow("sbtc")>>
AutoMainFees == [deploy |-> 10, call |-> 2, reserve |-> 0]
AutoMainMaximum_Three(n) == 10 * n + 2 * 3                          \* mutant
AutoMainMaximum(n) == 10 * n + 2 * 5
AutoMainIdle_Unasked == TRUE                                        \* mutant
AutoMainIdle == pending = <<>>
AutoMainNonce(seen) == nonce = seen
AutoMainWait == {"abort", "dropped"}
AutoMainSources == {"trait", "registry", "stx", "sbtc"}
AutoMainOwners == ~World("owner")
AutoMainPolicy == {Initialize("stx"), Initialize("sbtc")}
AutoMainZeroState == inUse = {}
AutoMainSettings == {SetToken("sbtc"), Allow("stx"), Allow("sbtc")}

AutoMainReady ==
    /\ AutoMainSources \subseteq deployed
    /\ AutoMainOwners /\ AutoMainPolicy \subseteq configured
    /\ AutoMainZeroState /\ AutoMainSettings \subseteq configured
AutoMainSends ==
    AutoMainDeploys \o AutoMainInitializing \o AutoMainToken \o AutoMainAllowing

-----------------------------------------------------------------------------
(* deploy-autonomous-escrow-testnet.mjs: asks nobody for pending transactions *)

AutoTestDeploys == Deploys(<<"trait", "registry", "stx", "sbtc">>)
AutoTestInitializing == <<Initialize("stx"), Initialize("sbtc")>>
AutoTestToken == <<SetToken("sbtc")>>
AutoTestAllowing == <<Allow("stx"), Allow("sbtc")>>
AutoTestFees == [deploy |-> 10, call |-> 2, reserve |-> 0]
AutoTestMaximum(n) == 10 * n + 2 * 5
AutoTestWait == {"abort"}
AutoTestPolicy == {Initialize("stx"), Initialize("sbtc")}
AutoTestOwners == SetToken("sbtc") \in configured /\ ~World("owner")

AutoTestReady_Unread == AutoTestOwners                              \* mutant
AutoTestReady == AutoTestPolicy \subseteq configured /\ AutoTestOwners
AutoTestSends ==
    AutoTestDeploys \o AutoTestInitializing \o AutoTestToken \o AutoTestAllowing

-----------------------------------------------------------------------------
(* deploy-versioned-escrow-mainnet.mjs: the windows are constants of the source *)

VerMainDeploys == Deploys(<<"trait", "registry", "stx", "sbtc">>)
VerMainToken == <<SetToken("sbtc")>>
VerMainAllowing == <<Allow("stx"), Allow("sbtc")>>
VerMainFees == [deploy |-> 10, call |-> 2, reserve |-> 0]
VerMainMaximum(n) == 10 * n + 2 * 3
VerMainIdle == pending = <<>>
VerMainNonce(seen) == nonce = seen
VerMainWait == {"abort", "dropped"}
VerMainSources == {"trait", "registry", "stx", "sbtc"}
VerMainOwners == ~World("owner")
VerMainZeroState == inUse = {}
VerMainSettings == {SetToken("sbtc"), Allow("stx"), Allow("sbtc")}

VerMainReady ==
    /\ VerMainSources \subseteq deployed /\ VerMainOwners
    /\ VerMainZeroState /\ VerMainSettings \subseteq configured
VerMainSends == VerMainDeploys \o VerMainToken \o VerMainAllowing

-----------------------------------------------------------------------------
(* deploy-versioned-escrow-testnet.mjs *)

VerTestDeploys == Deploys(<<"trait", "registry", "stx", "sbtc">>)
VerTestToken == <<SetToken("sbtc")>>
VerTestAllowing == <<Allow("stx"), Allow("sbtc")>>
VerTestFees == [deploy |-> 10, call |-> 2, reserve |-> 0]
VerTestMaximum(n) == 10 * n + 2 * 3
VerTestWait == {"abort"}
VerTestReady == ~World("owner")
VerTestSends == VerTestDeploys \o VerTestToken \o VerTestAllowing

-----------------------------------------------------------------------------
(* deploy-current-mainnet.mjs: trusts what it read and waited for *)

CurrentDeploys == Deploys(<<"agents", "validation", "trait", "registry", "stx", "sbtc">>)
CurrentToken == <<SetToken("sbtc")>>
CurrentAllowing == <<Allow("stx"), Allow("sbtc")>>
CurrentFees == [deploy |-> 10, call |-> 2, reserve |-> 0]
CurrentMaximum(n) == 10 * n + 2 * 3
CurrentWait == {"abort"}
CurrentSends == CurrentDeploys \o CurrentToken \o CurrentAllowing

-----------------------------------------------------------------------------
(* deploy-qa-identity-testnet.mjs: asks for the mempool before the sources and *)
(* again at the end; it refuses to run when nothing is missing.                *)

IdentitySends == Deploys(<<"agents", "validation">>)
IdentityFees == [deploy |-> 10, call |-> 2, reserve |-> 5]
IdentityMaximum(n) == 10 * n + 5
IdentityIdle == pending = <<>>
IdentityStarts == plan # {}
IdentityWait == {"abort"}
IdentityReady ==
    /\ {"agents", "validation"} \subseteq deployed
    /\ IdentityIdle /\ balance >= IdentityMaximum(0)

-----------------------------------------------------------------------------
(* deploy-stx-v2.mjs and deploy-testnet.mjs: one shot, nothing is skipped *)

StxV2Fees == [deploy |-> 10, call |-> 2, reserve |-> 0]
StxV2Wait == {"abort"}
StxV2Sends == <<Deploy("stx"), Allow("stx")>>

TestnetFees == [deploy |-> 20, call |-> 1, reserve |-> 0]
TestnetDeploys == Deploys(<<"agents", "registry", "validation">>)
TestnetCommerce == <<Deploy("stx")>>
TestnetAllowing == <<Allow("stx")>>
TestnetSends == TestnetDeploys \o TestnetCommerce \o TestnetAllowing

-----------------------------------------------------------------------------
(* deploy-service-fee-testnet.mjs: plans from one reading, and signs what its *)
(* journal does not hold                                                      *)

FeeTestSends == <<Deploy("stx"), Initialize("stx"), Allow("stx"),
             Deploy("sbtc"), Initialize("sbtc"), SetToken("sbtc"), Allow("sbtc")>>
\* Its calls pay 5,000 micro-STX, here a whole unit.
FeeTestFees == [deploy |-> 10, call |-> 1, reserve |-> 5]
IsMissing(op) ==
    IF op.kind = "deploy" THEN op.of \notin deployed ELSE op \notin configured
FeeTestPlanned(op) == IsMissing(op)
\* An escrow in use is neither configured nor given a token any more, and one
\* with another policy is refused.
FeeTestRefuses ==
    \/ World("owner") \/ World("policy")
    \/ \E op \in ToSet(FeeTestSends) :
            op.kind \in {"initialize", "token"} /\ op.of \in inUse /\ IsMissing(op)
FeeTestMaximum(ops) ==
    10 * Cardinality({op \in ops : op.kind = "deploy"})
        + Cardinality({op \in ops : op.kind # "deploy"}) + 5
FeeTestIdle == pending = <<>>
FeeTestWait == {"abort", "dropped"}
FeeTestReady ==
    ~FeeTestRefuses /\ FeeTestIdle
        /\ \A op \in ToSet(FeeTestSends) : ~FeeTestPlanned(op)
\* The entry is durable before the broadcast: nothing is sent twice.  Lock files
\* that survive a crash are removed by the operator before the next run.
Recorded(op) == op \in journal

-----------------------------------------------------------------------------
(* The script of the case *)

Operations == CASE IsScript("auto-main") -> AutoMainSends
                [] IsScript("auto-test") -> AutoTestSends
                [] IsScript("ver-main") -> VerMainSends
                [] IsScript("ver-test") -> VerTestSends
                [] IsScript("current") -> CurrentSends
                [] IsScript("identity") -> IdentitySends
                [] IsScript("stx-v2") -> StxV2Sends
                [] IsScript("testnet") -> TestnetSends
                [] IsScript("fee-test") -> FeeTestSends
Fees == CASE IsScript("auto-main") -> AutoMainFees
          [] IsScript("auto-test") -> AutoTestFees
          [] IsScript("ver-main") -> VerMainFees
          [] IsScript("ver-test") -> VerTestFees
          [] IsScript("current") -> CurrentFees
          [] IsScript("identity") -> IdentityFees
          [] IsScript("stx-v2") -> StxV2Fees
          [] IsScript("testnet") -> TestnetFees
          [] IsScript("fee-test") -> FeeTestFees
Maximum(ops) ==
    LET n == Cardinality({op \in ops : op.kind = "deploy"})
    IN  CASE IsScript("auto-main") -> AutoMainMaximum(n)
          [] IsScript("auto-test") -> AutoTestMaximum(n)
          [] IsScript("ver-main") -> VerMainMaximum(n)
          [] IsScript("ver-test") -> VerTestMaximum(n)
          [] IsScript("current") -> CurrentMaximum(n)
          [] IsScript("identity") -> IdentityMaximum(n)
          [] IsScript("fee-test") -> FeeTestMaximum(ops)
          [] OTHER -> 0
\* What makes waitFor throw at once; anything else but success is waited out.
Throws == CASE IsScript("auto-main") -> AutoMainWait
            [] IsScript("auto-test") -> AutoTestWait
            [] IsScript("ver-main") -> VerMainWait
            [] IsScript("ver-test") -> VerTestWait
            [] IsScript("current") -> CurrentWait
            [] IsScript("identity") -> IdentityWait
            [] IsScript("stx-v2") -> StxV2Wait
            [] IsScript("testnet") -> {"abort"}
            [] IsScript("fee-test") -> FeeTestWait
\* What the script asks of the account before it signs.
AccountIsFit ==
    /\ IsScript("auto-main") => AutoMainIdle
    /\ IsScript("ver-main") => VerMainIdle
    /\ IsScript("identity") => IdentityStarts
    /\ IsScript("fee-test") => FeeTestIdle
NonceIsFit(seen) ==
    /\ IsScript("auto-main") => AutoMainNonce(seen)
    /\ IsScript("ver-main") => VerMainNonce(seen)
AllReady == CASE IsScript("auto-main") -> AutoMainReady
           [] IsScript("auto-test") -> AutoTestReady
           [] IsScript("ver-main") -> VerMainReady
           [] IsScript("ver-test") -> VerTestReady
           [] IsScript("identity") -> IdentityReady
           [] IsScript("fee-test") -> FeeTestReady
           [] OTHER -> TRUE
Tolerant == IsScript("testnet")
Planning == ~(IsScript("stx-v2") \/ IsScript("testnet"))
RefusesPending ==
    deployment.script \in {"auto-main", "ver-main", "identity", "fee-test"}

-----------------------------------------------------------------------------
(* The chain *)

Foreign == IF ~World("foreign") THEN {}
           ELSE IF IsScript("identity") THEN {"validation"} ELSE {"stx"}
Needs(c) == CASE c = "stx" -> {"registry"} \ Foreign
              [] c = "sbtc" -> {"trait", "registry"}
              [] OTHER -> {}
FeeOf(op) == IF op.kind = "deploy" THEN Fees.deploy
             ELSE IF op.kind = "other" THEN 1 ELSE Fees.call
Reserved == Maximum(ToSet(Operations))
Full == IF Planning THEN Reserved ELSE 100

\* A contract that is there cannot be replaced: the transaction is never mined.
CanBeMined(op) ==
    /\ op # Gap
    /\ op.kind = "deploy" => op.of \notin deployed \cup Foreign
Succeeds(op) ==
    CASE op.kind = "deploy" -> Needs(op.of) \subseteq deployed
      [] op.kind = "initialize" -> op \notin configured /\ ~(World("policy") /\ op.of = "stx")
      [] op.kind = "allow" -> ~World("owner")
      [] OTHER -> TRUE
NextNonce == Len(pending) + 1
IsFree(n) == n > 0 /\ (n \in DOMAIN pending => pending[n] = Gap)
CallsSomethingThere(op) ==
    CASE op.kind \in {"initialize", "token"} -> op.of \in deployed
      [] op.kind = "allow" -> "registry" \in deployed
      [] OTHER -> TRUE
NodeAccepts(op, n) ==
    IsFree(n) /\ CanBeMined(op) /\ CallsSomethingThere(op) /\ balance >= FeeOf(op)
Place(op, n) ==
    [i \in 1..(IF n > Len(pending) THEN n ELSE Len(pending)) |->
        IF i = n THEN op ELSE IF i <= Len(pending) THEN pending[i] ELSE Gap]
Trim(q) == SubSeq(q, 1, Max({0} \cup {i \in DOMAIN q : q[i] # Gap}))

Deploying == stage # "rest"
Budget == mishaps < MaxMishaps
Mishap == mishaps' = mishaps + 1
Passed == verdict = "passed"
\* Bound: the network does nothing more after a run has passed.
Open == ~Passed

MineNext ==
    /\ Open /\ pending # <<>> /\ CanBeMined(Head(pending))
    /\ LET op == Head(pending)
       IN  /\ balance' = balance - FeeOf(op)
           /\ IF Succeeds(op) /\ op # Other
              THEN IF op.kind = "deploy"
                   THEN deployed' = deployed \cup {op.of} /\ UNCHANGED configured
                   ELSE configured' = configured \cup {op} /\ UNCHANGED deployed
              ELSE UNCHANGED <<deployed, configured>>
           /\ outcome' = IF awaited = 1
                         THEN IF Succeeds(op) THEN "success" ELSE "abort"
                         ELSE outcome
    /\ pending' = Tail(pending)
    /\ awaited' = IF awaited > 0 THEN awaited - 1 ELSE 0
    /\ nonce' = IF nonce > 0 THEN nonce - 1 ELSE 0
    /\ UNCHANGED <<deployment, inUse, stage, position, plan, maximum,
                   spent, journal, pastVars>>

\* What cannot be mined leaves the mempool in the end, the oldest first; anything
\* else may.
Forget(n) ==
    /\ pending' = Trim([pending EXCEPT ![n] = Gap])
    /\ outcome' = IF awaited = n THEN "dropped" ELSE outcome
    /\ awaited' = IF awaited = n THEN 0 ELSE awaited
    /\ UNCHANGED <<deployment, deployed, configured, balance, inUse, stage, position, plan,
                   nonce, maximum, spent, journal, verdict, meddled>>
IsStuck(n) ==
    /\ pending[n] # Gap
    /\ ~CanBeMined(pending[n]) \/ \E i \in 1..n : pending[i] = Gap
DropStuck ==
    /\ Open
    /\ \E n \in DOMAIN pending :
        /\ IsStuck(n) /\ \A m \in 1..(n - 1) : ~IsStuck(m)
        /\ Forget(n) /\ UNCHANGED mishaps
DropAny ==
    /\ Open /\ Budget
    /\ \E n \in DOMAIN pending : pending[n] # Gap /\ Forget(n) /\ Mishap

\* The owner of the account sends something else by hand.
OwnerSends ==
    /\ Open /\ Budget /\ Len(pending) < MaxPending /\ balance > 0
    /\ pending' = Append(pending, Other)
    /\ Mishap /\ meddled' = TRUE
    /\ UNCHANGED <<deployment, deployed, configured, balance, inUse, runVars, journal,
                   verdict>>
\* Somebody creates a job as soon as an escrow takes any.
TakesJobs(c) ==
    /\ c \in deployed
    /\ Initialize(c) \in ToSet(Operations)
           => Initialize(c) \in configured \/ World("policy")
StrangerCreatesJob ==
    /\ Open
    /\ \E c \in {"stx", "sbtc"} \ inUse : TakesJobs(c) /\ inUse' = inUse \cup {c}
    /\ UNCHANGED <<deployment, deployed, configured, pending, balance, runVars, journal,
                   pastVars>>
\* The operator pays in what aborted transactions and the counting of calls that
\* are done already have taken from the reviewed maximum.
TopUp ==
    /\ Open /\ ~Deploying /\ balance < Full /\ ~World("poor")
    /\ balance' = Full
    /\ UNCHANGED <<deployment, deployed, configured, pending, inUse, runVars, journal,
                   pastVars>>

-----------------------------------------------------------------------------
(* A run *)

At(p) == stage = p
To(p) == stage' = p
Stop(how) ==
    /\ stage' = "rest" /\ position' = 0 /\ plan' = {} /\ nonce' = 0
    /\ awaited' = 0 /\ outcome' = "none" /\ maximum' = 0 /\ spent' = 0
    /\ verdict' = how
Kept == UNCHANGED <<deployment, chainVars, journal, mishaps>>
Due == Operations[position]

BeginDeployment ==
    /\ ~Deploying /\ Open
    /\ To(IF IsScript("identity") THEN "mempool" ELSE IF Planning THEN "sources"
          ELSE "nonce")
    /\ verdict' = "none" /\ meddled' = FALSE
    /\ UNCHANGED <<position, plan, nonce, awaited, outcome, maximum, spent>> /\ Kept

AskMempool ==
    /\ At("mempool")
    /\ IF IdentityIdle
       THEN To("sources") /\ UNCHANGED <<position, plan, nonce, awaited, outcome,
                                         maximum, spent, verdict>>
       ELSE Stop("failed")
    /\ UNCHANGED meddled /\ Kept

\* Every contract is missing, or there with the reviewed source.
InspectSources ==
    /\ At("sources")
    /\ IF Foreign # {} \/ (IsScript("fee-test") /\ FeeTestRefuses)
       THEN Stop("failed")
       ELSE /\ To("account")
            /\ plan' = {op \in ToSet(Operations) :
                          /\ IsMissing(op)
                          /\ IsScript("fee-test") \/ op.kind = "deploy"}
            /\ UNCHANGED <<position, nonce, awaited, outcome, maximum, spent, verdict>>
    /\ UNCHANGED meddled /\ Kept

ReviewAccount ==
    /\ At("account")
    /\ IF balance >= Maximum(plan) /\ AccountIsFit
       THEN /\ To("nonce") /\ maximum' = Maximum(plan) /\ nonce' = NextNonce
            /\ UNCHANGED <<position, plan, awaited, outcome, spent, verdict>>
       ELSE Stop("failed")
    /\ UNCHANGED meddled /\ Kept

FetchNonce ==
    /\ At("nonce")
    /\ IF NonceIsFit(NextNonce)
       THEN /\ To("operation") /\ position' = 1 /\ nonce' = NextNonce
            /\ UNCHANGED <<plan, awaited, outcome, maximum, spent, verdict>>
       ELSE Stop("failed")
    /\ UNCHANGED meddled /\ Kept

AtOperation == At("operation") /\ position <= Len(Operations)
SeemsDone(op) ==
    op \in configured \/ (World("policy") /\ op = Initialize("stx"))
\* A deployment is needed when the contract was missing at the start, a call
\* when its setting is missing now.
NeedsDeploy_Always(op) == TRUE                                      \* mutant
NeedsDeploy(op) == op \in plan
IsNeeded(op) ==
    IF IsScript("fee-test") THEN op \in plan
    ELSE IF op.kind = "deploy" THEN ~Planning \/ NeedsDeploy(op)
    ELSE ~Planning \/ ~SeemsDone(op)
NextOperation ==
    /\ To("operation") /\ position' = position + 1 /\ awaited' = 0 /\ outcome' = "none"
    /\ UNCHANGED <<plan, maximum, verdict>>
SkipOperation ==
    /\ AtOperation /\ ~IsNeeded(Due)
    /\ NextOperation /\ UNCHANGED <<nonce, spent, meddled>> /\ Kept

\* "fee-test" waits for what its journal names, and writes the name of anything
\* else before it sends it.
Resume ==
    /\ AtOperation /\ IsNeeded(Due) /\ IsScript("fee-test") /\ Recorded(Due)
    /\ To("wait")
    /\ IF Due \in ToSet(pending)
       THEN awaited' \in {n \in DOMAIN pending : pending[n] = Due}
            /\ outcome' = "pending"
       ELSE /\ awaited' = 0
            /\ outcome' = IF IsMissing(Due) THEN "dropped" ELSE "success"
    /\ UNCHANGED <<position, plan, nonce, maximum, spent, verdict, meddled>> /\ Kept
Record ==
    /\ AtOperation /\ IsNeeded(Due) /\ IsScript("fee-test") /\ ~Recorded(Due)
    /\ IF FeeTestIdle
       THEN /\ To("signed") /\ nonce' = NextNonce
            /\ journal' = journal \cup {Due}
            /\ UNCHANGED <<position, plan, awaited, outcome, maximum, spent, verdict>>
       ELSE Stop("failed") /\ UNCHANGED journal
    /\ UNCHANGED <<deployment, chainVars, mishaps, meddled>>

MaySend == \/ AtOperation /\ IsNeeded(Due) /\ ~IsScript("fee-test")
           \/ At("signed")
\* deploy-testnet.mjs sends three deployments before it waits for them.
WaitsNow == ~(IsScript("testnet") /\ position < Len(TestnetDeploys))
BroadcastOperation ==
    /\ MaySend /\ NodeAccepts(Due, nonce) /\ Len(pending) < MaxPending
    /\ pending' = Place(Due, nonce)
    /\ nonce' = nonce + 1 /\ spent' = spent + FeeOf(Due)
    /\ IF WaitsNow
       THEN /\ To("wait") /\ awaited' = nonce /\ outcome' = "pending"
            /\ UNCHANGED <<position, plan, maximum, verdict>>
       ELSE NextOperation
    /\ UNCHANGED <<deployment, deployed, configured, balance, inUse, journal, mishaps,
                   meddled>>
\* The node refuses, because it has to or for reasons of its own.
RefuseOperation ==
    /\ MaySend
    /\ IF ~NodeAccepts(Due, nonce) THEN UNCHANGED mishaps ELSE Budget /\ Mishap
    /\ IF Tolerant /\ Due.kind = "allow"
       THEN NextOperation /\ UNCHANGED <<nonce, spent>> ELSE Stop("failed")
    /\ UNCHANGED <<deployment, chainVars, journal, meddled>>

ConfirmOperation ==
    /\ At("wait")
    /\ \/ outcome = "success" /\ NextOperation /\ UNCHANGED <<nonce, spent>>
       \/ /\ outcome \in Throws
          /\ IF Tolerant THEN NextOperation /\ UNCHANGED <<nonce, spent>> ELSE Stop("failed")
    /\ UNCHANGED meddled /\ Kept
\* The attempts of waitFor are used up.
TimeOutOperation ==
    /\ At("wait") /\ outcome \in {"pending", "dropped", "abort"} \ Throws
    /\ IF outcome = "pending" THEN Budget /\ Mishap ELSE UNCHANGED mishaps
    /\ IF Tolerant THEN NextOperation /\ UNCHANGED <<nonce, spent>> ELSE Stop("failed")
    /\ UNCHANGED <<deployment, chainVars, journal, meddled>>

FinishDeployment ==
    /\ At("operation") /\ position > Len(Operations)
    /\ Stop(IF AllReady THEN "passed" ELSE "failed")
    /\ UNCHANGED meddled /\ Kept

CrashDeployment ==
    /\ Deploying /\ Budget /\ Stop("crashed") /\ Mishap
    /\ UNCHANGED <<deployment, chainVars, journal, meddled>>

-----------------------------------------------------------------------------
\* What each world has there before the first run.
There == IF World("policy") THEN {"trait", "registry", "stx"}
         ELSE IF IsScript("fee-test") \/ World("owner") THEN {"trait", "registry"}
         ELSE IF IsScript("stx-v2") THEN {"registry"}
         ELSE IF World("half")
              THEN IF IsScript("identity") THEN {"agents"} ELSE {"trait", "registry"}
         ELSE {}
DeploymentInit ==
    /\ deployment \in DeploymentCases
    /\ deployed = There
    /\ configured = {} /\ pending = <<>> /\ inUse = {}
    /\ balance = IF World("poor") THEN Full - 1 ELSE Full
    /\ stage = "rest" /\ position = 0 /\ plan = {} /\ nonce = 0 /\ awaited = 0
    /\ outcome = "none" /\ maximum = 0 /\ spent = 0
    /\ journal = {} /\ verdict = "none" /\ mishaps = 0 /\ meddled = FALSE

RunDeployment == \/ AskMempool \/ InspectSources \/ ReviewAccount \/ FetchNonce
       \/ SkipOperation \/ Resume \/ Record \/ BroadcastOperation \/ RefuseOperation
       \/ ConfirmOperation \/ TimeOutOperation \/ FinishDeployment
DeploymentNetwork == MineNext \/ DropStuck \/ DropAny
DeploymentNext ==
    \/ BeginDeployment \/ RunDeployment \/ CrashDeployment
    \/ DeploymentNetwork \/ OwnerSends \/ StrangerCreatesJob \/ TopUp

\* A process takes its next step, blocks are mined, and an operator whose run
\* failed pays in what is missing and starts it again.
DeploymentFairness ==
    /\ WF_deploymentVars(BeginDeployment) /\ WF_deploymentVars(RunDeployment)
    /\ WF_deploymentVars(MineNext) /\ WF_deploymentVars(DropStuck)
    /\ SF_deploymentVars(TopUp)
DeploymentSpec == DeploymentInit /\ [][DeploymentNext]_deploymentVars /\ DeploymentFairness

-----------------------------------------------------------------------------
(* Properties *)

\* A run that ends well has left every contract and every setting of its script in
\* place, with the reviewed values and owners, also when it only read or waited for
\* them.  deploy-testnet.mjs promises nothing: it says "DEPLOY COMPLETE" whatever
\* its transactions became (lines 98 to 132).
PassedMeansReady ==
    Passed /\ ~Tolerant =>
        \A op \in ToSet(Operations) : ~IsMissing(op)

\* A script that refuses to start while the account has pending transactions (or
\* that records each before it sends it) never has an operation in the mempool
\* twice, or once more when it is done: whatever an earlier run left behind is
\* mined, dropped or seen before anything is sent again.
NothingSentTwice ==
    RefusesPending =>
        /\ \A m, n \in DOMAIN pending :
            pending[m] = pending[n] /\ m # n => pending[m] \in {Gap, Other}
        /\ \A n \in DOMAIN pending :
            pending[n] \notin {Gap, Other} => IsMissing(pending[n])

\* The fees a run reviewed at its start cover everything it sends, and the account
\* can pay for them as long as nobody else uses it.
ReviewedMaximumSuffices ==
    RefusesPending =>
        /\ spent <= maximum
        /\ MaySend /\ ~meddled => balance >= FeeOf(Due)

\* Started again after every failure, a script that skips what is done gets there:
\* whatever was dropped, refused, mined late or sent twice.  Excused are a job that
\* somebody created before the last check, the identity contracts, which refuse a
\* run without work, and a recorded transaction that is lost, which is never sent
\* again.
Resumable == Planning /\ deployment.world \in {"clean", "half"}
Excused ==
    \/ inUse # {} /\ deployment.script \in {"auto-main", "ver-main", "fee-test"}
    \/ IsScript("identity") /\ {"agents", "validation"} \subseteq deployed
    \/ \E op \in journal :
            IsMissing(op) /\ op \notin ToSet(pending) /\ ~(At("signed") /\ op = Due)
PromotionCompletes == Resumable => <>(Passed \/ Excused)

=============================================================================
