----------------------------- MODULE PagesProofs ----------------------------
(***************************************************************************)
(* Theorems about what the application lets its users sign and see: the    *)
(* jobs page (JobsPage) for any terms of the jobs, any accounts, any       *)
(* number of lists being read, of clicks, and of calls made elsewhere; the *)
(* treasury's attestation (TreasuryAttestation) for any accounts and       *)
(* releases; the marketplace (Marketplace) for any users, jobs' parties,   *)
(* tabs and numbers of applications; and about how it reads: the paced     *)
(* transport of read-only calls (ReadTransport) for any number of callers, *)
(* any times and any pauses a node may ask for, and the cached directory   *)
(* of participants (Directory) for any wallets, dates, requests, readers.  *)
(***************************************************************************)
EXTENDS JobsPage, TreasuryAttestation, Marketplace, ReadTransport, Directory,
        FiniteSetTheorems, SequenceTheorems, TLAPS

-----------------------------------------------------------------------------
(* The jobs page: the inductive invariant, one conjunct per moment of a run *)

\* A run has the fields that Click gives it, and once the job has been read
\* again, that job has those of Read.
RunFields == {"call", "card", "currency", "wallet", "consent", "fresh", "limit",
              "signer", "moved", "owed", "at"}
JobFields == {"currency", "status", "provider", "budget", "decision", "deadline",
              "held", "fee"}
HasItsFields(run) ==
    /\ run = [field \in RunFields |-> run[field]]
    /\ run.at \in {"reload fee", "verify"} =>
           run.fresh = [field \in JobFields |-> run.fresh[field]]

\* A job that is read again holds nothing until its escrow is read as well.
EscrowIsUnread(run) ==
    run.at \in {"reload fee", "verify"} => run.fresh.held = 0

\* Only the calls of withFreshFee read the job again, and a call that funds has the
\* consent of its click.
FundsByConsent(run) ==
    /\ run.at \in {"reload", "reload fee", "verify"} => run.call.name \in Verified
    /\ run.call.name = "fund-job" => run.consent

\* The sum a settlement may move.
Sum(run) ==
    IF run.call.name \in Verified THEN run.card.budget ELSE run.card.held

\* What the wallet and the network are asked for is what was on the card.
AsksForTheCard(run) ==
    run.at \in {"wallet", "sent"} =>
        /\ run.call.name = "fund-job" =>
               run.limit = [from |-> run.wallet, amount |-> run.card.budget]
        /\ run.call.name \in Releases =>
               run.limit = IF Sum(run) = 0 THEN NONE
                           ELSE [from |-> "escrow", amount |-> Sum(run)]

\* What was done is what was on the card.
DidTheCard(run) ==
    run.at = "done" =>
        /\ run.call.name = "fund-job" =>
               /\ run.signer = run.wallet
               /\ run.moved.amount = run.card.budget
        /\ run.call.name \in Releases =>
               run.moved = IF Sum(run) = 0 THEN NONE
                           ELSE [from |-> "escrow", amount |-> Sum(run)]

RunInv(run) ==
    /\ HasItsFields(run) /\ EscrowIsUnread(run) /\ FundsByConsent(run)
    /\ AsksForTheCard(run) /\ DidTheCard(run)

PageInv == \A run \in runs : RunInv(run)

-----------------------------------------------------------------------------
(* The jobs page: the steps of a run *)

\* The calls of Releases are not those of Consenting.
LEMMA CallNames ==
    /\ "fund-job" \in Verified /\ "fund-job" \notin Releases
    /\ "expire-job" \notin Verified
  BY DEF Verified, Consenting, Releases

\* Two keys that agree are of jobs with one status and one budget.
LEMMA VerifiedTerms ==
    ASSUME NEW was, NEW fresh, NEW account, verifyFeeAction(was, fresh, account)
    PROVE  fresh.budget = was.budget /\ fresh.status = was.status
<1> DEFINE Key(entry) ==
        [currency |-> entry.currency, wallet |-> account, gross |-> entry.budget,
         status |-> entry.status, fee |-> entry.fee]
<1>1. Key(fresh) = Key(was)
  BY DEF verifyFeeAction, feeAcceptanceKey
<1>2. Key(fresh).gross = Key(was).gross /\ Key(fresh).status = Key(was).status
  BY <1>1
<1> QED
  BY <1>2

LEMMA ClickInv ==
    ASSUME PageInv, NEW name, NEW value, Click(name, value)
    PROVE  PageInv'
<1> DEFINE run == [call |-> [name |-> name, value |-> value], card |-> shown,
                   currency |-> currency, wallet |-> address,
                   consent |-> Consents(shown), fresh |-> NONE, limit |-> NONE,
                   signer |-> Nobody, moved |-> NONE, owed |-> Refreshes,
                   at |-> "reload"]
           toSign == [run EXCEPT !.at = "wallet", !.limit = Limit(run, shown)]
<1>1. /\ name = "fund-job" => Consents(shown)
      /\ runs' = runs \cup IF name \in Verified THEN {run} ELSE Request(run, shown)
  BY DEF Click
<1>2. /\ run.call.name = name /\ run.card = shown /\ run.at = "reload"
      /\ run.consent = Consents(shown)
  OBVIOUS
<1>3. ASSUME name \in Verified
      PROVE  RunInv(run)
  BY <1>1, <1>2, <1>3 DEF RunInv, HasItsFields, RunFields, JobFields,
     EscrowIsUnread, FundsByConsent, AsksForTheCard, DidTheCard
<1>4. ASSUME name \notin Verified, toSign \in Request(run, shown)
      PROVE  RunInv(toSign)
  <2>1. /\ toSign.call.name = name /\ toSign.card = shown /\ toSign.at = "wallet"
        /\ toSign.limit = Limit(run, shown)
    OBVIOUS
  <2>2. name # "fund-job"
    BY <1>4, CallNames
  <2>3. name \in Releases => Limit(run, shown) = SettlementLimit(shown)
    BY <1>2, <2>2 DEF Limit
  <2>4. HasItsFields(toSign)
    BY <2>1 DEF HasItsFields, RunFields
  <2> HIDE DEF run, toSign
  <2> QED
    BY <1>4, <2>1, <2>2, <2>3, <2>4 DEF RunInv, EscrowIsUnread, FundsByConsent,
       AsksForTheCard, DidTheCard, Sum, SettlementLimit
<1>5. Request(run, shown) \subseteq {toSign}
  BY DEF Request
<1> HIDE DEF run, toSign
<1> QED
  BY <1>1, <1>3, <1>4, <1>5 DEF PageInv

LEMMA ReadFields ==
    ASSUME NEW c
    PROVE  Read(c) = [field \in JobFields |-> Read(c)[field]] /\ Read(c).held = 0
<1> DEFINE row == escrow[c]
           entry == [currency |-> c, status |-> row.status, provider |-> row.provider,
                     budget |-> row.budget, decision |-> row.decision,
                     deadline |-> row.deadline, held |-> 0, fee |-> "unread"]
<1>1. Read(c) = entry
  BY DEF Read
<1> HIDE DEF row
<1>2. entry = [field \in JobFields |-> entry[field]] /\ entry.held = 0
  BY DEF JobFields
<1> QED
  BY <1>1, <1>2

LEMMA ReloadInv ==
    ASSUME PageInv, NEW run \in runs, Reload(run)
    PROVE  PageInv'
<1>0. RunInv(run)
  BY DEF PageInv
<1>1. CASE run.at = "reload"
  <2> DEFINE next == [run EXCEPT !.at = "reload fee", !.fresh = Read(run.card.currency)]
  <2>1. runs' = (runs \ {run}) \cup {next}
    BY <1>1 DEF Reload, Becomes
  <2>2. /\ next.call = run.call /\ next.card = run.card /\ next.consent = run.consent
        /\ next.at = "reload fee" /\ next.fresh = Read(run.card.currency)
        /\ next = [field \in RunFields |-> next[field]]
    <3>1. run = [field \in RunFields |-> run[field]]
      BY <1>0 DEF RunInv, HasItsFields
    <3> QED
      BY <3>1 DEF RunFields
  <2> HIDE DEF next
  <2>3. HasItsFields(next) /\ next.fresh.held = 0
    BY <2>2, ReadFields DEF HasItsFields
  <2>4. RunInv(next)
    BY <1>0, <1>1, <2>2, <2>3 DEF RunInv, EscrowIsUnread, FundsByConsent,
       AsksForTheCard, DidTheCard
  <2> QED
    BY <2>1, <2>4 DEF PageInv
<1>2. CASE run.at = "reload fee"
  <2> DEFINE next == [run EXCEPT !.at = "verify", !.fresh.fee = Fee(run.fresh)]
  <2>1. runs' = (runs \ {run}) \cup {next}
    BY <1>2 DEF Reload, Becomes
  <2>2. /\ next.call = run.call /\ next.card = run.card /\ next.consent = run.consent
        /\ next.at = "verify" /\ HasItsFields(next) /\ next.fresh.held = run.fresh.held
    BY <1>0, <1>2 DEF RunInv, HasItsFields, RunFields, JobFields
  <2> HIDE DEF next
  <2>3. RunInv(next)
    BY <1>0, <1>2, <2>2 DEF RunInv, EscrowIsUnread, FundsByConsent,
       AsksForTheCard, DidTheCard
  <2> QED
    BY <2>1, <2>3 DEF PageInv
<1> QED
  BY <1>1, <1>2 DEF Reload

\* What passes withFreshFee is asked of the wallet for the sum on the card.
LEMMA VerifyInv ==
    ASSUME PageInv, NEW run \in runs, Verify(run)
    PROVE  PageInv'
<1> DEFINE fresh == IF run.card.status \in Judged
                    THEN [run.fresh EXCEPT !.held = escrow[run.card.currency].held]
                    ELSE run.fresh
           checked == [run EXCEPT !.fresh = fresh]
           toSign == [checked EXCEPT !.at = "wallet", !.limit = Limit(checked, fresh)]
<1>0. RunInv(run)
  BY DEF PageInv
<1>1. /\ run.at = "verify" /\ verifyFeeAction(run.card, run.fresh, run.wallet)
      /\ run.card.status \in Judged => fresh.held = fresh.budget
      /\ runs' = (runs \ {run}) \cup Request(checked, fresh)
  BY DEF Verify
<1>2. fresh.budget = run.card.budget /\ (run.card.status \notin Judged => fresh.held = 0)
  <2>1. run.fresh.budget = run.card.budget
    BY <1>1, VerifiedTerms
  <2>2. run.fresh.held = 0 /\ fresh.budget = run.fresh.budget
    BY <1>0, <1>1 DEF RunInv, HasItsFields, RunFields, JobFields, EscrowIsUnread
  <2> QED
    BY <2>1, <2>2
<1>3. /\ checked.call = run.call /\ checked.wallet = run.wallet /\ toSign.call = run.call
      /\ toSign.card = run.card /\ toSign.wallet = run.wallet /\ toSign.at = "wallet"
      /\ toSign.consent = run.consent /\ toSign.limit = Limit(checked, fresh)
      /\ HasItsFields(toSign)
  BY <1>0 DEF RunInv, HasItsFields, RunFields, JobFields
<1>4. Request(checked, fresh) \subseteq {toSign}
  BY DEF Request
<1>5. run.call.name \in Releases \ {"expire-job"} /\ fresh.held = 0 =>
          Request(checked, fresh) = {}
  BY <1>3 DEF Request
<1>6. run.call.name = "fund-job" =>
          Limit(checked, fresh) = [from |-> run.wallet, amount |-> fresh.budget]
  BY <1>3 DEF Limit, FundingLimit
<1>7. run.call.name \in Releases => Limit(checked, fresh) = SettlementLimit(fresh)
  BY <1>3, CallNames DEF Limit
<1> HIDE DEF fresh, checked, toSign
<1>8. ASSUME toSign \in Request(checked, fresh)
      PROVE  RunInv(toSign)
  <2>1. CASE run.call.name = "fund-job"
    BY <1>0, <1>2, <1>3, <1>6, <2>1, CallNames DEF RunInv, EscrowIsUnread, FundsByConsent,
       AsksForTheCard, DidTheCard
  <2>2. CASE run.call.name \in Releases
    <3>1. run.call.name \in Verified
      BY <1>0, <1>1 DEF RunInv, FundsByConsent
    <3>2. fresh.held # 0
      BY <1>5, <1>8, <2>2, <3>1, CallNames
    <3>3. fresh.held = run.card.budget
      BY <1>1, <1>2, <3>2
    <3>4. Sum(toSign) = fresh.held
      BY <1>3, <3>1, <3>3 DEF Sum
    <3>5. toSign.limit = [from |-> "escrow", amount |-> Sum(toSign)]
      BY <1>3, <1>7, <2>2, <3>2, <3>4 DEF SettlementLimit
    <3> QED
      BY <1>0, <1>3, <2>2, <3>2, <3>4, <3>5, CallNames DEF RunInv, EscrowIsUnread, FundsByConsent,
         AsksForTheCard, DidTheCard
  <2>3. CASE run.call.name \notin Releases \cup {"fund-job"}
    BY <1>0, <1>3, <2>3 DEF RunInv, EscrowIsUnread, FundsByConsent,
       AsksForTheCard, DidTheCard
  <2> QED
    BY <2>1, <2>2, <2>3
<1> QED
  BY <1>1, <1>4, <1>8 DEF PageInv
\* Whoever signs, what is asked for stays.
LEMMA SignInv ==
    ASSUME PageInv, NEW run \in runs, NEW account, Sign(run, account)
    PROVE  PageInv'
<1> DEFINE next == [run EXCEPT !.at = "sent", !.signer = account]
<1>0. RunInv(run) /\ run.at = "wallet" /\ runs' = (runs \ {run}) \cup {next}
  BY DEF PageInv, Sign, Becomes
<1>1. /\ next.call = run.call /\ next.card = run.card /\ next.consent = run.consent
      /\ next.limit = run.limit /\ next.wallet = run.wallet /\ next.at = "sent"
      /\ HasItsFields(next)
  BY <1>0 DEF RunInv, HasItsFields, RunFields, JobFields
<1> HIDE DEF next
<1>2. RunInv(next)
  BY <1>0, <1>1 DEF RunInv, EscrowIsUnread, FundsByConsent,
     AsksForTheCard, DidTheCard, Sum
<1> QED
  BY <1>0, <1>2 DEF PageInv

\* The post-condition holds the contract to the sum that was asked for, and a
\* payment to the account that was to make it.
LEMMA MinedInv ==
    ASSUME PageInv, NEW run \in runs, Mined(run)
    PROVE  PageInv'
<1> DEFINE moved == Transfer(run.call, run.signer, escrow[run.currency])
           next == [run EXCEPT !.at = "done", !.moved = moved]
<1>0. RunInv(run) /\ run.at = "sent"
  BY DEF PageInv, Mined
<1>1. CASE runs' = runs \ {run}
  BY <1>1 DEF PageInv
<1>2. CASE runs' = (runs \ {run}) \cup {next} /\ run.limit = moved
  <2>1. /\ next.call = run.call /\ next.card = run.card /\ next.consent = run.consent
        /\ next.wallet = run.wallet /\ next.signer = run.signer /\ next.at = "done"
        /\ next.moved = moved /\ HasItsFields(next)
    BY <1>0 DEF RunInv, HasItsFields, RunFields, JobFields
  <2>2. run.call.name = "fund-job" =>
            moved = [from |-> run.signer, amount |-> escrow[run.currency].budget]
    BY DEF Transfer
  <2> HIDE DEF moved, next
  <2>3. ASSUME run.call.name = "fund-job"
        PROVE  run.signer = run.wallet /\ moved.amount = run.card.budget
    <3>1. moved = [from |-> run.wallet, amount |-> run.card.budget]
      BY <1>0, <1>2, <2>3 DEF RunInv, AsksForTheCard
    <3>2. moved.from = run.wallet /\ moved.amount = run.card.budget
      BY <3>1
    <3>3. moved.from = run.signer
      BY <2>2, <2>3
    <3> QED
      BY <3>2, <3>3
  <2>4. run.call.name \in Releases =>
            moved = IF Sum(run) = 0 THEN NONE ELSE [from |-> "escrow", amount |-> Sum(run)]
    BY <1>0, <1>2 DEF RunInv, AsksForTheCard
  <2>5. RunInv(next)
    BY <1>0, <2>1, <2>3, <2>4 DEF RunInv, EscrowIsUnread, FundsByConsent,
       AsksForTheCard,
       DidTheCard, Sum
  <2> QED
    BY <1>2, <2>5 DEF PageInv
<1> QED
  BY <1>1, <1>2 DEF Mined, Becomes, Honours

LEMMA RefreshInv ==
    ASSUME PageInv, NEW run \in runs, Refresh(run)
    PROVE  PageInv'
<1> DEFINE next == [run EXCEPT !.owed = @ - 1]
<1>0. RunInv(run) /\ runs' = (runs \ {run}) \cup {next}
  BY DEF PageInv, Refresh, Becomes
<1>1. /\ next.call = run.call /\ next.card = run.card /\ next.consent = run.consent
      /\ next.limit = run.limit /\ next.wallet = run.wallet /\ next.at = run.at
      /\ next.signer = run.signer /\ next.moved = run.moved /\ next.fresh = run.fresh
      /\ HasItsFields(next)
  BY <1>0 DEF RunInv, HasItsFields, RunFields, JobFields
<1> HIDE DEF next
<1>2. RunInv(next)
  BY <1>0, <1>1 DEF RunInv, EscrowIsUnread, FundsByConsent,
     AsksForTheCard, DidTheCard, Sum
<1> QED
  BY <1>0, <1>2 DEF PageInv

-----------------------------------------------------------------------------
(* The jobs page: its runs together *)

LEMMA OthersLeaveRuns ==
    ASSUME \/ Others \/ Listing
           \/ \E c \in Currencies : SelectCurrency(c)
           \/ \E account \in Accounts : ChangeWallet(account)
           \/ refreshWallet \/ Tick \/ \E name \in Forms : OpenForm(name)
    PROVE  UNCHANGED runs
  BY DEF Others, Listing, SelectCurrency, ChangeWallet, refreshWallet, Tick, OpenForm,
     Elsewhere, Time, LoadJob, LoadFee, Show, ShowNothing, runVars

LEMMA RunningInv ==
    ASSUME PageInv, Running
    PROVE  PageInv'
<1>1. ASSUME NEW run \in runs, GiveUp(run) \/ Forget(run)
      PROVE  PageInv'
  BY <1>1 DEF GiveUp, Forget, PageInv
<1> QED
  BY <1>1, ReloadInv, VerifyInv, SignInv, MinedInv, RefreshInv DEF Running

LEMMA PageInvHolds == Spec => []PageInv
<1>1. Init => PageInv
  BY DEF Init, PageInv
<1>2. ASSUME PageInv, [Next]_vars
      PROVE  PageInv'
  <2>1. CASE UNCHANGED runs
    BY <1>2, <2>1 DEF PageInv
  <2>2. CASE Running
    BY <1>2, <2>2, RunningInv
  <2>3. CASE User
    <3>1. ASSUME NEW name, NEW value, Click(name, value)
          PROVE  PageInv'
      BY <1>2, <3>1, ClickInv
    <3> QED
      BY <2>1, <2>3, <3>1, OthersLeaveRuns DEF User
  <2> QED
    BY <1>2, <2>1, <2>2, <2>3, OthersLeaveRuns DEF Next, vars, runVars
<1> QED
  BY <1>1, <1>2, PTL DEF Spec

-----------------------------------------------------------------------------
(* The jobs page: what the user clicked is what is done *)

\* What leaves a wallet for an escrow was ticked and clicked by its owner, under the
\* account that pays it, whatever the chain, the lists and the wallet did meanwhile.
THEOREM PaidIsAsAccepted == Spec => []PaidAsAccepted
<1>1. PageInv => PaidAsAccepted
  BY DEF PageInv, RunInv, FundsByConsent, DidTheCard, PaidAsAccepted
<1> QED
  BY <1>1, PageInvHolds, PTL

\* What leaves an escrow by a settlement of this page is the sum on its card.
THEOREM SettledIsAsShown == Spec => []SettledAsShown
<1>1. PageInv => SettledAsShown
  BY DEF PageInv, RunInv, DidTheCard, Sum, SettledAsShown
<1> QED
  BY <1>1, PageInvHolds, PTL

-----------------------------------------------------------------------------
(* The treasury's attestation *)

\* A deployment is its stage, its release and the receipt it was given.
IsDeployment(d) == d = [at |-> d.at, sha |-> d.sha, file |-> d.file]

\* The treasury's account signed a message for the release.
Attests(file, sha) == file.by = Treasury /\ file.message.sha = sha

\* From the check of the receipt on, the deployment holds one that the treasury signed
\* for its release; a journal that is there, or that the deployment writes, keeps
\* another one for the release it is bound to.
DeploymentInv ==
    /\ deployment # NOTHING =>
         /\ IsDeployment(deployment)
         /\ deployment.at # "validating" => Attests(deployment.file, deployment.sha)
         /\ deployment.at = "operating" =>
              /\ campaign.sha = deployment.sha
              /\ Attests(campaign.attestation, campaign.sha)
    /\ campaign # NOTHING => Attests(campaign.attestation, campaign.sha)

AttestationInv == ScreenAgrees /\ DeploymentInv

\* What the page does leaves the deployment alone.
LEMMA PageKeepsDeployment ==
    ASSUME DeploymentInv, UNCHANGED <<deployment, campaign>>
    PROVE  DeploymentInv'
  BY DEF DeploymentInv, IsDeployment, Attests

\* And the deployment leaves the page alone.
LEMMA DeploymentKeepsScreen ==
    ASSUME ScreenAgrees, UNCHANGED pageState
    PROVE  ScreenAgrees'
  BY DEF ScreenAgrees, pageState

LEMMA AttestationStarts == AttestationInit => AttestationInv
  BY DEF AttestationInit, AttestationInv, ScreenAgrees, DeploymentInv

\* An answer of the wallet lands on the message it was asked for, since nothing but
\* loading the page again replaces the message while the request is open.
LEMMA PageKeepsScreen ==
    ASSUME ScreenAgrees, NEW sha,
           \/ Open(sha) \/ EditSha(sha) \/ prepareReview \/ connectTreasury
           \/ Connected \/ signAttestation \/ SignedByWallet \/ Cancelled
    PROVE  ScreenAgrees' /\ UNCHANGED <<deployment, campaign>>
<1>1. CASE Open(sha)
  BY <1>1 DEF Open, ScreenAgrees
<1>2. CASE EditSha(sha)
  BY <1>2 DEF EditSha, ScreenAgrees, Idle
<1>3. CASE prepareReview
  BY <1>3 DEF prepareReview, ScreenAgrees, Idle, createTreasuryAttestationDraft
<1>4. CASE connectTreasury
  BY <1>4 DEF connectTreasury, ScreenAgrees, Idle
<1>5. CASE Connected
  BY <1>5 DEF Connected, ScreenAgrees
<1>6. CASE signAttestation
  BY <1>6 DEF signAttestation, ScreenAgrees, Idle
<1>7. CASE SignedByWallet
  BY <1>7 DEF SignedByWallet, ScreenAgrees, createVerifiedTreasuryAttestationReceipt
<1>8. CASE Cancelled
  BY <1>8 DEF Cancelled, ScreenAgrees, Idle
<1> QED
  BY <1>1, <1>2, <1>3, <1>4, <1>5, <1>6, <1>7, <1>8

\* The release of a deployment is the one its receipt and its journal are for.
LEMMA DeploymentStays ==
    ASSUME DeploymentInv, NEW sha, Release(sha) \/ Attest \/ OpenJournal \/ End
    PROVE  DeploymentInv'
<1>1. CASE Release(sha)
  BY <1>1 DEF Release, Step, DeploymentInv, IsDeployment, Attests
<1>2. CASE Attest
  <2>1. deployment' = [at |-> "attested", sha |-> deployment.sha, file |-> saved]
    BY <1>2 DEF Attest, Step, DeploymentInv, IsDeployment
  <2>2. Attests(saved, deployment.sha)
    BY <1>2 DEF Attest, verifyTreasuryAttestation, Attests
  <2> QED
    BY <1>2, <2>1, <2>2 DEF Attest, DeploymentInv, IsDeployment, Attests
<1>3. CASE OpenJournal
  <2>1. deployment' = [at |-> "operating", sha |-> deployment.sha,
                       file |-> deployment.file]
    BY <1>3 DEF OpenJournal, Step, DeploymentInv, IsDeployment
  <2>2. Attests(deployment.file, deployment.sha)
    BY <1>3 DEF OpenJournal, DeploymentInv
  <2>3. campaign'.sha = deployment.sha /\ Attests(campaign'.attestation, deployment.sha)
    BY <1>3, <2>2 DEF OpenJournal, IsBound, DeploymentInv, Attests
  <2> QED
    BY <2>1, <2>2, <2>3 DEF DeploymentInv, IsDeployment, Attests
<1>4. CASE End
  BY <1>4 DEF End, Step, DeploymentInv, Attests
<1> QED
  BY <1>1, <1>2, <1>3, <1>4

LEMMA AttestationSteps ==
    ASSUME AttestationInv, AttestationNext
    PROVE  AttestationInv'
<1> USE DEF AttestationInv
<1>1. CASE \E sha \in Shas \cup {NOTHING} : Open(sha) \/ EditSha(sha)
  BY <1>1, PageKeepsScreen, PageKeepsDeployment
<1>2. CASE \/ prepareReview \/ connectTreasury \/ Connected
           \/ signAttestation \/ SignedByWallet \/ Cancelled
  BY <1>2, PageKeepsScreen, PageKeepsDeployment
<1>3. CASE \/ downloadReceipt \/ TimePasses
           \/ \E account \in WalletAccounts : SelectAccount(account)
  BY <1>3, DeploymentKeepsScreen, PageKeepsDeployment
     DEF downloadReceipt, TimePasses, SelectAccount
<1>4. CASE \E sha \in Shas : Checkout(sha)
  BY <1>4, DeploymentKeepsScreen, PageKeepsDeployment DEF Checkout
<1>5. CASE (\E sha \in Shas : Release(sha)) \/ Attest \/ OpenJournal \/ End
  <2>1. UNCHANGED pageState
    BY <1>5 DEF Release, Attest, OpenJournal, End, Step
  <2> QED
    BY <1>5, <2>1, DeploymentKeepsScreen, DeploymentStays
<1> QED
  BY <1>1, <1>2, <1>3, <1>4, <1>5 DEF AttestationNext

\* In every state of the page and of a deployment the message on the screen is the one
\* the wallet signs and the receipt is for, and a deployment that may sign transactions
\* deploys the release that the treasury's account signed for: the wallet may be on
\* another account, the release may be checked out anew, and the receipt saved long ago.
THEOREM ApprovedIsShown == AttestationSpec => []ApprovedAsShown
<1>1. AttestationInv /\ [AttestationNext]_attestationVars => AttestationInv'
  <2> SUFFICES ASSUME AttestationInv, [AttestationNext]_attestationVars
               PROVE  AttestationInv'
    OBVIOUS
  <2>1. CASE AttestationNext
    BY <2>1, AttestationSteps
  <2>2. CASE UNCHANGED attestationVars
    BY <2>2, DeploymentKeepsScreen, PageKeepsDeployment
       DEF AttestationInv, attestationVars
  <2> QED
    BY <2>1, <2>2
<1>2. AttestationInv => ApprovedAsShown
  BY DEF AttestationInv, ApprovedAsShown, DeployedAsAttested, DeploymentInv, Attests
<1> QED
  BY AttestationStarts, <1>1, <1>2, PTL DEF AttestationSpec

-----------------------------------------------------------------------------
(* The marketplace: the inductive invariant *)

\* An agent has had its wallet.
AgentsInv ==
    /\ agents \in Seq(Agents)
    /\ \A id \in DOMAIN agents : agents[id].wallet \in agents[id].had

HasApplied(w) == applications[w] # NOTHING

\* Who has applied is at exactly one index.
SlotsInv ==
    /\ applications \in [Users -> Applications \cup {NOTHING}]
    /\ slots \in Seq(Users)
    /\ \A i, j \in DOMAIN slots : slots[i] = slots[j] => i = j
    /\ \A i \in DOMAIN slots : HasApplied(slots[i])
    /\ \A w \in Users : HasApplied(w) => \E i \in DOMAIN slots : slots[i] = w

JobInv ==
    /\ job = [status |-> job.status, provider |-> job.provider, fromList |-> job.fromList]
    /\ job.fromList =>
         job.provider \in Users \ JobParties /\ HasApplied(job.provider)

IsReading(r) ==
    r = [at |-> r.at, left |-> r.left, got |-> r.got, ever |-> r.ever,
         always |-> r.always]

\* An entry of a list is an index with who is there.
IsEntry(entry) == \E i \in DOMAIN slots : entry = <<i, slots[i]>>

\* A reading has got, or is still to ask for, everybody who was applying all along,
\* and has got nobody who never was.
GetsEverybody(r) ==
    /\ Applicants \subseteq r.ever /\ r.always \subseteq Applicants
    /\ IsFiniteSet(r.got)
    /\ \A entry \in r.got : IsEntry(entry) /\ entry[2] \in r.ever
    /\ r.at = "slots" =>
         \A i \in DOMAIN slots :
             slots[i] \in r.always => i \in r.left \/ <<i, slots[i]>> \in r.got
ReadingInv(r) == r # NOTHING => IsReading(r) /\ GetsEverybody(r)
ReadingsInv ==
    /\ readings = [l \in Loads |-> readings[l]]
    /\ \A l \in Loads : ReadingInv(readings[l])

ListInv ==
    /\ list.isTrue
    /\ IsFiniteSet(list.entries)
    /\ \A entry \in list.entries : IsEntry(entry)

\* What is asked of the wallet, or waits for its block, by the names of the calls that
\* write a wallet or assign the job.
CallInv(call) ==
    /\ call.name = "register-agent" => call.wallet \in Users
    /\ call.name = "update-agent" =>
         call.id \in DOMAIN agents /\ call.wallet \in agents[call.id].had
    /\ call.name = "assign-provider" => call.wallet \in Users /\ HasApplied(call.wallet)
CallsInv ==
    /\ tabAccount \in Users
    /\ asked # NOTHING => CallInv(asked)
    /\ \A tx \in sent : CallInv(tx.call) /\ tx.by \in Users

\* The form holds a wallet that the agent it edits has had, as does the roster.
DeskInv ==
    /\ DOMAIN desk = {"roster", "showForm", "editing", "wallet"}
    /\ \A id \in DOMAIN desk.roster :
         id \in DOMAIN agents /\ desk.roster[id].wallet \in agents[id].had
    /\ desk.editing # NOTHING =>
         desk.editing \in DOMAIN agents /\ desk.wallet \in agents[desk.editing].had

\* While a registration is asked for, nothing is being edited.
FormInv ==
    asked # NOTHING /\ asked.name = "register-agent" => desk.editing = NOTHING

BoardInv == AgentsInv /\ SlotsInv /\ JobInv
MarketInv == BoardInv /\ ReadingsInv /\ ListInv /\ CallsInv /\ DeskInv /\ FormInv

-----------------------------------------------------------------------------
(* The marketplace: the registries *)

\* Agents and the wallets they have had are never removed.
AgentsGrow ==
    \A id \in DOMAIN agents : id \in DOMAIN agents' /\ agents[id].had \subseteq agents'[id].had

\* Neither is who applied, and a new index is of somebody who was not applying.
SlotsGrow ==
    /\ \A i \in DOMAIN slots : i \in DOMAIN slots' /\ slots'[i] = slots[i]
    /\ \A i \in DOMAIN slots' : i \notin DOMAIN slots => slots'[i] \notin Applicants
    /\ \A w \in Users : HasApplied(w) => HasApplied(w)'

LEMMA RegisterStays ==
    ASSUME AgentsInv, NEW by \in Users, NEW w \in Users, register_agent(by, w)
    PROVE  AgentsInv' /\ AgentsGrow
<1> PICK agent : agent = NewAgent(by, w)
  OBVIOUS
<1>1. agent \in Agents /\ agent.wallet \in agent.had
  BY DEF NewAgent, Agents
<1>2. agents' = Append(agents, agent) /\ agents \in Seq(Agents)
  BY DEF register_agent, AgentsInv
<1>3. /\ agents' \in Seq(Agents) /\ DOMAIN agents' = DOMAIN agents \cup {Len(agents) + 1}
      /\ \A id \in DOMAIN agents : agents'[id] = agents[id]
      /\ agents'[Len(agents) + 1] = agent
  BY <1>1, <1>2
<1> QED
  BY <1>1, <1>3 DEF AgentsInv, AgentsGrow

\* An agent is replaced by one that has had all its wallets.
LEMMA AgentReplaced ==
    ASSUME AgentsInv, NEW id \in DOMAIN agents, NEW agent \in Agents,
           agent.wallet \in agent.had, agents[id].had \subseteq agent.had,
           agents' = [agents EXCEPT ![id] = agent]
    PROVE  AgentsInv' /\ AgentsGrow
<1>1. /\ agents' \in Seq(Agents) /\ DOMAIN agents' = DOMAIN agents
      /\ agents'[id] = agent
      /\ \A i \in DOMAIN agents : i # id => agents'[i] = agents[i]
  BY DEF AgentsInv
<1> QED
  BY <1>1 DEF AgentsInv, AgentsGrow

LEMMA AgentIs ==
    ASSUME NEW agent \in Agents
    PROVE  /\ agent = [creator |-> agent.creator, wallet |-> agent.wallet,
                       active |-> agent.active, had |-> agent.had]
           /\ agent.creator \in Users /\ agent.wallet \in Users
           /\ agent.active \in BOOLEAN /\ agent.had \subseteq Users
  BY DEF Agents

LEMMA UpdateStays ==
    ASSUME AgentsInv, NEW by \in Users, NEW id, NEW w \in Users,
           update_agent(by, id, w)
    PROVE  AgentsInv' /\ AgentsGrow
<1>1. id \in DOMAIN agents /\ agents[id] \in Agents
  BY DEF update_agent, IsCreator, AgentsInv
<1> PICK old : old = agents[id]
  OBVIOUS
<1> PICK new : new = [creator |-> old.creator, wallet |-> w, active |-> old.active,
                      had |-> old.had \cup {w}]
  OBVIOUS
<1>2. old \in Agents /\ old.had \subseteq Users
  BY <1>1, AgentIs
<1>3. new \in Agents
  BY <1>2 DEF Agents
<1>4. [[old EXCEPT !.wallet = w] EXCEPT !.had = old.had \cup {w}] = new
  <2> PICK a : a = [creator |-> old.creator, wallet |-> w, active |-> old.active,
                    had |-> old.had]
    OBVIOUS
  <2>1. [old EXCEPT !.wallet = w] =
          [[creator |-> old.creator, wallet |-> old.wallet, active |-> old.active,
            had |-> old.had] EXCEPT !.wallet = w]
    BY <1>2, AgentIs, Zenon
  <2>2. [old EXCEPT !.wallet = w] = a
    BY <2>1
  <2>3. [a EXCEPT !.had = old.had \cup {w}] = new
    OBVIOUS
  <2> QED
    BY <2>2, <2>3, Zenon
<1>5. agents' = [agents EXCEPT ![id] = new]
  BY <1>1, <1>4 DEF update_agent
<1> QED
  BY <1>1, <1>2, <1>3, <1>5, AgentReplaced

LEMMA ActiveReplaced ==
    ASSUME NEW agent \in Agents, NEW x
    PROVE  [agent EXCEPT !.active = x] =
             [creator |-> agent.creator, wallet |-> agent.wallet, active |-> x,
              had |-> agent.had]
<1>1. [agent EXCEPT !.active = x] =
        [[creator |-> agent.creator, wallet |-> agent.wallet, active |-> agent.active,
          had |-> agent.had] EXCEPT !.active = x]
  BY AgentIs, Zenon
<1> QED
  BY <1>1

LEMMA DeactivateStays ==
    ASSUME AgentsInv, NEW by \in Users, NEW id, deactivate_agent(by, id)
    PROVE  AgentsInv' /\ AgentsGrow
<1>1. id \in DOMAIN agents /\ agents[id] \in Agents /\ agents[id].wallet \in agents[id].had
  BY DEF deactivate_agent, IsCreator, AgentsInv
<1> PICK old : old = agents[id]
  OBVIOUS
<1> PICK new : new = [creator |-> old.creator, wallet |-> old.wallet, active |-> FALSE,
                      had |-> old.had]
  OBVIOUS
<1>2. old \in Agents
  BY <1>1
<1>3. new \in Agents
  BY <1>2 DEF Agents
<1>4. [old EXCEPT !.active = FALSE] = new
  BY <1>2, ActiveReplaced, Zenon
<1>5. agents' = [agents EXCEPT ![id] = new]
  BY <1>1, <1>4 DEF deactivate_agent
<1> QED
  BY <1>1, <1>3, <1>5, AgentReplaced

LEMMA ApplicationIs ==
    ASSUME NEW id \in Nat, NEW isActive \in BOOLEAN
    PROVE  /\ [agent |-> id, active |-> isActive] \in Applications
           /\ [agent |-> id, active |-> isActive] # NOTHING
  BY ApplicationsAssumption DEF Applications

\* An application is active again, or takes the next index.
LEMMA ApplyStays ==
    ASSUME AgentsInv, SlotsInv, NEW by \in Users, NEW id, apply_to_job(by, id)
    PROVE  SlotsInv' /\ SlotsGrow
<1> PICK new : new = [agent |-> id, active |-> TRUE]
  OBVIOUS
<1>1. id \in Nat
  BY DEF apply_to_job, MayApply, AgentsInv
<1>2. new \in Applications /\ new # NOTHING
  <2>1. TRUE \in BOOLEAN
    BY Zenon
  <2> QED
    BY <1>1, <2>1, ApplicationIs, Zenon
<1>3. /\ applications' \in [Users -> Applications \cup {NOTHING}]
      /\ applications'[by] = new
      /\ \A w \in Users : w # by => applications'[w] = applications[w]
  BY <1>2 DEF apply_to_job, SlotsInv
<1>4. \A w \in Users : HasApplied(w)' <=> HasApplied(w) \/ w = by
  BY <1>2, <1>3 DEF HasApplied
<1>5. CASE applications[by] = NOTHING
  <2>1. slots' = Append(slots, by) /\ slots \in Seq(Users)
    BY <1>5 DEF apply_to_job, TakesSlot, SlotsInv
  <2>2. /\ slots' \in Seq(Users) /\ DOMAIN slots' = DOMAIN slots \cup {Len(slots) + 1}
        /\ \A i \in DOMAIN slots : slots'[i] = slots[i]
        /\ slots'[Len(slots) + 1] = by
    BY <2>1
  <2>3. by \notin Applicants /\ \A i \in DOMAIN slots : slots[i] # by
    BY <1>5 DEF Applicants, Applying, SlotsInv, HasApplied
  <2>4. SlotsGrow
    BY <1>4, <2>2, <2>3 DEF SlotsGrow
  <2>5. \A i \in DOMAIN slots' : slots'[i] \in Users /\ HasApplied(slots[i])'
    BY <1>4, <2>2 DEF SlotsInv
  <2>6. \A i, j \in DOMAIN slots' : slots'[i] = slots'[j] => i = j
    BY <2>2, <2>3 DEF SlotsInv
  <2>7. \A w \in Users : HasApplied(w)' => \E i \in DOMAIN slots' : slots'[i] = w
    BY <1>4, <2>2 DEF SlotsInv
  <2> QED
    BY <1>3, <2>2, <2>4, <2>5, <2>6, <2>7 DEF SlotsInv
<1>6. CASE applications[by] # NOTHING
  <2>1. slots' = slots
    BY <1>6 DEF apply_to_job, TakesSlot
  <2>2. \A w \in Users : HasApplied(w)' <=> HasApplied(w)
    BY <1>4, <1>6 DEF HasApplied
  <2> QED
    BY <1>3, <2>1, <2>2 DEF SlotsInv, SlotsGrow
<1> QED
  BY <1>5, <1>6

LEMMA WithdrawnIs ==
    ASSUME NEW application \in Applications, NEW x
    PROVE  /\ application.agent \in Nat
           /\ [application EXCEPT !.active = x] = [agent |-> application.agent, active |-> x]
<1>1. /\ application.agent \in Nat
      /\ application = [agent |-> application.agent, active |-> application.active]
  BY DEF Applications
<1>2. [application EXCEPT !.active = x] =
        [[agent |-> application.agent, active |-> application.active] EXCEPT !.active = x]
  BY <1>1, Zenon
<1> QED
  BY <1>1, <1>2

LEMMA WithdrawStays ==
    ASSUME SlotsInv, NEW by \in Users, withdraw_application(by)
    PROVE  SlotsInv' /\ SlotsGrow
<1> PICK old : old = applications[by]
  OBVIOUS
<1> PICK new : new = [agent |-> old.agent, active |-> FALSE]
  OBVIOUS
<1>1. old \in Applications
  BY DEF withdraw_application, Applying, SlotsInv
<1>2. [old EXCEPT !.active = FALSE] = new /\ new \in Applications
  <2>1. [old EXCEPT !.active = FALSE] = new /\ old.agent \in Nat
    BY <1>1, WithdrawnIs, Zenon
  <2>2. FALSE \in BOOLEAN
    BY Zenon
  <2> QED
    BY <2>1, <2>2, ApplicationIs, Zenon
<1>3. /\ applications' \in [Users -> Applications \cup {NOTHING}]
      /\ applications'[by] = new
      /\ \A w \in Users : w # by => applications'[w] = applications[w]
  BY <1>2 DEF withdraw_application, SlotsInv
<1>4. new # NOTHING /\ old # NOTHING
  BY <1>1, <1>2, ApplicationsAssumption
<1>5. \A w \in Users : HasApplied(w)' <=> HasApplied(w)
  BY <1>3, <1>4 DEF HasApplied
<1>6. slots' = slots
  BY DEF withdraw_application
<1> QED
  BY <1>3, <1>5, <1>6 DEF SlotsInv, SlotsGrow

LEMMA FundStays ==
    ASSUME JobInv, NEW by, fund_job(by)
    PROVE  JobInv'
<1> PICK new : new = [status |-> 1, provider |-> job.provider, fromList |-> job.fromList]
  OBVIOUS
<1>1. job' = [[status |-> job.status, provider |-> job.provider,
               fromList |-> job.fromList] EXCEPT !.status = 1]
  BY Zenon DEF fund_job, JobInv
<1>2. job' = new
  BY <1>1
<1> QED
  BY <1>2 DEF fund_job, JobInv, HasApplied

\* Only somebody who has applied is assigned from the list.
LEMMA AssignStays ==
    ASSUME JobInv, NEW by, NEW w \in Users, NEW fromList, assign_provider(by, w, fromList),
           fromList => HasApplied(w)
    PROVE  JobInv'
<1> PICK a : a = [status |-> job.status, provider |-> w, fromList |-> job.fromList]
  OBVIOUS
<1> PICK new : new = [status |-> job.status, provider |-> w, fromList |-> fromList]
  OBVIOUS
<1>1. job' = [[[status |-> job.status, provider |-> job.provider,
                fromList |-> job.fromList] EXCEPT !.provider = w]
                                           EXCEPT !.fromList = fromList]
  BY Zenon DEF assign_provider, JobInv
<1>2. [[status |-> job.status, provider |-> job.provider,
        fromList |-> job.fromList] EXCEPT !.provider = w] = a
  OBVIOUS
<1>3. [a EXCEPT !.fromList = fromList] = new
  OBVIOUS
<1>4. job' = new
  BY <1>1, <1>2, <1>3, Zenon
<1>5. w \notin JobParties
  BY DEF assign_provider
<1> QED
  BY <1>4, <1>5 DEF assign_provider, JobInv, HasApplied

LEMMA JobKept ==
    ASSUME JobInv, UNCHANGED job, SlotsGrow
    PROVE  JobInv'
  BY DEF JobInv, SlotsGrow, HasApplied

\* What every step does to the registries and the job.
BoardStays == BoardInv' /\ AgentsGrow /\ SlotsGrow

LEMMA AgentsKept ==
    ASSUME AgentsInv, UNCHANGED agents PROVE AgentsInv' /\ AgentsGrow
  BY DEF AgentsInv, AgentsGrow

LEMMA SlotsKept ==
    ASSUME SlotsInv, UNCHANGED <<applications, slots>> PROVE SlotsInv' /\ SlotsGrow
  BY DEF SlotsInv, SlotsGrow, HasApplied

LEMMA BoardKept ==
    ASSUME BoardInv, UNCHANGED boardVars
    PROVE  BoardStays
<1>1. UNCHANGED agents /\ UNCHANGED <<applications, slots>> /\ UNCHANGED job
  BY DEF boardVars
<1> QED
  BY <1>1, AgentsKept, SlotsKept, JobKept DEF BoardStays, BoardInv

LEMMA AgentsCalled ==
    ASSUME BoardInv, NEW by \in Users, NEW w \in Users, NEW id,
           register_agent(by, w) \/ update_agent(by, id, w) \/ deactivate_agent(by, id)
    PROVE  BoardStays
<1>1. UNCHANGED <<applications, slots>> /\ UNCHANGED job
  BY DEF register_agent, update_agent, deactivate_agent
<1> QED
  BY <1>1, RegisterStays, UpdateStays, DeactivateStays, SlotsKept, JobKept
     DEF BoardStays, BoardInv

\* Calls that name no wallet.
LEMMA ApplicationsCalled ==
    ASSUME BoardInv, NEW by \in Users, NEW id,
           apply_to_job(by, id) \/ withdraw_application(by) \/ deactivate_agent(by, id)
    PROVE  BoardStays
<1>1. CASE apply_to_job(by, id) \/ withdraw_application(by)
  <2>1. UNCHANGED agents /\ UNCHANGED job
    BY <1>1 DEF apply_to_job, withdraw_application
  <2> QED
    BY <1>1, <2>1, ApplyStays, WithdrawStays, AgentsKept, JobKept DEF BoardStays, BoardInv
<1>2. CASE deactivate_agent(by, id)
  BY <1>2, AgentsCalled
<1> QED
  BY <1>1, <1>2

LEMMA JobCalled ==
    ASSUME BoardInv, NEW by \in Users, NEW w \in Users, NEW fromList,
           fund_job(by) \/ assign_provider(by, w, fromList), fromList => HasApplied(w)
    PROVE  BoardStays
<1>1. UNCHANGED agents /\ UNCHANGED <<applications, slots>>
  BY DEF fund_job, assign_provider
<1> QED
  BY <1>1, FundStays, AssignStays, AgentsKept, SlotsKept DEF BoardStays, BoardInv

LEMMA ElsewhereStays ==
    ASSUME BoardInv, NEW by \in Users, CallElsewhere(by)
    PROVE  BoardStays
<1>1. CASE configure(by)
  <2>1. UNCHANGED agents /\ UNCHANGED <<applications, slots>> /\ UNCHANGED job
    BY <1>1 DEF configure
  <2> QED
    BY <2>1, AgentsKept, SlotsKept, JobKept DEF BoardStays, BoardInv
<1>2. CASE fund_job(by)
  BY <1>2, JobCalled
<1>3. CASE \/ withdraw_application(by)
           \/ \E id \in DOMAIN agents : apply_to_job(by, id) \/ deactivate_agent(by, id)
  BY <1>3, ApplicationsCalled
<1>4. ASSUME NEW w \in Users, assign_provider(by, w, FALSE) PROVE BoardStays
  <2> PICK fromList : fromList = FALSE
    OBVIOUS
  <2>1. assign_provider(by, w, fromList)
    BY <1>4
  <2> QED
    BY <2>1, JobCalled
<1>5. CASE \E w \in Users : register_agent(by, w)
  BY <1>5, AgentsCalled
<1>6. CASE \E w \in Users, id \in DOMAIN agents : update_agent(by, id, w)
  BY <1>6, AgentsCalled
<1> QED
  BY <1>1, <1>2, <1>3, <1>4, <1>5, <1>6 DEF CallElsewhere

\* A call of the tab keeps to what was asked for.
LEMMA ExecutesStays ==
    ASSUME BoardInv, NEW call, CallInv(call), NEW by \in Users,
           Executes(call, by)
    PROVE  BoardStays
<1>1. CASE call.name = "register-agent" /\ register_agent(by, call.wallet)
  BY <1>1, AgentsCalled DEF CallInv
<1>2. CASE call.name = "update-agent" /\ update_agent(by, call.id, call.wallet)
  <2>1. call.wallet \in Users
    BY <1>2, AgentIs DEF CallInv, BoardInv, AgentsInv
  <2> QED
    BY <1>2, <2>1, AgentsCalled
<1>3. CASE \/ call.name = "deactivate-agent" /\ deactivate_agent(by, call.id)
           \/ call.name = "apply-to-job" /\ apply_to_job(by, call.id)
           \/ call.name = "withdraw-application" /\ withdraw_application(by)
  BY <1>3, ApplicationsCalled
<1>4. CASE call.name = "assign-provider" /\ assign_provider(by, call.wallet, TRUE)
  <2> PICK fromList : fromList = TRUE
    OBVIOUS
  <2>1. assign_provider(by, call.wallet, fromList)
    BY <1>4
  <2>2. call.wallet \in Users /\ HasApplied(call.wallet)
    BY <1>4 DEF CallInv
  <2> QED
    BY <2>1, <2>2, JobCalled
<1> QED
  BY <1>1, <1>2, <1>3, <1>4 DEF Executes

-----------------------------------------------------------------------------
(* The marketplace: what the tab has of them *)

\* Readings that are under way while somebody calls.
LEMMA ReadingWatched ==
    ASSUME SlotsInv, SlotsInv', SlotsGrow, NEW r, r # NOTHING, ReadingInv(r), NEW n,
           n = [at |-> r.at, left |-> r.left, got |-> r.got,
                ever |-> r.ever \cup Applicants', always |-> r.always \cap Applicants']
    PROVE  ReadingInv(n)'
<1>1. IsReading(r) /\ GetsEverybody(r)
  BY DEF ReadingInv
<1>2. IsReading(n)
  BY DEF IsReading
<1>3. Applicants' \subseteq n.ever /\ n.always \subseteq Applicants' /\ IsFiniteSet(n.got)
  BY <1>1 DEF GetsEverybody
<1>4. ASSUME NEW entry \in n.got PROVE IsEntry(entry)' /\ entry[2] \in n.ever
  BY <1>1 DEF GetsEverybody, IsEntry, SlotsGrow
<1>5. ASSUME n.at = "slots", NEW i \in DOMAIN slots', slots'[i] \in n.always
      PROVE  i \in n.left \/ <<i, slots'[i]>> \in n.got
  <2>1. slots'[i] \in Applicants /\ slots'[i] \in r.always
    BY <1>1, <1>5 DEF GetsEverybody
  <2>2. i \in DOMAIN slots /\ slots'[i] = slots[i]
    BY <2>1 DEF SlotsGrow
  <2> QED
    BY <1>1, <1>5, <2>1, <2>2 DEF GetsEverybody
<1> QED
  BY <1>2, <1>3, <1>4, <1>5 DEF ReadingInv, IsReading, GetsEverybody

\* A reading with one of its fields replaced.
LEMMA ReadingAt ==
    ASSUME NEW r, IsReading(r), NEW x
    PROVE  /\ [r EXCEPT !.at = x] =
                [at |-> x, left |-> r.left, got |-> r.got,
                 ever |-> r.ever, always |-> r.always]
           /\ IsReading([r EXCEPT !.at = x])
<1> PICK n : n = [r EXCEPT !.at = x]
  OBVIOUS
<1>1. n = [[at |-> r.at, left |-> r.left, got |-> r.got,
            ever |-> r.ever, always |-> r.always]
             EXCEPT !.at = x]
  BY Zenon DEF IsReading
<1>2. n = [at |-> x, left |-> r.left, got |-> r.got,
           ever |-> r.ever, always |-> r.always]
  BY <1>1
<1> QED
  BY <1>2 DEF IsReading

LEMMA ReadingLeft ==
    ASSUME NEW r, IsReading(r), NEW x
    PROVE  /\ [r EXCEPT !.left = x] =
                [at |-> r.at, left |-> x, got |-> r.got,
                 ever |-> r.ever, always |-> r.always]
           /\ IsReading([r EXCEPT !.left = x])
<1> PICK n : n = [r EXCEPT !.left = x]
  OBVIOUS
<1>1. n = [[at |-> r.at, left |-> r.left, got |-> r.got,
            ever |-> r.ever, always |-> r.always]
             EXCEPT !.left = x]
  BY Zenon DEF IsReading
<1>2. n = [at |-> r.at, left |-> x, got |-> r.got,
           ever |-> r.ever, always |-> r.always]
  BY <1>1
<1> QED
  BY <1>2 DEF IsReading

LEMMA ReadingGot ==
    ASSUME NEW r, IsReading(r), NEW x
    PROVE  /\ [r EXCEPT !.got = x] =
                [at |-> r.at, left |-> r.left, got |-> x,
                 ever |-> r.ever, always |-> r.always]
           /\ IsReading([r EXCEPT !.got = x])
<1> PICK n : n = [r EXCEPT !.got = x]
  OBVIOUS
<1>1. n = [[at |-> r.at, left |-> r.left, got |-> r.got,
            ever |-> r.ever, always |-> r.always]
             EXCEPT !.got = x]
  BY Zenon DEF IsReading
<1>2. n = [at |-> r.at, left |-> r.left, got |-> x,
           ever |-> r.ever, always |-> r.always]
  BY <1>1
<1> QED
  BY <1>2 DEF IsReading

LEMMA ReadingEver ==
    ASSUME NEW r, IsReading(r), NEW x
    PROVE  /\ [r EXCEPT !.ever = x] =
                [at |-> r.at, left |-> r.left, got |-> r.got,
                 ever |-> x, always |-> r.always]
           /\ IsReading([r EXCEPT !.ever = x])
<1> PICK n : n = [r EXCEPT !.ever = x]
  OBVIOUS
<1>1. n = [[at |-> r.at, left |-> r.left, got |-> r.got,
            ever |-> r.ever, always |-> r.always]
             EXCEPT !.ever = x]
  BY Zenon DEF IsReading
<1>2. n = [at |-> r.at, left |-> r.left, got |-> r.got,
           ever |-> x, always |-> r.always]
  BY <1>1
<1> QED
  BY <1>2 DEF IsReading

LEMMA ReadingAlways ==
    ASSUME NEW r, IsReading(r), NEW x
    PROVE  /\ [r EXCEPT !.always = x] =
                [at |-> r.at, left |-> r.left, got |-> r.got,
                 ever |-> r.ever, always |-> x]
           /\ IsReading([r EXCEPT !.always = x])
<1> PICK n : n = [r EXCEPT !.always = x]
  OBVIOUS
<1>1. n = [[at |-> r.at, left |-> r.left, got |-> r.got,
            ever |-> r.ever, always |-> r.always]
             EXCEPT !.always = x]
  BY Zenon DEF IsReading
<1>2. n = [at |-> r.at, left |-> r.left, got |-> r.got,
           ever |-> r.ever, always |-> x]
  BY <1>1
<1> QED
  BY <1>2 DEF IsReading

LEMMA ReadingsWatched ==
    ASSUME SlotsInv, SlotsInv', SlotsGrow, ReadingsInv, Watched(Applicants')
    PROVE  ReadingsInv'
<1>1. ASSUME NEW l \in Loads PROVE ReadingInv(readings[l])'
  <2> PICK r : r = readings[l]
    OBVIOUS
  <2>1. CASE r = NOTHING
    <3>1. readings'[l] = NOTHING
      BY <2>1 DEF Watched
    <3> QED
      BY <3>1 DEF ReadingInv
  <2>2. CASE r # NOTHING
    <3> PICK x : x = r.ever \cup Applicants'
      OBVIOUS
    <3> PICK y : y = r.always \cap Applicants'
      OBVIOUS
    <3> PICK a : a = [r EXCEPT !.ever = x]
      OBVIOUS
    <3> PICK n : n = [a EXCEPT !.always = y]
      OBVIOUS
    <3>1. ReadingInv(r) /\ IsReading(r)
      BY <2>2 DEF ReadingsInv, ReadingInv
    <3>2. /\ a = [at |-> r.at, left |-> r.left, got |-> r.got, ever |-> x,
                  always |-> r.always]
          /\ IsReading(a)
      BY <3>1, ReadingEver
    <3>3. n = [at |-> a.at, left |-> a.left, got |-> a.got, ever |-> a.ever,
               always |-> y]
      BY <3>2, ReadingAlways
    <3>4. n = [at |-> r.at, left |-> r.left, got |-> r.got,
               ever |-> r.ever \cup Applicants', always |-> r.always \cap Applicants']
      BY <3>2, <3>3
    <3>5. readings'[l] = n
      BY <2>2, <3>2 DEF Watched
    <3>6. ReadingInv(n)'
      BY <2>2, <3>1, <3>4, ReadingWatched
    <3> QED
      BY <3>5, <3>6 DEF ReadingInv, IsReading, GetsEverybody, IsEntry
  <2> QED
    BY <2>1, <2>2
<1> QED
  BY <1>1 DEF ReadingsInv, Watched

\* A reading of registries that stay as they are.
LEMMA ReadingKept ==
    ASSUME NEW r, ReadingInv(r), UNCHANGED boardVars
    PROVE  ReadingInv(r)'
  BY DEF ReadingInv, IsReading, GetsEverybody, IsEntry, Applicants, Applying, boardVars

LEMMA ReadingsKept ==
    ASSUME ReadingsInv, UNCHANGED boardVars, UNCHANGED readings
    PROVE  ReadingsInv'
<1>1. ASSUME NEW l \in Loads PROVE ReadingInv(readings[l])'
  <2> PICK r : r = readings[l]
    OBVIOUS
  <2>1. ReadingInv(r)'
    BY ReadingKept DEF ReadingsInv
  <2>2. readings'[l] = r
    OBVIOUS
  <2> QED
    BY <2>1, <2>2 DEF ReadingInv, IsReading, GetsEverybody, IsEntry
<1> QED
  BY <1>1 DEF ReadingsInv

\* One reading goes on.
LEMMA ReadingChanged ==
    ASSUME ReadingsInv, UNCHANGED boardVars, NEW l \in Loads, NEW n, OfList(l, n),
           ReadingInv(n)
    PROVE  ReadingsInv'
<1>1. readings' = [k \in Loads |-> IF k = l THEN n ELSE readings[k]]
  BY DEF OfList, ReadingsInv
<1>2. ASSUME NEW k \in Loads PROVE ReadingInv(readings[k])'
  <2> PICK r : r = IF k = l THEN n ELSE readings[k]
    OBVIOUS
  <2>1. ReadingInv(r)
    BY DEF ReadingsInv
  <2>2. ReadingInv(r)'
    BY <2>1, ReadingKept
  <2>3. readings'[k] = r
    BY <1>1
  <2> QED
    BY <2>2, <2>3 DEF ReadingInv, IsReading, GetsEverybody, IsEntry
<1> QED
  BY <1>1, <1>2 DEF ReadingsInv

LEMMA ListKept ==
    ASSUME ListInv, UNCHANGED list, SlotsGrow
    PROVE  ListInv'
  BY DEF ListInv, SlotsGrow, IsEntry

LEMMA CallKept ==
    ASSUME NEW call, CallInv(call), AgentsGrow, SlotsGrow
    PROVE  CallInv(call)'
  BY DEF CallInv, AgentsGrow, SlotsGrow, HasApplied

\* Nothing new is asked for, or it is a call that keeps to the registries.
LEMMA CallsChanged ==
    ASSUME CallsInv, AgentsGrow, SlotsGrow, tabAccount' \in Users,
           NEW call, asked' = call, call # NOTHING => CallInv(call),
           \A tx \in sent' : tx \in sent \/ (CallInv(tx.call) /\ tx.by \in Users)
    PROVE  CallsInv'
<1>1. ASSUME NEW tx \in sent' PROVE CallInv(tx.call)' /\ tx.by \in Users
  <2> PICK c : c = tx.call
    OBVIOUS
  <2>1. CallInv(c) /\ tx.by \in Users
    BY DEF CallsInv
  <2>2. CallInv(c)'
    BY <2>1, CallKept
  <2> QED
    BY <2>1, <2>2
<1>2. call # NOTHING => CallInv(call)'
  BY CallKept
<1> QED
  BY <1>1, <1>2 DEF CallsInv, CallInv, HasApplied

LEMMA CallsKept ==
    ASSUME CallsInv, AgentsGrow, SlotsGrow, UNCHANGED <<tabAccount, asked>>,
           sent' \subseteq sent
    PROVE  CallsInv'
<1> PICK call : call = asked
  OBVIOUS
<1>1. asked' = call /\ tabAccount' \in Users /\ (call # NOTHING => CallInv(call))
  BY DEF CallsInv
<1> QED
  BY <1>1, CallsChanged

LEMMA DeskKept ==
    ASSUME DeskInv, UNCHANGED desk, AgentsGrow
    PROVE  DeskInv'
  BY DEF DeskInv, AgentsGrow


-----------------------------------------------------------------------------
(* The marketplace: what the user does *)

\* A step that asks the wallet for something or for nothing, or drops a call.
LEMMA AskingStays ==
    ASSUME MarketInv, UNCHANGED boardVars, UNCHANGED <<list, readings, desk>>,
           sent' \subseteq sent, tabAccount' \in Users,
           NEW call, asked' = call, call # NOTHING => CallInv(call), FormInv'
    PROVE  MarketInv'
<1>1. BoardStays
  BY BoardKept DEF MarketInv
<1>2. BoardInv' /\ AgentsGrow /\ SlotsGrow
  BY <1>1 DEF BoardStays
<1>3. CallsInv'
  BY <1>2, CallsChanged DEF MarketInv
<1> QED
  BY <1>2, <1>3, ReadingsKept, ListKept, DeskKept DEF MarketInv

LEMMA RequestsStay ==
    ASSUME MarketInv,
           \/ Refused \/ SubmitApplication \/ Withdraw \/ handleRegister \/ handleUpdate
           \/ \E w \in Users : assignApplicant(w) \/ refreshUser(w)
           \/ \E id \in DOMAIN agents : handleDeactivate(id)
    PROVE  MarketInv'
<1> PICK call : call = asked'
  OBVIOUS
<1>1. /\ UNCHANGED boardVars /\ UNCHANGED <<list, readings, desk>> /\ sent' \subseteq sent
      /\ tabAccount' \in Users
  BY DEF Refused, SubmitApplication, Withdraw, handleRegister, handleUpdate,
         assignApplicant, refreshUser, handleDeactivate, listVars, tabVar, MarketInv,
         CallsInv
<1>2. (call # NOTHING => CallInv(call)) /\ FormInv'
  <2>1. CASE Refused
    BY <2>1 DEF Refused, FormInv
  <2>2. CASE SubmitApplication \/ Withdraw \/ \E id \in DOMAIN agents : handleDeactivate(id)
    BY <2>2 DEF SubmitApplication, Withdraw, handleDeactivate, AskFor, CallInv, FormInv
  <2>3. CASE handleRegister
    BY <2>3 DEF handleRegister, AskFor, CallInv, FormInv, MarketInv, CallsInv
  <2>4. CASE handleUpdate
    BY <2>4 DEF handleUpdate, AskFor, CallInv, FormInv, MarketInv, DeskInv
  <2>5. ASSUME NEW w \in Users, assignApplicant(w)
        PROVE  (call # NOTHING => CallInv(call)) /\ FormInv'
    <3>1. w \in Names
      BY <2>5 DEF assignApplicant, MayAssign
    <3>2. HasApplied(w)
      BY <3>1 DEF Names, NamesIn, MarketInv, ListInv, IsEntry, BoardInv, SlotsInv
    <3> QED
      BY <2>5, <3>2 DEF assignApplicant, AskFor, CallInv, FormInv
  <2>6. ASSUME NEW w \in Users, refreshUser(w)
        PROVE  (call # NOTHING => CallInv(call)) /\ FormInv'
    BY <2>6 DEF refreshUser, MarketInv, CallsInv, FormInv
  <2> QED
    BY <2>1, <2>2, <2>3, <2>4, <2>5, <2>6
<1> QED
  BY <1>1, <1>2, AskingStays

\* What happens on the card, in the searches and in the wallet's queue.
LEMMA CardStays ==
    ASSUME MarketInv,
           \/ ShowJob \/ TakeThisJob \/ (\E tx \in sent : Failed(tx))
           \/ \E id \in DOMAIN agents : ChooseAgent(id)
           \/ \E w \in Users : Expire(w)
           \/ \E f \in finds : \E found \in findAgentsByWallet(f.wallet) : Found(f, found)
    PROVE  MarketInv'
<1> PICK call : call = asked
  OBVIOUS
<1>1. /\ UNCHANGED boardVars /\ UNCHANGED <<list, readings, desk>> /\ sent' \subseteq sent
      /\ tabAccount' = tabAccount /\ asked' = call
  BY DEF ShowJob, TakeThisJob, Failed, ChooseAgent, Expire, Found, listVars, tabVar
<1>2. /\ tabAccount \in Users /\ (call # NOTHING => CallInv(call)) /\ FormInv'
  BY <1>1 DEF MarketInv, CallsInv, FormInv
<1> QED
  BY <1>1, <1>2, AskingStays

\* What happens in the readings of the list and on the page of the agents.
LEMMA TabStays ==
    ASSUME MarketInv, UNCHANGED boardVars, UNCHANGED <<tabAccount, asked, sent>>,
           ReadingsInv', ListInv', DeskInv', FormInv'
    PROVE  MarketInv'
<1>1. BoardStays
  BY BoardKept DEF MarketInv
<1>2. BoardInv' /\ AgentsGrow /\ SlotsGrow
  BY <1>1 DEF BoardStays
<1>3. CallsInv'
  BY <1>2, CallsKept DEF MarketInv
<1> QED
  BY <1>2, <1>3 DEF MarketInv

LEMMA BoardOnly ==
    ASSUME MarketInv, UNCHANGED boardVars
    PROVE  AgentsGrow /\ SlotsGrow
  BY BoardKept DEF MarketInv, BoardStays

\* A step of one reading.
LEMMA OneReading ==
    ASSUME MarketInv, NEW l \in Loads, NEW n, OfList(l, n), ReadingInv(n),
           UNCHANGED boardVars, UNCHANGED <<tabAccount, asked, sent, desk>>, ListInv'
    PROVE  MarketInv'
<1>1. ReadingsInv' /\ DeskInv'
  BY ReadingChanged, BoardOnly, DeskKept DEF MarketInv
<1>2. FormInv'
  BY DEF MarketInv, FormInv
<1> QED
  BY <1>1, <1>2, TabStays

LEMMA LoadApplicationsStays ==
    ASSUME MarketInv, NEW l \in Loads, LoadApplications(l)
    PROVE  MarketInv'
<1> PICK n : n = [at |-> "count", left |-> {}, got |-> {}, ever |-> Applicants,
                  always |-> Applicants]
  OBVIOUS
<1>1. /\ UNCHANGED boardVars /\ UNCHANGED <<tabAccount, asked, sent, desk>>
      /\ UNCHANGED list /\ OfList(l, n)
  BY DEF LoadApplications, tabVar
<1>2. ReadingInv(n)
  <2>1. IsFiniteSet({})
    BY FS_EmptySet
  <2> QED
    BY <2>1 DEF ReadingInv, IsReading, GetsEverybody
<1>3. ListInv'
  BY <1>1, BoardOnly, ListKept DEF MarketInv
<1> QED
  BY <1>1, <1>2, <1>3, OneReading

\* From the count on, everybody who is applying is at an index that is asked for.
LEMMA CountStays ==
    ASSUME MarketInv, NEW l \in Loads, getApplicationCount(l)
    PROVE  MarketInv'
<1> PICK r : r = readings[l]
  OBVIOUS
<1> PICK a : a = [r EXCEPT !.at = "slots"]
  OBVIOUS
<1> PICK n : n = [a EXCEPT !.left = DOMAIN slots]
  OBVIOUS
<1>1. /\ UNCHANGED boardVars /\ UNCHANGED <<tabAccount, asked, sent, desk>>
      /\ UNCHANGED list /\ OfList(l, n) /\ r # NOTHING
  BY DEF getApplicationCount, tabVar, AtLoad
<1>2. IsReading(r) /\ GetsEverybody(r)
  BY <1>1 DEF MarketInv, ReadingsInv, ReadingInv
<1>3. /\ a = [at |-> "slots", left |-> r.left, got |-> r.got, ever |-> r.ever,
              always |-> r.always]
      /\ IsReading(a)
  BY <1>2, ReadingAt
<1>4. /\ n = [at |-> a.at, left |-> DOMAIN slots, got |-> a.got, ever |-> a.ever,
              always |-> a.always]
      /\ IsReading(n)
  BY <1>3, ReadingLeft
<1>5. /\ n.at = "slots" /\ n.left = DOMAIN slots /\ n.got = r.got /\ n.ever = r.ever
      /\ n.always = r.always
  BY <1>3, <1>4
<1>6. ReadingInv(n)
  BY <1>2, <1>4, <1>5 DEF ReadingInv, GetsEverybody
<1>7. ListInv'
  BY <1>1, BoardOnly, ListKept DEF MarketInv
<1> QED
  BY <1>1, <1>6, <1>7, OneReading

\* Whoever is applying when its index is read is got, and nobody else.
LEMMA ApplicantStays ==
    ASSUME MarketInv, NEW l \in Loads, NEW index \in DOMAIN slots, getApplicantAt(l, index)
    PROVE  MarketInv'
<1> PICK r : r = readings[l]
  OBVIOUS
<1> PICK new : new = IF Applying(slots[index]) THEN {<<index, slots[index]>>} ELSE {}
  OBVIOUS
<1> PICK left : left = r.left \ {index}
  OBVIOUS
<1> PICK got : got = r.got \cup new
  OBVIOUS
<1> PICK a : a = [r EXCEPT !.left = left]
  OBVIOUS
<1> PICK n : n = [a EXCEPT !.got = got]
  OBVIOUS
<1>1. /\ UNCHANGED boardVars /\ UNCHANGED <<tabAccount, asked, sent, desk>>
      /\ UNCHANGED list /\ r # NOTHING /\ r.at = "slots"
      /\ OfList(l, [[r EXCEPT !.left = left] EXCEPT !.got = got])
  BY DEF getApplicantAt, tabVar, AtLoad
<1>2. IsReading(r) /\ GetsEverybody(r)
  BY <1>1 DEF MarketInv, ReadingsInv, ReadingInv
<1>3. /\ a = [at |-> r.at, left |-> left, got |-> r.got, ever |-> r.ever,
              always |-> r.always]
      /\ IsReading(a)
  BY <1>2, ReadingLeft
<1>4. /\ n = [at |-> a.at, left |-> a.left, got |-> got, ever |-> a.ever,
              always |-> a.always]
      /\ IsReading(n)
  BY <1>3, ReadingGot
<1>5. /\ n.at = r.at /\ n.left = left /\ n.got = got /\ n.ever = r.ever
      /\ n.always = r.always
  BY <1>3, <1>4
<1>6. IsFiniteSet(got)
  <2>1. CASE Applying(slots[index])
    BY <1>2, <2>1, FS_AddElement DEF GetsEverybody
  <2>2. CASE ~Applying(slots[index])
    <3>1. got = r.got
      BY <2>2
    <3> QED
      BY <1>2, <3>1 DEF GetsEverybody
  <2> QED
    BY <2>1, <2>2
<1>7. ASSUME NEW entry \in got PROVE IsEntry(entry) /\ entry[2] \in r.ever
  <2>1. CASE entry \in r.got
    BY <1>2, <2>1 DEF GetsEverybody
  <2>2. CASE entry \notin r.got
    <3>1. entry = <<index, slots[index]>> /\ Applying(slots[index])
      BY <2>2
    <3>2. slots[index] \in Applicants
      BY <3>1 DEF Applicants, MarketInv, BoardInv, SlotsInv
    <3> QED
      BY <1>2, <3>1, <3>2 DEF IsEntry, GetsEverybody
  <2> QED
    BY <2>1, <2>2
<1>8. ASSUME NEW i \in DOMAIN slots, slots[i] \in r.always
      PROVE  i \in left \/ <<i, slots[i]>> \in got
  <2>1. CASE i = index
    <3>1. Applying(slots[index])
      BY <1>2, <1>8, <2>1 DEF GetsEverybody, Applicants
    <3> QED
      BY <2>1, <3>1
  <2>2. CASE i # index
    BY <1>1, <1>2, <1>8, <2>2 DEF GetsEverybody
  <2> QED
    BY <2>1, <2>2
<1>9. ReadingInv(n)
  BY <1>2, <1>4, <1>5, <1>6, <1>7, <1>8 DEF ReadingInv, GetsEverybody
<1>10. ListInv'
  BY <1>1, BoardOnly, ListKept DEF MarketInv
<1>11. OfList(l, n)
  BY <1>1
<1> QED
  BY <1>1, <1>9, <1>10, <1>11, OneReading

\* With nothing left to ask for, a reading has got everybody who applied all along.
LEMMA ListedStays ==
    ASSUME MarketInv, NEW l \in Loads, ApplicationsListed(l)
    PROVE  MarketInv'
<1> PICK r : r = readings[l]
  OBVIOUS
<1>1. /\ UNCHANGED boardVars /\ UNCHANGED <<tabAccount, asked, sent, desk>>
      /\ OfList(l, NOTHING) /\ r # NOTHING /\ r.at = "slots" /\ r.left = {}
      /\ list' = [entries |-> r.got, isTrue |-> IsTrueOf(r)]
  BY DEF ApplicationsListed, tabVar, AtLoad
<1>2. GetsEverybody(r)
  BY <1>1 DEF MarketInv, ReadingsInv, ReadingInv
<1>3. IsTrueOf(r)
  <2>1. ASSUME NEW w \in r.always PROVE w \in NamesIn(r.got)
    <3>1. w \in Users /\ HasApplied(w)
      BY <1>2 DEF GetsEverybody, Applicants, Applying, HasApplied
    <3> PICK i \in DOMAIN slots : slots[i] = w
      BY <3>1 DEF MarketInv, BoardInv, SlotsInv
    <3>2. <<i, w>> \in r.got
      BY <1>1, <1>2 DEF GetsEverybody
    <3> QED
      BY <3>2 DEF NamesIn
  <2>2. NamesIn(r.got) \subseteq r.ever
    BY <1>2 DEF NamesIn, GetsEverybody
  <2> QED
    BY <2>1, <2>2 DEF IsTrueOf
<1>4. list'.entries = r.got /\ list'.isTrue
  BY <1>1, <1>3, Zenon
<1>5. SlotsGrow
  BY <1>1, BoardOnly
<1>6. ListInv'
  BY <1>2, <1>4, <1>5 DEF ListInv, GetsEverybody, IsEntry, SlotsGrow
<1>7. ReadingInv(NOTHING)
  BY DEF ReadingInv
<1> QED
  BY <1>1, <1>6, <1>7, OneReading

LEMMA ListFailsStays ==
    ASSUME MarketInv, NEW l \in Loads, ApplicationsFail(l)
    PROVE  MarketInv'
<1>1. /\ UNCHANGED boardVars /\ UNCHANGED <<tabAccount, asked, sent, desk>>
      /\ UNCHANGED list /\ OfList(l, NOTHING)
  BY DEF ApplicationsFail, tabVar
<1>2. ReadingInv(NOTHING)
  BY DEF ReadingInv
<1>3. ListInv'
  BY <1>1, BoardOnly, ListKept DEF MarketInv
<1> QED
  BY <1>1, <1>2, <1>3, OneReading

-----------------------------------------------------------------------------
(* The marketplace: the page of the agents *)

\* A step of the page with the form, which no registration waits for.
LEMMA DeskStays ==
    ASSUME MarketInv, UNCHANGED boardVars,
           UNCHANGED <<tabAccount, asked, sent, list, readings>>, DeskInv', FormInv'
    PROVE  MarketInv'
<1>1. ReadingsInv' /\ ListInv'
  BY BoardOnly, ReadingsKept, ListKept DEF MarketInv
<1> QED
  BY <1>1, TabStays

LEMMA FormSteps ==
    ASSUME MarketInv,
           \/ \E read \in SUBSET DOMAIN agents : loadAgents(read)
           \/ ToggleForm \/ CancelEdit \/ \E id \in DOMAIN agents : startEdit(id)
    PROVE  MarketInv'
<1>1. /\ UNCHANGED boardVars /\ UNCHANGED agents
      /\ UNCHANGED <<tabAccount, asked, sent, list, readings>>
  BY DEF loadAgents, ToggleForm, CancelEdit, startEdit, tabVar, listVars, boardVars
<1>2. AgentsInv /\ DeskInv /\ FormInv
  BY DEF MarketInv, BoardInv
<1>3. DeskInv' /\ FormInv'
  <2>1. CASE ToggleForm
    <3>1. /\ DOMAIN desk' = DOMAIN desk /\ desk'.roster = desk.roster
          /\ desk'.editing = NOTHING
      BY <1>2, <2>1 DEF ToggleForm, DeskInv
    <3> QED
      BY <1>1, <1>2, <3>1 DEF DeskInv, FormInv
  <2>2. CASE CancelEdit
    <3>1. /\ DOMAIN desk' = DOMAIN desk /\ desk'.roster = desk.roster
          /\ desk'.editing = NOTHING
      BY <1>2, <2>2 DEF CancelEdit, DeskInv
    <3> QED
      BY <1>1, <1>2, <3>1 DEF DeskInv, FormInv
  <2>3. ASSUME NEW id \in DOMAIN agents, startEdit(id) PROVE DeskInv' /\ FormInv'
    <3>1. /\ DOMAIN desk' = DOMAIN desk /\ desk'.roster = desk.roster
          /\ desk'.editing = id /\ desk'.wallet = desk.roster[id].wallet
          /\ id \in DOMAIN desk.roster /\ asked = NOTHING
      BY <1>2, <2>3 DEF startEdit, IsOwn, DeskInv
    <3> QED
      BY <1>1, <1>2, <3>1 DEF DeskInv, FormInv
  <2>4. ASSUME NEW read \in SUBSET DOMAIN agents, loadAgents(read)
        PROVE  DeskInv' /\ FormInv'
    <3>1. /\ DOMAIN desk' = DOMAIN desk /\ desk'.roster = [id \in read |-> agents[id]]
          /\ desk'.editing = desk.editing /\ desk'.wallet = desk.wallet
      BY <1>2, <2>4 DEF loadAgents, DeskInv
    <3>2. \A id \in read : agents[id].wallet \in agents[id].had
      BY <1>2 DEF AgentsInv
    <3> QED
      BY <1>1, <1>2, <3>1, <3>2 DEF DeskInv, FormInv
  <2> QED
    BY <2>1, <2>2, <2>3, <2>4
<1> QED
  BY <1>1, <1>3, DeskStays

\* The wallet answers, and the form that asked it is closed.
LEMMA SignedStays ==
    ASSUME MarketInv, NEW by \in Users, Signed(by)
    PROVE  MarketInv'
<1>1. /\ UNCHANGED boardVars /\ UNCHANGED agents
      /\ UNCHANGED <<tabAccount, list, readings>>
      /\ asked # NOTHING /\ asked' = NOTHING
      /\ sent' = sent \cup {[call |-> asked, by |-> by]}
  BY DEF Signed, tabVar, listVars, boardVars
<1>2. ReadingsInv' /\ ListInv' /\ FormInv' /\ AgentsGrow /\ SlotsGrow
  BY <1>1, BoardOnly, ReadingsKept, ListKept DEF MarketInv, FormInv
<1>3. CallsInv'
  <2>1. \A tx \in sent' : tx \in sent \/ (CallInv(tx.call) /\ tx.by \in Users)
    BY <1>1 DEF MarketInv, CallsInv
  <2> PICK call : call = NOTHING
    OBVIOUS
  <2> QED
    BY <1>1, <1>2, <2>1, CallsChanged DEF MarketInv, CallsInv
<1>4. DeskInv'
  <2>1. DeskInv /\ FormInv
    BY DEF MarketInv
  <2>2. CASE asked.name = "register-agent"
    <3>1. /\ DOMAIN desk' = DOMAIN desk /\ desk'.roster = desk.roster
          /\ desk'.editing = desk.editing
      BY <2>1, <2>2 DEF Signed, DeskInv
    <3> QED
      BY <1>1, <2>1, <2>2, <3>1 DEF DeskInv, FormInv
  <2>3. CASE asked.name = "update-agent"
    <3>1. /\ DOMAIN desk' = DOMAIN desk /\ desk'.roster = desk.roster
          /\ desk'.editing = NOTHING
      BY <2>1, <2>3 DEF Signed, DeskInv
    <3> QED
      BY <1>1, <2>1, <3>1 DEF DeskInv
  <2>4. CASE asked.name \notin {"register-agent", "update-agent"}
    <3>1. desk' = desk
      BY <2>4 DEF Signed
    <3> QED
      BY <1>1, <2>1, <3>1 DEF DeskInv
  <2> QED
    BY <2>2, <2>3, <2>4
<1>5. BoardInv'
  BY <1>1, BoardKept DEF MarketInv, BoardStays
<1> QED
  BY <1>2, <1>3, <1>4, <1>5 DEF MarketInv

-----------------------------------------------------------------------------
(* The marketplace: what others and the blocks do *)

LEMMA BoardSteps ==
    ASSUME MarketInv, BoardStays, Watched(Applicants'), UNCHANGED <<list, desk>>,
           UNCHANGED <<tabAccount, asked>>, sent' \subseteq sent
    PROVE  MarketInv'
<1>1. BoardInv' /\ AgentsGrow /\ SlotsGrow
  BY DEF BoardStays
<1>2. ReadingsInv'
  BY <1>1, ReadingsWatched DEF MarketInv, BoardInv
<1>3. ListInv' /\ CallsInv' /\ DeskInv'
  BY <1>1, ListKept, CallsKept, DeskKept DEF MarketInv
<1>4. FormInv'
  BY DEF MarketInv, FormInv
<1> QED
  BY <1>1, <1>2, <1>3, <1>4 DEF MarketInv

LEMMA CallSteps ==
    ASSUME MarketInv,
           \/ \E by \in Users : CallElsewhere(by)
           \/ \E tx \in sent, noticed \in BOOLEAN : CallMined(tx, noticed)
    PROVE  MarketInv'
<1>1. ASSUME NEW by \in Users, CallElsewhere(by) PROVE MarketInv'
  <2>1. BoardStays
    BY <1>1, ElsewhereStays DEF MarketInv
  <2> QED
    BY <1>1, <2>1, BoardSteps DEF CallElsewhere, tabVar
<1>2. ASSUME NEW tx \in sent, NEW noticed \in BOOLEAN, CallMined(tx, noticed)
      PROVE  MarketInv'
  <2>1. CallInv(tx.call) /\ tx.by \in Users /\ Executes(tx.call, tx.by)
    BY <1>2 DEF CallMined, MarketInv, CallsInv
  <2> PICK call, by : call = tx.call /\ by = tx.by
    OBVIOUS
  <2>2. BoardStays
    BY <2>1, ExecutesStays DEF MarketInv
  <2> QED
    BY <1>2, <2>2, BoardSteps DEF CallMined, tabVar
<1> QED
  BY <1>1, <1>2

LEMMA MarketStutters ==
    ASSUME MarketInv, UNCHANGED marketVars
    PROVE  MarketInv'
<1> PICK call : call = asked
  OBVIOUS
<1>1. /\ UNCHANGED boardVars /\ UNCHANGED <<list, readings, desk>> /\ sent' \subseteq sent
      /\ tabAccount' = tabAccount /\ asked' = call
  BY DEF marketVars, tabVars, tabVar, listVars
<1>2. /\ tabAccount \in Users /\ (call # NOTHING => CallInv(call)) /\ FormInv'
  BY <1>1 DEF MarketInv, CallsInv, FormInv
<1> QED
  BY <1>1, <1>2, AskingStays

LEMMA MarketSteps ==
    ASSUME MarketInv, MarketNext
    PROVE  MarketInv'
<1>1. ASSUME NEW l \in Loads,
             \/ LoadApplications(l) \/ getApplicationCount(l)
             \/ \E index \in DOMAIN slots : getApplicantAt(l, index)
             \/ ApplicationsListed(l) \/ ApplicationsFail(l)
      PROVE  MarketInv'
  BY <1>1, LoadApplicationsStays, CountStays, ApplicantStays, ListedStays,
     ListFailsStays
<1> QED
  BY <1>1, SignedStays, CallSteps, RequestsStay, CardStays, FormSteps DEF MarketNext

LEMMA MarketStarts == MarketInit => MarketInv
<1> SUFFICES ASSUME MarketInit PROVE MarketInv
  OBVIOUS
<1>1. AgentsInv
  BY RegistriesAssumption DEF MarketInit, AgentsInv
<1>2. SlotsInv
  BY DEF MarketInit, SlotsInv, HasApplied
<1>3. JobInv
  <2>1. job = [status |-> job.status, provider |-> job.provider,
               fromList |-> job.fromList] /\ job.fromList = FALSE
    BY DEF MarketInit
  <2> QED
    BY <2>1 DEF JobInv
<1>4. ReadingsInv /\ DeskInv /\ FormInv
  BY DEF MarketInit, ReadingsInv, ReadingInv, DeskInv, FormInv
<1>5. CallsInv
  BY DEF MarketInit, CallsInv
<1>6. ListInv
  <2>1. list.entries = {} /\ list.isTrue
    BY Zenon DEF MarketInit
  <2> QED
    BY <2>1, FS_EmptySet DEF ListInv
<1> QED
  BY <1>1, <1>2, <1>3, <1>4, <1>5, <1>6 DEF MarketInv, BoardInv

\* A list with at most one entry of each applicant.
LEMMA NamedOnce ==
    ASSUME SlotsInv, ListInv
    PROVE  Cardinality(Names) = Cardinality(list.entries)
<1> DEFINE f == [entry \in list.entries |-> entry[2]]
<1>1. ASSUME NEW a \in list.entries, NEW b \in list.entries, a[2] = b[2] PROVE a = b
  BY <1>1 DEF ListInv, IsEntry, SlotsInv
<1>2. f \in Bijection(list.entries, Names)
  BY <1>1 DEF Bijection, Injection, Surjection, IsInjective, Names, NamesIn
<1>3. ExistsBijection(list.entries, Names)
  BY <1>2 DEF ExistsBijection
<1> QED
  BY <1>3, FS_Bijection DEF ListInv

\* In every state of the marketplace a list that was read slot by slot names everybody
\* who was applying all along, nobody who never was and each only once; who was picked
\* from a list has applied and is no party of the job; and editing an agent writes back
\* a wallet it has had: whatever others call meanwhile, whichever account signs, and
\* however old the list or the form is.
THEOREM MarketplaceIsAsShown == MarketSpec => []MarketplaceAsShown
<1>1. MarketInv /\ [MarketNext]_marketVars => MarketInv'
  BY MarketSteps, MarketStutters
<1>2. MarketInv => MarketplaceAsShown
  <2> SUFFICES ASSUME MarketInv PROVE MarketplaceAsShown
    OBVIOUS
  <2>1. ListIsTrue
    BY NamedOnce DEF MarketInv, BoardInv, ListInv, ListIsTrue
  <2>2. AssignedHadApplied
    BY DEF MarketInv, BoardInv, JobInv, AssignedHadApplied, HasApplied
  <2>3. EditKeepsWallet
    BY DEF MarketInv, CallsInv, CallInv, EditKeepsWallet
  <2> QED
    BY <2>1, <2>2, <2>3 DEF MarketplaceAsShown
<1> QED
  BY MarketStarts, <1>1, <1>2, PTL DEF MarketSpec

-----------------------------------------------------------------------------
(* The transport: the inductive invariant *)

\* A read that left the queue's rear: it waits for its time, or for an answer.
Busy == {"spacing", "out", "cooling"}

Stages == {"resting", "queued"} \cup Busy

Entries == [at : Stages, left : Int, attempt : Nat, wait : Nat]

TypeOK ==
    /\ queue \in Seq(Callers)
    /\ caller \in [Callers -> Entries]
    /\ age \in 0..Spacing
    /\ quiet \in Nat

\* Only the first of the queue is busy.
OneAtATime ==
    \A c \in Callers : caller[c].at \in Busy => queue # <<>> /\ Head(queue) = c

\* Who waits for the spacing waits at least for what is left of it.
WaitsForSpacing ==
    \A c \in Callers : caller[c].at = "spacing" => Spacing - age <= caller[c].wait

\* While a node is to be left alone the read it refused waits for it, in front of
\* the others.
WaitsForTheNode ==
    \/ quiet = 0
    \/ \E c \in Callers : caller[c].at = "cooling" /\ quiet <= caller[c].wait

TransportInv == TypeOK /\ OneAtATime /\ WaitsForSpacing /\ WaitsForTheNode

-----------------------------------------------------------------------------
\* While one read waits for the spacing or for an answer, no other is busy and no
\* node is to be left alone.
LEMMA NobodyElseIsBusy ==
    ASSUME TransportInv, NEW c \in Callers, NEW d \in Callers,
           caller[c].at \in Busy, caller[d].at \in Busy
    PROVE  c = d
  BY DEF TransportInv, OneAtATime

LEMMA QuietWhileBusy ==
    ASSUME TransportInv, NEW c \in Callers, caller[c].at \in {"spacing", "out"}
    PROVE  quiet = 0
  BY DEF TransportInv, OneAtATime, WaitsForTheNode, Busy

LEMMA BusyStages == "spacing" \in Stages /\ "out" \in Stages /\ "cooling" \in Stages
  BY DEF Stages, Busy

LEMMA RestingEntry == Resting \in Entries /\ Resting.at \notin Busy
  BY DEF Resting, Entries, Stages, Busy

\* An entry that moves on, and how it waits anew.
LEMMA EntryMoves ==
    ASSUME NEW e \in Entries, NEW at \in Stages, NEW wait \in Nat
    PROVE  /\ [e EXCEPT !.at = at, !.wait = wait] \in Entries
           /\ [e EXCEPT !.at = at, !.wait = wait].at = at
           /\ [e EXCEPT !.at = at, !.wait = wait].wait = wait
  BY DEF Entries

LEMMA EntryWaits ==
    ASSUME NEW e \in Entries, NEW wait \in Nat
    PROVE  /\ [e EXCEPT !.wait = wait] \in Entries
           /\ [e EXCEPT !.wait = wait].at = e.at
           /\ [e EXCEPT !.wait = wait].wait = wait
  BY DEF Entries

LEMMA EntryQueues ==
    ASSUME NEW n \in Int
    PROVE  LET queued == [Resting EXCEPT !.at = "queued", !.left = n]
           IN  queued \in Entries /\ queued.at = "queued" /\ queued.at \notin Busy
<1>1. Resting \in Entries /\ "queued" \in Stages /\ "queued" \notin Busy
  BY RestingEntry DEF Stages, Busy
<1>2. ASSUME NEW e \in Entries, NEW at \in Stages
      PROVE  LET moved == [e EXCEPT !.at = at, !.left = n]
             IN  moved \in Entries /\ moved.at = at
  BY DEF Entries
<1> QED
  BY <1>1, <1>2

\* The delay covers what the node asked for.
LEMMA DelayCovers ==
    ASSUME NEW attempt \in Nat, NEW hint \in Nat
    PROVE  RetryDelay(attempt, hint) \in Nat /\ hint <= RetryDelay(attempt, hint)
<1>1. 2 ^ attempt \in Int
  OBVIOUS
<1>2. Backoff * 2 ^ attempt \in Int
  BY <1>1, TimesAssumption
<1> QED
  BY <1>2 DEF RetryDelay, Longer

-----------------------------------------------------------------------------
(* The transport: its steps *)

LEMMA ReadInv ==
    ASSUME TransportInv, NEW c \in Callers, NEW n \in Sizes, Call(c, n)
    PROVE  TransportInv'
<1> DEFINE entry == [Resting EXCEPT !.at = "queued", !.left = n]
<1>1. /\ queue \in Seq(Callers) /\ caller \in [Callers -> Entries]
      /\ caller[c].at = "resting" /\ caller' = [caller EXCEPT ![c] = entry]
      /\ queue' = Append(queue, c) /\ UNCHANGED <<age, quiet>>
  BY DEF TransportInv, TypeOK, Call, Set
<1>2. entry \in Entries /\ entry.at = "queued"
  <2>1. n \in Int
    BY DEF Sizes, single, nonce, sources
  <2> QED
    BY <2>1, EntryQueues
<1> HIDE DEF entry
<1>3. /\ queue' \in Seq(Callers)
      /\ queue # <<>> => queue' # <<>> /\ Head(queue') = Head(queue)
  BY <1>1
<1>4. TypeOK'
  BY <1>1, <1>2, <1>3 DEF TransportInv, TypeOK
<1>5. \A d \in Callers : caller'[d].at \in Busy => caller'[d] = caller[d]
  BY <1>1, <1>2 DEF Busy
<1>6. \A d \in Callers : caller[d].at = "cooling" => caller'[d] = caller[d]
  BY <1>1
<1> QED
  BY <1>1, <1>3, <1>4, <1>5, <1>6 DEF TransportInv, OneAtATime, WaitsForSpacing,
     WaitsForTheNode, Busy

\* The first of the queue moves on and stays the first.
LEMMA SpaceInv ==
    ASSUME TransportInv, NEW c \in Callers, Space(c)
    PROVE  TransportInv'
<1> DEFINE left == Spacing - age
           entry == [caller[c] EXCEPT !.at = "spacing", !.wait = left]
<1>1. /\ queue # <<>> /\ Head(queue) = c
      /\ caller[c].at = "queued" \/ (caller[c].at = "cooling" /\ caller[c].wait = 0)
      /\ caller' = [caller EXCEPT ![c] = entry] /\ UNCHANGED <<queue, age, quiet>>
  BY DEF Space, Set, MayRun
<1>2. caller \in [Callers -> Entries] /\ age \in 0..Spacing /\ quiet \in Nat
  BY DEF TransportInv, TypeOK
<1>3. entry \in Entries /\ entry.at = "spacing" /\ entry.wait = left
  <2>1. caller[c] \in Entries /\ left \in Nat
    BY <1>2, TimesAssumption
  <2> HIDE DEF left
  <2> QED
    BY <2>1, BusyStages DEF Entries
<1> HIDE DEF entry
<1>4. \A d \in Callers : caller[d].at \in Busy => d = c
  BY <1>1 DEF TransportInv, OneAtATime
<1>5. quiet = 0
  BY <1>1, <1>2, <1>4 DEF TransportInv, WaitsForTheNode, Busy
<1>6. \A d \in Callers : caller'[d].at \in Busy => d = c
  BY <1>1, <1>2, <1>4
<1>7. caller' \in [Callers -> Entries] /\ caller'[c] = entry
  BY <1>1, <1>2, <1>3
<1>8. WaitsForSpacing'
  BY <1>1, <1>2, <1>3, <1>6, <1>7, TimesAssumption DEF WaitsForSpacing, Busy
<1> QED
  BY <1>1, <1>5, <1>6, <1>7, <1>8 DEF TransportInv, TypeOK, OneAtATime,
     WaitsForTheNode

LEMMA StartInv ==
    ASSUME TransportInv, NEW c \in Callers, Start(c)
    PROVE  TransportInv'
<1> DEFINE entry == [caller[c] EXCEPT !.at = "out", !.wait = Patience]
<1>1. /\ caller[c].at = "spacing" /\ caller' = [caller EXCEPT ![c] = entry]
      /\ age' = 0 /\ UNCHANGED <<queue, quiet>>
  BY DEF Start, Set
<1>2. caller \in [Callers -> Entries]
  BY DEF TransportInv, TypeOK
<1>3. entry \in Entries /\ entry.at = "out"
  <2>1. caller[c] \in Entries /\ Patience \in Nat
    BY <1>2, TimesAssumption
  <2> QED
    BY <2>1, EntryMoves, BusyStages
<1> HIDE DEF entry
<1>4. quiet = 0
  BY <1>1, QuietWhileBusy
<1>5. \A d \in Callers : caller'[d].at \in Busy => caller[d].at \in Busy /\ d = c
  BY <1>1, <1>2, <1>3, NobodyElseIsBusy DEF Busy
<1> QED
  BY <1>1, <1>2, <1>3, <1>4, <1>5, TimesAssumption DEF TransportInv, TypeOK,
     OneAtATime, WaitsForSpacing, WaitsForTheNode, Busy

\* Whoever leaves the head of the queue leaves nobody busy behind.
LEMMA LeaveInv ==
    ASSUME TransportInv, NEW c \in Callers, NEW entry \in Entries,
           caller[c].at = "out", entry.at \notin Busy, Set(c, entry),
           queue' = Tail(queue) \/ queue' = Append(Tail(queue), c),
           UNCHANGED <<age, quiet>>
    PROVE  TransportInv'
<1>1. queue \in Seq(Callers) /\ caller \in [Callers -> Entries] /\ queue # <<>>
  BY DEF TransportInv, TypeOK, OneAtATime, Busy
<1>2. queue' \in Seq(Callers)
  BY <1>1
<1>3. \A d \in Callers : caller'[d].at \notin Busy
  BY <1>1, NobodyElseIsBusy DEF Set, Busy
<1>4. quiet' = 0
  BY QuietWhileBusy
<1> QED
  BY <1>1, <1>2, <1>3, <1>4 DEF TransportInv, TypeOK, OneAtATime, WaitsForSpacing,
     WaitsForTheNode, Set, Busy

LEMMA AnswerInv ==
    ASSUME TransportInv, NEW c \in Callers, Answer(c)
    PROVE  TransportInv'
<1> DEFINE next == [Resting EXCEPT !.at = "queued", !.left = caller[c].left - 1]
<1>1. next \in Entries /\ next.at \notin Busy
  <2>1. caller[c].left - 1 \in Int
    BY DEF TransportInv, TypeOK, Entries
  <2> QED
    BY <2>1, EntryQueues
<1>2. /\ caller[c].at = "out" /\ UNCHANGED <<age, quiet>>
      /\ \/ Set(c, Resting) /\ queue' = Tail(queue)
         \/ Set(c, next) /\ queue' = Append(Tail(queue), c)
  BY DEF Answer, Leave
<1> HIDE DEF next
<1> QED
  BY <1>1, <1>2, LeaveInv, RestingEntry

LEMMA SlowDownInv ==
    ASSUME TransportInv, NEW c \in Callers,
           NEW hint \in Hints \cup Unhinted, SlowDown(c, hint)
    PROVE  TransportInv'
<1> DEFINE delay == RetryDelay(caller[c].attempt, hint)
           entry == [caller[c] EXCEPT !.at = "cooling", !.wait = delay, !.attempt = @ + 1]
<1>1. caller[c].at = "out" /\ UNCHANGED age
  BY DEF SlowDown
<1>2. /\ queue \in Seq(Callers) /\ caller \in [Callers -> Entries] /\ hint \in Nat
      /\ caller[c].attempt \in Nat
  BY TimesAssumption DEF TransportInv, TypeOK, Entries
<1>3. delay \in Nat /\ hint <= delay
  BY <1>2, DelayCovers
<1>4. CASE delay <= LongestWait
  <2>1. Set(c, entry) /\ quiet' = Longer(quiet, hint) /\ UNCHANGED queue
    BY <1>4 DEF SlowDown
  <2>2. entry \in Entries /\ entry.at = "cooling" /\ entry.wait = delay
    <3>1. caller[c] \in Entries /\ caller[c].attempt + 1 \in Nat
      BY <1>2
    <3> HIDE DEF delay
    <3> QED
      BY <1>3, <3>1, BusyStages DEF Entries
  <2> HIDE DEF delay, entry
  <2>3. quiet' = hint
    BY <1>1, <1>2, <2>1, QuietWhileBusy DEF Longer
  <2>4. \A d \in Callers : caller'[d].at \in Busy => caller[d].at \in Busy /\ d = c
    BY <1>1, <1>2, <2>1, NobodyElseIsBusy DEF Set, Busy
  <2> QED
    BY <1>1, <1>2, <1>3, <2>1, <2>2, <2>3, <2>4 DEF TransportInv, TypeOK,
       OneAtATime, WaitsForSpacing, WaitsForTheNode, Set, Busy
<1>5. CASE ~(delay <= LongestWait)
  <2>1. Set(c, Resting) /\ queue' = Tail(queue) /\ UNCHANGED quiet
    BY <1>5 DEF SlowDown, Leave
  <2> QED
    BY <1>1, <2>1, LeaveInv, RestingEntry
<1> QED
  BY <1>4, <1>5

\* Time passes for whoever waits, for the spacing and for the node alike.
LEMMA SecondPassesInv ==
    ASSUME TransportInv, SecondPasses
    PROVE  TransportInv'
<1>1. /\ caller \in [Callers -> Entries] /\ age \in 0..Spacing /\ quiet \in Nat
      /\ queue \in Seq(Callers) /\ Spacing \in Nat
  BY TimesAssumption DEF TransportInv, TypeOK
<1>2. /\ age' = IF age < Spacing THEN age + 1 ELSE age
      /\ quiet' = Less(quiet) /\ UNCHANGED queue
      /\ caller' = [c \in Callers |-> [caller[c] EXCEPT !.wait = Less(@)]]
  BY DEF SecondPasses
<1>3. \A n \in Nat : Less(n) \in Nat /\ n - 1 <= Less(n)
  BY DEF Less, Longer
<1>4. ASSUME NEW c \in Callers
      PROVE  /\ caller'[c] \in Entries /\ caller'[c].at = caller[c].at
             /\ caller'[c].wait = Less(caller[c].wait) /\ caller[c].wait \in Nat
  <2>1. caller[c] \in Entries /\ caller'[c] = [caller[c] EXCEPT !.wait = Less(@)]
    BY <1>1, <1>2
  <2>2. caller[c].wait \in Nat
    BY <2>1 DEF Entries
  <2> QED
    BY <1>3, <2>1, <2>2, EntryWaits
<1>5. TypeOK'
  <2>1. caller' = [c \in Callers |-> caller'[c]]
    BY <1>2
  <2>2. age' \in 0..Spacing
    BY <1>1, <1>2
  <2> QED
    BY <1>1, <1>2, <1>3, <1>4, <2>1, <2>2 DEF TypeOK
<1>6. OneAtATime'
  BY <1>2, <1>4 DEF TransportInv, OneAtATime
<1>7. WaitsForSpacing'
  <2> SUFFICES ASSUME NEW c \in Callers, caller[c].at = "spacing"
               PROVE  Spacing - age' <= Less(caller[c].wait)
    BY <1>4 DEF WaitsForSpacing
  <2>1. Spacing - age <= caller[c].wait /\ caller[c].wait \in Nat
    BY <1>4 DEF TransportInv, WaitsForSpacing
  <2>2. Spacing - age' <= caller[c].wait /\ (age' = age => Spacing - age' = 0)
    BY <1>1, <1>2, <2>1
  <2>3. age' # age => Spacing - age' <= caller[c].wait - 1
    BY <1>1, <1>2, <2>1
  <2> QED
    BY <1>1, <1>2, <2>1, <2>2, <2>3 DEF Less, Longer
<1>8. WaitsForTheNode'
  <2>1. CASE quiet = 0
    BY <1>2, <2>1 DEF WaitsForTheNode, Less, Longer
  <2>2. ASSUME NEW c \in Callers, caller[c].at = "cooling", quiet <= caller[c].wait
        PROVE  WaitsForTheNode'
    <3>1. Less(quiet) <= Less(caller[c].wait)
      BY <1>1, <1>4, <2>2 DEF Less, Longer
    <3> QED
      BY <1>2, <1>4, <2>2, <3>1 DEF WaitsForTheNode
  <2> QED
    BY <2>1, <2>2 DEF TransportInv, WaitsForTheNode
<1> QED
  BY <1>5, <1>6, <1>7, <1>8 DEF TransportInv

-----------------------------------------------------------------------------
(* The transport: the node is spared *)

\* However many callers overlap and whatever a node answers, a request leaves no
\* sooner than Spacing after the one before it and after every pause asked for.
THEOREM NodeStaysSpared == TransportSpec => NodeIsSpared
<1>1. TransportInit => TransportInv
  BY RestingEntry, TimesAssumption DEF TransportInit, TransportInv, TypeOK,
     OneAtATime, WaitsForSpacing, WaitsForTheNode, Resting, Busy
<1>2. ASSUME TransportInv, [TransportNext]_transportVars
      PROVE  TransportInv'
  <2>1. CASE UNCHANGED transportVars
    BY <1>2, <2>1 DEF transportVars, TransportInv, TypeOK, OneAtATime,
       WaitsForSpacing, WaitsForTheNode
  <2>2. ASSUME NEW c \in Callers, Fail(c) \/ TimeOut(c)
        PROVE  TransportInv'
    BY <1>2, <2>2, LeaveInv, RestingEntry DEF Fail, TimeOut, Leave
  <2> QED
    BY <1>2, <2>1, <2>2, ReadInv, SpaceInv, StartInv, AnswerInv, SlowDownInv,
       SecondPassesInv DEF TransportNext, Run
<1>3. ASSUME TransportInv, [TransportNext]_transportVars
      PROVE  [\A c \in Callers : Starts(c) => age = Spacing /\ quiet = 0]_transportVars
  <2> SUFFICES ASSUME NEW c \in Callers, Starts(c), TransportNext
               PROVE  age = Spacing /\ quiet = 0
    BY <1>3
  <2>1. caller \in [Callers -> Entries] /\ age \in 0..Spacing
    BY <1>3 DEF TransportInv, TypeOK
  <2>2. ASSUME NEW d \in Callers, NEW entry, entry.at # "out", Set(d, entry)
        PROVE  FALSE
    BY <2>1, <2>2 DEF Set, Starts
  <2>3. ASSUME NEW d \in Callers, Start(d)
        PROVE  age = Spacing /\ quiet = 0
    <3>1. caller[d].at = "spacing" /\ caller[d].wait = 0
      BY <2>3 DEF Start
    <3> QED
      BY <1>3, <2>1, <3>1, QuietWhileBusy, TimesAssumption DEF TransportInv,
         WaitsForSpacing
  <2>4. ASSUME NEW d \in Callers, NEW n \in Sizes, Call(d, n)
        PROVE  FALSE
    <3>1. n \in Int
      BY DEF Sizes, single, nonce, sources
    <3>2. [Resting EXCEPT !.at = "queued", !.left = n].at # "out"
      BY <3>1, EntryQueues
    <3> QED
      BY <2>2, <2>4, <3>2 DEF Call
  <2>5. ASSUME NEW d \in Callers, Space(d)
        PROVE  FALSE
    <3>1. caller[d] \in Entries /\ Spacing - age \in Nat
      BY <2>1, TimesAssumption
    <3>2. [caller[d] EXCEPT !.at = "spacing", !.wait = Spacing - age].at # "out"
      BY <3>1, EntryMoves, BusyStages
    <3> QED
      BY <2>2, <2>5, <3>2 DEF Space
  <2>6. Resting.at # "out"
    BY DEF Resting
  <2>7. ASSUME NEW d \in Callers, Answer(d)
        PROVE  FALSE
    <3>1. caller[d].left - 1 \in Int
      BY <2>1 DEF Entries
    <3>2. [Resting EXCEPT !.at = "queued", !.left = caller[d].left - 1].at # "out"
      BY <3>1, EntryQueues
    <3> QED
      BY <2>2, <2>6, <2>7, <3>2 DEF Answer
  <2>8. ASSUME NEW d \in Callers, Fail(d) \/ TimeOut(d)
        PROVE  FALSE
    BY <2>2, <2>6, <2>8 DEF Fail, TimeOut
  <2>9. ASSUME NEW d \in Callers, NEW hint \in Hints \cup Unhinted,
               SlowDown(d, hint)
        PROVE  FALSE
    <3> DEFINE delay == RetryDelay(caller[d].attempt, hint)
               entry == [caller[d] EXCEPT !.at = "cooling", !.wait = delay,
                                          !.attempt = @ + 1]
    <3>1. caller[d] \in Entries
      BY <2>1
    <3>2. entry.at # "out"
      <4> HIDE DEF delay
      <4> QED
        BY <3>1 DEF Entries
    <3>3. Set(d, entry) \/ Set(d, Resting)
      BY <2>9 DEF SlowDown
    <3> HIDE DEF entry
    <3> QED
      BY <2>2, <2>6, <3>2, <3>3
  <2>10. ASSUME SecondPasses
         PROVE  FALSE
    <3> DEFINE left == Less(caller[c].wait)
    <3>1. caller'[c] = [caller[c] EXCEPT !.wait = left]
      BY <2>10 DEF SecondPasses
    <3>2. caller[c] \in Entries
      BY <2>1
    <3> HIDE DEF left
    <3>3. caller'[c].at = caller[c].at
      BY <3>1, <3>2 DEF Entries
    <3> QED
      BY <3>3 DEF Starts
  <2> QED
    BY <2>3, <2>4, <2>5, <2>7, <2>8, <2>9, <2>10 DEF TransportNext, Run
<1> QED
  BY <1>1, <1>2, <1>3, PTL DEF TransportSpec, NodeIsSpared

-----------------------------------------------------------------------------
(* The directory: the inductive invariant *)

IsRequest(q) == q = [at |-> q.at, wallet |-> q.wallet, date |-> q.date]

\* A registration is of a wallet, on a date, and has a row once it is written.
RequestHolds(q) ==
    q # NOTHING =>
      /\ IsRequest(q) /\ q.wallet \in Wallets /\ q.date \in Dates
      /\ q.at = "written" => rows[q.wallet] # NOTHING

\* Rows are never removed, so that who was told to be listed stays registered.
StoreInv ==
    /\ rows = [w \in Wallets |-> rows[w]]
    /\ request = [r \in Requests |-> request[r]]
    /\ \A r \in Requests : RequestHolds(request[r])
    /\ listed \subseteq Registered

\* The set of wallets that is kept has everybody who was told, except those who were
\* told while its query was under way.
CacheInv ==
    walletCache # NOTHING =>
      /\ walletCache = [wallets |-> walletCache.wallets, age |-> walletCache.age,
                        missed |-> walletCache.missed]
      /\ listed \subseteq walletCache.wallets \cup walletCache.missed

\* The last reading is not older than what was served, nor newer than the chain.
LastHolds == last.value \in Nat /\ seen <= last.value /\ last.value <= chain

\* Neither is a reading that has come back, and the last one is not newer.
ReadingHolds(l) ==
    /\ l = [by |-> l.by, value |-> l.value]
    /\ l.value # NOTHING =>
         /\ l.value \in Nat /\ seen <= l.value /\ l.value <= chain
         /\ last # NOTHING => last.value <= l.value

\* One reading of the chain is under way at a time.
SnapshotInv ==
    /\ chain \in Nat /\ seen \in Nat /\ seen <= chain
    /\ last # NOTHING => LastHolds /\ last = [value |-> last.value, age |-> last.age]
    /\ \A a, b \in inflight : a = b
    /\ \A l \in inflight : ReadingHolds(l)

IsView(e) ==
    e = [at |-> e.at, due |-> e.due, after |-> e.after, attested |-> e.attested,
         excused |-> e.excused, load |-> e.load, stale |-> e.stale, value |-> e.value]

\* What a view has collected covers what it must not fall behind.
Covers(e) ==
    /\ e.due \subseteq listed
    /\ e.at = "filling" => e.due \subseteq e.attested
    /\ e.at \in {"reading", "waiting", "served"} =>
         e.due \subseteq e.attested \cup e.excused
KeepsUp(e) ==
    /\ e.after \in Nat /\ e.after <= seen
    /\ e.stale => LastHolds
    /\ e.at = "served" /\ e.value # NOTHING => e.value >= e.after
ViewHolds(e) == e # NOTHING => IsView(e) /\ Covers(e) /\ KeepsUp(e)

ViewsInv ==
    /\ view = [v \in Views |-> view[v]]
    /\ \A v \in Views : ViewHolds(view[v])

DirectoryInv == StoreInv /\ CacheInv /\ SnapshotInv /\ ViewsInv

-----------------------------------------------------------------------------
(* The directory: what a step may leave alone *)

LEMMA StoreKept ==
    ASSUME StoreInv, UNCHANGED storeVars PROVE StoreInv'
  BY DEF StoreInv, storeVars, Registered, RequestHolds, IsRequest

LEMMA CacheKept ==
    ASSUME CacheInv, UNCHANGED <<walletCache, listed>> PROVE CacheInv'
  BY DEF CacheInv

LEMMA SnapshotKept ==
    ASSUME SnapshotInv, UNCHANGED <<snapshotVars, chain, seen>> PROVE SnapshotInv'
  BY DEF SnapshotInv, snapshotVars, LastHolds, ReadingHolds

\* A view keeps up with a directory that only grows.
LEMMA ViewKept ==
    ASSUME NEW e, ViewHolds(e), listed \subseteq listed', seen \in Nat, seen' \in Nat,
           seen <= seen', LastHolds => LastHolds'
    PROVE  ViewHolds(e)'
  BY DEF ViewHolds, IsView, Covers, KeepsUp

LEMMA ViewsKept ==
    ASSUME ViewsInv, UNCHANGED view, listed \subseteq listed', seen \in Nat,
           seen' \in Nat, seen <= seen', LastHolds => LastHolds'
    PROVE  ViewsInv'
<1>1. ASSUME NEW w \in Views PROVE ViewHolds(view[w])'
  <2> PICK d : d = view[w]
    OBVIOUS
  <2>1. view'[w] = d /\ ViewHolds(d)
    BY DEF ViewsInv
  <2>2. ViewHolds(d)'
    BY <2>1, ViewKept
  <2> QED
    BY <2>1, <2>2 DEF ViewHolds, IsView, Covers, KeepsUp, LastHolds
<1> QED
  BY <1>1 DEF ViewsInv

\* A step of one view, with nothing else of the views.
LEMMA ViewChanged ==
    ASSUME ViewsInv, NEW v \in Views, NEW e, SetView(v, e), ViewHolds(e)',
           listed \subseteq listed', seen \in Nat,
           seen' \in Nat, seen <= seen', LastHolds => LastHolds'
    PROVE  ViewsInv'
<1>1. view' = [w \in Views |-> IF w = v THEN e ELSE view[w]]
  BY DEF SetView, ViewsInv
<1>2. ASSUME NEW w \in Views PROVE ViewHolds(view[w])'
  <2>1. CASE w = v
    <3>1. view'[w] = e
      BY <1>1, <2>1
    <3> QED
      BY <3>1 DEF ViewHolds, IsView, Covers, KeepsUp, LastHolds
  <2>2. CASE w # v
    <3> PICK d : d = view[w]
      OBVIOUS
    <3>1. view'[w] = d /\ ViewHolds(d)
      BY <1>1, <2>2 DEF ViewsInv
    <3>2. ViewHolds(d)'
      BY <3>1, ViewKept
    <3> QED
      BY <3>1, <3>2 DEF ViewHolds, IsView, Covers, KeepsUp, LastHolds
  <2> QED
    BY <2>1, <2>2
<1> QED
  BY <1>1, <1>2 DEF ViewsInv

-----------------------------------------------------------------------------
(* The directory: a registration *)

LEMMA RequestChanged ==
    ASSUME StoreInv, NEW r \in Requests, NEW q, request' = [request EXCEPT ![r] = q],
           UNCHANGED <<rows, listed>>, RequestHolds(q)
    PROVE  StoreInv'
<1>1. request' = [w \in Requests |-> IF w = r THEN q ELSE request[w]]
  BY DEF StoreInv
<1>2. ASSUME NEW w \in Requests PROVE RequestHolds(request[w])'
  BY <1>1 DEF StoreInv, RequestHolds, IsRequest
<1> QED
  BY <1>1, <1>2 DEF StoreInv, Registered

LEMMA SubmitStays ==
    ASSUME StoreInv, NEW r \in Requests, NEW w \in Wallets, NEW d \in Dates, NEW by,
           Submit(r, w, d, by)
    PROVE  StoreInv'
<1> DEFINE q == [at |-> "finding", wallet |-> w, date |-> d]
<1>1. RequestHolds(q)
  BY DEF RequestHolds, IsRequest
<1>2. request' = [request EXCEPT ![r] = q] /\ UNCHANGED <<rows, listed>>
  BY DEF Submit
<1> HIDE DEF q
<1> QED
  BY <1>1, <1>2, RequestChanged

\* A request goes on to its next step.
LEMMA ProceedIs ==
    ASSUME StoreInv, NEW r \in Requests, request[r] # NOTHING, NEW at, Proceed(r, at)
    PROVE  request' = [request EXCEPT ![r] =
             [at |-> at, wallet |-> request[r].wallet, date |-> request[r].date]]
<1>1. IsRequest(request[r])
  BY DEF StoreInv, RequestHolds
<1>2. [request[r] EXCEPT !.at = at] =
         [at |-> at, wallet |-> request[r].wallet, date |-> request[r].date]
  BY <1>1 DEF IsRequest
<1>3. request' = [request EXCEPT ![r] = [request[r] EXCEPT !.at = at]]
  BY DEF Proceed, StoreInv
<1> QED
  BY <1>2, <1>3

LEMMA EndStays ==
    ASSUME StoreInv, NEW r \in Requests, EndRequest(r), UNCHANGED <<rows, listed>>
    PROVE  StoreInv'
<1>1. RequestHolds(NOTHING)
  BY DEF RequestHolds
<1> QED
  BY <1>1, RequestChanged DEF EndRequest

LEMMA FindStays ==
    ASSUME StoreInv, NEW r \in Requests, Find(r)
    PROVE  StoreInv'
<1>1. CASE EndRequest(r)
  BY <1>1, EndStays DEF Find
<1>2. CASE Proceed(r, "writing")
  <2> DEFINE q == [at |-> "writing", wallet |-> request[r].wallet,
                   date |-> request[r].date]
  <2>1. RequestHolds(q)
    BY DEF Find, AtRequest, StoreInv, RequestHolds, IsRequest
  <2>2. request' = [request EXCEPT ![r] = q] /\ UNCHANGED <<rows, listed>>
    BY <1>2, ProceedIs DEF Find, AtRequest
  <2> HIDE DEF q
  <2> QED
    BY <2>1, <2>2, RequestChanged
<1> QED
  BY <1>1, <1>2 DEF Find

\* A row that is written replaces a row or nothing, and is an entry.
LEMMA WriteStays ==
    ASSUME StoreInv, NEW r \in Requests, Write(r)
    PROVE  StoreInv'
<1> DEFINE w == request[r].wallet
           d == request[r].date
           q == [at |-> "written", wallet |-> w, date |-> d]
<1>1. request[r] # NOTHING /\ w \in Wallets /\ d \in Dates
  BY DEF Write, AtRequest, StoreInv, RequestHolds
<1>2. rows' = [x \in Wallets |-> IF x = w THEN d ELSE rows[x]]
  BY DEF Write, StoreInv
<1>3. request' = [x \in Requests |-> IF x = r THEN q ELSE request[x]]
  BY <1>1, ProceedIs DEF Write, StoreInv
<1>4. d # NOTHING
  BY <1>1, DatesAssumption
<1> HIDE DEF w, d
<1>5. ASSUME NEW x \in Requests PROVE RequestHolds(request[x])'
  <2>1. CASE x = r
    BY <1>1, <1>2, <1>3, <1>4, <2>1 DEF RequestHolds, IsRequest
  <2>2. CASE x # r
    BY <1>2, <1>3, <1>4, <2>2 DEF StoreInv, RequestHolds, IsRequest
  <2> QED
    BY <2>1, <2>2
<1>6. Registered \subseteq Registered'
  BY <1>2, <1>4 DEF Registered
<1>7. listed' = listed
  BY DEF Write
<1> QED
  BY <1>2, <1>3, <1>5, <1>6, <1>7 DEF StoreInv

\* Whoever is told has a row.
LEMMA ListReadStays ==
    ASSUME StoreInv, NEW r \in Requests, Listed(r)
    PROVE  StoreInv'
<1>1. /\ request[r] # NOTHING /\ request[r].wallet \in Wallets
      /\ rows[request[r].wallet] # NOTHING
  BY DEF Listed, AtRequest, StoreInv, RequestHolds
<1>2. listed \cup {request[r].wallet} \subseteq Registered
  BY <1>1 DEF StoreInv, Registered
<1>3. request' = [x \in Requests |-> IF x = r THEN NOTHING ELSE request[x]]
  BY DEF Listed, EndRequest, StoreInv
<1>4. ASSUME NEW x \in Requests PROVE RequestHolds(request[x])'
  BY <1>3 DEF Listed, StoreInv, RequestHolds, IsRequest
<1> QED
  BY <1>2, <1>3, <1>4 DEF Listed, StoreInv, Registered

LEMMA RequestSteps ==
    ASSUME DirectoryInv, NEW r \in Requests,
           \/ \E w, by \in Wallets, d \in Dates : Submit(r, w, d, by)
           \/ Find(r) \/ Write(r) \/ Listed(r) \/ RequestFails(r)
    PROVE  DirectoryInv'
<1> USE DEF DirectoryInv
<1>1. StoreInv'
  BY SubmitStays, FindStays, WriteStays, ListReadStays, EndStays DEF RequestFails
<1>2. listed \subseteq listed' /\ UNCHANGED <<chain, snapshotVars, view, seen>>
  BY DEF Submit, Find, Write, Listed, RequestFails
<1>3. CacheInv'
  <2>1. CASE UNCHANGED <<walletCache, listed>>
    BY <2>1, CacheKept
  <2>2. CASE Listed(r)
    BY <2>2 DEF Listed, Cleared, CacheInv
  <2> QED
    BY <2>1, <2>2 DEF Submit, Find, Write, RequestFails
<1>4. SnapshotInv' /\ (LastHolds => LastHolds') /\ seen \in Nat
  BY <1>2, SnapshotKept DEF LastHolds, snapshotVars, SnapshotInv
<1>5. ViewsInv'
  BY <1>2, <1>4, ViewsKept
<1> QED
  BY <1>1, <1>3, <1>4, <1>5

-----------------------------------------------------------------------------
(* The directory: a view of it *)

\* A view with one of its fields replaced.
LEMMA AtReplaced ==
    ASSUME NEW e, IsView(e), NEW x
    PROVE  [e EXCEPT !.at = x] =
             [at |-> x, due |-> e.due, after |-> e.after,
              attested |-> e.attested, excused |-> e.excused, load |-> e.load,
              stale |-> e.stale, value |-> e.value]
<1>1. [e EXCEPT !.at = x] =
        [[at |-> e.at, due |-> e.due, after |-> e.after,
         attested |-> e.attested, excused |-> e.excused, load |-> e.load,
         stale |-> e.stale, value |-> e.value]
           EXCEPT !.at = x]
  BY Zenon DEF IsView
<1> QED
  BY <1>1

LEMMA AttestedReplaced ==
    ASSUME NEW e, IsView(e), NEW x
    PROVE  [e EXCEPT !.attested = x] =
             [at |-> e.at, due |-> e.due, after |-> e.after,
              attested |-> x, excused |-> e.excused, load |-> e.load,
              stale |-> e.stale, value |-> e.value]
<1>1. [e EXCEPT !.attested = x] =
        [[at |-> e.at, due |-> e.due, after |-> e.after,
         attested |-> e.attested, excused |-> e.excused, load |-> e.load,
         stale |-> e.stale, value |-> e.value]
           EXCEPT !.attested = x]
  BY Zenon DEF IsView
<1> QED
  BY <1>1

LEMMA ExcusedReplaced ==
    ASSUME NEW e, IsView(e), NEW x
    PROVE  [e EXCEPT !.excused = x] =
             [at |-> e.at, due |-> e.due, after |-> e.after,
              attested |-> e.attested, excused |-> x, load |-> e.load,
              stale |-> e.stale, value |-> e.value]
<1>1. [e EXCEPT !.excused = x] =
        [[at |-> e.at, due |-> e.due, after |-> e.after,
         attested |-> e.attested, excused |-> e.excused, load |-> e.load,
         stale |-> e.stale, value |-> e.value]
           EXCEPT !.excused = x]
  BY Zenon DEF IsView
<1> QED
  BY <1>1

LEMMA LoadReplaced ==
    ASSUME NEW e, IsView(e), NEW x
    PROVE  [e EXCEPT !.load = x] =
             [at |-> e.at, due |-> e.due, after |-> e.after,
              attested |-> e.attested, excused |-> e.excused, load |-> x,
              stale |-> e.stale, value |-> e.value]
<1>1. [e EXCEPT !.load = x] =
        [[at |-> e.at, due |-> e.due, after |-> e.after,
         attested |-> e.attested, excused |-> e.excused, load |-> e.load,
         stale |-> e.stale, value |-> e.value]
           EXCEPT !.load = x]
  BY Zenon DEF IsView
<1> QED
  BY <1>1

LEMMA StaleReplaced ==
    ASSUME NEW e, IsView(e), NEW x
    PROVE  [e EXCEPT !.stale = x] =
             [at |-> e.at, due |-> e.due, after |-> e.after,
              attested |-> e.attested, excused |-> e.excused, load |-> e.load,
              stale |-> x, value |-> e.value]
<1>1. [e EXCEPT !.stale = x] =
        [[at |-> e.at, due |-> e.due, after |-> e.after,
         attested |-> e.attested, excused |-> e.excused, load |-> e.load,
         stale |-> e.stale, value |-> e.value]
           EXCEPT !.stale = x]
  BY Zenon DEF IsView
<1> QED
  BY <1>1

LEMMA ValueReplaced ==
    ASSUME NEW e, IsView(e), NEW x
    PROVE  [e EXCEPT !.value = x] =
             [at |-> e.at, due |-> e.due, after |-> e.after,
              attested |-> e.attested, excused |-> e.excused, load |-> e.load,
              stale |-> e.stale, value |-> x]
<1>1. [e EXCEPT !.value = x] =
        [[at |-> e.at, due |-> e.due, after |-> e.after,
         attested |-> e.attested, excused |-> e.excused, load |-> e.load,
         stale |-> e.stale, value |-> e.value]
           EXCEPT !.value = x]
  BY Zenon DEF IsView
<1> QED
  BY <1>1

\* A step that changes one view, and possibly the cache of wallets.
LEMMA OneView ==
    ASSUME DirectoryInv, NEW v \in Views, NEW n, SetView(v, n), ViewHolds(n),
           UNCHANGED <<storeVars, chain, snapshotVars, seen>>
    PROVE  StoreInv' /\ SnapshotInv' /\ ViewsInv'
<1>1. /\ seen \in Nat /\ seen' = seen /\ listed' = listed /\ (LastHolds => LastHolds')
  BY DEF DirectoryInv, SnapshotInv, storeVars, snapshotVars, LastHolds
<1>2. ViewHolds(n)'
  BY <1>1, ViewKept
<1>3. ViewsInv'
  BY <1>1, <1>2, ViewChanged DEF DirectoryInv
<1> QED
  BY <1>3, StoreKept, SnapshotKept DEF DirectoryInv

LEMMA OpenViewStays ==
    ASSUME DirectoryInv, NEW v \in Views, OpenView(v)
    PROVE  DirectoryInv'
<1>1. seen \in Nat /\ UNCHANGED <<storeVars, walletCache, chain, snapshotVars, seen>>
  BY DEF DirectoryInv, SnapshotInv, OpenView
<1>2. StoreInv' /\ SnapshotInv' /\ ViewsInv'
  <2>1. CASE IsFresh(walletCache, KeepWallets)
    <3> PICK n : n = [at |-> "reading", due |-> listed, after |-> seen,
                      attested |-> Pinned \cup walletCache.wallets,
                      excused |-> walletCache.missed, load |-> NOTHING,
                      stale |-> FALSE, value |-> NOTHING]
      OBVIOUS
    <3>1. SetView(v, n)
      <4> PICK e : e = Opened
        OBVIOUS
      <4> PICK a : a = [e EXCEPT !.at = "reading"]
        OBVIOUS
      <4> PICK b : b = [a EXCEPT !.attested = a.attested \cup walletCache.wallets]
        OBVIOUS
      <4>1. IsView(e)
        BY DEF IsView, Opened
      <4>2. /\ a = [at |-> "reading", due |-> e.due, after |-> e.after,
                    attested |-> e.attested, excused |-> e.excused, load |-> e.load,
                    stale |-> e.stale, value |-> e.value]
            /\ IsView(a)
        BY <4>1, AtReplaced DEF IsView
      <4>3. /\ b = [at |-> a.at, due |-> a.due, after |-> a.after,
                    attested |-> a.attested \cup walletCache.wallets,
                    excused |-> a.excused, load |-> a.load, stale |-> a.stale,
                    value |-> a.value]
            /\ IsView(b)
        BY <4>2, AttestedReplaced DEF IsView
      <4> PICK c : c = [b EXCEPT !.excused = walletCache.missed]
        OBVIOUS
      <4>4. c = [at |-> b.at, due |-> b.due, after |-> b.after,
                 attested |-> b.attested, excused |-> walletCache.missed,
                 load |-> b.load, stale |-> b.stale, value |-> b.value]
        BY <4>3, ExcusedReplaced
      <4>5. c = n
        BY <4>2, <4>3, <4>4 DEF Opened
      <4> QED
        BY <2>1, <4>5 DEF OpenView, SetView
    <3>2. listed \subseteq walletCache.wallets \cup walletCache.missed
      BY <2>1 DEF IsFresh, DirectoryInv, CacheInv
    <3>3. ViewHolds(n)
      BY <1>1, <3>2 DEF ViewHolds, IsView, Covers, KeepsUp
    <3> QED
      BY <1>1, <3>1, <3>3, OneView
  <2>2. CASE ~IsFresh(walletCache, KeepWallets)
    <3> PICK n : n = Opened
      OBVIOUS
    <3>1. SetView(v, n)
      BY <2>2 DEF OpenView
    <3>2. ViewHolds(n)
      BY <1>1 DEF ViewHolds, IsView, Covers, KeepsUp, Opened
    <3> QED
      BY <1>1, <3>1, <3>2, OneView
  <2> QED
    BY <2>1, <2>2
<1> QED
  BY <1>1, <1>2, CacheKept DEF DirectoryInv, storeVars

\* The query answers with everybody who was told before.
LEMMA QueryWalletsStays ==
    ASSUME DirectoryInv, NEW v \in Views, QueryWallets(v)
    PROVE  DirectoryInv'
<1>1. UNCHANGED <<storeVars, walletCache, chain, snapshotVars, seen>>
  BY DEF QueryWallets
<1> PICK e : e = view[v]
  OBVIOUS
<1>2. e # NOTHING /\ IsView(e) /\ Covers(e) /\ KeepsUp(e)
  BY DEF QueryWallets, AtView, DirectoryInv, ViewsInv, ViewHolds
<1> PICK n : n = [at |-> "filling", due |-> e.due, after |-> e.after,
                  attested |-> Registered, excused |-> e.excused, load |-> e.load,
                  stale |-> e.stale, value |-> e.value]
  OBVIOUS
<1>3. SetView(v, n)
  <2> PICK m : m = [e EXCEPT !.at = "filling"]
    OBVIOUS
  <2>1. /\ m = [at |-> "filling", due |-> e.due, after |-> e.after,
                attested |-> e.attested, excused |-> e.excused, load |-> e.load,
                stale |-> e.stale, value |-> e.value]
        /\ IsView(m)
    BY <1>2, AtReplaced DEF IsView
  <2> PICK k : k = [m EXCEPT !.attested = Registered]
    OBVIOUS
  <2>2. k = [at |-> m.at, due |-> m.due, after |-> m.after,
             attested |-> Registered, excused |-> m.excused,
             load |-> m.load, stale |-> m.stale, value |-> m.value]
    BY <2>1, AttestedReplaced
  <2>3. k = n
    BY <2>1, <2>2
  <2> QED
    BY <2>3 DEF QueryWallets, SetView
<1>4. ViewHolds(n)
  BY <1>2 DEF ViewHolds, IsView, Covers, KeepsUp, DirectoryInv, StoreInv
<1> QED
  BY <1>1, <1>3, <1>4, OneView, CacheKept DEF DirectoryInv, storeVars

\* What is kept lacks only who was told since the query.
LEMMA FillCacheStays ==
    ASSUME DirectoryInv, NEW v \in Views, FillCache(v)
    PROVE  DirectoryInv'
<1>1. UNCHANGED <<storeVars, chain, snapshotVars, seen>>
  BY DEF FillCache
<1> PICK e : e = view[v]
  OBVIOUS
<1>2. e # NOTHING /\ e.at = "filling" /\ IsView(e) /\ Covers(e) /\ KeepsUp(e)
  BY DEF FillCache, AtView, DirectoryInv, ViewsInv, ViewHolds
<1> PICK n : n = [at |-> "reading", due |-> e.due, after |-> e.after,
                  attested |-> e.attested \cup Pinned, excused |-> e.excused,
                  load |-> e.load, stale |-> e.stale, value |-> e.value]
  OBVIOUS
<1>3. SetView(v, n)
  <2> PICK m : m = [e EXCEPT !.at = "reading"]
    OBVIOUS
  <2>1. /\ m = [at |-> "reading", due |-> e.due, after |-> e.after,
                attested |-> e.attested, excused |-> e.excused, load |-> e.load,
                stale |-> e.stale, value |-> e.value]
        /\ IsView(m)
    BY <1>2, AtReplaced DEF IsView
  <2> PICK k : k = [m EXCEPT !.attested = m.attested \cup Pinned]
    OBVIOUS
  <2>2. k = [at |-> m.at, due |-> m.due, after |-> m.after,
             attested |-> m.attested \cup Pinned, excused |-> m.excused,
             load |-> m.load, stale |-> m.stale, value |-> m.value]
    BY <2>1, AttestedReplaced
  <2>3. k = n
    BY <2>1, <2>2
  <2> QED
    BY <2>3 DEF FillCache, SetView
<1>4. ViewHolds(n)
  BY <1>2 DEF ViewHolds, IsView, Covers, KeepsUp
<1>5. CacheInv'
  BY <1>1 DEF FillCache, CacheInv, storeVars
<1> QED
  BY <1>1, <1>3, <1>4, <1>5, OneView DEF DirectoryInv

LEMMA StoreFailsStays ==
    ASSUME DirectoryInv, NEW v \in Views, StoreFails(v)
    PROVE  DirectoryInv'
<1>1. UNCHANGED <<storeVars, walletCache, chain, snapshotVars, seen>>
  BY DEF StoreFails
<1> PICK e : e = view[v]
  OBVIOUS
<1>2. e # NOTHING /\ IsView(e) /\ Covers(e) /\ KeepsUp(e)
  BY DEF StoreFails, AtView, DirectoryInv, ViewsInv, ViewHolds
<1> PICK n : n = [at |-> "reading", due |-> e.due, after |-> e.after,
                  attested |-> e.attested, excused |-> Wallets,
                  load |-> e.load, stale |-> e.stale, value |-> e.value]
  OBVIOUS
<1>3. SetView(v, n)
  <2> PICK m : m = [e EXCEPT !.at = "reading"]
    OBVIOUS
  <2>1. /\ m = [at |-> "reading", due |-> e.due, after |-> e.after,
                attested |-> e.attested, excused |-> e.excused, load |-> e.load,
                stale |-> e.stale, value |-> e.value]
        /\ IsView(m)
    BY <1>2, AtReplaced DEF IsView
  <2> PICK k : k = [m EXCEPT !.excused = Wallets]
    OBVIOUS
  <2>2. k = [at |-> m.at, due |-> m.due, after |-> m.after,
             attested |-> m.attested, excused |-> Wallets,
             load |-> m.load, stale |-> m.stale, value |-> m.value]
    BY <2>1, ExcusedReplaced
  <2>3. k = n
    BY <2>1, <2>2
  <2> QED
    BY <2>3 DEF StoreFails, SetView
<1>4. ViewHolds(n)
  BY <1>2 DEF ViewHolds, IsView, Covers, KeepsUp, DirectoryInv, StoreInv, Registered
<1> QED
  BY <1>1, <1>3, <1>4, OneView, CacheKept DEF DirectoryInv, storeVars

LEMMA CloseViewStays ==
    ASSUME DirectoryInv, NEW v \in Views, CloseView(v)
    PROVE  DirectoryInv'
<1>1. UNCHANGED <<storeVars, walletCache, chain, snapshotVars, seen>>
  BY DEF CloseView
<1>2. SetView(v, NOTHING) /\ ViewHolds(NOTHING)
  BY DEF CloseView, ViewHolds
<1> QED
  BY <1>1, <1>2, OneView, CacheKept DEF DirectoryInv, storeVars

-----------------------------------------------------------------------------
(* The directory: readings of the chain *)

LEMMA ServeIs ==
    ASSUME NEW e, IsView(e), NEW x
    PROVE  /\ Serve(e, x) =
                [at |-> "served", due |-> e.due, after |-> e.after,
                 attested |-> e.attested, excused |-> e.excused, load |-> NOTHING,
                 stale |-> FALSE, value |-> x]
           /\ IsView(Serve(e, x))
<1> PICK a : a = [e EXCEPT !.at = "served"]
  OBVIOUS
<1> PICK b : b = [a EXCEPT !.value = x]
  OBVIOUS
<1> PICK c : c = [b EXCEPT !.load = NOTHING]
  OBVIOUS
<1> PICK d : d = [c EXCEPT !.stale = FALSE]
  OBVIOUS
<1>1. /\ a = [at |-> "served", due |-> e.due, after |-> e.after,
               attested |-> e.attested, excused |-> e.excused, load |-> e.load,
               stale |-> e.stale, value |-> e.value]
      /\ IsView(a)
  BY AtReplaced DEF IsView
<1>2. /\ b = [at |-> a.at, due |-> a.due, after |-> a.after,
               attested |-> a.attested, excused |-> a.excused, load |-> a.load,
               stale |-> a.stale, value |-> x]
      /\ IsView(b)
  BY <1>1, ValueReplaced DEF IsView
<1>3. /\ c = [at |-> b.at, due |-> b.due, after |-> b.after,
               attested |-> b.attested, excused |-> b.excused, load |-> NOTHING,
               stale |-> b.stale, value |-> b.value]
      /\ IsView(c)
  BY <1>2, LoadReplaced DEF IsView
<1>4. /\ d = [at |-> c.at, due |-> c.due, after |-> c.after,
               attested |-> c.attested, excused |-> c.excused, load |-> c.load,
               stale |-> FALSE, value |-> c.value]
      /\ IsView(d)
  BY <1>3, StaleReplaced DEF IsView
<1>5. /\ d.at = "served" /\ d.due = e.due /\ d.after = e.after
      /\ d.attested = e.attested /\ d.excused = e.excused /\ d.load = NOTHING
      /\ d.stale = FALSE /\ d.value = x
  BY <1>1, <1>2, <1>3, <1>4
<1>6. Serve(e, x) = d
  BY Zenon DEF Serve
<1> QED
  BY <1>4, <1>5, <1>6 DEF IsView

\* A view that is served nothing, or a reading not older than what was served before
\* it asked.
LEMMA ServedHolds ==
    ASSUME NEW e, e # NOTHING, ViewHolds(e), e.at \in {"reading", "waiting"}, seen \in Nat,
           NEW x, x = NOTHING \/ (x \in Nat /\ seen <= x)
    PROVE  ViewHolds(Serve(e, x))
<1>1. IsView(e) /\ Covers(e) /\ KeepsUp(e)
  BY DEF ViewHolds
<1> PICK n : n = Serve(e, x)
  OBVIOUS
<1>2. /\ IsView(n) /\ n.at = "served" /\ n.due = e.due /\ n.after = e.after
      /\ n.attested = e.attested /\ n.excused = e.excused /\ n.stale = FALSE
      /\ n.value = x
  BY <1>1, ServeIs
<1>3. Covers(n)
  BY <1>1, <1>2 DEF Covers
<1>4. KeepsUp(n)
  BY <1>1, <1>2 DEF KeepsUp
<1> QED
  BY <1>2, <1>3, <1>4 DEF ViewHolds

\* Serving the last reading, in time.
LEMMA ReadCachedStays ==
    ASSUME DirectoryInv, NEW v \in Views, ReadCached(v)
    PROVE  DirectoryInv'
<1>1. /\ UNCHANGED <<storeVars, walletCache, chain, snapshotVars>>
      /\ UNCHANGED <<listed, last, inflight>>
      /\ seen' = Latest(last.value)
  BY DEF ReadCached, storeVars, snapshotVars
<1>2. chain \in Nat /\ seen \in Nat /\ seen <= chain /\ LastHolds
  BY DEF ReadCached, IsFresh, DirectoryInv, SnapshotInv
<1>3. seen' \in Nat /\ seen <= seen' /\ seen' <= last.value /\ seen' <= chain
  BY <1>1, <1>2 DEF Latest, LastHolds
<1>4. LastHolds'
  BY <1>1, <1>2, <1>3 DEF LastHolds
<1>5. SnapshotInv'
  <2>1. ASSUME NEW l \in inflight PROVE ReadingHolds(l)'
    <3>1. ReadingHolds(l)
      BY DEF DirectoryInv, SnapshotInv
    <3>2. last # NOTHING
      BY DEF ReadCached, IsFresh
    <3> QED
      BY <1>1, <1>2, <1>3, <3>1, <3>2 DEF ReadingHolds, LastHolds
  <2> QED
    BY <1>1, <1>2, <1>3, <1>4, <2>1 DEF DirectoryInv, SnapshotInv
<1>6. ViewsInv'
  <2> PICK e : e = view[v]
    OBVIOUS
  <2>1. e # NOTHING /\ ViewHolds(e) /\ e.at = "reading"
    BY DEF ReadCached, AtView, DirectoryInv, ViewsInv
  <2> PICK x : x = last.value
    OBVIOUS
  <2> PICK n : n = Serve(e, x)
    OBVIOUS
  <2>2. ViewHolds(n)
    BY <1>2, <2>1, ServedHolds DEF LastHolds
  <2>3. ViewHolds(n)'
    BY <1>1, <1>2, <1>3, <1>4, <2>2, ViewKept
  <2>4. SetView(v, n)
    BY DEF ReadCached
  <2> QED
    BY <1>1, <1>2, <1>3, <1>4, <2>3, <2>4, ViewChanged DEF DirectoryInv
<1> QED
  BY <1>1, <1>5, <1>6, StoreKept, CacheKept DEF DirectoryInv

\* A reading that starts is the only one; or the view joins the one there is.
LEMMA LoadStays ==
    ASSUME DirectoryInv, NEW v \in Views, Load(v)
    PROVE  DirectoryInv'
<1>0. PICK load : load = IF Joinable = {} THEN [by |-> v, value |-> NOTHING]
                         ELSE CHOOSE l \in Joinable : TRUE
  OBVIOUS
<1> PICK e : e = view[v]
  OBVIOUS
<1>1. /\ UNCHANGED <<storeVars, walletCache, chain, last, seen>>
      /\ UNCHANGED <<listed, walletCache>>
      /\ inflight' = inflight \cup {load}
      /\ SetView(v, [e EXCEPT !.at = "waiting", !.load = load.by,
                             !.stale = IsFresh(last, KeepStale)])
  BY <1>0 DEF Load, storeVars
<1>2. e # NOTHING /\ ViewHolds(e) /\ e.at = "reading" /\ seen \in Nat
  BY DEF Load, AtView, DirectoryInv, ViewsInv, SnapshotInv
<1>3. SnapshotInv'
  <2>1. CASE inflight = {}
    <3>1. load = [by |-> v, value |-> NOTHING] /\ inflight' = {load}
      BY <1>0, <1>1, <2>1 DEF Joinable
    <3>2. load.value = NOTHING /\ load = [by |-> load.by, value |-> load.value]
      BY <3>1
    <3>3. ReadingHolds(load)'
      BY <3>2 DEF ReadingHolds
    <3> QED
      BY <1>1, <3>1, <3>3 DEF DirectoryInv, SnapshotInv, LastHolds
  <2>2. CASE inflight # {}
    <3>1. inflight' = inflight
      BY <1>0, <1>1, <2>2 DEF Joinable
    <3> QED
      BY <1>1, <3>1, SnapshotKept DEF DirectoryInv, snapshotVars
  <2> QED
    BY <2>1, <2>2
<1>4. ViewsInv'
  <2> PICK a : a = [e EXCEPT !.at = "waiting"]
    OBVIOUS
  <2> PICK b : b = [a EXCEPT !.load = load.by]
    OBVIOUS
  <2>1. /\ a = [at |-> "waiting", due |-> e.due, after |-> e.after,
                 attested |-> e.attested, excused |-> e.excused, load |-> e.load,
                 stale |-> e.stale, value |-> e.value]
        /\ IsView(a) /\ IsView(e)
    BY <1>2, AtReplaced DEF IsView, ViewHolds
  <2>2. /\ b = [at |-> a.at, due |-> a.due, after |-> a.after,
                 attested |-> a.attested, excused |-> a.excused, load |-> load.by,
                 stale |-> a.stale, value |-> a.value]
        /\ IsView(b)
    BY <2>1, LoadReplaced DEF IsView
  <2>3. ASSUME NEW x, x => LastHolds, SetView(v, [b EXCEPT !.stale = x])
        PROVE  ViewsInv'
    <3> PICK n : n = [b EXCEPT !.stale = x]
      OBVIOUS
    <3>1. /\ n = [at |-> b.at, due |-> b.due, after |-> b.after,
                   attested |-> b.attested, excused |-> b.excused, load |-> b.load,
                   stale |-> x, value |-> b.value]
          /\ IsView(n)
      BY <2>2, StaleReplaced DEF IsView
    <3>2. Covers(n)
      BY <1>2, <2>1, <2>2, <3>1 DEF ViewHolds, Covers
    <3>3. KeepsUp(n)
      BY <1>2, <2>1, <2>2, <2>3, <3>1 DEF ViewHolds, KeepsUp
    <3>4. ViewHolds(n)'
      BY <1>1, <1>2, <3>1, <3>2, <3>3, ViewKept DEF ViewHolds, LastHolds
    <3>5. SetView(v, n)
      BY <2>3
    <3> QED
      BY <1>1, <1>2, <3>4, <3>5, ViewChanged DEF DirectoryInv, LastHolds
  <2>4. CASE IsFresh(last, KeepStale)
    <3>1. LastHolds
      BY <2>4 DEF IsFresh, DirectoryInv, SnapshotInv
    <3>2. IsFresh(last, KeepStale) = TRUE
      BY <2>4 DEF IsFresh
    <3>3. SetView(v, [b EXCEPT !.stale = TRUE])
      BY <1>1, <3>2, Zenon DEF SetView
    <3> QED
      BY <2>3, <3>1, <3>3
  <2>5. CASE ~IsFresh(last, KeepStale)
    <3>1. IsFresh(last, KeepStale) = FALSE
      BY <2>5 DEF IsFresh
    <3>2. SetView(v, [b EXCEPT !.stale = FALSE])
      BY <1>1, <3>1, Zenon DEF SetView
    <3> QED
      BY <2>3, <3>2
  <2> QED
    BY <2>4, <2>5
<1> QED
  BY <1>1, <1>3, <1>4, StoreKept, CacheKept DEF DirectoryInv

\* A reading gives the chain as it is now.
LEMMA ReadChainStays ==
    ASSUME DirectoryInv, NEW load \in inflight, ReadChain(load)
    PROVE  DirectoryInv'
<1>1. /\ UNCHANGED <<storeVars, walletCache, chain, last, view, seen>>
      /\ UNCHANGED <<listed, walletCache>>
      /\ inflight' = (inflight \ {load}) \cup {[load EXCEPT !.value = chain]}
  BY DEF ReadChain, storeVars
<1>2. /\ chain \in Nat /\ seen \in Nat /\ seen <= chain /\ ReadingHolds(load)
      /\ last # NOTHING => LastHolds /\ last = [value |-> last.value, age |-> last.age]
      /\ inflight = {load}
  BY DEF DirectoryInv, SnapshotInv
<1> PICK n : n = [load EXCEPT !.value = chain]
  OBVIOUS
<1>3. n = [by |-> load.by, value |-> chain]
  BY <1>2 DEF ReadingHolds
<1>4. inflight' = {n}
  BY <1>1, <1>2
<1>5. ReadingHolds(n)'
  BY <1>1, <1>2, <1>3 DEF ReadingHolds, LastHolds
<1>6. SnapshotInv'
  BY <1>1, <1>2, <1>4, <1>5 DEF SnapshotInv, LastHolds
<1>7. ViewsInv'
  BY <1>1, <1>2, ViewsKept DEF DirectoryInv, LastHolds
<1> QED
  BY <1>1, <1>6, <1>7, StoreKept, CacheKept DEF DirectoryInv

\* Everybody who waits is served, by what each of them is due.
LEMMA ViewsServed ==
    ASSUME ViewsInv, NEW load, NEW value,
           view' = [v \in Views |-> IF v \in ViewsWaiting(load)
                                    THEN Serve(view[v], value[v]) ELSE view[v]],
           \A v \in ViewsWaiting(load) :
               value[v] = NOTHING \/ (value[v] \in Nat /\ seen <= value[v]),
           listed' = listed, seen \in Nat, seen' \in Nat, seen <= seen',
           LastHolds => LastHolds'
    PROVE  ViewsInv'
<1>1. ASSUME NEW v \in Views PROVE ViewHolds(view[v])'
  <2> PICK e : e = view[v]
    OBVIOUS
  <2>1. CASE v \in ViewsWaiting(load)
    <3> PICK x : x = value[v]
      OBVIOUS
    <3> PICK n : n = Serve(e, x)
      OBVIOUS
    <3>1. e # NOTHING /\ ViewHolds(e) /\ e.at = "waiting"
      BY <2>1 DEF ViewsWaiting, AtView, ViewsInv
    <3>2. ViewHolds(n)
      BY <2>1, <3>1, ServedHolds
    <3>3. ViewHolds(n)'
      BY <3>2, ViewKept
    <3>4. view'[v] = n
      BY <2>1
    <3> QED
      BY <3>3, <3>4 DEF ViewHolds, IsView, Covers, KeepsUp, LastHolds
  <2>2. CASE v \notin ViewsWaiting(load)
    <3>1. view'[v] = e /\ ViewHolds(e)
      BY <2>2 DEF ViewsInv
    <3>2. ViewHolds(e)'
      BY <3>1, ViewKept
    <3> QED
      BY <3>1, <3>2 DEF ViewHolds, IsView, Covers, KeepsUp, LastHolds
  <2> QED
    BY <2>1, <2>2
<1> QED
  BY <1>1 DEF ViewsInv

\* The only reading comes back, and becomes the last one.
LEMMA LoadedStays ==
    ASSUME DirectoryInv, NEW load \in inflight, Loaded(load)
    PROVE  DirectoryInv'
<1> PICK x : x = load.value
  OBVIOUS
<1>1. /\ UNCHANGED <<storeVars, walletCache, chain>> /\ UNCHANGED <<listed, walletCache>>
      /\ last' = [value |-> x, age |-> 0] /\ inflight' = inflight \ {load}
      /\ view' = [v \in Views |-> IF v \in ViewsWaiting(load)
                                  THEN Serve(view[v], x) ELSE view[v]]
      /\ seen' = Latest(x) /\ x # NOTHING
  BY DEF Loaded, storeVars
<1>2. /\ chain \in Nat /\ seen \in Nat /\ seen <= chain
      /\ x \in Nat /\ seen <= x /\ x <= chain
      /\ last # NOTHING => last.value <= x
      /\ inflight = {load}
  BY <1>1 DEF DirectoryInv, SnapshotInv, ReadingHolds
<1>3. seen' = x
  BY <1>1, <1>2 DEF Latest
<1>4. inflight' = {}
  BY <1>1, <1>2
<1>5. LastHolds' /\ last' = [value |-> last'.value, age |-> last'.age]
  BY <1>1, <1>2, <1>3 DEF LastHolds
<1>6. SnapshotInv'
  BY <1>1, <1>2, <1>3, <1>4, <1>5 DEF SnapshotInv
<1>7. ViewsInv'
  <2> PICK value : value = [v \in Views |-> x]
    OBVIOUS
  <2>1. view' = [v \in Views |-> IF v \in ViewsWaiting(load)
                                 THEN Serve(view[v], value[v]) ELSE view[v]]
    BY <1>1
  <2>2. \A v \in ViewsWaiting(load) :
           value[v] = NOTHING \/ (value[v] \in Nat /\ seen <= value[v])
    BY <1>2 DEF ViewsWaiting
  <2> QED
    BY <1>1, <1>2, <1>3, <1>5, <2>1, <2>2, ViewsServed DEF DirectoryInv
<1> QED
  BY <1>1, <1>6, <1>7, StoreKept, CacheKept DEF DirectoryInv

\* A reading that fails serves the last one to who may still have it.
LEMMA LoadFailsStays ==
    ASSUME DirectoryInv, NEW load \in inflight, LoadFails(load)
    PROVE  DirectoryInv'
<1>1. /\ UNCHANGED <<storeVars, walletCache, chain, last, seen>>
      /\ UNCHANGED <<listed, walletCache>>
      /\ inflight' = inflight \ {load}
      /\ view' = [v \in Views |-> IF v \in ViewsWaiting(load)
                                  THEN Serve(view[v], Fallback(v)) ELSE view[v]]
  BY DEF LoadFails, storeVars
<1>2. seen \in Nat /\ (LastHolds => LastHolds')
  BY <1>1 DEF DirectoryInv, SnapshotInv, LastHolds
<1>3. SnapshotInv'
  BY <1>1 DEF DirectoryInv, SnapshotInv, LastHolds, ReadingHolds
<1>4. ASSUME NEW v \in ViewsWaiting(load)
      PROVE  Fallback(v) = NOTHING \/ (Fallback(v) \in Nat /\ seen <= Fallback(v))
  <2>1. view[v] # NOTHING /\ ViewHolds(view[v])
    BY DEF ViewsWaiting, AtView, DirectoryInv, ViewsInv
  <2>2. view[v].stale => LastHolds
    BY <2>1 DEF ViewHolds, KeepsUp
  <2> QED
    BY <2>2 DEF Fallback, LastHolds
<1>5. ViewsInv'
  <2> PICK value : value = [v \in Views |-> Fallback(v)]
    OBVIOUS
  <2>1. view' = [v \in Views |-> IF v \in ViewsWaiting(load)
                                 THEN Serve(view[v], value[v]) ELSE view[v]]
    BY <1>1
  <2>2. \A v \in ViewsWaiting(load) :
           value[v] = NOTHING \/ (value[v] \in Nat /\ seen <= value[v])
    BY <1>4 DEF ViewsWaiting
  <2> QED
    BY <1>1, <1>2, <2>1, <2>2, ViewsServed DEF DirectoryInv
<1> QED
  BY <1>1, <1>3, <1>5, StoreKept, CacheKept DEF DirectoryInv

-----------------------------------------------------------------------------
(* The directory: time *)

LEMMA GrowStays ==
    ASSUME DirectoryInv, Grow
    PROVE  DirectoryInv'
<1>1. /\ UNCHANGED <<storeVars, walletCache, last, inflight, view, seen>>
      /\ UNCHANGED <<listed, walletCache>> /\ chain' = chain + 1
  BY DEF Grow, storeVars, snapshotVars
<1>2. LastHolds /\ chain \in Nat => LastHolds'
  BY <1>1 DEF LastHolds
<1>3. ASSUME NEW l \in inflight PROVE ReadingHolds(l)'
  BY <1>1 DEF DirectoryInv, SnapshotInv, ReadingHolds
<1>4. SnapshotInv'
  BY <1>1, <1>2, <1>3 DEF DirectoryInv, SnapshotInv
<1>5. ViewsInv'
  BY <1>1, <1>2, ViewsKept DEF DirectoryInv, SnapshotInv
<1> QED
  BY <1>1, <1>4, <1>5, StoreKept, CacheKept DEF DirectoryInv

\* Growing older changes an age and nothing else of a cache.
LEMMA CachesAgeStays ==
    ASSUME DirectoryInv, CachesAge
    PROVE  DirectoryInv'
<1>1. /\ UNCHANGED <<storeVars, chain, inflight, view, seen>>
      /\ UNCHANGED <<listed, rows, request>>
  BY DEF CachesAge, storeVars
<1>2. CacheInv'
  <2>1. CASE IsFresh(walletCache, KeepWallets)
    <3>1. walletCache' = [wallets |-> walletCache.wallets, age |-> walletCache.age + 1,
                          missed |-> walletCache.missed]
      BY <2>1 DEF CachesAge, Older, IsFresh, DirectoryInv, CacheInv
    <3> QED
      BY <1>1, <2>1, <3>1 DEF DirectoryInv, CacheInv, IsFresh
  <2>2. CASE ~IsFresh(walletCache, KeepWallets)
    BY <1>1, <2>2, CacheKept DEF CachesAge, Older, DirectoryInv
  <2> QED
    BY <2>1, <2>2
<1>3. \/ last' = last
      \/ last # NOTHING /\ last' = [value |-> last.value, age |-> last.age + 1]
  <2>1. CASE IsFresh(last, KeepStale)
    BY <2>1 DEF CachesAge, Older, IsFresh, DirectoryInv, SnapshotInv
  <2>2. CASE ~IsFresh(last, KeepStale)
    BY <2>2 DEF CachesAge, Older
  <2> QED
    BY <2>1, <2>2
<1>4. last # NOTHING => LastHolds /\ last = [value |-> last.value, age |-> last.age]
  BY DEF DirectoryInv, SnapshotInv
<1>5. LastHolds => LastHolds'
  BY <1>1, <1>3 DEF LastHolds
<1>6. ASSUME NEW l \in inflight PROVE ReadingHolds(l)'
  <2>1. ReadingHolds(l)
    BY DEF DirectoryInv, SnapshotInv
  <2> QED
    BY <1>1, <1>3, <1>4, <2>1 DEF ReadingHolds, LastHolds
<1>7. SnapshotInv'
  <2>1. last' # NOTHING => LastHolds' /\ last' = [value |-> last'.value, age |-> last'.age]
    BY <1>3, <1>4, <1>5
  <2> QED
    BY <1>1, <1>6, <2>1 DEF DirectoryInv, SnapshotInv
<1>8. ViewsInv'
  BY <1>1, <1>5, ViewsKept DEF DirectoryInv, SnapshotInv
<1> QED
  BY <1>1, <1>2, <1>7, <1>8, StoreKept DEF DirectoryInv

-----------------------------------------------------------------------------
(* The directory: what it serves *)

LEMMA DirectoryStarts == DirectoryInit => DirectoryInv
<1> SUFFICES ASSUME DirectoryInit PROVE DirectoryInv
  OBVIOUS
<1>1. StoreInv
  BY DEF DirectoryInit, StoreInv, RequestHolds, Registered
<1>2. CacheInv /\ SnapshotInv
  BY DEF DirectoryInit, CacheInv, SnapshotInv
<1>3. ViewsInv
  BY DEF DirectoryInit, ViewsInv, ViewHolds
<1> QED
  BY <1>1, <1>2, <1>3 DEF DirectoryInv

LEMMA DirectorySteps ==
    ASSUME DirectoryInv, DirectoryNext
    PROVE  DirectoryInv'
<1>1. CASE \E r \in Requests :
             \/ \E w, by \in Wallets, d \in Dates : Submit(r, w, d, by)
             \/ Find(r) \/ Write(r) \/ Listed(r) \/ RequestFails(r)
  BY <1>1, RequestSteps
<1>2. CASE \E v \in Views : OpenView(v) \/ QueryWallets(v) \/ FillCache(v)
  BY <1>2, OpenViewStays, QueryWalletsStays, FillCacheStays
<1>3. CASE \E v \in Views : StoreFails(v) \/ ReadCached(v) \/ Load(v) \/ CloseView(v)
  BY <1>3, StoreFailsStays, ReadCachedStays, LoadStays, CloseViewStays
<1>4. CASE \E load \in inflight : ReadChain(load) \/ Loaded(load) \/ LoadFails(load)
  BY <1>4, ReadChainStays, LoadedStays, LoadFailsStays
<1>5. CASE Grow \/ CachesAge
  BY <1>5, GrowStays, CachesAgeStays
<1> QED
  BY <1>1, <1>2, <1>3, <1>4, <1>5 DEF DirectoryNext

LEMMA DirectoryStutters ==
    ASSUME DirectoryInv, UNCHANGED directoryVars
    PROVE  DirectoryInv'
<1>1. /\ UNCHANGED <<storeVars, walletCache, chain, snapshotVars, view, seen>>
      /\ UNCHANGED <<listed, last>>
  BY DEF directoryVars, storeVars, snapshotVars
<1>2. ViewsInv'
  BY <1>1, ViewsKept DEF DirectoryInv, SnapshotInv, LastHolds
<1> QED
  BY <1>1, <1>2, StoreKept, CacheKept, SnapshotKept DEF DirectoryInv

\* However registrations, queries and readings interleave, fail or are cached, a
\* directory that is served counts everybody who was told to be listed before it was
\* asked for, but for a store that failed or a set whose query was under way then,
\* and shows no older chain than was shown before it was asked for.
THEOREM DirectoryStaysCurrent == DirectorySpec => []DirectoryIsCurrent
<1>1. DirectoryInv /\ [DirectoryNext]_directoryVars => DirectoryInv'
  BY DirectorySteps, DirectoryStutters
<1>2. DirectoryInv => DirectoryIsCurrent
  BY DEF DirectoryInv, ViewsInv, ViewHolds, Covers, KeepsUp, DirectoryIsCurrent,
         RegisteredIsCounted, NeverBackInTime, Served
<1> QED
  BY DirectoryStarts, <1>1, <1>2, PTL DEF DirectorySpec

=============================================================================
