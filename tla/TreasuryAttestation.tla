-------------------------- MODULE TreasuryAttestation --------------------------
(***************************************************************************)
(* How the treasury's custody reaches a deployment to mainnet.  On a page  *)
(* that works only on localhost an operator writes down the reviewed       *)
(* release, gets a challenge that lives 24 hours, connects Leather, lets   *)
(* the treasury's account sign it, and saves the receipt.  A run of        *)
(* scripts/deploy-service-fee-mainnet.mjs, on a machine with a clock of    *)
(* its own, checks the file against the release it is about to deploy      *)
(* before it opens the campaign's journal.                                 *)
(*                                                                         *)
(* A receipt is the message together with the account that signed it: a    *)
(* signature verifies for no other message and no other key.  The random   *)
(* challenge only keeps two messages of one instant apart, and is left     *)
(* out.  Time is in units of half a lifetime; the deployments themselves   *)
(* are in TxJournal.                                                       *)
(***************************************************************************)
EXTENDS Nothing, Integers

CONSTANTS
    Shas,           \* reviewed merge commits
    Treasury,
    WalletAccounts, \* the accounts of the wallet, the treasury's among them
    Lifetime,       \* 24 hours
    Skew,           \* TREASURY_ATTESTATION_CLOCK_SKEW_MS
    Lags,           \* how far the deploying machine's clock may be ahead
    MaxTime         \* bound on the clock

VARIABLES
    isLocal,        \* the page was opened on localhost
    reviewedSha, draft, receipt, walletAddress, busy,   \* the page's state
    prompt,         \* the message the open request of the wallet shows
    wallet,         \* the account selected in the wallet
    saved,          \* the receipt file, or NOTHING
    now, lag,       \* the browser's clock; the other clock is now + lag
    head,           \* what is checked out where the deployment runs
    deployment, campaign    \* a deployment of the deployment; the journal it writes

pageState == <<reviewedSha, draft, receipt, walletAddress, busy, prompt>>
fixed == <<isLocal, lag>>
attestationVars == <<pageState, wallet, saved, now, head, deployment, campaign, fixed>>

-----------------------------------------------------------------------------
(* services/treasury-attestation.ts and the checks of the deployment *)

createTreasuryAttestationDraft(sha) ==
    [sha |-> sha, issuedAt |-> now, expiresAt |-> now + Lifetime]

\* What the signature of an account is worth to the page: a receipt, or an error.
createVerifiedTreasuryAttestationReceipt(message, account) ==
    IF account = Treasury THEN [message |-> message, by |-> account] ELSE NOTHING

\* By the clock of the machine that deploys.
IsCurrent(message, clock) ==
    /\ message.expiresAt > message.issuedAt
    /\ message.expiresAt - message.issuedAt <= Lifetime
    /\ message.issuedAt <= clock + Skew
    /\ clock <= message.expiresAt

verifyTreasuryAttestation_AnyRelease(file, sha) ==                  \* mutant
    file # NOTHING /\ file.by = Treasury /\ IsCurrent(file.message, now + lag)
verifyTreasuryAttestation(file, sha) ==
    /\ file # NOTHING
    /\ file.message.sha = sha
    /\ IsCurrent(file.message, now + lag)
    /\ file.by = Treasury

-----------------------------------------------------------------------------
(* The page *)

Idle == busy = "no"

\* The page opens, or is loaded again; its address may name the release.
Open(sha) ==
    /\ reviewedSha' = sha /\ draft' = NOTHING /\ receipt' = NOTHING
    /\ walletAddress' = NOTHING /\ busy' = "no" /\ prompt' = NOTHING
    /\ UNCHANGED <<wallet, saved, now, head, deployment, campaign, fixed>>

EditSha(sha) ==
    /\ Idle
    /\ reviewedSha' = sha /\ draft' = NOTHING /\ receipt' = NOTHING
    /\ UNCHANGED <<walletAddress, busy, prompt, wallet, saved, now, head, deployment,
                   campaign, fixed>>

prepareReview ==
    /\ Idle /\ isLocal /\ reviewedSha \in Shas
    /\ draft' = createTreasuryAttestationDraft(reviewedSha)
    /\ receipt' = NOTHING
    /\ UNCHANGED <<reviewedSha, walletAddress, busy, prompt, wallet, saved, now,
                   head, deployment, campaign, fixed>>

connectTreasury ==
    /\ Idle /\ isLocal /\ draft # NOTHING
    /\ busy' = "connect" /\ walletAddress' = NOTHING
    /\ UNCHANGED <<reviewedSha, draft, receipt, prompt, wallet, saved, now, head,
                   deployment, campaign, fixed>>

\* The account that is selected when the request is answered.
Connected ==
    /\ busy = "connect"
    /\ busy' = "no" /\ walletAddress' = wallet
    /\ UNCHANGED <<reviewedSha, draft, receipt, prompt, wallet, saved, now, head,
                   deployment, campaign, fixed>>

signAttestation ==
    /\ Idle /\ isLocal /\ draft # NOTHING /\ receipt = NOTHING
    /\ walletAddress = Treasury
    /\ busy' = "sign" /\ prompt' = draft /\ receipt' = NOTHING
    /\ UNCHANGED <<reviewedSha, draft, walletAddress, wallet, saved, now, head,
                   deployment, campaign, fixed>>

\* Leather signs with the account that is selected now.
SignedByWallet ==
    /\ busy = "sign"
    /\ receipt' = createVerifiedTreasuryAttestationReceipt(prompt, wallet)
    /\ busy' = "no" /\ prompt' = NOTHING
    /\ UNCHANGED <<reviewedSha, draft, walletAddress, wallet, saved, now, head,
                   deployment, campaign, fixed>>

\* The request is cancelled in the wallet.
Cancelled ==
    /\ ~Idle
    /\ busy' = "no" /\ prompt' = NOTHING
    /\ UNCHANGED <<reviewedSha, draft, receipt, walletAddress, wallet, saved, now,
                   head, deployment, campaign, fixed>>

downloadReceipt ==
    /\ receipt # NOTHING /\ saved' = receipt
    /\ UNCHANGED <<pageState, wallet, now, head, deployment, campaign, fixed>>

SelectAccount(account) ==
    /\ account # wallet /\ wallet' = account
    /\ UNCHANGED <<pageState, saved, now, head, deployment, campaign, fixed>>

TimePasses ==
    /\ now < MaxTime /\ now' = now + 1
    /\ UNCHANGED <<pageState, wallet, saved, head, deployment, campaign, fixed>>

-----------------------------------------------------------------------------
(* deploy-service-fee-mainnet.mjs up to its first operation *)

Step(changes) ==
    deployment' = changes /\ UNCHANGED <<pageState, wallet, saved, now, fixed>>

\* guard and release: the environment confirms the release that is checked out,
\* and the gate and the tests that follow take long.
Release(sha) ==
    /\ deployment = NOTHING /\ head = sha
    /\ Step([at |-> "validating", sha |-> sha, file |-> NOTHING])
    /\ UNCHANGED <<head, campaign>>

Attest ==
    /\ deployment # NOTHING /\ deployment.at = "validating"
    /\ verifyTreasuryAttestation(saved, deployment.sha)
    /\ Step([deployment EXCEPT !.at = "attested", !.file = saved])
    /\ UNCHANGED <<head, campaign>>

\* bindCampaignState and the journal: made by the first deployment, of one release;
\* the journal keeps the attestation of the first deployment.
IsBound == campaign # NOTHING => campaign.sha = deployment.sha
OpenJournal ==
    /\ deployment # NOTHING /\ deployment.at = "attested" /\ IsBound
    /\ campaign' = IF campaign # NOTHING THEN campaign
                   ELSE [sha |-> deployment.sha, attestation |-> deployment.file]
    /\ Step([deployment EXCEPT !.at = "operating"])
    /\ UNCHANGED head

\* The end of a deployment: done, refused by one of its checks, or killed.
End ==
    /\ deployment # NOTHING /\ Step(NOTHING) /\ UNCHANGED <<head, campaign>>

Checkout(sha) ==
    /\ head # sha /\ head' = sha
    /\ UNCHANGED <<pageState, wallet, saved, now, deployment, campaign, fixed>>

-----------------------------------------------------------------------------
AttestationInit ==
    /\ isLocal \in BOOLEAN /\ lag \in Lags
    /\ reviewedSha \in Shas \cup {NOTHING}
    /\ draft = NOTHING /\ receipt = NOTHING /\ walletAddress = NOTHING
    /\ busy = "no" /\ prompt = NOTHING
    /\ wallet \in WalletAccounts /\ saved = NOTHING /\ now = 0
    /\ head \in Shas /\ deployment = NOTHING /\ campaign = NOTHING

AttestationNext ==
    \/ \E sha \in Shas \cup {NOTHING} : Open(sha) \/ EditSha(sha)
    \/ prepareReview \/ connectTreasury \/ Connected
    \/ signAttestation \/ SignedByWallet \/ Cancelled \/ downloadReceipt
    \/ \E account \in WalletAccounts : SelectAccount(account)
    \/ TimePasses
    \/ \E sha \in Shas : Release(sha) \/ Checkout(sha)
    \/ Attest \/ OpenJournal \/ End

AttestationSpec == AttestationInit /\ [][AttestationNext]_attestationVars

-----------------------------------------------------------------------------
(* Properties *)

\* What the page shows as signed, and what the wallet is asked to sign, is the
\* message on the screen, made for the release in its input ("The structured data
\* shown here is exactly what Leather will sign"): a request that is answered late
\* must not land on another message.
ScreenAgrees ==
    /\ draft # NOTHING => draft.sha = reviewedSha
    /\ receipt # NOTHING => receipt.message = draft
    /\ busy = "sign" => prompt = draft

\* A deployment that may sign transactions deploys the release its campaign was begun
\* with, and the treasury's account signed a message for that very release: the
\* message the deployment was given and the one the journal keeps.
DeployedAsAttested ==
    deployment # NOTHING /\ deployment.at = "operating" =>
        /\ campaign.sha = deployment.sha
        /\ \A file \in {deployment.file, campaign.attestation} :
               file.by = Treasury /\ file.message.sha = deployment.sha

ApprovedAsShown == ScreenAgrees /\ DeployedAsAttested
=============================================================================
