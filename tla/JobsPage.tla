------------------------------ MODULE JobsPage ------------------------------
(***************************************************************************)
(* App/src/app/jobs/page.tsx: one browser tab in which a user manages jobs *)
(* of two escrow contracts, "stx" and "sbtc", while the chain moves on.    *)
(* Both contracts number their jobs from one, and the page knows a job on  *)
(* its screen by that number and by the selected currency: one job of the  *)
(* same number per contract is enough to tell them apart or mix them up.   *)
(*                                                                         *)
(* A handler of the page is a closure: it keeps the card, the currency,    *)
(* the address and the consents of the moment it was clicked, and awaits   *)
(* reads, the wallet and the chain afterwards.  Lists are read one call at *)
(* a time and arrive in any order.  The contracts are abstracted to what a *)
(* call needs, moves and leaves behind; AgenticCommerce has the rest.      *)
(***************************************************************************)
EXTENDS Integers, FiniteSets, TLC

CONSTANTS
    Client, Provider, Evaluator, Authority, \* the parties of the jobs
    Accounts,      \* the accounts of the user's wallet, and Nobody
    NONE,          \* no list, no form, no transfer, no fresh job
    Worlds,        \* the terms of the jobs a behaviour may start with
    Budgets,       \* what a client may set
    Refreshes,     \* how often a confirmed transaction reloads the list
    Unreliable,    \* bound: the currencies whose reads may fail
    MaxLoads,      \* bound: lists being read at once
    MaxRuns,       \* bound: clicks in a behaviour
    MaxConsents,   \* bound: fee terms ticked at once
    MaxMoves,      \* bound: calls that others, or other tabs, make
    MaxBurnHeight  \* bound: bitcoin blocks

VARIABLES
    escrow,        \* currency -> the job on the chain
    burn, expired, \* burn-block-height; the expiry height is reached
    moves,         \* calls made elsewhere so far
    stored,        \* the account @stacks/connect has stored ("": none)
    address,       \* the page's copy of it
    currency, shown, loading, form, tip, late, accepted,  \* page state
    loads,         \* loadJobs in progress
    runs, clicks   \* run() in progress, and how many there were

chainVars == <<escrow, burn, expired, moves>>
screenVars == <<shown, loading, tip, late>>
choiceVars == <<currency, form, accepted>>
walletVars == <<stored, address>>
runVars == <<runs, clicks>>
vars == <<chainVars, walletVars, screenVars, choiceVars, loads, runVars>>

Currencies == {"stx", "sbtc"}
Nobody == ""                    \* getConnectedStxAddress without a wallet

OPEN == 0          FUNDED == 1           SUBMITTED == 2
COMPLETED == 3     REJECTED == 4         EXPIRED == 5
TIMEOUT_PAID == 6  DECISION_PENDING == 7 DISPUTED == 8

Judged == {DECISION_PENDING, DISPUTED}
Settled == {COMPLETED, REJECTED}

-----------------------------------------------------------------------------
(* The contracts, as the page depends on them.  deadline is the one that   *)
(* the job's status waits for, with windows of zero blocks.                *)

\* A job with these terms: its status, provider, budget and decision.
Job(terms) ==
    [held |-> IF terms.status = OPEN THEN 0 ELSE terms.budget,
     deadline |-> 0, waived |-> FALSE] @@ terms

Passed(job) == burn > job.deadline

Allowed(call, by, job) ==
    \/ /\ call.name = "set-budget"
       /\ by = Client /\ job.status = OPEN
    \/ /\ call.name = "fund-job"
       /\ by = Client /\ job.status = OPEN /\ job.budget > 0 /\ ~expired
    \/ /\ call.name = "assign-provider"
       /\ by = Client /\ job.status = FUNDED
    \/ /\ call.name = "submit-work"
       /\ by = job.provider /\ job.status = FUNDED /\ ~expired
    \/ /\ call.name = "record-decision"
       /\ by = Evaluator /\ job.status = SUBMITTED /\ ~Passed(job)
    \/ /\ call.name = "appeal-decision"
       /\ by = (IF job.decision = 1 THEN Client ELSE job.provider)
       /\ job.status = DECISION_PENDING /\ ~Passed(job)
    \/ /\ call.name = "resolve-appeal"
       /\ by = Authority /\ job.status = DISPUTED /\ ~Passed(job)
    \/ /\ call.name = "finalize-decision"
       /\ job.status = DECISION_PENDING /\ Passed(job)
    \/ /\ call.name = "settle-appeal-timeout"
       /\ job.status = DISPUTED /\ Passed(job)
    \/ /\ call.name = "settle-review-timeout"
       /\ job.status = SUBMITTED /\ Passed(job)
    \/ call.name = "expire-job" /\ expired /\ job.status \in {OPEN, FUNDED}
    \/ /\ call.name = "waive-service-fee"
       /\ by = Authority /\ job.status \in Judged /\ ~job.waived

Closed(job, status) == [job EXCEPT !.status = status, !.held = 0]
Judgement(decision) == IF decision = 1 THEN COMPLETED ELSE REJECTED

After(call, job) ==
    CASE call.name = "set-budget" -> [job EXCEPT !.budget = call.value]
      [] call.name = "fund-job" ->
            [job EXCEPT !.status = FUNDED, !.held = job.budget]
      [] call.name = "assign-provider" -> [job EXCEPT !.provider = call.value]
      [] call.name = "submit-work" ->
            [job EXCEPT !.status = SUBMITTED, !.deadline = burn]
      [] call.name = "record-decision" ->
            [job EXCEPT !.status = DECISION_PENDING, !.deadline = burn,
                        !.decision = call.value]
      [] call.name = "appeal-decision" ->
            [job EXCEPT !.status = DISPUTED, !.deadline = burn]
      [] call.name = "resolve-appeal" -> Closed(job, Judgement(call.value))
      [] call.name \in {"finalize-decision", "settle-appeal-timeout"} ->
            Closed(job, Judgement(job.decision))
      [] call.name = "settle-review-timeout" -> Closed(job, TIMEOUT_PAID)
      [] call.name = "expire-job" -> Closed(job, EXPIRED)
      [] call.name = "waive-service-fee" -> [job EXCEPT !.waived = TRUE]

Releases == {"resolve-appeal", "finalize-decision", "settle-appeal-timeout",
             "settle-review-timeout", "expire-job"}

\* What leaves an account by a call: the client's budget or all that is held.
Transfer(call, by, job) ==
    IF call.name = "fund-job" THEN [from |-> by, amount |-> job.budget]
    ELSE IF call.name \in Releases /\ job.held > 0
    THEN [from |-> "escrow", amount |-> job.held]
    ELSE NONE

\* Somebody else's call, or one of the same people from elsewhere.
Elsewhere(c, call, by) ==
    /\ moves < MaxMoves
    /\ Allowed(call, by, escrow[c])
    /\ escrow' = [escrow EXCEPT ![c] = After(call, @)]
    /\ moves' = moves + 1
    /\ UNCHANGED <<burn, expired, walletVars, screenVars, choiceVars,
                   loads, runVars>>

\* Blocks count while a job waits for one.
Waiting(statuses) == \E c \in Currencies : escrow[c].status \in statuses
Time ==
    /\ \/ /\ Waiting({SUBMITTED} \cup Judged) /\ burn < MaxBurnHeight
          /\ burn' = burn + 1 /\ UNCHANGED expired
       \/ /\ Waiting({OPEN, FUNDED}) /\ ~expired
          /\ expired' = TRUE /\ UNCHANGED burn
    /\ UNCHANGED <<escrow, moves, walletVars, screenVars, choiceVars,
                   loads, runVars>>

-----------------------------------------------------------------------------
(* Reading: what the page calls a CommerceJob *)

\* What get-job answers, before the fee and the escrow are read.
Read(c) == LET job == escrow[c]
           IN  [currency |-> c, status |-> job.status,
                provider |-> job.provider, budget |-> job.budget,
                decision |-> job.decision, deadline |-> job.deadline,
                held |-> 0, fee |-> "unread"]

\* parseServiceFeeState refuses a fee that belongs to another moment of the
\* job than the one it was read with.
Fee(entry) ==
    LET job == escrow[entry.currency]
        recorded == entry.status \in Judged \cup Settled
    IN  IF /\ entry.budget \div 50 = job.budget \div 50
           /\ recorded = (job.status \in Judged \cup Settled)
           /\ (entry.status \in Settled) = (job.status \in Settled)
        THEN IF job.waived THEN "waived" ELSE "due"
        ELSE "unavailable"

Failing(c, answers) == IF c \in Unreliable THEN answers ELSE {}

\* The key of a consent; NONE when there is nothing to consent to.
feeAcceptanceKey(entry, wallet) ==
    IF entry.fee = "unavailable" THEN NONE
    ELSE [currency |-> entry.currency, wallet |-> wallet,
          gross |-> entry.budget, status |-> entry.status, fee |-> entry.fee]

\* loadJobs is called: the list of currency c is read, one call at a time.
Asked(c) == loads \cup {[currency |-> c, entry |-> NONE]}

LoadJob(load) ==
    /\ load \in loads /\ load.entry = NONE
    /\ loads' = (loads \ {load}) \cup
                    {[load EXCEPT !.entry = Read(load.currency)]}
    /\ UNCHANGED <<chainVars, walletVars, screenVars, choiceVars,
                   runVars>>

\* The fee of the job; a read that fails hides it.
LoadFee(load) ==
    /\ load \in loads /\ load.entry # NONE
    /\ load.entry.fee = "unread"
    /\ \E fee \in {Fee(load.entry)}
                     \cup Failing(load.currency, {"unavailable"}) :
           loads' = (loads \ {load}) \cup {[load EXCEPT !.entry.fee = fee]}
    /\ UNCHANGED <<chainVars, walletVars, screenVars, choiceVars,
                   runVars>>

\* The escrow and the heights are in: the list of this load is shown, whatever
\* is selected by now.  Reads that fail answer zero, or no job at all.
ShowList(load, entry, height, overdue) ==
    /\ shown' = entry
    /\ tip' = height
    /\ late' = overdue
    /\ loading' = FALSE
    /\ loads' = loads \ {load}

Show(load) ==
    /\ load \in loads /\ load.entry # NONE
    /\ load.entry.fee # "unread"
    /\ \E held \in {escrow[load.currency].held}
                        \cup Failing(load.currency, {0}),
          height \in {burn} \cup Failing(load.currency, {0}) :
           ShowList(load, [load.entry EXCEPT !.held = held], height, expired)
    /\ UNCHANGED <<chainVars, stored, address, choiceVars, runs, clicks>>

ShowNothing(load) ==
    /\ load \in loads /\ load.entry = NONE /\ load.currency \in Unreliable
    /\ ShowList(load, NONE, burn, expired)
    /\ UNCHANGED <<chainVars, stored, address, choiceVars, runs, clicks>>

-----------------------------------------------------------------------------
(* The user, the wallet and the page *)

\* The effect of loadJobs and refreshWallet runs again: spinner, address, list.
SelectCurrency(c) ==
    /\ c # currency
    /\ Cardinality(Asked(c)) <= MaxLoads
    /\ currency' = c
    /\ form' = NONE
    /\ loading' = TRUE
    /\ loads' = Asked(c)
    /\ address' = stored
    /\ UNCHANGED <<chainVars, stored, shown, tip, late, accepted,
                   runVars>>

\* connect or disconnect, here or in another tab.
ChangeWallet(account) ==
    /\ account # stored
    /\ stored' = account
    /\ UNCHANGED <<chainVars, address, screenVars, choiceVars, loads, runVars>>

\* perkos-wallet-change or focus.
refreshWallet ==
    /\ address # stored
    /\ address' = stored
    /\ UNCHANGED <<chainVars, stored, screenVars, choiceVars, loads, runVars>>

\* The buttons of a card: what the page believes the wallet may do.
Soon(entry) == tip = 0 \/ tip <= entry.deadline
canFund(entry) == entry.status = OPEN /\ entry.budget > 0 /\ address = Client
canSubmit(entry) == entry.status = FUNDED /\ address = entry.provider
Offered(name, entry) ==
    \/ name = "set-budget" /\ entry.status = OPEN /\ address = Client
    \/ name = "fund-job" /\ canFund(entry)
    \/ name = "assign-provider" /\ entry.status = FUNDED
       /\ entry.provider = Nobody /\ address = Client
    \/ name = "submit-work" /\ canSubmit(entry)
    \/ /\ name = "appeal-decision" /\ entry.status = DECISION_PENDING
       /\ Soon(entry)
       /\ address = (IF entry.decision = 1 THEN Client ELSE entry.provider)
    \/ /\ name = "resolve-appeal" /\ entry.status = DISPUTED
       /\ Soon(entry) /\ address = Authority
    \/ /\ tip > entry.deadline
       /\ <<name, entry.status>> \in
              {<<"finalize-decision", DECISION_PENDING>>,
               <<"settle-appeal-timeout", DISPUTED>>,
               <<"settle-review-timeout", SUBMITTED>>}
    \/ name = "expire-job" /\ late /\ entry.status \in {OPEN, FUNDED}

\* These ask for a value first; the others call at once.
Forms == {"set-budget", "assign-provider", "submit-work", "appeal-decision",
          "resolve-appeal"}
\* These go through withFreshFee, the first two with the user's consent.
Consenting == {"fund-job", "submit-work"}
Verified == Consenting \cup
    {"finalize-decision", "resolve-appeal", "settle-appeal-timeout"}

OnScreen == ~loading /\ shown # NONE
Consents(entry) == feeAcceptanceKey(entry, address) \in accepted

\* The checkbox below the fee terms.
Tick ==
    /\ OnScreen
    /\ shown.fee # "unavailable"
    /\ canFund(shown) \/ canSubmit(shown)
    /\ LET key == feeAcceptanceKey(shown, address)
       IN  accepted' = IF key \in accepted THEN accepted \ {key}
                       ELSE accepted \cup {key}
    /\ Cardinality(accepted') <= MaxConsents
    /\ UNCHANGED <<chainVars, walletVars, screenVars, currency, form,
                   loads, runVars>>

\* A button that opens a form in the card of its job number.
OpenForm(name) ==
    /\ OnScreen /\ name \in Forms /\ form # name
    /\ Offered(name, shown)
    /\ name \in Consenting => Consents(shown)
    /\ form' = name
    /\ UNCHANGED <<chainVars, walletVars, screenVars, currency, accepted,
                   loads, runVars>>

-----------------------------------------------------------------------------
(* A run: withFreshFee, the wallet, the chain, trackTx *)

\* What the post-conditions of a call name: a sum, or in deny mode nothing.
FundingLimit(run, entry) == [from |-> run.wallet, amount |-> entry.budget]
SettlementLimit(entry) ==
    IF entry.held = 0 THEN NONE ELSE [from |-> "escrow", amount |-> entry.held]
Limit(run, entry) ==
    IF run.call.name = "fund-job" THEN FundingLimit(run, entry)
    ELSE IF run.call.name \in Releases THEN SettlementLimit(entry)
    ELSE NONE

\* The wallet's request, made of the card or of the job read again; none when
\* exactEscrow finds nothing held where only an expiry may find nothing.
Request(run, entry) ==
    IF run.call.name \in Releases \ {"expire-job"} /\ entry.held = 0 THEN {}
    ELSE {[run EXCEPT !.at = "wallet", !.limit = Limit(run, entry)]}

\* run(): a confirmed form needs only the form and the card it is shown in, a
\* plain button what its label promises.  The closure keeps what it sees.
Click(name, value) ==
    LET run == [call |-> [name |-> name, value |-> value], card |-> shown,
                currency |-> currency, wallet |-> address,
                consent |-> Consents(shown), fresh |-> NONE, limit |-> NONE,
                signer |-> Nobody, moved |-> NONE, owed |-> Refreshes,
                at |-> "reload"]
    IN  /\ OnScreen /\ clicks < MaxRuns
        /\ address # Nobody
        /\ \/ name \in Forms /\ form = name
           \/ name \notin Forms /\ Offered(name, shown)
        /\ name = "fund-job" => Consents(shown)
        /\ clicks' = clicks + 1
        /\ runs' = runs \cup
               (IF name \in Verified THEN {run} ELSE Request(run, shown))
        /\ UNCHANGED <<chainVars, walletVars, screenVars, choiceVars, loads>>

Becomes(run, next) == runs' = (runs \ {run}) \cup {next}

\* Any check that throws, any read that fails and any refusal in the wallet
\* ends the run with a message and nothing sent.
GiveUp(run) ==
    /\ run \in runs /\ run.at \in {"reload", "reload fee", "verify", "wallet"}
    /\ runs' = runs \ {run}
    /\ UNCHANGED <<chainVars, walletVars, screenVars, choiceVars,
                   loads, clicks>>

\* getCommerceJob again, for the currency of the card.
Reload(run) ==
    /\ run \in runs
    /\ \/ /\ run.at = "reload"
          /\ Becomes(run, [run EXCEPT !.at = "reload fee",
                                      !.fresh = Read(run.card.currency)])
       \/ /\ run.at = "reload fee"
          /\ Becomes(run, [run EXCEPT !.at = "verify",
                                      !.fresh.fee = Fee(run.fresh)])
    /\ UNCHANGED <<chainVars, walletVars, screenVars, choiceVars,
                   loads, clicks>>

verifyFeeAction_Cached(card, fresh, wallet) ==                      \* mutant
    feeAcceptanceKey(card, wallet) # NONE
verifyFeeAction(card, fresh, wallet) ==
    /\ feeAcceptanceKey(fresh, wallet) # NONE
    /\ feeAcceptanceKey(fresh, wallet) = feeAcceptanceKey(card, wallet)

\* The terms stand, the escrow of an evaluated job, which alone is read again, is
\* its whole budget, and the stored account is still the one that read them.
Verify(run) ==
    LET fresh == IF run.card.status \in Judged
                 THEN [run.fresh EXCEPT !.held = escrow[run.card.currency].held]
                 ELSE run.fresh
    IN  /\ run \in runs /\ run.at = "verify"
        /\ run.call.name \in Consenting => run.consent
        /\ verifyFeeAction(run.card, run.fresh, run.wallet)
        /\ run.card.status \in Judged => fresh.held = fresh.budget
        /\ stored = run.wallet
        /\ runs' = (runs \ {run}) \cup
                       Request([run EXCEPT !.fresh = fresh], fresh)
        /\ UNCHANGED <<chainVars, walletVars, screenVars, choiceVars,
                       loads, clicks>>

\* The user signs, as whatever account the wallet has selected by now; after()
\* closes the form.
Sign(run, account) ==
    /\ run \in runs /\ run.at = "wallet"
    /\ Becomes(run, [run EXCEPT !.at = "sent", !.signer = account])
    /\ form' = IF run.call.name \in Forms THEN NONE ELSE form
    /\ UNCHANGED <<chainVars, walletVars, screenVars, currency, accepted,
                   loads, clicks>>

\* willSendEq in deny mode: the sum itself, and nothing that is not named.
Honours_Allow(limit, moved) == TRUE                                 \* mutant
Honours(limit, moved) == limit = moved

\* The transaction is mined, sooner or later: the contract refuses it, its
\* post-condition takes it back, or it is done.
Mined(run) ==
    LET job == escrow[run.currency]
        moved == Transfer(run.call, run.signer, job)
        done == /\ Allowed(run.call, run.signer, job)
                /\ Honours(run.limit, moved)
    IN  /\ run \in runs /\ run.at = "sent"
        /\ IF done
           THEN /\ escrow' = [escrow EXCEPT
                               ![run.currency] = After(run.call, @)]
                /\ Becomes(run, [run EXCEPT !.at = "done", !.moved = moved])
           ELSE runs' = runs \ {run} /\ UNCHANGED escrow
        /\ UNCHANGED <<burn, expired, moves, walletVars, screenVars,
                       choiceVars, loads, clicks>>

\* trackTx: the loadJobs of the click, on confirmation and after each settle
\* delay; or it has stopped polling before and does nothing.
Refresh(run) ==
    /\ run \in runs /\ run.at = "done" /\ run.owed > 0
    /\ Cardinality(Asked(run.currency)) <= MaxLoads
    /\ loads' = Asked(run.currency)
    /\ Becomes(run, [run EXCEPT !.owed = @ - 1])
    /\ UNCHANGED <<chainVars, walletVars, screenVars, choiceVars, clicks>>

Forget(run) ==
    /\ run \in runs /\ run.at = "done" /\ run.owed \in {0, Refreshes}
    /\ runs' = runs \ {run}
    /\ UNCHANGED <<chainVars, walletVars, screenVars, choiceVars,
                   loads, clicks>>

-----------------------------------------------------------------------------
\* The page has just been mounted, on sBTC.
Init ==
    /\ \E terms \in Worlds : escrow = [c \in Currencies |-> Job(terms[c])]
    /\ burn = 0 /\ expired = FALSE /\ moves = 0
    /\ stored \in Accounts /\ address = stored
    /\ currency = "sbtc" /\ shown = NONE /\ loading = TRUE
    /\ form = NONE /\ tip = 0 /\ late = FALSE /\ accepted = {}
    /\ loads = {[currency |-> "sbtc", entry |-> NONE]}
    /\ runs = {} /\ clicks = 0

Values(name) ==
    CASE name = "set-budget" -> Budgets
      [] name = "assign-provider" -> {Provider}
      [] name \in {"record-decision", "resolve-appeal"} -> {1, 2}
      [] OTHER -> {0}
OfPage == Releases \cup Verified \cup Forms
Calls == OfPage \cup {"record-decision", "waive-service-fee"}
Parties == {Client, Provider, Evaluator, Authority}

Others ==
    \/ \E c \in Currencies, by \in Parties, name \in Calls :
           \E value \in Values(name) :
               Elsewhere(c, [name |-> name, value |-> value], by)
    \/ Time

Listing ==
    \/ \E load \in loads : LoadJob(load)
    \/ \E load \in loads : LoadFee(load)
    \/ \E load \in loads : Show(load)
    \/ \E load \in loads : ShowNothing(load)

User ==
    \/ \E c \in Currencies : SelectCurrency(c)
    \/ refreshWallet
    \/ Tick
    \/ \E name \in Forms : OpenForm(name)
    \/ \E name \in OfPage : \E value \in Values(name) : Click(name, value)

Running ==
    \/ \E run \in runs : GiveUp(run)
    \/ \E run \in runs : Reload(run)
    \/ \E run \in runs : Verify(run)
    \/ \E run \in runs, account \in Accounts \ {Nobody} : Sign(run, account)
    \/ \E run \in runs : Mined(run)
    \/ \E run \in runs : Refresh(run)
    \/ \E run \in runs : Forget(run)

\* After the last click nothing on the screen can reach a call any more.
Next ==
    \/ Others
    \/ clicks < MaxRuns /\ Listing
    \/ clicks < MaxRuns /\ User
    \/ \E account \in Accounts : ChangeWallet(account)
    \/ Running

Spec == Init /\ [][Next]_vars

-----------------------------------------------------------------------------
(* Properties *)

\* What a wallet pays into an escrow from this page is exactly what its owner
\* ticked: the budget on the card, read under that account, whatever the chain,
\* the wallet or the list did between the click and the block.
PaidAsAccepted ==
    \A run \in runs :
        run.at = "done" /\ run.call.name = "fund-job" =>
            /\ run.consent
            /\ run.signer = run.wallet
            /\ run.moved.amount = run.card.budget

\* What a settlement from this page takes out of an escrow is the sum on the card:
\* the budget where the page reads the job again before it asks the wallet, and
\* else the escrow shown as locked, which differs from the budget beside it when the
\* client funded the job between the two reads.
SettledAsShown ==
    \A run \in runs :
        run.at = "done" /\ run.call.name \in Releases =>
            LET sum == IF run.call.name \in Verified
                       THEN run.card.budget ELSE run.card.held
            IN  IF sum = 0 THEN run.moved = NONE
                ELSE run.moved = [from |-> "escrow", amount |-> sum]

\* developer-portal/content/docs/commerce/service-fees.mdx, "Acceptance is
\* scoped to wallet, job, asset, contract, budget, status and waiver": what is
\* done under a consent is done by the contract the consent is about.
ConsentCoversTheCall ==
    \A run \in runs :
        run.at = "done" /\ run.call.name \in Consenting =>
            run.currency = run.card.currency

=============================================================================
