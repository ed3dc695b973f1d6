# Nayori: TLA+ models and proofs

Nayori is a marketplace in which people and software agents hire each other on
the Stacks chain. Clarity contracts hold the money and the rules, a Next.js
application reads them and prepares transactions for wallets, and a set of
scripts deploys the contracts and rehearses them on mainnet. This directory
models the parts in which a mistake costs money or data, checks small instances
with TLC and proves the most important safety properties with TLAPS for every
instance.

All source paths below are relative to the repository's root.

## 1. Inventory

### 1.1 The STX escrow, `contracts/agentic-commerce-v6.clar`

State: owner, appeal authority and treasury with their pending rotations; one
record per job (the four parties, the pinned treasury, budget, expiry, status,
review deadline); the decision of a job and its appeal; the escrowed amount per
job; waivers and settlements of the service fee; ratings; the outcome reports
that still have to reach the reputation registry.

Operations: configure once; propose, accept and cancel an owner or an authority;
create, budget, fund, assign, submit; record a decision, appeal it, finalize it,
resolve the appeal, settle after a silent authority, pay after a silent
evaluator, expire; waive and refund the fee; retry a report; rate.

Interaction: moves STX between principals and its own balance, reads the Stacks
height and the burn height, calls the reputation registry. A transaction is
atomic and transactions are serialised, so the concurrency is that of calls by
independent parties in any order, at any two heights.

Hard: one balance shared by all jobs; three maps that describe the same money;
two independent clocks; five deadlines that are inclusive for one party and
exclusive for everybody else; rotations that overlap; a registry call whose
failure is stored and not propagated; settlement that must go on when every
party has gone.

Correct when: the balance covers all escrows and each job is paid once, from its
own money, with the published fee; no principal holds two conflicting roles;
decisions become final only in due process; everything a party relied on stays;
the registry and the escrow agree; no escrow can be stuck.

### 1.2 The reputation registry, `contracts/reputation-registry-v3.clar`

State: owner and pending owner, allow-listed protocol callers, one rating per
(source, job, rater, agent), one outcome per (source, job), aggregates per agent.
Hard: retries and several sources; aggregates kept apart from the reports.
Correct when: aggregates equal the reports, and a report is final.

### 1.3 The service fee

Two percent, computed as a division by fifty with the remainder left to the
recipient. The application (`App/src/services/service-fees.ts`) refuses to show
or sign anything about a job whose fee state is inconsistent
(`parseServiceFeeState`).

### 1.4 The other contracts

| part | state and operations | hard | correct when |
| --- | --- | --- | --- |
| `contracts/sbtc-commerce-v5.clar` | 1.1 with a SIP-010 token pinned per job at funding | default token changed while jobs are open; a token that answers `false` or refuses a recipient | every job settles in its own token or not at all |
| `contracts/job-applications-v1.clar`, `contracts/agent-registry.clar` | applications per (asset, job, applicant), fifty slots; agents with a wallet and an active flag | a list is read slot by slot while agents apply, withdraw and apply again; slots that withdrawing does not return | a list names everybody who applied and nobody twice; whoever is assigned from it did apply |
| `contracts/validation-registry.clar` | verification record with ten capabilities | removing one capability clears all | a revoked agent is not verified |
| earlier generations (`agentic-commerce*`, `sbtc-commerce*`, `reputation-registry*`) | the same lifecycle with fewer rules | as above | superseded on mainnet |

### 1.5 The application

| part | state and operations | hard | correct when |
| --- | --- | --- | --- |
| `App/src/app/jobs/page.tsx` and its services | the list of jobs of one currency, the wallet, consents, one form, calls under way | handlers are closures around awaits: the list, the currency, the wallet and the chain change while they wait | a wallet pays and releases what its owner saw and ticked |
| `App/src/app/agents/page.tsx`, `App/src/components/JobApplications.tsx` | agents of the account, one form for registering and editing; applications of a job | answers for an account that is no longer connected, old lists | as for the contracts above |
| `App/src/components/EvaluableJob.tsx`, the evidence and evaluation routes | an inspected file, a committed submission, a request to the Evaluator | the file, the job, the account and the field change between two reads; retries | the Evaluator gets exactly what the job on the chain commits to |
| participants: `App/src/services/participant-*.ts`, `snapshot-cache.ts` | one row per wallet; a cache of wallets, a cache of readings of the chain | two caches, overlapping requests, failures, stale values | an owner who was told to be listed is counted; nobody is shown an older chain than somebody before |
| treasury attestation: the operations page and the gate in the deployment | a draft, a signed receipt, a campaign bound to it | answers of a wallet that come late; clocks of two machines; a checkout that changes | what is deployed is what the treasury signed for |

### 1.6 The scripts

| part | state and operations | hard | correct when |
| --- | --- | --- | --- |
| `scripts/mainnet-e2e-campaign-lock.mjs` | lock, executor lease and recovery guard files; acquire, adopt, release | a crash between any two file operations, two adopters | one operator at a time, adoption only from the dead |
| `scripts/run-service-fee-mainnet-e2e-campaign.mjs` | a manifest with what is left of two caps, a receipt per asset | a stop anywhere, receipts counted twice or not at all | caps hold over all resumptions; a passed manifest is what happened |
| `scripts/service-fee-mainnet-core.mjs` (Journal, send, reconcile) | journal file and two locks | a crash around a broadcast, a slow index, forks | nothing is sent that is not recorded; one nonce is used once |
| `scripts/e2e-service-fee-*.mjs`, `service-fee-testnet-core.mjs` | a receipt with every operation recorded before it is sent | resumption after any stop, deadlines, strangers, retries of reports | a closed receipt is true, nothing is sent twice |
| `scripts/e2e-autonomous-*`, `e2e-versioned-*`, `e2e-stx-v2-*`, `e2e-qa-suite.mjs` | a receipt, a job in hand | a transaction that outlives the patience of its script, a stranger's job of the same moment | a passed receipt is about a job of its own that ended as promised |
| `scripts/deploy-*.mjs` | what is deployed and configured, nonces, fees | half a promotion, pending transactions of an earlier run, drops, a poor account | what is said to be in place is; nothing is sent twice; it can be started again |
| `createReadTransport` of both cores | one queue of reads | concurrent callers, 429 answers, aborted requests | starts are spaced and a node that asks for a pause gets it |

### 1.7 Parts outside

Direct payments, read-only views of decisions and timing, transparency and
statistics, the chainhook receiver, the developer portal, the security gate and
the workflows keep no state of their own (they forward, render, or check files);
`ops/vps/nayori-qa-release` moves containers on one host. The Platform, OAuth,
Evaluator and SDK services are in other repositories. `PROJECT.json` lists each
of them with the reason it is left out.

## 2. Plan

All of it is done, in this order:

1. `ServiceFee`, `ClarityMaps`: the fee and Clarity's maps.
2. `ReputationRegistry`: alone, then as a component of the escrow.
3. `AgenticCommerce`: the whole STX escrow with the ledger, the clocks and the
   registry; `EscrowPromise`: what it promises, and the refinement.
4. Proofs: type correctness, separation of roles, the escrow's money; then how a job
   is decided, paid and reported, and that the contract implements the promise.
5. `SbtcCommerce`: the sBTC escrow on top of the shared lifecycle.
6. `CampaignLock` and `TxJournal`, with their proofs.
7. The programs that drive the contracts: `EscrowScripts`, `Deployments`,
   `ServiceFeeCases` (against the contract of 3), `Campaign` (around 6); and the proof
   that a receipt of the service-fee scripts is true.
8. The application: `JobsPage`, `Marketplace`, `Directory`, `Evaluation`,
   `TreasuryAttestation` (which opens the journal of 6), and `ReadTransport`.
9. The proofs about the application, the registry's aggregates, the money of a
   campaign, the escrow scripts and the deployments.
10. The proofs about the token escrow, from those of 4: it implements the STX escrow.

Not planned further: the parts of 1.7; the earlier generations of the contracts;
proofs of liveness.

Modules without a run of their own share one with others: `MCApplication`,
`MCParts`, `MCScripts` and `MCCampaigns` pick one of their parts in the initial state
and leave the variables of the other parts at their first values, so that a run
is the union of the parts and not their product. Parts that interact are composed
in earnest: the registry inside the escrow, the escrow under the scripts of
`ServiceFeeCases`, the tokens under `SbtcCommerce`, executors under coordinators.

## 3. Modules

| module | what it is |
| --- | --- |
| `ClarityMaps`, `Nothing`, `Totals` | `define-map`: a function whose domain is the keys that are set; null; sums over some keys of a map |
| `ServiceFee` | fee and net of an amount, and what the published policy says of them |
| `ReputationTerms`, `ReputationRegistry` | the registry's constants, state and operations |
| `AgenticCommerce` | the escrow, composed with the ledger, two clocks and an instance of the registry |
| `EscrowPromise` | the abstract promise: deposit, work, one release to an entitled party |
| `SbtcCommerce` | the token escrow: instances of `AgenticCommerce` whose ledger is a token's |
| `CampaignFiles`, `CampaignLock` | the files that keep mainnet campaigns apart, and the processes that use them |
| `Campaign` | the money and the manifest of a campaign |
| `TxJournal` | a deployment's transaction journal, its process, the node and the index |
| `TreasuryAttestation` | the treasury's signature on its way to that deployment |
| `ServiceFeeCases` | the two service-fee end-to-end scripts on top of `AgenticCommerce` |
| `EscrowScripts` | five end-to-end scripts and the suite that resumes one of them |
| `Deployments` | nine scripts that deploy and configure contracts |
| `ReadTransport` | the queue of reads of the service-fee scripts |
| `JobsPage` | a browser tab that manages jobs of two contracts |
| `Marketplace` | agents, applications, and the tab that lists and assigns them |
| `Evaluation` | evaluable jobs, their evidence and the request for a decision |
| `Directory` | the registration of participants and the two caches before it |
| `MCAgenticCommerce`, `MCSbtcCommerce`, `MCEscrowScripts` | casts and cases shared by instances |
| `MCFeeCases`, `MCTwoQuestions`, `MCScripts`, `MCApplication`, `MCParts`, `MCCampaigns`, `MCCampaignLock`, `MCTxJournal`, `MCJobsPage` | instances for TLC |
| `AgenticCommerceProofs` | theorems and proofs about the fee and the escrow: types, roles and money; decisions, fees, reports and the promise |
| `SbtcCommerceProofs` | about the token escrow: that it is the STX escrow with another cash box, and what each token is promised |
| `ServiceFeeCasesProofs` | about the module of that name |
| `ApplicationProofs` | about `TxJournal`, `ReputationRegistry` and `Evaluation` |
| `CampaignsProofs` | about `CampaignLock` and `Campaign` |
| `ScriptsProofs` | about `EscrowScripts` and `Deployments` |
| `PagesProofs` | about `JobsPage`, `TreasuryAttestation`, `Marketplace`, `ReadTransport` and `Directory` |
| `TotalsProofs` | lemmas about sums over finite sets |

Pages and scripts meet the contracts as their environment: `JobsPage` (`Allowed`,
`After`), `Marketplace` (`fund_job`, `assign_provider`), `Evaluation` (`Assign`,
`Decide`), `EscrowScripts` (`Accepts`, `After`) and `Deployments` (`Succeeds`) keep of a
contract's function only the guards and effects that the page or the script can tell
apart, and leave the others out, which allows more than the contract does. The contracts
themselves are modelled in `AgenticCommerce`, `SbtcCommerce` and `ReputationRegistry`.

### 3.1 `AgenticCommerce` and the contract

| model | contract |
| --- | --- |
| `contractOwner` ... `serviceTreasury` | the data variables of the same names |
| `jobs`, `decisions`, `serviceFeeWaivers`, `serviceFeeSettlements`, `escrowBalances`, `jobRatings`, `reputationSync` | the maps of the same names; a key outside the domain is Clarity's `none` |
| `stx` | the ledger; `StxTransfer` is `stx-transfer?`, which fails on zero, on a self-transfer and on a missing balance |
| `stacksHeight`, `burnHeight` | `block-height`, `burn-block-height`, advanced by actions of their own, independently |
| `InitializeProtocol` ... `RateProvider` | the public functions of the same names, one action each |
| `Settle`, `SettleServicePayment`, `SyncReputation` | the private functions, part of the actions that call them |
| `sender` | `tx-sender`: every principal but the contract itself |
| `ExternalTransfer` | any STX transfer outside the contract, gifts to the contract included |
| `RegistryStep` | everything the registry's owner and its other sources may do |

A call that fails is rolled back by the chain and is a stuttering step, so each
action is the success path with all asserts of the function as conjuncts.
Descriptions, deliverables and comments are stored and never read by the
contract and are left out. A commitment hash is either the zero hash, which the
contract refuses, or one other value. An expiry is any natural number (`uint`); the
instances of TLC offer the heights of `ExpiryHeights` and, from the scripts, the one
the receipt names.

### 3.2 `EscrowPromise`

What a client and a provider may rely on, without decisions, deadlines, waivers
or a registry: a deposit enters the vault in full; a worker is bound by
submitting; the deposit leaves once, in full, to the worker, or to the payer, or
with at most two percent of it to a third party; a closed job never holds money
again. `KeepsPromise` maps a job's escrow row, client and provider (from
submission on) to a deposit and is checked as a property of the whole lifecycle.

### 3.3 `SbtcCommerce` and the contract

`sbtc-commerce-v5` repeats the rules of `agentic-commerce-v6` word for word;
what differs is the money. `In(token)` is the lifecycle with `stx` replaced by
the ledger of a token, and `Lifecycle` the same for the calls that move nothing.
A call that moves money is the action of `In(token)` together with what the
contract adds:

| model | contract |
| --- | --- |
| `SetPaymentToken` | `set-payment-token`, by the owner, at any time, to any principal |
| `FundJob` | the token passed must be the default of that moment and is pinned |
| `CheckJobToken` | `check-job-payment-token`: settlement, expiry and refund take the pinned token only |
| `Accepts` | the answer of `transfer`: an error and `(ok false)` both make the call fail and roll back |
| `TokenPolicy` | a token starts or stops refusing a recipient, as a blacklist or a pause does |

Tokens are code outside the contract. They are modelled as honest ledgers that
may refuse any recipient at any time; a token that moves the contract's balance
on its own, or takes a fee out of an amount in transit, breaks the promise
whatever the contract does, and is left out.

### 3.4 `CampaignLock` and the scripts

| model | `scripts/` |
| --- | --- |
| `lock`, `lease`, `guard` | the campaign lock, the executor lease and the recovery guard of `mainnet-e2e-campaign-lock.mjs`; `written` tells a complete file from one just created |
| `kind` | coordinator (`run-service-fee-mainnet-e2e-campaign.mjs`), its executors, and an executor run on its own (`e2e-service-fee-mainnet.mjs`) |
| `seen` | the hashes an operator confirms before a takeover |
| `pc` | the place between two file operations; `Check` is one that only reads |
| `CreateLock`, `WriteLock`, `BeginRelease`, `UnlinkLock` | `acquireCampaignLock` and the lock's `releaseSuccess` |
| `TakeGuard`, `RecheckLock` ... `RotateLock`, `ReleaseGuard` | `adoptStoppedCampaignLock` under `acquireRecoveryGuard` |
| `TakeGuard`, `Validate` ... `Revalidate`, `AssertOwned`, `Close` | `acquireExecutorLease`, `assertOwned` and the lease's `releaseSuccess` |
| `Spawn`, `Reap` | the coordinator's loop over its children |
| `Crash` | the end of a process anywhere, its files staying behind |

A process takes at most one lock in its life, so its name stands for its pid,
its random token and the hash of its file. Pids are not reused. (A reused pid
makes a dead owner look alive, which makes a takeover stop.) A file operation is
atomic, two of them are not. The scripts install no signal
handlers, so a signal is a crash.

### 3.5 `TxJournal` and the scripts

| model | `scripts/service-fee-mainnet-core.mjs`, `deploy-service-fee-mainnet.mjs` |
| --- | --- |
| `journal`, `passed` | the journal file: its entries and its result. `Save` is `Journal.save`, which replaces the file by a rename |
| `locked`, `Begin`, `Close`, `Recover` | the two lock files: taken by the constructor, removed by `close`, by hand after a crash |
| `entry` | the entry in memory; memory and file are the same between two steps, so no more of it is kept |
| `stage` | `main()`: `reconcileJournal`, the plan and its operations, `reconcileJournal` again, then the wait for finality |
| `Pick`, `Sign` | `send`: an operation without an entry is signed with the index's nonce and recorded |
| `RecordAttempt`, `Broadcast`, `Answered`, `SeePending`, `Confirm` | `settleRecordedEntry` from one `await` or `save` to the next |
| `TipReached`, `Revalidate`, `Pass` | `waitForFinality` and the result |
| `Stop` | an exception anywhere: a failed check, a time limit, an unreachable node |
| `chain`, `mempool` | the node, which also answers what is left to be done (`Done`) |
| `index` | the API that looks up transactions and nonces; it is behind the node by any number of blocks and shows of the mempool what it likes |
| `Fork`, `stable` | the last blocks may be replaced, up to `FinalityDepth` below the highest tip so far |

A transaction is an operation and a nonce: signing is deterministic, so the same
two give the same bytes and the same txid, and the fields that
`validateBuiltTransaction` and `validateTransaction` compare are equal by
construction, success apart. The fees of the catalog (two deployments and five
calls) are exactly `MAXIMUM_TOTAL_FEES`, so the cap cannot refuse a plan.
The account is used by the journal's process only, as the runbook requires; a plan is
read in one step. The process is one: that two exclude each other by the lock
files is not shown here.

### 3.6 `Campaign` and the coordinator

`CampaignLock` has who runs, `Campaign` what the run costs. `manifest` and
`receipts` are the files of `run-service-fee-mainnet-e2e-campaign.mjs` and of its
executors, `view` and `needed` what an executor read before it plans its top-up,
`purse` the accounts, `given` and `paid` what the chain says was spent under the
two caps. Sums are in thousands of micro-STX, so the constants of the code are the
constants of the model. `Begin`, `Collect`, `MarkStarted`, `Complete`,
`Release`, `Finish` are the coordinator from one save of the manifest to the next;
`ReadBalances`, `PlanTopUp`, `CheckFunds`, `Snapshot`, `Sign`, `BroadcastTransaction`,
`Confirm`, `GiveUp`, `CloseReceipt` the executor; `Killed`, `Refuse` and `GiveUp` are its
stops, after which an operator may start the coordinator again. A call of the executor succeeds when it
is mined: what it does to the job, and the deadlines it may miss, are in 3.7.

### 3.7 `ServiceFeeCases` and the two service-fee scripts

The module extends `AgenticCommerce`, and the scripts' transactions are its
actions: a refused call (`Refuses`) is one whose action is not enabled when it is mined.
`receipt` is the file with its entries, plan, snapshot and result; `Review`,
`Resume`, `Sign`, `Broadcast`, `Confirm`, `GivesUp`, `Close` are the script between
two awaits; `sent` is what the network was handed for each operation and what
became of it. Both scripts share this skeleton; where they differ (what is read
before a signature, how a recorded transaction is looked up, what a failed check
does to the receipt) the definition asks `IsMain`. `calm` is the moment from which
the world stops interfering; until then it may do so any number of times.
`CaseAssumption` states what the scripts require of a case before they start it: five
different accounts that sign for themselves (`service-fee-testnet-core.mjs:99-103`,
`e2e-service-fee-mainnet.mjs:643-652`), a known scenario, an amount the contract takes.

### 3.8 `EscrowScripts`

Five scripts that were written one after the other and resemble each other. A
script is a sequence of steps (`Check`, `Note`, `AwaitDeadline` or a transaction)
and a policy (what its `waitFor` returns and whether it tolerates a failure, whether
it takes the job from the result of its own call or from the counter, when it saves
its receipt). One interpreter runs them. `e2e-stx-v2-testnet.mjs` looks at the outcome
neither of its transfers nor of `set-budget`, `assign-provider` and `submit-work`
(`Unchecked`): that one of these aborts, or is no longer waited for, shows only in what
the script reads afterwards. `stray` are transactions whose run no
longer waits for them, `world` the one defect a case may start with (no funds, a
wrong owner, an old contract...), `told` the job of a prepared receipt that the
suite was told of. Amounts are left out: an escrow is whole or empty. The
suite's manifest, its SDK, browser and platform cases and the read-only preflight
are left out.

### 3.9 `Deployments`

Nine scripts, again as sequences of operations (a contract or a call each) with
one interpreter: what a script reviews (`plan`, `maximum`), what it skips, what it sends
with which nonce and fee, how it waits (`awaited`, `outcome`) and what it verifies
(`AllReady`). `stage` is the step of a run, `position` the operation that is `Due`,
`verdict` how the last run ended. `pending` is the mempool
of the account by nonce; a nonce may hold an operation, somebody's other
transaction, or a gap. A contract name is free, taken by the reviewed source or by
a foreign one (`world`). `deploy-testnet.mjs` waits for nothing it sends and says so
when it is done (`Tolerant`), so nothing is claimed about it.
`deploy-mainnet.mjs` and `deploy-sbtc-*.mjs` only throw.

### 3.10 `ReadTransport`

`createReadTransport` as it is in both cores: a promise queue, the spacing after
each start, a slow-down that keeps its place at the head, the limits of three
retries and one minute, and the abort after twenty seconds. Times are the code's, in
seconds, as countdowns (`SecondPasses`); a timer fires when its time is over or later.

### 3.11 `TreasuryAttestation`

The page's states and the wallet's one open request; the receipt file; and the
machine that deploys, with a clock that differs by `lag` and a checkout that may
change (`Checkout`) between the check of the receipt (`Attest`) and the opening of
the journal (`OpenJournal`), which binds the campaign to a release. `TimePasses` is a
clock that passes half a lifetime of a draft or a receipt. A signature verifies for its
own message and key only.

### 3.12 `JobsPage`

One tab, two contracts ("stx" and "sbtc"), one job of the same number on each:
the page identifies a job by its number and the selected currency, so one per
contract is enough to be mixed up. `loads` are lists being read, each of which
arrives in any order and shows itself under the currency selected by then; `runs`
are handlers that were clicked, each with the card, the currency, the address and
the consents of its moment, which is what a React closure keeps. `Click`, `Reload`,
`Verify`, `Sign`, `Mined`, `Refresh` are the pieces of `run`, `withFreshFee` and
`trackTx` between two awaits. `Elsewhere` is any call of another party or tab. A card's
escrow is read after the rest of it, and when a run reads the job again the escrow is
read only of an evaluated job; a settlement that finds none is not asked for.

### 3.13 `Marketplace`

`register_agent`, `apply_to_job`, `withdraw_application` and so on are the contracts'
functions (with underscores for their dashes); `LoadApplications`, `getApplicationCount`,
`getApplicantAt`, `ApplicationsListed` and `ApplicationsFail` read the list slot by slot;
`Found` is an answer of `findAgentsByWallet`; `CallElsewhere` is a call of another party
and `CallMined` the end of one's own; `desk` is the agents' page with its one form. A list keeps,
next to its entries, whether it names everybody who was applying all along and
nobody who was not at any moment of the reading (`isTrue`), which is all that can be
asked of a list that was not read at one moment.

### 3.14 `Evaluation`

`Criteria` and `Commitment` are the two hashes, injective: a criteria hash is the
client it binds and whether its text can be rebuilt from the chain, an evidence
hash the parties and the file. `inspectEvidence` is the route that reads the file
there and then; `form` is `CommittedSubmitForm`, `panel` is
`RequestEvaluationPanel`, each with the requests it waits for; `relayEvaluation` is
the route that forwards a request, whose answer may be late or missing although the
Evaluator has it. `Publish` replaces or removes a file, `Elsewhere` is what others do
to the job.

### 3.15 `Directory`

`Submit`, `Find`, `Write`, `Listed`, `RequestFails` are a registration from one
await to the next; `QueryWallets`, `FillCache`, `ReadCached` the cache of wallets
that a registration drops; `Load`, `ReadChain`, `Loaded`, `LoadFails` the cache of
readings (`createTtlCache`), with one reading under way at a time and stale
values on failure. An entry is its wallet and its date.

## 4. Model checking

| run | question | bounds |
| --- | --- | --- |
| `lifecycle` | every operation of one job with a fixed cast, or the service-fee scripts driving it; every escrow is released, every case ends | one job; budgets 0, 49 and 50 (no fee below fifty, a fee of one at fifty); Stacks heights up to 1, burn heights up to 5, submissions up to burn height 1; five scenarios, interference until burn height 2 |
| `two_jobs` | two jobs of one client share the contract's balance, an authority rotation between them; and every principal may play every part | budget 50, Stacks heights up to 1, burn heights up to 3; six principals, one job, no clock |
| `sbtc_one_job` | one job in one of two tokens, each token's money as promised; the escrow is released once tokens stop refusing | budget 50, a gift of 50, one token that may refuse the treasury; burn heights up to 5, submissions up to 1 |
| `scripts` | three systems: the five escrow scripts, up to two runs of a case; the nine deployments; the registry alone | two jobs, one stray transaction, windows of one block, burn heights up to 3; two mishaps, three pending transactions; three reports by two sources |
| `application` | three parts: the journal; two sBTC jobs, each in the default of its funding; an evaluable job | two operations, two broadcasts, depth two, four blocks, one fork; windows of zero; two events, two files, two addresses of which one has two spellings |
| `parts` | five parts: the jobs page; the attestation; the transport; the directory; the marketplace | two lists, one click, one call of others, every stage of a job; four half lifetimes, clocks one apart; three callers with the code's times; one registration and two views; two agents, two slots, one reading, three events |
| `campaigns` | three parts: the lock with operators who follow the runbook; with operators who do not, where every run still ends; the campaign's money, its caps, its accounts, and that a resumed campaign passes | four processes; three; three mishaps, one payment, each of two purses |
| `lock_takeover_race` | a takeover of a lock that changed hands (see below) | three processes |
| `journal_fork` | a fork during the wait for finality (see below) | one operation, four blocks, one fork |
| `escrow_suite_resume` | a resumed case that crashes (see below) | two jobs, two runs and more |
| `page_consent` | a consent and a late list (see below) | two lists, one click |
| `campaign_minimum` | a campaign with the documented minimum (see below) | one mishap |

### 4.1 Bounds

Windows. The contract's review window is 12 burn blocks and its appeal window 3
(QA) or 144 (mainnet). The code only ever compares heights with deadlines, so
what matters is before, at and after a deadline; a window of one block has all
three (the review window of `two_jobs` is zero: submission and decision at the
same height, which has at and after). `MaxBurnHeight` 5 is past the last deadline of
a job submitted at burn height 1, the last one `SubmitHorizon` allows. Two jobs are
enough for one to be paid out of another's escrow, since any overpayment takes from
the rest of one balance. The two sBTC jobs of `application` have windows of zero because
the property is about sums and not about time: every outcome of a decision is still
reachable, an appeal at the height of its deadline and a timeout one block later
included.

Processes of the lock. Three are a coordinator, its executor and a process that takes
over or begins on its own; a fourth gives the one that takes over a child of its
own. The instance of liveness has three. The proofs hold for any number.

The money. The first purse needs a small top-up and the second, the documented minimum
with satoshis to spare, nearly all of the cap; a payment of 700 empties a provider's
account that was topped up, so that a second top-up is asked for.

The journal. Two operations are the least at which one can be signed while another
is not settled, two broadcasts the least at which the same bytes are sent again, and
four blocks hold both operations with two blocks on top; within them a deployment
passes although each operation was broadcast twice and a fork replaced blocks. The
proofs hold for any of these numbers.

Casts. `lifecycle` and the two jobs fix who is client, provider and so on; that any
other assignment is refused by the guards is what the second question of `two_jobs`
explores, with six principals of which five act. The understudy is a second provider
in `lifecycle` and a second authority in `two_jobs`.

Scripts. Two runs of a case are a run that stops and its resumption or repetition;
a third starts where the second did. One stray transaction is enough to be taken for
one's own or to change a job behind a receipt. Two mishaps of a deployment are a
stop and something that happens to what it left pending.

The jobs page. One click is one call: two calls of one tab are those of two tabs to
the contract, which `Elsewhere` has. After that click nothing on the screen reaches a
call any more, so the screen stops changing; the state of the world does not. Reads
may fail for one currency, which is as good as the other. The tip the page
holds is any that is older than the chain's, down to none (0).

The marketplace. Two applicants in two slots of fifty: the list is read by index, and
with two one of them can come, leave and come back while the other is read. The
limit itself (fifty, which withdrawing does not give back) is a guard of `TakesSlot`
that an instance of two applicants meets only through re-applications. After the
last event nothing that is asked of the wallet can be signed, so the instance
stops asking; the same in the evaluable job of `application`.

The evaluable job. Two events after an open job are a signature and a replaced file,
a new account, or a competing submission; from no job they are its creation and
its assignment.

The transport. Three callers are one that waits to ask again, one that is due
before and one that arrives meanwhile.

### 4.2 What the runs show

- `DueProcess`: who decides, appeals and finalizes, and when, at every order of
  calls and heights.
- `FeeStateReadable`: the application's own consistency rules hold of every
  reachable fee state, so `parseServiceFeeState` never rejects what the contract
  produced.
- `ReputationFollowsOutcome`: the escrow and the registry agree while the
  registry's owner lists and unlists the escrow at any moment.
- `CommitmentsAreKept`: what may change, and until when.
- `KeepsPromise`: the refinement of `EscrowPromise`, for STX and per token.
- `NoEscrowIsStuck` (`EscrowIsReleased` for the jobs that anyone drives, and of
  the sBTC escrow): every funded escrow ends with somebody entitled to it, although
  every party may stop acting.
- `EscrowBacked`, `EscrowMatchesStatus`, `RolesSeparated`. Of the invariants and action
  properties named so far, those of the STX escrow and the registry are also proved;
  `NoEscrowIsStuck` and what concerns sBTC is not.
- `FeePassedMeansSettled`, `FeeSentOnce`, `EveryCaseEnds`: a receipt of the service-fee
  scripts is closed only on the exact truth, no operation is handed to the network
  twice in the life of a receipt, and no stop leaves one that the next run refuses
  or misreads. Excused (`IsBeyondRecovery`) is what the scripts refuse by design: a
  recorded transaction that never took effect, a job that somebody else settled or
  that expired, a deadline that passed, balances that moved, an outcome the registry
  did not take and, on mainnet, a failed check. The first two are also proved.
- `PassedMeansSettled`, `KeepsToItsJobs`: the same question for the five older scripts,
  with strangers who create, settle and expire jobs at the same time. A script that
  tolerates failures and takes its job from the counter is left out of the first half
  of `KeepsToItsJobs`, and only scripts that save what they create are asked for
  the second.
- `PassedMeansReady`, `NothingSentTwice`, `ReviewedMaximumSuffices`,
  `PromotionCompletes`: what a deployment says it left in place is there; a script that
  asks for pending transactions never sends one twice; its reviewed maximum covers it;
  started again after every failure it gets there.
- `RecordedBeforeBroadcast`, `ExecutedAtMostOnce`, `FailClosed`: what a deployment
  through the journal may rely on when its process dies around a broadcast. Also
  proved. `PassedIsFinal`: it passes when its operations are buried, unless a fork
  intervenes; also proved.
- `AggregatesMatchReports`: the registry's counters equal the reports it holds. Also
  proved.
- `TokensBacked`: the jobs of one token are never paid out of another's, while the owner
  changes the default.
- `EvaluatedAsCommitted`: the Evaluator receives exactly what the job commits to; the
  wallet is asked for the file that is in the field; a mismatch is a mismatch. Also
  proved.
- `OneBroadcaster`, `BroadcastUnderItsLock`: mutual exclusion of the processes that
  sign with the mainnet key, through takeovers and crashes. Also proved. The second
  needs operators who follow the runbook and confirm only the lock of a dead process
  (`CarefulOperators`); the first does not.
- `CampaignWithinCaps`, `PassedIsAccounted`, `CampaignCompletes`: the caps hold over
  all resumptions, a passed manifest counts every receipt once (both also proved), and a
  campaign that is resumed passes. Of the last, excused are what the runbook leaves to an operator
  (`NeedsReconciliation`), money that went elsewhere, and one stop: a resumed run
  that finds both receipts passed first saves the manifest with the sums of the STX
  receipt alone, and if it is killed there the next one finds sums that do not add up.
- `PaidAsAccepted`, `SettledAsShown`: what a wallet pays into an escrow or takes out of
  one from the jobs page is what was on the card its owner clicked. A card has two
  sums, the budget and the escrow locked, which differ when the client changed the
  budget and funded the job between the two reads; the second call made elsewhere in
  the instance is there for that. The property says which of the two counts. Both
  are also proved.
- `ApprovedAsShown`: the wallet is asked to sign what the page shows, and a
  deployment signs transactions only for the release the treasury signed for. Also
  proved.
- `DirectoryIsCurrent`: an owner who was told to be listed is counted, and nobody is
  shown an older chain than somebody who was answered before. Excused are a store
  that fails and a set that a query under way put back (see 4.5). Also proved.
- `NodeIsSpared`: no request leaves within three seconds of another or while the node
  asked for a pause. Also proved.
- `MarketplaceAsShown`: lists that were read slot by slot are true, whoever was assigned
  from one did apply and is no party, and editing an agent writes back only a wallet
  it has had. Also proved.
- `EveryRunEnds`: a script's run ends whatever became of its transaction.
- `EveryLockEnds`: a process of a campaign ends although a dead one left files behind.

### 4.3 Fairness

`AgenticCommerce`: blocks keep coming on both clocks and for each job somebody makes
the call that is open to everyone once a deadline has passed. It is weak fairness on
the disjunction over all accounts: the contract makes those calls permissionless for
exactly this purpose, any of the parties has an interest in one of them, and none is
assumed to act at any particular time. Nothing is assumed of the client, the
provider, the evaluator, the authority or the treasury. In the bounded instance the
burn height must not stop before the last deadline of a job; `SubmitHorizon`, a guard
the instances put on submissions, keeps those early enough for that. `SbtcCommerce` has
the same fairness; an escrow whose token refuses the recipient for ever stays
where it is, so its `EscrowIsReleased` assumes that at some point no recipient is
refused any more.

`ServiceFeeCases`: an operator starts a stopped case again, a script that is not killed
goes on, what is pending is mined, the deployment takes place, and at some time the
world leaves the case alone (`CalmDown`); then a script is faster than a burn block,
which is what the deadline gates of the code assume as well. `Campaign` assumes the
same of operators, processes and the network, within three mishaps.

`EscrowScripts` assumes only that a process that is not killed takes its next step: its
waits are bounded. `Deployments` adds that operators start again, that blocks are
mined, that a mempool drops in the end what cannot be mined, oldest first, and that
an account found too poor is topped up whenever that is asked for again and again
(strong fairness of `TopUp`, since a retry in between disables it).

`CampaignLock` assumes that a process that is not killed takes its next step, and that
it does not broadcast for ever: the list of steps of an executor is fixed, so from
the point where it may close it eventually does (strong fairness of `Close`, which is
enabled again after each broadcast).

`TxJournal` and the application's modules have no liveness: a node may refuse for ever
and a user may not come back.

Deadlock checking is off: bounded heights and counters let every instance run out of
steps, and processes and users may stop.

### 4.4 Disagreements

Five runs expect a violation of what a document or a comment says; `PROJECT.json` quotes
the lines.

`lock_takeover_race`. `docs/MAINNET_SERVICE_FEE_RUNBOOK.md:331` says that a takeover
refuses a live coordinator and that only one process can win. An operator confirms a
lock whose owner still runs; the takeover reads the same lock again; its owner
releases it and exits; the takeover finds the owner dead; another process acquires
the lock, which needs no guard; and the rename replaces the lock of that live process.
Broadcasts still exclude each other, since each is preceded by a check of the lock and
the lease, and an executor whose token was replaced stops.

`journal_fork`. `docs/MAINNET_SERVICE_FEE_RUNBOOK.md:149` says that final success
requires two additional Stacks blocks and canonical revalidation of every
transaction. `waitForFinality` takes the heights from the journal, where the last
reconciliation put them; a fork replaces the block of the transaction after that. The
tip reaches the old height plus two; the revalidation finds the transaction, in the
index that has not followed the fork or mined again at a greater height, which it does
not compare; and the campaign passes with fewer than two blocks on top of it. Without
a fork the promise holds (`PassedIsFinal`, proved in `ApplicationProofs`).

`escrow_suite_resume`. A resumed run of `e2e-autonomous-escrow-testnet.mjs` begins with an
empty job and saves its receipt after its first check over the one that names the
job; the id returns much later. A run that dies in between leaves a receipt that the
suite refuses to resume and to prepare again, with money in the escrow.

`page_consent`. A list that was asked for one currency arrives after the other was
selected and shows itself under it. `withFreshFee` verifies the fee of the card's
contract, the call is one of the selected currency: the consent covers another
contract than the call. The post-conditions still name the amounts, so the wallet
refuses what does not match.

`campaign_minimum`. The sBTC part of an execution asks at every start for the whole
budget, also when it has funded its job already. A campaign that had exactly the
minimum of the preflight, and stopped after that, records a failed check when it is
resumed and can never pass.

### 4.5 Seen on the way

Races that the models contain and a property excuses, or that a bound leaves out,
because the documents promise nothing about them:

- `participants.ts`: a query of the wallets that was under way when a registration
  dropped the cache puts the old set back; the owner, told "Your wallet now counts
  as independent.", is not counted for up to a minute.
- `participant-registry.ts:114`: the date of the listed entry is read before the row is
  written; of two overlapping registrations of one wallet the older can win. The
  instance has one registration at a time.
- `snapshot-cache.ts:43`: the age of a stale value is computed with the time before the
  await, so it is served a little longer than the bound its comment names.
- `participants/page.tsx` and `JobApplications.tsx`: an older list may arrive after a newer
  one and stay.
- `EvaluableJob.tsx:118, 152`: an inspection that is answered after its field was
  edited is taken for the new address; the wallet is then asked for the file
  that was inspected. `SubmittedAsShown` excuses it (`overtaken`).
- The agents' page writes back the wallet of the list it edits from; when that list is old
  so is the wallet (`EditKeepsWallet` allows a wallet the agent has had).
- A read that gives up because the node asks for more than a minute lets the next
  one in the queue start after three seconds.

## 5. Proofs

All theorems are about the unrestricted specifications (`Spec`; `CaseSpec` for the
scripts, `CampaignSpec`, `JournalSpec`, `RegistrySpec`, `EvaluationSpec`,
`AttestationSpec`, `MarketSpec` and `DirectorySpec` for the modules that share a run with
others), for any set of
principals, windows, budgets, number of jobs and heights. The instances of TLC take the
same actions, so an invariant that is proved and a run's invariant are one definition.
Each inductive invariant was checked by TLC on the instance of its run before it was
proved. The assumptions are those that the modules state about their constants:

- `AgenticCommerce`, `SbtcCommerce`, `ReputationTerms`, `ServiceFeeCases`: the escrow is
  a principal other than the deployers, `NONE` is neither a principal nor a number nor a
  deposit, initial balances are natural numbers with zero in the escrow, windows, inputs
  and bounds are natural numbers, and a case is one the scripts start (3.7); the tokens
  of `SbtcCommerce` are principals, at least one and finitely many, and its escrow holds
  none of them at first;
- `CampaignLock`, `TxJournal`, `ReadTransport`: `NoFile` is neither a process nor a file, null
  neither a block nor an entry, limits and times are natural numbers;
- `Campaign`: no receipt is no receipt and no number (`NoneAssumption`), the balances a
  campaign starts with and the payments of others are numbers (`PursesAssumption`,
  `PaymentsAssumption`);
- `Evaluation`: what `new URL` makes of something typed is something that can be typed
  (`NormalAssumption`), and the jobs it may start with are jobs whose submission, if any, is
  bound to their own client (`JobsAssumption`);
- `EscrowScripts`: the cases name a script, a defect it may meet and a scenario it knows,
  and windows are numbers (`CasesAreRuns`);
- `Deployments`: the cases are pairs of one of the nine scripts and one of the six worlds
  (`DeploymentsAreKnown`);
- `Directory`, `Marketplace`: null is no date and no application (`DatesAssumption`,
  `ApplicationsAssumption`), and the wallet of an agent in the registry is one it has had
  (`RegistriesAssumption`).

`JobsPage` and `TreasuryAttestation` need none.

- Type correctness (`AgenticCommerceProofs!TypeCorrect`,
  `ApplicationProofs!TypeCorrect`, `JournalTypeCorrect`, `CaseTypeCorrect`, `TypesAreKept`). For the escrow this is more
  than typing: it says that no balance, net amount or refund is ever negative, which
  needs that a fee fits in its gross amount and that every transfer is guarded.
- The fee (`AgenticCommerceProofs`): for every amount, the division by fifty is the
  floor of two percent, the two legs are natural numbers that add up, and a larger
  budget never nets less.
- Separation of roles (`AgenticCommerceProofs`): `RolesSeparated`, which is
  `GovernanceSeparated` and `JobPartiesSeparated`. `GovernanceSeparated` is not
  inductive: before the configuration an authority proposal could already be
  pending, and accepting it would change the authority behind the configuration's
  back. `GovernanceInv` adds that no authority proposal is pending before the
  configuration (the guard of `propose-appeal-authority`) and is inductive.
  `JobPartiesSeparated` then follows from `create-job`, which needs the separation
  of the current authority and treasury, and `assign-provider`, which compares
  with the pinned ones.
- The escrow's money (`AgenticCommerceProofs`). `EscrowMatchesStatus` is inductive together
  with the types. `EscrowInv` adds that no party that can be paid is the escrow
  itself (`RecipientsOutside`; the escrow signs no transaction, and the
  treasury is compared with it), without which a transfer to a recipient could
  stay in the balance. Under `EscrowInv` every step changes the contract's
  balance by exactly the change of `Owed`, the sum of all escrow rows
  (`EscrowConservation`), and `EscrowBacked` follows. `Owed` is a recursive
  function of the number of jobs; that changing one row changes the sum by that
  much (`OwedUpdate`) needs induction, which is done over sets of numbers with the
  library's well-foundedness of the natural numbers (`LeastNumber`,
  `SetInduction`), without a theorem that takes an operator as a parameter.
- Due process (`AgenticCommerceProofs!ProcessIsDue`). `DueProcess` speaks of decisions; that an
  appeal finds one that nobody has appealed, or a settlement one that is not final,
  follows from the job's status only. `CaseInv` adds what each status says of the
  job's deadlines, provider and decision (`CaseInOrder`). Its proof is per job: a step
  that is about one job (`OnlyCase`) leaves the order of all others alone.
- The fee state (`AgenticCommerceProofs!FeeStateStaysReadable`). `FeeInv` states per job what
  `parseServiceFeeState` compares (`FeeReadable`), and adds that a job exists only once
  the protocol is configured and that its treasury is then the protocol's for ever
  (`TreasuryInv`): without it a reconfiguration could leave jobs with another treasury.
  The parts about who is who come from the separation of roles.
- Reputation (`AgenticCommerceProofs!ReputationStaysInStep`). The registry is keyed by the
  reporting contract and a job number, and the next job's number must be free in it:
  `ReputationInv` adds that nobody but the escrow reports under its name and that it
  has no outcome of a job that does not exist (`OwnReports`). Only then can a
  settlement's report be refused for no other reason than a missing authorisation.
- Commitments (`AgenticCommerceProofs!CommitmentsStayKept`), an action property: split into the
  rows of jobs, of decisions and of fees, each with one step per function.
- The refinement (`AgenticCommerceProofs!PromiseIsKept`): `Spec => KeepsPromise`. Under
  `PromiseInv`, which is `EscrowInv`, `CaseInv`, `FeeInv` and the separation of the
  parties, every function is a step of `EscrowPromise` or leaves the mapped variables
  alone. Nearly all of the work is in the release: that its whole amount leaves,
  that it goes to the worker or the payer, and that a third party gets at most two
  percent, needs that the fee is the one `FeeInv` allows and that provider, client and
  treasury are three accounts.
- The token escrow (`SbtcCommerceProofs`), for any finite number of tokens, any recipients
  they refuse at any time and any defaults. `SbtcCommerce` is made of instances of
  `AgenticCommerce`, one per token and one for the calls that move nothing. To reason about
  all of them at once, the ledgers are put into one pool (`PoolOf`: what a principal holds of
  all tokens together).
  - `TokensArePooled`: `Spec => Pooled!Spec`, where `Pooled` is `AgenticCommerce` with the
    pool for `stx`. A transfer in one token changes the pool by as much (`TransferPooled`)
    and is possible in the pool whenever it is in its token; the pin, the default and the
    refusals only forbid steps. Hence what is proved of the lifecycle holds here
    (`LifecycleIsShared`).
  - `PromiseIsKeptPerToken` cannot be had that way: a job paid in one token out of another's
    coins would be correct in the pool. Each token gets its own refinement of `EscrowPromise`,
    over the jobs pinned to it (`TokenStep`). The pool's theorems say which deposit a call
    opens or ends and what the parties are owed (`Pooled!FundOpensDeposit`,
    `Pooled!SettlementShares`), the check of the pin says in which ledger it happens, and for
    every other token nothing moves.
  - `TokensStayBacked`: that the balance of a token covers its jobs is carried by the steps
    of the promise itself, which keep the vault at or above the deposits
    (`PromiseKeepsBacked`). It needs that every escrow row is pinned (`AllPinned`), which
    `fund-job` sees to in one call and no other call undoes.
- The service-fee scripts (`ServiceFeeCasesProofs`), for any accounts, budget, windows,
  number of restarts, losses and interferences, all ten scenarios of the testnet script
  and the one of the mainnet script.
  - `ScriptsUseTheContract`: scripts, network and strangers together are a behaviour of
    `Spec`, so all theorems above hold while they run. This needs `TermsInv`: nothing is
    recorded before its terms (expiry, top-up) are fixed in the receipt.
  - `OperationsAreSentOnce`: `SentInv` ties the process to the receipt: what is about to
    be sent is recorded and has no transaction yet, what is about to be signed is not
    recorded.
  - `PassedReceiptsAreTrue`: a receipt closed as passed is true to the last micro-STX.
    What was executed (`Executed`: its one transaction succeeded) determines the only job
    (`JobInv`) and every balance of the case (`LedgerInv`: what came in, what the
    contract paid out by the job's status and settlement, gifts). A run goes past an
    operation only when the chain has executed it (`ProgressInv`), and the checks at
    the end (`TestCloses`, `MainCloses`) read the status and the settlement; `PassedInv`
    says that what they read cannot change any more, because such a status is final
    for everyone and a report that is not pending is not retried. The registry's part
    then follows from `ReputationStaysInStep`, the escrow's from
    `EscrowAlwaysMatchesStatus`. Not even the balance check of the mainnet script
    (`MainDeltas`) is needed for it.
- The registry (`ApplicationProofs`): its reports are final (`ReportsStayFinal`), and its
  aggregates are the reports (`AggregatesStayTrue`). The second is a statement about sums
  over all ratings and outcomes, which are folds. `TotalsProofs` gives a fold the two
  laws that a step needs, that a key more adds its value and that a sum depends on
  nothing but the values (`TotalAdds`, `TotalAgrees`), by an induction over the
  cardinality of the set of keys: it is done over the set of the numbers for which the
  law holds (`SetInduction`), so that no theorem takes an operator as a parameter.
  `RegistryInv` says per agent that total, count and outcomes are those sums and the
  average their floor.
- Evaluable jobs (`ApplicationProofs!EvaluatedIsCommitted`). `EvaluationInv` ties what is
  on its way to the job on the chain: the card, the request under way and the wallet's
  request are of that job, whose terms are fixed once work is submitted (`CardIsOfJob`,
  `RequestIsOfJob`, `PopupIsOfJob`), and an inspection and its answer are of the address in
  the field, unless that was edited before the answer came (`FormIsInspected`, `overtaken`).
- The campaign lock (`CampaignsProofs`), for any number of processes. That
  broadcasts exclude each other does not follow from the lock, which a careless
  takeover may replace, but from the lease: `LockInv` says that whoever is
  between taking and releasing the guard holds it, that whoever is between
  creating and removing the lease is its owner, and that while a takeover
  examines a lease nobody else writes it and its owner is dead before it is removed. Under
  `CarefulOperators`, `CarefulInv` adds that an examined lock belongs to a dead
  process, that it is still the lock when it is replaced, that a coordinator
  waits while its child lives and keeps its lock meanwhile, and that a lease is
  only held under the lock it names.
- The money of a campaign (`CampaignsProofs!CampaignStaysWithinCaps`,
  `CampaignIsAccounted`), for any balances to begin with and any number of crashes,
  refusals, lost transactions and payments of others. The caps are checked against what is
  left of them for one asset, at its start; that they hold over all resumptions needs
  `CampaignInv`. It says of each receipt that operations are signed in their order, after a
  top-up within what the assets before leave of the cap (`SignedInOrder`), that the sBTC
  receipt exists only after the STX receipt passed, and that a receipt that passed names
  exactly the fees of what it signed, all of which is mined (`PassedIsSettled`). `MoneyInv`
  ties receipts to the chain: of what was signed for an asset all but the last has been
  executed, and `given` and `paid` are the sums over what was executed. A run goes past an
  operation only when it is mined (`ProcessInv`), so that at most one transaction of an
  asset is ever open; whatever stops, the receipt keeps what was signed and is never begun
  anew. The fee cap then holds since eight calls and a top-up per asset cannot cost more
  (`FeesBounded`); the top-up cap since the second top-up is within what the first left.
  `ManifestInv` says that the manifest has the sums of both receipts from the last
  accounting on, whatever a resumed run wrote before.
- The transaction journal (`ApplicationProofs`), for any catalog, limits and number
  of forks. `JournalInv` adds three facts to the types and to
  `RecordedBeforeBroadcast`: the entry the process works on is the one in the
  file (`EntryIsRecorded`), the chain takes a nonce once (`NoncesDiffer`), and an
  attempt is counted in the file before it is made (`BroadcastsCounted`). Since
  the nonce of an entry never changes, whatever the network has of an operation
  is one transaction, and it can be on the chain once. `FinalInv` carries
  `PassedIsFinal` (`PassedStaysFinal`) while there was no fork: what the index has is
  the beginning of the chain and so is what is stable; a confirmed entry names the
  block that executed its transaction; after the second reconciliation, which goes
  through the whole file again, everything recorded is confirmed, since a process
  that finds an entry it cannot confirm stops there; and whoever waits for finality
  has all of the catalog in the chain. The first fact is the one a fork breaks,
  which is `journal_fork`.
- The escrow scripts (`ScriptsProofs`), for any list of cases, number of runs, jobs, late
  transactions and blocks. The five scripts are sequences of steps; what the proof needs
  to know of them are two facts, each shown once for all scripts, scenarios and modes.
  `StepsHire`: the steps up to some position need no job, those after it leave the job of
  the run alone, and in a first run the step at that position is `create-job` and the next
  one `set-budget`. `StepsEnd`: the steps contain the check of the end that the scenario
  promises, or a stop before it. The invariant `Inv` follows an interpreter of such
  sequences: what a run waits for is the call of its step and names its job (`WaitInv`);
  past that position `target` is a job of this case, and so is every job the file or the
  operator names (`KnownInv`); unless a check has failed, what the steps behind it have
  found still holds (`FoundInv`), since a settled job is final for everybody (`Keeps`).
  `PassedIsSettled` is then the end of the sequence, for the script that counts its
  failures too, since its verdict asks for them. `RunsKeepToTheirJobs` needs `NamedInv`
  besides: when `set-budget` is confirmed the id is saved, so it is in the file before the
  call that fills the escrow is sent, and until then nothing that may still be mined fills
  one.
- The deployments (`ScriptsProofs`), for any of the nine scripts in any world, any number
  of mishaps and any length of the mempool. What is needed of the lists of operations is
  that they are finite, and for the four scripts that mind the mempool
  (`RefusesPending`) that no operation is at two places and what their calls may cost.
  `PromotionInv` is the invariant.
  - `PassedIsReady`: a run that waits knows where its transaction is and one that saw it
    succeed finds its work done (`WaitsForDue`); what is not planned is there
    (`PlanIsComplete`), and so is what has had its turn (`DoneSoFar`), but for the policy
    of an escrow that was configured otherwise, which such a script takes for done: that
    one its last check finds (`AllReady`), without which the theorem fails.
  - `NeverSentTwice`: what is in the mempool of such a script is missing on the chain, and
    there is at most one (`OursAreMissing`, `OneOfOurs`). This follows from the moments at
    which there is none (`NoneOfOurs`): from the answer that the mempool is empty until
    the first transaction is sent, and whenever a wait has ended well.
    `fee-test` may find its own transaction of an earlier run: `JournalIsTrue` says that
    it is then in the journal, so that it is waited for and not sent again.
  - `MaximumSuffices`: what was spent is at most what the operations that had their turn
    may cost (`Charge`), which is at most the reviewed maximum for any part of the list
    (`ChargeIsReviewed`). While nobody else has sent anything since the run began,
    nothing but the awaited transaction is in the mempool (`Undisturbed`), and balance
    and expenses together cover the maximum (`FundsSuffice`), so that what is due can be
    paid.
- The jobs page (`PagesProofs`), for any terms, accounts, lists, clicks, failing
  reads and calls made elsewhere. `PageInv` is about one run at a time: a call that
  funds has the consent of its click, what has been read again holds nothing until
  its escrow is read (`EscrowIsUnread`), and what the wallet is asked for is the sum
  on the card (`AsksForTheCard`), which `verifyFeeAction` and the comparison of escrow
  and budget give. `PaidIsAsAccepted` and `SettledIsAsShown` follow from the
  post-conditions, whatever happens to the chain and the wallet in between. Without
  `EscrowIsUnread` a form that stays open over a card of the other contract could ask
  for a sum that was on no card.
- The treasury attestation (`PagesProofs!ApprovedIsShown`), for any accounts, releases and
  clocks, and receipts saved long ago. `ScreenAgrees` is inductive. A deployment that signs
  has two receipts, the one it checked and the one in its journal, which may be of an
  earlier start: `DeploymentInv` says that from the check on the first is the treasury's
  for the release in hand, that a journal keeps one for the release it is bound to, and that
  the two releases are one while it operates, whatever was checked out in between.
- The marketplace (`PagesProofs!MarketplaceIsAsShown`), for any users, registries of agents,
  overlapping readings and calls by others. A list is read slot by slot while slots are
  taken: `SlotsInv` says that everybody who ever applied is at exactly one index, slots
  only grow and keep their owners (`SlotsGrow`), and `GetsEverybody` that a reading under
  way has got, or is still to ask for, everybody who was applying all along and has got
  nobody who never was. The rest follows a handler between two awaits (`CallsInv`,
  `DeskInv`, `FormInv`): what is on its way to the wallet was picked from such a list, or
  edits a wallet the agent has had.
- The read transport (`PagesProofs`), for any callers, times and pauses
  (`TimesAssumption`: they are natural numbers). `TransportInv` says that only the first
  of the queue is past waiting, that its wait covers what is left of the spacing, and
  that a node is to be left alone only while the read it refused waits in front for
  at least as long.
- The directory (`PagesProofs!DirectoryStaysCurrent`), for any number of wallets,
  registrations, requests and views. `StoreInv`: who was told to be listed has a row, since
  rows are never removed. `CacheInv`: the set of wallets in the cache has
  everybody who was told, except those who were told while its query was under way (the
  excused case of 4.5). `SnapshotInv`: one reading is under way at a time, and neither it
  nor the last one is older than what was served to anybody. `ViewsInv`: what a view has
  collected covers the owners it must not miss, and what it is served is no older than
  what was served before it began.

Only model-checked:

- All liveness (`NoEscrowIsStuck`, `EscrowIsReleased`, `EveryCaseEnds`, `EveryRunEnds`,
  `EveryLockEnds`, `PromotionCompletes`, `CampaignCompletes`): fairness is out of reach of
  the provers used.

`TakeoverFromTheDead`, `EscrowConservation`, `ReportsAreFinal`, `BroadcastsBounded` and
the type invariants are theorems only (`TakeoverFromTheDead` for careful operators:
without them it is what `lock_takeover_race` violates).

## 6. Not modelled

- The security gate and the verification scripts: stateless checks over files and
  public data.
- The QA release controller: a shell program that moves containers, images and a
  pointer; what it does is decided by docker, systemd and one host's file system, whose
  failures its source does not describe well enough.
- The validation registry: one owner's records, which no decision reads.
- Earlier generations of the contracts, superseded on mainnet; the scripts that
  exercise them are modelled with the escrow as far as it decides what they see.
- Direct payments (x402 and MPP): the application forwards to the Platform service,
  which is in another repository. The same for the Evaluator beyond the request it
  receives.
- The chainhook receiver (authenticates, counts, acknowledges, stores nothing), the
  developer portal, read-only views, and the workflows.
- Within modelled parts: texts, hash values, printed events, argument encodings,
  schemas of request bodies and of files; the width of Clarity's `uint` (128 bits; an
  overflow aborts the call, and amounts are bounded by the STX supply). Of the
  deployment through the journal: the key file, the campaign-state marker and the
  checks of payloads. Of the application: sums of the transparency page, pages and
  search of lists, the limiter of registrations, and the administration of
  `agent-registry.clar`, which nothing reads. The scan of `findAgentsByWallet` for the
  newest two hundred agents is as long as the list in the instance.
