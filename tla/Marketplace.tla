------------------------------ MODULE Marketplace ------------------------------
(***************************************************************************)
(* The open marketplace: agents register their wallets                     *)
(* (agent-registry.clar, app/agents/page.tsx), apply for a job that has no *)
(* provider yet (job-applications-v1.clar), and the client picks one of    *)
(* them from the list on the job's card (JobApplications.tsx).             *)
(*                                                                         *)
(* One job, one tab with one page in it, the job's or the agents'. The     *)
(* applications of a job are kept under its escrow and its number, and the *)
(* card of a job is keyed by both, so jobs do not meet here. A list is     *)
(* read slot by slot while the chain moves; the wallet shows one request   *)
(* at a time and signs with the account selected in it. An agent is its    *)
(* creator, its wallet and whether it is active; names, notes and          *)
(* endpoints are left out, and of the job what the escrow says to the      *)
(* registry of applications is kept.                                       *)
(***************************************************************************)
EXTENDS Nothing, Integers, Sequences, FiniteSets

CONSTANTS
    Users, JobParties,      \* accounts, and those who are a party of the job
    JobClient, Owner,       \* the client of the job, the deployer of the registry
    Registries,             \* the agents that may be registered already
    MaxApplications,        \* MAX_APPLICATIONS_PER_JOB
    Loads,                  \* readings of the list that may overlap
    MaxAgents, MaxEvents    \* bounds on agents, and on signatures, calls by others
                            \* and changes of the account together

Agents == [creator : Users, wallet : Users, active : BOOLEAN, had : SUBSET Users]
Applications == [agent : Nat, active : BOOLEAN]

\* An agent has had the wallet it has, and an application is no placeholder.
ASSUME RegistriesAssumption ==
    /\ Registries \subseteq Seq(Agents)
    /\ \A registry \in Registries : \A id \in DOMAIN registry :
           registry[id].wallet \in registry[id].had
ASSUME ApplicationsAssumption == NOTHING \notin Applications

VARIABLES
    agents,                 \* the agent registry, with the wallets an agent has had
    configured,             \* the escrows and the agent registry are pinned
    applications, slots,    \* applicant -> its application; who is at which index
    job,                    \* status, provider, and whether the tab assigned it
    events,                 \* how many there were
    page,                   \* the page of the tab, "jobs" or "agents"
    tabAccount,             \* the account the tab is connected to
    asked,                  \* the request the wallet shows, or NOTHING
    sent,                   \* calls of the tab that wait for their block
    card,                   \* the card of the job in the tab
    list,                   \* the applications it lists
    readings, due,          \* readings of that list, under way and still to start
    agentCache, finds,      \* findAgentsByWallet: its cache, searches under way
    desk                    \* the page of the agents

boardVars == <<agents, configured, applications, slots, job>>
tabVar == <<page, tabAccount>>
listVars == <<list, readings, due>>
findVars == <<agentCache, finds>>
tabVars == <<tabVar, asked, sent, card, listVars, findVars, desk>>
marketVars == <<boardVars, events, tabVars>>

-----------------------------------------------------------------------------
(* agent-registry.clar *)

NewAgent(by, wallet) ==
    [creator |-> by, wallet |-> wallet, active |-> TRUE, had |-> {wallet}]
register_agent(by, wallet) ==
    /\ Len(agents) < MaxAgents
    /\ agents' = Append(agents, NewAgent(by, wallet))
    /\ UNCHANGED <<configured, applications, slots, job>>

IsCreator(by, id) == id \in DOMAIN agents /\ agents[id].creator = by

update_agent(by, id, wallet) ==
    /\ IsCreator(by, id)
    /\ agents' = [agents EXCEPT ![id].wallet = wallet, ![id].had = @ \cup {wallet}]
    /\ UNCHANGED <<configured, applications, slots, job>>

deactivate_agent(by, id) ==
    /\ IsCreator(by, id)
    /\ agents' = [agents EXCEPT ![id].active = FALSE]
    /\ UNCHANGED <<configured, applications, slots, job>>

-----------------------------------------------------------------------------
(* job-applications-v1.clar *)

configure(by) ==
    /\ by = Owner /\ ~configured
    /\ configured' = TRUE
    /\ UNCHANGED <<agents, applications, slots, job>>

Applying(w) == applications[w] # NOTHING /\ applications[w].active
Applicants == {w \in Users : Applying(w)}

TakesApplications(j) == j.status \in {0, 1} /\ j.provider = NOTHING

MayApply(by, id) ==
    /\ configured /\ TakesApplications(job) /\ by \notin JobParties
    /\ id \in DOMAIN agents /\ agents[id].wallet = by /\ agents[id].active
    /\ ~Applying(by)

TakesSlot_Always(previous) ==                                       \* mutant
    previous = NOTHING \/ ~previous.active
TakesSlot(previous) == previous = NOTHING

apply_to_job(by, id) ==
    /\ MayApply(by, id)
    /\ IF TakesSlot(applications[by])
       THEN Len(slots) < MaxApplications /\ slots' = Append(slots, by)
       ELSE UNCHANGED slots
    /\ applications' = [applications EXCEPT ![by] = [agent |-> id, active |-> TRUE]]
    /\ UNCHANGED <<agents, configured, job>>

withdraw_application(by) ==
    /\ Applying(by)
    /\ applications' = [applications EXCEPT ![by].active = FALSE]
    /\ UNCHANGED <<agents, configured, slots, job>>

-----------------------------------------------------------------------------
(* The escrow, and calls in general *)

fund_job(by) ==
    /\ by = JobClient /\ job.status = 0
    /\ job' = [job EXCEPT !.status = 1]
    /\ UNCHANGED <<agents, configured, applications, slots>>

\* A funded job may be given to another provider until work is submitted.
assign_provider(by, provider, fromList) ==
    /\ by = JobClient /\ job.status = 1 /\ provider \notin JobParties
    /\ job' = [job EXCEPT !.provider = provider, !.fromList = fromList]
    /\ UNCHANGED <<agents, configured, applications, slots>>

Executes(call, by) ==
    \/ call.name = "register-agent" /\ register_agent(by, call.wallet)
    \/ call.name = "update-agent" /\ update_agent(by, call.id, call.wallet)
    \/ call.name = "deactivate-agent" /\ deactivate_agent(by, call.id)
    \/ call.name = "apply-to-job" /\ apply_to_job(by, call.id)
    \/ call.name = "withdraw-application" /\ withdraw_application(by)
    \/ call.name = "assign-provider" /\ assign_provider(by, call.wallet, TRUE)

\* What readings that are under way may say of the applicants from now on.
Watched(now) ==
    readings' = [l \in Loads |->
                IF readings[l] = NOTHING THEN NOTHING
                ELSE [readings[l] EXCEPT !.ever = @ \cup now, !.always = @ \cap now]]

Counted == events < MaxEvents /\ events' = events + 1

\* Anybody calls a contract without the pages.
CallElsewhere(by) ==
    /\ Counted
    /\ \/ configure(by) \/ fund_job(by) \/ withdraw_application(by)
       \/ \E id \in DOMAIN agents : apply_to_job(by, id) \/ deactivate_agent(by, id)
       \/ \E w \in Users : assign_provider(by, w, FALSE) \/ register_agent(by, w)
       \/ \E w \in Users, id \in DOMAIN agents : update_agent(by, id, w)
    /\ Watched(Applicants')
    /\ UNCHANGED <<tabVar, asked, sent, card, list, due, findVars, desk>>

-----------------------------------------------------------------------------
(* Calls of the tab: the wallet, the block and trackTx *)

AskFor(call) == asked = NOTHING /\ asked' = call

\* The wallet has answered; then the form is closed: "after" of run and of submit.
Signed(by) ==
    /\ asked # NOTHING /\ Counted /\ asked' = NOTHING
    /\ sent' = sent \cup {[call |-> asked, by |-> by]}
    /\ card' = IF asked.name = "apply-to-job"
               THEN [card EXCEPT !.open = FALSE] ELSE card
    /\ desk' = CASE asked.name = "register-agent" ->
                      [desk EXCEPT !.showForm = FALSE, !.wallet = NOTHING]
                 [] asked.name = "update-agent" ->
                      [desk EXCEPT !.editing = NOTHING, !.wallet = NOTHING]
                 [] OTHER -> desk
    /\ UNCHANGED <<boardVars, tabVar, listVars, findVars>>

Refused ==
    /\ asked # NOTHING /\ asked' = NOTHING
    /\ UNCHANGED <<boardVars, events, tabVar, sent, card, listVars, findVars, desk>>

\* The list is read at once and again after six seconds.
refreshOnSuccess(call) ==
    due' = IF call.name \in {"apply-to-job", "withdraw-application"} THEN 2 ELSE due

\* CallMined; "noticed" unless trackTx has stopped asking.
CallMined(tx, noticed) ==
    /\ tx \in sent /\ sent' = sent \ {tx}
    /\ Executes(tx.call, tx.by)
    /\ Watched(Applicants')
    /\ IF noticed THEN refreshOnSuccess(tx.call) ELSE UNCHANGED due
    /\ UNCHANGED <<events, tabVar, asked, card, list, findVars, desk>>

\* The contract refuses it, or it never gets into a block.
Failed(tx) ==
    /\ tx \in sent /\ sent' = sent \ {tx}
    /\ UNCHANGED <<boardVars, events, tabVar, asked, card, listVars, findVars, desk>>

-----------------------------------------------------------------------------
(* The list on the card: getApplications *)

\* The card is shown when the page has read the job.
ShowJob ==
    /\ page = "jobs" /\ card' = [card EXCEPT !.job = job]
    /\ due' = IF card.job = NOTHING /\ TakesApplications(job) THEN 1 ELSE due
    /\ UNCHANGED <<boardVars, events, tabVar, asked, sent, list, readings, findVars,
                   desk>>

OfList(l, entry) == readings' = [readings EXCEPT ![l] = entry]

LoadApplications(l) ==
    /\ due > 0 /\ due' = due - 1 /\ readings[l] = NOTHING
    /\ OfList(l, [at |-> "count", left |-> {}, got |-> {},
                  ever |-> Applicants, always |-> Applicants])
    /\ UNCHANGED <<boardVars, events, tabVar, asked, sent, card, list, findVars, desk>>

AtLoad(l, at) == readings[l] # NOTHING /\ readings[l].at = at

getApplicationCount(l) ==
    /\ AtLoad(l, "count")
    /\ OfList(l, [readings[l] EXCEPT !.at = "slots", !.left = DOMAIN slots])
    /\ UNCHANGED <<boardVars, events, tabVar, asked, sent, card, list, due, findVars,
                   desk>>

\* One read gives the applicant at an index with its application; those that were
\* withdrawn are left out.  All are asked for together and answer in any order.
getApplicantAt(l, index) ==
    /\ AtLoad(l, "slots") /\ index \in readings[l].left
    /\ OfList(l, [readings[l] EXCEPT
                    !.left = @ \ {index},
                    !.got = @ \cup IF Applying(slots[index])
                                   THEN {<<index, slots[index]>>} ELSE {}])
    /\ UNCHANGED <<boardVars, events, tabVar, asked, sent, card, list, due, findVars,
                   desk>>

NamesIn(entries) == {entry[2] : entry \in entries}
IsTrueOf(load) ==
    load.always \subseteq NamesIn(load.got) /\ NamesIn(load.got) \subseteq load.ever

ApplicationsListed(l) ==
    /\ AtLoad(l, "slots") /\ readings[l].left = {}
    /\ list' = [entries |-> readings[l].got, isTrue |-> IsTrueOf(readings[l])]
    /\ OfList(l, NOTHING)
    /\ UNCHANGED <<boardVars, events, tabVar, asked, sent, card, due, findVars, desk>>

ApplicationsFail(l) ==
    /\ readings[l] # NOTHING /\ OfList(l, NOTHING)
    /\ UNCHANGED <<boardVars, events, tabVar, asked, sent, card, list, due, findVars,
                   desk>>

Names == NamesIn(list.entries)

-----------------------------------------------------------------------------
(* The card: taking a job, withdrawing, assigning *)

Shown == card.job # NOTHING /\ TakesApplications(card.job)
Unlisted == Shown /\ tabAccount \notin JobParties \cup Names

\* Opening the form, or another account while it is open, starts a search.
Search(open, wallet) ==
    finds' = {[f EXCEPT !.current = FALSE] : f \in finds} \cup
             (IF Shown /\ open THEN {[wallet |-> wallet, current |-> TRUE]} ELSE {})

TakeThisJob ==
    /\ Unlisted /\ asked = NOTHING
    /\ card' = [card EXCEPT !.open = ~@]
    /\ Search(~card.open, tabAccount)
    /\ UNCHANGED <<boardVars, events, tabVar, asked, sent, listVars, agentCache, desk>>

\* The active agents of a wallet among those whose reads succeed; or what was found
\* less than a minute ago.  The newest 200 agents are searched: all of them here.
getAgentCount == {Len(agents), 0}
getAgent(id) == IF id \in DOMAIN agents THEN {agents[id], NOTHING} ELSE {NOTHING}
OwnAgents(w) ==
    {id \in UNION {1 .. n : n \in getAgentCount} : \E agent \in getAgent(id) :
        agent # NOTHING /\ agent.wallet = w /\ agent.active}
findAgentsByWallet(w) == SUBSET OwnAgents(w) \cup ({agentCache[w]} \ {NOTHING})

Newest(ids) == IF ids = {} THEN NOTHING ELSE CHOOSE id \in ids : \A i \in ids : i <= id
Found(f, found) ==
    /\ f \in finds /\ finds' = finds \ {f}
    /\ found \in findAgentsByWallet(f.wallet)
    /\ agentCache' = [agentCache EXCEPT ![f.wallet] = found]
    /\ card' = IF f.current
               THEN [card EXCEPT !.agents = found, !.agentId = Newest(found)]
               ELSE card
    /\ UNCHANGED <<boardVars, events, tabVar, asked, sent, listVars, desk>>

ChooseAgent(id) ==
    /\ Unlisted /\ card.open /\ id \in card.agents
    /\ card' = [card EXCEPT !.agentId = id]
    /\ UNCHANGED <<boardVars, events, tabVar, asked, sent, listVars, findVars, desk>>

SubmitApplication ==
    /\ Unlisted /\ card.open /\ card.agentId # NOTHING
    /\ AskFor([name |-> "apply-to-job", id |-> card.agentId])
    /\ UNCHANGED <<boardVars, events, tabVar, sent, card, listVars, findVars, desk>>

Withdraw ==
    /\ Shown /\ tabAccount \in Names
    /\ AskFor([name |-> "withdraw-application"])
    /\ UNCHANGED <<boardVars, events, tabVar, sent, card, listVars, findVars, desk>>

\* The client assigns whoever is listed, once the job is funded; the registry is not
\* asked again.
MayAssign(w) == Shown /\ card.job.status = 1 /\ tabAccount = JobClient /\ w \in Names
assignApplicant(w) ==
    /\ MayAssign(w)
    /\ AskFor([name |-> "assign-provider", wallet |-> w])
    /\ UNCHANGED <<boardVars, events, tabVar, sent, card, listVars, findVars, desk>>

-----------------------------------------------------------------------------
(* The page of the agents *)

\* The agents whose reads have succeeded.
loadAgents(read) ==
    /\ page = "agents" /\ desk' = [desk EXCEPT !.roster = [id \in read |-> agents[id]]]
    /\ UNCHANGED <<boardVars, events, tabVar, asked, sent, card, listVars, findVars>>

\* Register Agent, or Cancel; what was being edited stays in the form.
ToggleForm ==
    /\ page = "agents" /\ asked = NOTHING
    /\ desk' = [desk EXCEPT !.showForm = ~@, !.editing = NOTHING,
                            !.wallet = IF ~desk.showForm /\ @ = NOTHING
                                       THEN tabAccount ELSE @]
    /\ UNCHANGED <<boardVars, events, tabVar, asked, sent, card, listVars, findVars>>

IsOwn(id) == id \in DOMAIN desk.roster /\ desk.roster[id].creator = tabAccount

startEdit(id) ==
    /\ asked = NOTHING /\ IsOwn(id)
    /\ desk' = [desk EXCEPT !.editing = id, !.wallet = desk.roster[id].wallet]
    /\ UNCHANGED <<boardVars, events, tabVar, asked, sent, card, listVars, findVars>>

CancelEdit ==
    /\ desk.editing # NOTHING
    /\ desk' = [desk EXCEPT !.editing = NOTHING, !.wallet = NOTHING]
    /\ UNCHANGED <<boardVars, events, tabVar, asked, sent, card, listVars, findVars>>

handleRegister ==
    /\ desk.showForm /\ desk.editing = NOTHING /\ desk.wallet = tabAccount
    /\ AskFor([name |-> "register-agent", wallet |-> desk.wallet])
    /\ UNCHANGED <<boardVars, events, tabVar, sent, card, listVars, findVars, desk>>

\* The wallet that was read when the form was opened, changed since or not.
handleUpdate ==
    /\ desk.editing # NOTHING
    /\ AskFor([name |-> "update-agent", id |-> desk.editing, wallet |-> desk.wallet])
    /\ UNCHANGED <<boardVars, events, tabVar, sent, card, listVars, findVars, desk>>

handleDeactivate(id) ==
    /\ IsOwn(id) /\ desk.roster[id].active
    /\ AskFor([name |-> "deactivate-agent", id |-> id])
    /\ UNCHANGED <<boardVars, events, tabVar, sent, card, listVars, findVars, desk>>

-----------------------------------------------------------------------------
\* Another account is connected: both pages take it over.
refreshUser(w) ==
    /\ w # tabAccount /\ tabAccount' = w /\ Counted
    /\ Search(card.open, w)
    /\ UNCHANGED <<page, boardVars, asked, sent, card, listVars, agentCache, desk>>

\* A minute after a search.
Expire(w) ==
    /\ agentCache[w] # NOTHING /\ agentCache' = [agentCache EXCEPT ![w] = NOTHING]
    /\ UNCHANGED <<boardVars, events, tabVar, asked, sent, card, listVars, finds, desk>>

MarketInit ==
    /\ agents \in Registries /\ configured \in BOOLEAN
    /\ applications = [w \in Users |-> NOTHING] /\ slots = <<>>
    /\ job \in [status : {0, 1}, provider : {NOTHING}, fromList : {FALSE}]
    /\ events = 0 /\ page \in {"jobs", "agents"} /\ tabAccount \in Users
    /\ asked = NOTHING /\ sent = {}
    /\ card = [job |-> NOTHING, open |-> FALSE, agents |-> {}, agentId |-> NOTHING]
    /\ list = [entries |-> {}, isTrue |-> TRUE]
    /\ readings = [l \in Loads |-> NOTHING] /\ due = 0
    /\ agentCache = [w \in Users |-> NOTHING] /\ finds = {}
    /\ desk = [roster |-> <<>>, showForm |-> FALSE, editing |-> NOTHING,
               wallet |-> NOTHING]

MarketNext ==
    \/ \E w \in Users : CallElsewhere(w) \/ Signed(w) \/ refreshUser(w)
    \/ Refused
    \/ \E tx \in sent : Failed(tx) \/ \E noticed \in BOOLEAN : CallMined(tx, noticed)
    \/ ShowJob
    \/ \E l \in Loads :
          \/ LoadApplications(l) \/ getApplicationCount(l)
          \/ \E index \in DOMAIN slots : getApplicantAt(l, index)
          \/ ApplicationsListed(l) \/ ApplicationsFail(l)
    \/ TakeThisJob \/ SubmitApplication \/ Withdraw
    \/ \E f \in finds : \E found \in findAgentsByWallet(f.wallet) : Found(f, found)
    \/ \E w \in Users : assignApplicant(w) \/ Expire(w)
    \/ \E id \in DOMAIN agents :
          ChooseAgent(id) \/ startEdit(id) \/ handleDeactivate(id)
    \/ \E read \in SUBSET DOMAIN agents : loadAgents(read)
    \/ ToggleForm \/ CancelEdit \/ handleRegister \/ handleUpdate

MarketSpec == MarketInit /\ [][MarketNext]_marketVars

-----------------------------------------------------------------------------
(* Properties *)

\* A list read slot by slot, while others apply, withdraw and apply again, names
\* everybody who was applying all along, nobody who was not at any moment of the
\* reading, and each only once (the card uses the applicant as key).
ListIsTrue ==
    /\ list.isTrue
    /\ Cardinality(Names) = Cardinality(list.entries)

\* Whoever the client picks from a list did apply and is no party of the job: also
\* when the list was old, the applicant has withdrawn, or the wallet signed with
\* another account.
AssignedHadApplied ==
    job.fromList => /\ applications[job.provider] # NOTHING
                    /\ job.provider \notin JobParties

\* Editing an agent writes its wallet with the rest; the form is shared with the
\* registration and lives through other accounts and old lists, and still only a
\* wallet the agent has had is written back.
EditKeepsWallet ==
    \A call \in {asked} \cup {tx.call : tx \in sent} :
        call # NOTHING /\ call.name = "update-agent" =>
            call.wallet \in agents[call.id].had

\* What the pages of the marketplace show and send is what the registries say.
MarketplaceAsShown == ListIsTrue /\ AssignedHadApplied /\ EditKeepsWallet
=============================================================================
