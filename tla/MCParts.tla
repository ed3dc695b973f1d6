------------------------------ MODULE MCParts ------------------------------
(***************************************************************************)
(* Small instances of parts of the application that work by themselves,   *)
(* one per behaviour: a tab of the jobs page, the treasury's attestation,  *)
(* the transport of reads, the directory of participants, and the          *)
(* marketplace.  The variables of the other parts keep their first values. *)
(***************************************************************************)
EXTENDS JobsPage, ReadTransport, TreasuryAttestation, Directory, Marketplace

VARIABLE part     \* which of them a behaviour is about

pageVars == vars
opsVars == <<attestationVars, transportVars, directoryVars, marketVars>>
allVars == <<part, pageVars, opsVars>>

-----------------------------------------------------------------------------
(* The page *)

\* The terms of the jobs that the page starts with, one pair per stage of a job.
Terms(status, provider, budget, decision) ==
    [status |-> status, provider |-> provider, budget |-> budget,
     decision |-> decision]
Pair(status, provider, decision) ==
    [stx |-> Terms(status, Provider, 50, 1),
     sbtc |-> Terms(status, provider, 100, decision)]
PageWorlds == {Pair(0, Provider, 0), Pair(1, "", 0), Pair(2, Provider, 0),
               Pair(7, Provider, 2), Pair(8, Provider, 2)}
PageAccounts == {Client, Provider}

InPage(A) ==
    part = "page" /\ A /\ UNCHANGED <<part, opsVars>>

\* The second call made elsewhere funds a job, as after a change of its budget.
\* After the last click nothing on the screen can reach a call any more.
PagePart ==
    \/ \E c \in Currencies, by \in Parties, name \in Calls :
           \E value \in Values(name) :
               /\ moves = 1 => name = "fund-job"
               /\ InPage(Elsewhere(c, [name |-> name, value |-> value], by))
    \/ InPage(Time)
    \/ \E load \in loads : clicks = 0 /\ InPage(LoadJob(load))
    \/ \E load \in loads : clicks = 0 /\ InPage(LoadFee(load))
    \/ \E load \in loads : clicks = 0 /\ InPage(Show(load))
    \/ \E load \in loads : clicks = 0 /\ InPage(ShowNothing(load))
    \/ \E c \in Currencies : clicks = 0 /\ InPage(SelectCurrency(c))
    \/ \E account \in {Client, Provider} : InPage(ChangeWallet(account))
    \/ clicks = 0 /\ InPage(refreshWallet)
    \/ clicks = 0 /\ InPage(Tick)
    \/ \E name \in Forms : clicks = 0 /\ InPage(OpenForm(name))
    \/ \E name \in OfPage : \E value \in Values(name) :
           InPage(Click(name, value))
    \/ \E run \in runs : InPage(GiveUp(run))
    \/ \E run \in runs : InPage(Reload(run))
    \/ \E run \in runs : InPage(Verify(run))
    \/ \E run \in runs, account \in {Client, Provider} : InPage(Sign(run, account))
    \/ \E run \in runs : InPage(Mined(run))
    \/ \E run \in runs : InPage(Refresh(run))
    \/ \E run \in runs : InPage(Forget(run))

-----------------------------------------------------------------------------
(* The attestation, the transport and the directory *)

Clocks == {-1, 0, 1}

OfTreasury(A) ==
    /\ part = "attestation" /\ A
    /\ UNCHANGED <<part, pageVars, transportVars, directoryVars, marketVars>>

TreasuryPart ==
    \/ \E sha \in {"reviewed", "newer", NOTHING} : OfTreasury(Open(sha))
    \/ \E sha \in {"reviewed", "newer", NOTHING} : OfTreasury(EditSha(sha))
    \/ OfTreasury(prepareReview)
    \/ OfTreasury(connectTreasury)
    \/ OfTreasury(Connected)
    \/ OfTreasury(signAttestation)
    \/ OfTreasury(SignedByWallet)
    \/ OfTreasury(Cancelled)
    \/ OfTreasury(downloadReceipt)
    \/ \E account \in {Authority, Client} : OfTreasury(SelectAccount(account))
    \/ OfTreasury(TimePasses)
    \/ \E sha \in {"reviewed", "newer"} : OfTreasury(Release(sha))
    \/ \E sha \in {"reviewed", "newer"} : OfTreasury(Checkout(sha))
    \/ OfTreasury(Attest)
    \/ OfTreasury(OpenJournal)
    \/ OfTreasury(End)

\* Three callers of the transport, with the times of the code.
ThreeCallers == {Client, Provider, Evaluator}

OfTransport(A) ==
    /\ part = "transport" /\ A
    /\ UNCHANGED <<part, pageVars, attestationVars, directoryVars, marketVars>>

TransportPart(c) ==
    \/ \E n \in Sizes : OfTransport(Call(c, n))
    \/ OfTransport(Space(c))
    \/ OfTransport(Start(c))
    \/ OfTransport(Answer(c))
    \/ OfTransport(Fail(c))
    \/ OfTransport(TimeOut(c))
    \/ \E delay \in {0, 1, 12, 60, 61} : OfTransport(SlowDown(c, delay))

\* A wallet that registers, one that is pinned, and two views.
OfDirectory(A) ==
    /\ part = "directory" /\ A
    /\ UNCHANGED <<part, pageVars, attestationVars, transportVars, marketVars>>

DirectoryPart ==
    \/ \E w, by \in {Client, Provider} : OfDirectory(Submit(1, w, 1, by))
    \/ OfDirectory(Find(1))
    \/ OfDirectory(Write(1))
    \/ OfDirectory(Listed(1))
    \/ OfDirectory(RequestFails(1))
    \/ \E v \in {1, 2} : OfDirectory(OpenView(v))
    \/ \E v \in {1, 2} : OfDirectory(QueryWallets(v))
    \/ \E v \in {1, 2} : OfDirectory(FillCache(v))
    \/ \E v \in {1, 2} : OfDirectory(StoreFails(v))
    \/ \E v \in {1, 2} : OfDirectory(ReadCached(v))
    \/ \E v \in {1, 2} : OfDirectory(Load(v))
    \/ \E v \in {1, 2} : OfDirectory(CloseView(v))
    \/ \E reading \in inflight : OfDirectory(ReadChain(reading))
    \/ \E reading \in inflight : OfDirectory(Loaded(reading))
    \/ \E reading \in inflight : OfDirectory(LoadFails(reading))
    \/ OfDirectory(Grow)
    \/ OfDirectory(CachesAge)

-----------------------------------------------------------------------------
(* The marketplace *)

\* Two accounts with an agent each may take the job of a third; the tab connects to
\* one of them and to the client.
Agent(w) ==
    [creator |-> w, wallet |-> w, active |-> TRUE, had |-> {w}]
FirstAgents == {<<Agent(Provider), Agent(Evaluator)>>, <<Agent(Provider)>>}

OfMarket(A) ==
    /\ part = "market" /\ A
    /\ UNCHANGED <<part, pageVars, attestationVars, transportVars,
                   directoryVars>>

\* After the last event nothing that is asked of the wallet can be signed.
Asks(A) == events < 3 /\ OfMarket(A)

MarketPart ==
    \/ \E w \in {Client, Provider, Evaluator} : OfMarket(CallElsewhere(w))
    \/ \E w \in {Client, Provider} : OfMarket(Signed(w))
    \/ \E w \in {Client, Provider} : OfMarket(refreshUser(w))
    \/ Asks(Refused)
    \/ \E tx \in sent, noticed \in BOOLEAN : OfMarket(CallMined(tx, noticed))
    \/ \E tx \in sent : OfMarket(Failed(tx))
    \/ OfMarket(ShowJob)
    \/ OfMarket(LoadApplications(1))
    \/ OfMarket(getApplicationCount(1))
    \/ \E index \in DOMAIN slots : OfMarket(getApplicantAt(1, index))
    \/ OfMarket(ApplicationsListed(1))
    \/ OfMarket(ApplicationsFail(1))
    \/ Asks(TakeThisJob)
    \/ \E f \in finds : \E found \in findAgentsByWallet(f.wallet) :
           Asks(Found(f, found))
    \/ \E id \in DOMAIN agents : Asks(ChooseAgent(id))
    \/ Asks(SubmitApplication)
    \/ Asks(Withdraw)
    \/ \E w \in {Provider, Evaluator} : Asks(assignApplicant(w))
    \/ \E w \in {Client, Provider, Evaluator} : Asks(Expire(w))
    \/ \E read \in SUBSET DOMAIN agents : Asks(loadAgents(read))
    \/ Asks(ToggleForm)
    \/ \E id \in DOMAIN agents : Asks(startEdit(id))
    \/ Asks(CancelEdit)
    \/ Asks(handleRegister)
    \/ Asks(handleUpdate)
    \/ \E id \in DOMAIN agents : Asks(handleDeactivate(id))

\* On the agents' page one agent and the registry of applications are still missing.
FirstMarket ==
    /\ MarketInit
    /\ IF page = "jobs"
       THEN configured /\ job.status = 1 /\ tabAccount = Client /\ Len(agents) = 2
       ELSE ~configured /\ job.status = 0 /\ tabAccount = Provider /\ Len(agents) = 1

-----------------------------------------------------------------------------
FirstPage == Init /\ escrow["stx"].status = 0 /\ stored = Client
FirstAttestation ==
    /\ AttestationInit
    /\ isLocal /\ lag = 0 /\ reviewedSha = NOTHING /\ wallet = Client
    /\ head = "reviewed"
PartsInit ==
    /\ part \in {"page", "attestation", "transport", "directory",
                "market"}
    /\ TransportInit /\ DirectoryInit
    /\ FirstMarket
    /\ part # "market" => page = "agents"
    /\ IF part = "page" THEN Init ELSE FirstPage
    /\ IF part = "attestation" THEN AttestationInit ELSE FirstAttestation

PartsNext ==
    \/ PagePart
    \/ TreasuryPart
    \/ DirectoryPart
    \/ MarketPart
    \/ \E c \in {Client, Provider, Evaluator} : TransportPart(c)
    \/ OfTransport(SecondPasses)

PartsSpec == PartsInit /\ [][PartsNext]_allVars
=============================================================================
