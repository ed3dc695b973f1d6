\* A deployment of two operations, with a fork, a lagging index and crashes at any
\* point; two jobs of the sBTC escrow; an evaluable job with a signature and one
\* more event.
SPECIFICATION ApplicationSpec
CONSTANTS
    Escrow = K
    Deployer = owner
    RegistryDeployer = owner
    Authority = authority
    Treasury = treasury
    Client = client
    Provider = provider
    Evaluator = evaluator
    Tokens = {sbtc, usdc}
    Principals = {K, owner, authority, treasury, client, provider, evaluator, sbtc, usdc}
    NONE = NONE
    ClientFunds = 50
    InitialBalances <- MCInitialBalances
    ReviewWindow = 0
    AppealWindows = {0}
    Budgets = {50}
    Scores = {5}
    ExternalAmounts = {}
    Flaky = sbtc
    Picky = {}
    MaxJobs = 2
    MaxStacksHeight = 1
    MaxBurnHeight = 1
    SubmitHorizon = 1
    Operations = 2
    MaxBroadcasts = 2
    FinalityDepth = 2
    NOTHING = NOTHING
    MaxHeight = 4
    MaxForks = 1
    Accounts = {client, provider}
    Typed = {"a", "A", "b"}
    Normal <- Addresses
    Contents = {1, 2}
    Jobs <- FirstJobs
    MaxEvents = 2
INVARIANTS
    RecordedBeforeBroadcast
    ExecutedAtMostOnce
    TokensBacked
    EvaluatedAsCommitted
PROPERTIES FailClosed PassedIsFinal
CHECK_DEADLOCK FALSE
