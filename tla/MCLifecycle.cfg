\* One job with a fixed cast, every lifecycle, fee and reputation operation,
\* called by anyone or by the end-to-end scripts of the service fee.
SPECIFICATION DrivenSpec
CONSTANTS
    Escrow = K
    Deployer = owner
    RegistryDeployer = owner
    Authority = authority
    Treasury = treasury
    Client = client
    Provider = provider
    Evaluator = evaluator
    Understudy = understudy
    Principals = {K, owner, authority, treasury, client, provider, evaluator, understudy}
    NONE = NONE
    ClientFunds = 51
    InitialSTX <- MCInitialSTX
    ReviewWindow = 1
    AppealWindows = {1}
    Budgets = {0, 49, 50}
    Scores = {0, 5}
    ExternalAmounts = {1}
    ExpiryHeights = {1}
    MaxJobs = 1
    MaxStacksHeight = 1
    MaxBurnHeight = 5
    SubmitHorizon = 1
    Actors <- MCActors
    Stranger = understudy
    CaseIds <- MCCaseIds
    Budget = 50
    ExpiryBlocks = 1
    GasReserve = 1
    Horizon = 2
INVARIANTS
    DueProcess
    FeeStateReadable
    ReputationFollowsOutcome
    FeePassedMeansSettled
    FeeSentOnce
PROPERTIES
    CommitmentsAreKept
    KeepsPromise
    NoEscrowIsStuck
    EveryCaseEnds
CHECK_DEADLOCK FALSE
