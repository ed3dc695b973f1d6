\* Any player in any role, and two jobs of one client.
SPECIFICATION TwoQuestionsSpec
CONSTANTS
    Escrow = K
    Deployer = owner
    RegistryDeployer = owner
    Authority = authority
    Treasury = treasury
    Client = client
    Provider = provider
    Evaluator = evaluator
    Understudy = understudy
    Principals = {K, owner, authority, treasury, client, provider, evaluator, understudy}
    NONE = NONE
    ClientFunds = 100
    InitialSTX <- MCInitialSTX
    ReviewWindow = 0
    AppealWindows = {1}
    Budgets = {50}
    Scores = {}
    ExternalAmounts = {}
    ExpiryHeights = {1}
    MaxJobs = 2
    MaxStacksHeight = 1
    MaxBurnHeight = 3
    SubmitHorizon = 0
INVARIANTS
    EscrowBacked
    EscrowMatchesStatus
    RolesSeparated
CHECK_DEADLOCK FALSE
