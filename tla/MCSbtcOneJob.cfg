\* One job: the default token changes, tokens refuse recipients.
SPECIFICATION OneJobSpec
CONSTANTS
    Escrow = K
    Deployer = owner
    RegistryDeployer = owner
    Authority = authority
    Treasury = treasury
    Client = client
    Provider = provider
    Evaluator = evaluator
    Tokens = {sbtc, usdc}
    Principals = {K, owner, authority, treasury, client, provider, evaluator, sbtc, usdc}
    NONE = NONE
    ClientFunds = 50
    InitialBalances <- MCInitialBalances
    ReviewWindow = 1
    AppealWindows = {1}
    Budgets = {50}
    Scores = {5}
    ExternalAmounts = {50}
    Flaky = sbtc
    Picky = {treasury}
    MaxJobs = 1
    MaxStacksHeight = 1
    MaxBurnHeight = 5
    SubmitHorizon = 1
PROPERTIES KeepsPromise EscrowIsReleased
CHECK_DEADLOCK FALSE
