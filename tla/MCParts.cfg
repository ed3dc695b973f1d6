\* A tab of the jobs page at every stage of a job; the treasury's attestation on two
\* machines; three callers of the read transport; the directory with a registration
\* and two views; the marketplace with two applicants.
SPECIFICATION PartsSpec
CONSTANTS
    NOTHING = NOTHING
    NONE = NOTHING
    Authority = authority
    Client = client
    Provider = provider
    Evaluator = evaluator
    Accounts <- PageAccounts
    Worlds <- PageWorlds
    Budgets = {50, 100}
    Refreshes = 1
    Unreliable = {"sbtc"}
    MaxLoads = 2
    MaxRuns = 1
    MaxConsents = 1
    MaxMoves = 2
    MaxBurnHeight = 1
    Callers <- ThreeCallers
    Spacing = 3
    Backoff = 5
    LongestWait = 60
    Patience = 20
    Hints = {1, 12, 61}
    Unhinted = {0, 60}
    Shas = {"reviewed", "newer"}
    Treasury = authority
    WalletAccounts = {authority, client}
    Lifetime = 2
    Skew = 1
    Lags <- Clocks
    MaxTime = 3
    Wallets = {client, provider}
    Pinned = {provider}
    Dates = {1}
    Requests = {1}
    Views = {1, 2}
    KeepWallets = 1
    KeepSnapshot = 1
    KeepStale = 2
    MaxChain = 1
    Users = {client, provider, evaluator}
    JobParties = {client}
    JobClient = client
    Owner = client
    Registries <- FirstAgents
    MaxApplications = 2
    Loads = {1}
    MaxAgents = 2
    MaxEvents = 3
INVARIANTS
    PaidAsAccepted
    SettledAsShown
    ApprovedAsShown
    DirectoryIsCurrent
    MarketplaceAsShown
PROPERTY NodeIsSpared
CHECK_DEADLOCK FALSE
