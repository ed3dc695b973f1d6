\* A consent ticked for one contract, and a call to the other.
SPECIFICATION Spec
CONSTANTS
    Client = client
    Provider = provider
    Evaluator = evaluator
    Authority = authority
    Accounts = {client, provider}
    NONE = NONE
    Worlds <- MCWorlds
    Budgets = {50, 100}
    Refreshes = 1
    Unreliable = {}
    MaxLoads = 2
    MaxRuns = 1
    MaxConsents = 1
    MaxMoves = 1
    MaxBurnHeight = 1
INVARIANT ConsentCoversTheCall
CHECK_DEADLOCK FALSE
