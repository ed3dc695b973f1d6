\* The escrow scripts, up to two runs of a case; the deployments; two reporting
\* sources.
SPECIFICATION ScriptsSpec
CONSTANTS
    Cases <- MCCases
    Window = 1
    MaxBurn = 3
    MaxJobs = 2
    MaxStray = 1
    DeploymentCases <- MCDeployments
    MaxMishaps = 2
    MaxPending = 3
    Principals = {K, owner, provider}
    RegistryDeployer = owner
    NONE = NONE
    Scores = {0, 2, 5}
    SourceJobs = {1, 2}
    Reporters = {K, owner, provider}
    MaxReports = 3
INVARIANTS
    PassedMeansSettled
    KeepsToItsJobs
    PassedMeansReady
    NothingSentTwice
    ReviewedMaximumSuffices
    AggregatesMatchReports
PROPERTIES EveryRunEnds PromotionCompletes
CHECK_DEADLOCK FALSE
