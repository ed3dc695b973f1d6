\* The delayed cases of the suite.
SPECIFICATION Spec
CONSTANTS
    Cases <- SuiteCases
    Window = 1
    MaxBurn = 3
    MaxJobs = 2
    MaxStray = 1
INVARIANT PreparedIsResumable
CHECK_DEADLOCK FALSE
