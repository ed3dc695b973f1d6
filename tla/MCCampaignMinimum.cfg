\* A campaign that starts with the minimum the preflight names.
SPECIFICATION CampaignsSpec
CONSTANTS
    Processes = {p1}
    Few = {p1}
    NoFile = NoFile
    NONE = NoFile
    MaxPayments = 1
    CarefulOperators = TRUE
    Purses <- Minimum
    Payments = {}
    MaxMishaps = 1
INVARIANT MinimumSuffices
CHECK_DEADLOCK FALSE
