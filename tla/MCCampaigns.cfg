\* Four processes whose operators confirm only the lock of a dead one, and three of
\* operators who confirm any; a campaign with enough money, three mishaps and a
\* payment from the provider's account.
SPECIFICATION CampaignsSpec
CONSTANTS
    Processes = {p1, p2, p3, p4}
    Few = {p1, p2, p3}
    NoFile = NoFile
    NONE = NoFile
    MaxPayments = 1
    CarefulOperators = TRUE
    Purses <- Sufficient
    Payments = {700}
    MaxMishaps = 3
INVARIANTS OneBroadcaster BroadcastUnderItsLock CampaignWithinCaps PassedIsAccounted
PROPERTIES EveryLockEnds CampaignCompletes
CHECK_DEADLOCK FALSE
