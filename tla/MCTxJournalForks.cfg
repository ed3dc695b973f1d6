\* A fork between the confirmation of a transaction and the wait for finality.
SPECIFICATION JournalSpec
CONSTANTS
    Operations = 1
    MaxBroadcasts = 2
    FinalityDepth = 2
    NOTHING = NOTHING
    MaxHeight = 4
    MaxForks = 1
PROPERTY PassedIsFinalDespiteForks
CHECK_DEADLOCK FALSE
