--------------------------- MODULE CampaignFiles ---------------------------
(***************************************************************************)
(* What is in the files of CampaignLock, and its constants.                *)
(***************************************************************************)
CONSTANTS
    Processes,
    NoFile,
    CarefulOperators    \* the runbook's step before a takeover is followed:
                        \* only the lock of a dead process is confirmed

ASSUME CarefulAssumption == CarefulOperators \in BOOLEAN

LockFile == [by : Processes, written : BOOLEAN]
LeaseFile == [by : Processes, token : Processes, written : BOOLEAN]

ASSUME NoFileAssumption == NoFile \notin Processes \cup LockFile \cup LeaseFile

=============================================================================
