--------------------------- MODULE MCCampaignLock ---------------------------
(***************************************************************************)
(* Small instances of CampaignLock.                                        *)
(***************************************************************************)
EXTENDS CampaignLock, TLC

Alike == Permutations(Processes)

LiveSpec == Spec /\ Fairness

=============================================================================
