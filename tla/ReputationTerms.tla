-------------------------- MODULE ReputationTerms --------------------------
(***************************************************************************)
(* The constants of ReputationRegistry that are assumed something of.      *)
(***************************************************************************)
EXTENDS Integers

CONSTANTS
    Principals,       \* every account and contract of the chain
    RegistryDeployer, \* tx-sender of the deployment: the first contract-owner
    Scores,           \* the scores a caller may pass, valid or not
    NONE              \* Clarity's none

ASSUME RegistryDeployerAssumption == RegistryDeployer \in Principals
ASSUME ScoresAssumption == Scores \subseteq Nat
ASSUME RegistryNoneAssumption == NONE \notin Principals
=============================================================================
