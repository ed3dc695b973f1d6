---------------------------- MODULE MCTxJournal ----------------------------
(* Small instances of TxJournal. *)
EXTENDS TxJournal
=============================================================================
