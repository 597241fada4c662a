---------------------------- MODULE MCTxSenders ----------------------------
(* Window bounds how far ahead of the account's number a transaction may be. *)
EXTENDS TxSenders
=============================================================================
