------------------------------- MODULE MCTxDB -------------------------------
(* Small instance of TxDB: two handles side by side, two keys, two values. *)
EXTENDS TxDB, TLC

=============================================================================
