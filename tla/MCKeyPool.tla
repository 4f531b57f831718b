----------------------------- MODULE MCKeyPool ------------------------------
(* Three reservations on a pool of two keys. *)
EXTENDS KeyPool

=============================================================================
