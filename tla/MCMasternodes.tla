--------------------------- MODULE MCMasternodes ----------------------------
(* Two collaterals of one owner, one of them of the node's own masternode. *)
EXTENDS Masternodes

MCPubKey == [v \in Vin |-> "owner"]

=============================================================================
