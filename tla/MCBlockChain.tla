---------------------------- MODULE MCBlockChain ----------------------------
(***************************************************************************)
(* A tree of nine blocks above the genesis block.                          *)
(*                                                                         *)
(*   g - f - a1 - a2                                                       *)
(*         \ b1 - b2 - b3                                                   *)
(*              |    \ w3                                                   *)
(*               \ x2 - x3                                                  *)
(*                                                                         *)
(* a2 spends f's coinbase with t1; b1 spends it with t2 and spends t2's    *)
(* output with t3.  x2 repeats t1, which is a double spend after b1.  a1   *)
(* spends with t6 another output of f's coinbase, which no other branch    *)
(* does.  w3 has the coinbase of b3 and spends it in the same block, too   *)
(* early.  a2 spends a1's coinbase as soon as that is mature.              *)
(***************************************************************************)
EXTENDS BlockChain, TLC

MCBlock == {"g", "f", "a1", "a2", "b1", "b2", "b3", "w3", "x2", "x3"}

MCParent ==
  "f" :> "g" @@ "a1" :> "f" @@ "a2" :> "a1" @@ "b1" :> "f" @@ "b2" :> "b1"
  @@ "b3" :> "b2" @@ "w3" :> "b2" @@ "x2" :> "b1" @@ "x3" :> "x2"

MCChain ==
  LET anc[b \in MCBlock] == IF b = "g" THEN {"g"} ELSE {b} \cup anc[MCParent[b]]
  IN  anc

MCHeight ==
  LET h[b \in MCBlock] == IF b = "g" THEN 0 ELSE h[MCParent[b]] + 1
  IN  h

\* A PoS block on a1 outweighs several PoW blocks.
MCChainTrust ==
  "g" :> 1 @@ "f" :> 2 @@ "a1" :> 4 @@ "a2" :> 5 @@ "b1" :> 3 @@ "b2" :> 5
  @@ "b3" :> 6 @@ "w3" :> 7 @@ "x2" :> 6 @@ "x3" :> 9

MCCoinbase == {"cg", "cf", "ca1", "ca2", "cb1", "cb2", "cb3", "cx2", "cx3"}
MCTx == MCCoinbase \cup {"t1", "t2", "t3", "t4", "t5", "t6"}

MCvtx ==
  "g" :> <<"cg">> @@ "f" :> <<"cf">>
  @@ "a1" :> <<"ca1", "t6">> @@ "a2" :> <<"ca2", "t4", "t1">>
  @@ "b1" :> <<"cb1", "t2", "t3">> @@ "b2" :> <<"cb2">> @@ "b3" :> <<"cb3">>
  @@ "w3" :> <<"cb3", "t5">> @@ "x2" :> <<"cx2", "t1">> @@ "x3" :> <<"cx3">>

\* The spendable outputs: of the coinbases of f, a1 and b3, and of t2.
MCTxOf == "of" :> "cf" @@ "of2" :> "cf" @@ "oa" :> "ca1" @@ "ob" :> "cb3" @@ "o2" :> "t2"
MCInputs == [t \in MCTx |-> CASE t \in {"t1", "t2"} -> {"of"}
                              [] t = "t3" -> {"o2"}
                              [] t = "t4" -> {"oa"}
                              [] t = "t5" -> {"ob"}
                              [] t = "t6" -> {"of2"}
                              [] OTHER -> {}]
=============================================================================
