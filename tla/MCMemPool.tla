----------------------------- MODULE MCMemPool -----------------------------
(***************************************************************************)
(* Three branches above f.                                                 *)
(*                                                                         *)
(*   g - f - a1 - a2                                                       *)
(*       | \ b1 - b2 - b3                                                  *)
(*        \ c1                                                             *)
(*                                                                         *)
(* t1 spends an output of f's coinbase and t3 spends t1's: they are in a1  *)
(* and a2.  t2 spends the same output as t1, in b2.  t4 spends another     *)
(* output of f's coinbase: it is in a2 and in b3.  t6, in a1, spends a     *)
(* third one, and so does t5, which also spends t2's and is in no block.   *)
(***************************************************************************)
EXTENDS MemPool, TLC

MCBlock == {"g", "f", "a1", "a2", "b1", "b2", "b3", "c1"}

MCParent ==
  "f" :> "g" @@ "a1" :> "f" @@ "a2" :> "a1" @@ "b1" :> "f" @@ "b2" :> "b1" @@ "b3" :> "b2"
  @@ "c1" :> "f"

MCChain ==
  LET anc[b \in MCBlock] == IF b = "g" THEN {"g"} ELSE {b} \cup anc[MCParent[b]]
  IN  anc

MCHeight ==
  LET h[b \in MCBlock] == IF b = "g" THEN 0 ELSE h[MCParent[b]] + 1
  IN  h

MCChainTrust ==
  "g" :> 1 @@ "f" :> 2 @@ "a1" :> 4 @@ "a2" :> 7 @@ "b1" :> 3 @@ "b2" :> 6 @@ "b3" :> 8
  @@ "c1" :> 5

MCCoinbase == {"cg", "cf", "ca1", "ca2", "cb1", "cb2", "cb3", "cc1"}
MCTx == MCCoinbase \cup {"t1", "t2", "t3", "t4", "t5", "t6"}

MCvtx ==
  "g" :> <<"cg">> @@ "f" :> <<"cf">>
  @@ "a1" :> <<"ca1", "t1", "t6">> @@ "a2" :> <<"ca2", "t3", "t4">>
  @@ "b1" :> <<"cb1">> @@ "b2" :> <<"cb2", "t2">> @@ "b3" :> <<"cb3", "t4">>
  @@ "c1" :> <<"cc1">>

MCTxOf == "f1" :> "cf" @@ "f2" :> "cf" @@ "f3" :> "cf" @@ "o1" :> "t1" @@ "o2" :> "t2"
MCInputs == [t \in MCTx |-> CASE t \in {"t1", "t2"} -> {"f1"}
                              [] t = "t3" -> {"o1"}
                              [] t = "t4" -> {"f2"}
                              [] t = "t5" -> {"o2", "f3"}
                              [] t = "t6" -> {"f3"}
                              [] OTHER -> {}]
=============================================================================
