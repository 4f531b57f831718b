---------------------------- MODULE MCInstantX ----------------------------
(* Two transactions that spend the same output; t2 spends another one too. *)
EXTENDS InstantX, TLC

MCInputs == "t1" :> {"o1"} @@ "t2" :> {"o1", "o2"}
===========================================================================
