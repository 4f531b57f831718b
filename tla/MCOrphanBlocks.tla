--------------------------- MODULE MCOrphanBlocks ---------------------------
(* A tree of nine blocks: g - a - b - d - f, a - c - e - i, c - h.  b and c have
   the same proof of stake, and so have d and h. *)
EXTENDS OrphanBlocks, TLC

MCBlock == {"g", "a", "b", "c", "d", "e", "h", "f", "i"}
MCParent == "a" :> "g" @@ "b" :> "a" @@ "c" :> "a" @@ "d" :> "b" @@ "e" :> "c" @@ "h" :> "c"
            @@ "f" :> "d" @@ "i" :> "e"
MCStake == [x \in MCBlock |-> CASE x \in {"b", "c"} -> "s1"
                                [] x \in {"d", "h"} -> "s2"
                                [] x = "e" -> "s3"
                                [] x = "f" -> "s4"
                                [] OTHER -> "none"]
=============================================================================
