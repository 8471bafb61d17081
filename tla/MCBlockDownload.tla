-------------------------- MODULE MCBlockDownload --------------------------
(* Genesis g; the active chain a1, a2; the fork b1, b2, b3, whose b2 was     *)
(* refused while b1 was off the active chain; c3 is a proof of work block    *)
(* on b2 and x2 a block on a1 that is not valid.                             *)
EXTENDS BlockDownload, Functions

MCTree == [b \in {"a1", "a2", "b1", "b2", "b3", "c3", "x2"} |->
    CASE b \in {"a1", "b1"} -> "g" [] b = "b2" -> "b1" [] b \in {"a2", "x2"} -> "a1" [] OTHER -> "b2"]
MCParent == Restrict(MCTree, Blocks \ {"g"})
MCAncestors == [b \in Blocks |->
    {"g", b} \cup (CASE b \in {"a2", "x2"} -> {"a1"} [] b = "b2" -> {"b1"}
                     [] b \in {"b3", "c3"} -> {"b1", "b2"} [] OTHER -> {})]
MCHeight == [b \in Blocks |-> Cardinality(MCAncestors[b]) - 1]
MCWork == [b \in Blocks |->
    CASE b = "g" -> 0 [] b \in {"a1", "b1"} -> 1 [] b \in {"a2", "b2", "x2"} -> 2 [] OTHER -> 3]
MCStake == Blocks \ {"g", "c3"}
MCBad == {"x2"} \cap Blocks
MCRefused == {"b2"} \cap Blocks

MCKindOf(inbound, client, obsolete) ==
    [fInbound |-> inbound, fWhitelisted |-> FALSE, fOneShot |-> FALSE, fClient |-> client, obsolete |-> obsolete]
MCKind == [p \in Peers |->
    CASE p \in {"out", "out2"} -> MCKindOf(FALSE, FALSE, FALSE)
      [] p = "in" -> MCKindOf(TRUE, FALSE, FALSE)
      [] p = "spv" -> MCKindOf(TRUE, TRUE, FALSE)
      [] OTHER -> MCKindOf(FALSE, FALSE, TRUE)]
MCOffers == [p \in Peers |->
    CASE p = "out2" -> {"c3"} [] p = "out" -> {"b3", "x2"} \cap Blocks [] OTHER -> {"a1"}]

=============================================================================
