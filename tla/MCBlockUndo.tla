---------------------------- MODULE MCBlockUndo ----------------------------
(* Transaction p has two outputs.  They are spent at once by n1 (and n1 by   *)
(* n2 of the same block), or one by n3 and the other, with n3, by n4.        *)
EXTENDS BlockUndo

MCTxids == {"c1", "c2", "c3", "c4", "c5", "p", "n1", "n2", "n3", "n4"}
MCInputs == [x \in MCTxids |->
    CASE x = "p"  -> <<<<"c1", 0>>>>
      [] x = "n1" -> <<<<"p", 0>>, <<"p", 1>>>>
      [] x = "n2" -> <<<<"n1", 0>>>>
      [] x = "n3" -> <<<<"p", 1>>>>
      [] x = "n4" -> <<<<"p", 0>>, <<"n3", 0>>>>
      [] OTHER -> <<>>]
MCOutputs == [x \in MCTxids |-> IF x \in {"p", "n4"} THEN {0, 1} ELSE {0}]
MCScriptSigHeight == [x \in MCTxids |->
    CASE x = "c1" -> 1 [] x = "c2" -> 2 [] x = "c3" -> 3 [] x = "c4" -> 4 [] x = "c5" -> 5 [] OTHER -> 0]
MCTails == {<<>>, <<"p">>, <<"p", "n3">>, <<"n1", "n2">>, <<"n3">>, <<"n4">>, <<"n1">>}
MCBlocks == {<<c>> \o t : c \in {"c1", "c2", "c3", "c4", "c5"}, t \in MCTails}

\* Proof of work only: p is a payment.  Proof of stake: p is a coinstake.
MCKind(stake) == [x \in MCTxids |->
    CASE x \in {"c1", "c2", "c3", "c4", "c5"} -> "coinbase" [] x \in stake -> "coinstake" [] OTHER -> "normal"]
MCKindPow == MCKind({})
MCKindStake == MCKind({"p"})

=============================================================================
