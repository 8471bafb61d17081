----------------------------- MODULE MCMempool -----------------------------
(* The payment p has two outputs.  n1 spends both, and n2 spends n1; or n3   *)
(* spends one of them, n4 the other and n3, and the bad script x n3 too.     *)
(* k spends a second coinbase.                                               *)
EXTENDS Mempool

MCTxids == {"c1", "c2", "c3", "c4", "c5", "p", "k", "n1", "n2", "n3", "n4", "x"}
MCKind == [t \in MCTxids |-> IF t \in {"c1", "c2", "c3", "c4", "c5"} THEN "coinbase" ELSE "normal"]
MCInputs == [t \in MCTxids |->
    CASE t = "p"  -> <<<<"c1", 0>>>>
      [] t = "k"  -> <<<<"c2", 0>>>>
      [] t = "n1" -> <<<<"p", 0>>, <<"p", 1>>>>
      [] t = "n2" -> <<<<"n1", 0>>>>
      [] t = "n3" -> <<<<"p", 1>>>>
      [] t = "n4" -> <<<<"p", 0>>, <<"n3", 0>>>>
      [] t = "x"  -> <<<<"n3", 0>>>>
      [] OTHER -> <<>>]
MCOutputs == [t \in MCTxids |-> IF t \in {"p", "n4"} THEN {0, 1} ELSE {0}]
MCScriptSigHeight == [t \in MCTxids |->
    CASE t = "c1" -> 1 [] t = "c2" -> 2 [] t = "c3" -> 3 [] t = "c4" -> 4 [] t = "c5" -> 5 [] OTHER -> 0]
MCBlocks == {<<"c1">>, <<"c2">>, <<"c3">>, <<"c3", "p">>, <<"c3", "p", "n3">>,
             <<"c4">>, <<"c4", "k", "p", "n1">>, <<"c4", "n1", "n2">>, <<"c4", "n3">>, <<"c4", "n4">>,
             <<"c5">>, <<"c5", "n2">>, <<"c5", "n3", "n4">>}

=============================================================================
