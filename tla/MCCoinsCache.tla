---------------------------- MODULE MCCoinsCache ----------------------------
(* Two transactions, three values of their coins (one of them spent) and   *)
(* two blocks.                                                             *)
EXTENDS CoinsCache, TLC

CONSTANTS x1, x2, spent, one, two, h1, h2

MCTxids == {x1, x2}
MCCoins == {spent, one, two}
MCHashes == {h1, h2}

=============================================================================
