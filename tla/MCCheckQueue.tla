---------------------------- MODULE MCCheckQueue ----------------------------
(* Two workers and a master over four checks, one of which fails.         *)
EXTENDS CheckQueue, TLC

CONSTANTS w1, w2, c1, c2, c3, c4

MCWorkers == {w1, w2}
MCChecks == {c1, c2, c3, c4}
MCBad == {c4}

=============================================================================
