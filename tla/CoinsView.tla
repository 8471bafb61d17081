------------------------------ MODULE CoinsView ------------------------------
(***************************************************************************)
(* What the coin database and its caches promise (the interface CCoinsView *)
(* of coins.h): a map from transaction ids to coins with the hash of the   *)
(* block it describes.  One unit of work at a time changes a private copy, *)
(* which then replaces the map or is forgotten.  The map is saved now and  *)
(* then, and a crash brings back what was saved last.                      *)
(***************************************************************************)
CONSTANTS Txids,
          Coins,     \* what can be known of a transaction's outputs
          Pruned,    \* the member of Coins without unspent outputs
          Hashes     \* block hashes

VARIABLES utxo, best,           \* the current map and its block
          work, workBest,       \* the private copy
          open,                 \* is there one
          saved, savedBest      \* what is on disk

Map == [Txids -> Coins]

Init ==
    /\ utxo \in Map /\ best \in Hashes
    /\ work = utxo /\ workBest = best /\ open = FALSE
    /\ saved = utxo /\ savedBest = best

Begin ==
    /\ ~open /\ open' = TRUE
    /\ work' = utxo /\ workBest' = best
    /\ UNCHANGED <<utxo, best, saved, savedBest>>

Write(x, c) ==
    /\ open
    /\ work' = [work EXCEPT ![x] = c]
    /\ UNCHANGED <<utxo, best, workBest, open, saved, savedBest>>

SetBestBlock(h) ==
    /\ open
    /\ workBest' = h
    /\ UNCHANGED <<utxo, best, work, open, saved, savedBest>>

Commit ==
    /\ open /\ open' = FALSE
    /\ utxo' = work /\ best' = workBest
    /\ UNCHANGED <<work, workBest, saved, savedBest>>

Abandon ==
    /\ open /\ open' = FALSE
    /\ work' = utxo /\ workBest' = best
    /\ UNCHANGED <<utxo, best, saved, savedBest>>

Save ==
    /\ ~open
    /\ saved' = utxo /\ savedBest' = best
    /\ UNCHANGED <<utxo, best, work, workBest, open>>

Crash ==
    /\ open' = FALSE
    /\ utxo' = saved /\ best' = savedBest
    /\ work' = saved /\ workBest' = savedBest
    /\ UNCHANGED <<saved, savedBest>>

Next ==
    \/ Begin \/ Commit \/ Abandon \/ Save \/ Crash
    \/ \E x \in Txids, c \in Coins : Write(x, c)
    \/ \E h \in Hashes : SetBestBlock(h)

vars == <<utxo, best, work, workBest, open, saved, savedBest>>

Spec == Init /\ [][Next]_vars

=============================================================================
