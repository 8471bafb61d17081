------------------------------ MODULE Mempool ------------------------------
(***************************************************************************)
(* The memory pool (txmempool.cpp) and the orphan transactions (main.cpp), *)
(* over the active chain and the unspent outputs of BlockUndo.             *)
(*                                                                         *)
(* Transactions come from peers, from the wallet and from blocks that are  *)
(* taken off the chain; they leave the pool when a block confirms them or  *)
(* a conflicting one.  cs_main is held by one thread at a time.  The loops *)
(* that run under it (over the orphans, over the transactions of a block)  *)
(* are steps of the variable job, and nobody else acts before job is idle. *)
(*                                                                         *)
(* Fees, standardness, finality and transaction locks are one verdict,     *)
(* policy; a transaction with a bad script is in no block.  Left out:      *)
(* zerocoin spends, priorities, the totals of sizes and updates, relaying  *)
(* and the misbehaviour scores of peers.                                   *)
(***************************************************************************)
EXTENDS BlockUndo, FiniteSetsExt

CONSTANTS Peers,
          BadScript,     \* transactions whose scripts fail
          Doubtful,      \* transactions that policy may refuse
          nMaxOrphanTx,  \* -maxorphantx
          None

ASSUME PoolAssumption ==
    /\ BadScript \cup Doubtful \subseteq Txids
    /\ \A b \in Blocks : Range(b) \cap BadScript = {}
    /\ None \notin Txids \cup Peers
    /\ nMaxOrphanTx \in Nat

VARIABLES mapTx,                        \* the transactions of the pool
          mapNextTx,                    \* of an output: None or the pool's transaction that spends it
          mapOrphanTransactions,        \* of a transaction: None or the peer it came from
          mapOrphanTransactionsByPrev,  \* the orphans that spend from a transaction
          job                           \* the loop that the holder of cs_main is in

poolVars == <<mapTx, mapNextTx>>
orphanVars == <<mapOrphanTransactions, mapOrphanTransactionsByPrev>>
allVars == <<vars, poolVars, orphanVars, job>>

Loose == {x \in Txids : Kind[x] = "normal"}
Outpoints == {<<x, n>> : x \in Txids, n \in UNION {Outputs[y] : y \in Txids}}
Vin(x) == Range(Inputs[x])
Prevs(x) == {in[1] : in \in Vin(x)}
Orphans == {x \in Txids : mapOrphanTransactions[x] # None}
SpendHeight == Len(chain) + 1

Idle == [op |-> "idle"]
BlockJob(op, b) == [op |-> op, vtx |-> b]
OrphanJob(x) == [op |-> "orphans", vWorkQueue |-> <<x>>, i |-> 1,
                 todo |-> mapOrphanTransactionsByPrev[x], vEraseQueue |-> {}, setMisbehaving |-> {}]

PoolInit ==
    /\ Init
    /\ mapTx = {}
    /\ mapNextTx = [o \in Outpoints |-> None]
    /\ mapOrphanTransactions = [x \in Txids |-> None]
    /\ mapOrphanTransactionsByPrev = [x \in Txids |-> {}]
    /\ job = Idle

-----------------------------------------------------------------------------
(* The pool.                                                               *)

\* CCoinsViewMemPool::HaveCoins.
HaveCoins(x) == x \in mapTx \/ utxo[x] # Pruned

\* HaveInputs on the view of the pool over pcoinsTip.
Available(in) == in[2] \in (IF in[1] \in mapTx THEN Outputs[in[1]] ELSE utxo[in[1]].outs)

\* The maturity test of CheckInputs; the coins of the pool are no coinbase.
InputsMature(x) == \A p \in Prevs(x) \ mapTx : Mature(utxo[p], SpendHeight)

Policies(x) == IF x \in Doubtful THEN {"pass", "nonstandard", "fee"} ELSE {"pass"}

\* AcceptToMemoryPool: the first test that decides.  "missing" is
\* pfMissingInputs, "misbehaved" a state with nDoS > 0.
Verdict(x, policy) ==
    IF policy = "nonstandard" \/ x \in mapTx THEN "refused"
    ELSE IF \E in \in Vin(x) : mapNextTx[in] # None THEN "refused"
    ELSE IF HaveCoins(x) THEN "refused"
    ELSE IF \E p \in Prevs(x) : ~HaveCoins(p) THEN "missing"
    ELSE IF \E in \in Vin(x) : ~Available(in) THEN "refused"
    ELSE IF policy = "fee" \/ ~InputsMature(x) THEN "refused"
    ELSE IF x \in BadScript THEN "misbehaved"
    ELSE "accepted"

\* addUnchecked.
AddUnchecked(x) ==
    /\ mapTx' = mapTx \cup {x}
    /\ mapNextTx' = [o \in Outpoints |-> IF o \in Vin(x) THEN x ELSE mapNextTx[o]]

\* The pool's transactions that spend an output of x.
Children(x) == {mapNextTx[<<x, n>>] : n \in Outputs[x]} \cap mapTx

\* What the queue txToRemove of a recursive remove reaches from roots.
Reached(roots) ==
    {d \in mapTx : \A D \in SUBSET mapTx :
        roots \subseteq D /\ (\A x \in D : Children(x) \subseteq D) => d \in D}

\* Mutant: a transaction that is not in the pool has no children there.
RemovalOfOnlyPool(x) == Reached({x} \cap mapTx)

\* remove with fRecursive: x and what depends on it, and the latter also when
\* x itself is not in the pool.
RemovalOf(x) == Reached(({x} \cap mapTx) \cup (IF x \in mapTx THEN {} ELSE Children(x)))

\* The body of the loop in remove.
Drop(gone) ==
    /\ mapTx' = mapTx \ gone
    /\ mapNextTx' = [o \in Outpoints |-> IF \E x \in gone : o \in Vin(x) THEN None ELSE mapNextTx[o]]

-----------------------------------------------------------------------------
(* The orphan maps.                                                        *)

\* EraseOrphanTx of every orphan of gone, on each map.
OrphansWithout(orphans, gone) == [x \in Txids |-> IF x \in gone THEN None ELSE orphans[x]]

\* Mutant: only the first input is searched.
ByPrevWithoutFirst(byPrev, gone) == [p \in Txids |-> byPrev[p] \ {x \in gone : p = Inputs[x][1][1]}]

ByPrevWithout(byPrev, gone) == [p \in Txids |-> byPrev[p] \ {x \in gone : p \in Prevs(x)}]

EraseOrphans(gone) ==
    /\ mapOrphanTransactions' = OrphansWithout(mapOrphanTransactions, gone)
    /\ mapOrphanTransactionsByPrev' = ByPrevWithout(mapOrphanTransactionsByPrev, gone \cap Orphans)

\* AddOrphanTx, then LimitOrphanTxSize, which evicts at random.
AddOrphanTx(x, peer) ==
    LET added == [mapOrphanTransactions EXCEPT ![x] = IF @ = None THEN peer ELSE @]
        byPrev == [p \in Txids |-> IF p \in Prevs(x) THEN mapOrphanTransactionsByPrev[p] \cup {x}
                                   ELSE mapOrphanTransactionsByPrev[p]]
        over == Cardinality(Orphans \cup {x}) - nMaxOrphanTx
    IN  \E evicted \in SUBSET (Orphans \cup {x}) :
           /\ Cardinality(evicted) = (IF over > 0 THEN over ELSE 0)
           /\ mapOrphanTransactions' = OrphansWithout(added, evicted)
           /\ mapOrphanTransactionsByPrev' = ByPrevWithout(byPrev, evicted)

-----------------------------------------------------------------------------
(* The handler of "tx".                                                    *)

\* The transaction is accepted, or stored as an orphan; a refused one changes
\* nothing here.
Tx(peer, x) ==
    /\ job = Idle
    /\ \E policy \in Policies(x) :
        \/ /\ Verdict(x, policy) = "accepted"
           /\ AddUnchecked(x)
           /\ job' = OrphanJob(x)
           /\ UNCHANGED orphanVars
        \/ /\ Verdict(x, policy) = "missing"
           /\ AddOrphanTx(x, peer)
           /\ UNCHANGED <<poolVars, job>>
    /\ UNCHANGED vars

\* Mutant: an orphan that was accepted is not itself put into the work queue.
AcceptedOrphanAlone(x) ==
    [job EXCEPT !.todo = @ \ {x}, !.vEraseQueue = @ \cup {x}]

AcceptedOrphan(x) ==
    [job EXCEPT !.todo = @ \ {x}, !.vEraseQueue = @ \cup {x}, !.vWorkQueue = Append(@, x)]

\* One round of the loop over the orphans that depend on vWorkQueue[i].
TryOrphan(x) ==
    /\ job.op = "orphans"
    /\ x \in job.todo
    /\ IF mapOrphanTransactions[x] \in job.setMisbehaving
       THEN job' = [job EXCEPT !.todo = @ \ {x}] /\ UNCHANGED poolVars
       ELSE \E policy \in Policies(x) :
            LET v == Verdict(x, policy)
            IN  IF v = "accepted"
                THEN AddUnchecked(x) /\ job' = AcceptedOrphan(x)
                ELSE /\ job' = [job EXCEPT
                           !.todo = @ \ {x},
                           !.vEraseQueue = IF v = "missing" THEN @ ELSE @ \cup {x},
                           !.setMisbehaving = IF v = "misbehaved" THEN @ \cup {mapOrphanTransactions[x]} ELSE @]
                     /\ UNCHANGED poolVars
    /\ UNCHANGED <<vars, orphanVars>>

\* The next transaction of vWorkQueue.
NextWork ==
    /\ job.op = "orphans"
    /\ job.todo = {} /\ job.i < Len(job.vWorkQueue)
    /\ job' = [job EXCEPT !.i = @ + 1, !.todo = mapOrphanTransactionsByPrev[job.vWorkQueue[job.i + 1]]]
    /\ UNCHANGED <<vars, poolVars, orphanVars>>

LoopDone == job.op = "orphans" /\ job.todo = {} /\ job.i = Len(job.vWorkQueue)

\* The loop over vEraseQueue.
EraseProcessed ==
    /\ LoopDone
    /\ EraseOrphans(job.vEraseQueue)
    /\ job' = Idle
    /\ UNCHANGED <<vars, poolVars>>

\* A transaction of the wallet, sendrawtransaction or a lock request: accepted
\* without looking at the orphans.
LocalTx(x) ==
    /\ job = Idle
    /\ \E policy \in Policies(x) : Verdict(x, policy) = "accepted"
    /\ AddUnchecked(x)
    /\ UNCHANGED <<vars, orphanVars, job>>

\* FinalizeNode: EraseOrphansFor.
PeerGone(peer) ==
    /\ job = Idle
    /\ \E x \in Txids : mapOrphanTransactions[x] = peer
    /\ EraseOrphans({x \in Txids : mapOrphanTransactions[x] = peer})
    /\ UNCHANGED <<vars, poolVars, job>>

-----------------------------------------------------------------------------
(* Blocks.                                                                 *)

\* ConnectTip up to removeForBlock.
ConnectTip(b) ==
    /\ job = Idle
    /\ ConnectBlock(b)
    /\ job' = BlockJob("connect", b)
    /\ UNCHANGED <<poolVars, orphanVars>>

\* Mutant: a confirmed transaction is removed with what depends on it.
ConfirmedRecursive(x) ==
    RemovalOf(x) \cup UNION {RemovalOf(mapNextTx[in]) : in \in {o \in Vin(x) : mapNextTx[o] \notin {None, x}}}

\* removeForBlock of one transaction: x alone, and its conflicts with all that
\* depends on them.
Confirmed(x) ==
    ({x} \cap mapTx)
        \cup UNION {RemovalOf(mapNextTx[in]) : in \in {o \in Vin(x) : mapNextTx[o] \notin {None, x}}}

RemoveForBlock ==
    /\ job.op = "connect"
    /\ job.vtx # <<>>
    /\ Drop(Confirmed(Head(job.vtx)))
    /\ job' = IF Len(job.vtx) = 1 THEN Idle ELSE BlockJob("connect", Tail(job.vtx))
    /\ UNCHANGED <<vars, orphanVars>>

\* DisconnectTip up to the resurrection of its transactions.
DisconnectTip ==
    /\ job = Idle
    /\ DisconnectBlock
    /\ job' = BlockJob("disconnect", Last(chain))
    /\ UNCHANGED <<poolVars, orphanVars>>

\* A transaction of the block goes back to the pool, or what depends on it
\* leaves the pool.
Resurrect ==
    /\ job.op = "disconnect"
    /\ job.vtx # <<>>
    /\ LET x == Head(job.vtx)
       IN  \E policy \in Policies(x) :
              IF Kind[x] = "normal" /\ Verdict(x, policy) = "accepted"
              THEN AddUnchecked(x)
              ELSE Drop(RemovalOf(x))
    /\ job' = BlockJob("disconnect", Tail(job.vtx))
    /\ UNCHANGED <<vars, orphanVars>>

\* removeCoinbaseSpends at the height of the block that was taken off.  The
\* cache was just flushed: it holds no spent coins.
ImmatureSpends ==
    {x \in mapTx : \E p \in Prevs(x) \ mapTx : utxo[p] = Pruned \/ ~Mature(utxo[p], SpendHeight)}

RemoveCoinbaseSpends ==
    /\ job.op = "disconnect"
    /\ job.vtx = <<>>
    /\ Drop(Reached(ImmatureSpends))
    /\ job' = Idle
    /\ UNCHANGED <<vars, orphanVars>>

-----------------------------------------------------------------------------
PoolNext ==
    \/ \E x \in Loose : (\E peer \in Peers : Tx(peer, x)) \/ TryOrphan(x) \/ LocalTx(x)
    \/ NextWork
    \/ EraseProcessed
    \/ \E peer \in Peers : PeerGone(peer)
    \/ \E b \in Blocks : ConnectTip(b)
    \/ RemoveForBlock
    \/ DisconnectTip
    \/ Resurrect
    \/ RemoveCoinbaseSpends

PoolSpec == PoolInit /\ [][PoolNext]_allVars

-----------------------------------------------------------------------------
(* "every mempool transaction's inputs refer to available coins, or other  *)
(* mempool tx's" (txmempool.cpp:558), and CheckInputs would pass (their    *)
(* maturity).                                                              *)
InputsAvailable ==
    \A x \in mapTx : InputsMature(x) /\ \A in \in Vin(x) : Available(in)

(* mapNextTx marks every input of the pool, for the one transaction that   *)
(* spends it, and nothing else.                                            *)
NextTxExact ==
    \A o \in Outpoints : {x \in mapTx : o \in Vin(x)} = {mapNextTx[o]} \ {None}

(* The assertions of CTxMemPool::check, which runs whenever a transaction  *)
(* was accepted or a block connected or disconnected, and that of          *)
(* removeCoinbaseSpends, that no parent is missing by then: through every  *)
(* order of unconfirmed chains, conflicts, reorganisations and refusals.   *)
PoolCheck ==
    /\ NextTxExact
    /\ job.op \in {"idle", "orphans"} => InputsAvailable
    /\ job.op = "disconnect" /\ job.vtx = <<>> => \A x \in mapTx : \A p \in Prevs(x) : HaveCoins(p)

(* A transaction leaves the pool only when the chain has it or when it     *)
(* could not get in any more: remove never takes one that can still be     *)
(* mined, whatever it depends on (txmempool.cpp:428).                      *)
RemovalJustified ==
    [][\A x \in mapTx \ mapTx' :
         \/ CreatedAt(x)' # {}
         \/ (\E in \in Vin(x) : ~Available(in))' \/ ~InputsMature(x)']_allVars

(* mapOrphanTransactionsByPrev names exactly the stored orphans, for each  *)
(* transaction they spend from: the loop at main.cpp:5509 looks them up    *)
(* with operator[], which would store an empty one.  Their number stays    *)
(* within -maxorphantx.                                                    *)
OrphanMapsAgree ==
    /\ \A p \in Txids : mapOrphanTransactionsByPrev[p] = {x \in Orphans : p \in Prevs(x)}
    /\ Cardinality(Orphans) <= nMaxOrphanTx

(* "Recursively process any orphan transactions that depended on this one" *)
(* (main.cpp:5499): when the loop ends, an orphan that depends on anything *)
(* it accepted still misses another input, is about to be erased, or came  *)
(* from a peer that was just punished.                                     *)
OrphansResolved ==
    LoopDone =>
        \A x \in Orphans \ job.vEraseQueue :
            Prevs(x) \cap Range(job.vWorkQueue) # {} =>
                \/ mapOrphanTransactions[x] \in job.setMisbehaving
                \/ \E p \in Prevs(x) : ~HaveCoins(p)

=============================================================================
