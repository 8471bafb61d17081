--------------------------- MODULE MempoolProofs ---------------------------
(* Proofs about BlockUndo and Mempool, for any transactions, blocks and    *)
(* peers.  The two maps of orphans agree and stay within their bound, and  *)
(* the loop over the orphans leaves none behind that it should have taken. *)
(* DisconnectBlock undoes ConnectBlock, so that the coins always are what  *)
(* the active chain left unspent.  On top of that CTxMemPool::check never  *)
(* fails, and no transaction leaves the pool without a reason.             *)
EXTENDS Mempool, FiniteSetTheorems, NaturalsInduction, WellFoundedInduction, TLAPS

(* What the steps of the pool do to the orphan maps, the coins and the job.*)
OrphanSteps ==
    \/ \E x \in Loose, peer \in Peers : AddOrphanTx(x, peer) /\ UNCHANGED job
    \/ \E gone : EraseOrphans(gone) /\ (job' = job \/ job' = Idle)

LEMMA VerdictFacts ==
    ASSUME NEW x, NEW policy
    PROVE  /\ Verdict(x, policy) = "accepted" =>
                 x \notin mapTx /\ \A in \in Vin(x) : mapNextTx[in] = None
           /\ Verdict(x, policy) = "missing" => \E p \in Prevs(x) : ~HaveCoins(p)
  BY DEF Verdict

LEMMA OrphanMapSteps ==
    ASSUME [PoolNext]_allVars
    PROVE  OrphanSteps \/ UNCHANGED orphanVars
<1>1. ASSUME NEW x \in Loose, NEW peer \in Peers, Tx(peer, x) PROVE OrphanSteps \/ UNCHANGED orphanVars
  BY <1>1 DEF Tx, OrphanSteps
<1>2. ASSUME NEW x \in Loose, TryOrphan(x) \/ LocalTx(x) PROVE UNCHANGED orphanVars
  BY <1>2 DEF TryOrphan, LocalTx
<1>3. CASE EraseProcessed
  BY <1>3 DEF EraseProcessed, OrphanSteps
<1>4. ASSUME NEW peer \in Peers, PeerGone(peer) PROVE OrphanSteps
  BY <1>4 DEF PeerGone, OrphanSteps
<1>5. ASSUME NEW b \in Blocks, ConnectTip(b) PROVE UNCHANGED orphanVars
  BY <1>5 DEF ConnectTip
<1>6. CASE NextWork \/ RemoveForBlock \/ DisconnectTip \/ Resurrect \/ RemoveCoinbaseSpends
  BY <1>6 DEF NextWork, RemoveForBlock, DisconnectTip, Resurrect, RemoveCoinbaseSpends
<1>7. CASE UNCHANGED allVars
  BY <1>7 DEF allVars
<1>8. QED
  BY <1>1, <1>2, <1>3, <1>4, <1>5, <1>6, <1>7 DEF PoolNext

(* The orphans are finitely many: their number means something.            *)
OrphanInv ==
    /\ mapOrphanTransactions \in [Txids -> Peers \cup {None}]
    /\ IsFiniteSet(Orphans)
    /\ OrphanMapsAgree

LEMMA EraseOrphansInv ==
    ASSUME OrphanInv, NEW gone, EraseOrphans(gone)
    PROVE  OrphanInv'
<1>1. mapOrphanTransactions' \in [Txids -> Peers \cup {None}]
  BY DEF OrphanInv, EraseOrphans, OrphansWithout
<1>2. Orphans' = Orphans \ gone
  BY DEF OrphanInv, EraseOrphans, OrphansWithout, Orphans
<1>3. IsFiniteSet(Orphans') /\ Cardinality(Orphans') <= Cardinality(Orphans)
  BY <1>2, FS_Subset DEF OrphanInv
<1>4. \A p \in Txids : mapOrphanTransactionsByPrev'[p] = {x \in Orphans' : p \in Prevs(x)}
  BY <1>2 DEF OrphanInv, OrphanMapsAgree, EraseOrphans, ByPrevWithout
<1>5. Cardinality(Orphans') <= nMaxOrphanTx
  <2>1. /\ Cardinality(Orphans) \in Nat /\ Cardinality(Orphans') \in Nat /\ nMaxOrphanTx \in Nat
        /\ Cardinality(Orphans) <= nMaxOrphanTx
    BY <1>3, FS_CardinalityType, PoolAssumption DEF OrphanInv, OrphanMapsAgree
  <2>2. QED
    BY <1>3, <2>1
<1>6. QED
  BY <1>1, <1>3, <1>4, <1>5 DEF OrphanInv, OrphanMapsAgree

(* AddOrphanTx and LimitOrphanTxSize together keep the bound, whichever    *)
(* orphans are evicted, the new one included.                              *)
LEMMA AddOrphanInv ==
    ASSUME OrphanInv, NEW x \in Txids, NEW peer \in Peers, AddOrphanTx(x, peer)
    PROVE  OrphanInv'
<1> DEFINE all == Orphans \cup {x}
           over == Cardinality(all) - nMaxOrphanTx
           added == [mapOrphanTransactions EXCEPT ![x] = IF @ = None THEN peer ELSE @]
           byPrev == [p \in Txids |-> IF p \in Prevs(x) THEN mapOrphanTransactionsByPrev[p] \cup {x}
                                      ELSE mapOrphanTransactionsByPrev[p]]
<1>1. PICK evicted \in SUBSET all :
           /\ Cardinality(evicted) = (IF over > 0 THEN over ELSE 0)
           /\ mapOrphanTransactions' = OrphansWithout(added, evicted)
           /\ mapOrphanTransactionsByPrev' = ByPrevWithout(byPrev, evicted)
  BY DEF AddOrphanTx
<1>2. peer # None
  BY PoolAssumption
<1>3. /\ added \in [Txids -> Peers \cup {None}]
      /\ \A y \in Txids : added[y] # None <=> y \in all
  BY <1>2 DEF OrphanInv, Orphans
<1>4. \A p \in Txids : byPrev[p] = {y \in all : p \in Prevs(y)}
  BY DEF OrphanInv, OrphanMapsAgree
<1>5. mapOrphanTransactions' \in [Txids -> Peers \cup {None}]
  BY <1>1, <1>3 DEF OrphansWithout
<1>6. Orphans' = all \ evicted
  <2>1. all \subseteq Txids
    BY DEF Orphans
  <2>2. QED
    BY <1>1, <1>3, <2>1 DEF OrphansWithout, Orphans
<1>7. \A p \in Txids : mapOrphanTransactionsByPrev'[p] = {y \in Orphans' : p \in Prevs(y)}
  BY <1>1, <1>4, <1>6 DEF ByPrevWithout
<1>8. IsFiniteSet(Orphans') /\ Cardinality(Orphans') <= nMaxOrphanTx
  <2>1. IsFiniteSet(all)
    BY FS_AddElement DEF OrphanInv
  <2>2. /\ IsFiniteSet(evicted) /\ evicted = all \cap evicted
        /\ IsFiniteSet(all \ evicted)
        /\ Cardinality(all \ evicted) = Cardinality(all) - Cardinality(all \cap evicted)
    BY <1>1, <2>1, FS_Subset, FS_Difference
  <2>3. Cardinality(all) \in Nat /\ nMaxOrphanTx \in Nat
    BY <2>1, FS_CardinalityType, PoolAssumption
  <2>4. Cardinality(Orphans') = Cardinality(all) - Cardinality(evicted)
    BY <1>6, <2>2
  <2> HIDE DEF all
  <2>5. QED
    BY <1>1, <1>6, <2>2, <2>3, <2>4
<1>9. QED
  BY <1>5, <1>7, <1>8 DEF OrphanInv, OrphanMapsAgree

LEMMA OrphanInvInit == PoolInit => OrphanInv
<1> SUFFICES ASSUME PoolInit PROVE OrphanInv
  OBVIOUS
<1>1. Orphans = {}
  BY DEF PoolInit, Orphans
<1>2. IsFiniteSet(Orphans) /\ Cardinality(Orphans) = 0
  BY <1>1, FS_EmptySet
<1>3. QED
  BY <1>1, <1>2, PoolAssumption DEF PoolInit, OrphanInv, OrphanMapsAgree

LEMMA OrphanInvNext == OrphanInv /\ [PoolNext]_allVars => OrphanInv'
<1> SUFFICES ASSUME OrphanInv, [PoolNext]_allVars PROVE OrphanInv'
  OBVIOUS
<1>1. CASE UNCHANGED orphanVars
  BY <1>1 DEF orphanVars, OrphanInv, Orphans, OrphanMapsAgree
<1>2. CASE OrphanSteps
  BY <1>2, AddOrphanInv, EraseOrphansInv DEF OrphanSteps, Loose
<1>3. QED
  BY <1>1, <1>2, OrphanMapSteps

LEMMA OrphanInvHolds == PoolSpec => []OrphanInv
  BY OrphanInvInit, OrphanInvNext, PTL DEF PoolSpec

(* mapOrphanTransactionsByPrev names exactly the stored orphans and their  *)
(* number stays within -maxorphantx, through AddOrphanTx, random eviction, *)
(* EraseOrphansFor and the erasing of those that were processed.           *)
THEOREM OrphanMapsAlwaysAgree == PoolSpec => []OrphanMapsAgree
  BY OrphanInvHolds, PTL DEF OrphanInv

-----------------------------------------------------------------------------
(* The loop over the orphans.                                              *)

OrphanJobs ==
    [op : {"orphans"}, vWorkQueue : Seq(Txids), i : Nat, todo : SUBSET Txids,
     vEraseQueue : SUBSET Txids, setMisbehaving : SUBSET (Peers \cup {None})]

(* Why the loop may leave x alone for now: its turn is still to come, its  *)
(* peer was punished, or an input is missing.                              *)
Pending(x) ==
    \/ x \in job.todo
    \/ mapOrphanTransactions[x] \in job.setMisbehaving
    \/ \E p \in Prevs(x) : ~HaveCoins(p)
    \/ \E j \in job.i + 1 .. Len(job.vWorkQueue) : job.vWorkQueue[j] \in Prevs(x)

(* OrphansResolved speaks of the end of the loop only.  On the way, every  *)
(* orphan that depends on a transaction the loop has reached is pending: a *)
(* missing input that is accepted later goes to the end of vWorkQueue, so  *)
(* the orphan gets another turn.                                           *)
LoopInv ==
    job.op = "orphans" =>
        /\ job \in OrphanJobs
        /\ job.i \in 1 .. Len(job.vWorkQueue)
        /\ \A x \in Orphans \ job.vEraseQueue :
              (\E k \in 1 .. job.i : job.vWorkQueue[k] \in Prevs(x)) => Pending(x)

(* The transaction that was accepted starts the loop.                      *)
LEMMA StartLoop ==
    ASSUME OrphanInv, NEW x \in Txids, job' = OrphanJob(x), UNCHANGED orphanVars
    PROVE  LoopInv'
<1>1. mapOrphanTransactionsByPrev[x] = {y \in Orphans : x \in Prevs(y)}
  BY DEF OrphanInv, OrphanMapsAgree
<1>2. Orphans' = Orphans /\ Orphans \subseteq Txids
  BY DEF orphanVars, Orphans
<1>3. /\ <<x>> \in Seq(Txids) /\ Len(<<x>>) = 1 /\ <<x>>[1] = x
      /\ mapOrphanTransactionsByPrev[x] \in SUBSET Txids
  BY <1>1, <1>2
<1>4. /\ job'.vWorkQueue = <<x>> /\ job'.i = 1 /\ job'.todo = mapOrphanTransactionsByPrev[x]
      /\ job' \in OrphanJobs
  BY <1>3 DEF OrphanJob, OrphanJobs
<1>5. job'.i \in 1 .. Len(job'.vWorkQueue)
  BY <1>3, <1>4
<1>6. ASSUME NEW y \in Orphans', NEW k \in 1 .. job'.i, job'.vWorkQueue[k] \in Prevs(y)
      PROVE  Pending(y)'
  BY <1>1, <1>2, <1>3, <1>4, <1>6 DEF Pending
<1>7. QED
  BY <1>4, <1>5, <1>6 DEF LoopInv

(* One orphan is tried.                                                    *)
LEMMA TryOrphanLoop ==
    ASSUME OrphanInv, LoopInv, NEW x \in Loose, TryOrphan(x)
    PROVE  LoopInv' /\ job' \in OrphanJobs
<1>1. /\ job.op = "orphans" /\ x \in job.todo /\ x \in Txids
      /\ utxo' = utxo /\ mapOrphanTransactions' = mapOrphanTransactions
  BY DEF TryOrphan, vars, orphanVars, Loose
<1>2. /\ job \in OrphanJobs
      /\ job.i \in 1 .. Len(job.vWorkQueue)
      /\ \A y \in Orphans \ job.vEraseQueue :
            (\E k \in 1 .. job.i : job.vWorkQueue[k] \in Prevs(y)) => Pending(y)
  BY <1>1 DEF LoopInv
<1>3. /\ job.todo \in SUBSET Txids /\ job.vEraseQueue \in SUBSET Txids
      /\ job.setMisbehaving \in SUBSET (Peers \cup {None})
      /\ job.vWorkQueue \in Seq(Txids) /\ job.i \in Nat /\ Len(job.vWorkQueue) \in Nat
      /\ mapOrphanTransactions[x] \in Peers \cup {None}
  BY <1>1, <1>2 DEF OrphanJobs, OrphanInv
<1>4. Orphans' = Orphans
  BY <1>1 DEF Orphans
<1> DEFINE T == job.todo \ {x}
<1>5. T \in SUBSET Txids
  BY <1>3
<1>6. CASE mapOrphanTransactions[x] \in job.setMisbehaving
  <2>1. job' = [job EXCEPT !.todo = T] /\ mapTx' = mapTx
    BY <1>6 DEF TryOrphan, poolVars
  <2>2. job' \in OrphanJobs
    BY <1>2, <1>5, <2>1 DEF OrphanJobs
  <2>3. /\ job'.vWorkQueue = job.vWorkQueue /\ job'.i = job.i /\ job'.todo = T
        /\ job'.vEraseQueue = job.vEraseQueue /\ job'.setMisbehaving = job.setMisbehaving
    BY <1>2, <1>5, <2>1 DEF OrphanJobs
  <2>4. \A p : HaveCoins(p)' <=> HaveCoins(p)
    BY <1>1, <2>1 DEF HaveCoins
  <2>5. \A y \in Txids : Pending(y) => Pending(y)'
    BY <1>1, <1>6, <2>3, <2>4 DEF Pending
  <2>6. Orphans \subseteq Txids
    BY DEF Orphans
  <2>7. QED
    BY <1>2, <1>4, <2>2, <2>3, <2>5, <2>6 DEF LoopInv
<1>7. ASSUME mapOrphanTransactions[x] \notin job.setMisbehaving,
             NEW policy \in Policies(x), Verdict(x, policy) = "accepted",
             AddUnchecked(x), job' = AcceptedOrphan(x)
      PROVE  LoopInv' /\ job' \in OrphanJobs
  <2> DEFINE E == job.vEraseQueue \cup {x}
             q == Append(job.vWorkQueue, x)
  <2>1. job' = [job EXCEPT !.todo = T, !.vEraseQueue = E, !.vWorkQueue = q]
    BY <1>7 DEF AcceptedOrphan
  <2>2. E \in SUBSET Txids /\ q \in Seq(Txids)
    BY <1>1, <1>3
  <2>3. /\ job' \in OrphanJobs
        /\ job'.vWorkQueue = q /\ job'.i = job.i /\ job'.todo = T
        /\ job'.vEraseQueue = E /\ job'.setMisbehaving = job.setMisbehaving
    <3> HIDE DEF T, E, q
    <3> QED
      BY <1>2, <1>5, <2>1, <2>2 DEF OrphanJobs
  <2>4. /\ job'.vWorkQueue = Append(job.vWorkQueue, x) /\ job'.i = job.i /\ job'.todo = T
        /\ job'.vEraseQueue = E /\ job'.setMisbehaving = job.setMisbehaving
    BY <2>3
  <2>5. /\ Len(job'.vWorkQueue) = Len(job.vWorkQueue) + 1
        /\ job'.vWorkQueue[Len(job.vWorkQueue) + 1] = x
        /\ \A k \in 1 .. Len(job.vWorkQueue) : job'.vWorkQueue[k] = job.vWorkQueue[k]
    BY <1>1, <1>3, <2>4
  <2>6. \A p : HaveCoins(p)' <=> HaveCoins(p) \/ p = x
    BY <1>1, <1>7 DEF HaveCoins, AddUnchecked
  <2>7. ASSUME NEW y, y # x, Pending(y) PROVE Pending(y)'
    <3>1. CASE y \in job.todo
      BY <2>4, <2>7, <3>1 DEF Pending
    <3>2. CASE mapOrphanTransactions[y] \in job.setMisbehaving
      BY <1>1, <2>4, <3>2 DEF Pending
    <3>3. CASE \E p \in Prevs(y) : ~HaveCoins(p)
      <4>1. PICK p \in Prevs(y) : ~HaveCoins(p)
        BY <3>3
      <4>2. CASE p = x
        <5>1. Len(job.vWorkQueue) + 1 \in job'.i + 1 .. Len(job'.vWorkQueue)
          BY <1>2, <1>3, <2>4, <2>5
        <5>2. QED
          BY <2>5, <4>2, <5>1 DEF Pending
      <4>3. CASE p # x
        BY <2>6, <4>1, <4>3 DEF Pending
      <4>4. QED
        BY <4>2, <4>3
    <3>4. CASE \E j \in job.i + 1 .. Len(job.vWorkQueue) : job.vWorkQueue[j] \in Prevs(y)
      <4>1. PICK j \in job.i + 1 .. Len(job.vWorkQueue) : job.vWorkQueue[j] \in Prevs(y)
        BY <3>4
      <4>2. /\ j \in job'.i + 1 .. Len(job'.vWorkQueue)
            /\ job'.vWorkQueue[j] = job.vWorkQueue[j]
        BY <1>2, <1>3, <2>4, <2>5
      <4>3. QED
        BY <4>1, <4>2 DEF Pending
    <3>5. QED
      BY <2>7, <3>1, <3>2, <3>3, <3>4 DEF Pending
  <2>8. \A k \in 1 .. job'.i : k \in 1 .. job.i /\ job'.vWorkQueue[k] = job.vWorkQueue[k]
    BY <1>2, <1>3, <2>4, <2>5
  <2>9. job'.i \in 1 .. Len(job'.vWorkQueue)
    BY <1>2, <1>3, <2>4, <2>5
  <2>10. QED
    BY <1>2, <1>4, <2>3, <2>4, <2>7, <2>8, <2>9 DEF LoopInv
<1>8. ASSUME mapOrphanTransactions[x] \notin job.setMisbehaving,
             NEW policy \in Policies(x), Verdict(x, policy) # "accepted",
             job' = [job EXCEPT
                 !.todo = @ \ {x},
                 !.vEraseQueue = IF Verdict(x, policy) = "missing" THEN @ ELSE @ \cup {x},
                 !.setMisbehaving = IF Verdict(x, policy) = "misbehaved"
                                    THEN @ \cup {mapOrphanTransactions[x]} ELSE @],
             UNCHANGED poolVars
      PROVE  LoopInv' /\ job' \in OrphanJobs
  <2> DEFINE E == IF Verdict(x, policy) = "missing" THEN job.vEraseQueue ELSE job.vEraseQueue \cup {x}
             M == IF Verdict(x, policy) = "misbehaved"
                  THEN job.setMisbehaving \cup {mapOrphanTransactions[x]} ELSE job.setMisbehaving
  <2>1. job' = [job EXCEPT !.todo = T, !.vEraseQueue = E, !.setMisbehaving = M]
    BY <1>8
  <2>2. E \in SUBSET Txids /\ M \in SUBSET (Peers \cup {None})
    BY <1>1, <1>3
  <2>3. job' \in OrphanJobs
    <3> HIDE DEF T, E, M
    <3> QED
      BY <1>2, <1>5, <2>1, <2>2 DEF OrphanJobs
  <2>4. /\ job'.vWorkQueue = job.vWorkQueue /\ job'.i = job.i /\ job'.todo = T
        /\ job'.vEraseQueue = E /\ job'.setMisbehaving = M
    <3> HIDE DEF T, E, M
    <3> QED
      BY <1>2, <1>5, <2>1, <2>2 DEF OrphanJobs
  <2>5. \A p : HaveCoins(p)' <=> HaveCoins(p)
    BY <1>1, <1>8 DEF HaveCoins, poolVars
  <2>6. x \in E \/ \E p \in Prevs(x) : ~HaveCoins(p)
    BY VerdictFacts
  <2>7. \A y : Pending(y) /\ y \notin E => Pending(y)'
    <3>1. job.setMisbehaving \subseteq M
      OBVIOUS
    <3> HIDE DEF E, M
    <3>2. QED
      BY <1>1, <2>4, <2>5, <2>6, <3>1 DEF Pending
  <2>8. job.vEraseQueue \subseteq E
    OBVIOUS
  <2> HIDE DEF E, M
  <2>9. QED
    BY <1>2, <1>4, <2>3, <2>4, <2>7, <2>8 DEF LoopInv
<1>9. QED
  BY <1>6, <1>7, <1>8 DEF TryOrphan

(* The loop goes on to the next transaction of vWorkQueue.                 *)
LEMMA NextWorkLoop ==
    ASSUME OrphanInv, LoopInv, NextWork
    PROVE  LoopInv' /\ job' \in OrphanJobs
<1>1. /\ job.op = "orphans" /\ job.todo = {} /\ job.i < Len(job.vWorkQueue)
      /\ utxo' = utxo /\ mapTx' = mapTx /\ mapOrphanTransactions' = mapOrphanTransactions
  BY DEF NextWork, vars, poolVars, orphanVars
<1>2. /\ job \in OrphanJobs
      /\ job.i \in 1 .. Len(job.vWorkQueue)
      /\ \A y \in Orphans \ job.vEraseQueue :
            (\E k \in 1 .. job.i : job.vWorkQueue[k] \in Prevs(y)) => Pending(y)
  BY <1>1 DEF LoopInv
<1> DEFINE n == job.i + 1
           q == job.vWorkQueue[n]
           T == mapOrphanTransactionsByPrev[q]
<1>3. /\ job.vWorkQueue \in Seq(Txids) /\ job.i \in Nat /\ Len(job.vWorkQueue) \in Nat
      /\ n \in 1 .. Len(job.vWorkQueue)
  BY <1>1, <1>2 DEF OrphanJobs
<1>4. q \in Txids
  BY <1>3
<1>5. T = {y \in Orphans : q \in Prevs(y)} /\ T \in SUBSET Txids
  BY <1>4 DEF OrphanInv, OrphanMapsAgree, Orphans
<1>6. job' = [job EXCEPT !.i = n, !.todo = T]
  BY DEF NextWork
<1>7. /\ job' \in OrphanJobs
      /\ job'.vWorkQueue = job.vWorkQueue /\ job'.i = n /\ job'.todo = T
      /\ job'.vEraseQueue = job.vEraseQueue /\ job'.setMisbehaving = job.setMisbehaving
  <2>1. n \in Nat
    BY <1>3
  <2> HIDE DEF n, T
  <2>2. QED
    BY <1>2, <1>5, <1>6, <2>1 DEF OrphanJobs
<1>8. /\ job'.vWorkQueue = job.vWorkQueue /\ job'.i = n /\ job'.todo = T
      /\ job'.vEraseQueue = job.vEraseQueue /\ job'.setMisbehaving = job.setMisbehaving
  BY <1>7
<1>9. \A p : HaveCoins(p)' <=> HaveCoins(p)
  BY <1>1 DEF HaveCoins
<1>10. Orphans' = Orphans
  BY <1>1 DEF Orphans
<1>11. ASSUME NEW y \in Orphans, Pending(y) PROVE Pending(y)'
  <2>1. CASE \E j \in job.i + 1 .. Len(job.vWorkQueue) : job.vWorkQueue[j] \in Prevs(y)
    <3>1. PICK j \in job.i + 1 .. Len(job.vWorkQueue) : job.vWorkQueue[j] \in Prevs(y)
      BY <2>1
    <3>2. CASE j = n
      BY <1>5, <1>8, <3>1, <3>2 DEF Pending
    <3>3. CASE j # n
      <4>1. j \in job'.i + 1 .. Len(job'.vWorkQueue)
        BY <1>3, <1>8, <3>1, <3>3
      <4>2. QED
        BY <1>8, <3>1, <4>1 DEF Pending
    <3>4. QED
      BY <3>2, <3>3
  <2>2. CASE mapOrphanTransactions[y] \in job.setMisbehaving
    BY <1>1, <1>8, <2>2 DEF Pending
  <2>3. CASE \E p \in Prevs(y) : ~HaveCoins(p)
    BY <1>9, <2>3 DEF Pending
  <2>4. QED
    BY <1>1, <1>11, <2>1, <2>2, <2>3 DEF Pending
<1>12. ASSUME NEW y \in Orphans \ job.vEraseQueue, NEW k \in 1 .. n, job.vWorkQueue[k] \in Prevs(y)
       PROVE  Pending(y)'
  <2>1. CASE k = n
    BY <1>5, <1>8, <1>12, <2>1 DEF Pending
  <2>2. CASE k # n
    <3>1. k \in 1 .. job.i
      BY <1>3, <2>2
    <3>2. QED
      BY <1>2, <1>11, <1>12, <3>1
  <2>3. QED
    BY <2>1, <2>2
<1>13. QED
  <2> HIDE DEF n, T, q
  <2> QED
    BY <1>3, <1>7, <1>8, <1>10, <1>12 DEF LoopInv

LEMMA LoopInvNext == OrphanInv /\ LoopInv /\ [PoolNext]_allVars => LoopInv'
<1> SUFFICES ASSUME OrphanInv, LoopInv, [PoolNext]_allVars PROVE LoopInv'
  OBVIOUS
<1>1. ASSUME job'.op # "orphans" PROVE LoopInv'
  BY <1>1 DEF LoopInv
<1>2. Idle.op # "orphans" /\ \A b : BlockJob("connect", b).op # "orphans" /\ BlockJob("disconnect", b).op # "orphans"
  BY DEF Idle, BlockJob
<1>3. ASSUME NEW x \in Loose, NEW peer \in Peers, Tx(peer, x) PROVE LoopInv'
  <2>1. CASE job' = OrphanJob(x) /\ UNCHANGED orphanVars
    BY <2>1, StartLoop DEF Loose
  <2>2. CASE job' = job /\ job = Idle
    BY <1>1, <1>2, <2>2
  <2>3. QED
    BY <1>3, <2>1, <2>2 DEF Tx
<1>4. ASSUME NEW x \in Loose, LocalTx(x) PROVE LoopInv'
  BY <1>1, <1>2, <1>4 DEF LocalTx
<1>5. CASE EraseProcessed \/ \E peer \in Peers : PeerGone(peer)
  BY <1>1, <1>2, <1>5 DEF EraseProcessed, PeerGone
<1>6. CASE (\E b \in Blocks : ConnectTip(b)) \/ DisconnectTip
  BY <1>1, <1>2, <1>6 DEF ConnectTip, DisconnectTip
<1>7. CASE RemoveForBlock \/ Resurrect \/ RemoveCoinbaseSpends
  BY <1>1, <1>2, <1>7 DEF RemoveForBlock, Resurrect, RemoveCoinbaseSpends
<1>8. CASE UNCHANGED allVars
  BY <1>8 DEF allVars, vars, poolVars, orphanVars, LoopInv, Pending, HaveCoins, Orphans
<1>9. QED
  BY <1>3, <1>4, <1>5, <1>6, <1>7, <1>8, TryOrphanLoop, NextWorkLoop DEF PoolNext

LEMMA LoopInvHolds == PoolSpec => []LoopInv
<1>1. PoolInit => LoopInv
  BY DEF PoolInit, LoopInv, Idle
<1>2. QED
  BY <1>1, LoopInvNext, OrphanInvHolds, PTL DEF PoolSpec

(* When the loop over the orphans ends, each one that depends on anything  *)
(* it accepted misses another input, is about to be erased or came from a  *)
(* peer that was just punished, in whatever order the orphans were tried   *)
(* and whatever was decided of them.                                       *)
THEOREM OrphansAlwaysResolved == PoolSpec => []OrphansResolved
<1>1. LoopInv => OrphansResolved
  <2> SUFFICES ASSUME LoopInv, LoopDone, NEW x \in Orphans \ job.vEraseQueue,
                      Prevs(x) \cap Range(job.vWorkQueue) # {}
               PROVE  \/ mapOrphanTransactions[x] \in job.setMisbehaving
                      \/ \E p \in Prevs(x) : ~HaveCoins(p)
    BY DEF OrphansResolved
  <2>1. /\ job \in OrphanJobs /\ job.todo = {} /\ job.i = Len(job.vWorkQueue)
        /\ (\E k \in 1 .. job.i : job.vWorkQueue[k] \in Prevs(x)) => Pending(x)
    BY DEF LoopInv, LoopDone
  <2>2. job.vWorkQueue \in Seq(Txids) /\ Len(job.vWorkQueue) \in Nat
    BY <2>1 DEF OrphanJobs
  <2>3. \E k \in DOMAIN job.vWorkQueue : job.vWorkQueue[k] \in Prevs(x)
    BY DEF Range
  <2>4. \E k \in 1 .. job.i : job.vWorkQueue[k] \in Prevs(x)
    BY <2>1, <2>2, <2>3
  <2>5. \A j \in job.i + 1 .. Len(job.vWorkQueue) : FALSE
    BY <2>1, <2>2
  <2>6. QED
    BY <2>1, <2>4, <2>5 DEF Pending
<1>2. QED
  BY <1>1, LoopInvHolds, PTL

-----------------------------------------------------------------------------
(* mapTx and mapNextTx.                                                    *)

(* Every transaction the pool is given is one: the blocks of the chain and *)
(* what is left of the block at hand are sequences of transactions.        *)
BlocksInv ==
    /\ chain \in Seq(Blocks)
    /\ job.op \in {"connect", "disconnect"} => job.vtx \in Seq(Txids)

NextTxInv == mapTx \subseteq Txids /\ NextTxExact

LEMMA AddUncheckedExact ==
    ASSUME NextTxInv, NEW x \in Txids, NEW policy, Verdict(x, policy) = "accepted", AddUnchecked(x)
    PROVE  NextTxInv'
<1>1. x \notin mapTx /\ \A in \in Vin(x) : mapNextTx[in] = None
  BY VerdictFacts
<1>2. None \notin Txids
  BY PoolAssumption
<1>3. ASSUME NEW o \in Outpoints
      PROVE  {y \in mapTx' : o \in Vin(y)} = {mapNextTx'[o]} \ {None}
  <2>1. {y \in mapTx : o \in Vin(y)} = {mapNextTx[o]} \ {None}
    BY DEF NextTxInv, NextTxExact
  <2>2. mapTx' = mapTx \cup {x} /\ mapNextTx'[o] = IF o \in Vin(x) THEN x ELSE mapNextTx[o]
    BY DEF AddUnchecked
  <2>3. CASE o \in Vin(x)
    <3>1. {y \in mapTx : o \in Vin(y)} = {}
      BY <1>1, <2>1, <2>3
    <3>2. QED
      BY <1>2, <2>2, <2>3, <3>1
  <2>4. CASE o \notin Vin(x)
    BY <2>1, <2>2, <2>4
  <2>5. QED
    BY <2>3, <2>4
<1>4. QED
  BY <1>3 DEF NextTxInv, NextTxExact, AddUnchecked

(* The body of the loop in remove clears what the removed ones spend, and  *)
(* nobody else in the pool spends it.                                      *)
LEMMA DropExact ==
    ASSUME NextTxInv, NEW gone, gone \subseteq mapTx, Drop(gone)
    PROVE  NextTxInv'
<1>1. ASSUME NEW o \in Outpoints
      PROVE  {y \in mapTx' : o \in Vin(y)} = {mapNextTx'[o]} \ {None}
  <2>1. {y \in mapTx : o \in Vin(y)} = {mapNextTx[o]} \ {None}
    BY DEF NextTxInv, NextTxExact
  <2>2. /\ mapTx' = mapTx \ gone
        /\ mapNextTx'[o] = IF \E x \in gone : o \in Vin(x) THEN None ELSE mapNextTx[o]
    BY DEF Drop
  <2>3. CASE \E x \in gone : o \in Vin(x)
    BY <2>1, <2>2, <2>3
  <2>4. CASE ~\E x \in gone : o \in Vin(x)
    BY <2>1, <2>2, <2>4
  <2>5. QED
    BY <2>3, <2>4
<1>2. QED
  BY <1>1 DEF NextTxInv, NextTxExact, Drop

(* Whatever remove reaches is in the pool.                                 *)
LEMMA RemovalInPool ==
    /\ \A roots : Reached(roots) \subseteq mapTx
    /\ \A x : RemovalOf(x) \subseteq mapTx
    /\ \A x : Confirmed(x) \subseteq mapTx
<1>1. \A roots : Reached(roots) \subseteq mapTx
  BY DEF Reached
<1>2. \A x : RemovalOf(x) \subseteq mapTx
  BY <1>1 DEF RemovalOf
<1>3. QED
  BY <1>1, <1>2 DEF Confirmed

LEMMA BlockIsTransactions ==
    /\ \A b \in Blocks : b \in Seq(Txids)
    /\ \A b \in Seq(Txids) : b # <<>> => Head(b) \in Txids /\ Tail(b) \in Seq(Txids)
<1>1. \A b \in Blocks : b \in Seq(Txids)
  BY UndoAssumption
<1>2. QED
  BY <1>1

LEMMA BlocksInvNext == BlocksInv /\ OrphanInv /\ LoopInv /\ [PoolNext]_allVars => BlocksInv'
<1> SUFFICES ASSUME BlocksInv, OrphanInv, LoopInv, [PoolNext]_allVars PROVE BlocksInv'
  OBVIOUS
<1>1. ASSUME UNCHANGED chain, job'.op \notin {"connect", "disconnect"} \/ job' = job PROVE BlocksInv'
  BY <1>1 DEF BlocksInv
<1>2. /\ Idle.op = "idle" /\ \A x : OrphanJob(x).op = "orphans"
      /\ \A op, b : BlockJob(op, b).op = op /\ BlockJob(op, b).vtx = b
  BY DEF Idle, OrphanJob, BlockJob
<1>3. ASSUME NEW x \in Loose, (\E peer \in Peers : Tx(peer, x)) \/ LocalTx(x) PROVE BlocksInv'
  BY <1>1, <1>2, <1>3 DEF Tx, LocalTx, vars
<1>4. ASSUME NEW x \in Loose, TryOrphan(x) PROVE BlocksInv'
  <2>1. job' \in OrphanJobs /\ chain' = chain
    BY <1>4, TryOrphanLoop DEF TryOrphan, vars
  <2>2. QED
    BY <1>1, <2>1 DEF OrphanJobs
<1>5. CASE NextWork
  <2>1. job' \in OrphanJobs /\ chain' = chain
    BY <1>5, NextWorkLoop DEF NextWork, vars
  <2>2. QED
    BY <1>1, <2>1 DEF OrphanJobs
<1>6. CASE EraseProcessed \/ (\E peer \in Peers : PeerGone(peer)) \/ RemoveCoinbaseSpends
  BY <1>1, <1>2, <1>6 DEF EraseProcessed, PeerGone, RemoveCoinbaseSpends, vars
<1>7. ASSUME NEW b \in Blocks, ConnectTip(b) PROVE BlocksInv'
  <2>1. chain' = Append(chain, b) /\ job' = BlockJob("connect", b)
    BY <1>7 DEF ConnectTip, ConnectBlock
  <2>2. chain' \in Seq(Blocks)
    BY <2>1 DEF BlocksInv
  <2>3. QED
    BY <1>2, <2>1, <2>2, BlockIsTransactions DEF BlocksInv
<1>8. CASE DisconnectTip
  <2>1. chain # <<>> /\ chain' = Front(chain) /\ job' = BlockJob("disconnect", Last(chain))
    BY <1>8 DEF DisconnectTip, DisconnectBlock
  <2>2. Last(chain) \in Blocks /\ chain' \in Seq(Blocks)
    BY <2>1 DEF BlocksInv, Last, Front
  <2>3. QED
    BY <1>2, <2>1, <2>2, BlockIsTransactions DEF BlocksInv
<1>9. CASE RemoveForBlock
  <2>1. /\ job.op = "connect" /\ job.vtx # <<>> /\ chain' = chain
        /\ job' = Idle \/ job' = BlockJob("connect", Tail(job.vtx))
    BY <1>9 DEF RemoveForBlock, vars
  <2>2. Tail(job.vtx) \in Seq(Txids)
    BY <2>1, BlockIsTransactions DEF BlocksInv
  <2>3. CASE job' = Idle
    BY <1>1, <1>2, <2>1, <2>3
  <2>4. CASE job' = BlockJob("connect", Tail(job.vtx))
    <3>1. job'.vtx = Tail(job.vtx)
      BY <1>2, <2>4
    <3>2. QED
      BY <2>1, <2>2, <3>1 DEF BlocksInv
  <2>5. QED
    BY <2>1, <2>3, <2>4
<1>10. CASE Resurrect
  <2>1. /\ job.op = "disconnect" /\ job.vtx # <<>> /\ chain' = chain
        /\ job' = BlockJob("disconnect", Tail(job.vtx))
    BY <1>10 DEF Resurrect, vars
  <2>2. Tail(job.vtx) \in Seq(Txids)
    BY <2>1, BlockIsTransactions DEF BlocksInv
  <2>3. job'.vtx = Tail(job.vtx)
    BY <1>2, <2>1
  <2>4. QED
    BY <2>1, <2>2, <2>3 DEF BlocksInv
<1>11. CASE UNCHANGED allVars
  BY <1>11 DEF allVars, vars, BlocksInv
<1>12. QED
  BY <1>3, <1>4, <1>5, <1>6, <1>7, <1>8, <1>9, <1>10, <1>11 DEF PoolNext

LEMMA NextTxInvNext == NextTxInv /\ BlocksInv /\ [PoolNext]_allVars => NextTxInv'
<1> SUFFICES ASSUME NextTxInv, BlocksInv, [PoolNext]_allVars PROVE NextTxInv'
  OBVIOUS
<1>1. ASSUME UNCHANGED poolVars PROVE NextTxInv'
  BY <1>1 DEF poolVars, NextTxInv, NextTxExact
<1>2. ASSUME NEW x \in Loose, (\E peer \in Peers : Tx(peer, x)) \/ TryOrphan(x) \/ LocalTx(x) PROVE NextTxInv'
  <2>1. \/ UNCHANGED poolVars
        \/ \E policy \in Policies(x) : Verdict(x, policy) = "accepted" /\ AddUnchecked(x)
    BY <1>2 DEF Tx, TryOrphan, LocalTx
  <2>2. QED
    BY <1>1, <2>1, AddUncheckedExact DEF Loose
<1>3. CASE NextWork \/ EraseProcessed \/ \E peer \in Peers : PeerGone(peer)
  BY <1>1, <1>3 DEF NextWork, EraseProcessed, PeerGone
<1>4. CASE (\E b \in Blocks : ConnectTip(b)) \/ DisconnectTip
  BY <1>1, <1>4 DEF ConnectTip, DisconnectTip
<1>5. CASE RemoveForBlock \/ RemoveCoinbaseSpends
  BY <1>5, DropExact, RemovalInPool DEF RemoveForBlock, RemoveCoinbaseSpends
<1>6. CASE Resurrect
  <2> DEFINE x == Head(job.vtx)
  <2>1. x \in Txids
    BY <1>6, BlockIsTransactions DEF Resurrect, BlocksInv
  <2>2. PICK policy \in Policies(x) :
           IF Kind[x] = "normal" /\ Verdict(x, policy) = "accepted" THEN AddUnchecked(x) ELSE Drop(RemovalOf(x))
    BY <1>6 DEF Resurrect
  <2> HIDE DEF x
  <2>3. QED
    BY <2>1, <2>2, AddUncheckedExact, DropExact, RemovalInPool
<1>7. CASE UNCHANGED allVars
  BY <1>1, <1>7 DEF allVars
<1>8. QED
  BY <1>2, <1>3, <1>4, <1>5, <1>6, <1>7 DEF PoolNext

(* The part of CTxMemPool::check about mapNextTx: it names every input of  *)
(* the pool with the one transaction that spends it and nothing else, so   *)
(* that no two transactions of the pool conflict, in the middle of a       *)
(* reorganisation too.                                                     *)
THEOREM NextTxAlwaysExact == PoolSpec => []NextTxExact
<1>1. PoolInit => NextTxInv /\ BlocksInv
  BY DEF PoolInit, Init, NextTxInv, NextTxExact, BlocksInv, Idle
<1>2. QED
  BY <1>1, BlocksInvNext, NextTxInvNext, LoopInvHolds, OrphanInvHolds, PTL DEF PoolSpec, NextTxInv

-----------------------------------------------------------------------------
(* Loops: what a recursive function over 0 .. n computes, by induction.    *)

(* Induction over the naturals, for a set of them.                         *)
LEMMA LeastNat ==
    ASSUME NEW T, T \subseteq Nat, T # {}
    PROVE  \E x \in T : \A y \in T : x <= y
<1>1. PICK x \in T : \A y \in T : ~(<<y, x>> \in OpToRel(<, Nat))
  BY NatLessThanWellFounded, WFMin
<1>2. ASSUME NEW y \in T PROVE x <= y
  <2>1. x \in Nat /\ y \in Nat
    OBVIOUS
  <2>2. ~(y < x)
    BY <1>1, <2>1 DEF OpToRel
  <2>3. QED
    BY <2>1, <2>2
<1>3. QED
  BY <1>2

LEMMA SetInduction ==
    ASSUME NEW S, NEW n \in Nat, 0 \in S, \A i \in 1 .. n : i - 1 \in S => i \in S
    PROVE  \A i \in 0 .. n : i \in S
<1> DEFINE T == {i \in 0 .. n : i \notin S}
<1>1. SUFFICES ASSUME T # {} PROVE FALSE
  OBVIOUS
<1>2. PICK m \in T : \A y \in T : m <= y
  <2>1. T \subseteq Nat
    OBVIOUS
  <2> HIDE DEF T
  <2>2. QED
    BY <1>1, <2>1, LeastNat
<1>3. m \in 1 .. n /\ m - 1 \in 0 .. n /\ m - 1 \notin T
  BY <1>2
<1>4. QED
  BY <1>2, <1>3

(* The same downwards.                                                     *)
LEMMA SetInductionDown ==
    ASSUME NEW S, NEW n \in Nat, n \in S, \A i \in 0 .. n - 1 : i + 1 \in S => i \in S
    PROVE  \A i \in 0 .. n : i \in S
<1> DEFINE R == {i \in 0 .. n : n - i \in S}
<1>1. 0 \in R
  OBVIOUS
<1>2. ASSUME NEW i \in 1 .. n, i - 1 \in R PROVE i \in R
  <2>1. n - (i - 1) \in S /\ n - i \in 0 .. n - 1 /\ (n - i) + 1 = n - (i - 1)
    BY <1>2
  <2>2. QED
    BY <2>1
<1>3. \A i \in 0 .. n : i \in R
  <2>1. \A i \in 1 .. n : i - 1 \in R => i \in R
    BY <1>2
  <2> HIDE DEF R
  <2>2. QED
    BY <1>1, <2>1, SetInduction
<1>4. QED
  <2> SUFFICES ASSUME NEW i \in 0 .. n PROVE i \in S
    OBVIOUS
  <2>1. n - i \in 0 .. n /\ n - (n - i) = i
    OBVIOUS
  <2>2. QED
    BY <1>3, <2>1

(* v holds the values of a loop that applies the step F to base, n times;  *)
(* and of one that counts downwards.                                       *)
Iterates(v, A, n, base, F) ==
    v \in [0 .. n -> A] /\ v[0] = base /\ \A j \in 1 .. n : v[j] = F[v[j - 1]][j]

IteratesDown(v, A, n, base, F) ==
    v \in [0 .. n -> A] /\ v[n] = base /\ \A j \in 0 .. n - 1 : v[j] = F[v[j + 1]][j + 1]

LEMMA Iteration ==
    ASSUME NEW A, NEW n \in Nat, NEW base \in A, NEW F \in [A -> [1 .. n -> A]]
    PROVE  \E v : Iterates(v, A, n, base, F)
<1> DEFINE S == {m \in 0 .. n : \E v : Iterates(v, A, m, base, F)}
<1>1. 0 \in S
  <2>1. Iterates([j \in 0 .. 0 |-> base], A, 0, base, F)
    BY DEF Iterates
  <2>2. \E v : Iterates(v, A, 0, base, F)
    BY <2>1
  <2>3. QED
    BY <2>2
<1>2. ASSUME NEW m \in 1 .. n, m - 1 \in S PROVE m \in S
  <2>1. PICK v : Iterates(v, A, m - 1, base, F)
    BY <1>2
  <2> DEFINE w == [j \in 0 .. m |-> IF j = m THEN F[v[m - 1]][m] ELSE v[j]]
  <2>2. v[m - 1] \in A /\ v \in [0 .. m - 1 -> A]
    BY <2>1 DEF Iterates
  <2>3. F[v[m - 1]][m] \in A
    BY <2>2
  <2>4. w \in [0 .. m -> A]
    BY <2>2, <2>3
  <2>5. w[0] = base
    BY <2>1 DEF Iterates
  <2>6. ASSUME NEW j \in 1 .. m PROVE w[j] = F[w[j - 1]][j]
    <3>1. CASE j = m
      BY <3>1
    <3>2. CASE j # m
      <4>1. j \in 1 .. m - 1 /\ j - 1 \in 0 .. m - 1 /\ j - 1 # m
        BY <3>2
      <4>2. QED
        BY <2>1, <3>2, <4>1 DEF Iterates
    <3>3. QED
      BY <3>1, <3>2
  <2> HIDE DEF w
  <2>7. Iterates(w, A, m, base, F)
    BY <2>4, <2>5, <2>6 DEF Iterates
  <2>8. \E x : Iterates(x, A, m, base, F)
    BY <2>7
  <2>9. QED
    BY <2>8
<1>3. \A m \in 0 .. n : m \in S
  <2>1. \A m \in 1 .. n : m - 1 \in S => m \in S
    BY <1>2
  <2> HIDE DEF S
  <2>2. QED
    BY <1>1, <2>1, SetInduction
<1>4. QED
  BY <1>3

LEMMA IterationDown ==
    ASSUME NEW A, NEW n \in Nat, NEW base \in A, NEW F \in [A -> [1 .. n -> A]]
    PROVE  \E v : IteratesDown(v, A, n, base, F)
<1> DEFINE D == [a \in A |-> [j \in 1 .. n |-> F[a][n + 1 - j]]]
<1>1. D \in [A -> [1 .. n -> A]]
  OBVIOUS
<1>2. PICK v : Iterates(v, A, n, base, D)
  <2> HIDE DEF D
  <2> QED
    BY <1>1, Iteration
<1>3. v \in [0 .. n -> A] /\ v[0] = base /\ \A j \in 1 .. n : v[j] = D[v[j - 1]][j]
  BY <1>2 DEF Iterates
<1> DEFINE w == [j \in 0 .. n |-> v[n - j]]
<1>4. w \in [0 .. n -> A] /\ w[n] = base
  BY <1>3
<1>5. ASSUME NEW j \in 0 .. n - 1 PROVE w[j] = F[w[j + 1]][j + 1]
  <2>1. n - j \in 1 .. n /\ (n - j) - 1 = n - (j + 1) /\ n + 1 - (n - j) = j + 1 /\ j + 1 \in 0 .. n
    OBVIOUS
  <2>2. v[(n - j) - 1] \in A
    BY <1>3, <2>1
  <2>3. D[v[(n - j) - 1]][n - j] = F[v[(n - j) - 1]][n + 1 - (n - j)]
    BY <2>1, <2>2
  <2>4. v[n - j] = D[v[(n - j) - 1]][n - j]
    BY <1>3, <2>1
  <2>5. w[j] = v[n - j] /\ w[j + 1] = v[(n - j) - 1]
    BY <2>1
  <2>6. QED
    BY <2>1, <2>3, <2>4, <2>5
<1> HIDE DEF w
<1>6. IteratesDown(w, A, n, base, F)
  BY <1>4, <1>5 DEF IteratesDown
<1>7. QED
  BY <1>6

(* A function that follows the loop from base holds its values.            *)
LEMMA LoopIterates ==
    ASSUME NEW A, NEW n \in Nat, NEW base \in A, NEW F \in [A -> [1 .. n -> A]],
           NEW s, s = [j \in 0 .. n |-> s[j]], s[0] = base,
           \A j \in 1 .. n : s[j - 1] \in A => s[j] = F[s[j - 1]][j]
    PROVE  Iterates(s, A, n, base, F)
<1> DEFINE S == {j \in 0 .. n : s[j] \in A}
<1>1. 0 \in S
  OBVIOUS
<1>2. ASSUME NEW j \in 1 .. n, j - 1 \in S PROVE j \in S
  <2>1. s[j - 1] \in A /\ s[j] = F[s[j - 1]][j]
    BY <1>2
  <2>2. s[j] \in A
    BY <2>1
  <2>3. QED
    BY <2>2
<1>3. \A j \in 0 .. n : j \in S
  <2>1. \A j \in 1 .. n : j - 1 \in S => j \in S
    BY <1>2
  <2> HIDE DEF S
  <2>2. QED
    BY <1>1, <2>1, SetInduction
<1>4. s \in [0 .. n -> A]
  BY <1>3
<1>5. \A j \in 1 .. n : j - 1 \in 0 .. n
  OBVIOUS
<1>6. QED
  BY <1>4, <1>5 DEF Iterates

LEMMA LoopIteratesDown ==
    ASSUME NEW A, NEW n \in Nat, NEW base \in A, NEW F \in [A -> [1 .. n -> A]],
           NEW s, s = [j \in 0 .. n |-> s[j]], s[n] = base,
           \A j \in 0 .. n - 1 : s[j + 1] \in A => s[j] = F[s[j + 1]][j + 1]
    PROVE  IteratesDown(s, A, n, base, F)
<1> DEFINE S == {j \in 0 .. n : s[j] \in A}
<1>1. n \in S
  OBVIOUS
<1>2. ASSUME NEW j \in 0 .. n - 1, j + 1 \in S PROVE j \in S
  <2>0. s[j + 1] \in A
    BY <1>2
  <2>1. j + 1 \in 1 .. n
    OBVIOUS
  <2>2. s[j] = F[s[j + 1]][j + 1]
    <3>1. \A i \in 0 .. n - 1 : s[i + 1] \in A => s[i] = F[s[i + 1]][i + 1]
      OBVIOUS
    <3>2. QED
      BY <2>0, <3>1, Zenon
  <2>3. QED
    BY <2>0, <2>1, <2>2
<1>3. \A j \in 0 .. n : j \in S
  <2>1. \A j \in 0 .. n - 1 : j + 1 \in S => j \in S
    BY <1>2
  <2> HIDE DEF S
  <2>2. QED
    BY <1>1, <2>1, SetInductionDown
<1>4. s \in [0 .. n -> A]
  BY <1>3
<1>5. \A j \in 0 .. n - 1 : j + 1 \in 0 .. n
  OBVIOUS
<1>6. QED
  BY <1>4, <1>5 DEF IteratesDown

-----------------------------------------------------------------------------
(* The loops of ConnectBlock and DisconnectBlock, step by step.            *)

(* The coins of a transaction, the views of them, and what the loops of    *)
(* ConnectBlock and DisconnectBlock carry along.                           *)
CCoins == [outs : SUBSET Nat, nHeight : Nat, fCoinBase : BOOLEAN, fCoinStake : BOOLEAN]
UndoRecs == [nHeight : Nat, fCoinBase : BOOLEAN, fCoinStake : BOOLEAN]
Views == [Txids -> CCoins]
SpendAcc == [utxo : Views, undo : Seq(UndoRecs)]
ConnectAcc == [ok : BOOLEAN, utxo : Views, undo : Seq(Seq(UndoRecs))]
UndoAcc == [clean : BOOLEAN, utxo : Views]

LEMMA InputType ==
    ASSUME NEW x \in Txids
    PROVE  /\ Inputs[x] \in Seq(Txids \X Nat) /\ Len(Inputs[x]) \in Nat
           /\ \A j \in 1 .. Len(Inputs[x]) :
                 /\ Inputs[x][j] \in Txids \X Nat
                 /\ Inputs[x][j][1] \in Txids /\ Inputs[x][j][2] \in Nat
                 /\ Inputs[x][j] = <<Inputs[x][j][1], Inputs[x][j][2]>>
<1>1. Inputs[x] \in Seq(Txids \X Nat)
  BY UndoAssumption
<1>2. QED
  BY <1>1

LEMMA CoinsType ==
    ASSUME NEW outs \in SUBSET Nat, NEW h \in Nat, NEW cb \in BOOLEAN, NEW cs \in BOOLEAN
    PROVE  Coins(outs, h, cb, cs) \in CCoins /\ Pruned \in CCoins
  BY DEF Coins, Pruned, CCoins

LEMMA SpendType ==
    ASSUME NEW acc \in SpendAcc, NEW in, in[1] \in Txids, in[2] \in Nat
    PROVE  Spend(acc, in) \in SpendAcc
<1> DEFINE c == acc.utxo[in[1]]
           left == c.outs \ {in[2]}
           d == Coins(left, c.nHeight, c.fCoinBase, c.fCoinStake)
           r == IF left = {} THEN [nHeight |-> c.nHeight, fCoinBase |-> c.fCoinBase, fCoinStake |-> c.fCoinStake]
                ELSE [nHeight |-> 0, fCoinBase |-> FALSE, fCoinStake |-> FALSE]
<1>1. acc.utxo \in [Txids -> CCoins] /\ acc.undo \in Seq(UndoRecs)
  BY DEF SpendAcc, Views
<1>2. c \in CCoins
  BY <1>1
<1>3. c.outs \in SUBSET Nat /\ c.nHeight \in Nat /\ c.fCoinBase \in BOOLEAN /\ c.fCoinStake \in BOOLEAN
  BY <1>2 DEF CCoins
<1>4. d \in CCoins
  <2>1. left \in SUBSET Nat
    BY <1>3
  <2> HIDE DEF left, c
  <2>2. QED
    BY <1>3, <2>1, CoinsType
<1>5. r \in UndoRecs
  <2> HIDE DEF c
  <2> QED
    BY <1>3 DEF UndoRecs
<1>6. Spend(acc, in) = [utxo |-> [acc.utxo EXCEPT ![in[1]] = d], undo |-> Append(acc.undo, r)]
  BY DEF Spend
<1> HIDE DEF d, r
<1>7. [acc.utxo EXCEPT ![in[1]] = d] \in [Txids -> CCoins] /\ Append(acc.undo, r) \in Seq(UndoRecs)
  BY <1>1, <1>4, <1>5
<1>8. QED
  BY <1>6, <1>7 DEF SpendAcc, Views

LEMMA SpendingLoop ==
    ASSUME NEW u \in Views, NEW x \in Txids
    PROVE  /\ Spending(u, x) \in [0 .. Len(Inputs[x]) -> SpendAcc]
           /\ Spending(u, x)[0] = [utxo |-> u, undo |-> <<>>]
           /\ \A j \in 1 .. Len(Inputs[x]) : Spending(u, x)[j] = Spend(Spending(u, x)[j - 1], Inputs[x][j])
<1> DEFINE n == Len(Inputs[x])
           base == [utxo |-> u, undo |-> <<>>]
           F == [a \in SpendAcc |-> [j \in 1 .. n |-> Spend(a, Inputs[x][j])]]
           P(w) == w = [j \in 0 .. n |-> IF j = 0 THEN base ELSE Spend(w[j - 1], Inputs[x][j])]
<1>1. n \in Nat /\ base \in SpendAcc
  BY InputType DEF SpendAcc
<1>2. F \in [SpendAcc -> [1 .. n -> SpendAcc]]
  BY InputType, SpendType
<1>3. PICK v : Iterates(v, SpendAcc, n, base, F)
  <2> HIDE DEF n, base, F
  <2> QED
    BY <1>1, <1>2, Iteration
<1>4. P(v)
  <2>1. /\ v \in [0 .. n -> SpendAcc] /\ v[0] = base
        /\ \A j \in 1 .. n : v[j] = F[v[j - 1]][j]
    <3> HIDE DEF n, base, F
    <3> QED
      BY <1>3 DEF Iterates
  <2> HIDE DEF n, base
  <2>2. ASSUME NEW j \in 1 .. n PROVE v[j] = Spend(v[j - 1], Inputs[x][j])
    <3>1. v[j - 1] \in SpendAcc
      BY <1>1, <2>1
    <3>2. QED
      BY <2>1, <3>1
  <2>3. QED
    BY <1>1, <2>1, <2>2
<1>5. Spending(u, x) = CHOOSE w : P(w)
  BY DEF Spending
<1>6. P(Spending(u, x))
  <2> HIDE DEF P
  <2> QED
    BY <1>4, <1>5
<1> DEFINE s == Spending(u, x)
<1>7. \A j \in 0 .. n : s[j] = IF j = 0 THEN base ELSE Spend(s[j - 1], Inputs[x][j])
  BY <1>6
<1>8. s = [j \in 0 .. n |-> s[j]]
  BY <1>6
<1>9. \A j \in 1 .. n : s[j - 1] \in SpendAcc => s[j] = F[s[j - 1]][j]
  <2> HIDE DEF s, base
  <2> QED
    BY <1>1, <1>7
<1>10. s[0] = base
  BY <1>1, <1>7
<1>11. Iterates(s, SpendAcc, n, base, F)
  <2> HIDE DEF s, n, base, F
  <2> QED
    BY <1>1, <1>2, <1>8, <1>9, <1>10, LoopIterates
<1>12. s \in [0 .. n -> SpendAcc]
  <2> HIDE DEF s, n, base, F
  <2> QED
    BY <1>11 DEF Iterates
<1>13. QED
  BY <1>7, <1>10, <1>12

LEMMA FromTxType ==
    ASSUME NEW x \in Txids, NEW h \in Nat
    PROVE  FromTx(x, h) \in CCoins
<1>1. Outputs[x] \in SUBSET Nat
  BY UndoAssumption
<1>2. (Kind[x] = "coinbase") \in BOOLEAN /\ (Kind[x] = "coinstake") \in BOOLEAN
  OBVIOUS
<1>3. QED
  BY <1>1, <1>2, CoinsType DEF FromTx

LEMMA UpdateCoinsType ==
    ASSUME NEW u \in Views, NEW x \in Txids, NEW h \in Nat
    PROVE  /\ UpdateCoins(u, x, h).utxo \in Views
           /\ UpdateCoins(u, x, h).undo \in Seq(UndoRecs)
<1> DEFINE s == Spending(u, x)[Len(Inputs[x])]
<1>1. s \in SpendAcc
  <2>1. Len(Inputs[x]) \in 0 .. Len(Inputs[x])
    BY InputType
  <2>2. Spending(u, x) \in [0 .. Len(Inputs[x]) -> SpendAcc]
    BY SpendingLoop
  <2>3. QED
    BY <2>1, <2>2
<1>2. s.utxo \in [Txids -> CCoins] /\ s.undo \in Seq(UndoRecs)
  BY <1>1 DEF SpendAcc, Views
<1>3. UpdateCoins(u, x, h) = [utxo |-> [s.utxo EXCEPT ![x] = FromTx(x, h)], undo |-> s.undo]
  BY DEF UpdateCoins
<1> HIDE DEF s
<1>4. QED
  BY <1>2, <1>3, FromTxType DEF Views

LEMMA ConnectTxType ==
    ASSUME NEW acc \in ConnectAcc, NEW x \in Txids, NEW h \in Nat
    PROVE  ConnectTx(acc, x, h) \in ConnectAcc
<1>1. acc.utxo \in Views /\ acc.undo \in Seq(Seq(UndoRecs))
  BY DEF ConnectAcc
<1>2. CASE ~acc.ok \/ ~Acceptable(acc.utxo, x, h)
  <2>1. ConnectTx(acc, x, h) = [acc EXCEPT !.ok = FALSE]
    BY <1>2 DEF ConnectTx
  <2>2. QED
    BY <2>1 DEF ConnectAcc
<1>3. CASE ~(~acc.ok \/ ~Acceptable(acc.utxo, x, h))
  <2> DEFINE up == UpdateCoins(acc.utxo, x, h)
  <2>1. ConnectTx(acc, x, h) = [ok |-> TRUE, utxo |-> up.utxo, undo |-> Append(acc.undo, up.undo)]
    BY <1>3 DEF ConnectTx
  <2>2. up.utxo \in Views /\ up.undo \in Seq(UndoRecs)
    BY <1>1, UpdateCoinsType
  <2> HIDE DEF up
  <2>3. Append(acc.undo, up.undo) \in Seq(Seq(UndoRecs))
    BY <1>1, <2>2
  <2>4. QED
    BY <2>1, <2>2, <2>3 DEF ConnectAcc
<1>4. QED
  BY <1>2, <1>3

LEMMA ConnectingLoop ==
    ASSUME NEW u \in Views, NEW b \in Seq(Txids), NEW h \in Nat
    PROVE  /\ Connecting(u, b, h) \in [0 .. Len(b) -> ConnectAcc]
           /\ Connecting(u, b, h)[0] = [ok |-> TRUE, utxo |-> u, undo |-> <<>>]
           /\ \A i \in 1 .. Len(b) : Connecting(u, b, h)[i] = ConnectTx(Connecting(u, b, h)[i - 1], b[i], h)
<1> DEFINE n == Len(b)
           base == [ok |-> TRUE, utxo |-> u, undo |-> <<>>]
           F == [a \in ConnectAcc |-> [i \in 1 .. n |-> ConnectTx(a, b[i], h)]]
           P(w) == w = [i \in 0 .. n |-> IF i = 0 THEN base ELSE ConnectTx(w[i - 1], b[i], h)]
<1>1. n \in Nat /\ base \in ConnectAcc
  BY DEF ConnectAcc
<1>2. F \in [ConnectAcc -> [1 .. n -> ConnectAcc]]
  BY ConnectTxType
<1>3. PICK v : Iterates(v, ConnectAcc, n, base, F)
  <2> HIDE DEF n, base, F
  <2> QED
    BY <1>1, <1>2, Iteration
<1>4. P(v)
  <2>1. /\ v \in [0 .. n -> ConnectAcc] /\ v[0] = base
        /\ \A i \in 1 .. n : v[i] = F[v[i - 1]][i]
    <3> HIDE DEF n, base, F
    <3> QED
      BY <1>3 DEF Iterates
  <2> HIDE DEF n, base
  <2>2. ASSUME NEW i \in 1 .. n PROVE v[i] = ConnectTx(v[i - 1], b[i], h)
    <3>1. v[i - 1] \in ConnectAcc
      BY <1>1, <2>1
    <3>2. QED
      BY <2>1, <3>1
  <2>3. QED
    BY <1>1, <2>1, <2>2
<1>5. Connecting(u, b, h) = CHOOSE w : P(w)
  BY DEF Connecting
<1>6. P(Connecting(u, b, h))
  <2> HIDE DEF P
  <2> QED
    BY <1>4, <1>5
<1> DEFINE s == Connecting(u, b, h)
<1>7. \A i \in 0 .. n : s[i] = IF i = 0 THEN base ELSE ConnectTx(s[i - 1], b[i], h)
  BY <1>6
<1>8. s = [i \in 0 .. n |-> s[i]]
  BY <1>6
<1>9. \A i \in 1 .. n : s[i - 1] \in ConnectAcc => s[i] = F[s[i - 1]][i]
  <2> HIDE DEF s, base
  <2> QED
    BY <1>1, <1>7
<1>10. s[0] = base
  <2> HIDE DEF s, base
  <2> QED
    BY <1>1, <1>7
<1>11. Iterates(s, ConnectAcc, n, base, F)
  <2> HIDE DEF s, n, base, F
  <2> QED
    BY <1>1, <1>2, <1>8, <1>9, <1>10, LoopIterates
<1>12. s \in [0 .. n -> ConnectAcc]
  <2> HIDE DEF s, n, base, F
  <2> QED
    BY <1>11 DEF Iterates
<1>13. \A i \in 1 .. n : s[i] = ConnectTx(s[i - 1], b[i], h)
  <2> HIDE DEF s, base
  <2> QED
    BY <1>1, <1>7
<1>14. QED
  BY <1>10, <1>12, <1>13

-----------------------------------------------------------------------------
LEMMA RestoreType ==
    ASSUME NEW acc \in UndoAcc, NEW in, in[1] \in Txids, in[2] \in Nat, NEW rec \in UndoRecs
    PROVE  Restore(acc, in, rec) \in UndoAcc
<1> DEFINE c == acc.utxo[in[1]]
           fresh == [Pruned EXCEPT !.fCoinBase = rec.fCoinBase, !.nHeight = rec.nHeight]
           base == IF rec.nHeight # 0 THEN fresh ELSE c
           d == [base EXCEPT !.outs = @ \cup {in[2]}]
<1>1. acc.utxo \in [Txids -> CCoins] /\ c \in CCoins
  BY DEF UndoAcc, Views
<1>2. fresh \in CCoins
  BY DEF Pruned, CCoins, UndoRecs
<1>3. base \in CCoins
  BY <1>1, <1>2
<1>4. d \in CCoins
  <2> HIDE DEF base
  <2> QED
    BY <1>3 DEF CCoins
<1>5. Restore(acc, in, rec) =
        [clean |-> acc.clean /\ (rec.nHeight # 0 <=> c = Pruned) /\ in[2] \notin base.outs,
         utxo |-> [acc.utxo EXCEPT ![in[1]] = d]]
  BY DEF Restore
<1> HIDE DEF d, base, c
<1>6. [acc.utxo EXCEPT ![in[1]] = d] \in [Txids -> CCoins]
  BY <1>1, <1>4
<1>7. (acc.clean /\ (rec.nHeight # 0 <=> c = Pruned) /\ in[2] \notin base.outs) \in BOOLEAN
  OBVIOUS
<1>8. QED
  BY <1>5, <1>6, <1>7 DEF UndoAcc, Views

LEMMA RestoringLoop ==
    ASSUME NEW acc \in UndoAcc, NEW x \in Txids, NEW recs \in Seq(UndoRecs), Len(recs) = Len(Inputs[x])
    PROVE  /\ Restoring(acc, x, recs) \in [0 .. Len(Inputs[x]) -> UndoAcc]
           /\ Restoring(acc, x, recs)[Len(Inputs[x])] = acc
           /\ \A j \in 0 .. Len(Inputs[x]) - 1 :
                 Restoring(acc, x, recs)[j] =
                     Restore(Restoring(acc, x, recs)[j + 1], Inputs[x][j + 1], recs[j + 1])
<1> DEFINE n == Len(Inputs[x])
           F == [a \in UndoAcc |-> [j \in 1 .. n |-> Restore(a, Inputs[x][j], recs[j])]]
           P(w) == w = [j \in 0 .. n |-> IF j = n THEN acc ELSE Restore(w[j + 1], Inputs[x][j + 1], recs[j + 1])]
<1>1. n \in Nat
  BY InputType
<1>2. F \in [UndoAcc -> [1 .. n -> UndoAcc]]
  <2>1. \A j \in 1 .. n : recs[j] \in UndoRecs /\ Inputs[x][j][1] \in Txids /\ Inputs[x][j][2] \in Nat
    BY InputType
  <2> HIDE DEF n
  <2>2. QED
    BY <2>1, RestoreType
<1>3. PICK v : IteratesDown(v, UndoAcc, n, acc, F)
  <2> HIDE DEF n, F
  <2> QED
    BY <1>1, <1>2, IterationDown
<1>4. P(v)
  <2>1. /\ v \in [0 .. n -> UndoAcc] /\ v[n] = acc
        /\ \A j \in 0 .. n - 1 : v[j] = F[v[j + 1]][j + 1]
    <3> HIDE DEF n, F
    <3> QED
      BY <1>3 DEF IteratesDown
  <2> HIDE DEF n
  <2>2. ASSUME NEW j \in 0 .. n - 1 PROVE v[j] = Restore(v[j + 1], Inputs[x][j + 1], recs[j + 1])
    <3>1. v[j + 1] \in UndoAcc /\ j + 1 \in 1 .. n
      BY <1>1, <2>1
    <3>2. v[j] = F[v[j + 1]][j + 1]
      BY <2>1
    <3>3. QED
      BY <3>1, <3>2
  <2>3. QED
    BY <1>1, <2>1, <2>2
<1>5. Restoring(acc, x, recs) = CHOOSE w : P(w)
  BY DEF Restoring
<1>6. P(Restoring(acc, x, recs))
  <2> HIDE DEF P
  <2> QED
    BY <1>4, <1>5
<1> DEFINE s == Restoring(acc, x, recs)
<1>7. \A j \in 0 .. n : s[j] = IF j = n THEN acc ELSE Restore(s[j + 1], Inputs[x][j + 1], recs[j + 1])
  BY <1>6
<1>8. s = [j \in 0 .. n |-> s[j]]
  BY <1>6
<1>9. \A j \in 0 .. n - 1 : s[j] = Restore(s[j + 1], Inputs[x][j + 1], recs[j + 1])
  <2> HIDE DEF s, n
  <2> QED
    BY <1>1, <1>7
<1>10. \A j \in 0 .. n - 1 : s[j + 1] \in UndoAcc => s[j] = F[s[j + 1]][j + 1]
  <2> SUFFICES ASSUME NEW j \in 0 .. n - 1, s[j + 1] \in UndoAcc PROVE s[j] = F[s[j + 1]][j + 1]
    OBVIOUS
  <2> HIDE DEF s, n
  <2>1. j + 1 \in 1 .. n
    BY <1>1
  <2>2. s[j] = Restore(s[j + 1], Inputs[x][j + 1], recs[j + 1])
    BY <1>9
  <2>3. QED
    BY <2>1, <2>2
<1>11. s[n] = acc
  BY <1>1, <1>7
<1>12. IteratesDown(s, UndoAcc, n, acc, F)
  <2> HIDE DEF s, n, F
  <2> QED
    BY <1>1, <1>2, <1>8, <1>10, <1>11, LoopIteratesDown
<1>13. s \in [0 .. n -> UndoAcc]
  <2> HIDE DEF s, n, F
  <2> QED
    BY <1>12 DEF IteratesDown
<1>14. QED
  BY <1>9, <1>11, <1>13

LEMMA ClearedType ==
    ASSUME NEW acc \in UndoAcc, NEW x \in Txids, NEW h
    PROVE  /\ Cleared(acc, x, h) \in UndoAcc
           /\ Cleared(acc, x, h).utxo = [acc.utxo EXCEPT ![x] = Pruned]
           /\ Cleared(acc, x, h).clean <=> (acc.clean /\ acc.utxo[x] = FromTx(x, h))
<1>1. acc.utxo \in [Txids -> CCoins] /\ Pruned \in CCoins
  BY DEF UndoAcc, Views, Pruned, CCoins
<1>2. [acc.utxo EXCEPT ![x] = Pruned] \in [Txids -> CCoins]
  BY <1>1
<1>3. (acc.clean /\ acc.utxo[x] = FromTx(x, h)) \in BOOLEAN
  OBVIOUS
<1>4. QED
  BY <1>2, <1>3 DEF Cleared, UndoAcc, Views

LEMMA UndoTxType ==
    ASSUME NEW acc \in UndoAcc, NEW x \in Txids, NEW recs \in Seq(UndoRecs), Len(recs) = Len(Inputs[x]), NEW h
    PROVE  UndoTx(acc, x, recs, h) \in UndoAcc
<1>1. Cleared(acc, x, h) \in UndoAcc
  BY ClearedType
<1>2. Restoring(Cleared(acc, x, h), x, recs) \in [0 .. Len(Inputs[x]) -> UndoAcc]
  BY <1>1, RestoringLoop
<1>3. 0 \in 0 .. Len(Inputs[x])
  BY InputType
<1>4. QED
  BY <1>2, <1>3 DEF UndoTx

\* The undo data fits the block.
Fits(recs, b) ==
    /\ recs \in Seq(Seq(UndoRecs)) /\ Len(recs) = Len(b)
    /\ \A i \in 1 .. Len(b) : Len(recs[i]) = Len(Inputs[b[i]])

LEMMA UndoingLoop ==
    ASSUME NEW u \in Views, NEW b \in Seq(Txids), NEW recs, Fits(recs, b), NEW h
    PROVE  /\ Undoing(u, b, recs, h) \in [0 .. Len(b) -> UndoAcc]
           /\ Undoing(u, b, recs, h)[Len(b)] = [clean |-> TRUE, utxo |-> u]
           /\ \A i \in 0 .. Len(b) - 1 :
                 Undoing(u, b, recs, h)[i] = UndoTx(Undoing(u, b, recs, h)[i + 1], b[i + 1], recs[i + 1], h)
<1> DEFINE n == Len(b)
           base == [clean |-> TRUE, utxo |-> u]
           F == [a \in UndoAcc |-> [i \in 1 .. n |-> UndoTx(a, b[i], recs[i], h)]]
           P(w) == w = [i \in 0 .. n |-> IF i = n THEN base ELSE UndoTx(w[i + 1], b[i + 1], recs[i + 1], h)]
<1>1. n \in Nat /\ base \in UndoAcc
  BY DEF UndoAcc
<1>2. F \in [UndoAcc -> [1 .. n -> UndoAcc]]
  <2>1. \A i \in 1 .. n : b[i] \in Txids /\ recs[i] \in Seq(UndoRecs) /\ Len(recs[i]) = Len(Inputs[b[i]])
    BY DEF Fits
  <2> HIDE DEF n
  <2>2. QED
    BY <2>1, UndoTxType
<1> HIDE DEF base
<1>3. PICK v : IteratesDown(v, UndoAcc, n, base, F)
  <2> HIDE DEF n, F
  <2> QED
    BY <1>1, <1>2, IterationDown
<1>4. P(v)
  <2>1. /\ v \in [0 .. n -> UndoAcc] /\ v[n] = base
        /\ \A i \in 0 .. n - 1 : v[i] = F[v[i + 1]][i + 1]
    <3> HIDE DEF n, F
    <3> QED
      BY <1>3 DEF IteratesDown
  <2> HIDE DEF n
  <2>2. ASSUME NEW i \in 0 .. n - 1 PROVE v[i] = UndoTx(v[i + 1], b[i + 1], recs[i + 1], h)
    <3>1. v[i + 1] \in UndoAcc /\ i + 1 \in 1 .. n
      BY <1>1, <2>1
    <3>2. v[i] = F[v[i + 1]][i + 1]
      BY <2>1
    <3>3. QED
      BY <3>1, <3>2
  <2>3. QED
    BY <1>1, <2>1, <2>2
<1>5. Undoing(u, b, recs, h) = CHOOSE w : P(w)
  BY DEF Undoing, base
<1>6. P(Undoing(u, b, recs, h))
  <2> HIDE DEF P
  <2> QED
    BY <1>4, <1>5
<1> DEFINE s == Undoing(u, b, recs, h)
<1>7. \A i \in 0 .. n : s[i] = IF i = n THEN base ELSE UndoTx(s[i + 1], b[i + 1], recs[i + 1], h)
  BY <1>6
<1>8. s = [i \in 0 .. n |-> s[i]]
  BY <1>6
<1>9. \A i \in 0 .. n - 1 : s[i] = UndoTx(s[i + 1], b[i + 1], recs[i + 1], h)
  <2> HIDE DEF s, n
  <2> QED
    BY <1>1, <1>7
<1>10. \A i \in 0 .. n - 1 : s[i + 1] \in UndoAcc => s[i] = F[s[i + 1]][i + 1]
  <2> SUFFICES ASSUME NEW i \in 0 .. n - 1, s[i + 1] \in UndoAcc PROVE s[i] = F[s[i + 1]][i + 1]
    OBVIOUS
  <2> HIDE DEF s, n
  <2>1. i + 1 \in 1 .. n
    BY <1>1
  <2>2. s[i] = UndoTx(s[i + 1], b[i + 1], recs[i + 1], h)
    BY <1>9
  <2>3. QED
    BY <2>1, <2>2
<1>11. s[n] = base
  BY <1>1, <1>7
<1>12. IteratesDown(s, UndoAcc, n, base, F)
  <2> HIDE DEF s, n, F
  <2> QED
    BY <1>1, <1>2, <1>8, <1>10, <1>11, LoopIteratesDown
<1>13. s \in [0 .. n -> UndoAcc]
  <2> HIDE DEF s, n, F
  <2> QED
    BY <1>12 DEF IteratesDown
<1>14. QED
  BY <1>9, <1>11, <1>13 DEF base

-----------------------------------------------------------------------------
(* The coins of x as the code keeps them: nothing but Pruned is empty, a   *)
(* height is never 0, and only a coinstake is marked as one.               *)
GoodCoins(x, c) ==
    /\ c \in CCoins
    /\ c.outs = {} => c = Pruned
    /\ c.outs # {} => c.nHeight # 0
    /\ Kind[x] # "coinstake" => c.fCoinStake = FALSE
GoodView(u) == u \in Views /\ \A x \in Txids : GoodCoins(x, u[x])

(* Two views that differ at most in the flag fCoinStake.                   *)
AlikeCoins(c, d) == c.outs = d.outs /\ c.nHeight = d.nHeight /\ c.fCoinBase = d.fCoinBase
Alike(u, v) == \A x \in Txids : AlikeCoins(u[x], v[x])

LEMMA CoinsFields ==
    ASSUME NEW outs, NEW h, NEW cb, NEW cs
    PROVE  /\ Coins(outs, h, cb, cs).outs = outs
           /\ outs # {} => /\ Coins(outs, h, cb, cs).nHeight = h
                           /\ Coins(outs, h, cb, cs).fCoinBase = cb
                           /\ Coins(outs, h, cb, cs).fCoinStake = cs
           /\ outs = {} => Coins(outs, h, cb, cs) = Pruned
  BY DEF Coins, Pruned

LEMMA PrunedFields ==
    /\ Pruned \in CCoins /\ Pruned.outs = {} /\ Pruned.nHeight = 0
    /\ Pruned.fCoinBase = FALSE /\ Pruned.fCoinStake = FALSE
    /\ \A x : GoodCoins(x, Pruned)
  BY DEF Pruned, CCoins, GoodCoins

LEMMA CoinFields ==
    ASSUME NEW c \in CCoins
    PROVE  /\ c.outs \in SUBSET Nat /\ c.nHeight \in Nat /\ c.fCoinBase \in BOOLEAN /\ c.fCoinStake \in BOOLEAN
           /\ c = [outs |-> c.outs, nHeight |-> c.nHeight, fCoinBase |-> c.fCoinBase, fCoinStake |-> c.fCoinStake]
  BY DEF CCoins

(* Equal fields, equal coins.                                              *)
LEMMA SameCoins ==
    ASSUME NEW c \in CCoins, NEW d \in CCoins, AlikeCoins(c, d), c.fCoinStake = d.fCoinStake
    PROVE  c = d
  BY DEF CCoins, AlikeCoins

LEMMA CoinsGood ==
    ASSUME NEW x, NEW c, GoodCoins(x, c), NEW outs \in SUBSET c.outs
    PROVE  /\ GoodCoins(x, Coins(outs, c.nHeight, c.fCoinBase, c.fCoinStake))
           /\ Coins(c.outs, c.nHeight, c.fCoinBase, c.fCoinStake) = c
<1> DEFINE d == Coins(outs, c.nHeight, c.fCoinBase, c.fCoinStake)
<1>1. /\ c \in CCoins /\ c.outs \in SUBSET Nat /\ c.nHeight \in Nat
      /\ c.fCoinBase \in BOOLEAN /\ c.fCoinStake \in BOOLEAN
  BY CoinFields DEF GoodCoins
<1>2. d \in CCoins
  <2>1. outs \in SUBSET Nat
    BY <1>1
  <2>2. QED
    BY <1>1, <2>1, CoinsType
<1>3. d.outs = outs /\ (outs = {} => d = Pruned)
  BY CoinsFields
<1>4. outs # {} => d.nHeight = c.nHeight /\ d.fCoinStake = c.fCoinStake
  BY CoinsFields
<1>5. GoodCoins(x, d)
  <2> HIDE DEF d
  <2>1. CASE outs = {}
    BY <1>3, <2>1, PrunedFields
  <2>2. CASE outs # {}
    BY <1>2, <1>3, <1>4, <2>2 DEF GoodCoins
  <2>3. QED
    BY <2>1, <2>2
<1>6. Coins(c.outs, c.nHeight, c.fCoinBase, c.fCoinStake) = c
  <2>1. CASE c.outs = {}
    BY <2>1, CoinsFields DEF GoodCoins
  <2>2. CASE c.outs # {}
    BY <1>1, <2>2, CoinFields DEF Coins
  <2>3. QED
    BY <2>1, <2>2
<1>7. QED
  BY <1>5, <1>6

LEMMA FromTxGood ==
    ASSUME NEW x \in Txids, NEW h \in Nat, h # 0
    PROVE  GoodCoins(x, FromTx(x, h)) /\ FromTx(x, h).outs = Outputs[x]
<1> DEFINE d == FromTx(x, h)
<1>1. d \in CCoins
  BY FromTxType
<1>2. d.outs = Outputs[x] /\ (Outputs[x] = {} => d = Pruned)
  BY CoinsFields DEF FromTx
<1>3. Outputs[x] # {} => d.nHeight = h /\ d.fCoinStake = (Kind[x] = "coinstake")
  BY CoinsFields DEF FromTx
<1>4. GoodCoins(x, d)
  <2> HIDE DEF d
  <2>1. CASE Outputs[x] = {}
    BY <1>2, <2>1, PrunedFields
  <2>2. CASE Outputs[x] # {}
    BY <1>1, <1>2, <1>3, <2>2 DEF GoodCoins
  <2>3. QED
    BY <2>1, <2>2
<1>5. QED
  BY <1>2, <1>4

-----------------------------------------------------------------------------
(* DisconnectBlock undoes ConnectBlock: an input, a transaction, a block.  *)

(* What CCoins::Spend changes, and its undo record.                        *)
LEMMA SpendFacts ==
    ASSUME NEW acc \in SpendAcc, NEW y \in Txids, NEW m \in Nat
    PROVE  LET c == acc.utxo[y]
               left == c.outs \ {m}
               t == Spend(acc, <<y, m>>)
           IN  /\ t.utxo \in Views
               /\ t.utxo[y] = Coins(left, c.nHeight, c.fCoinBase, c.fCoinStake)
               /\ \A z \in Txids \ {y} : t.utxo[z] = acc.utxo[z]
               /\ t.undo = Append(acc.undo,
                    IF left = {} THEN [nHeight |-> c.nHeight, fCoinBase |-> c.fCoinBase, fCoinStake |-> c.fCoinStake]
                    ELSE [nHeight |-> 0, fCoinBase |-> FALSE, fCoinStake |-> FALSE])
<1> DEFINE c == acc.utxo[y]
           left == c.outs \ {m}
           d == Coins(left, c.nHeight, c.fCoinBase, c.fCoinStake)
           t == Spend(acc, <<y, m>>)
           r == IF left = {} THEN [nHeight |-> c.nHeight, fCoinBase |-> c.fCoinBase, fCoinStake |-> c.fCoinStake]
                ELSE [nHeight |-> 0, fCoinBase |-> FALSE, fCoinStake |-> FALSE]
<1>1. t = [utxo |-> [acc.utxo EXCEPT ![y] = d], undo |-> Append(acc.undo, r)]
  BY DEF Spend
<1>2. t.utxo \in Views
  BY SpendType DEF SpendAcc
<1>3. acc.utxo \in [Txids -> CCoins]
  BY DEF SpendAcc, Views
<1> HIDE DEF d, r, t
<1>4. t.utxo = [acc.utxo EXCEPT ![y] = d] /\ t.undo = Append(acc.undo, r)
  BY <1>1
<1>5. t.utxo[y] = d /\ (\A z \in Txids \ {y} : t.utxo[z] = acc.utxo[z])
  BY <1>3, <1>4
<1>6. QED
  BY <1>2, <1>4, <1>5 DEF d, r, t

(* Restore of the output that Spend took, with its record, gives the       *)
(* earlier view back; all that can be lost is fCoinStake.                  *)
LEMMA RestoreInverse ==
    ASSUME NEW acc \in SpendAcc, GoodView(acc.utxo), NEW y \in Txids, NEW m \in acc.utxo[y].outs,
           NEW w \in UndoAcc, GoodView(w.utxo), Alike(w.utxo, Spend(acc, <<y, m>>).utxo),
           NEW rec \in UndoRecs,
           LET c == acc.utxo[y]
           IN  rec = IF c.outs \ {m} = {}
                     THEN [nHeight |-> c.nHeight, fCoinBase |-> c.fCoinBase, fCoinStake |-> c.fCoinStake]
                     ELSE [nHeight |-> 0, fCoinBase |-> FALSE, fCoinStake |-> FALSE]
    PROVE  LET r == Restore(w, <<y, m>>, rec)
           IN  GoodView(r.utxo) /\ Alike(r.utxo, acc.utxo) /\ (r.clean <=> w.clean)
<1> DEFINE c == acc.utxo[y]
           left == c.outs \ {m}
           e == w.utxo[y]
           fresh == [Pruned EXCEPT !.fCoinBase = rec.fCoinBase, !.nHeight = rec.nHeight]
           base == IF rec.nHeight # 0 THEN fresh ELSE e
           d == [base EXCEPT !.outs = @ \cup {m}]
           r == Restore(w, <<y, m>>, rec)
<1>1. GoodCoins(y, c) /\ GoodCoins(y, e)
  BY DEF GoodView
<1>2. /\ c \in CCoins /\ c.outs \in SUBSET Nat /\ c.nHeight \in Nat /\ c.nHeight # 0 /\ m \in Nat
      /\ e \in CCoins
  BY <1>1, CoinFields DEF GoodCoins
<1>3. AlikeCoins(e, Coins(left, c.nHeight, c.fCoinBase, c.fCoinStake))
  <2>1. Spend(acc, <<y, m>>).utxo[y] = Coins(left, c.nHeight, c.fCoinBase, c.fCoinStake)
    BY <1>2, SpendFacts
  <2>2. QED
    BY <2>1 DEF Alike
<1>4. r = [clean |-> w.clean /\ (rec.nHeight # 0 <=> e = Pruned) /\ m \notin base.outs,
           utxo |-> [w.utxo EXCEPT ![y] = d]]
  BY DEF Restore
<1>5. /\ d \in CCoins /\ d.outs = c.outs /\ d.nHeight = c.nHeight /\ d.fCoinBase = c.fCoinBase
      /\ (Kind[y] # "coinstake" => d.fCoinStake = FALSE)
      /\ (rec.nHeight # 0 <=> e = Pruned) /\ m \notin base.outs
  <2>1. CASE left = {}
    <3>1. rec.nHeight = c.nHeight /\ rec.fCoinBase = c.fCoinBase /\ c.outs = {m}
      BY <2>1
    <3>2. base = fresh /\ rec.nHeight # 0
      BY <1>2, <3>1
    <3>3. /\ fresh \in CCoins /\ fresh.outs = {} /\ fresh.nHeight = c.nHeight
          /\ fresh.fCoinBase = c.fCoinBase /\ fresh.fCoinStake = FALSE
      BY <3>1 DEF Pruned, CCoins, UndoRecs
    <3>4. e.outs = {} /\ e = Pruned
      <4>1. Coins(left, c.nHeight, c.fCoinBase, c.fCoinStake).outs = {}
        BY <2>1, CoinsFields
      <4>2. e.outs = {}
        BY <1>3, <4>1 DEF AlikeCoins
      <4>3. QED
        BY <1>1, <4>2 DEF GoodCoins
    <3> HIDE DEF fresh, base
    <3>5. /\ d \in CCoins /\ d.outs = {m} /\ d.nHeight = fresh.nHeight
          /\ d.fCoinBase = fresh.fCoinBase /\ d.fCoinStake = fresh.fCoinStake
      BY <1>2, <3>2, <3>3 DEF CCoins
    <3> HIDE DEF d
    <3>6. QED
      BY <3>1, <3>2, <3>3, <3>4, <3>5
  <2>2. CASE left # {}
    <3>1. rec.nHeight = 0
      BY <2>2
    <3>2. base = e
      BY <3>1
    <3>3. e.outs = left /\ e.nHeight = c.nHeight /\ e.fCoinBase = c.fCoinBase
      BY <1>3, <2>2, CoinsFields DEF AlikeCoins
    <3>4. e # Pruned
      BY <2>2, <3>3, PrunedFields
    <3>5. Kind[y] # "coinstake" => e.fCoinStake = FALSE
      BY <1>1 DEF GoodCoins
    <3> HIDE DEF base
    <3>6. /\ d \in CCoins /\ d.outs = e.outs \cup {m} /\ d.nHeight = e.nHeight
          /\ d.fCoinBase = e.fCoinBase /\ d.fCoinStake = e.fCoinStake
      <4> HIDE DEF e
      <4> QED
        BY <1>2, <3>2 DEF CCoins
    <3>7. e.outs \cup {m} = c.outs /\ m \notin e.outs
      BY <3>3
    <3> HIDE DEF d
    <3>8. QED
      BY <3>1, <3>2, <3>3, <3>4, <3>5, <3>6, <3>7
  <2>3. QED
    BY <2>1, <2>2
<1> HIDE DEF d, base
<1>6. w.utxo \in [Txids -> CCoins]
  BY DEF UndoAcc, Views
<1> HIDE DEF r
<1>7. /\ r.utxo \in [Txids -> CCoins] /\ r.utxo[y] = d
      /\ \A z \in Txids \ {y} : r.utxo[z] = w.utxo[z]
      /\ r.clean <=> w.clean
  <2>1. r.utxo = [w.utxo EXCEPT ![y] = d]
    BY <1>4
  <2>2. r.clean = (w.clean /\ (rec.nHeight # 0 <=> e = Pruned) /\ m \notin base.outs)
    BY <1>4
  <2>3. d \in CCoins
    BY <1>5
  <2>4. r.clean <=> w.clean
    BY <1>5, <2>2
  <2>5. QED
    BY <1>6, <2>1, <2>3, <2>4
<1>8. GoodCoins(y, d)
  BY <1>2, <1>5 DEF GoodCoins
<1>9. AlikeCoins(d, c)
  BY <1>5 DEF AlikeCoins
<1>10. GoodView(r.utxo)
  <2> SUFFICES ASSUME NEW z \in Txids PROVE GoodCoins(z, r.utxo[z])
    BY <1>7 DEF GoodView, Views
  <2>1. GoodCoins(z, w.utxo[z])
    BY DEF GoodView
  <2>2. QED
    BY <1>7, <1>8, <2>1
<1>11. Alike(r.utxo, acc.utxo)
  <2> SUFFICES ASSUME NEW z \in Txids PROVE AlikeCoins(r.utxo[z], acc.utxo[z])
    BY DEF Alike
  <2>1. CASE z = y
    BY <1>7, <1>9, <2>1
  <2>2. CASE z # y
    <3>1. \A q \in Txids \ {y} : Spend(acc, <<y, m>>).utxo[q] = acc.utxo[q]
      BY <1>2, SpendFacts
    <3>2. QED
      BY <1>7, <2>2, <3>1 DEF Alike
  <2>3. QED
    BY <2>1, <2>2
<1>12. QED
  BY <1>5, <1>7, <1>10, <1>11 DEF r

-----------------------------------------------------------------------------
(* The outputs of y among the first j inputs of x.                         *)
Taken(x, j, y) == {m \in Nat : \E i \in 1 .. j : Inputs[x][i] = <<y, m>>}

(* The loop of UpdateCoins takes the inputs out, one after the other, and  *)
(* keeps the metadata.                                                     *)
LEMMA SpendingCoins ==
    ASSUME NEW u, GoodView(u), NEW x \in Txids
    PROVE  \A j \in 0 .. Len(Inputs[x]) : \A y \in Txids :
              Spending(u, x)[j].utxo[y] =
                  Coins(u[y].outs \ Taken(x, j, y), u[y].nHeight, u[y].fCoinBase, u[y].fCoinStake)
<1> DEFINE n == Len(Inputs[x])
           s == Spending(u, x)
           left(j, y) == u[y].outs \ Taken(x, j, y)
           G(j) == \A y \in Txids :
                      s[j].utxo[y] = Coins(left(j, y), u[y].nHeight, u[y].fCoinBase, u[y].fCoinStake)
           S == {j \in 0 .. n : G(j)}
<1>1. /\ n \in Nat /\ u \in Views
      /\ s \in [0 .. n -> SpendAcc] /\ s[0] = [utxo |-> u, undo |-> <<>>]
      /\ \A j \in 1 .. n : s[j] = Spend(s[j - 1], Inputs[x][j])
  BY InputType, SpendingLoop DEF GoodView
<1> HIDE DEF s
<1>2. G(0)
  <2> SUFFICES ASSUME NEW y \in Txids
               PROVE  s[0].utxo[y] = Coins(left(0, y), u[y].nHeight, u[y].fCoinBase, u[y].fCoinStake)
    OBVIOUS
  <2>1. left(0, y) = u[y].outs
    BY DEF Taken
  <2>2. GoodCoins(y, u[y])
    BY DEF GoodView
  <2>3. s[0].utxo = u
    BY <1>1
  <2> HIDE DEF left
  <2>4. QED
    BY <2>1, <2>2, <2>3, CoinsGood
<1>3. ASSUME NEW j \in 1 .. n, G(j - 1) PROVE G(j)
  <2> SUFFICES ASSUME NEW y \in Txids
               PROVE  s[j].utxo[y] = Coins(left(j, y), u[y].nHeight, u[y].fCoinBase, u[y].fCoinStake)
    OBVIOUS
  <2>1. PICK z \in Txids, m \in Nat : Inputs[x][j] = <<z, m>>
    BY InputType
  <2>2. s[j - 1] \in SpendAcc /\ s[j] = Spend(s[j - 1], <<z, m>>)
    <3>1. j - 1 \in 0 .. n
      BY <1>1
    <3>2. s[j] = Spend(s[j - 1], Inputs[x][j])
      BY <1>1
    <3> HIDE DEF n
    <3>3. QED
      BY <1>1, <2>1, <3>1, <3>2
  <2>3. s[j - 1].utxo[y] = Coins(left(j - 1, y), u[y].nHeight, u[y].fCoinBase, u[y].fCoinStake)
    BY <1>3
  <2>4. CASE y # z
    <3>1. Taken(x, j, y) = Taken(x, j - 1, y)
      <4>1. \A i \in 1 .. j : i = j \/ i \in 1 .. j - 1
        OBVIOUS
      <4>2. \A i \in 1 .. j - 1 : i \in 1 .. j
        OBVIOUS
      <4>3. \A k \in Nat : Inputs[x][j] # <<y, k>>
        BY <2>1, <2>4
      <4>4. QED
        BY <4>1, <4>2, <4>3 DEF Taken
    <3>2. s[j].utxo[y] = s[j - 1].utxo[y]
      <4>1. \A q \in Txids \ {z} : Spend(s[j - 1], <<z, m>>).utxo[q] = s[j - 1].utxo[q]
        BY <2>2, SpendFacts
      <4>2. QED
        BY <2>2, <2>4, <4>1
    <3>3. QED
      BY <2>3, <3>1, <3>2
  <2>5. CASE y = z
    <3> DEFINE c == s[j - 1].utxo[y]
    <3>1. c.outs = left(j - 1, y)
      BY <2>3, CoinsFields
    <3>2. left(j, y) = c.outs \ {m}
      <4>1. \A i \in 1 .. j : i = j \/ i \in 1 .. j - 1
        OBVIOUS
      <4>2. \A i \in 1 .. j - 1 : i \in 1 .. j
        OBVIOUS
      <4>3. \A k \in Nat : Inputs[x][j] = <<y, k>> <=> k = m
        BY <2>1, <2>5
      <4>4. j \in 1 .. j
        OBVIOUS
      <4>5. Taken(x, j, y) = Taken(x, j - 1, y) \cup {m}
        BY <4>1, <4>2, <4>3, <4>4 DEF Taken
      <4>6. QED
        BY <3>1, <4>5
    <3>3. s[j].utxo[y] = Coins(c.outs \ {m}, c.nHeight, c.fCoinBase, c.fCoinStake)
      <4>1. LET d == s[j - 1].utxo[z]
            IN  Spend(s[j - 1], <<z, m>>).utxo[z] = Coins(d.outs \ {m}, d.nHeight, d.fCoinBase, d.fCoinStake)
        BY <2>2, SpendFacts
      <4>2. QED
        BY <2>2, <2>5, <4>1
    <3>4. CASE c.outs = {}
      <4>1. left(j, y) = {} /\ c.outs \ {m} = {}
        BY <3>2, <3>4
      <4> HIDE DEF c, left
      <4>2. QED
        BY <3>3, <4>1, CoinsFields
    <3>5. CASE c.outs # {}
      <4> DEFINE L == left(j - 1, y)
      <4>1. c = Coins(L, u[y].nHeight, u[y].fCoinBase, u[y].fCoinStake) /\ L # {}
        BY <2>3, <3>1, <3>5
      <4> HIDE DEF c, left, L
      <4>2. c.nHeight = u[y].nHeight /\ c.fCoinBase = u[y].fCoinBase /\ c.fCoinStake = u[y].fCoinStake
        BY <4>1, CoinsFields
      <4>3. QED
        BY <3>2, <3>3, <4>2
    <3>6. QED
      BY <3>4, <3>5
  <2>6. QED
    BY <2>4, <2>5
<1>4. \A j \in 0 .. n : j \in S
  <2> HIDE DEF n, G
  <2>1. 0 \in S
    BY <1>1, <1>2
  <2>2. \A j \in 1 .. n : j - 1 \in S => j \in S
    BY <1>3
  <2> HIDE DEF S
  <2>3. QED
    BY <1>1, <2>1, <2>2, SetInduction
<1>5. QED
  BY <1>4 DEF s

(* The undo record of output m of the coins c.                             *)
SpendRec(c, m) ==
    IF c.outs \ {m} = {} THEN [nHeight |-> c.nHeight, fCoinBase |-> c.fCoinBase, fCoinStake |-> c.fCoinStake]
    ELSE [nHeight |-> 0, fCoinBase |-> FALSE, fCoinStake |-> FALSE]

LEMMA SpendUndo ==
    ASSUME NEW acc \in SpendAcc, NEW y \in Txids, NEW m \in Nat
    PROVE  Spend(acc, <<y, m>>).undo = Append(acc.undo, SpendRec(acc.utxo[y], m))
  BY SpendFacts DEF SpendRec

(* There is one record for each input, in their order.                     *)
LEMMA SpendingUndo ==
    ASSUME NEW u \in Views, NEW x \in Txids
    PROVE  \A j \in 0 .. Len(Inputs[x]) :
              /\ Spending(u, x)[j].undo \in Seq(UndoRecs) /\ Len(Spending(u, x)[j].undo) = j
              /\ \A k \in 1 .. j : Spending(u, x)[j].undo[k] =
                    SpendRec(Spending(u, x)[k - 1].utxo[Inputs[x][k][1]], Inputs[x][k][2])
<1> DEFINE n == Len(Inputs[x])
           s == Spending(u, x)
           rec(k) == SpendRec(s[k - 1].utxo[Inputs[x][k][1]], Inputs[x][k][2])
           G(j) == /\ s[j].undo \in Seq(UndoRecs) /\ Len(s[j].undo) = j
                   /\ \A k \in 1 .. j : s[j].undo[k] = rec(k)
           S == {j \in 0 .. n : G(j)}
<1>1. /\ n \in Nat
      /\ s \in [0 .. n -> SpendAcc] /\ s[0] = [utxo |-> u, undo |-> <<>>]
      /\ \A j \in 1 .. n : s[j] = Spend(s[j - 1], Inputs[x][j])
  BY InputType, SpendingLoop
<1> HIDE DEF s
<1>2. G(0)
  <2>1. s[0].undo = <<>>
    BY <1>1
  <2> HIDE DEF rec
  <2>2. QED
    BY <2>1
<1>3. ASSUME NEW j \in 1 .. n, G(j - 1) PROVE G(j)
  <2>1. PICK z \in Txids, m \in Nat : Inputs[x][j] = <<z, m>>
    BY InputType
  <2>2. j - 1 \in 0 .. n /\ j \in 0 .. n
    BY <1>1
  <2>3. s[j - 1] \in SpendAcc /\ s[j] \in SpendAcc
    BY <1>1, <2>2
  <2>4. s[j] = Spend(s[j - 1], <<z, m>>)
    BY <1>1, <2>1
  <2>5. s[j].undo = Append(s[j - 1].undo, rec(j))
    <3>1. Spend(s[j - 1], <<z, m>>).undo = Append(s[j - 1].undo, SpendRec(s[j - 1].utxo[z], m))
      BY <2>3, SpendUndo
    <3>2. Inputs[x][j][1] = z /\ Inputs[x][j][2] = m
      BY <2>1
    <3>3. QED
      BY <2>4, <3>1, <3>2
  <2>6. s[j].undo \in Seq(UndoRecs)
    BY <2>3 DEF SpendAcc
  <2> HIDE DEF rec
  <2>7. s[j - 1].undo \in Seq(UndoRecs) /\ Len(s[j - 1].undo) = j - 1
    BY <1>3
  <2>8. Len(s[j].undo) = j
    BY <2>5, <2>7
  <2>9. ASSUME NEW k \in 1 .. j PROVE s[j].undo[k] = rec(k)
    <3>1. CASE k = j
      BY <2>5, <2>7, <3>1
    <3>2. CASE k # j
      <4>1. k \in 1 .. j - 1
        BY <3>2
      <4>2. s[j - 1].undo[k] = rec(k)
        BY <1>3, <4>1
      <4>3. QED
        BY <2>5, <2>7, <4>1, <4>2
    <3>3. QED
      BY <3>1, <3>2
  <2>10. QED
    BY <2>6, <2>8, <2>9
<1>4. \A j \in 0 .. n : j \in S
  <2> HIDE DEF n, G
  <2>1. 0 \in S
    BY <1>1, <1>2
  <2>2. \A j \in 1 .. n : j - 1 \in S => j \in S
    BY <1>3
  <2> HIDE DEF S
  <2>3. QED
    BY <1>1, <2>1, <2>2, SetInduction
<1>5. QED
  BY <1>4 DEF s

(* On the way the views are good and the next input is still there.        *)
LEMMA SpendingGood ==
    ASSUME NEW u, GoodView(u), NEW x \in Txids, NEW j \in 0 .. Len(Inputs[x])
    PROVE  GoodView(Spending(u, x)[j].utxo)
<1> DEFINE s == Spending(u, x)
<1>1. s[j].utxo \in Views
  <2>1. s[j] \in SpendAcc
    BY SpendingLoop DEF GoodView
  <2>2. QED
    BY <2>1 DEF SpendAcc
<1>2. ASSUME NEW y \in Txids PROVE GoodCoins(y, s[j].utxo[y])
  <2>1. GoodCoins(y, u[y])
    BY DEF GoodView
  <2> DEFINE left == u[y].outs \ Taken(x, j, y)
  <2>2. left \in SUBSET u[y].outs
    OBVIOUS
  <2>3. s[j].utxo[y] = Coins(left, u[y].nHeight, u[y].fCoinBase, u[y].fCoinStake)
    BY SpendingCoins
  <2> HIDE DEF left
  <2>4. QED
    BY <2>1, <2>2, <2>3, CoinsGood
<1>3. QED
  BY <1>1, <1>2 DEF GoodView

LEMMA NextInputThere ==
    ASSUME NEW u, GoodView(u), NEW x \in Txids, NEW h, Acceptable(u, x, h), NEW j \in 1 .. Len(Inputs[x])
    PROVE  Inputs[x][j][2] \in Spending(u, x)[j - 1].utxo[Inputs[x][j][1]].outs
<1>1. PICK z \in Txids, m \in Nat : Inputs[x][j] = <<z, m>>
  BY InputType
<1>2. j - 1 \in 0 .. Len(Inputs[x]) /\ j \in DOMAIN Inputs[x]
  BY InputType
<1>3. Spending(u, x)[j - 1].utxo[z] =
         Coins(u[z].outs \ Taken(x, j - 1, z), u[z].nHeight, u[z].fCoinBase, u[z].fCoinStake)
  BY <1>2, SpendingCoins
<1>4. Spending(u, x)[j - 1].utxo[z].outs = u[z].outs \ Taken(x, j - 1, z)
  BY <1>3, CoinsFields
<1>5. m \in u[z].outs
  BY <1>1, <1>2 DEF Acceptable
<1>6. m \notin Taken(x, j - 1, z)
  <2>1. SUFFICES ASSUME NEW i \in 1 .. j - 1, Inputs[x][i] = <<z, m>> PROVE FALSE
    BY DEF Taken
  <2>2. i \in DOMAIN Inputs[x] /\ i # j
    BY InputType
  <2>3. IsInjective(Inputs[x])
    BY UndoAssumption
  <2>4. QED
    BY <1>1, <1>2, <2>1, <2>2, <2>3 DEF IsInjective
<1>7. QED
  BY <1>1, <1>4, <1>5, <1>6

(* UndoTx takes back what UpdateCoins did: every test of DisconnectBlock   *)
(* passes but the one on the outputs of x itself.                          *)
LEMMA UndoTxInverse ==
    ASSUME NEW u, GoodView(u), NEW x \in Txids, NEW h \in Nat, h # 0, Acceptable(u, x, h),
           NEW acc \in UndoAcc, GoodView(acc.utxo), Alike(acc.utxo, UpdateCoins(u, x, h).utxo)
    PROVE  LET r == UndoTx(acc, x, UpdateCoins(u, x, h).undo, h)
           IN  /\ GoodView(r.utxo) /\ Alike(r.utxo, u)
               /\ r.clean <=> (acc.clean /\ acc.utxo[x] = FromTx(x, h))
<1> DEFINE n == Len(Inputs[x])
           s == Spending(u, x)
           recs == s[n].undo
           cl == Cleared(acc, x, h)
           w == Restoring(cl, x, recs)
           G(j) == /\ GoodView(w[j].utxo) /\ Alike(w[j].utxo, s[j].utxo)
                   /\ w[j].clean <=> cl.clean
           S == {j \in 0 .. n : G(j)}
<1>1. /\ n \in Nat /\ u \in Views
      /\ s \in [0 .. n -> SpendAcc] /\ s[0] = [utxo |-> u, undo |-> <<>>]
      /\ \A j \in 1 .. n : s[j] = Spend(s[j - 1], Inputs[x][j])
  BY InputType, SpendingLoop DEF GoodView
<1>2. /\ recs \in Seq(UndoRecs) /\ Len(recs) = n
      /\ \A k \in 1 .. n : recs[k] = SpendRec(s[k - 1].utxo[Inputs[x][k][1]], Inputs[x][k][2])
  <2>1. n \in 0 .. n
    BY <1>1
  <2>2. QED
    BY <1>1, <2>1, SpendingUndo
<1>3. UpdateCoins(u, x, h) = [utxo |-> [s[n].utxo EXCEPT ![x] = FromTx(x, h)], undo |-> recs]
  BY DEF UpdateCoins
<1>4. /\ cl \in UndoAcc /\ cl.utxo = [acc.utxo EXCEPT ![x] = Pruned]
      /\ cl.clean <=> (acc.clean /\ acc.utxo[x] = FromTx(x, h))
  BY ClearedType
<1>5. /\ w \in [0 .. n -> UndoAcc] /\ w[n] = cl
      /\ \A j \in 0 .. n - 1 : w[j] = Restore(w[j + 1], Inputs[x][j + 1], recs[j + 1])
  BY <1>2, <1>4, RestoringLoop
<1>6. UndoTx(acc, x, UpdateCoins(u, x, h).undo, h) = w[0]
  <2> HIDE DEF s, n
  <2> QED
    BY <1>3 DEF UndoTx
<1> HIDE DEF w, cl, s, recs
<1>7. G(n)
  <2>1. s[n] \in SpendAcc /\ n \in 0 .. n
    BY <1>1
  <2>2. s[n].utxo \in [Txids -> CCoins] /\ acc.utxo \in [Txids -> CCoins]
    BY <2>1 DEF SpendAcc, UndoAcc, Views
  <2>3. UpdateCoins(u, x, h).utxo = [s[n].utxo EXCEPT ![x] = FromTx(x, h)]
    BY <1>3
  <2>4. s[n].utxo[x] = Pruned
    <3>1. u[x] = Pruned
      BY DEF Acceptable
    <3>2. s[n].utxo[x] = Coins(u[x].outs \ Taken(x, n, x), u[x].nHeight, u[x].fCoinBase, u[x].fCoinStake)
      BY <2>1, SpendingCoins DEF s
    <3>3. u[x].outs \ Taken(x, n, x) = {}
      BY <3>1, PrunedFields
    <3>4. QED
      BY <3>2, <3>3, CoinsFields
  <2>5. ASSUME NEW y \in Txids PROVE GoodCoins(y, cl.utxo[y]) /\ AlikeCoins(cl.utxo[y], s[n].utxo[y])
    <3>1. CASE y = x
      <4>1. cl.utxo[y] = Pruned
        BY <1>4, <2>2, <3>1
      <4>2. QED
        BY <2>4, <3>1, <4>1, PrunedFields DEF AlikeCoins
    <3>2. CASE y # x
      <4>1. cl.utxo[y] = acc.utxo[y]
        BY <1>4, <2>2, <3>2
      <4>2. UpdateCoins(u, x, h).utxo[y] = s[n].utxo[y]
        BY <2>2, <2>3, <3>2
      <4>3. AlikeCoins(acc.utxo[y], UpdateCoins(u, x, h).utxo[y]) /\ GoodCoins(y, acc.utxo[y])
        BY DEF Alike, GoodView
      <4>4. QED
        BY <4>1, <4>2, <4>3
    <3>3. QED
      BY <3>1, <3>2
  <2>6. cl.utxo \in Views
    BY <1>4 DEF UndoAcc
  <2>7. QED
    BY <1>5, <2>5, <2>6 DEF GoodView, Alike
<1>8. ASSUME NEW j \in 0 .. n - 1, G(j + 1) PROVE G(j)
  <2>1. j + 1 \in 1 .. n /\ j \in 0 .. n /\ j + 1 \in 0 .. n /\ (j + 1) - 1 = j
    BY <1>1
  <2>2. PICK z \in Txids, m \in Nat : Inputs[x][j + 1] = <<z, m>>
    BY <2>1, InputType
  <2>3. s[j] \in SpendAcc /\ w[j + 1] \in UndoAcc
    BY <1>1, <1>5, <2>1
  <2>4. s[j + 1] = Spend(s[j], <<z, m>>)
    BY <1>1, <2>1, <2>2
  <2>5. GoodView(s[j].utxo)
    BY <2>1, SpendingGood DEF s
  <2>6. m \in s[j].utxo[z].outs
    <3>1. Inputs[x][j + 1][2] \in Spending(u, x)[(j + 1) - 1].utxo[Inputs[x][j + 1][1]].outs
      BY <2>1, NextInputThere
    <3>2. QED
      BY <2>1, <2>2, <3>1 DEF s
  <2>7. recs[j + 1] = SpendRec(s[j].utxo[z], m) /\ recs[j + 1] \in UndoRecs
    BY <1>2, <2>1, <2>2
  <2>8. w[j] = Restore(w[j + 1], <<z, m>>, recs[j + 1])
    BY <1>5, <2>2
  <2>9. Alike(w[j + 1].utxo, Spend(s[j], <<z, m>>).utxo)
    BY <1>8, <2>4
  <2>10. LET r == Restore(w[j + 1], <<z, m>>, recs[j + 1])
         IN  GoodView(r.utxo) /\ Alike(r.utxo, s[j].utxo) /\ (r.clean <=> w[j + 1].clean)
    BY <1>8, <2>3, <2>5, <2>6, <2>7, <2>9, RestoreInverse DEF SpendRec
  <2>11. QED
    BY <1>8, <2>8, <2>10
<1>9. 0 \in S
  <2> HIDE DEF n, G
  <2>1. n \in S
    BY <1>1, <1>7
  <2>2. \A j \in 0 .. n - 1 : j + 1 \in S => j \in S
    BY <1>1, <1>8
  <2> HIDE DEF S
  <2>3. QED
    BY <1>1, <2>1, <2>2, SetInductionDown
<1>10. G(0) /\ s[0].utxo = u
  <2> HIDE DEF G
  <2> QED
    BY <1>1, <1>9
<1>11. QED
  BY <1>4, <1>6, <1>10

(* The outputs of y that x spends.                                         *)
SpendsOf(x, y) == {m \in Nat : <<y, m>> \in Vin(x)}

(* What UpdateCoins does to each transaction's coins.                      *)
LEMMA UpdateCoinsFacts ==
    ASSUME NEW u, GoodView(u), NEW x \in Txids, NEW h \in Nat, h # 0
    PROVE  /\ GoodView(UpdateCoins(u, x, h).utxo)
           /\ UpdateCoins(u, x, h).utxo[x] = FromTx(x, h)
           /\ \A y \in Txids \ {x} : UpdateCoins(u, x, h).utxo[y] =
                 Coins(u[y].outs \ SpendsOf(x, y), u[y].nHeight, u[y].fCoinBase, u[y].fCoinStake)
           /\ UpdateCoins(u, x, h).undo \in Seq(UndoRecs)
           /\ Len(UpdateCoins(u, x, h).undo) = Len(Inputs[x])
<1> DEFINE n == Len(Inputs[x])
           s == Spending(u, x)
           t == UpdateCoins(u, x, h)
<1>1. n \in Nat /\ u \in Views /\ n \in 0 .. n
  BY InputType DEF GoodView
<1>2. s[n] \in SpendAcc
  BY <1>1, SpendingLoop
<1>3. s[n].undo \in Seq(UndoRecs) /\ Len(s[n].undo) = n
  BY <1>1, SpendingUndo
<1>4. GoodView(s[n].utxo)
  BY <1>1, SpendingGood
<1>5. \A y \in Txids : s[n].utxo[y] =
         Coins(u[y].outs \ Taken(x, n, y), u[y].nHeight, u[y].fCoinBase, u[y].fCoinStake)
  BY <1>1, SpendingCoins
<1>6. \A y : Taken(x, n, y) = SpendsOf(x, y)
  <2>1. DOMAIN Inputs[x] = 1 .. n
    BY InputType
  <2> HIDE DEF n
  <2>2. ASSUME NEW y, NEW m \in Nat PROVE m \in Taken(x, n, y) <=> m \in SpendsOf(x, y)
    BY <2>1 DEF Taken, SpendsOf, Vin, Range
  <2>3. \A y : Taken(x, n, y) \subseteq Nat /\ SpendsOf(x, y) \subseteq Nat
    BY DEF Taken, SpendsOf
  <2>4. QED
    BY <2>2, <2>3
<1>7. t = [utxo |-> [s[n].utxo EXCEPT ![x] = FromTx(x, h)], undo |-> s[n].undo]
  BY DEF UpdateCoins
<1> HIDE DEF s, t
<1>8. t.utxo = [s[n].utxo EXCEPT ![x] = FromTx(x, h)] /\ t.undo = s[n].undo
  BY <1>7
<1>9. s[n].utxo \in [Txids -> CCoins]
  BY <1>2 DEF SpendAcc, Views
<1>10. t.utxo[x] = FromTx(x, h) /\ \A y \in Txids \ {x} : t.utxo[y] = s[n].utxo[y]
  BY <1>8, <1>9
<1>11. t.utxo \in Views
  BY <1>8, <1>9, FromTxType DEF Views
<1>12. GoodView(t.utxo)
  <2> SUFFICES ASSUME NEW y \in Txids PROVE GoodCoins(y, t.utxo[y])
    BY <1>11 DEF GoodView
  <2>1. GoodCoins(y, s[n].utxo[y]) /\ GoodCoins(x, FromTx(x, h))
    BY <1>4, FromTxGood DEF GoodView
  <2>2. QED
    BY <1>10, <2>1
<1>13. \A y \in Txids \ {x} : t.utxo[y] =
          Coins(u[y].outs \ SpendsOf(x, y), u[y].nHeight, u[y].fCoinBase, u[y].fCoinStake)
  BY <1>5, <1>6, <1>10
<1>14. QED
  BY <1>3, <1>8, <1>10, <1>12, <1>13 DEF t

(* A transaction that ConnectBlock took.                                   *)
LEMMA ConnectTxOk ==
    ASSUME NEW acc \in ConnectAcc, NEW x \in Txids, NEW h \in Nat, ConnectTx(acc, x, h).ok
    PROVE  /\ acc.ok /\ Acceptable(acc.utxo, x, h)
           /\ ConnectTx(acc, x, h).utxo = UpdateCoins(acc.utxo, x, h).utxo
           /\ ConnectTx(acc, x, h).undo = Append(acc.undo, UpdateCoins(acc.utxo, x, h).undo)
<1>1. CASE ~acc.ok \/ ~Acceptable(acc.utxo, x, h)
  <2>1. ConnectTx(acc, x, h) = [acc EXCEPT !.ok = FALSE]
    BY <1>1 DEF ConnectTx
  <2>2. [acc EXCEPT !.ok = FALSE].ok = FALSE
    BY DEF ConnectAcc
  <2>3. QED
    BY <2>1, <2>2
<1>2. CASE ~(~acc.ok \/ ~Acceptable(acc.utxo, x, h))
  <2> DEFINE up == UpdateCoins(acc.utxo, x, h)
  <2>1. ConnectTx(acc, x, h) = [ok |-> TRUE, utxo |-> up.utxo, undo |-> Append(acc.undo, up.undo)]
    BY <1>2 DEF ConnectTx
  <2> HIDE DEF up
  <2>2. ConnectTx(acc, x, h).utxo = up.utxo /\ ConnectTx(acc, x, h).undo = Append(acc.undo, up.undo)
    BY <2>1
  <2>3. QED
    BY <1>2, <2>2 DEF up
<1>3. QED
  BY <1>1, <1>2

(* Every transaction of a block was taken, in order, and the undo data has *)
(* what UpdateCoins noted of each.                                         *)
TxByTx(u, b, h) ==
    /\ Connecting(u, b, h)[0].utxo = u /\ Len(b) \in Nat
    /\ Connecting(u, b, h) \in [0 .. Len(b) -> ConnectAcc]
    /\ \A i \in 0 .. Len(b) : GoodView(Connecting(u, b, h)[i].utxo)
    /\ \A i \in 1 .. Len(b) :
          LET v == Connecting(u, b, h)[i - 1].utxo
          IN  /\ Acceptable(v, b[i], h)
              /\ Connecting(u, b, h)[i].utxo = UpdateCoins(v, b[i], h).utxo
              /\ Connected(u, b, h).undo[i] = UpdateCoins(v, b[i], h).undo
    /\ Fits(Connected(u, b, h).undo, b)

LEMMA ConnectedSteps ==
    ASSUME NEW u, GoodView(u), NEW b \in Seq(Txids), NEW h \in Nat, h # 0, Connected(u, b, h).ok
    PROVE  TxByTx(u, b, h)
<1> DEFINE n == Len(b)
           V == Connecting(u, b, h)
           up(i) == UpdateCoins(V[i - 1].utxo, b[i], h)
<1>1. /\ n \in Nat /\ u \in Views
      /\ V \in [0 .. n -> ConnectAcc] /\ V[0] = [ok |-> TRUE, utxo |-> u, undo |-> <<>>]
      /\ \A i \in 1 .. n : V[i] = ConnectTx(V[i - 1], b[i], h)
  BY ConnectingLoop DEF GoodView
<1>2. V[n].ok /\ Connected(u, b, h) = V[n]
  BY DEF Connected
<1> HIDE DEF V
<1>3. V[0].utxo = u /\ V[0].undo = <<>>
  BY <1>1
<1>4. ASSUME NEW i \in 1 .. n
      PROVE  V[i - 1] \in ConnectAcc /\ V[i] \in ConnectAcc /\ b[i] \in Txids /\ i - 1 \in 0 .. n
  BY <1>1
<1>5. \A i \in 0 .. n : V[i].ok
  <2> DEFINE S == {i \in 0 .. n : V[i].ok}
  <2>1. n \in S
    BY <1>1, <1>2
  <2>2. ASSUME NEW i \in 0 .. n - 1, i + 1 \in S PROVE i \in S
    <3>1. i + 1 \in 1 .. n /\ (i + 1) - 1 = i /\ i \in 0 .. n
      BY <1>1
    <3>2. V[i + 1] = ConnectTx(V[i], b[i + 1], h) /\ V[i] \in ConnectAcc /\ b[i + 1] \in Txids
      BY <1>1, <1>4, <3>1
    <3>3. V[i].ok
      BY <2>2, <3>2, ConnectTxOk
    <3>4. QED
      BY <3>1, <3>3
  <2>3. \A i \in 0 .. n - 1 : i + 1 \in S => i \in S
    BY <2>2
  <2>4. \A i \in 0 .. n : i \in S
    <3> HIDE DEF S
    <3> QED
      BY <1>1, <2>1, <2>3, SetInductionDown
  <2>5. QED
    BY <2>4
<1>6. ASSUME NEW i \in 1 .. n
      PROVE  /\ Acceptable(V[i - 1].utxo, b[i], h)
             /\ V[i].utxo = up(i).utxo
             /\ V[i].undo = Append(V[i - 1].undo, up(i).undo)
  <2>1. V[i] = ConnectTx(V[i - 1], b[i], h) /\ V[i].ok
    BY <1>1, <1>5
  <2>2. V[i - 1] \in ConnectAcc /\ b[i] \in Txids
    BY <1>4
  <2>3. ConnectTx(V[i - 1], b[i], h).ok
    BY <2>1
  <2>4. /\ Acceptable(V[i - 1].utxo, b[i], h)
        /\ ConnectTx(V[i - 1], b[i], h).utxo = up(i).utxo
        /\ ConnectTx(V[i - 1], b[i], h).undo = Append(V[i - 1].undo, up(i).undo)
    BY <2>2, <2>3, ConnectTxOk
  <2>5. QED
    BY <2>1, <2>4
<1> DEFINE G(i) == /\ GoodView(V[i].utxo) /\ Len(V[i].undo) = i
                   /\ \A k \in 1 .. i : V[i].undo[k] = up(k).undo
           S == {i \in 0 .. n : G(i)}
<1>7. \A i \in 0 .. n : V[i].undo \in Seq(Seq(UndoRecs))
  BY <1>1 DEF ConnectAcc
<1>8. G(0)
  <2> HIDE DEF up
  <2> QED
    BY <1>3
<1>9. ASSUME NEW i \in 1 .. n, G(i - 1) PROVE G(i)
  <2>1. GoodView(up(i).utxo)
    BY <1>4, <1>9, UpdateCoinsFacts
  <2>2. V[i].undo = Append(V[i - 1].undo, up(i).undo) /\ V[i].utxo = up(i).utxo
    BY <1>6
  <2>3. V[i - 1].undo \in Seq(Seq(UndoRecs)) /\ Len(V[i - 1].undo) = i - 1
    BY <1>4, <1>7, <1>9
  <2>4. \A k \in 1 .. i - 1 : V[i - 1].undo[k] = up(k).undo
    BY <1>9
  <2> HIDE DEF up
  <2>5. Len(V[i].undo) = i
    BY <2>2, <2>3
  <2>6. ASSUME NEW k \in 1 .. i PROVE V[i].undo[k] = up(k).undo
    <3>1. CASE k = i
      BY <2>2, <2>3, <3>1
    <3>2. CASE k # i
      <4>1. k \in 1 .. i - 1
        BY <3>2
      <4>2. QED
        BY <2>2, <2>3, <2>4, <4>1
    <3>3. QED
      BY <3>1, <3>2
  <2>7. QED
    BY <2>1, <2>2, <2>5, <2>6
<1>10. \A i \in 0 .. n : G(i)
  <2> HIDE DEF n, G
  <2>1. 0 \in S
    BY <1>1, <1>8
  <2>2. \A i \in 1 .. n : i - 1 \in S => i \in S
    BY <1>1, <1>9
  <2>3. \A i \in 0 .. n : i \in S
    <3> HIDE DEF S
    <3> QED
      BY <1>1, <2>1, <2>2, SetInduction
  <2>4. QED
    BY <2>3
<1>11. G(n)
  <2> HIDE DEF G
  <2> QED
    BY <1>1, <1>10
<1>12. ASSUME NEW i \in 1 .. n PROVE Len(V[n].undo[i]) = Len(Inputs[b[i]])
  <2>1. V[n].undo[i] = up(i).undo
    BY <1>11
  <2>2. GoodView(V[i - 1].utxo)
    BY <1>4, <1>10
  <2>3. QED
    BY <1>4, <2>1, <2>2, UpdateCoinsFacts
<1>13. Fits(V[n].undo, b)
  BY <1>1, <1>7, <1>11, <1>12 DEF Fits
<1>14. QED
  BY <1>1, <1>2, <1>3, <1>6, <1>10, <1>11, <1>13 DEF V, TxByTx

(* Undoing a block with its undo data gives the view before it, up to      *)
(* fCoinStake; and without a coinstake in the block every test passes.     *)
LEMMA BlockUndone ==
    ASSUME NEW u, GoodView(u), NEW b \in Seq(Txids), NEW h \in Nat, h # 0, Connected(u, b, h).ok,
           NEW w, GoodView(w), Alike(w, Connected(u, b, h).utxo)
    PROVE  LET r == Undoing(w, b, Connected(u, b, h).undo, h)[0]
           IN  /\ GoodView(r.utxo) /\ Alike(r.utxo, u)
               /\ (\A i \in 1 .. Len(b) : Kind[b[i]] # "coinstake") => r.clean
<1> DEFINE n == Len(b)
           V == Connecting(u, b, h)
           recs == Connected(u, b, h).undo
           W == Undoing(w, b, recs, h)
           pow == \A i \in 1 .. n : Kind[b[i]] # "coinstake"
           G(i) == GoodView(W[i].utxo) /\ Alike(W[i].utxo, V[i].utxo) /\ (pow => W[i].clean)
           S == {i \in 0 .. n : G(i)}
<1>1. /\ V[0].utxo = u /\ n \in Nat /\ V \in [0 .. n -> ConnectAcc]
      /\ \A i \in 0 .. n : GoodView(V[i].utxo)
      /\ \A i \in 1 .. n : /\ Acceptable(V[i - 1].utxo, b[i], h)
                           /\ V[i].utxo = UpdateCoins(V[i - 1].utxo, b[i], h).utxo
                           /\ recs[i] = UpdateCoins(V[i - 1].utxo, b[i], h).undo
      /\ Fits(recs, b)
  BY ConnectedSteps DEF TxByTx
<1>2. Connected(u, b, h).utxo = V[n].utxo
  BY DEF Connected
<1>3. /\ W \in [0 .. n -> UndoAcc] /\ W[n] = [clean |-> TRUE, utxo |-> w]
      /\ \A i \in 0 .. n - 1 : W[i] = UndoTx(W[i + 1], b[i + 1], recs[i + 1], h)
  <2>1. w \in Views
    BY DEF GoodView
  <2>2. QED
    BY <1>1, <2>1, UndoingLoop
<1> HIDE DEF V, W, recs
<1>4. G(n)
  <2>1. W[n].utxo = w /\ W[n].clean
    BY <1>3
  <2>2. Alike(w, V[n].utxo)
    BY <1>2
  <2>3. QED
    BY <2>1, <2>2
<1>5. ASSUME NEW i \in 0 .. n - 1, G(i + 1) PROVE G(i)
  <2> DEFINE x == b[i + 1]
             r == UndoTx(W[i + 1], x, UpdateCoins(V[i].utxo, x, h).undo, h)
  <2>1. i + 1 \in 1 .. n /\ (i + 1) - 1 = i /\ i \in 0 .. n /\ i + 1 \in 0 .. n
    BY <1>1
  <2>2. x \in Txids /\ W[i + 1] \in UndoAcc /\ GoodView(V[i].utxo)
    <3>1. x \in Txids
      BY <2>1
    <3>2. W[i + 1] \in UndoAcc
      BY <1>3, <2>1
    <3>3. GoodView(V[i].utxo)
      BY <1>1, <2>1
    <3>4. QED
      BY <3>1, <3>2, <3>3
  <2>3. /\ Acceptable(V[i].utxo, x, h)
        /\ V[i + 1].utxo = UpdateCoins(V[i].utxo, x, h).utxo
        /\ recs[i + 1] = UpdateCoins(V[i].utxo, x, h).undo
    BY <1>1, <2>1
  <2>4. W[i] = r
    BY <1>3, <2>3
  <2> HIDE DEF x
  <2>5. /\ GoodView(r.utxo) /\ Alike(r.utxo, V[i].utxo)
        /\ r.clean <=> (W[i + 1].clean /\ W[i + 1].utxo[x] = FromTx(x, h))
    <3>1. GoodView(W[i + 1].utxo) /\ Alike(W[i + 1].utxo, UpdateCoins(V[i].utxo, x, h).utxo)
      BY <1>5, <2>3
    <3>2. QED
      BY <2>2, <2>3, <3>1, UndoTxInverse
  <2>6. ASSUME pow PROVE W[i + 1].utxo[x] = FromTx(x, h)
    <3>1. Kind[x] # "coinstake"
      BY <2>1, <2>6 DEF x
    <3>2. V[i + 1].utxo[x] = FromTx(x, h)
      BY <2>2, <2>3, UpdateCoinsFacts
    <3>3. GoodCoins(x, W[i + 1].utxo[x]) /\ GoodCoins(x, V[i + 1].utxo[x])
      BY <1>1, <1>5, <2>1, <2>2 DEF GoodView
    <3>4. AlikeCoins(W[i + 1].utxo[x], V[i + 1].utxo[x])
      BY <1>5, <2>2 DEF Alike
    <3>5. W[i + 1].utxo[x] = V[i + 1].utxo[x]
      BY <3>1, <3>3, <3>4, SameCoins DEF GoodCoins
    <3>6. QED
      BY <3>2, <3>5
  <2>7. QED
    BY <1>5, <2>4, <2>5, <2>6
<1>6. G(0)
  <2> HIDE DEF n, G
  <2>1. n \in S
    BY <1>1, <1>4
  <2>2. \A i \in 0 .. n - 1 : i + 1 \in S => i \in S
    BY <1>1, <1>5
  <2>3. \A i \in 0 .. n : i \in S
    <3> HIDE DEF S
    <3> QED
      BY <1>1, <2>1, <2>2, SetInductionDown
  <2>4. QED
    BY <1>1, <2>3
<1>7. QED
  BY <1>1, <1>6 DEF W, recs, V

-----------------------------------------------------------------------------
(* The ledger: at gives the height of every transaction of the chain, and  *)
(* 0 for the others.  SpentIn are the outputs of x that it spends.         *)
SpentIn(at, x) == {m \in Nat : \E y \in Txids : at[y] # 0 /\ <<x, m>> \in Vin(y)}

(* A ledger in which every input exists and is spent once, and a coinbase  *)
(* stands at its own height.                                               *)
Ledger(at) ==
    /\ at \in [Txids -> Nat]
    /\ \A y \in Txids : at[y] # 0 => \A in \in Vin(y) : at[in[1]] # 0 /\ in[2] \in Outputs[in[1]]
    /\ \A y, z \in Txids : at[y] # 0 /\ at[z] # 0 /\ Vin(y) \cap Vin(z) # {} => y = z
    /\ \A x \in Txids : at[x] # 0 /\ Kind[x] = "coinbase" => at[x] = ScriptSigHeight[x]

(* The view u holds the unspent outputs of the ledger.                     *)
Match(u, at) ==
    \A x \in Txids :
        /\ at[x] = 0 => u[x] = Pruned
        /\ at[x] # 0 => u[x].outs = Outputs[x] \ SpentIn(at, x)
        /\ u[x].outs # {} => u[x].nHeight = at[x] /\ u[x].fCoinBase = (Kind[x] = "coinbase")

LEMMA VinType ==
    ASSUME NEW x \in Txids
    PROVE  /\ \A in \in Vin(x) : in \in Txids \X Nat /\ in = <<in[1], in[2]>> /\ in[1] \in Txids /\ in[2] \in Nat
           /\ Vin(x) = {} <=> Kind[x] = "coinbase"
           /\ \A i \in DOMAIN Inputs[x] : Inputs[x][i] \in Vin(x)
<1>1. DOMAIN Inputs[x] = 1 .. Len(Inputs[x])
  BY InputType
<1>2. \A in \in Vin(x) : \E i \in 1 .. Len(Inputs[x]) : in = Inputs[x][i]
  BY <1>1 DEF Vin, Range
<1>3. Inputs[x] = <<>> <=> Kind[x] = "coinbase"
  BY UndoAssumption
<1>4. Vin(x) = {} <=> Inputs[x] = <<>>
  <2>1. Vin(x) = {} <=> DOMAIN Inputs[x] = {}
    BY DEF Vin, Range
  <2>2. Inputs[x] \in Seq(Txids \X Nat)
    BY InputType
  <2>3. DOMAIN Inputs[x] = {} <=> Inputs[x] = <<>>
    <3> DEFINE s == Inputs[x]
    <3> HIDE DEF s
    <3>1. s \in Seq(Txids \X Nat) /\ DOMAIN s = 1 .. Len(s) /\ Len(s) \in Nat
      BY <2>2 DEF s
    <3>2. Len(s) = 0 <=> s = <<>>
      BY <3>1
    <3>3. 1 .. Len(s) = {} <=> Len(s) = 0
      <4>1. Len(s) # 0 => 1 \in 1 .. Len(s)
        BY <3>1
      <4>2. Len(s) = 0 => 1 .. Len(s) = {}
        BY <3>1
      <4>3. QED
        BY <4>1, <4>2
    <3>4. QED
      BY <3>1, <3>2, <3>3 DEF s
  <2>4. QED
    BY <2>1, <2>3
<1>5. \A i \in DOMAIN Inputs[x] : Inputs[x][i] \in Vin(x)
  BY DEF Vin, Range
<1>6. ASSUME NEW in \in Vin(x)
      PROVE  in \in Txids \X Nat /\ in = <<in[1], in[2]>> /\ in[1] \in Txids /\ in[2] \in Nat
  BY <1>2, InputType
<1>7. QED
  BY <1>3, <1>4, <1>5, <1>6

LEMMA AcceptableInputs ==
    ASSUME NEW u, NEW x \in Txids, NEW h, Acceptable(u, x, h)
    PROVE  u[x] = Pruned /\ \A in \in Vin(x) : in[2] \in u[in[1]].outs
  BY DEF Acceptable, Vin, Range

(* A transaction that ConnectBlock takes is new: BIP30 and BIP34 for a     *)
(* coinbase, its spent inputs for any other.  What it spends was there.    *)
LEMMA TxIsNew ==
    ASSUME NEW u, NEW at, Ledger(at), Match(u, at), NEW x \in Txids, NEW h, Acceptable(u, x, h),
           Kind[x] = "coinbase" => at[x] = 0
    PROVE  /\ at[x] = 0
           /\ \A in \in Vin(x) : /\ at[in[1]] # 0 /\ in[1] # x
                                 /\ in[2] \in Outputs[in[1]] /\ in[2] \notin SpentIn(at, in[1])
<1>1. u[x] = Pruned /\ \A in \in Vin(x) : in[2] \in u[in[1]].outs
  BY AcceptableInputs
<1>2. ASSUME NEW in \in Vin(x)
      PROVE  /\ at[in[1]] # 0 /\ in[1] # x
             /\ in[2] \in Outputs[in[1]] /\ in[2] \notin SpentIn(at, in[1])
  <2>1. in[1] \in Txids /\ in[2] \in u[in[1]].outs
    BY <1>1, VinType
  <2>2. u[in[1]] # Pruned
    BY <2>1, PrunedFields
  <2>3. in[1] # x
    BY <1>1, <2>2
  <2>4. at[in[1]] # 0
    BY <2>1, <2>2 DEF Match
  <2>5. u[in[1]].outs = Outputs[in[1]] \ SpentIn(at, in[1])
    BY <2>1, <2>4 DEF Match
  <2>6. QED
    BY <2>1, <2>3, <2>4, <2>5
<1>3. at[x] = 0
  <2>1. SUFFICES ASSUME at[x] # 0 PROVE FALSE
    OBVIOUS
  <2>2. PICK in \in Vin(x) : TRUE
    BY <2>1, VinType
  <2>3. in[2] \in Nat /\ in = <<in[1], in[2]>>
    BY VinType
  <2>4. in[2] \in SpentIn(at, in[1])
    BY <2>1, <2>3 DEF SpentIn
  <2>5. QED
    BY <1>2, <2>4
<1>4. QED
  BY <1>2, <1>3

(* It is entered into the ledger, and UpdateCoins keeps the view in step.  *)
LEMMA TxMatches ==
    ASSUME NEW u, GoodView(u), NEW at, Ledger(at), Match(u, at),
           NEW x \in Txids, NEW h \in Nat, h # 0, Acceptable(u, x, h),
           Kind[x] = "coinbase" => at[x] = 0 /\ h = ScriptSigHeight[x]
    PROVE  /\ Ledger([at EXCEPT ![x] = h])
           /\ Match(UpdateCoins(u, x, h).utxo, [at EXCEPT ![x] = h])
<1> DEFINE bt == [at EXCEPT ![x] = h]
           v == UpdateCoins(u, x, h).utxo
<1>1. /\ at[x] = 0
      /\ \A in \in Vin(x) : /\ at[in[1]] # 0 /\ in[1] # x
                            /\ in[2] \in Outputs[in[1]] /\ in[2] \notin SpentIn(at, in[1])
  BY TxIsNew
<1>2. at \in [Txids -> Nat]
  BY DEF Ledger
<1>3. bt \in [Txids -> Nat] /\ bt[x] = h /\ \A y \in Txids \ {x} : bt[y] = at[y]
  BY <1>2
<1> HIDE DEF bt
<1>4. \A in \in Vin(x) : in[1] \in Txids /\ in[2] \in Nat /\ in = <<in[1], in[2]>>
  BY VinType
<1>5. ASSUME NEW y \in Txids, bt[y] # 0, NEW in \in Vin(y)
      PROVE  bt[in[1]] # 0 /\ in[2] \in Outputs[in[1]]
  <2>1. CASE y = x
    BY <1>1, <1>3, <1>4, <2>1
  <2>2. CASE y # x
    <3>1. at[y] # 0 /\ in[1] \in Txids
      BY <1>3, <1>5, <2>2, VinType
    <3>2. at[in[1]] # 0 /\ in[2] \in Outputs[in[1]]
      BY <1>5, <3>1 DEF Ledger
    <3>3. QED
      BY <1>3, <3>1, <3>2
  <2>3. QED
    BY <2>1, <2>2
<1>6. ASSUME NEW y \in Txids, at[y] # 0 PROVE Vin(x) \cap Vin(y) = {}
  <2>1. SUFFICES ASSUME NEW in \in Vin(x), in \in Vin(y) PROVE FALSE
    OBVIOUS
  <2>2. in[2] \in SpentIn(at, in[1])
    BY <1>4, <1>6, <2>1 DEF SpentIn
  <2>3. QED
    BY <1>1, <2>2
<1>7. ASSUME NEW y \in Txids, NEW z \in Txids, bt[y] # 0, bt[z] # 0, Vin(y) \cap Vin(z) # {} PROVE y = z
  <2>1. CASE y # x /\ z # x
    BY <1>3, <1>7, <2>1 DEF Ledger
  <2>2. CASE y = x /\ z # x
    BY <1>3, <1>6, <1>7, <2>2
  <2>3. CASE y # x /\ z = x
    BY <1>3, <1>6, <1>7, <2>3
  <2>4. QED
    BY <2>1, <2>2, <2>3
<1>8. Ledger(bt)
  <2>1. \A y \in Txids : bt[y] # 0 /\ Kind[y] = "coinbase" => bt[y] = ScriptSigHeight[y]
    BY <1>3 DEF Ledger
  <2>2. QED
    BY <1>3, <1>5, <1>7, <2>1 DEF Ledger
<1>9. /\ v[x] = FromTx(x, h)
      /\ \A y \in Txids \ {x} : v[y] =
             Coins(u[y].outs \ SpendsOf(x, y), u[y].nHeight, u[y].fCoinBase, u[y].fCoinStake)
  BY UpdateCoinsFacts
<1> HIDE DEF v
<1>10. \A y \in Txids \ {x} : SpentIn(bt, y) = SpentIn(at, y) \cup SpendsOf(x, y)
  BY <1>1, <1>3 DEF SpentIn, SpendsOf
<1>11. SpentIn(bt, x) = {}
  <2>1. SUFFICES ASSUME NEW m \in Nat, NEW y \in Txids, bt[y] # 0, <<x, m>> \in Vin(y) PROVE FALSE
    BY DEF SpentIn
  <2>2. y # x
    BY <1>1, <2>1
  <2>3. at[y] # 0
    BY <1>3, <2>1, <2>2
  <2>4. at[x] # 0
    BY <2>1, <2>3 DEF Ledger
  <2>5. QED
    BY <1>1, <2>4
<1>12. ASSUME NEW y \in Txids
       PROVE  /\ bt[y] = 0 => v[y] = Pruned
              /\ bt[y] # 0 => v[y].outs = Outputs[y] \ SpentIn(bt, y)
              /\ v[y].outs # {} => v[y].nHeight = bt[y] /\ v[y].fCoinBase = (Kind[y] = "coinbase")
  <2>1. CASE y = x
    <3>1. v[y].outs = Outputs[y] /\ h # 0
      BY <1>9, <2>1, FromTxGood
    <3>2. Outputs[x] # {} => FromTx(x, h).nHeight = h /\ FromTx(x, h).fCoinBase = (Kind[x] = "coinbase")
      BY CoinsFields DEF FromTx
    <3>3. QED
      BY <1>3, <1>9, <1>11, <2>1, <3>1, <3>2
  <2>2. CASE y # x
    <3> DEFINE left == u[y].outs \ SpendsOf(x, y)
    <3>1. v[y] = Coins(left, u[y].nHeight, u[y].fCoinBase, u[y].fCoinStake) /\ bt[y] = at[y]
      BY <1>3, <1>9, <2>2
    <3>2. /\ at[y] = 0 => u[y] = Pruned
          /\ at[y] # 0 => u[y].outs = Outputs[y] \ SpentIn(at, y)
          /\ u[y].outs # {} => u[y].nHeight = at[y] /\ u[y].fCoinBase = (Kind[y] = "coinbase")
      BY DEF Match
    <3>3. at[y] = 0 => left = {}
      BY <3>2, PrunedFields
    <3>4. at[y] # 0 => left = Outputs[y] \ SpentIn(bt, y)
      BY <1>10, <2>2, <3>2
    <3>5. left # {} => u[y].outs # {}
      OBVIOUS
    <3> HIDE DEF left
    <3>6. v[y].outs = left /\ (left = {} => v[y] = Pruned)
      BY <3>1, CoinsFields
    <3>7. left # {} => v[y].nHeight = u[y].nHeight /\ v[y].fCoinBase = u[y].fCoinBase
      BY <3>1, CoinsFields
    <3>8. QED
      BY <3>1, <3>2, <3>3, <3>4, <3>5, <3>6, <3>7
  <2>3. QED
    BY <2>1, <2>2
<1>13. Match(v, bt)
  BY <1>12 DEF Match
<1>14. QED
  BY <1>8, <1>13 DEF bt, v

(* The ledger with the transactions of S at height h.                      *)
Entered(at, S, h) == [x \in Txids |-> IF x \in S THEN h ELSE at[x]]

(* Coins that were only spent from.                                        *)
Kept(c, d) ==
    \/ c = Pruned
    \/ c.nHeight = d.nHeight /\ c.fCoinBase = d.fCoinBase /\ c.fCoinStake = d.fCoinStake

LEMMA KeptBySpending ==
    ASSUME NEW c, NEW d, Kept(c, d), NEW outs, c = Pruned => outs = {}
    PROVE  Kept(Coins(outs, c.nHeight, c.fCoinBase, c.fCoinStake), d)
<1>1. CASE outs = {}
  BY <1>1, CoinsFields DEF Kept
<1>2. CASE outs # {}
  BY <1>2, CoinsFields DEF Kept
<1>3. QED
  BY <1>1, <1>2

LEMMA KeptSteps ==
    ASSUME NEW v, GoodView(v), NEW u, NEW x \in Txids, NEW h \in Nat, h # 0,
           NEW p \in Txids, p # x, Kept(v[p], u[p])
    PROVE  Kept(UpdateCoins(v, x, h).utxo[p], u[p])
<1> DEFINE left == v[p].outs \ SpendsOf(x, p)
<1>1. UpdateCoins(v, x, h).utxo[p] = Coins(left, v[p].nHeight, v[p].fCoinBase, v[p].fCoinStake)
  <2>1. \A y \in Txids \ {x} : UpdateCoins(v, x, h).utxo[y] =
           Coins(v[y].outs \ SpendsOf(x, y), v[y].nHeight, v[y].fCoinBase, v[y].fCoinStake)
    BY UpdateCoinsFacts
  <2>2. QED
    BY <2>1
<1>2. v[p] = Pruned => left = {}
  BY PrunedFields
<1> HIDE DEF left
<1>3. QED
  BY <1>1, <1>2, KeptBySpending

LEMMA BlockType ==
    ASSUME NEW b \in Blocks
    PROVE  /\ b \in Seq(Txids) /\ Len(b) \in Nat /\ Len(b) # 0 /\ DOMAIN b = 1 .. Len(b)
           /\ \A i \in 1 .. Len(b) : b[i] \in Txids /\ (Kind[b[i]] = "coinbase" <=> i = 1)
           /\ Range(b) \subseteq Txids
<1>1. b \in Seq(Txids) /\ b # <<>>
  BY UndoAssumption
<1>2. Len(b) \in Nat /\ Len(b) # 0 /\ DOMAIN b = 1 .. Len(b) /\ \A i \in 1 .. Len(b) : b[i] \in Txids
  BY <1>1
<1>3. \A i \in DOMAIN b : Kind[b[i]] = "coinbase" <=> i = 1
  BY UndoAssumption
<1>4. Range(b) \subseteq Txids
  BY <1>2 DEF Range
<1>5. QED
  BY <1>1, <1>2, <1>3, <1>4

(* A whole block.  Its transactions are new and different, and each spends *)
(* only what is before it.                                                 *)
LEMMA BlockMatches ==
    ASSUME NEW u, GoodView(u), NEW at, Ledger(at), Match(u, at), NEW b \in Blocks,
           NEW h \in Nat, h # 0, \A x \in Txids : at[x] < h, ScriptSigHeight[b[1]] = h,
           Connected(u, b, h).ok
    PROVE  /\ GoodView(Connected(u, b, h).utxo)
           /\ Ledger(Entered(at, Range(b), h))
           /\ Match(Connected(u, b, h).utxo, Entered(at, Range(b), h))
           /\ \A x \in Range(b) : at[x] = 0
           /\ \A i, j \in 1 .. Len(b) : b[i] = b[j] => i = j
           /\ \A i, j \in 1 .. Len(b) : b[j] \in Prevs(b[i]) => j < i
           /\ \A p \in Txids \ Range(b) : Kept(Connected(u, b, h).utxo[p], u[p])
<1> DEFINE n == Len(b)
           V == Connecting(u, b, h)
           first(i) == {b[k] : k \in 1 .. i}
           t(i) == Entered(at, first(i), h)
           G(i) == /\ Ledger(t(i)) /\ Match(V[i].utxo, t(i))
                   /\ \A p \in Txids \ first(i) : Kept(V[i].utxo[p], u[p])
           S == {i \in 0 .. n : G(i)}
<1>1. /\ b \in Seq(Txids) /\ n \in Nat /\ n # 0 /\ DOMAIN b = 1 .. n
      /\ \A i \in 1 .. n : b[i] \in Txids /\ (Kind[b[i]] = "coinbase" <=> i = 1)
  BY BlockType
<1>2. /\ V[0].utxo = u
      /\ \A i \in 0 .. n : GoodView(V[i].utxo)
      /\ \A i \in 1 .. n : /\ Acceptable(V[i - 1].utxo, b[i], h)
                           /\ V[i].utxo = UpdateCoins(V[i - 1].utxo, b[i], h).utxo
  <2>1. TxByTx(u, b, h)
    BY <1>1, ConnectedSteps
  <2>2. QED
    BY <2>1 DEF TxByTx
<1>3. Connected(u, b, h).utxo = V[n].utxo
  BY DEF Connected
<1> HIDE DEF V
<1>4. at \in [Txids -> Nat]
  BY DEF Ledger
<1>5. \A i \in 0 .. n : t(i) \in [Txids -> Nat]
  BY <1>4 DEF Entered
<1>6. G(0)
  <2>1. first(0) = {}
    OBVIOUS
  <2>2. t(0) = at
    BY <1>4, <2>1 DEF Entered
  <2>3. \A p \in Txids : Kept(u[p], u[p])
    BY DEF Kept
  <2> HIDE DEF first, t
  <2>4. QED
    BY <1>2, <2>2, <2>3
<1>7. ASSUME NEW i \in 1 .. n
      PROVE  /\ i - 1 \in 0 .. n /\ b[i] \in Txids
             /\ first(i) = first(i - 1) \cup {b[i]}
             /\ t(i) = [t(i - 1) EXCEPT ![b[i]] = h]
  <2>1. i - 1 \in 0 .. n /\ b[i] \in Txids
    BY <1>1
  <2>2. first(i) = first(i - 1) \cup {b[i]}
    <3>1. \A k \in 1 .. i : k = i \/ k \in 1 .. i - 1
      OBVIOUS
    <3>2. i \in 1 .. i /\ \A k \in 1 .. i - 1 : k \in 1 .. i
      OBVIOUS
    <3>3. QED
      BY <3>1, <3>2
  <2> HIDE DEF first
  <2>3. t(i) = [t(i - 1) EXCEPT ![b[i]] = h]
    BY <2>1, <2>2 DEF Entered
  <2>4. QED
    BY <2>1, <2>2, <2>3
<1> DEFINE N(i) == t(i - 1)[b[i]] = 0 /\ \A in \in Vin(b[i]) : t(i - 1)[in[1]] # 0
<1>8. ASSUME NEW i \in 1 .. n, G(i - 1) PROVE G(i) /\ N(i)
  <2> DEFINE x == b[i]
             v == V[i - 1].utxo
  <2>1. /\ GoodView(v) /\ Ledger(t(i - 1)) /\ Match(v, t(i - 1)) /\ x \in Txids
        /\ Acceptable(v, x, h) /\ V[i].utxo = UpdateCoins(v, x, h).utxo
    BY <1>2, <1>7, <1>8
  <2>2. ASSUME Kind[x] = "coinbase" PROVE t(i - 1)[x] = 0 /\ h = ScriptSigHeight[x]
    <3>1. i = 1
      BY <1>1, <2>2
    <3>2. first(i - 1) = {}
      BY <3>1
    <3>3. t(i - 1)[x] = at[x]
      BY <2>1, <3>2 DEF Entered
    <3>4. at[x] = 0 \/ at[x] = ScriptSigHeight[x]
      BY <2>1, <2>2 DEF Ledger
    <3>5. at[x] < h /\ at[x] \in Nat
      BY <1>4, <2>1
    <3>6. ScriptSigHeight[x] = h
      BY <3>1
    <3>7. QED
      BY <3>3, <3>4, <3>5, <3>6
  <2> HIDE DEF x, v, t
  <2>3. N(i)
    BY <2>1, <2>2, TxIsNew DEF x
  <2>4. Ledger([t(i - 1) EXCEPT ![x] = h]) /\ Match(UpdateCoins(v, x, h).utxo, [t(i - 1) EXCEPT ![x] = h])
    BY <2>1, <2>2, TxMatches
  <2>5. t(i) = [t(i - 1) EXCEPT ![x] = h] /\ first(i) = first(i - 1) \cup {x}
    BY <1>7 DEF x
  <2> HIDE DEF first
  <2>6. ASSUME NEW p \in Txids \ first(i) PROVE Kept(V[i].utxo[p], u[p])
    <3>1. p # x /\ Kept(v[p], u[p])
      BY <1>8, <2>5 DEF v
    <3>2. QED
      BY <2>1, <3>1, KeptSteps
  <2>7. QED
    BY <2>1, <2>3, <2>4, <2>5, <2>6
<1>9. \A i \in 0 .. n : G(i)
  <2> HIDE DEF n, G, N
  <2>1. 0 \in S
    BY <1>1, <1>6
  <2>2. \A i \in 1 .. n : i - 1 \in S => i \in S
    BY <1>1, <1>8
  <2>3. \A i \in 0 .. n : i \in S
    <3> HIDE DEF S
    <3> QED
      BY <1>1, <2>1, <2>2, SetInduction
  <2>4. QED
    BY <2>3
<1>10. \A i \in 1 .. n : N(i)
  <2> HIDE DEF G, N
  <2> QED
    BY <1>7, <1>8, <1>9
<1>11. G(n) /\ first(n) = Range(b)
  <2>1. first(n) = Range(b)
    BY <1>1 DEF Range
  <2> HIDE DEF G
  <2>2. QED
    BY <1>1, <1>9, <2>1
<1>12. ASSUME NEW i \in 1 .. n, NEW j \in 1 .. n, i < j PROVE t(j - 1)[b[i]] = h
  <2>1. i \in 1 .. j - 1
    BY <1>12
  <2>2. b[i] \in first(j - 1)
    BY <2>1
  <2> HIDE DEF first
  <2>3. QED
    BY <1>1, <2>2 DEF Entered
<1>13. \A i \in 1 .. n : at[b[i]] = 0
  <2> SUFFICES ASSUME NEW i \in 1 .. n PROVE at[b[i]] = 0
    OBVIOUS
  <2>1. t(i - 1)[b[i]] = 0
    BY <1>10
  <2> HIDE DEF first
  <2>2. QED
    BY <1>1, <2>1 DEF Entered
<1>14. ASSUME NEW i \in 1 .. n, NEW j \in 1 .. n, b[i] = b[j] PROVE i = j
  <2>1. t(i - 1)[b[i]] = 0 /\ t(j - 1)[b[j]] = 0
    BY <1>10
  <2> HIDE DEF t
  <2>2. ~(i < j) /\ ~(j < i)
    BY <1>12, <1>14, <2>1
  <2>3. QED
    BY <2>2
<1>15. ASSUME NEW i \in 1 .. n, NEW j \in 1 .. n, b[j] \in Prevs(b[i]) PROVE j < i
  <2>1. t(i - 1)[b[j]] # 0
    <3>1. PICK in \in Vin(b[i]) : in[1] = b[j]
      BY <1>15 DEF Prevs
    <3> HIDE DEF t
    <3>2. QED
      BY <1>10, <3>1
  <2>2. b[j] \in first(i - 1)
    <3> HIDE DEF first
    <3> QED
      BY <1>1, <1>13, <2>1 DEF Entered
  <2>3. PICK k \in 1 .. i - 1 : b[j] = b[k]
    BY <2>2
  <2>4. k \in 1 .. n
    OBVIOUS
  <2>5. j = k
    BY <1>14, <2>3, <2>4
  <2>6. QED
    BY <2>5
<1>16. \A x \in Range(b) : at[x] = 0
  BY <1>1, <1>13 DEF Range
<1>17. GoodView(V[n].utxo)
  BY <1>1, <1>2
<1> HIDE DEF first
<1>18. QED
  BY <1>3, <1>11, <1>14, <1>15, <1>16, <1>17

-----------------------------------------------------------------------------
(* The history of the chain: the inductive invariant of BlockUndo.         *)

(* at gives the heights at which the first k blocks of ch make each        *)
(* transaction.                                                            *)
Where(at, ch, k) ==
    \A x \in Txids : at[x] \in 0 .. k /\ \A i \in 1 .. k : x \in Range(ch[i]) <=> at[x] = i

(* The view u and the ledger at after the first k blocks of ch.            *)
Stage(u, at, ch, k) == GoodView(u) /\ Ledger(at) /\ Match(u, at) /\ Where(at, ch, k)

(* The block b at height h takes the view u to v and leaves recs.          *)
Link(u, v, b, recs, h) ==
    /\ Connected(u, b, h).ok /\ recs = Connected(u, b, h).undo
    /\ Alike(v, Connected(u, b, h).utxo)
    /\ ScriptSigHeight[b[1]] = h

(* H and A are the views and the ledgers at every height of ch, and un is  *)
(* its undo data.                                                          *)
History(H, A, ch, un) ==
    /\ \A k \in 0 .. Len(ch) : Stage(H[k], A[k], ch, k)
    /\ \A k \in 1 .. Len(ch) : Link(H[k - 1], H[k], ch[k], un[k], k)

HistoryTo(H, A, ch, un, u) == History(H, A, ch, un) /\ H[Len(ch)] = u

(* The inductive invariant of connecting and disconnecting: the undo data  *)
(* leads back through views that each match the chain so far.              *)
UndoInv ==
    /\ chain \in Seq(Blocks) /\ undo \in Seq(Seq(Seq(UndoRecs))) /\ Len(undo) = Len(chain)
    /\ \E H, A : HistoryTo(H, A, chain, undo, utxo)

LEMMA MatchAlike ==
    ASSUME NEW u, NEW v, NEW at, Match(u, at), GoodView(v), Alike(v, u)
    PROVE  Match(v, at)
<1> SUFFICES ASSUME NEW x \in Txids
    PROVE  /\ at[x] = 0 => v[x] = Pruned
           /\ at[x] # 0 => v[x].outs = Outputs[x] \ SpentIn(at, x)
           /\ v[x].outs # {} => v[x].nHeight = at[x] /\ v[x].fCoinBase = (Kind[x] = "coinbase")
  BY DEF Match
<1>1. v[x].outs = u[x].outs /\ v[x].nHeight = u[x].nHeight /\ v[x].fCoinBase = u[x].fCoinBase
  BY DEF Alike, AlikeCoins
<1>2. v[x].outs = {} => v[x] = Pruned
  BY DEF GoodView, GoodCoins
<1>3. QED
  BY <1>1, <1>2, PrunedFields DEF Match

LEMMA AlikeChain ==
    ASSUME NEW u, NEW v, NEW w, Alike(u, v), Alike(v, w)
    PROVE  Alike(u, w)
  BY DEF Alike, AlikeCoins

LEMMA AlikeSelf ==
    ASSUME NEW u
    PROVE  Alike(u, u)
  BY DEF Alike, AlikeCoins

LEMMA UndoInvInit == Init => UndoInv
<1> SUFFICES ASSUME Init PROVE UndoInv
  OBVIOUS
<1> DEFINE at == [x \in Txids |-> 0]
           H == [k \in {0} |-> utxo]
           A == [k \in {0} |-> at]
<1>1. chain = <<>> /\ undo = <<>> /\ utxo = [x \in Txids |-> Pruned]
  BY DEF Init
<1>2. GoodView(utxo)
  <2>1. utxo \in Views
    BY <1>1, PrunedFields DEF Views
  <2>2. \A x \in Txids : utxo[x] = Pruned
    BY <1>1
  <2>3. QED
    BY <2>1, <2>2, PrunedFields DEF GoodView
<1>3. Ledger(at)
  BY DEF Ledger
<1>4. Match(utxo, at)
  BY <1>1, PrunedFields DEF Match
<1>5. Where(at, chain, 0)
  BY DEF Where
<1>6. Stage(H[0], A[0], chain, 0)
  BY <1>2, <1>3, <1>4, <1>5 DEF Stage
<1>7. H[0] = utxo
  OBVIOUS
<1>8. Len(chain) = 0 /\ Len(undo) = 0 /\ chain \in Seq(Blocks) /\ undo \in Seq(Seq(Seq(UndoRecs)))
  BY <1>1
<1> HIDE DEF H, A
<1>9. HistoryTo(H, A, chain, undo, utxo)
  BY <1>6, <1>7, <1>8 DEF HistoryTo, History
<1>10. QED
  BY <1>8, <1>9 DEF UndoInv

LEMMA WhereCongruent ==
    ASSUME NEW at, NEW k \in Nat, NEW ch, Where(at, ch, k), NEW dh, \A i \in 1 .. k : dh[i] = ch[i]
    PROVE  Where(at, dh, k)
  BY DEF Where

(* A block is connected.                                                   *)
LEMMA ConnectStep ==
    ASSUME UndoInv, NEW b \in Blocks, ConnectBlock(b)
    PROVE  UndoInv'
<1> DEFINE n == Len(chain)
           h == n + 1
           c == Connected(utxo, b, h)
<1>1. /\ chain \in Seq(Blocks) /\ undo \in Seq(Seq(Seq(UndoRecs))) /\ Len(undo) = n /\ n \in Nat
      /\ h \in Nat /\ h # 0
  BY DEF UndoInv
<1>2. PICK H, A : HistoryTo(H, A, chain, undo, utxo)
  BY DEF UndoInv
<1>3. /\ \A k \in 0 .. n : Stage(H[k], A[k], chain, k)
      /\ \A k \in 1 .. n : Link(H[k - 1], H[k], chain[k], undo[k], k)
      /\ H[n] = utxo
  BY <1>2 DEF HistoryTo, History
<1>4. /\ ScriptSigHeight[b[1]] = h /\ c.ok /\ utxo' = c.utxo
      /\ chain' = Append(chain, b) /\ undo' = Append(undo, c.undo)
  BY DEF ConnectBlock, ContextualCheckBlock
<1>5. Stage(utxo, A[n], chain, n)
  BY <1>1, <1>3
<1> DEFINE at == A[n]
           bt == Entered(at, Range(b), h)
<1>6. GoodView(utxo) /\ Ledger(at) /\ Match(utxo, at) /\ \A x \in Txids : at[x] < h
  BY <1>1, <1>5 DEF Stage, Where
<1>7. /\ GoodView(c.utxo) /\ Ledger(bt) /\ Match(c.utxo, bt)
      /\ \A x \in Range(b) : at[x] = 0
  <2> HIDE DEF at, h
  <2>1. h \in Nat /\ h # 0 /\ ScriptSigHeight[b[1]] = h /\ Connected(utxo, b, h).ok
    BY <1>1, <1>4
  <2>2. GoodView(utxo) /\ Ledger(at) /\ Match(utxo, at) /\ \A x \in Txids : at[x] < h
    BY <1>6
  <2>3. QED
    BY <2>1, <2>2, BlockMatches
<1>8. /\ Len(chain') = h /\ Len(undo') = h /\ chain'[h] = b /\ undo'[h] = c.undo
      /\ chain' \in Seq(Blocks)
      /\ \A k \in 1 .. n : chain'[k] = chain[k] /\ undo'[k] = undo[k]
  <2> HIDE DEF c
  <2> QED
    BY <1>1, <1>4
<1>9. undo' \in Seq(Seq(Seq(UndoRecs)))
  <2>1. c.undo \in Seq(Seq(UndoRecs))
    BY <1>1, <1>4, <1>6, ConnectedSteps, BlockType DEF TxByTx, Fits
  <2> HIDE DEF c
  <2>2. QED
    BY <1>1, <1>4, <2>1
<1>10. Where(bt, chain', h)
  <2>1. SUFFICES ASSUME NEW x \in Txids
        PROVE  bt[x] \in 0 .. h /\ \A i \in 1 .. h : x \in Range(chain'[i]) <=> bt[x] = i
    BY DEF Where
  <2>2. at[x] \in 0 .. n /\ \A i \in 1 .. n : x \in Range(chain[i]) <=> at[x] = i
    BY <1>5 DEF Stage, Where
  <2>3. bt[x] = IF x \in Range(b) THEN h ELSE at[x]
    BY DEF Entered
  <2>4. x \in Range(b) => at[x] = 0
    BY <1>7
  <2> HIDE DEF at, bt
  <2>5. bt[x] \in 0 .. h
    BY <1>1, <2>2, <2>3
  <2>6. ASSUME NEW i \in 1 .. h PROVE x \in Range(chain'[i]) <=> bt[x] = i
    <3>1. CASE i = h
      <4>1. at[x] # h
        BY <1>1, <2>2
      <4>2. QED
        BY <1>8, <2>3, <3>1, <4>1
    <3>2. CASE i # h
      <4>1. i \in 1 .. n
        BY <1>1, <3>2
      <4>2. x \in Range(chain'[i]) <=> at[x] = i
        BY <1>8, <2>2, <4>1
      <4>3. i # 0
        BY <1>1
      <4>4. QED
        BY <2>3, <2>4, <3>2, <4>2, <4>3
    <3>3. QED
      BY <3>1, <3>2
  <2>7. QED
    BY <2>5, <2>6
<1> DEFINE H2 == [k \in 0 .. h |-> IF k = h THEN c.utxo ELSE H[k]]
           A2 == [k \in 0 .. h |-> IF k = h THEN bt ELSE A[k]]
<1>11. H2[h] = c.utxo /\ A2[h] = bt /\ \A k \in 0 .. n : H2[k] = H[k] /\ A2[k] = A[k]
  <2> HIDE DEF c, bt
  <2> QED
    BY <1>1
<1>12. Stage(H2[h], A2[h], chain', h)
  BY <1>7, <1>10, <1>11 DEF Stage
<1>13. Link(H2[h - 1], H2[h], chain'[h], undo'[h], h)
  <2>1. h - 1 = n /\ n \in 0 .. n
    BY <1>1
  <2>2. H2[h - 1] = utxo
    BY <1>3, <1>11, <2>1
  <2>3. QED
    BY <1>4, <1>8, <1>11, <2>2, AlikeSelf DEF Link
<1> HIDE DEF H2, A2, c, bt, at
<1>14. ASSUME NEW k \in 0 .. n PROVE Stage(H2[k], A2[k], chain', k)
  <2>1. Stage(H2[k], A2[k], chain, k)
    BY <1>3, <1>11
  <2>2. k \in Nat /\ \A i \in 1 .. k : chain'[i] = chain[i]
    BY <1>1, <1>8
  <2>3. QED
    BY <2>1, <2>2, WhereCongruent DEF Stage
<1>15. ASSUME NEW k \in 1 .. n PROVE Link(H2[k - 1], H2[k], chain'[k], undo'[k], k)
  <2>1. k \in 0 .. n /\ k - 1 \in 0 .. n
    BY <1>1
  <2>2. H2[k - 1] = H[k - 1] /\ H2[k] = H[k] /\ chain'[k] = chain[k] /\ undo'[k] = undo[k]
    BY <1>8, <1>11, <2>1
  <2>3. Link(H[k - 1], H[k], chain[k], undo[k], k)
    BY <1>3
  <2>4. QED
    BY <2>2, <2>3
<1>16. HistoryTo(H2, A2, chain', undo', utxo')
  <2>1. \A k \in 0 .. h : k = h \/ k \in 0 .. n
    BY <1>1
  <2>2. \A k \in 1 .. h : k = h \/ k \in 1 .. n
    BY <1>1
  <2> HIDE DEF h
  <2>3. \A k \in 0 .. h : Stage(H2[k], A2[k], chain', k)
    BY <1>12, <1>14, <2>1
  <2>4. \A k \in 1 .. h : Link(H2[k - 1], H2[k], chain'[k], undo'[k], k)
    BY <1>13, <1>15, <2>2
  <2>5. QED
    BY <1>4, <1>8, <1>11, <2>3, <2>4 DEF HistoryTo, History
<1>17. QED
  BY <1>8, <1>9, <1>16 DEF UndoInv

(* What DisconnectBlock finds: the view it makes, and that a tip without a *)
(* coinstake comes off clean.                                              *)
LEMMA TipUndone ==
    ASSUME chain \in Seq(Blocks), Len(undo) = Len(chain), undo \in Seq(Seq(Seq(UndoRecs))), chain # <<>>,
           NEW H, NEW A, HistoryTo(H, A, chain, undo, utxo)
    PROVE  /\ GoodView(Undone.utxo) /\ Alike(Undone.utxo, H[Len(chain) - 1])
           /\ (\A x \in Range(Last(chain)) : Kind[x] # "coinstake") => Undone.clean
<1> DEFINE n == Len(chain)
           b == chain[n]
           u == H[n - 1]
<1>1. n \in Nat /\ n # 0 /\ Last(chain) = b /\ Last(undo) = undo[n] /\ b \in Blocks /\ n \in 1 .. n
  BY DEF Last
<1>2. Stage(H[n - 1], A[n - 1], chain, n - 1) /\ Stage(H[n], A[n], chain, n)
  BY <1>1 DEF HistoryTo, History
<1>3. H[n] = utxo
  BY DEF HistoryTo
<1>4. Link(u, utxo, b, undo[n], n)
  BY <1>1, <1>3 DEF HistoryTo, History
<1>5. GoodView(u) /\ GoodView(utxo)
  BY <1>2, <1>3 DEF Stage
<1>6. b \in Seq(Txids) /\ Range(b) = {b[i] : i \in 1 .. Len(b)}
  BY <1>1, BlockType DEF Range
<1>7. Undone = Undoing(utxo, b, Connected(u, b, n).undo, n)[0]
  BY <1>1, <1>4 DEF Undone, Link
<1> HIDE DEF n, b, u
<1>8. Connected(u, b, n).ok /\ Alike(utxo, Connected(u, b, n).utxo)
  BY <1>4 DEF Link
<1>9. /\ GoodView(Undone.utxo) /\ Alike(Undone.utxo, u)
      /\ (\A i \in 1 .. Len(b) : Kind[b[i]] # "coinstake") => Undone.clean
  BY <1>1, <1>5, <1>6, <1>7, <1>8, BlockUndone
<1>10. QED
  BY <1>1, <1>6, <1>9 DEF n, u

(* The tip is disconnected.                                                *)
LEMMA DisconnectStep ==
    ASSUME UndoInv, DisconnectBlock
    PROVE  UndoInv'
<1> DEFINE n == Len(chain)
           m == n - 1
<1>1. /\ chain \in Seq(Blocks) /\ undo \in Seq(Seq(Seq(UndoRecs))) /\ Len(undo) = n /\ n \in Nat
      /\ chain # <<>> /\ n # 0 /\ m \in Nat /\ n = m + 1
  BY DEF UndoInv, DisconnectBlock
<1>2. PICK H, A : HistoryTo(H, A, chain, undo, utxo)
  BY DEF UndoInv
<1>3. /\ \A k \in 0 .. n : Stage(H[k], A[k], chain, k)
      /\ \A k \in 1 .. n : Link(H[k - 1], H[k], chain[k], undo[k], k)
  BY <1>2 DEF HistoryTo, History
<1>4. utxo' = Undone.utxo /\ chain' = Front(chain) /\ undo' = Front(undo)
  BY DEF DisconnectBlock
<1>5. GoodView(utxo') /\ Alike(utxo', H[m])
  BY <1>1, <1>2, <1>4, TipUndone
<1>6. chain' \in Seq(Blocks) /\ Len(chain') = m /\ \A k \in 1 .. m : chain'[k] = chain[k]
  BY <1>1, <1>4 DEF Front
<1>7. undo' \in Seq(Seq(Seq(UndoRecs))) /\ Len(undo') = m /\ \A k \in 1 .. m : undo'[k] = undo[k]
  BY <1>1, <1>4 DEF Front
<1> DEFINE H2 == [k \in 0 .. m |-> IF k = m THEN utxo' ELSE H[k]]
<1>8. H2[m] = utxo' /\ \A k \in 0 .. m : k # m => H2[k] = H[k]
  BY <1>1
<1> HIDE DEF m, n, H2
<1>9. ASSUME NEW k \in 0 .. m PROVE Stage(H2[k], A[k], chain', k)
  <2>1. k \in 0 .. n /\ k \in Nat /\ \A i \in 1 .. k : chain'[i] = chain[i]
    BY <1>1, <1>6
  <2>2. Stage(H[k], A[k], chain, k)
    BY <1>3, <2>1
  <2>3. Where(A[k], chain', k) /\ Ledger(A[k]) /\ Match(H[k], A[k]) /\ GoodView(H[k])
    BY <2>1, <2>2, WhereCongruent DEF Stage
  <2>4. CASE k = m
    BY <1>5, <1>8, <2>3, <2>4, MatchAlike DEF Stage
  <2>5. CASE k # m
    BY <1>8, <2>3, <2>5 DEF Stage
  <2>6. QED
    BY <2>4, <2>5
<1>10. ASSUME NEW k \in 1 .. m PROVE Link(H2[k - 1], H2[k], chain'[k], undo'[k], k)
  <2>1. k \in 1 .. n /\ k - 1 \in 0 .. m /\ k - 1 # m /\ k \in 0 .. m
    BY <1>1
  <2>2. Link(H[k - 1], H[k], chain[k], undo[k], k)
    BY <1>3, <2>1
  <2>3. H2[k - 1] = H[k - 1] /\ chain'[k] = chain[k] /\ undo'[k] = undo[k]
    BY <1>6, <1>7, <1>8, <2>1
  <2>4. Alike(H2[k], H[k])
    <3>1. CASE k = m
      BY <1>5, <1>8, <3>1
    <3>2. CASE k # m
      BY <1>8, <2>1, <3>2, AlikeSelf
    <3>3. QED
      BY <3>1, <3>2
  <2>5. QED
    BY <2>2, <2>3, <2>4, AlikeChain DEF Link
<1>11. HistoryTo(H2, A, chain', undo', utxo')
  BY <1>6, <1>8, <1>9, <1>10 DEF HistoryTo, History
<1>12. QED
  BY <1>6, <1>7, <1>11 DEF UndoInv

LEMMA UndoInvNext == UndoInv /\ [Next]_vars => UndoInv'
<1> SUFFICES ASSUME UndoInv, [Next]_vars PROVE UndoInv'
  OBVIOUS
<1>1. CASE UNCHANGED vars
  BY <1>1 DEF vars, UndoInv
<1>2. QED
  BY <1>1, ConnectStep, DisconnectStep DEF Next

LEMMA UndoInvHolds == Spec => []UndoInv
  BY UndoInvInit, UndoInvNext, PTL DEF Spec

(* The ledger of the whole chain says where CreatedAt and SpentAt look.    *)
LEMMA LedgerOfChain ==
    ASSUME chain \in Seq(Blocks), NEW at, Ledger(at), Where(at, chain, Len(chain)), NEW x \in Txids
    PROVE  /\ CreatedAt(x) = IF at[x] = 0 THEN {} ELSE {at[x]}
           /\ \A m \in Nat : SpentAt(x, m) # {} <=> m \in SpentIn(at, x)
<1> DEFINE n == Len(chain)
<1>1. n \in Nat /\ DOMAIN chain = 1 .. n /\ \A i \in 1 .. n : chain[i] \in Blocks
  OBVIOUS
<1>2. \A y \in Txids : at[y] \in 0 .. n /\ \A i \in 1 .. n : y \in Range(chain[i]) <=> at[y] = i
  BY DEF Where
<1> HIDE DEF n
<1>3. CreatedAt(x) = {i \in 1 .. n : at[x] = i}
  BY <1>1, <1>2 DEF CreatedAt
<1>4. CreatedAt(x) = IF at[x] = 0 THEN {} ELSE {at[x]}
  BY <1>1, <1>2, <1>3
<1>5. ASSUME NEW m \in Nat, SpentAt(x, m) # {} PROVE m \in SpentIn(at, x)
  <2>1. PICK i \in 1 .. n : \E y \in Range(chain[i]) : <<x, m>> \in Range(Inputs[y])
    BY <1>1, <1>5 DEF SpentAt
  <2>2. PICK y \in Range(chain[i]) : <<x, m>> \in Vin(y)
    BY <2>1 DEF Vin
  <2>3. y \in Txids
    BY <1>1, <2>2, BlockType
  <2>4. at[y] = i /\ i # 0
    BY <1>1, <1>2, <2>2, <2>3
  <2>5. QED
    BY <2>2, <2>3, <2>4 DEF SpentIn
<1>6. ASSUME NEW m \in Nat, m \in SpentIn(at, x) PROVE SpentAt(x, m) # {}
  <2>1. PICK y \in Txids : at[y] # 0 /\ <<x, m>> \in Vin(y)
    BY <1>6 DEF SpentIn
  <2>2. at[y] \in 1 .. n
    BY <1>1, <1>2, <2>1
  <2>3. y \in Range(chain[at[y]])
    BY <1>2, <2>1, <2>2
  <2>4. at[y] \in SpentAt(x, m)
    BY <1>1, <2>1, <2>2, <2>3 DEF SpentAt, Vin
  <2>5. QED
    BY <2>4
<1>7. QED
  BY <1>4, <1>5, <1>6

(* What the chain left of x at height i.                                   *)
LeftOf(x, i) == Coins({n \in Outputs[x] : SpentAt(x, n) = {}}, i, Kind[x] = "coinbase", Kind[x] = "coinstake")

(* UtxoMatchesChain, but for the flag fCoinStake of the coins of           *)
(* coinstakes, which DisconnectBlock may lose.                             *)
UtxoAlikeChain ==
    \A x \in Txids :
        /\ CreatedAt(x) = {} => utxo[x] = Pruned
        /\ \A i \in CreatedAt(x) : /\ AlikeCoins(utxo[x], LeftOf(x, i))
                                   /\ Kind[x] # "coinstake" => utxo[x] = LeftOf(x, i)

(* The tip comes off clean when it has no coinstake.                       *)
WorkDisconnects ==
    chain # <<>> /\ (\A x \in Range(Last(chain)) : Kind[x] # "coinstake") => Undone.clean

LEMMA UndoInvView ==
    ASSUME UndoInv
    PROVE  chain \in Seq(Blocks) /\ \E at : Stage(utxo, at, chain, Len(chain))
<1>1. PICK H, A : HistoryTo(H, A, chain, undo, utxo)
  BY DEF UndoInv
<1>2. chain \in Seq(Blocks) /\ Len(chain) \in 0 .. Len(chain)
  BY DEF UndoInv
<1>3. Stage(H[Len(chain)], A[Len(chain)], chain, Len(chain)) /\ H[Len(chain)] = utxo
  BY <1>1, <1>2 DEF HistoryTo, History
<1>4. QED
  BY <1>2, <1>3

LEMMA UndoInvAlike == UndoInv => UtxoAlikeChain
<1> SUFFICES ASSUME UndoInv, NEW x \in Txids
             PROVE  /\ CreatedAt(x) = {} => utxo[x] = Pruned
                    /\ \A i \in CreatedAt(x) : /\ AlikeCoins(utxo[x], LeftOf(x, i))
                                               /\ Kind[x] # "coinstake" => utxo[x] = LeftOf(x, i)
  BY DEF UtxoAlikeChain
<1>1. chain \in Seq(Blocks)
  BY UndoInvView
<1>2. PICK at : Stage(utxo, at, chain, Len(chain))
  BY UndoInvView
<1>3. GoodView(utxo) /\ Ledger(at) /\ Match(utxo, at) /\ Where(at, chain, Len(chain))
  BY <1>2 DEF Stage
<1>4. /\ CreatedAt(x) = IF at[x] = 0 THEN {} ELSE {at[x]}
      /\ \A m \in Nat : SpentAt(x, m) # {} <=> m \in SpentIn(at, x)
  BY <1>1, <1>3, LedgerOfChain
<1>5. /\ at[x] = 0 => utxo[x] = Pruned
      /\ at[x] # 0 => utxo[x].outs = Outputs[x] \ SpentIn(at, x)
      /\ utxo[x].outs # {} => utxo[x].nHeight = at[x] /\ utxo[x].fCoinBase = (Kind[x] = "coinbase")
  BY <1>3 DEF Match
<1>6. CreatedAt(x) = {} => utxo[x] = Pruned
  BY <1>4, <1>5
<1>7. ASSUME NEW i \in CreatedAt(x)
      PROVE  AlikeCoins(utxo[x], LeftOf(x, i)) /\ (Kind[x] # "coinstake" => utxo[x] = LeftOf(x, i))
  <2> DEFINE left == {n \in Outputs[x] : SpentAt(x, n) = {}}
             c == utxo[x]
             d == LeftOf(x, i)
  <2>1. at[x] # 0 /\ i = at[x]
    BY <1>4, <1>7
  <2>2. Outputs[x] \subseteq Nat /\ Kind[x] \in {"coinbase", "coinstake", "normal"}
    BY UndoAssumption
  <2>3. c.outs = left
    BY <1>4, <1>5, <2>1, <2>2
  <2>4. c \in CCoins /\ (c.outs = {} => c = Pruned) /\ (Kind[x] # "coinstake" => c.fCoinStake = FALSE)
    BY <1>3 DEF GoodView, GoodCoins
  <2>5. d = Coins(left, i, Kind[x] = "coinbase", Kind[x] = "coinstake")
    BY DEF LeftOf
  <2>6. i \in Nat
    BY <1>3, <2>1 DEF Ledger
  <2>7. d \in CCoins
    <3>1. left \in SUBSET Nat
      BY <2>2
    <3> HIDE DEF left, d
    <3>2. QED
      BY <2>5, <2>6, <3>1, CoinsType
  <2> HIDE DEF left, d
  <2>8. CASE left = {}
    <3>1. d = Pruned /\ c = Pruned
      BY <2>3, <2>4, <2>5, <2>8, CoinsFields
    <3>2. QED
      BY <3>1 DEF AlikeCoins, c, d
  <2>9. CASE left # {}
    <3>1. /\ d.outs = left /\ d.nHeight = i
          /\ d.fCoinBase = (Kind[x] = "coinbase") /\ d.fCoinStake = (Kind[x] = "coinstake")
      BY <2>5, <2>9, CoinsFields
    <3>2. AlikeCoins(c, d)
      BY <1>5, <2>1, <2>3, <2>9, <3>1 DEF AlikeCoins
    <3>3. Kind[x] # "coinstake" => c = d
      BY <2>4, <2>7, <3>1, <3>2, SameCoins
    <3>4. QED
      BY <3>2, <3>3 DEF d
  <2>10. QED
    BY <2>8, <2>9
<1>8. QED
  BY <1>6, <1>7

LEMMA UndoInvWork == UndoInv => WorkDisconnects
<1> SUFFICES ASSUME UndoInv, chain # <<>>, \A x \in Range(Last(chain)) : Kind[x] # "coinstake"
             PROVE  Undone.clean
  BY DEF WorkDisconnects
<1>1. PICK H, A : HistoryTo(H, A, chain, undo, utxo)
  BY DEF UndoInv
<1>2. chain \in Seq(Blocks) /\ Len(undo) = Len(chain) /\ undo \in Seq(Seq(Seq(UndoRecs)))
  BY DEF UndoInv
<1>3. QED
  BY <1>1, <1>2, TipUndone

(* Whatever blocks are connected and disconnected, in any chain of proof   *)
(* of work and of stake, the outputs, the heights and the coinbase flags   *)
(* of the coins are exactly what the active chain left unspent; only the   *)
(* flag of a coinstake may be lost.                                        *)
THEOREM UtxoAlwaysAlikeChain == Spec => []UtxoAlikeChain
  BY UndoInvHolds, UndoInvAlike, PTL

(* DisconnectBlock takes any tip that has no coinstake off clean, in a     *)
(* chain that may have them below.                                         *)
THEOREM WorkAlwaysDisconnects == Spec => []WorkDisconnects
  BY UndoInvHolds, UndoInvWork, PTL

(* No coinstakes, as in the proof-of-work phase of the chain.              *)
OnlyWork == \A x \in Txids : Kind[x] # "coinstake"

(* Without coinstakes the coins of UpdateCoins, with their heights and     *)
(* flags, always are exactly what the active chain left unspent, however   *)
(* many blocks ConnectBlock and DisconnectBlock put on and took off.       *)
THEOREM UtxoAlwaysMatchesChain == OnlyWork => (Spec => []UtxoMatchesChain)
<1> SUFFICES ASSUME OnlyWork PROVE Spec => []UtxoMatchesChain
  OBVIOUS
<1>1. UndoInv => UtxoMatchesChain
  BY UndoInvAlike DEF UtxoAlikeChain, UtxoMatchesChain, LeftOf, OnlyWork
<1>2. QED
  BY <1>1, UndoInvHolds, PTL

(* Without coinstakes DisconnectBlock finds every output and every spent   *)
(* input as it expects: the tip comes off clean at any depth of a          *)
(* reorganisation.                                                         *)
THEOREM DisconnectAlwaysSucceeds == OnlyWork => (Spec => []DisconnectSucceeds)
<1> SUFFICES ASSUME OnlyWork PROVE Spec => []DisconnectSucceeds
  OBVIOUS
<1>1. UndoInv => DisconnectSucceeds
  <2> SUFFICES ASSUME UndoInv, chain # <<>> PROVE Undone.clean
    BY DEF DisconnectSucceeds
  <2>1. chain \in Seq(Blocks)
    BY DEF UndoInv
  <2>2. Last(chain) \in Blocks
    BY <2>1 DEF Last
  <2>3. Range(Last(chain)) \subseteq Txids
    BY <2>2, BlockType
  <2>4. QED
    BY <2>3, UndoInvWork DEF WorkDisconnects, OnlyWork
<1>2. QED
  BY <1>1, UndoInvHolds, PTL

LEMMA PoolStepIsStep == [PoolNext]_allVars => [Next]_vars
<1> SUFFICES ASSUME [PoolNext]_allVars PROVE [Next]_vars
  OBVIOUS
<1>1. ASSUME NEW x \in Loose, (\E peer \in Peers : Tx(peer, x)) \/ TryOrphan(x) \/ LocalTx(x) PROVE UNCHANGED vars
  BY <1>1 DEF Tx, TryOrphan, LocalTx
<1>2. CASE NextWork \/ EraseProcessed \/ (\E peer \in Peers : PeerGone(peer))
  BY <1>2 DEF NextWork, EraseProcessed, PeerGone
<1>3. CASE RemoveForBlock \/ Resurrect \/ RemoveCoinbaseSpends
  BY <1>3 DEF RemoveForBlock, Resurrect, RemoveCoinbaseSpends
<1>4. CASE (\E b \in Blocks : ConnectTip(b)) \/ DisconnectTip
  BY <1>4 DEF ConnectTip, DisconnectTip, Next
<1>5. CASE UNCHANGED allVars
  BY <1>5 DEF allVars
<1>6. QED
  BY <1>1, <1>2, <1>3, <1>4, <1>5 DEF PoolNext

(* ConnectTip and DisconnectTip are the only steps of Mempool that touch   *)
(* the coins and the chain, so everything proved of BlockUndo holds under  *)
(* the pool.                                                               *)
THEOREM PoolSpecImpliesSpec == PoolSpec => Spec
<1>1. PoolInit => Init
  BY DEF PoolInit
<1>2. QED
  BY <1>1, PoolStepIsStep, PTL DEF PoolSpec, Spec

-----------------------------------------------------------------------------
(* The pool over the chain.                                                *)

(* What the pool needs to know of the chain: which transactions it has and *)
(* which outputs it spends.                                                *)
InChain(x) == CreatedAt(x) # {}
SpentInChain(in) == \E y \in Txids : InChain(y) /\ in \in Vin(y)

(* The coins are the unspent outputs of the chain; every input of the      *)
(* chain is one of its outputs and is spent once; an ordinary transaction  *)
(* is no coinbase.                                                         *)
ChainInv ==
    /\ GoodView(utxo)
    /\ \A x \in Txids : ~InChain(x) => utxo[x] = Pruned
    /\ \A x \in Txids : InChain(x) => utxo[x].outs = {m \in Outputs[x] : ~SpentInChain(<<x, m>>)}
    /\ \A y \in Txids : InChain(y) => \A in \in Vin(y) : InChain(in[1]) /\ in[2] \in Outputs[in[1]]
    /\ \A y, z \in Txids : InChain(y) /\ InChain(z) /\ Vin(y) \cap Vin(z) # {} => y = z
    /\ \A x \in Loose : ~utxo[x].fCoinBase /\ ~utxo[x].fCoinStake

LEMMA ChainInvHolds == UndoInv => ChainInv
<1> SUFFICES ASSUME UndoInv PROVE ChainInv
  OBVIOUS
<1>1. chain \in Seq(Blocks)
  BY UndoInvView
<1>2. PICK at : Stage(utxo, at, chain, Len(chain))
  BY UndoInvView
<1>3. GoodView(utxo) /\ Ledger(at) /\ Match(utxo, at) /\ Where(at, chain, Len(chain))
  BY <1>2 DEF Stage
<1>4. \A x \in Txids : InChain(x) <=> at[x] # 0
  BY <1>1, <1>3, LedgerOfChain DEF InChain
<1>5. \A x \in Txids : \A m \in Nat : SpentInChain(<<x, m>>) <=> m \in SpentIn(at, x)
  BY <1>4 DEF SpentInChain, SpentIn
<1>6. \A x \in Txids : ~InChain(x) => utxo[x] = Pruned
  BY <1>3, <1>4 DEF Match
<1>7. ASSUME NEW x \in Txids, InChain(x) PROVE utxo[x].outs = {m \in Outputs[x] : ~SpentInChain(<<x, m>>)}
  <2>1. utxo[x].outs = Outputs[x] \ SpentIn(at, x)
    BY <1>3, <1>4, <1>7 DEF Match
  <2>2. Outputs[x] \subseteq Nat
    BY UndoAssumption
  <2>3. QED
    BY <1>5, <2>1, <2>2
<1>8. ASSUME NEW y \in Txids, InChain(y), NEW in \in Vin(y) PROVE InChain(in[1]) /\ in[2] \in Outputs[in[1]]
  <2>1. in[1] \in Txids
    BY VinType
  <2>2. QED
    BY <1>3, <1>4, <1>8, <2>1 DEF Ledger
<1>9. ASSUME NEW y \in Txids, NEW z \in Txids, InChain(y), InChain(z), Vin(y) \cap Vin(z) # {} PROVE y = z
  BY <1>3, <1>4, <1>9 DEF Ledger
<1>10. ASSUME NEW x \in Loose PROVE ~utxo[x].fCoinBase /\ ~utxo[x].fCoinStake
  <2>1. x \in Txids /\ Kind[x] = "normal"
    BY DEF Loose
  <2>2. /\ utxo[x].fCoinStake = FALSE
        /\ utxo[x].outs = {} => utxo[x] = Pruned
    BY <1>3, <2>1 DEF GoodView, GoodCoins
  <2>3. utxo[x].outs # {} => utxo[x].fCoinBase = FALSE
    BY <1>3, <2>1 DEF Match
  <2>4. QED
    BY <2>2, <2>3, PrunedFields
<1>11. QED
  BY <1>3, <1>6, <1>7, <1>8, <1>9, <1>10 DEF ChainInv

LEMMA ChainInvHoldsNext == UndoInv' => ChainInv'
  BY ChainInvHolds, PTL

(* The block b gets on the chain.                                          *)
BlockAdded(b) ==
    /\ \A x \in Txids : InChain(x)' <=> (InChain(x) \/ x \in Range(b))
    /\ \A x \in Range(b) : ~InChain(x)
    /\ b \in Seq(Txids) /\ b # <<>> /\ \A i, j \in 1 .. Len(b) : b[i] = b[j] => i = j
    /\ \A i, j \in 1 .. Len(b) : b[j] \in Prevs(b[i]) => j < i
    /\ \A p \in Txids \ Range(b) : Kept(utxo'[p], utxo[p])
    /\ Len(chain') = Len(chain) + 1 /\ Len(chain) \in Nat

LEMMA ConnectAdds ==
    ASSUME UndoInv, NEW b \in Blocks, ConnectBlock(b)
    PROVE  BlockAdded(b)
<1> DEFINE n == Len(chain)
           h == n + 1
<1>1. chain \in Seq(Blocks) /\ n \in Nat /\ h \in Nat /\ h # 0
  BY DEF UndoInv
<1>2. PICK at : Stage(utxo, at, chain, Len(chain))
  BY UndoInvView
<1>3. GoodView(utxo) /\ Ledger(at) /\ Match(utxo, at) /\ Where(at, chain, n)
  BY <1>2 DEF Stage
<1>4. /\ ScriptSigHeight[b[1]] = h /\ Connected(utxo, b, h).ok /\ utxo' = Connected(utxo, b, h).utxo
      /\ chain' = Append(chain, b)
  BY DEF ConnectBlock, ContextualCheckBlock
<1>5. \A x \in Txids : at[x] < h
  BY <1>1, <1>3 DEF Where
<1>6. /\ \A x \in Range(b) : at[x] = 0
      /\ \A i, j \in 1 .. Len(b) : b[i] = b[j] => i = j
      /\ \A i, j \in 1 .. Len(b) : b[j] \in Prevs(b[i]) => j < i
      /\ \A p \in Txids \ Range(b) : Kept(utxo'[p], utxo[p])
  <2> HIDE DEF h
  <2> QED
    BY <1>1, <1>3, <1>4, <1>5, BlockMatches
<1>7. b \in Seq(Txids) /\ b # <<>> /\ Range(b) \subseteq Txids
  BY BlockType
<1>8. \A x \in Range(b) : ~InChain(x)
  <2>1. \A x \in Txids : InChain(x) <=> at[x] # 0
    BY <1>1, <1>3, LedgerOfChain DEF InChain
  <2>2. QED
    BY <1>6, <1>7, <2>1
<1>9. /\ Len(chain') = h /\ DOMAIN chain' = 1 .. h /\ DOMAIN chain = 1 .. n
      /\ chain'[h] = b /\ \A i \in 1 .. n : chain'[i] = chain[i]
  BY <1>1, <1>4
<1>10. ASSUME NEW x \in Txids PROVE InChain(x)' <=> (InChain(x) \/ x \in Range(b))
  <2>1. InChain(x)' <=> \E i \in 1 .. h : x \in Range(chain'[i])
    BY <1>9 DEF InChain, CreatedAt
  <2>2. InChain(x) <=> \E i \in 1 .. n : x \in Range(chain[i])
    BY <1>9 DEF InChain, CreatedAt
  <2>3. \A i \in 1 .. h : i = h \/ i \in 1 .. n
    BY <1>1
  <2>4. h \in 1 .. h /\ \A i \in 1 .. n : i \in 1 .. h
    BY <1>1
  <2> HIDE DEF h, n
  <2>5. QED
    BY <1>9, <2>1, <2>2, <2>3, <2>4
<1>11. QED
  BY <1>1, <1>6, <1>7, <1>8, <1>9, <1>10 DEF BlockAdded

(* The block b is taken off the chain.                                     *)
BlockTaken(b) ==
    /\ \A x \in Txids : InChain(x) <=> (InChain(x)' \/ x \in Range(b))
    /\ \A x \in Range(b) : ~InChain(x)'
    /\ b \in Seq(Txids) /\ \A i, j \in 1 .. Len(b) : b[i] = b[j] => i = j

LEMMA DisconnectTakes ==
    ASSUME UndoInv, DisconnectBlock
    PROVE  BlockTaken(Last(chain))
<1> DEFINE n == Len(chain)
           m == n - 1
           b == chain[n]
<1>1. /\ chain \in Seq(Blocks) /\ n \in Nat /\ chain # <<>> /\ n # 0 /\ m \in Nat /\ n = m + 1
      /\ DOMAIN chain = 1 .. n
  BY DEF UndoInv, DisconnectBlock
<1>2. PICK H, A : HistoryTo(H, A, chain, undo, utxo)
  BY DEF UndoInv
<1>3. Last(chain) = b /\ b \in Blocks
  BY <1>1 DEF Last
<1>4. chain' = Front(chain)
  BY DEF DisconnectBlock
<1>5. DOMAIN chain' = 1 .. m /\ \A i \in 1 .. m : chain'[i] = chain[i]
  BY <1>1, <1>4 DEF Front
<1>6. /\ Stage(H[m], A[m], chain, m) /\ Stage(H[n], A[n], chain, n)
      /\ Link(H[n - 1], H[n], b, undo[n], n)
  <2>1. m \in 0 .. n /\ n \in 0 .. n /\ n \in 1 .. n
    BY <1>1
  <2>2. QED
    BY <1>2, <2>1 DEF HistoryTo, History
<1> DEFINE u == H[m]
           at == A[m]
<1>7. /\ GoodView(u) /\ Ledger(at) /\ Match(u, at) /\ \A x \in Txids : at[x] < n
  BY <1>1, <1>6 DEF Stage, Where
<1>8. ScriptSigHeight[b[1]] = n /\ Connected(u, b, n).ok
  BY <1>6 DEF Link
<1>9. \A i, j \in 1 .. Len(b) : b[i] = b[j] => i = j
  <2> HIDE DEF n, b, u, at
  <2> QED
    BY <1>1, <1>3, <1>7, <1>8, BlockMatches
<1>10. b \in Seq(Txids) /\ Range(b) \subseteq Txids
  BY <1>3, BlockType
<1>11. ASSUME NEW x \in Txids
       PROVE  (InChain(x) <=> (InChain(x)' \/ x \in Range(b))) /\ (x \in Range(b) => ~InChain(x)')
  <2>1. InChain(x) <=> \E i \in 1 .. n : x \in Range(chain[i])
    BY <1>1 DEF InChain, CreatedAt
  <2>2. InChain(x)' <=> \E i \in 1 .. m : x \in Range(chain[i])
    BY <1>5 DEF InChain, CreatedAt
  <2>3. \A i \in 1 .. n : x \in Range(chain[i]) <=> A[n][x] = i
    BY <1>6 DEF Stage, Where
  <2>4. m \in Nat /\ n \in Nat /\ n = m + 1
    BY <1>1
  <2> HIDE DEF m, n
  <2>5. \A i \in 1 .. n : i = n \/ i \in 1 .. m
    BY <2>4
  <2>6. n \in 1 .. n /\ \A i \in 1 .. m : i \in 1 .. n /\ i # n
    BY <2>4
  <2>7. x \in Range(b) <=> A[n][x] = n
    BY <2>3, <2>6
  <2> HIDE DEF b
  <2>8. QED
    BY <2>1, <2>2, <2>3, <2>5, <2>6, <2>7 DEF b
<1>12. QED
  BY <1>3, <1>9, <1>10, <1>11 DEF BlockTaken

(* An input is there: an output of the pool, or one that the chain made    *)
(* and did not spend.                                                      *)
Ready(in) == in[2] \in Outputs[in[1]] /\ (in[1] \in mapTx \/ (InChain(in[1]) /\ ~SpentInChain(in)))

ReadyIsAvailable == \A x \in Txids : \A in \in Vin(x) : Available(in) <=> Ready(in)

(* HaveInputs on the view of the pool over the coins says the same.        *)
LEMMA AvailableIff == ChainInv => ReadyIsAvailable
<1> SUFFICES ASSUME ChainInv, NEW x \in Txids, NEW in \in Vin(x)
             PROVE  Available(in) <=> Ready(in)
  BY DEF ReadyIsAvailable
<1>1. in[1] \in Txids /\ in = <<in[1], in[2]>>
  BY VinType
<1>2. CASE in[1] \in mapTx
  BY <1>2 DEF Available, Ready
<1>3. CASE in[1] \notin mapTx
  <2>1. ~InChain(in[1]) => utxo[in[1]].outs = {}
    BY <1>1, PrunedFields DEF ChainInv
  <2>2. InChain(in[1]) => utxo[in[1]].outs = {m \in Outputs[in[1]] : ~SpentInChain(<<in[1], m>>)}
    BY <1>1 DEF ChainInv
  <2>3. Available(in) <=> in[2] \in utxo[in[1]].outs
    BY <1>3 DEF Available
  <2>4. Ready(in) <=> in[2] \in Outputs[in[1]] /\ InChain(in[1]) /\ ~SpentInChain(<<in[1], in[2]>>)
    BY <1>1, <1>3 DEF Ready
  <2>5. QED
    BY <2>1, <2>2, <2>3, <2>4
<1>4. QED
  BY <1>2, <1>3

LEMMA AvailableIffNext == ChainInv' => ReadyIsAvailable'
  BY AvailableIff, PTL

LEMMA PrevOf ==
    ASSUME NEW x \in Txids
    PROVE  /\ \A p \in Prevs(x) : p \in Txids /\ \E in \in Vin(x) : in[1] = p
           /\ \A in \in Vin(x) : in[1] \in Prevs(x)
<1>1. \A in \in Vin(x) : in[1] \in Txids
  BY VinType
<1>2. QED
  BY <1>1 DEF Prevs

LEMMA OutpointOf ==
    ASSUME NEW q \in Txids, NEW n \in Outputs[q]
    PROVE  <<q, n>> \in Outpoints
  BY DEF Outpoints

(* mapNextTx finds the spenders.                                           *)
LEMMA NextTxFinds ==
    ASSUME NextTxInv, NEW o \in Outpoints
    PROVE  /\ \A x \in mapTx : o \in Vin(x) => mapNextTx[o] = x
           /\ mapNextTx[o] # None => mapNextTx[o] \in mapTx /\ o \in Vin(mapNextTx[o])
<1>1. {x \in mapTx : o \in Vin(x)} = {mapNextTx[o]} \ {None}
  BY DEF NextTxInv, NextTxExact
<1>2. QED
  BY <1>1

LEMMA ChildrenExact ==
    ASSUME NextTxInv, NEW q \in Txids
    PROVE  \A x : x \in Children(q) <=> x \in mapTx /\ \E n \in Outputs[q] : <<q, n>> \in Vin(x)
<1>1. None \notin mapTx
  BY PoolAssumption DEF NextTxInv
<1>2. ASSUME NEW x \in Children(q) PROVE x \in mapTx /\ \E n \in Outputs[q] : <<q, n>> \in Vin(x)
  <2>1. PICK n \in Outputs[q] : x = mapNextTx[<<q, n>>] /\ x \in mapTx
    BY DEF Children
  <2>2. <<q, n>> \in Outpoints
    BY OutpointOf
  <2>3. QED
    BY <1>1, <2>1, <2>2, NextTxFinds
<1>3. ASSUME NEW x \in mapTx, NEW n \in Outputs[q], <<q, n>> \in Vin(x) PROVE x \in Children(q)
  <2>1. mapNextTx[<<q, n>>] = x
    BY <1>3, OutpointOf, NextTxFinds
  <2>2. QED
    BY <2>1 DEF Children
<1>4. QED
  BY <1>2, <1>3

Closed(gone) == \A q \in gone : Children(q) \subseteq gone

(* The queue of remove takes its roots, everything that depends on what it *)
(* takes, and nothing else.                                                *)
LEMMA ReachedFacts ==
    ASSUME NEW roots, roots \subseteq mapTx
    PROVE  /\ Reached(roots) \subseteq mapTx /\ roots \subseteq Reached(roots) /\ Closed(Reached(roots))
           /\ \A x \in Reached(roots) : x \in roots \/ \E q \in Reached(roots) : x \in Children(q)
           /\ \A D \in SUBSET mapTx : roots \subseteq D /\ Closed(D) => Reached(roots) \subseteq D
<1> DEFINE R == Reached(roots)
<1>1. \A d : d \in R <=> d \in mapTx /\ \A D \in SUBSET mapTx : roots \subseteq D /\ Closed(D) => d \in D
  BY DEF Reached, Closed
<1> HIDE DEF R
<1>2. R \subseteq mapTx /\ roots \subseteq R
  BY <1>1
<1>3. ASSUME NEW q \in R, NEW x \in Children(q) PROVE x \in R
  <2>1. x \in mapTx
    BY <1>3 DEF Children
  <2>2. ASSUME NEW D \in SUBSET mapTx, roots \subseteq D, Closed(D) PROVE x \in D
    BY <1>1, <1>3, <2>2 DEF Closed
  <2>3. QED
    BY <1>1, <2>1, <2>2
<1>4. Closed(R)
  BY <1>3 DEF Closed
<1>5. ASSUME NEW x \in R PROVE x \in roots \/ \E q \in R : x \in Children(q)
  <2> DEFINE E == {d \in R : d \in roots \/ \E q \in R : d \in Children(q)}
  <2>1. E \in SUBSET mapTx /\ roots \subseteq E
    BY <1>2
  <2>2. Closed(E)
    BY <1>3 DEF Closed
  <2>3. x \in E
    <3> HIDE DEF E
    <3> QED
      BY <1>1, <2>1, <2>2
  <2>4. QED
    BY <2>3
<1>6. QED
  BY <1>1, <1>2, <1>4, <1>5 DEF R

(* What stays in the pool does not depend on what leaves it.               *)
LEMMA KeptIndependent ==
    ASSUME NextTxInv, NEW gone, gone \subseteq mapTx, Closed(gone), NEW x \in mapTx, x \notin gone,
           NEW in \in Vin(x), in[2] \in Outputs[in[1]]
    PROVE  in[1] \notin gone
<1>1. x \in Txids /\ in[1] \in Txids /\ in = <<in[1], in[2]>>
  BY VinType DEF NextTxInv
<1>2. x \in Children(in[1])
  BY <1>1, ChildrenExact
<1>3. QED
  BY <1>2 DEF Closed

LEMMA AcceptedFacts ==
    ASSUME NEW x, NEW policy, Verdict(x, policy) = "accepted"
    PROVE  /\ x \notin mapTx /\ utxo[x] = Pruned
           /\ InputsMature(x) /\ \A in \in Vin(x) : Available(in)
  BY DEF Verdict, HaveCoins

(* A step of the block at hand is still to settle this input of the pool:  *)
(* the output is spent by a transaction that is still to be confirmed, or  *)
(* made by one that is still to be resurrected.                            *)
ToConfirm(in) == \E y \in Range(job.vtx) : in \in Vin(y)
ToResurrect(in) == in[1] \in Range(job.vtx) /\ in[2] \in Outputs[in[1]]

Settled ==
    /\ InputsAvailable
    /\ \A x \in mapTx : ~InChain(x)

(* The block that was connected: what of it the chain spends is spent by   *)
(* its later transactions.                                                 *)
Confirming ==
    /\ job.vtx \in Seq(Txids) /\ \A i, j \in 1 .. Len(job.vtx) : job.vtx[i] = job.vtx[j] => i = j
    /\ \A y \in Range(job.vtx) : InChain(y)
    /\ \A i \in 1 .. Len(job.vtx) : \A z \in Txids :
          InChain(z) /\ job.vtx[i] \in Prevs(z) => \E k \in i + 1 .. Len(job.vtx) : job.vtx[k] = z
    /\ \A x \in mapTx : InChain(x) => x \in Range(job.vtx)
    /\ \A x \in mapTx : InputsMature(x) /\ \A in \in Vin(x) : Available(in) \/ ToConfirm(in)

(* The block that was disconnected.                                        *)
Resurrecting ==
    /\ job.vtx \in Seq(Txids) /\ \A i, j \in 1 .. Len(job.vtx) : job.vtx[i] = job.vtx[j] => i = j
    /\ \A y \in Range(job.vtx) : ~InChain(y) /\ y \notin mapTx
    /\ \A x \in mapTx : ~InChain(x)
    /\ \A x \in mapTx : \A in \in Vin(x) : Available(in) \/ ToResurrect(in)

PoolInv ==
    /\ mapTx \subseteq Loose
    /\ NextTxExact
    /\ job.op \in {"idle", "orphans", "connect", "disconnect"}
    /\ job.op \in {"idle", "orphans"} => Settled
    /\ job.op = "connect" => Confirming
    /\ job.op = "disconnect" => Resurrecting

(* A transaction that the chain has is not accepted: its inputs are spent. *)
LEMMA AcceptedNew ==
    ASSUME ChainInv, NEW x \in Loose, \A y \in mapTx : ~InChain(y), \A in \in Vin(x) : Available(in)
    PROVE  ~InChain(x)
<1> SUFFICES ASSUME InChain(x) PROVE FALSE
  OBVIOUS
<1>1. x \in Txids /\ Vin(x) # {}
  BY VinType DEF Loose
<1>2. PICK in \in Vin(x) : TRUE
  BY <1>1
<1>3. Ready(in)
  BY <1>1, AvailableIff DEF ReadyIsAvailable
<1>4. InChain(in[1]) /\ SpentInChain(in)
  BY <1>1, <1>2 DEF ChainInv, SpentInChain
<1>5. QED
  BY <1>3, <1>4 DEF Ready

(* Without a step of the chain.                                            *)
LEMMA SameChain ==
    ASSUME UNCHANGED vars
    PROVE  /\ \A x : InChain(x)' <=> InChain(x)
           /\ \A in : SpentInChain(in)' <=> SpentInChain(in)
           /\ utxo' = utxo /\ SpendHeight' = SpendHeight
           /\ ChainInv <=> ChainInv'
<1>1. utxo' = utxo /\ chain' = chain
  BY DEF vars
<1>2. \A x : InChain(x)' <=> InChain(x)
  BY <1>1 DEF InChain, CreatedAt
<1>3. \A in : SpentInChain(in)' <=> SpentInChain(in)
  BY <1>2 DEF SpentInChain
<1>4. SpendHeight' = SpendHeight
  BY <1>1 DEF SpendHeight
<1>5. ChainInv <=> ChainInv'
  BY <1>1 DEF ChainInv, InChain, SpentInChain, CreatedAt
<1>6. QED
  BY <1>1, <1>2, <1>3, <1>4, <1>5

LEMMA AcceptSettled ==
    ASSUME ChainInv, Settled, mapTx \subseteq Loose, NEW x \in Loose, NEW policy,
           Verdict(x, policy) = "accepted", AddUnchecked(x), UNCHANGED vars
    PROVE  Settled'
<1>1. /\ x \notin mapTx /\ utxo[x] = Pruned
      /\ InputsMature(x) /\ \A in \in Vin(x) : Available(in)
  BY AcceptedFacts
<1>2. ~InChain(x)
  BY <1>1, AcceptedNew DEF Settled
<1>3. mapTx' = mapTx \cup {x}
  BY DEF AddUnchecked
<1>4. \A y \in mapTx' : ~InChain(y)'
  BY <1>2, <1>3, SameChain DEF Settled
<1>5. \A y \in mapTx' : InputsMature(y) /\ y \in Txids /\ \A in \in Vin(y) : Available(in)
  BY <1>1, <1>3 DEF Settled, InputsAvailable, Loose
<1>6. ASSUME NEW y \in mapTx' PROVE InputsMature(y)'
  <2>1. \A p \in Prevs(y) \ mapTx : Mature(utxo[p], SpendHeight)
    BY <1>5 DEF InputsMature
  <2>2. \A p \in Prevs(y) \ mapTx' : Mature(utxo[p], SpendHeight)
    BY <1>3, <2>1
  <2>3. QED
    BY <2>2, SameChain DEF InputsMature
<1>7. ASSUME NEW y \in mapTx', NEW in \in Vin(y) PROVE Available(in)'
  <2>1. Ready(in)
    BY <1>5, AvailableIff DEF ReadyIsAvailable
  <2>2. Ready(in)'
    BY <1>3, <2>1, SameChain DEF Ready
  <2>3. QED
    BY <1>5, <2>2, SameChain, AvailableIffNext DEF ReadyIsAvailable
<1>8. QED
  BY <1>4, <1>6, <1>7 DEF Settled, InputsAvailable

-----------------------------------------------------------------------------
(* A block is connected.                                                   *)

(* ConnectTip: what the block spends of the pool's inputs, its             *)
(* transactions are still to be confirmed for.                             *)
LEMMA ConnectTipPool ==
    ASSUME ChainInv, ChainInv', Settled, mapTx \subseteq Loose, NEW b, BlockAdded(b),
           job'.vtx = b, UNCHANGED poolVars
    PROVE  Confirming'
<1>1. /\ \A x \in Txids : InChain(x)' <=> (InChain(x) \/ x \in Range(b))
      /\ \A x \in Range(b) : ~InChain(x)
      /\ b \in Seq(Txids) /\ Len(b) \in Nat /\ \A i, j \in 1 .. Len(b) : b[i] = b[j] => i = j
      /\ \A i, j \in 1 .. Len(b) : b[j] \in Prevs(b[i]) => j < i
      /\ \A p \in Txids \ Range(b) : Kept(utxo'[p], utxo[p])
      /\ Len(chain') = Len(chain) + 1 /\ Len(chain) \in Nat
  BY DEF BlockAdded
<1>2. mapTx' = mapTx /\ mapTx \subseteq Txids
  BY DEF poolVars, Loose
<1>3. Range(b) = {b[i] : i \in 1 .. Len(b)} /\ Range(b) \subseteq Txids
  BY <1>1 DEF Range
<1>4. \A y \in Range(b) : InChain(y)'
  BY <1>1, <1>3
<1>5. ASSUME NEW i \in 1 .. Len(b), NEW z \in Txids, InChain(z)', b[i] \in Prevs(z)
      PROVE  \E k \in i + 1 .. Len(b) : b[k] = z
  <2>1. PICK in \in Vin(z) : in[1] = b[i]
    BY <1>5, PrevOf
  <2>2. ~InChain(b[i])
    BY <1>1, <1>3
  <2>3. ~InChain(z)
    BY <2>1, <2>2 DEF ChainInv
  <2>4. PICK k \in 1 .. Len(b) : b[k] = z
    BY <1>1, <1>3, <1>5, <2>3
  <2>5. i < k
    BY <1>1, <1>5, <2>4
  <2>6. QED
    BY <1>1, <2>4, <2>5
<1>6. \A x \in mapTx : InChain(x)' => x \in Range(b)
  BY <1>1, <1>2 DEF Settled
<1>7. ASSUME NEW x \in mapTx, NEW in \in Vin(x) PROVE Available(in)' \/ \E y \in Range(b) : in \in Vin(y)
  <2>1. x \in Txids /\ in[1] \in Txids
    BY <1>2, VinType
  <2>2. Ready(in)
    BY <2>1, AvailableIff DEF ReadyIsAvailable, Settled, InputsAvailable
  <2>3. CASE in[1] \in mapTx
    <3>1. Ready(in)'
      BY <1>2, <2>2, <2>3 DEF Ready
    <3>2. QED
      BY <2>1, <3>1, AvailableIffNext DEF ReadyIsAvailable
  <2>4. CASE in[1] \notin mapTx /\ ~SpentInChain(in)'
    <3>1. Ready(in)'
      BY <1>1, <2>1, <2>2, <2>4 DEF Ready
    <3>2. QED
      BY <2>1, <3>1, AvailableIffNext DEF ReadyIsAvailable
  <2>5. CASE in[1] \notin mapTx /\ SpentInChain(in)'
    <3>1. PICK y \in Txids : InChain(y)' /\ in \in Vin(y)
      BY <2>5 DEF SpentInChain
    <3>2. ~InChain(y)
      BY <2>2, <2>5, <3>1 DEF Ready, SpentInChain
    <3>3. QED
      BY <1>1, <3>1, <3>2
  <2>6. QED
    BY <2>3, <2>4, <2>5
<1>8. ASSUME NEW x \in mapTx PROVE InputsMature(x)'
  <2> SUFFICES ASSUME NEW p \in Prevs(x) \ mapTx PROVE Mature(utxo'[p], SpendHeight')
    BY <1>2 DEF InputsMature
  <2>1. x \in Txids
    BY <1>2
  <2>2. PICK in \in Vin(x) : in[1] = p
    BY <2>1, PrevOf
  <2>3. p \in Txids
    BY <2>1, PrevOf
  <2>4. Ready(in)
    BY <2>1, AvailableIff DEF ReadyIsAvailable, Settled, InputsAvailable
  <2>5. p \notin Range(b)
    BY <1>1, <2>2, <2>4 DEF Ready
  <2>6. Kept(utxo'[p], utxo[p])
    BY <1>1, <2>3, <2>5
  <2>7. Mature(utxo[p], SpendHeight)
    BY DEF Settled, InputsAvailable, InputsMature
  <2>8. utxo[p].nHeight \in Nat
    BY <2>3, CoinFields DEF ChainInv, GoodView, GoodCoins
  <2>9. CASE utxo'[p] = Pruned
    BY <2>9, PrunedFields DEF Mature
  <2>10. CASE utxo'[p] # Pruned
    <3>1. /\ utxo'[p].nHeight = utxo[p].nHeight /\ utxo'[p].fCoinBase = utxo[p].fCoinBase
          /\ utxo'[p].fCoinStake = utxo[p].fCoinStake
      BY <2>6, <2>10 DEF Kept
    <3>2. SpendHeight \in Nat /\ SpendHeight' = SpendHeight + 1 /\ nCoinbaseMaturity \in Nat
      BY <1>1, UndoAssumption DEF SpendHeight
    <3>3. SpendHeight - utxo[p].nHeight >= nCoinbaseMaturity => SpendHeight' - utxo[p].nHeight >= nCoinbaseMaturity
      BY <2>8, <3>2
    <3>4. QED
      BY <2>7, <3>1, <3>3 DEF Mature
  <2>11. QED
    BY <2>9, <2>10
<1>9. QED
  <2> DEFINE vtx == job.vtx
  <2>1. vtx' = b
    OBVIOUS
  <2>2. \A in : ToConfirm(in)' <=> \E y \in Range(b) : in \in Vin(y)
    BY DEF ToConfirm
  <2>3. QED
    BY <1>1, <1>2, <1>4, <1>5, <1>6, <1>7, <1>8, <2>2 DEF Confirming

(* The transactions that conflict with y are in the pool, and are not in   *)
(* the chain with all that depends on them.                                *)
LEMMA ConflictFacts ==
    ASSUME ChainInv, NextTxInv, NEW y \in Txids, InChain(y), NEW in \in Vin(y), mapNextTx[in] \notin {None, y}
    PROVE  /\ mapNextTx[in] \in mapTx /\ in \in Vin(mapNextTx[in])
           /\ RemovalOf(mapNextTx[in]) = Reached({mapNextTx[in]})
           /\ \A x \in Reached({mapNextTx[in]}) : ~InChain(x)
<1> DEFINE z == mapNextTx[in]
<1>1. in[1] \in Txids /\ in = <<in[1], in[2]>> /\ in[2] \in Outputs[in[1]]
  BY VinType DEF ChainInv
<1>2. in \in Outpoints
  BY <1>1, OutpointOf
<1>3. z \in mapTx /\ in \in Vin(z) /\ z # y
  BY <1>2, NextTxFinds
<1>4. mapTx \subseteq Txids
  BY DEF NextTxInv
<1>5. RemovalOf(z) = Reached({z})
  <2>1. ({z} \cap mapTx) \cup (IF z \in mapTx THEN {} ELSE Children(z)) = {z}
    BY <1>3
  <2>2. QED
    BY <2>1 DEF RemovalOf
<1> HIDE DEF z
<1>6. ~InChain(z)
  BY <1>3, <1>4 DEF ChainInv
<1> DEFINE D == {x \in mapTx : ~InChain(x)}
<1>7. Closed(D)
  <2> SUFFICES ASSUME NEW q \in D, NEW x \in Children(q) PROVE ~InChain(x) /\ x \in mapTx
    BY DEF Closed
  <2>1. q \in Txids /\ ~InChain(q)
    BY <1>4
  <2>2. PICK n \in Outputs[q] : <<q, n>> \in Vin(x) /\ x \in mapTx
    BY <2>1, ChildrenExact
  <2>3. InChain(x) => InChain(<<q, n>>[1])
    BY <1>4, <2>2 DEF ChainInv
  <2>4. QED
    BY <2>1, <2>2, <2>3
<1>8. D \in SUBSET mapTx /\ {z} \subseteq D /\ {z} \subseteq mapTx
  BY <1>3, <1>6
<1>9. Reached({z}) \subseteq D
  <2> HIDE DEF D
  <2> QED
    BY <1>7, <1>8, ReachedFacts
<1>10. QED
  BY <1>3, <1>5, <1>9 DEF z

(* The conflicts of y and what depends on them.                            *)
Conflicts(y) == UNION {RemovalOf(mapNextTx[in]) : in \in {o \in Vin(y) : mapNextTx[o] \notin {None, y}}}

LEMMA ConflictsClosed ==
    ASSUME ChainInv, NextTxInv, NEW y \in Txids, InChain(y)
    PROVE  /\ Confirmed(y) = ({y} \cap mapTx) \cup Conflicts(y)
           /\ Conflicts(y) \subseteq mapTx /\ Closed(Conflicts(y))
           /\ \A x \in Conflicts(y) : ~InChain(x)
           /\ \A x \in mapTx \ {y} : Vin(x) \cap Vin(y) # {} => x \in Conflicts(y)
           /\ \A x \in Conflicts(y) : \/ \E q \in Conflicts(y) : x \in Children(q)
                                      \/ Vin(x) \cap Vin(y) # {} /\ x # y
<1>1. Confirmed(y) = ({y} \cap mapTx) \cup Conflicts(y)
  BY DEF Confirmed, Conflicts
<1>2. \A x : x \in Conflicts(y) <=>
         \E in \in Vin(y) : mapNextTx[in] \notin {None, y} /\ x \in Reached({mapNextTx[in]})
  <2>1. \A in \in Vin(y) : mapNextTx[in] \notin {None, y} => RemovalOf(mapNextTx[in]) = Reached({mapNextTx[in]})
    BY ConflictFacts
  <2>2. QED
    BY <2>1 DEF Conflicts
<1> HIDE DEF Conflicts
<1>3. ASSUME NEW in \in Vin(y), mapNextTx[in] \notin {None, y}
      PROVE  LET z == mapNextTx[in] IN
             /\ z \in mapTx /\ in \in Vin(z)
             /\ Reached({z}) \subseteq mapTx /\ z \in Reached({z}) /\ Closed(Reached({z}))
             /\ \A x \in Reached({z}) : x = z \/ \E q \in Reached({z}) : x \in Children(q)
  <2> DEFINE z == mapNextTx[in]
  <2>1. z \in mapTx /\ in \in Vin(z)
    BY <1>3, ConflictFacts
  <2> HIDE DEF z
  <2>2. {z} \subseteq mapTx
    BY <2>1
  <2>3. /\ Reached({z}) \subseteq mapTx /\ {z} \subseteq Reached({z}) /\ Closed(Reached({z}))
        /\ \A x \in Reached({z}) : x \in {z} \/ \E q \in Reached({z}) : x \in Children(q)
    BY <2>2, ReachedFacts
  <2>4. QED
    BY <2>1, <2>3 DEF z
<1>4. Conflicts(y) \subseteq mapTx
  BY <1>2, <1>3
<1>5. Closed(Conflicts(y))
  <2> SUFFICES ASSUME NEW q \in Conflicts(y), NEW x \in Children(q) PROVE x \in Conflicts(y)
    BY DEF Closed
  <2>1. PICK in \in Vin(y) : mapNextTx[in] \notin {None, y} /\ q \in Reached({mapNextTx[in]})
    BY <1>2
  <2>2. x \in Reached({mapNextTx[in]})
    BY <1>3, <2>1 DEF Closed
  <2>3. QED
    BY <1>2, <2>1, <2>2
<1>6. \A x \in Conflicts(y) : ~InChain(x)
  BY <1>2, ConflictFacts
<1>7. ASSUME NEW x \in mapTx \ {y}, Vin(x) \cap Vin(y) # {} PROVE x \in Conflicts(y)
  <2>1. PICK in \in Vin(y) : in \in Vin(x)
    BY <1>7
  <2>2. in[1] \in Txids /\ in = <<in[1], in[2]>> /\ in[2] \in Outputs[in[1]]
    BY VinType DEF ChainInv
  <2>3. in \in Outpoints
    BY <2>2, OutpointOf
  <2>4. mapNextTx[in] = x
    BY <2>1, <2>3, NextTxFinds
  <2>5. None \notin mapTx
    BY PoolAssumption DEF NextTxInv
  <2>6. mapNextTx[in] \notin {None, y} /\ x \in Reached({mapNextTx[in]})
    BY <1>3, <1>7, <2>4, <2>5
  <2>7. QED
    BY <1>2, <2>6
<1>8. ASSUME NEW x \in Conflicts(y)
      PROVE  (\E q \in Conflicts(y) : x \in Children(q)) \/ (Vin(x) \cap Vin(y) # {} /\ x # y)
  <2>1. PICK in \in Vin(y) : mapNextTx[in] \notin {None, y} /\ x \in Reached({mapNextTx[in]})
    BY <1>2
  <2>2. CASE x = mapNextTx[in]
    <3>1. in \in Vin(x) /\ x # y
      BY <1>3, <2>1, <2>2
    <3>2. QED
      BY <3>1
  <2>3. CASE \E q \in Reached({mapNextTx[in]}) : x \in Children(q)
    BY <1>2, <2>1, <2>3
  <2>4. QED
    BY <1>3, <2>1, <2>2, <2>3
<1>9. QED
  BY <1>1, <1>4, <1>5, <1>6, <1>7, <1>8

(* One transaction of a block is done with.                                *)
LEMMA RestOfBlock ==
    ASSUME NEW s \in Seq(Txids), s # <<>>, \A i, j \in 1 .. Len(s) : s[i] = s[j] => i = j
    PROVE  /\ Head(s) \in Range(s) /\ Head(s) = s[1] /\ Head(s) \in Txids
           /\ Tail(s) \in Seq(Txids) /\ Len(s) \in Nat /\ Len(s) # 0 /\ Len(Tail(s)) = Len(s) - 1
           /\ \A k \in 1 .. Len(s) - 1 : Tail(s)[k] = s[k + 1]
           /\ Range(Tail(s)) = Range(s) \ {Head(s)}
           /\ \A i, j \in 1 .. Len(Tail(s)) : Tail(s)[i] = Tail(s)[j] => i = j
<1> DEFINE t == Tail(s)
           n == Len(s)
<1>1. /\ Head(s) = s[1] /\ Head(s) \in Txids /\ t \in Seq(Txids) /\ n \in Nat /\ n # 0 /\ Len(t) = n - 1
      /\ \A k \in 1 .. n - 1 : t[k] = s[k + 1]
      /\ DOMAIN s = 1 .. n /\ DOMAIN t = 1 .. n - 1
  OBVIOUS
<1>2. Range(s) = {s[i] : i \in 1 .. n} /\ Range(t) = {t[i] : i \in 1 .. n - 1}
  BY <1>1 DEF Range
<1> HIDE DEF t, n
<1>3. \A i, j \in 1 .. n : s[i] = s[j] => i = j
  BY DEF n
<1>4. Head(s) \in Range(s)
  BY <1>1, <1>2
<1>5. Range(t) \subseteq Range(s) \ {Head(s)}
  <2> SUFFICES ASSUME NEW k \in 1 .. n - 1 PROVE t[k] \in Range(s) /\ t[k] # s[1]
    BY <1>1, <1>2
  <2>1. t[k] = s[k + 1] /\ k + 1 \in 1 .. n /\ 1 \in 1 .. n /\ k + 1 # 1
    BY <1>1
  <2>2. QED
    BY <1>2, <1>3, <2>1
<1>6. Range(s) \ {Head(s)} \subseteq Range(t)
  <2> SUFFICES ASSUME NEW i \in 1 .. n, s[i] # s[1] PROVE s[i] \in Range(t)
    BY <1>1, <1>2
  <2>1. i - 1 \in 1 .. n - 1 /\ (i - 1) + 1 = i
    <3>1. i # 1
      OBVIOUS
    <3>2. QED
      BY <1>1, <3>1
  <2>2. t[i - 1] = s[i]
    BY <1>1, <2>1
  <2>3. QED
    BY <1>2, <2>1, <2>2
<1>7. ASSUME NEW i \in 1 .. Len(t), NEW j \in 1 .. Len(t), t[i] = t[j] PROVE i = j
  <2>1. i \in 1 .. n - 1 /\ j \in 1 .. n - 1 /\ i + 1 \in 1 .. n /\ j + 1 \in 1 .. n
    BY <1>1
  <2>2. s[i + 1] = s[j + 1]
    BY <1>1, <1>7, <2>1
  <2>3. i + 1 = j + 1
    BY <1>3, <2>1, <2>2
  <2>4. QED
    BY <2>1, <2>3
<1>8. QED
  BY <1>1, <1>4, <1>5, <1>6, <1>7 DEF t, n

(* What removeForBlock leaves in the pool after y.                         *)
LEMMA ConfirmPool ==
    ASSUME ChainInv, NextTxInv, mapTx \subseteq Loose, Confirming, job.vtx # <<>>,
           Drop(Confirmed(Head(job.vtx))), UNCHANGED vars
    PROVE  LET t == Tail(job.vtx) IN
           \A x \in mapTx' : /\ InChain(x) => x \in Range(t)
                             /\ InputsMature(x)'
                             /\ \A in \in Vin(x) : Available(in)' \/ \E y \in Range(t) : in \in Vin(y)
<1> DEFINE s == job.vtx
           t == Tail(s)
           y == Head(s)
           gone == Confirmed(y)
<1>1. /\ s \in Seq(Txids) /\ s # <<>> /\ \A i, j \in 1 .. Len(s) : s[i] = s[j] => i = j
      /\ \A z \in Range(s) : InChain(z)
      /\ \A i \in 1 .. Len(s) : \A z \in Txids :
            InChain(z) /\ s[i] \in Prevs(z) => \E k \in i + 1 .. Len(s) : s[k] = z
      /\ \A x \in mapTx : InChain(x) => x \in Range(s)
      /\ \A x \in mapTx : InputsMature(x) /\ \A in \in Vin(x) : Available(in) \/ \E z \in Range(s) : in \in Vin(z)
  BY DEF Confirming, ToConfirm
<1>2. mapTx' = mapTx \ gone
  BY DEF Drop
<1> HIDE DEF s
<1>3. /\ y \in Range(s) /\ y = s[1] /\ y \in Txids /\ Range(t) = Range(s) \ {y}
      /\ Len(s) \in Nat /\ Len(s) # 0 /\ Len(t) = Len(s) - 1
      /\ \A k \in 1 .. Len(s) - 1 : t[k] = s[k + 1]
      /\ t \in Seq(Txids)
  BY <1>1, RestOfBlock
<1>4. InChain(y)
  BY <1>1, <1>3
<1> HIDE DEF t, y
<1>5. /\ gone = ({y} \cap mapTx) \cup Conflicts(y)
      /\ Conflicts(y) \subseteq mapTx /\ Closed(Conflicts(y))
      /\ \A x \in mapTx \ {y} : Vin(x) \cap Vin(y) # {} => x \in Conflicts(y)
  BY <1>3, <1>4, ConflictsClosed
<1> HIDE DEF gone
<1>6. \A x \in mapTx' : x \in mapTx /\ x # y /\ x \notin Conflicts(y) /\ x \in Txids
  BY <1>2, <1>5 DEF Loose
<1>7. \A x \in mapTx' : InChain(x) => x \in Range(t)
  BY <1>1, <1>3, <1>6
<1>8. ASSUME NEW z \in Txids, InChain(z), y \in Prevs(z) PROVE z \in Range(t)
  <2>1. 1 \in 1 .. Len(s)
    BY <1>3
  <2>2. PICK k \in 1 + 1 .. Len(s) : s[k] = z
    BY <1>1, <1>3, <1>8, <2>1
  <2>3. k - 1 \in 1 .. Len(s) - 1 /\ (k - 1) + 1 = k
    BY <1>3
  <2>4. t[k - 1] = z /\ k - 1 \in DOMAIN t
    BY <1>3, <2>2, <2>3
  <2>5. QED
    BY <2>4 DEF Range
<1>9. ASSUME NEW x \in mapTx', NEW in \in Vin(x)
      PROVE  /\ in[2] \in Outputs[in[1]] /\ in[1] \in Txids
             /\ in[1] \notin Conflicts(y)
             /\ Available(in)' \/ \E z \in Range(t) : in \in Vin(z)
  <2>1. x \in mapTx /\ x # y /\ x \notin Conflicts(y) /\ x \in Txids
    BY <1>6
  <2>2. in[1] \in Txids /\ in = <<in[1], in[2]>> /\ in[1] \in Prevs(x)
    BY <2>1, VinType, PrevOf
  <2>3. CASE \E z \in Range(s) : in \in Vin(z)
    <3>1. PICK z \in Range(s) : in \in Vin(z)
      BY <2>3
    <3>2. z \in Txids /\ InChain(z)
      BY <1>1, <3>1 DEF Range
    <3>3. in[2] \in Outputs[in[1]]
      BY <3>1, <3>2 DEF ChainInv
    <3>4. in[1] \notin Conflicts(y)
      BY <1>5, <2>1, <3>3, KeptIndependent
    <3>5. z # y
      BY <1>5, <2>1, <3>1
    <3>6. QED
      BY <1>3, <2>2, <3>1, <3>3, <3>4, <3>5
  <2>4. CASE Available(in)
    <3>1. Ready(in)
      BY <2>1, <2>4, AvailableIff DEF ReadyIsAvailable
    <3>2. in[2] \in Outputs[in[1]]
      BY <3>1 DEF Ready
    <3>3. in[1] \notin Conflicts(y)
      BY <1>5, <2>1, <3>2, KeptIndependent
    <3>4. CASE Ready(in)'
      <4>1. Available(in)'
        BY <2>1, <3>4, SameChain, AvailableIffNext DEF ReadyIsAvailable
      <4>2. QED
        BY <2>2, <3>2, <3>3, <4>1
    <3>5. CASE ~Ready(in)'
      <4>1. in[1] \in mapTx /\ in[1] \notin mapTx'
        BY <3>1, <3>5, SameChain DEF Ready
      <4>2. in[1] = y
        BY <1>2, <1>5, <3>3, <4>1
      <4>3. SpentInChain(in)
        BY <1>4, <3>2, <3>5, <4>2, SameChain DEF Ready
      <4>4. PICK z \in Txids : InChain(z) /\ in \in Vin(z)
        BY <4>3 DEF SpentInChain
      <4>5. y \in Prevs(z)
        BY <4>2, <4>4, PrevOf
      <4>6. z \in Range(t)
        BY <1>8, <4>4, <4>5
      <4>7. QED
        BY <2>2, <3>2, <3>3, <4>4, <4>6
    <3>6. QED
      BY <3>4, <3>5
  <2>5. QED
    BY <1>1, <2>1, <2>3, <2>4
<1>10. ASSUME NEW x \in mapTx' PROVE InputsMature(x)'
  <2> SUFFICES ASSUME NEW p \in Prevs(x) \ mapTx' PROVE Mature(utxo[p], SpendHeight)
    BY SameChain DEF InputsMature
  <2>1. x \in mapTx /\ x \in Txids
    BY <1>6
  <2>2. PICK in \in Vin(x) : in[1] = p
    BY <2>1, PrevOf
  <2>3. p \notin Conflicts(y)
    BY <1>9, <2>2
  <2>4. CASE p \notin mapTx
    BY <1>1, <2>1, <2>4 DEF InputsMature
  <2>5. CASE p \in mapTx
    <3>1. ~utxo[p].fCoinBase /\ ~utxo[p].fCoinStake
      BY <2>5 DEF ChainInv
    <3>2. QED
      BY <3>1 DEF Mature
  <2>6. QED
    BY <2>4, <2>5
<1>11. QED
  BY <1>7, <1>9, <1>10 DEF t, s

LEMMA RemoveForBlockPool ==
    ASSUME ChainInv, NextTxInv, mapTx \subseteq Loose, job.op = "connect", Confirming, RemoveForBlock
    PROVE  \/ job'.op = "idle" /\ Settled'
           \/ job'.op = "connect" /\ Confirming'
<1> DEFINE s == job.vtx
           t == Tail(s)
<1>1. /\ s \in Seq(Txids) /\ \A i, j \in 1 .. Len(s) : s[i] = s[j] => i = j
      /\ \A z \in Range(s) : InChain(z)
      /\ \A i \in 1 .. Len(s) : \A z \in Txids :
            InChain(z) /\ s[i] \in Prevs(z) => \E k \in i + 1 .. Len(s) : s[k] = z
  BY DEF Confirming
<1>2. s # <<>> /\ Drop(Confirmed(Head(s))) /\ UNCHANGED vars
  BY DEF RemoveForBlock
<1>3. \A x \in mapTx' : /\ InChain(x) => x \in Range(t)
                        /\ InputsMature(x)'
                        /\ \A in \in Vin(x) : Available(in)' \/ \E y \in Range(t) : in \in Vin(y)
  BY <1>2, ConfirmPool
<1>4. job' = IF Len(s) = 1 THEN Idle ELSE BlockJob("connect", t)
  BY DEF RemoveForBlock
<1> HIDE DEF s
<1>5. /\ Range(t) = Range(s) \ {Head(s)} /\ t \in Seq(Txids) /\ Len(s) \in Nat /\ Len(s) # 0 /\ Len(t) = Len(s) - 1
      /\ \A k \in 1 .. Len(s) - 1 : t[k] = s[k + 1]
      /\ \A i, j \in 1 .. Len(t) : t[i] = t[j] => i = j
  BY <1>1, <1>2, RestOfBlock
<1> HIDE DEF t
<1>6. CASE Len(s) = 1
  <2>1. job'.op = "idle"
    BY <1>4, <1>6 DEF Idle
  <2>2. Range(t) = {}
    <3>1. Len(t) = 0 /\ DOMAIN t = 1 .. Len(t)
      BY <1>5, <1>6
    <3>2. DOMAIN t = {}
      BY <3>1
    <3>3. QED
      BY <3>2 DEF Range
  <2>3. Settled'
    BY <1>2, <1>3, <2>2, SameChain DEF Settled, InputsAvailable
  <2>4. QED
    BY <2>1, <2>3
<1>7. CASE Len(s) # 1
  <2>1. job'.op = "connect" /\ job'.vtx = t
    BY <1>4, <1>7 DEF BlockJob
  <2>2. ASSUME NEW i \in 1 .. Len(t), NEW z \in Txids, InChain(z), t[i] \in Prevs(z)
        PROVE  \E k \in i + 1 .. Len(t) : t[k] = z
    <3>1. i \in 1 .. Len(s) - 1 /\ i + 1 \in 1 .. Len(s) /\ t[i] = s[i + 1]
      BY <1>5
    <3>2. PICK k \in (i + 1) + 1 .. Len(s) : s[k] = z
      BY <1>1, <2>2, <3>1
    <3>3. k - 1 \in 1 .. Len(s) - 1 /\ (k - 1) + 1 = k /\ k - 1 \in i + 1 .. Len(t)
      BY <1>5, <3>1
    <3>4. t[k - 1] = z
      BY <1>5, <3>2, <3>3
    <3>5. QED
      BY <3>3, <3>4
  <2>3. \A in : ToConfirm(in)' <=> \E y \in Range(t) : in \in Vin(y)
    BY <2>1 DEF ToConfirm
  <2>4. \A z \in Range(t) : InChain(z)'
    BY <1>1, <1>2, <1>5, SameChain
  <2>5. \A x : InChain(x)' <=> InChain(x)
    BY <1>2, SameChain
  <2>6. Confirming'
    <3>1. \A i \in 1 .. Len(t) : \A z \in Txids :
             InChain(z)' /\ t[i] \in Prevs(z) => \E k \in i + 1 .. Len(t) : t[k] = z
      BY <2>2, <2>5
    <3>2. \A x \in mapTx' : InChain(x)' => x \in Range(t)
      BY <1>3, <2>5
    <3>3. \A x \in mapTx' : InputsMature(x)' /\ \A in \in Vin(x) : Available(in)' \/ ToConfirm(in)'
      BY <1>3, <2>3
    <3>4. QED
      BY <1>5, <2>1, <2>4, <3>1, <3>2, <3>3 DEF Confirming
  <2>7. QED
    BY <2>1, <2>6
<1>8. QED
  BY <1>6, <1>7

-----------------------------------------------------------------------------
(* A block is disconnected.                                                *)

(* DisconnectTip: what the pool spends of the block is still to be         *)
(* resurrected.                                                            *)
LEMMA DisconnectTipPool ==
    ASSUME ChainInv, ChainInv', Settled, mapTx \subseteq Loose, NEW b, BlockTaken(b),
           job'.vtx = b, UNCHANGED poolVars
    PROVE  Resurrecting'
<1>1. /\ \A x \in Txids : InChain(x) <=> (InChain(x)' \/ x \in Range(b))
      /\ \A x \in Range(b) : ~InChain(x)'
      /\ b \in Seq(Txids) /\ \A i, j \in 1 .. Len(b) : b[i] = b[j] => i = j
  BY DEF BlockTaken
<1>2. mapTx' = mapTx /\ mapTx \subseteq Txids
  BY DEF poolVars, Loose
<1>3. Range(b) \subseteq Txids
  BY <1>1 DEF Range
<1>4. \A y \in Range(b) : ~InChain(y)' /\ y \notin mapTx
  BY <1>1, <1>2, <1>3 DEF Settled
<1>5. \A x \in mapTx : ~InChain(x)'
  BY <1>1, <1>2 DEF Settled
<1>6. ASSUME NEW x \in mapTx, NEW in \in Vin(x)
      PROVE  Available(in)' \/ (in[1] \in Range(b) /\ in[2] \in Outputs[in[1]])
  <2>1. x \in Txids /\ in[1] \in Txids
    BY <1>2, VinType
  <2>2. Ready(in)
    BY <2>1, AvailableIff DEF ReadyIsAvailable, Settled, InputsAvailable
  <2>3. ~SpentInChain(in) => ~SpentInChain(in)'
    BY <1>1 DEF SpentInChain
  <2>4. CASE in[1] \in Range(b)
    BY <2>2, <2>4 DEF Ready
  <2>5. CASE in[1] \notin Range(b)
    <3>1. Ready(in)'
      BY <1>1, <1>2, <2>1, <2>2, <2>3, <2>5 DEF Ready
    <3>2. QED
      BY <2>1, <3>1, AvailableIffNext DEF ReadyIsAvailable
  <2>6. QED
    BY <2>4, <2>5
<1>7. \A in : ToResurrect(in)' <=> (in[1] \in Range(b) /\ in[2] \in Outputs[in[1]])
  BY DEF ToResurrect
<1>8. \A x \in mapTx' : \A in \in Vin(x) : Available(in)' \/ ToResurrect(in)'
  BY <1>2, <1>6, <1>7
<1>9. QED
  BY <1>1, <1>2, <1>4, <1>5, <1>8 DEF Resurrecting

(* What remove takes when a transaction of the block stays out: all that   *)
(* depends on it.                                                          *)
LEMMA RemovalOfAbsent ==
    ASSUME NEW y, y \notin mapTx
    PROVE  /\ RemovalOf(y) \subseteq mapTx /\ Children(y) \subseteq RemovalOf(y) /\ Closed(RemovalOf(y))
           /\ \A x \in RemovalOf(y) : x \in Children(y) \/ \E q \in RemovalOf(y) : x \in Children(q)
<1>1. ({y} \cap mapTx) \cup (IF y \in mapTx THEN {} ELSE Children(y)) = Children(y)
  OBVIOUS
<1>2. RemovalOf(y) = Reached(Children(y)) /\ Children(y) \subseteq mapTx
  BY <1>1 DEF RemovalOf, Children
<1>3. QED
  BY <1>2, ReachedFacts

LEMMA ResurrectPool ==
    ASSUME ChainInv, NextTxInv, mapTx \subseteq Loose, job.op = "disconnect", Resurrecting, Resurrect
    PROVE  job'.op = "disconnect" /\ Resurrecting' /\ mapTx' \subseteq Loose
<1> DEFINE s == job.vtx
           t == Tail(s)
           y == Head(s)
<1>1. /\ s \in Seq(Txids) /\ \A i, j \in 1 .. Len(s) : s[i] = s[j] => i = j
      /\ \A z \in Range(s) : ~InChain(z) /\ z \notin mapTx
      /\ \A x \in mapTx : ~InChain(x)
      /\ \A x \in mapTx : \A in \in Vin(x) : Available(in) \/ (in[1] \in Range(s) /\ in[2] \in Outputs[in[1]])
  BY DEF Resurrecting, ToResurrect
<1>2. s # <<>> /\ UNCHANGED vars /\ job' = BlockJob("disconnect", t)
  BY DEF Resurrect
<1>3. job'.op = "disconnect" /\ job'.vtx = t
  BY <1>2 DEF BlockJob
<1>4. \/ \E policy : Kind[y] = "normal" /\ Verdict(y, policy) = "accepted" /\ AddUnchecked(y)
      \/ Drop(RemovalOf(y))
  BY DEF Resurrect
<1> HIDE DEF s
<1>5. /\ y \in Range(s) /\ y \in Txids /\ Range(t) = Range(s) \ {y} /\ t \in Seq(Txids)
      /\ \A i, j \in 1 .. Len(t) : t[i] = t[j] => i = j
  BY <1>1, <1>2, RestOfBlock
<1> HIDE DEF t, y
<1>6. ~InChain(y) /\ y \notin mapTx
  BY <1>1, <1>5
<1>7. ASSUME NEW x \in mapTx, NEW in \in Vin(x)
      PROVE  /\ x \in Txids /\ in[1] \in Txids /\ in[2] \in Outputs[in[1]]
             /\ Ready(in) \/ in[1] \in Range(s)
  <2>1. x \in Txids /\ in[1] \in Txids
    BY VinType DEF Loose
  <2>2. Available(in) => Ready(in)
    BY <2>1, AvailableIff DEF ReadyIsAvailable
  <2>3. QED
    BY <1>1, <2>1, <2>2 DEF Ready
<1>8. \A in : ToResurrect(in)' <=> (in[1] \in Range(t) /\ in[2] \in Outputs[in[1]])
  BY <1>3 DEF ToResurrect
<1>9. ChainInv' /\ \A x : InChain(x)' <=> InChain(x)
  BY <1>2, SameChain
<1>10. ASSUME mapTx' \subseteq Loose, \A x \in mapTx' : ~InChain(x) /\ x \notin Range(t),
              \A x \in mapTx' : \A in \in Vin(x) : Ready(in)' \/ (in[1] \in Range(t) /\ in[2] \in Outputs[in[1]])
       PROVE  Resurrecting'
  <2>1. \A x \in mapTx' : \A in \in Vin(x) : Ready(in)' => Available(in)'
    BY <1>9, <1>10, AvailableIffNext DEF ReadyIsAvailable, Loose
  <2>2. \A x \in mapTx' : \A in \in Vin(x) : Available(in)' \/ ToResurrect(in)'
    BY <1>8, <1>10, <2>1
  <2>3. \A z \in Range(t) : ~InChain(z)' /\ z \notin mapTx'
    BY <1>1, <1>5, <1>9, <1>10
  <2>4. \A x \in mapTx' : ~InChain(x)'
    BY <1>9, <1>10
  <2>5. QED
    BY <1>3, <1>5, <2>2, <2>3, <2>4 DEF Resurrecting
<1>11. CASE \E policy : Kind[y] = "normal" /\ Verdict(y, policy) = "accepted" /\ AddUnchecked(y)
  <2>1. mapTx' = mapTx \cup {y} /\ y \in Loose
    BY <1>5, <1>11 DEF AddUnchecked, Loose
  <2>2. \A in \in Vin(y) : Ready(in)
    BY <1>5, <1>11, AcceptedFacts, AvailableIff DEF ReadyIsAvailable
  <2>3. \A in : Ready(in) => Ready(in)'
    BY <1>2, <2>1, SameChain DEF Ready
  <2>4. ASSUME NEW x \in mapTx', NEW in \in Vin(x)
        PROVE  Ready(in)' \/ (in[1] \in Range(t) /\ in[2] \in Outputs[in[1]])
    <3>1. CASE x = y
      BY <2>2, <2>3, <3>1
    <3>2. CASE x \in mapTx
      <4>1. in[1] = y /\ in[2] \in Outputs[y] => Ready(in)'
        BY <2>1 DEF Ready
      <4>2. QED
        BY <1>5, <1>7, <2>3, <3>2, <4>1
    <3>3. QED
      BY <2>1, <3>1, <3>2
  <2>5. \A x \in mapTx' : ~InChain(x) /\ x \notin Range(t)
    BY <1>1, <1>5, <1>6, <2>1
  <2>6. QED
    BY <1>3, <1>10, <2>1, <2>4, <2>5
<1>12. CASE Drop(RemovalOf(y))
  <2> DEFINE gone == RemovalOf(y)
  <2>1. mapTx' = mapTx \ gone
    BY <1>12 DEF Drop
  <2>2. gone \subseteq mapTx /\ Children(y) \subseteq gone /\ Closed(gone)
    BY <1>6, RemovalOfAbsent
  <2> HIDE DEF gone
  <2>3. ASSUME NEW x \in mapTx', NEW in \in Vin(x)
        PROVE  Ready(in)' \/ (in[1] \in Range(t) /\ in[2] \in Outputs[in[1]])
    <3>1. x \in mapTx /\ x \notin gone
      BY <2>1
    <3>2. x \in Txids /\ in[1] \in Txids /\ in[2] \in Outputs[in[1]] /\ (Ready(in) \/ in[1] \in Range(s))
      BY <1>7, <3>1
    <3>3. in[1] \notin gone
      BY <2>2, <3>1, <3>2, KeptIndependent
    <3>4. Ready(in) => Ready(in)'
      BY <1>2, <2>1, <3>3, SameChain DEF Ready
    <3>5. in[1] # y
      <4>1. SUFFICES ASSUME in[1] = y PROVE FALSE
        OBVIOUS
      <4>2. in = <<y, in[2]>>
        BY <3>2, <4>1, VinType
      <4>3. x \in Children(y)
        BY <1>5, <3>1, <3>2, <4>1, <4>2, ChildrenExact
      <4>4. QED
        BY <2>2, <3>1, <4>3
    <3>6. QED
      BY <1>5, <3>2, <3>4, <3>5
  <2>4. \A x \in mapTx' : ~InChain(x) /\ x \notin Range(t)
    BY <1>1, <1>5, <2>1
  <2>5. QED
    BY <1>3, <1>10, <2>1, <2>3, <2>4
<1>13. QED
  BY <1>4, <1>11, <1>12

(* With the whole block done, every input of the pool is there.            *)
LEMMA ResurrectedAll ==
    ASSUME ChainInv, Resurrecting, mapTx \subseteq Loose, job.vtx = <<>>
    PROVE  \A x \in mapTx : \A in \in Vin(x) : Ready(in)
<1>1. Range(job.vtx) = {}
  BY DEF Range
<1>2. QED
  BY <1>1, AvailableIff DEF Resurrecting, ToResurrect, ReadyIsAvailable, Loose

LEMMA ImmatureSpendsInPool == ImmatureSpends \subseteq mapTx
  BY DEF ImmatureSpends

LEMMA RemoveCoinbaseSpendsPool ==
    ASSUME ChainInv, NextTxInv, mapTx \subseteq Loose, job.op = "disconnect", Resurrecting, RemoveCoinbaseSpends
    PROVE  job'.op = "idle" /\ Settled'
<1> DEFINE gone == Reached(ImmatureSpends)
<1>1. job.vtx = <<>> /\ Drop(gone) /\ job' = Idle /\ UNCHANGED vars
  BY DEF RemoveCoinbaseSpends
<1>2. mapTx' = mapTx \ gone
  BY <1>1 DEF Drop
<1>3. gone \subseteq mapTx /\ ImmatureSpends \subseteq gone /\ Closed(gone)
  BY ImmatureSpendsInPool, ReachedFacts
<1>4. \A x \in mapTx : \A in \in Vin(x) : Ready(in)
  BY <1>1, ResurrectedAll
<1> HIDE DEF gone
<1>5. ASSUME NEW x \in mapTx', NEW in \in Vin(x) PROVE in[1] \notin gone /\ Available(in)'
  <2>1. x \in mapTx /\ x \notin gone /\ Ready(in) /\ x \in Txids
    BY <1>2, <1>4 DEF Loose
  <2>2. in[1] \notin gone
    BY <1>3, <2>1, KeptIndependent DEF Ready
  <2>3. Ready(in)'
    BY <1>1, <1>2, <2>1, <2>2, SameChain DEF Ready
  <2>4. QED
    BY <1>1, <2>1, <2>2, <2>3, SameChain, AvailableIffNext DEF ReadyIsAvailable
<1>6. ASSUME NEW x \in mapTx' PROVE InputsMature(x)'
  <2> SUFFICES ASSUME NEW p \in Prevs(x) \ mapTx' PROVE Mature(utxo[p], SpendHeight)
    BY <1>1, SameChain DEF InputsMature
  <2>1. x \in mapTx /\ x \notin ImmatureSpends /\ x \in Txids
    BY <1>2, <1>3 DEF Loose
  <2>2. PICK in \in Vin(x) : in[1] = p
    BY <2>1, PrevOf
  <2>3. p \notin mapTx
    BY <1>2, <1>5, <2>2
  <2>4. QED
    BY <2>1, <2>3 DEF ImmatureSpends
<1>7. \A x \in mapTx' : ~InChain(x)'
  BY <1>1, <1>2, SameChain DEF Resurrecting
<1>8. QED
  BY <1>1, <1>5, <1>6, <1>7 DEF Settled, InputsAvailable, Idle

-----------------------------------------------------------------------------
(* The inductive invariant of the pool.                                    *)

LEMMA PoolInvFacts ==
    ASSUME PoolInv
    PROVE  NextTxInv /\ mapTx \subseteq Loose
  BY DEF PoolInv, NextTxInv, Loose

(* The steps that leave the pool and the kind of job alone.                *)
LEMMA QuietPool ==
    ASSUME PoolInv, UNCHANGED <<vars, poolVars>>, job.op \in {"idle", "orphans"}, job'.op \in {"idle", "orphans"}
    PROVE  PoolInv'
<1>1. mapTx' = mapTx /\ mapNextTx' = mapNextTx /\ utxo' = utxo /\ chain' = chain
  BY DEF vars, poolVars
<1>2. Settled
  BY DEF PoolInv
<1>3. Settled'
  <2>1. \A x : InputsMature(x)' <=> InputsMature(x)
    BY <1>1 DEF InputsMature, SpendHeight
  <2>2. \A in : Available(in)' <=> Available(in)
    BY <1>1 DEF Available
  <2>3. \A x : InChain(x)' <=> InChain(x)
    BY SameChain
  <2>4. QED
    BY <1>1, <1>2, <2>1, <2>2, <2>3 DEF Settled, InputsAvailable
<1>4. NextTxExact'
  BY <1>1 DEF PoolInv, NextTxExact
<1>5. mapTx' \subseteq Loose
  BY <1>1 DEF PoolInv
<1>6. job'.op # "connect" /\ job'.op # "disconnect"
  OBVIOUS
<1>7. QED
  BY <1>3, <1>4, <1>5, <1>6 DEF PoolInv

LEMMA PoolInvNext ==
    PoolInv /\ UndoInv /\ UndoInv' /\ OrphanInv /\ LoopInv /\ BlocksInv /\ [PoolNext]_allVars => PoolInv'
<1> SUFFICES ASSUME PoolInv, UndoInv, UndoInv', OrphanInv, LoopInv, BlocksInv, [PoolNext]_allVars PROVE PoolInv'
  OBVIOUS
<1>1. NextTxInv /\ mapTx \subseteq Loose
  BY PoolInvFacts
<1>2. NextTxExact'
  BY <1>1, NextTxInvNext DEF NextTxInv
<1>3. ChainInv /\ ChainInv'
  <2>1. ChainInv
    BY ChainInvHolds
  <2>2. ChainInv'
    BY ChainInvHoldsNext
  <2>3. QED
    BY <2>1, <2>2
<1>4. Idle.op = "idle" /\ \A op, b : BlockJob(op, b).op = op /\ BlockJob(op, b).vtx = b
  BY DEF Idle, BlockJob
<1>5. ASSUME job'.op \in {"idle", "orphans"}, Settled', mapTx' \subseteq Loose PROVE PoolInv'
  <2>1. job'.op # "connect" /\ job'.op # "disconnect"
    BY <1>5
  <2>2. QED
    BY <1>2, <1>5, <2>1 DEF PoolInv
<1>6. ASSUME job'.op = "connect", Confirming', mapTx' \subseteq Loose PROVE PoolInv'
  BY <1>2, <1>6 DEF PoolInv
<1>7. ASSUME job'.op = "disconnect", Resurrecting', mapTx' \subseteq Loose PROVE PoolInv'
  BY <1>2, <1>7 DEF PoolInv
<1>8. ASSUME job = Idle PROVE job.op = "idle" /\ Settled
  BY <1>4, <1>8 DEF PoolInv
<1>9. ASSUME NEW x \in Loose, NEW policy, Verdict(x, policy) = "accepted", AddUnchecked(x), UNCHANGED vars,
             Settled, job'.op \in {"idle", "orphans"}
      PROVE  PoolInv'
  <2>1. Settled'
    BY <1>1, <1>3, <1>9, AcceptSettled
  <2>2. mapTx' \subseteq Loose
    BY <1>1, <1>9 DEF AddUnchecked
  <2>3. QED
    BY <1>5, <1>9, <2>1, <2>2
<1>10. ASSUME NEW x \in Loose, NEW peer \in Peers, Tx(peer, x) PROVE PoolInv'
  <2>1. job = Idle /\ UNCHANGED vars
    BY <1>10 DEF Tx
  <2>2. PICK policy \in Policies(x) :
          \/ Verdict(x, policy) = "accepted" /\ AddUnchecked(x) /\ job' = OrphanJob(x)
          \/ UNCHANGED <<poolVars, job>>
    BY <1>10 DEF Tx
  <2>3. OrphanJob(x).op = "orphans"
    BY DEF OrphanJob
  <2>4. CASE Verdict(x, policy) = "accepted" /\ AddUnchecked(x) /\ job' = OrphanJob(x)
    BY <1>8, <1>9, <2>1, <2>3, <2>4
  <2>5. CASE UNCHANGED <<poolVars, job>>
    BY <1>8, <2>1, <2>5, QuietPool
  <2>6. QED
    BY <2>2, <2>4, <2>5
<1>11. ASSUME NEW x \in Loose, LocalTx(x) PROVE PoolInv'
  BY <1>8, <1>9, <1>11 DEF LocalTx
<1>12. ASSUME NEW x \in Loose, TryOrphan(x) PROVE PoolInv'
  <2>1. job.op = "orphans" /\ UNCHANGED vars /\ Settled
    BY <1>12 DEF TryOrphan, PoolInv
  <2>2. job'.op = "orphans"
    <3>1. job' \in OrphanJobs
      BY <1>12, TryOrphanLoop
    <3>2. QED
      BY <3>1 DEF OrphanJobs
  <2>3. \/ UNCHANGED poolVars
        \/ \E policy \in Policies(x) : Verdict(x, policy) = "accepted" /\ AddUnchecked(x)
    BY <1>12 DEF TryOrphan
  <2>4. CASE UNCHANGED poolVars
    BY <2>1, <2>2, <2>4, QuietPool
  <2>5. QED
    BY <1>9, <2>1, <2>2, <2>3, <2>4
<1>13. CASE NextWork
  <2>1. job.op = "orphans" /\ UNCHANGED <<vars, poolVars>>
    BY <1>13 DEF NextWork
  <2>2. job' \in OrphanJobs
    BY <1>13, NextWorkLoop
  <2>3. job'.op = "orphans"
    BY <2>2 DEF OrphanJobs
  <2>4. QED
    BY <2>1, <2>3, QuietPool
<1>14. CASE EraseProcessed
  <2>1. job.op = "orphans" /\ UNCHANGED <<vars, poolVars>> /\ job'.op = "idle"
    BY <1>4, <1>14 DEF EraseProcessed, LoopDone
  <2>2. QED
    BY <2>1, QuietPool
<1>15. ASSUME NEW peer \in Peers, PeerGone(peer) PROVE PoolInv'
  <2>1. job.op = "idle" /\ UNCHANGED <<vars, poolVars>> /\ job'.op = "idle"
    BY <1>4, <1>15 DEF PeerGone
  <2>2. QED
    BY <2>1, QuietPool
<1>16. ASSUME NEW b \in Blocks, ConnectTip(b) PROVE PoolInv'
  <2>1. job = Idle /\ ConnectBlock(b) /\ job' = BlockJob("connect", b) /\ UNCHANGED poolVars
    BY <1>16 DEF ConnectTip
  <2>2. BlockAdded(b)
    BY <2>1, ConnectAdds
  <2>3. job'.op = "connect" /\ job'.vtx = b
    BY <1>4, <2>1
  <2>4. Confirming'
    BY <1>1, <1>3, <1>8, <2>1, <2>2, <2>3, ConnectTipPool
  <2>5. QED
    BY <1>1, <1>6, <2>1, <2>3, <2>4 DEF poolVars
<1>17. CASE RemoveForBlock
  <2>1. job.op = "connect" /\ Confirming
    BY <1>17 DEF RemoveForBlock, PoolInv
  <2>2. mapTx' \subseteq Loose
    BY <1>1, <1>17 DEF RemoveForBlock, Drop
  <2>3. QED
    BY <1>1, <1>3, <1>5, <1>6, <1>17, <2>1, <2>2, RemoveForBlockPool
<1>18. CASE DisconnectTip
  <2>1. job = Idle /\ DisconnectBlock /\ job' = BlockJob("disconnect", Last(chain)) /\ UNCHANGED poolVars
    BY <1>18 DEF DisconnectTip
  <2>2. BlockTaken(Last(chain))
    BY <2>1, DisconnectTakes
  <2>3. job'.op = "disconnect" /\ job'.vtx = Last(chain)
    BY <1>4, <2>1
  <2>4. Resurrecting'
    BY <1>1, <1>3, <1>8, <2>1, <2>2, <2>3, DisconnectTipPool
  <2>5. QED
    BY <1>1, <1>7, <2>1, <2>3, <2>4 DEF poolVars
<1>19. CASE Resurrect
  <2>1. job.op = "disconnect" /\ Resurrecting
    BY <1>19 DEF Resurrect, PoolInv
  <2>2. QED
    BY <1>1, <1>3, <1>7, <1>19, <2>1, ResurrectPool
<1>20. CASE RemoveCoinbaseSpends
  <2>1. job.op = "disconnect" /\ Resurrecting
    BY <1>20 DEF RemoveCoinbaseSpends, PoolInv
  <2>2. mapTx' \subseteq Loose
    BY <1>1, <1>20 DEF RemoveCoinbaseSpends, Drop
  <2>3. QED
    BY <1>1, <1>3, <1>5, <1>20, <2>1, <2>2, RemoveCoinbaseSpendsPool
<1>21. CASE UNCHANGED allVars
  <2>1. /\ mapTx' = mapTx /\ mapNextTx' = mapNextTx /\ utxo' = utxo /\ chain' = chain /\ job' = job
    BY <1>21 DEF allVars, vars, poolVars
  <2>2. QED
    BY <2>1 DEF PoolInv, Settled, Confirming, Resurrecting, ToConfirm, ToResurrect, InputsAvailable,
                InputsMature, Available, InChain, CreatedAt, NextTxExact, SpendHeight
<1>22. QED
  BY <1>10, <1>11, <1>12, <1>13, <1>14, <1>15, <1>16, <1>17, <1>18, <1>19, <1>20, <1>21 DEF PoolNext

LEMMA PoolInvInit == PoolInit => PoolInv
<1> SUFFICES ASSUME PoolInit PROVE PoolInv
  OBVIOUS
<1>1. mapTx = {} /\ job = Idle /\ mapNextTx = [o \in Outpoints |-> None]
  BY DEF PoolInit
<1>2. NextTxExact
  BY <1>1 DEF NextTxExact
<1>3. Settled
  BY <1>1 DEF Settled, InputsAvailable
<1>4. job.op = "idle"
  BY <1>1 DEF Idle
<1>5. QED
  BY <1>1, <1>2, <1>3, <1>4 DEF PoolInv

LEMMA BlocksInvHolds == PoolSpec => []BlocksInv
<1>1. PoolInit => BlocksInv
  BY DEF PoolInit, Init, BlocksInv, Idle
<1>2. QED
  BY <1>1, BlocksInvNext, LoopInvHolds, OrphanInvHolds, PTL DEF PoolSpec

LEMMA PoolUndoInv == PoolSpec => []UndoInv
  BY PoolSpecImpliesSpec, UndoInvHolds, PTL

LEMMA PoolInvHolds == PoolSpec => []PoolInv
  BY PoolInvInit, PoolInvNext, BlocksInvHolds, LoopInvHolds, OrphanInvHolds, PoolUndoInv, PTL DEF PoolSpec

LEMMA PoolInvCheck == PoolInv /\ UndoInv => PoolCheck
<1> SUFFICES ASSUME PoolInv, UndoInv PROVE PoolCheck
  OBVIOUS
<1>1. NextTxExact /\ mapTx \subseteq Loose
  BY DEF PoolInv
<1>2. job.op \in {"idle", "orphans"} => InputsAvailable
  BY DEF PoolInv, Settled
<1>3. ASSUME job.op = "disconnect", job.vtx = <<>>, NEW x \in mapTx, NEW p \in Prevs(x) PROVE HaveCoins(p)
  <2>1. ChainInv /\ Resurrecting
    BY <1>3, ChainInvHolds DEF PoolInv
  <2>2. x \in Txids
    BY <1>1 DEF Loose
  <2>3. PICK in \in Vin(x) : in[1] = p
    BY <2>2, PrevOf
  <2>4. Ready(in)
    BY <1>1, <1>3, <2>1, ResurrectedAll
  <2>5. Available(in)
    BY <2>1, <2>2, <2>4, AvailableIff DEF ReadyIsAvailable
  <2>6. p \notin mapTx => utxo[p] # Pruned
    BY <2>3, <2>5, PrunedFields DEF Available
  <2>7. QED
    BY <2>6 DEF HaveCoins
<1>4. QED
  BY <1>1, <1>2, <1>3 DEF PoolCheck

(* CTxMemPool::check never fails: between blocks every input of the pool   *)
(* is an unspent output of the chain or of the pool, mature and marked in  *)
(* mapNextTx for its one spender, and when a disconnected block is done    *)
(* with, no parent is missing; for any transactions and blocks, through    *)
(* any reorganisation, with coinstakes too.                                *)
THEOREM PoolAlwaysChecks == PoolSpec => []PoolCheck
  BY PoolInvHolds, PoolUndoInv, PoolInvCheck, PTL

-----------------------------------------------------------------------------
(* What leaves the pool.                                                   *)

(* Why x may leave the pool.                                               *)
Justified(x) ==
    \/ CreatedAt(x)' # {}
    \/ (\E in \in Vin(x) : ~Available(in))' \/ ~InputsMature(x)'

(* It spends from something that neither the pool nor the chain has.       *)
LEMMA LostParent ==
    ASSUME ChainInv, NextTxInv, UNCHANGED vars, NEW q \in Txids, q \notin mapTx', ~InChain(q),
           NEW x \in Children(q)
    PROVE  Justified(x)
<1>1. PICK n \in Outputs[q] : <<q, n>> \in Vin(x)
  BY ChildrenExact
<1>2. utxo'[q] = Pruned
  BY SameChain DEF ChainInv
<1>3. <<q, n>>[1] = q
  OBVIOUS
<1>4. ~Available(<<q, n>>)'
  BY <1>2, <1>3, PrunedFields DEF Available
<1>5. QED
  BY <1>1, <1>4 DEF Justified

LEMMA ConfirmJustified ==
    ASSUME ChainInv, NextTxInv, mapTx \subseteq Loose, Confirming, RemoveForBlock, NEW x \in mapTx \ mapTx'
    PROVE  Justified(x)
<1> DEFINE s == job.vtx
           y == Head(s)
<1>1. /\ s \in Seq(Txids) /\ \A i, j \in 1 .. Len(s) : s[i] = s[j] => i = j
      /\ \A z \in Range(s) : InChain(z)
      /\ \A i \in 1 .. Len(s) : \A z \in Txids :
            InChain(z) /\ s[i] \in Prevs(z) => \E k \in i + 1 .. Len(s) : s[k] = z
      /\ \A z \in mapTx : InChain(z) => z \in Range(s)
  BY DEF Confirming
<1>2. s # <<>> /\ UNCHANGED vars /\ mapTx' = mapTx \ Confirmed(y)
  BY DEF RemoveForBlock, Drop
<1> HIDE DEF s
<1>3. y \in Range(s) /\ y = s[1] /\ y \in Txids /\ Len(s) \in Nat /\ Len(s) # 0
  BY <1>1, <1>2, RestOfBlock
<1> HIDE DEF y
<1>4. InChain(y)
  BY <1>1, <1>3
<1>5. /\ Confirmed(y) = ({y} \cap mapTx) \cup Conflicts(y)
      /\ Conflicts(y) \subseteq mapTx
      /\ \A z \in Conflicts(y) : ~InChain(z)
      /\ \A z \in Conflicts(y) : \/ \E q \in Conflicts(y) : z \in Children(q)
                                 \/ Vin(z) \cap Vin(y) # {} /\ z # y
  BY <1>3, <1>4, ConflictsClosed
<1>6. CASE x = y
  BY <1>2, <1>4, <1>6, SameChain DEF Justified, InChain
<1>7. CASE x \in Conflicts(y)
  <2>1. CASE \E q \in Conflicts(y) : x \in Children(q)
    <3>1. PICK q \in Conflicts(y) : x \in Children(q)
      BY <2>1
    <3>2. q \in Txids /\ q \notin mapTx' /\ ~InChain(q)
      BY <1>2, <1>5, <3>1 DEF Loose
    <3>3. QED
      BY <1>2, <3>1, <3>2, LostParent
  <2>2. CASE Vin(x) \cap Vin(y) # {} /\ x # y
    <3>1. PICK in \in Vin(y) : in \in Vin(x)
      BY <2>2
    <3>2. in[1] \in Txids /\ InChain(in[1]) /\ SpentInChain(in) /\ in[1] \in Prevs(y)
      BY <1>3, <1>4, VinType, PrevOf DEF ChainInv, SpentInChain
    <3>3. in[1] \notin mapTx'
      <4> SUFFICES ASSUME in[1] \in mapTx' PROVE FALSE
        OBVIOUS
      <4>1. in[1] \in mapTx /\ in[1] # y
        BY <1>2, <1>5
      <4>2. PICK i \in 1 .. Len(s) : s[i] = in[1]
        <5>1. in[1] \in Range(s) /\ DOMAIN s = 1 .. Len(s)
          BY <1>1, <3>2, <4>1
        <5>2. QED
          BY <5>1 DEF Range
      <4>3. PICK k \in i + 1 .. Len(s) : s[k] = y
        BY <1>1, <1>3, <1>4, <3>2, <4>2
      <4>4. k \in 1 .. Len(s) /\ 1 \in 1 .. Len(s) /\ k # 1
        BY <1>3
      <4>5. QED
        BY <1>1, <1>3, <4>3, <4>4
    <3>4. ~Ready(in)'
      BY <1>2, <3>2, <3>3, SameChain DEF Ready
    <3>5. ~Available(in)'
      BY <1>2, <1>3, <3>4, SameChain, AvailableIffNext DEF ReadyIsAvailable
    <3>6. QED
      BY <3>1, <3>5 DEF Justified
  <2>3. QED
    BY <1>5, <1>7, <2>1, <2>2
<1>8. QED
  BY <1>2, <1>5, <1>6, <1>7

LEMMA ResurrectJustified ==
    ASSUME ChainInv, NextTxInv, mapTx \subseteq Loose, Resurrecting, Resurrect, NEW x \in mapTx \ mapTx'
    PROVE  Justified(x)
<1> DEFINE s == job.vtx
           y == Head(s)
<1>1. /\ s \in Seq(Txids) /\ \A i, j \in 1 .. Len(s) : s[i] = s[j] => i = j
      /\ \A z \in Range(s) : ~InChain(z) /\ z \notin mapTx
      /\ \A z \in mapTx : ~InChain(z)
  BY DEF Resurrecting
<1>2. s # <<>> /\ UNCHANGED vars /\ (mapTx' = mapTx \cup {y} \/ mapTx' = mapTx \ RemovalOf(y))
  BY DEF Resurrect, AddUnchecked, Drop
<1> HIDE DEF s
<1>3. y \in Range(s) /\ y \in Txids
  BY <1>1, <1>2, RestOfBlock
<1> HIDE DEF y
<1>4. ~InChain(y) /\ y \notin mapTx
  BY <1>1, <1>3
<1>5. mapTx' = mapTx \ RemovalOf(y) /\ x \in RemovalOf(y)
  BY <1>2
<1>6. PICK q \in RemovalOf(y) \cup {y} : x \in Children(q)
  BY <1>4, <1>5, RemovalOfAbsent
<1>7. q \in Txids /\ q \notin mapTx' /\ ~InChain(q)
  BY <1>1, <1>3, <1>4, <1>5, <1>6, RemovalInPool DEF Loose
<1>8. QED
  BY <1>2, <1>6, <1>7, LostParent

LEMMA ImmatureJustified ==
    ASSUME ChainInv, NextTxInv, mapTx \subseteq Loose, Resurrecting, RemoveCoinbaseSpends, NEW x \in mapTx \ mapTx'
    PROVE  Justified(x)
<1> DEFINE gone == Reached(ImmatureSpends)
<1>1. UNCHANGED vars /\ mapTx' = mapTx \ gone
  BY DEF RemoveCoinbaseSpends, Drop
<1>2. gone \subseteq mapTx /\ \A z \in gone : z \in ImmatureSpends \/ \E q \in gone : z \in Children(q)
  BY ImmatureSpendsInPool, ReachedFacts
<1> HIDE DEF gone
<1>3. x \in gone /\ x \in Txids
  BY <1>1 DEF Loose
<1>4. CASE \E q \in gone : x \in Children(q)
  <2>1. PICK q \in gone : x \in Children(q)
    BY <1>4
  <2>2. q \in Txids /\ q \notin mapTx' /\ ~InChain(q)
    BY <1>1, <1>2, <2>1 DEF Loose, Resurrecting
  <2>3. QED
    BY <1>1, <2>1, <2>2, LostParent
<1>5. CASE x \in ImmatureSpends
  <2>1. PICK p \in Prevs(x) \ mapTx : utxo[p] = Pruned \/ ~Mature(utxo[p], SpendHeight)
    BY <1>5 DEF ImmatureSpends
  <2>2. p \in Prevs(x) \ mapTx' /\ utxo' = utxo /\ SpendHeight' = SpendHeight
    BY <1>1, <2>1, SameChain
  <2>3. CASE utxo[p] = Pruned
    <3>1. PICK in \in Vin(x) : in[1] = p
      BY <1>3, <2>1, PrevOf
    <3>2. ~Available(in)'
      BY <2>2, <2>3, <3>1, PrunedFields DEF Available
    <3>3. QED
      BY <3>1, <3>2 DEF Justified
  <2>4. CASE ~Mature(utxo[p], SpendHeight)
    <3>1. ~InputsMature(x)'
      BY <2>2, <2>4 DEF InputsMature
    <3>2. QED
      BY <3>1 DEF Justified
  <2>5. QED
    BY <2>1, <2>3, <2>4
<1>6. QED
  BY <1>2, <1>3, <1>4, <1>5

LEMMA StepJustified ==
    ASSUME PoolInv, UndoInv, PoolNext, NEW x \in mapTx \ mapTx'
    PROVE  Justified(x)
<1>1. ChainInv /\ NextTxInv /\ mapTx \subseteq Loose
  BY ChainInvHolds, PoolInvFacts
<1>2. \A y : AddUnchecked(y) => mapTx \subseteq mapTx'
  BY DEF AddUnchecked
<1>3. ASSUME NEW y \in Loose, (\E peer \in Peers : Tx(peer, y)) \/ TryOrphan(y) \/ LocalTx(y) PROVE FALSE
  <2>1. AddUnchecked(y) \/ UNCHANGED poolVars
    BY <1>3 DEF Tx, TryOrphan, LocalTx
  <2>2. QED
    BY <1>2, <2>1 DEF poolVars
<1>4. CASE NextWork \/ EraseProcessed \/ (\E peer \in Peers : PeerGone(peer))
           \/ (\E b \in Blocks : ConnectTip(b)) \/ DisconnectTip
  <2>1. UNCHANGED poolVars
    BY <1>4 DEF NextWork, EraseProcessed, PeerGone, ConnectTip, DisconnectTip
  <2>2. QED
    BY <2>1 DEF poolVars
<1>5. CASE RemoveForBlock
  <2>1. Confirming
    BY <1>5 DEF RemoveForBlock, PoolInv
  <2>2. QED
    BY <1>1, <1>5, <2>1, ConfirmJustified
<1>6. CASE Resurrect
  <2>1. Resurrecting
    BY <1>6 DEF Resurrect, PoolInv
  <2>2. QED
    BY <1>1, <1>6, <2>1, ResurrectJustified
<1>7. CASE RemoveCoinbaseSpends
  <2>1. Resurrecting
    BY <1>7 DEF RemoveCoinbaseSpends, PoolInv
  <2>2. QED
    BY <1>1, <1>7, <2>1, ImmatureJustified
<1>8. QED
  BY <1>3, <1>4, <1>5, <1>6, <1>7 DEF PoolNext

(* No transaction leaves the pool without a reason: the chain has it, an   *)
(* input of it is gone, or one is not mature any more, whichever block was *)
(* connected or disconnected and whatever depended on what.                *)
THEOREM RemovalAlwaysJustified == PoolSpec => RemovalJustified
<1>1. PoolInv /\ UndoInv /\ [PoolNext]_allVars =>
        [\A x \in mapTx \ mapTx' :
           \/ CreatedAt(x)' # {}
           \/ (\E in \in Vin(x) : ~Available(in))' \/ ~InputsMature(x)']_allVars
  BY StepJustified DEF Justified
<1>2. QED
  BY <1>1, PoolInvHolds, PoolUndoInv, PTL DEF PoolSpec, RemovalJustified

=============================================================================
