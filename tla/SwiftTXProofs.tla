--------------------------- MODULE SwiftTXProofs ---------------------------
(* Proofs about SwiftTX, for any transactions, votes and number of         *)
(* signatures required: no masternode counts twice for a lock, pool and    *)
(* chain spend every outpoint once, and this masternode signs two          *)
(* conflicting transactions only after a block or a reorganisation threw   *)
(* one of them out.                                                        *)
EXTENDS SwiftTX, TLAPS

VoteEntries == [mn : Masternodes, nBlockHeight : Nat]

Locks == [nBlockHeight : Nat, expired : BOOLEAN, vecConsensusVotes : Seq(VoteEntries)]

(* What holds of the votes of one lock: they are of different masternodes, *)
(* and every one of them is known to mapTxLockVote.  NoDoubleCount alone   *)
(* is not inductive: the guard of a vote looks at mapTxLockVote, not at    *)
(* the lock.                                                               *)
Counted(t, votes, seen) ==
    /\ \A i \in DOMAIN votes : <<votes[i].mn, t>> \in seen
    /\ \A i, j \in DOMAIN votes : votes[i].mn = votes[j].mn => i = j

LocksGood(locks, seen) ==
    /\ locks \in [Txs -> Locks \cup {None}]
    /\ \A t \in Txs : locks[t] # None => Counted(t, locks[t].vecConsensusVotes, seen)

VotesInv == LocksGood(mapTxLocks, mapTxLockVote)

(* Votes are only ever compared with mapTxLockVote, which may grow.        *)
LEMMA SeenGrows ==
    ASSUME NEW locks, NEW seen, NEW more, LocksGood(locks, seen), seen \subseteq more
    PROVE  LocksGood(locks, more)
  BY DEF LocksGood, Counted

(* CreateNewLock makes a lock without votes or changes the height of one.  *)
LEMMA CreateNewLockGood ==
    ASSUME VotesInv, NEW t \in Txs
    PROVE  LocksGood(CreateNewLock(t), mapTxLockVote)
<1> DEFINE old == mapTxLocks[t]
           new == IF old = None THEN NewLock(nBlockHeight[t])
                  ELSE [old EXCEPT !.nBlockHeight = nBlockHeight[t]]
<1>1. /\ mapTxLocks \in [Txs -> Locks \cup {None}]
      /\ \A u \in Txs : mapTxLocks[u] # None =>
            Counted(u, mapTxLocks[u].vecConsensusVotes, mapTxLockVote)
  BY DEF VotesInv, LocksGood
<1>2. CASE t \in TooNew
  BY <1>1, <1>2 DEF CreateNewLock, LocksGood
<1>3. CASE t \notin TooNew
  <2>1. nBlockHeight[t] \in Nat
    BY SwiftAssumption
  <2>2. <<>> \in Seq(VoteEntries)
    OBVIOUS
  <2>3. CASE old = None
    <3>1. NewLock(nBlockHeight[t]) \in Locks
      BY <2>1, <2>2 DEF NewLock, Locks
    <3>2. Counted(t, NewLock(nBlockHeight[t]).vecConsensusVotes, mapTxLockVote)
      BY DEF Counted, NewLock
    <3>3. CreateNewLock(t) = [mapTxLocks EXCEPT ![t] = NewLock(nBlockHeight[t])]
      BY <1>3, <2>3 DEF CreateNewLock
    <3>4. QED
      BY <1>1, <3>1, <3>2, <3>3 DEF LocksGood
  <2>4. CASE old # None
    <3>1. old \in Locks
      BY <1>1, <2>4
    <3>2. /\ [old EXCEPT !.nBlockHeight = nBlockHeight[t]] \in Locks
          /\ [old EXCEPT !.nBlockHeight = nBlockHeight[t]].vecConsensusVotes = old.vecConsensusVotes
      BY <2>1, <3>1 DEF Locks
    <3>3. CreateNewLock(t) = [mapTxLocks EXCEPT ![t] = [old EXCEPT !.nBlockHeight = nBlockHeight[t]]]
      BY <1>3, <2>4 DEF CreateNewLock
    <3>4. QED
      BY <1>1, <2>4, <3>2, <3>3 DEF LocksGood
  <2>5. QED
    BY <2>3, <2>4
<1>4. QED
  BY <1>2, <1>3

(* Cancelling two locks only sets their expiry.                            *)
LEMMA CancelledGood ==
    ASSUME NEW locks, NEW seen, NEW pair, LocksGood(locks, seen)
    PROVE  LocksGood(Cancelled(locks, pair), seen)
<1>1. SUFFICES ASSUME NEW u \in Txs
               PROVE  /\ Cancelled(locks, pair)[u] \in Locks \cup {None}
                      /\ Cancelled(locks, pair)[u] # None =>
                            Counted(u, Cancelled(locks, pair)[u].vecConsensusVotes, seen)
  BY DEF LocksGood, Cancelled
<1>2. locks[u] \in Locks \cup {None}
  BY DEF LocksGood
<1>3. CASE locks[u] # None
  <2>1. /\ [locks[u] EXCEPT !.expired = TRUE] \in Locks
        /\ [locks[u] EXCEPT !.expired = TRUE].vecConsensusVotes = locks[u].vecConsensusVotes
    BY <1>2, <1>3 DEF Locks
  <2>2. QED
    BY <1>2, <1>3, <2>1 DEF LocksGood, Cancelled
<1>4. CASE locks[u] = None
  BY <1>4 DEF Cancelled
<1>5. QED
  BY <1>3, <1>4

(* AddSignature: the vote of a masternode that was not seen for t.         *)
LEMMA AppendCounted ==
    ASSUME NEW t, NEW seen, NEW votes \in Seq(VoteEntries), NEW e \in VoteEntries,
           Counted(t, votes, seen), <<e.mn, t>> \notin seen
    PROVE  Counted(t, Append(votes, e), seen \cup {<<e.mn, t>>})
<1>1. /\ DOMAIN votes = 1 .. Len(votes) /\ Len(votes) \in Nat
      /\ DOMAIN Append(votes, e) = 1 .. Len(votes) + 1
      /\ \A i \in 1 .. Len(votes) : Append(votes, e)[i] = votes[i]
      /\ Append(votes, e)[Len(votes) + 1] = e
  OBVIOUS
<1>2. \A i \in DOMAIN votes : votes[i].mn # e.mn
  BY DEF Counted
<1>3. \A i \in DOMAIN Append(votes, e) : i \in DOMAIN votes \/ i = Len(votes) + 1
  BY <1>1
<1>4. \A i \in DOMAIN Append(votes, e) :
         <<Append(votes, e)[i].mn, t>> \in seen \cup {<<e.mn, t>>}
  BY <1>1, <1>3 DEF Counted
<1>5. \A i, j \in DOMAIN Append(votes, e) :
         Append(votes, e)[i].mn = Append(votes, e)[j].mn => i = j
  BY <1>1, <1>2, <1>3 DEF Counted
<1>6. QED
  BY <1>4, <1>5 DEF Counted

(* The locks after a vote was added.                                       *)
LEMMA VoteGood ==
    ASSUME VotesInv, NEW m \in Masternodes, NEW t \in Txs, NEW h \in Nat,
           <<m, t>> \notin mapTxLockVote
    PROVE  LET lock == IF mapTxLocks[t] = None THEN NewLock(0) ELSE mapTxLocks[t]
               new  == [lock EXCEPT !.vecConsensusVotes = Append(@, [mn |-> m, nBlockHeight |-> h])]
           IN  LocksGood([mapTxLocks EXCEPT ![t] = new], mapTxLockVote \cup {<<m, t>>})
<1> DEFINE e == [mn |-> m, nBlockHeight |-> h]
           lock == IF mapTxLocks[t] = None THEN NewLock(0) ELSE mapTxLocks[t]
           new == [lock EXCEPT !.vecConsensusVotes = Append(@, e)]
           seen == mapTxLockVote \cup {<<m, t>>}
<1>1. e \in VoteEntries /\ e.mn = m
  BY DEF VoteEntries
<1>2. lock \in Locks /\ Counted(t, lock.vecConsensusVotes, mapTxLockVote)
  <2>1. CASE mapTxLocks[t] = None
    <3>1. <<>> \in Seq(VoteEntries)
      OBVIOUS
    <3>2. QED
      BY <2>1, <3>1 DEF NewLock, Locks, Counted
  <2>2. CASE mapTxLocks[t] # None
    BY <2>2 DEF VotesInv, LocksGood
  <2>3. QED
    BY <2>1, <2>2
<1>3. lock.vecConsensusVotes \in Seq(VoteEntries)
  BY <1>2 DEF Locks
<1>4. Append(lock.vecConsensusVotes, e) \in Seq(VoteEntries)
  BY <1>1, <1>3
<1>5. new \in Locks /\ new.vecConsensusVotes = Append(lock.vecConsensusVotes, e)
  <2> HIDE DEF lock, e
  <2> QED
    BY <1>2, <1>4 DEF Locks
<1>6. Counted(t, new.vecConsensusVotes, seen)
  <2> HIDE DEF lock, e, new
  <2>1. Counted(t, Append(lock.vecConsensusVotes, e), mapTxLockVote \cup {<<e.mn, t>>})
    BY <1>1, <1>2, <1>3, AppendCounted
  <2>2. QED
    BY <1>1, <1>5, <2>1
<1>7. LocksGood(mapTxLocks, seen)
  BY SeenGrows DEF VotesInv
<1>8. LocksGood([mapTxLocks EXCEPT ![t] = new], seen)
  <2> HIDE DEF lock, e, new, seen
  <2> QED
    BY <1>5, <1>6, <1>7 DEF LocksGood
<1>9. QED
  BY <1>8

(* A lock that CleanTransactionLocksList keeps keeps its votes in          *)
(* mapTxLockVote: only votes for transactions whose lock goes are erased.  *)
LEMMA CleanGood ==
    ASSUME VotesInv, CleanTransactionLocksList
    PROVE  VotesInv'
<1>1. mapTxLocks \in [Txs -> Locks \cup {None}]
  BY DEF VotesInv, LocksGood
<1>2. /\ mapTxLocks' = [t \in Txs |-> IF t \in Outdated THEN None ELSE mapTxLocks[t]]
      /\ \A v \in mapTxLockVote : v[2] \notin Outdated => v \in mapTxLockVote'
  BY DEF CleanTransactionLocksList, Remaining
<1>3. \A t \in Txs : mapTxLocks'[t] # None => t \notin Outdated /\ mapTxLocks'[t] = mapTxLocks[t]
  BY <1>2
<1>4. ASSUME NEW t \in Txs, mapTxLocks'[t] # None
      PROVE  Counted(t, mapTxLocks'[t].vecConsensusVotes, mapTxLockVote')
  <2>1. t \notin Outdated /\ mapTxLocks'[t] = mapTxLocks[t] /\ mapTxLocks[t] # None
    BY <1>3, <1>4
  <2>2. Counted(t, mapTxLocks[t].vecConsensusVotes, mapTxLockVote)
    BY <2>1 DEF VotesInv, LocksGood
  <2>3. \A m : <<m, t>> \in mapTxLockVote => <<m, t>> \in mapTxLockVote'
    BY <1>2, <2>1
  <2>4. QED
    BY <2>1, <2>2, <2>3 DEF Counted
<1>5. mapTxLocks' \in [Txs -> Locks \cup {None}]
  BY <1>1, <1>2
<1>6. QED
  BY <1>4, <1>5 DEF VotesInv, LocksGood

LEMMA ExpireGood ==
    ASSUME VotesInv, NEW t \in Txs, Expire(t)
    PROVE  VotesInv'
<1>1. mapTxLocks[t] \in Locks /\ mapTxLocks \in [Txs -> Locks \cup {None}]
  BY DEF VotesInv, LocksGood, Expire
<1> DEFINE new == [mapTxLocks[t] EXCEPT !.expired = TRUE]
<1>2. new \in Locks /\ new.vecConsensusVotes = mapTxLocks[t].vecConsensusVotes
  BY <1>1 DEF Locks
<1>3. mapTxLocks' = [mapTxLocks EXCEPT ![t] = new] /\ mapTxLockVote' = mapTxLockVote
  BY DEF Expire
<1> HIDE DEF new
<1>4. mapTxLocks' \in [Txs -> Locks \cup {None}]
  BY <1>1, <1>2, <1>3
<1>5. \A u \in Txs : mapTxLocks'[u] # None =>
         mapTxLocks[u] # None /\ mapTxLocks'[u].vecConsensusVotes = mapTxLocks[u].vecConsensusVotes
  BY <1>1, <1>2, <1>3 DEF Expire
<1>6. QED
  BY <1>3, <1>4, <1>5 DEF VotesInv, LocksGood

LEMMA VotesNext == VotesInv /\ [Next]_vars => VotesInv'
<1> SUFFICES ASSUME VotesInv, [Next]_vars PROVE VotesInv'
  OBVIOUS
<1>1. ASSUME UNCHANGED <<mapTxLocks, mapTxLockVote>> PROVE VotesInv'
  BY <1>1 DEF VotesInv
<1>2. ASSUME NEW t \in Txs, Tx(t) \/ Mine(t) \/ \E ok \in BOOLEAN : Unmine(t, ok) PROVE VotesInv'
  BY <1>1, <1>2 DEF Tx, Mine, Unmine, lockVars
<1>3. ASSUME NEW t \in Txs, NEW ok \in BOOLEAN, IxRequest(t, ok) PROVE VotesInv'
  <2>1. mapTxLocks' = CreateNewLock(t) /\ mapTxLockVote' = mapTxLockVote
    BY <1>3 DEF IxRequest
  <2>2. QED
    BY <2>1, CreateNewLockGood DEF VotesInv
<1>4. CASE IxRejected
  <2>1. /\ mapTxLocks' = mapTxLocks \/ \E pair : mapTxLocks' = Cancelled(mapTxLocks, pair)
        /\ mapTxLockVote' = mapTxLockVote
    BY <1>4 DEF IxRejected
  <2>2. QED
    BY <2>1, CancelledGood DEF VotesInv
<1>10. CASE DoConsensusVote
  BY <1>10, SeenGrows DEF DoConsensusVote, VotesInv
<1>5. ASSUME NEW t \in Txs, CommitTransaction(t) \/ \E ok \in BOOLEAN : SendRaw(t, ok)
      PROVE  VotesInv'
  <2>1. /\ mapTxLocks' = CreateNewLock(t) \/ mapTxLocks' = mapTxLocks
        /\ mapTxLockVote' = mapTxLockVote
    BY <1>5 DEF CommitTransaction, SendRaw
  <2>2. QED
    BY <2>1, CreateNewLockGood DEF VotesInv
<1>6. ASSUME NEW v \in Votes, ProcessConsensusVote(v[1], v[2], v[3]) PROVE VotesInv'
  <2>1. v[1] \in Masternodes /\ v[2] \in Txs /\ v[3] \in Nat
    BY SwiftAssumption
  <2> DEFINE lock == IF mapTxLocks[v[2]] = None THEN NewLock(0) ELSE mapTxLocks[v[2]]
             new == [lock EXCEPT !.vecConsensusVotes = Append(@, [mn |-> v[1], nBlockHeight |-> v[3]])]
             locks == [mapTxLocks EXCEPT ![v[2]] = new]
  <2>2. /\ <<v[1], v[2]>> \notin mapTxLockVote
        /\ mapTxLockVote' = mapTxLockVote \cup {<<v[1], v[2]>>}
        /\ mapTxLocks' = locks \/ \E pair : mapTxLocks' = Cancelled(locks, pair)
    BY <1>6 DEF ProcessConsensusVote, Seen
  <2>3. LocksGood(locks, mapTxLockVote \cup {<<v[1], v[2]>>})
    BY <2>1, <2>2, VoteGood
  <2> HIDE DEF locks
  <2>4. QED
    BY <2>2, <2>3, CancelledGood DEF VotesInv
<1>7. ASSUME NEW v \in Doubtful, VoteIgnored(v[1], v[2], v[3]) PROVE VotesInv'
  BY <1>7, SeenGrows DEF VoteIgnored, VotesInv
<1>8. CASE Restart
  BY <1>8 DEF Restart, VotesInv, LocksGood
<1>9. QED
  BY <1>1, <1>2, <1>3, <1>4, <1>5, <1>6, <1>7, <1>8, <1>10, CleanGood, ExpireGood
  DEF Next, vars, lockVars

(* No masternode is counted twice for a lock, whatever votes arrive and    *)
(* however often: ProcessMessageSwiftTX drops a vote it has seen, and      *)
(* CleanTransactionLocksList forgets a vote only together with the lock.   *)
THEOREM VotesCountOnce == Spec => []NoDoubleCount
<1>1. Init => VotesInv
  BY DEF Init, VotesInv, LocksGood
<1>2. VotesInv => NoDoubleCount
  BY DEF VotesInv, LocksGood, Counted, NoDoubleCount
<1>3. QED
  BY <1>1, <1>2, VotesNext, PTL DEF Spec

-----------------------------------------------------------------------------
(* Pool, chain and the transactions this masternode signed.                *)

(* A transaction that is signed, or accepted and about to be, is in the    *)
(* pool or in the chain, or was thrown out by a block.  With NoDoubleSpend *)
(* this gives NoConflictingVotes, which is not inductive by itself.        *)
SignedAccounted == Signed \subseteq mempool \cup mined \cup overtaken

RequestType == ix \in {None} \cup [tx : Txs, fAccepted : BOOLEAN]

SpendInv == NoDoubleSpend /\ SignedAccounted /\ RequestType

LEMMA ConflictSymmetric == \A t, u : Conflict(t, u) <=> Conflict(u, t)
  BY DEF Conflict

LEMMA NoSelfConflict == \A t : ~Conflict(t, t)
  BY DEF Conflict

LEMMA NoneNotRequest == \A t \in Txs : None # [tx |-> t, fAccepted |-> TRUE]
<1>1. \A t \in Txs : [tx |-> t, fAccepted |-> TRUE] \in [tx : Txs, fAccepted : BOOLEAN]
  OBVIOUS
<1>2. QED
  BY <1>1, SwiftAssumption

(* A transaction that AcceptToMemoryPool takes joins the pool, and may be  *)
(* the one that is about to be signed.                                     *)
LEMMA AcceptedSpend ==
    ASSUME SpendInv, NEW t \in Txs, Accept(t), Signed' \subseteq Signed \cup {t}, RequestType'
    PROVE  SpendInv'
<1>1. /\ \A u \in mempool \cup mined : ~Conflict(t, u) /\ ~Conflict(u, t)
      /\ mempool' = mempool \cup {t} /\ mined' = mined /\ overtaken' = overtaken \ {t}
  BY ConflictSymmetric DEF Accept, Acceptable
<1>2. NoDoubleSpend'
  BY <1>1, NoSelfConflict DEF SpendInv, NoDoubleSpend
<1>3. SignedAccounted'
  BY <1>1 DEF SpendInv, SignedAccounted
<1>4. QED
  BY <1>2, <1>3 DEF SpendInv

(* The transactions of the disconnected blocks that come back conflict     *)
(* neither with each other nor with the pool, and the new chain drops the  *)
(* others.                                                                 *)
LEMMA ReprocessSpend ==
    ASSUME SpendInv, NEW locked, ReprocessBlocks(locked), Signed' \subseteq Signed, RequestType'
    PROVE  SpendInv'
<1>1. PICK chain \in SUBSET {u \in Txs : Unlocked(u, locked)},
           back \in SUBSET {u \in mined : Unlocked(u, locked) /\ \A w \in mempool : ~Conflict(u, w)} :
        /\ \A u, w \in chain : ~Conflict(u, w)
        /\ mined' = chain
        /\ mempool' = {u \in (mempool \cup back) \ chain : \A w \in chain : ~Conflict(u, w)}
        /\ overtaken' = (overtaken \cup (Signed \cap (mempool \cup mined))) \ (mempool' \cup mined')
  BY DEF ReprocessBlocks
<1>2. \A u, w \in mempool \cup back : ~Conflict(u, w)
  BY DEF SpendInv, NoDoubleSpend
<1>3. \A u \in mempool' : u \in mempool \cup back /\ \A w \in chain : ~Conflict(u, w)
  BY <1>1
<1>4. NoDoubleSpend'
  BY <1>1, <1>2, <1>3, ConflictSymmetric DEF NoDoubleSpend
<1>5. SignedAccounted'
  BY <1>1 DEF SpendInv, SignedAccounted
<1>6. QED
  BY <1>4, <1>5 DEF SpendInv

LEMMA SpendNext == SpendInv /\ [Next]_vars => SpendInv'
<1> SUFFICES ASSUME SpendInv, [Next]_vars PROVE SpendInv'
  OBVIOUS
<1>1. ASSUME UNCHANGED <<ix, voted>> PROVE Signed' = Signed /\ RequestType'
  BY <1>1 DEF SpendInv, Signed, RequestType
<1>2. ASSUME UNCHANGED <<mempool, mined, overtaken>>, Signed' \subseteq Signed, RequestType' PROVE SpendInv'
  BY <1>2 DEF SpendInv, NoDoubleSpend, SignedAccounted
<1>3. ASSUME NEW t \in Txs, Tx(t) \/ CommitTransaction(t) PROVE SpendInv'
  BY <1>1, <1>3, AcceptedSpend DEF Tx, CommitTransaction
<1>4. ASSUME NEW t \in Txs, NEW ok \in BOOLEAN, SendRaw(t, ok) PROVE SpendInv'
  BY <1>1, <1>2, <1>4, AcceptedSpend DEF SendRaw
<1>5. ASSUME NEW t \in Txs, NEW ok \in BOOLEAN, IxRequest(t, ok) PROVE SpendInv'
  <2>1. /\ ix' = [tx |-> t, fAccepted |-> ok] /\ voted' = voted
        /\ IF ok THEN Accept(t) ELSE UNCHANGED <<mempool, mined, overtaken>>
    BY <1>5 DEF IxRequest
  <2>2. RequestType'
    BY <2>1 DEF RequestType
  <2>3. Signed' \subseteq Signed \cup {u \in Txs : u = t /\ ok}
    BY <2>1 DEF Signed
  <2>4. QED
    BY <1>2, <2>1, <2>2, <2>3, AcceptedSpend
<1>6. CASE DoConsensusVote
  <2>1. ix \in [tx : Txs, fAccepted : BOOLEAN] /\ ix.fAccepted = TRUE
    BY <1>6 DEF DoConsensusVote, SpendInv, RequestType
  <2>2. ix = [tx |-> ix.tx, fAccepted |-> TRUE] /\ ix.tx \in Txs
    BY <2>1
  <2>3. ix.tx \in Signed
    BY <2>2 DEF Signed
  <2>4. voted' = voted \cup {ix.tx} /\ ix' = None /\ UNCHANGED <<mempool, mined, overtaken>>
    BY <1>6 DEF DoConsensusVote
  <2>5. RequestType'
    BY <2>4 DEF RequestType
  <2>6. Signed' \subseteq Signed
    BY <2>3, <2>4, NoneNotRequest DEF Signed
  <2>7. QED
    BY <1>2, <2>4, <2>5, <2>6
<1>7. CASE IxRejected
  <2>1. /\ ix' = None /\ voted' = voted
        /\ (\E locked : ReprocessBlocks(locked)) \/ UNCHANGED <<mempool, mined, overtaken>>
    BY <1>7 DEF IxRejected
  <2>2. RequestType' /\ Signed' \subseteq Signed
    BY <2>1, NoneNotRequest DEF RequestType, Signed
  <2>3. QED
    BY <1>2, <2>1, <2>2, ReprocessSpend
<1>8. ASSUME NEW t \in Txs, Mine(t) PROVE SpendInv'
  <2>1. /\ mined' = mined \cup {t} /\ UNCHANGED <<ix, voted>>
        /\ mempool' = {u \in mempool \ {t} : ~Conflict(t, u)}
        /\ overtaken' = (overtaken \ {t}) \cup {u \in mempool \cap Signed : Conflict(t, u)}
        /\ \A u \in mined : ~Conflict(t, u)
    BY <1>8 DEF Mine
  <2>2. NoDoubleSpend'
    BY <2>1, ConflictSymmetric, NoSelfConflict DEF SpendInv, NoDoubleSpend
  <2>3. Signed' = Signed /\ RequestType'
    BY <1>1, <2>1
  <2>4. SignedAccounted'
    BY <2>1, <2>3 DEF SpendInv, SignedAccounted
  <2>5. QED
    BY <2>2, <2>3, <2>4 DEF SpendInv
<1>9. ASSUME NEW t \in Txs, NEW ok \in BOOLEAN, Unmine(t, ok) PROVE SpendInv'
  <2>1. /\ mined' = mined \ {t} /\ UNCHANGED <<ix, voted>> /\ t \in mined
        /\ mempool' = IF ok THEN mempool \cup {t} ELSE mempool
        /\ overtaken' = IF ok THEN overtaken ELSE overtaken \cup ({t} \cap Signed)
    BY <1>9 DEF Unmine
  <2>2. Signed' = Signed /\ RequestType'
    BY <1>1, <2>1
  <2>3. NoDoubleSpend'
    BY <2>1 DEF SpendInv, NoDoubleSpend
  <2>4. SignedAccounted'
    BY <2>1, <2>2 DEF SpendInv, SignedAccounted
  <2>5. QED
    BY <2>2, <2>3, <2>4 DEF SpendInv
<1>10. ASSUME NEW v \in Votes, ProcessConsensusVote(v[1], v[2], v[3]) PROVE SpendInv'
  <2>1. /\ (\E locked : ReprocessBlocks(locked)) \/ UNCHANGED <<mempool, mined, overtaken>>
        /\ UNCHANGED <<ix, voted>>
    BY <1>10 DEF ProcessConsensusVote
  <2>2. QED
    BY <1>1, <1>2, <2>1, ReprocessSpend
<1>11. ASSUME NEW t \in Txs, Expire(t) PROVE SpendInv'
  BY <1>1, <1>2, <1>11 DEF Expire
<1>12. ASSUME NEW v \in Doubtful, VoteIgnored(v[1], v[2], v[3]) PROVE SpendInv'
  BY <1>1, <1>2, <1>12 DEF VoteIgnored
<1>13. CASE CleanTransactionLocksList
  BY <1>1, <1>2, <1>13 DEF CleanTransactionLocksList
<1>14. CASE Restart
  <2>1. mempool' = {} /\ mined' = mined /\ ix' = None /\ voted' = {}
    BY <1>14 DEF Restart
  <2>2. Signed' = {} /\ RequestType'
    BY <2>1, NoneNotRequest DEF Signed, RequestType
  <2>3. QED
    BY <2>1, <2>2 DEF SpendInv, NoDoubleSpend, SignedAccounted
<1>15. CASE UNCHANGED vars
  BY <1>1, <1>2, <1>15 DEF vars
<1>16. QED
  BY <1>3, <1>4, <1>5, <1>6, <1>7, <1>8, <1>9, <1>10, <1>11, <1>12, <1>13, <1>14, <1>15 DEF Next

LEMMA SpendInvariant == Spec => []SpendInv
<1>1. Init => SpendInv
  BY NoneNotRequest DEF Init, SpendInv, NoDoubleSpend, SignedAccounted, RequestType, Signed
<1>2. QED
  BY <1>1, SpendNext, PTL DEF Spec

(* Pool and chain together never spend an outpoint twice, through blocks,  *)
(* reorganisations, lock requests and the ReprocessBlocks that a completed *)
(* lock sets off.                                                          *)
THEOREM SpentOnce == Spec => []NoDoubleSpend
  BY SpendInvariant, PTL DEF SpendInv

(* Two conflicting transactions are both signed only if a block or a       *)
(* reorganisation threw one of them out since AcceptToMemoryPool took it,  *)
(* before DoConsensusVote signed it or after: requests, commands, locks,   *)
(* their expiry and the pool alone never lead to two such signatures.      *)
THEOREM VotesDoNotConflict == Spec => []NoConflictingVotes
<1>1. SpendInv => NoConflictingVotes
  BY DEF SpendInv, NoDoubleSpend, SignedAccounted, Signed, NoConflictingVotes
<1>2. QED
  BY <1>1, SpendInvariant, PTL

=============================================================================
