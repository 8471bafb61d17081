------------------------------ MODULE SwiftTX ------------------------------
(***************************************************************************)
(* Transaction locks (swifttx.cpp) at one node, with the tests of          *)
(* mapLockedInputs in AcceptToMemoryPool and CheckBlock (main.cpp).        *)
(*                                                                         *)
(* A lock request ("ix") opens a lock and, when the transaction gets into  *)
(* the memory pool, this masternode votes for it; votes of others          *)
(* ("txlvote") are counted; a lock that has enough of them keeps its       *)
(* inputs for itself until it expires.  Messages arrive in any order and   *)
(* any number of times, and nothing is kept over a restart.                *)
(*                                                                         *)
(* Messages are handled by one thread.  The handler of "ix" holds cs_main  *)
(* only while the pool decides: ix is the request it is still at, and      *)
(* blocks, reorganisations, commands and the wallet, which are other       *)
(* threads' work, may come before it votes or locks the inputs.  The other *)
(* maps have no lock; an operation on them is one step.                    *)
(*                                                                         *)
(* This node is an active masternode of the top that may vote, the         *)
(* blockchain is synced and the sporks for locks and for block filtering   *)
(* are on.  A block carries one transaction.  Left out: relaying and the   *)
(* limit on votes for unknown transactions, which only stops relaying.     *)
(* Times: a lock is expired or not.                                        *)
(***************************************************************************)
EXTENDS Integers, SequencesExt

CONSTANTS Txs,
          vin,                \* the outpoints a transaction spends, in order
          nBlockHeight,       \* what CreateNewLock computes for a transaction
          TooNew,             \* transactions with an input younger than 5 blocks
          Masternodes,        \* the others in the top SWIFTTX_SIGNATURES_TOTAL
          Votes,              \* the <<masternode, tx, height>> that may arrive
          Doubtful,           \* those of a masternode that may be unknown or not ranked
          SWIFTTX_SIGNATURES_REQUIRED,
          None

Outpoints == UNION {Range(vin[t]) : t \in Txs}

ASSUME SwiftAssumption ==
    /\ nBlockHeight \in [Txs -> Nat \ {0}] /\ TooNew \subseteq Txs
    /\ Votes \subseteq Masternodes \X Txs \X Nat /\ Doubtful \subseteq Votes
    /\ SWIFTTX_SIGNATURES_REQUIRED \in Nat \ {0}
    /\ None \notin Txs /\ None \notin [tx : Txs, fAccepted : BOOLEAN]

VARIABLES mempool,
          mined,                \* transactions of the active chain
          mapTxLockReq,         \* of a transaction: none, tx, or an empty CTransaction
          mapTxLockReqRejected,
          mapTxLockVote,        \* <<masternode, tx>> of the votes seen
          mapTxLocks,           \* of a transaction: None or its CTransactionLock
          mapLockedInputs,
          ix,                   \* None, or the request whose handler has let go of cs_main
          voted,                \* history: what this node signed since its start
          overtaken             \* history: what of it blocks threw out of the pool or the chain

lockVars == <<mapTxLockReq, mapTxLockReqRejected, mapTxLockVote, mapTxLocks, mapLockedInputs>>
vars == <<mempool, mined, lockVars, ix, voted, overtaken>>

Self == "this masternode"

Init ==
    /\ mempool = {} /\ mined = {}
    /\ mapTxLockReq = [t \in Txs |-> "none"] /\ mapTxLockReqRejected = {}
    /\ mapTxLockVote = {}
    /\ mapTxLocks = [t \in Txs |-> None]
    /\ mapLockedInputs = [o \in Outpoints |-> None]
    /\ ix = None /\ voted = {} /\ overtaken = {}

Conflict(t, u) == t # u /\ Range(vin[t]) \cap Range(vin[u]) # {}

-----------------------------------------------------------------------------
(* Locks.                                                                  *)

NewLock(h) == [nBlockHeight |-> h, expired |-> FALSE, vecConsensusVotes |-> <<>>]

\* CTransactionLock::CountSignatures.
CountSignatures(lock) ==
    IF lock.nBlockHeight = 0 THEN -1
    ELSE Len(SelectSeq(lock.vecConsensusVotes, LAMBDA v : v.nBlockHeight = lock.nBlockHeight))

Complete(locks, t) ==
    IF locks[t] = None THEN FALSE ELSE CountSignatures(locks[t]) >= SWIFTTX_SIGNATURES_REQUIRED

\* CreateNewLock.
CreateNewLock(t) ==
    IF t \in TooNew THEN mapTxLocks
    ELSE [mapTxLocks EXCEPT ![t] = IF @ = None THEN NewLock(nBlockHeight[t])
                                   ELSE [@ EXCEPT !.nBlockHeight = nBlockHeight[t]]]

\* What CheckForConflictingLocks finds: the owner of the first input that is
\* locked for another transaction.
Rival(t, ins) ==
    LET taken == {i \in DOMAIN ins : mapLockedInputs[ins[i]] \notin {None, t}}
    IN  IF taken = {} THEN None
        ELSE mapLockedInputs[ins[CHOOSE i \in taken : \A j \in taken : i <= j]]

\* "Found two complete conflicting locks - removing both."
Cancelled(locks, pair) ==
    [u \in Txs |-> IF u \in pair /\ locks[u] # None THEN [locks[u] EXCEPT !.expired = TRUE] ELSE locks[u]]

\* The inputs that nobody holds are locked for t.
LockedFor(t, ins) ==
    [o \in Outpoints |-> IF o \in Range(ins) /\ mapLockedInputs[o] = None THEN t ELSE mapLockedInputs[o]]

-----------------------------------------------------------------------------
(* The memory pool and the chain.                                          *)

Unlocked(t, locked) == \A o \in Range(vin[t]) : locked[o] \in {None, t}

\* Mutant: the pool is not searched for a conflict.
AcceptableUnlocked(t, pool, chain) ==
    /\ t \notin pool \cup chain
    /\ Unlocked(t, mapLockedInputs)
    /\ \A u \in chain : ~Conflict(t, u)

\* The tests of AcceptToMemoryPool that depend on this state; it may refuse a
\* transaction for other reasons.
Acceptable(t, pool, chain) ==
    /\ t \notin pool \cup chain
    /\ Unlocked(t, mapLockedInputs)
    /\ \A u \in pool \cup chain : ~Conflict(t, u)

\* What this node signed or is about to sign.
Signed == voted \cup {t \in Txs : ix = [tx |-> t, fAccepted |-> TRUE]}

\* The pool takes t.
Accept(t) ==
    /\ Acceptable(t, mempool, mined)
    /\ mempool' = mempool \cup {t}
    /\ overtaken' = overtaken \ {t}
    /\ UNCHANGED mined

\* A transaction without a lock request, from a peer or a command.
Tx(t) ==
    /\ Accept(t)
    /\ UNCHANGED <<lockVars, ix, voted>>

\* A block with t is connected.  CheckBlock refuses one that conflicts with a
\* lock.
Mine(t) ==
    /\ t \notin mined
    /\ \A u \in mined : ~Conflict(t, u)
    /\ Unlocked(t, mapLockedInputs)
    /\ mined' = mined \cup {t}
    /\ mempool' = {u \in mempool \ {t} : ~Conflict(t, u)}
    /\ overtaken' = (overtaken \ {t}) \cup {u \in mempool \cap Signed : Conflict(t, u)}
    /\ UNCHANGED <<lockVars, ix, voted>>

\* DisconnectTip.  ok: the pool takes t back.
Unmine(t, ok) ==
    /\ t \in mined
    /\ ok => Acceptable(t, mempool, mined \ {t})
    /\ mined' = mined \ {t}
    /\ mempool' = IF ok THEN mempool \cup {t} ELSE mempool
    /\ overtaken' = IF ok THEN overtaken ELSE overtaken \cup ({t} \cap Signed)
    /\ UNCHANGED <<lockVars, ix, voted>>

\* ReprocessBlocks(15), with the locks as they now are: the last blocks are
\* disconnected, the pool takes back what it will (back), and the best chain is
\* any whose blocks CheckBlock lets pass, the refused ones that are
\* reconsidered included.
ReprocessBlocks(locked) ==
    \E chain \in SUBSET {u \in Txs : Unlocked(u, locked)},
       back \in SUBSET {u \in mined : Unlocked(u, locked) /\ \A w \in mempool : ~Conflict(u, w)} :
        /\ \A u, w \in chain : ~Conflict(u, w)
        /\ mined' = chain
        /\ mempool' = {u \in (mempool \cup back) \ chain : \A w \in chain : ~Conflict(u, w)}
        /\ overtaken' = (overtaken \cup (Signed \cap (mempool \cup mined))) \ (mempool' \cup mined')

-----------------------------------------------------------------------------
(* Messages.                                                               *)

\* "ix" up to the release of cs_main.  ok: the pool takes the transaction.
IxRequest(t, ok) ==
    /\ ix = None
    /\ mapTxLockReq[t] = "none" /\ t \notin mapTxLockReqRejected
    /\ mapTxLocks' = CreateNewLock(t)
    /\ IF ok THEN Accept(t) ELSE UNCHANGED <<mempool, mined, overtaken>>
    /\ ix' = [tx |-> t, fAccepted |-> ok]
    /\ UNCHANGED <<mapTxLockReq, mapTxLockReqRejected, mapTxLockVote, mapLockedInputs, voted>>

\* mapTxLockReq.insert keeps an entry that is there.
Asked(t) == [mapTxLockReq EXCEPT ![t] = IF @ = "none" THEN "tx" ELSE @]

\* This masternode votes for a transaction that its pool has taken, whether or
\* not it is still there.
DoConsensusVote ==
    /\ ix # None
    /\ ix.fAccepted
    /\ mapTxLockVote' = mapTxLockVote \cup {<<Self, ix.tx>>}
    /\ voted' = voted \cup {ix.tx}
    /\ mapTxLockReq' = Asked(ix.tx)
    /\ ix' = None
    /\ UNCHANGED <<mempool, mined, overtaken, mapTxLockReqRejected, mapTxLocks, mapLockedInputs>>

\* The inputs of one that was refused are locked all the same.
IxRejected ==
    LET t == ix.tx
        rival == Rival(t, vin[t])
    IN  /\ ix # None
        /\ ~ix.fAccepted
        /\ mapTxLockReqRejected' = mapTxLockReqRejected \cup {t}
        /\ mapLockedInputs' = LockedFor(t, vin[t])
        /\ mapTxLocks' = IF Complete(mapTxLocks, t) /\ rival # None
                         THEN Cancelled(mapTxLocks, {t, rival}) ELSE mapTxLocks
        /\ IF Complete(mapTxLocks, t) /\ rival = None
           THEN ReprocessBlocks(mapLockedInputs') /\ mapTxLockReq' = Asked(t)
           ELSE UNCHANGED <<mempool, mined, overtaken, mapTxLockReq>>
        /\ ix' = None
        /\ UNCHANGED <<mapTxLockVote, voted>>

\* sendrawtransaction with the SwiftX flag.  ok: the pool takes it.
SendRaw(t, ok) ==
    /\ t \notin mempool \cup mined
    /\ mapTxLockReq' = Asked(t)
    /\ mapTxLocks' = CreateNewLock(t)
    /\ IF ok THEN Accept(t) ELSE UNCHANGED <<mempool, mined, overtaken>>
    /\ UNCHANGED <<mapTxLockReqRejected, mapTxLockVote, mapLockedInputs, ix, voted>>

\* CommitTransaction of the wallet with the command "ix".  A transaction whose
\* lock is complete has a depth and is not relayed.
CommitTransaction(t) ==
    /\ Accept(t)
    /\ IF Complete(mapTxLocks, t) THEN UNCHANGED <<mapTxLockReq, mapTxLocks>>
       ELSE mapTxLockReq' = Asked(t) /\ mapTxLocks' = CreateNewLock(t)
    /\ UNCHANGED <<mapTxLockReqRejected, mapTxLockVote, mapLockedInputs, ix, voted>>

\* CConsensusVote::GetHash leaves the height out.
Seen(m, t, h) == <<m, t>> \in mapTxLockVote

\* "txlvote" that is not counted: the masternode is unknown or not ranked, or
\* the signature does not verify.  The vote counts as seen.
VoteIgnored(m, t, h) ==
    /\ ix = None
    /\ ~Seen(m, t, h)
    /\ mapTxLockVote' = mapTxLockVote \cup {<<m, t>>}
    /\ UNCHANGED <<mempool, mined, mapTxLockReq, mapTxLockReqRejected, mapTxLocks, mapLockedInputs,
                   ix, voted, overtaken>>

\* "txlvote": ProcessConsensusVote.  Reading mapTxLockReq[t] makes an empty
\* transaction when there is no request.
ProcessConsensusVote(m, t, h) ==
    LET lock == IF mapTxLocks[t] = None THEN NewLock(0) ELSE mapTxLocks[t]
        locks == [mapTxLocks EXCEPT ![t] =
                    [lock EXCEPT !.vecConsensusVotes = Append(@, [mn |-> m, nBlockHeight |-> h])]]
        ins == IF mapTxLockReq[t] = "tx" THEN vin[t] ELSE <<>>
        rival == Rival(t, ins)
    IN  /\ ix = None
        /\ ~Seen(m, t, h)
        /\ mapTxLockVote' = mapTxLockVote \cup {<<m, t>>}
        /\ IF ~Complete(locks, t)
           THEN mapTxLocks' = locks /\ UNCHANGED <<mapTxLockReq, mapLockedInputs>>
           ELSE /\ mapTxLockReq' = [mapTxLockReq EXCEPT ![t] = IF @ = "none" THEN "empty" ELSE @]
                /\ IF rival # None
                   THEN mapTxLocks' = Cancelled(locks, {t, rival}) /\ UNCHANGED mapLockedInputs
                   ELSE mapTxLocks' = locks /\ mapLockedInputs' = LockedFor(t, ins)
        /\ IF Complete(locks, t) /\ rival = None /\ t \in mapTxLockReqRejected
           THEN ReprocessBlocks(mapLockedInputs') ELSE UNCHANGED <<mempool, mined, overtaken>>
        /\ UNCHANGED <<mapTxLockReqRejected, ix, voted>>

-----------------------------------------------------------------------------
\* An hour has passed.
Expire(t) ==
    /\ mapTxLocks[t] # None
    /\ ~mapTxLocks[t].expired
    /\ mapTxLocks' = [mapTxLocks EXCEPT ![t].expired = TRUE]
    /\ UNCHANGED <<mempool, mined, mapTxLockReq, mapTxLockReqRejected, mapTxLockVote, mapLockedInputs,
                   ix, voted, overtaken>>

\* Mutant: the votes are forgotten and the lock stays.
RemainingAll(gone) == mapTxLocks

Outdated == {t \in Txs : mapTxLocks[t] # None /\ mapTxLocks[t].expired}
Remaining(gone) == [t \in Txs |-> IF t \in gone THEN None ELSE mapTxLocks[t]]

\* CleanTransactionLocksList, taken as one step although it runs in a thread of
\* its own without a lock.  Only a lock with a request gives its inputs, its
\* votes and its rejection back.
CleanTransactionLocksList ==
    LET gone == Outdated
        asked == {t \in gone : mapTxLockReq[t] # "none"}
        inputs == UNION {Range(vin[t]) : t \in {u \in asked : mapTxLockReq[u] = "tx"}}
    IN  /\ gone # {}
        /\ mapTxLocks' = Remaining(gone)
        /\ mapLockedInputs' = [o \in Outpoints |-> IF o \in inputs THEN None ELSE mapLockedInputs[o]]
        /\ mapTxLockReq' = [t \in Txs |-> IF t \in asked THEN "none" ELSE mapTxLockReq[t]]
        /\ mapTxLockReqRejected' = mapTxLockReqRejected \ asked
        /\ mapTxLockVote' = {v \in mapTxLockVote :
                ~\E t \in asked : v[2] = t /\ \E e \in Range(mapTxLocks[t].vecConsensusVotes) : e.mn = v[1]}
        /\ UNCHANGED <<mempool, mined, ix, voted, overtaken>>

\* The node is started again: the pool and the locks are in memory only.
Restart ==
    /\ mempool' = {}
    /\ mapTxLockReq' = [t \in Txs |-> "none"] /\ mapTxLockReqRejected' = {}
    /\ mapTxLockVote' = {} /\ mapTxLocks' = [t \in Txs |-> None]
    /\ mapLockedInputs' = [o \in Outpoints |-> None]
    /\ ix' = None /\ voted' = {} /\ overtaken' = {}
    /\ UNCHANGED mined

Next ==
    \/ \E t \in Txs : Tx(t) \/ Mine(t) \/ CommitTransaction(t) \/ Expire(t)
    \/ \E t \in Txs, ok \in BOOLEAN : Unmine(t, ok) \/ IxRequest(t, ok) \/ SendRaw(t, ok)
    \/ DoConsensusVote \/ IxRejected
    \/ \E v \in Votes : ProcessConsensusVote(v[1], v[2], v[3])
    \/ \E v \in Doubtful : VoteIgnored(v[1], v[2], v[3])
    \/ CleanTransactionLocksList
    \/ Restart

Spec == Init /\ [][Next]_vars

-----------------------------------------------------------------------------
(* A masternode is counted once for a lock, however often and with whatever *)
(* heights its votes arrive, and also after the lists were cleaned.        *)
NoDoubleCount ==
    \A t \in Txs : mapTxLocks[t] # None =>
        LET votes == mapTxLocks[t].vecConsensusVotes
        IN  \A i, j \in DOMAIN votes : votes[i].mn = votes[j].mn => i = j

(* This masternode signs two transactions that spend the same outpoint     *)
(* only when a block or a reorganisation has thrown one of them out of its *)
(* pool or chain and it has not come back: with the pool and the chain     *)
(* alone deciding, no order of requests, commands, locks and their expiry  *)
(* gets two signatures out of it.  The eviction may come before the        *)
(* signature too: DoConsensusVote signs what AcceptToMemoryPool said       *)
(* before cs_main was released.                                            *)
NoConflictingVotes ==
    \A t, u \in voted : Conflict(t, u) => t \in overtaken \/ u \in overtaken

(* The pool and the chain together spend every outpoint once, through      *)
(* reorganisations and lock requests.                                      *)
NoDoubleSpend ==
    \A t, u \in mempool \cup mined : ~Conflict(t, u)

=============================================================================
