# A TLA+ verification of the MuBdI core node

MuBdI is a proof-of-stake cryptocurrency node derived from PIVX and Bitcoin
Core 0.10, written in C++ under `src/core/src`.  This directory holds TLA+
models of its core, the TLC runs that check them on small instances, and proofs
that TLAPS checks for every value of the constants.  File names below are
relative to `src/core/src`.

    tlc -workers 2 -config CheckQueue.cfg MCCheckQueue     (a run, see PROJECT.json)
    tlapm CoinsCacheProofs.tla                             (the proofs of a module)

## The system

One process with a handful of threads.  The socket thread adds and deletes
peers; the message thread handles what they send and decides what to ask them
for; RPC threads, the wallet and the staking thread call into the same
validation code; a pool of script check threads helps whoever connects a block.
`cs_main` guards most of the state, and the interesting behaviour is where it is
released, where something is written to disk, or where a message arrives late,
twice or out of order.  (The `.ts` files of the repository are Qt translations of
the graphical client; the program is the C++.)

| component | source | state | operations | what is hard | what makes it correct |
|---|---|---|---|---|---|
| script check queue | `checkqueue.h` | queue, nIdle, nTotal, nTodo, fAllOk | Add, Wait, Loop | threads, lost wakeups, interruption | the verdict is exact, Wait returns |
| block index and active chain | `main.cpp`, `chain.cpp` | mapBlockIndex, chainActive, setBlockIndexCandidates, mapBlocksUnlinked, two databases | ProcessNewBlock, ActivateBestChain, InvalidateBlock, ReconsiderBlock, FlushStateToDisk, LoadBlockIndexDB | data out of order, lock released between steps, crash between writes | the best valid chain is active, the databases can be loaded |
| coin caches | `coins.cpp`, `txdb.cpp` | cacheCoins with DIRTY and FRESH, the database | FetchCoins, ModifyCoins, BatchWrite, Flush | the flags across layers, crash | readers see one map |
| connecting and undoing blocks | `main.cpp`, `coins.h`, `undo.h` | CCoins, undo data | ConnectBlock, DisconnectBlock | order of undoing, what undo data lacks | undo is exact |
| block download | `main.cpp`, `net.cpp` | mapBlocksInFlight, CNodeState, counters | FindNextBlocksToDownload, SendMessages, MarkBlockAs..., FinalizeNode | peers that go, two threads, timeouts | map, lists and counters agree |
| transaction locks | `swifttx.cpp`, `main.cpp` | mapTxLockReq, mapTxLocks, mapTxLockVote, mapLockedInputs | ix, txlvote, CleanTransactionLocksList | messages in any order, reorganisation, expiry | a vote counts once, no conflicting votes while pool and chain keep what was signed |
| memory pool, orphans | `txmempool.cpp`, `main.cpp` | mapTx, mapNextTx, two orphan maps | AcceptToMemoryPool, remove, removeForBlock, removeCoinbaseSpends, the "tx" handler, LimitOrphanTxSize | chains of unconfirmed transactions over reorganisations, eviction | pool consistent with the coins, nothing minable thrown out, no orphan forgotten |
| scheduler | `scheduler.cpp` | taskQueue, the stop flags, waiting threads | serviceQueue, schedule, scheduleEvery, stop | notifications of one of many waiters | every thread ends, every task is called |
| HTTP work queue | `httpserver.cpp` | queue, running, numThreads | Enqueue, Run, Interrupt, WaitExit, delete | two kinds of waiters, requests in flight and workers not yet started at shutdown | the stop returns, each request in the queue is answered once |
| sporks | `spork.cpp` | mapSporksActive, database | spork, UpdateSpork, LoadSporksFromDB | three steps of a handler, restart | a switch never goes back |
| masternode sync | `masternode-sync.cpp` | RequestedMasternodeAssets, attempts, times | Process, GetNextAsset, Reset, IsBlockchainSynced | three threads without a lock, timeouts against late answers | no stage for ever while peers come, none on an old chain |
| masternode list, payments, budget | `masternode*.cpp` | lists, seen maps, votes | broadcasts, pings, votes, CheckAndRemove | order of messages, expiry | a vote counts once, lists agree |
| connections, bans, addresses | `net.cpp`, `addrman.cpp` | vNodes, fDisconnect, setBanned, two tables | open, close, ban, Good, Attempt | flags without locks, reference counts | a peer asked to go goes |
| wallet, miner | `wallet/`, `miner.cpp` | mapWallet, keypool | CommitTransaction, CreateNewBlock | racing validation | no coin spent twice |

PROJECT.json lists every component with the reason for what is not modelled, and
under `hazards` where each of these difficulties bites.

## The modules

`MC...` modules hold the values of the constants for TLC.  A definition named
"Mutant" in a comment is a plausible bug of the definition below it; each
property of a passing run is violated when its mutant replaces that definition.

### CheckQueue, CheckQueueProofs

`CCheckQueue` and `CCheckQueueControl`.  The mutex is held except in
`cond.wait` and while checks run, so one action is one stretch between two
releases: a worker enters, takes a batch, finishes it, waits or is woken
(spuriously too), and the master opens a session, adds and waits.  An
interruption of the thread group may fall at any point where boost checks for one.

* `VerdictExact`: the value of the last `Wait()` is true exactly when no check of
  the session fails, whichever thread ran it.
* `IdleBetweenSessions`: the assertion of the constructor of the control.
* `TodoCounts`: nTodo counts what is queued or held, and nothing is held twice.
* `WaitReturns` (liveness).  Fairness: weak fairness of each thread that can run,
  which is the scheduler of the operating system; none of the callers and none of
  spurious wakeups.

Bounds: two workers, four checks with one that fails, batches of two.  With the
master this gives three threads and a queue longer than a batch, so batches of
every size, and sessions follow one another without bound.

Proved for any finite sets of workers and checks and any batch size: type
correctness, `VerdictExact`, `IdleBetweenSessions`, `TodoCounts`.  None of these
but the type is inductive alone.  `IInv` adds that the threads that hold a batch
are those past the queue, that nTotal is nIdle plus their number, and what
fAllOk and the local fOk promise about the failing checks that are no longer
outstanding.  The proof has one lemma for what the loop does after its
prologue, used by the three actions that reach it.

### Chain, ChainProofs

Block acceptance, `FindMostWorkChain`, `ActivateBestChainStep`, the
invalidateblock and reconsiderblock commands, `FlushStateToDisk` and the
restart.  The holder of `cs_main` is the variable `job`; functions that write to
disk are cut at each write because a crash may fall between two.  Blocks are a
fixed tree, validity is a property of a block, and the coin database is its best
block (`CoinsCache` and `BlockUndo` have the rest).  The order
of the index objects in memory, the last tie breaker of CBlockIndexWorkComparator,
is chosen anew at each start.  `used` counts the commands and crashes; the constant
`Allowed` says which counts a run explores, and for the proofs may be everything.

* `MostWorkActive`, `CandidatesComplete` and `LinksExact` are what
  `CheckBlockIndex` demands, at the moments where nothing runs;
* `ActiveChainValid`: no block of the active chain carries a failure flag, except
  while InvalidateBlock takes it out;
* `ChainOnDisk` and `StartupWithoutInvalidate`: the databases can be loaded after a
  crash at any write, the second until invalidateblock is used;
* `ActivationEnds`: the loop of ActivateBestChain ends although another thread
  keeps moving the tip.  Fairness: weak for the holder of the lock, strong for a
  thread that waits for it, as for any lock that is not starved.

The run `chain` checks all of these: five blocks on top of genesis arrive in any
order at two threads, with flushes at any time and one invalidateblock, one
reconsiderblock or one crash at any moment.  a1 stands alone; b1, b2 (proof of
stake) carry b3, which ConnectBlock refuses, and c3, which ContextualCheckBlock
refuses.  a1 and b2 have equal work, so the order of arrival decides between them,
and a reorganisation from a1 to b3 fails half way and has to find its way back:
the smallest tree with all of that.  `-maxreorg` is one, its lowest value, so the
fork checks of a proof-of-stake block bite.  Two events are too many states for
one run, and with two events two of the properties are false:
`chain_reconsider` (both commands) and `chain_invalidate_crash` (invalidateblock
and a crash) are the disagreements below.  `CHECK_DEADLOCK FALSE`: when every block
has arrived and the bounds are used up, the node has nothing to do.

Proved for every tree of blocks, any threads and any number of commands and
crashes, from `ChainAssumption` (the tree, work that grows along it, distinct
addresses).  Three invariants build on each other.

1. `CoreInv` is inductive alone and gives `TypeOK`, `LinksExact` and `ChainOnDisk`.
   ChainOnDisk is not inductive: it needs that an index entry which differs from the
   database is in setDirtyBlockIndex (`DiskBehind`), that nothing is dirty while the
   coins are written (`HolderInv`), and that undo data exists all along the chains
   of tip and coins (`UndoComplete`).  That a step never reaches its target below the
   tip (`TargetInv`) needs `CandidateWork`, no candidate has less work than the tip.
2. `FlagInv` gives `ActiveChainValid`, for the histories in which no crash meets an
   invalidateblock (`NoHalfInvalidated`), and `StartupWithoutInvalidate`.  It
   follows the best block of the coin database along the disconnection and
   connection of blocks (`DiskTip`), and the flags on disk behind those in memory.
3. `WorkInv` gives `MostWorkActive` and `CandidatesComplete` in the histories without
   reconsiderblock in which no crash meets an invalidateblock (`PlainHistory`).
   Its heart is `BestKnown`: every valid block better than the tip is a candidate or
   has one as good beside it that ConnectBlock will accept (`BetterCovered`), such a
   candidate is there for the tip itself, so that a failed reorganisation can come
   back (`TipCovered`), nothing valid is better than the target of a running step
   (`StepTarget`), and while something better exists some thread is about to look
   (`Looking`).

The two conditions on histories are not for convenience: outside of them the runs
`chain_reconsider` and `chain_invalidate_crash` show the code to misbehave.  The
tree facts behind the proofs (paths are linear, the fork of a chain with the tip,
the next block towards a target) are proved by a least counterexample on heights,
and that a finite set of blocks has a best one by the number of blocks above.

### CoinsView, CoinsCache, CoinsCacheProofs

`CoinsView` is the promise: a map from transactions to coins, a private copy for
the block at hand that is committed or dropped, a saved map that a crash brings
back.  `CoinsCache` is the code: the view of the block over `pcoinsTip` over the
database, entries with DIRTY and FRESH.  `FreshMeansAbsent` is the meaning of
FRESH (`CleanMeansEqual`, that of DIRTY, serves the proofs), `BatchWriteAssertion` the assertion in
`BatchWrite`, and `ImplementsCoinsView` the refinement (the map is what a reader
of each layer sees).  The run has two transactions, three values of coins and two
blocks; entries do not influence one another, so two are enough for the loop of
BatchWrite.

Proved for any transactions, coins and blocks: the types, `FreshMeansAbsent`,
`BatchWriteAssertion` and the refinement.  The assertion is not
inductive: an entry that is spent now may get coins again.  `FreshOrBelow`, an
entry of the view that pcoinsTip lacks is fresh, spent or not, is; with the
types and both flag properties it is the inductive invariant `Inv`.  Each needs
the others, because the flags of the view are read off entries of the tip.

### BlockUndo, Mempool, MempoolProofs

`BlockUndo` is `ConnectBlock` and `DisconnectBlock` on the unspent outputs, with
CTxInUndo as the code keeps it (height and flags only with the last output of a
transaction).  The loops over the inputs of a transaction and over the
transactions of a block are recursive functions, forwards in `Connecting` and
backwards in `Undoing`.  A coinbase names the height of its block
(`ContextualCheckBlock`; the push of a number determines it, so `ScriptSigHeight` is
a function), which keeps one coinbase from standing at two heights when the first
is spent and BIP30 lets it pass.  `Mempool` extends it: its ConnectTip and DisconnectTip are the
actions of BlockUndo followed by what the code does to the pool, transaction by
transaction.  The holder of `cs_main` is the variable `job`: in a loop over a block,
in the loop of the "tx" handler over the orphans, or idle, and only then may
another transaction, block or the end of a peer come.  A policy verdict (fees,
standardness, transaction locks) is an input; a recursive `remove` is the set its
queue reaches.

* `UtxoMatchesChain` compares the coins with a definition that recomputes them from
  the chain; `DisconnectSucceeds` says that no check in DisconnectBlock fails.
* `PoolCheck` is what `CTxMemPool::check` asserts where the code calls it: every
  input of the pool is available, mature, and marked in mapNextTx for exactly one
  transaction; and the assertion of removeCoinbaseSpends.
* `RemovalJustified` (an action property) is the other side: a transaction leaves
  the pool only when the chain has it or it could no longer be accepted.
* `OrphanMapsAgree`: the two orphan maps name the same orphans after evictions,
  peers that go and acceptance; their number is bounded.
* `OrphansResolved`: when the loop over vWorkQueue ends, no orphan that depends on
  what it accepted has all its parents, except those about to be erased and those
  of a peer punished on the way.

Bounds of `mempool`: twelve transactions, of which five are coinbases, one for each
height, seven may be in the pool and six depend on one another in chains, a join of
two parents, a conflict at each end and a bad script; thirteen blocks that confirm,
conflict with and respend them; chains of five; maturity two; two orphans and two
peers (69,820 states).  These are the smallest values at which an orphan of an
orphan, an eviction of a parent's only child, a conflict with descendants and a
resurrected transaction that policy refuses all happen.  `undo_stake` runs BlockUndo
alone with a coinstake, where `DisconnectSucceeds` fails.  Its outputs are those that
an input can name; in the code the empty marker vout[0] is one of them.

Proved for any transactions, blocks and peers, from `UndoAssumption` (a transaction
spends no output twice, one without inputs is a coinbase, a block is a sequence of
transactions that starts with its coinbase and has no other) and `PoolAssumption`:

* *Orphans*: `OrphanMapsAgree` and `OrphansResolved`.  The latter speaks of the end of
  the loop; the invariant behind it (`LoopInv`) says, at every turn, that an orphan
  with a parent among what the loop has reached is still to be tried in this turn,
  misses an input, has another parent further on in vWorkQueue, or belongs to a
  punished peer.
* *One block*: `BlockUndone`.  Undoing starts from any view that agrees with the one
  ConnectBlock left up to the flag fCoinStake (`Alike`), and ends in one that agrees
  so with the view before; without a coinstake in the block every test passes.  It
  rests on the same statement for one output (`RestoreInverse`), for the inputs of a
  transaction last first, and for a transaction (`UndoTxInverse`), with sets of
  naturals for the induction over each loop (`SetInduction`, `Iteration`).
* *The chain*: `BlockMatches`.  A ledger gives every transaction its height; the view
  holds the outputs that the ledger does not spend (`Match`).  BIP30 only refuses a
  transaction with unspent outputs: that a spent one does not come back follows
  because its own inputs are spent by then, and for a coinbase from its height.
* *The inductive invariant* `UndoInv`: there is a view and a ledger for every height,
  each block leads from one view to the next up to fCoinStake and its undo data is
  what connecting left, and the last view is the coins.  It gives
  `UtxoAlwaysAlikeChain` (the coins are those of the chain, but for fCoinStake of a
  coinstake) and `WorkAlwaysDisconnects` (a tip without coinstake comes off clean) in
  general, and `UtxoMatchesChain` and `DisconnectSucceeds` themselves where the
  constants have no coinstake (`OnlyWork`), as in the `mempool` run.  With one they
  are false: that is `undo_stake`.  `PoolSpecImpliesSpec` carries all this over to
  `Mempool`.
* *The pool*: `PoolCheck` and `RemovalJustified`, with coinstakes too.  PoolCheck says
  nothing while a block is worked off; `PoolInv` does.  While a block is connected,
  each input of the pool is available or spent by a transaction of the block that is
  still to be confirmed, what the chain spends of the rest of the block is spent
  later in it, and only transactions of that rest are in chain and pool at once
  (`Confirming`).  While one is disconnected, each input is available or made by a
  transaction that is still to be resurrected, and chain, pool and the rest of the
  block share nothing (`Resurrecting`).  Maturity is kept when a block comes because
  spending leaves the metadata (`Kept`), and is restored by RemoveCoinbaseSpends when
  one goes.  What `Reached` takes is closed under children, so nothing that stays
  depends on what leaves; and it takes only roots and children of what it took, which
  `RemovalJustified` needs: conflicts and their descendants are not in the chain.
  TLC checked `PoolInv` in the `mempool` instance before it was proved.

### BlockDownload, BlockDownloadProofs

The `CNodeState` of each peer, `mapBlocksInFlight` and the counters, kept by the
message thread, an RPC thread in submitblock and the socket thread.
`InFlightConsistent` is what the unguarded iterators need and that nothing stored
stays requested, `PeerCountersExact` the counts of preferred and of syncing peers
after any peer has gone, `LastCommonIsFull` the comment on pindexLastCommonBlock, `StallerOwes` the stalling clock.  Two outbound peers, a
fork whose middle block is missing while a block above it may be submitted, a
window of one block and one block in transit per peer make both peers want the
same block and one stall the other.
Time is not modelled: a timeout may fire whenever its clock runs.  The loop of
FindNextBlocksToDownload is given by the blocks it reaches (`Reached`): a block of
the walk is reached when no failed block lies below or at it and fewer than `count`
missing ones lie below it.  vBlocksInFlight is a set, as its order only serves the
clocks; the number kept beside it is modelled.

The third counter, nQueuedValidatedHeaders, is in the model and in no property: it is
not the number of blocks in flight that `main.cpp:195` calls it (see below).

Proved for any finite tree of blocks and set of peers, any window and any number of
blocks in transit: `TypeOK` and the four properties above.  They are inductive
together with a lower bound of nQueuedValidatedHeaders, which keeps it from falling
below zero (`Counters`), and `Shape`: the active chain is stored, the index holds the parent of
every block in it, a peer without version message is not preferred, and a thread in
ProcessNewBlock has a block other than genesis.  `StallerOwes` needs
`InFlightConsistent` (the peer that holds the window up owes a block), which needs
the types (what is requested is in the index), which need `LastCommonIsFull` and the
tree.  The lemmas that carry it are about one chain of the tree (`Chains`: one block
at each height), `AtMostCount` (the loop returns at most as many blocks as asked
for, so the limit per peer holds over all batches) and `FindNextFound` (what
FindNextBlocksToDownload may return); SendMessages, MarkBlockAsReceived and AcceptBlock are each proved to have an effect
(`Sent`, `Received`, `Accepted`) that the invariant is then shown to survive.

### SwiftTX, SwiftTXProofs

Lock requests and votes at one masternode, with the parts of the pool, of
CheckBlock and of reorganisation that read `mapLockedInputs`.  `NoDoubleCount`: a
masternode counts once for a lock, with whatever heights its votes arrive and
also after the lists were cleaned.  `NoDoubleSpend`: pool and chain together spend an
outpoint once, also when a completed lock disconnects blocks.

`NoConflictingVotes`: this node signs two conflicting transactions only when a block
or a reorganisation threw one of them out of its pool or chain and it has not come
back (`overtaken`).  The handler of "ix" is two steps, because cs_main is released
between the acceptance (`swifttx.cpp:83`) and the vote (line 87, which takes it again
at 293): `IxRequest`, then `DoConsensusVote` or `IxRejected`, with blocks and
reorganisations between.  Without the exception the property is false.  A signed
transaction leaves the pool when a block takes a rival of it, and the next one may be
signed; and a request may be accepted, thrown out by a block and signed all the same
after that block was disconnected, when a rival of it can be accepted and signed too,
with nothing mined.  What remains is that a rival is only ever signed through such an
eviction: no order of requests, locks, expiry and cleaning does it.  The votes are
those since the last start; nothing keeps them over a restart.

Three transactions, of which t2 conflicts with t1 and with t3, are the least with which
these histories happen; two votes complete a lock, and one vote names a wrong height.
Two things are coarser than the code.  CleanTransactionLocksList is one step, although
it runs without a lock in another thread (`obfuscation.cpp:617`) and erases the votes
(line 462) before the lock (line 465): a vote between the two is not covered.
ReprocessBlocks is given by what it leaves, a chain without conflicts and the pool
filtered by it; how the disconnection goes is the subject of Mempool and BlockUndo.

Proved for any transactions, votes and required signatures: all three.
`NoDoubleCount` is not inductive, because the guard of a vote looks at mapTxLockVote
and not at the lock: `VotesInv` adds that every vote of a lock is known there.
`SpendInv` joins `NoDoubleSpend` with where the signed transactions and the one about to
be signed are (`SignedAccounted`: in the pool, mined or overtaken), from which
`NoConflictingVotes` follows.

### Scheduler

`CScheduler` with several service threads.  The mutex is free only in the two waits,
in the sleep for entropy and while a task runs, so an action is a stretch between
two releases, and a notified thread may find that another was faster.  A behaviour
ends the scheduler at most once, by stop, stop(drain) or the interruption of the
thread group, at any moment.

* `ThreadsEnd`: after that every thread ends, with the count at zero that the
  destructor asserts.  The one exception is a drain with a repeating task, which
  puts itself back for ever.
* `TasksCalled`: a task whose time has come is called, unless the scheduler is
  stopped or interrupted first.

Fairness: threads run, a wait with a deadline ends at it (a weak fairness of its own,
because notifications may keep coming), the clock moves; nothing is assumed of
callers or of spurious wakeups.  Bounds: two threads, two tasks of which one
repeats, a clock up to two.  Two threads are the least with which a notify_one can
reach the wrong one.  The node itself runs one thread.  The model shows that
notify_all in stop and the chain of notify_one at the exits would each do alone.

### HttpServer, HttpServerProofs

The work queue between libevent's thread and the detached workers, and the
shutdown, which may begin at any moment.  Nothing waits for a detached worker that has
not come to its ThreadCounter, nor for a request callback between its start and
Enqueue, so both may come to a queue that is deleted (`UseDeleted`, `EnqueueDeleted`).
That is undefined; the outcomes in the model are those that matter to other threads: the
worker is not heard of again, and the event thread hangs, loses the request or takes the
queue for full.  `late` and `lost` record who came too late.

* `OrderlyStop`: a worker that counted itself before WaitExit returned has left when the
  queue is deleted, no request is answered twice, and after the deletion the only
  requests without an answer are the one in the hands of the event thread and the lost
  ones (the destructor of a request that nobody took answers it).
* `StopReturns`: workers and WaitExit wait on one condition variable, and still the last
  worker to leave is noticed; only an event thread that a deleted queue has swallowed
  keeps the stop from returning.
* `RequestsAnswered`: an accepted request is answered, also during a shutdown, unless it
  is lost in this way.

Fairness: threads run and handlers return; neither requests, shutdown nor spurious
wakeups are promised.  Two workers, three requests and a queue of two let one
request be refused, one queued and one worked on, and one worker be late.

Proved for any finite set of workers, any requests and any depth: `OrderlyStop`.  The
invariant adds that, until the deletion, numThreads counts exactly the workers between
the two ends of Run (`CountExact`), how far the shutdown is and where late workers can
be then (`Stages`), and that a request without an answer is lost or in exactly one
place: with the event thread, in the queue or with one worker (`OneOwner`).

### Spork, MasternodeSync, MasternodeSyncProofs

`Spork`: the handler of a "spork" message is three steps (test, assignment, write to
the database); UpdateSpork may come between them on a node with the key, and a kill
between any two.  `SporkNeverOlder` says that on a node without the key no step
replaces an active spork by one signed earlier, whatever the order and repetition
of messages and restarts; only a kill between assignment and write gives up the
one message at hand.

`MasternodeSync` extends it (spork 8 decides whether silence is a failure).
`Process` is cut where other threads can come between: at its head, in the loop
over peers, and where a decision takes effect; Reset comes from RPC and
IsBlockchainSynced from any thread, without a lock.  Times are kept as what the code
can tell of them (never, recent, quiet; late or not).

* `SyncedOnRecentChain`: the stages after the masternode list are reached only when
  the chain was found recent since the last reset.
* `NoAssetForever`: a stage that lasts for ever is one in which the node keeps sleeping,
  the chain is not recent, items of that very stage keep coming, or Process passes over
  every peer (`PassesAll`): all were asked and none leaves.  With such peers LIST and MNW
  do last for ever when no item comes, because their timeout is looked at only with a
  peer that was not asked yet; BUDGET looks at it first and goes on.  Failure is retried.
  Fairness: the masternode thread runs, time passes, there is some peer, and cs_vNodes,
  which Process only tries to take, is free again and again (strong fairness).  Nothing
  is assumed of peers that come or go: ThreadOpenConnections replaces none that stays.

Bounds of `mnsync`: one peer that others may replace, a threshold of one (the
code's two only lengthens the counting), four messages of one spork: an old, a new,
a forged one and one signed too far ahead.  Which marks a ClearFulfilledRequest
leaves is over-approximated: any.

Proved, for any messages: `SporkNeverOlder` of `SporkSpec`, the sporks alone, and of
the whole, because `Spec` implements `SporkSpec` (`SyncKeepsSporks`: every step of
MasternodeSync is one of the sporks or leaves them as they are).  The invariant adds
to the types that, without the key, the message between test and assignment is
still newer than what it replaces (`StillNewer`), and that the database differs from
the active sporks at most in the message at hand, which is then the active one
(`Written`, `WrittenValue`).  Proved for any peers, sporks and threshold:
`SyncedOnRecentChain`; it is not inductive, because Process acts on what it found
earlier.  `Passed` (beyond the head, a stage after the sporks implies a recent chain)
and `LeavesSporks` (a decision to leave the sporks meets the sporks or a reset)
make it so.

## Disagreements between the code and what it says

| run | shows |
|---|---|
| `chain_invalidate_crash` | a crash in `invalidateblock` between the two databases leaves a node that fails an assertion at every start |
| `chain_reconsider` | `reconsiderblock` on a block without data clears its ancestors' flags but does not make them candidates again: the node stays on a worse chain |
| `undo_stake` | undo data loses fCoinStake, so a reorganisation past a coinstake with all outputs spent (its empty marker vout[0] included) and the block that made it reports a corrupted database |

Also seen while modelling, in the models but without a run of their own:

* The block handler skips every hash in mapBlockIndex, and SendMessages requests
  exactly those without data: such an answer does not clear its request, and the
  timeout drops the peer that answered (`main.cpp:5682`).
* A lock request that the pool refuses locks its inputs with no vote at all
  (`swifttx.cpp:112`, against the comment at `main.cpp:3468`), and without an entry in
  mapTxLockReq they are never released (`swifttx.cpp:452`); cleaning an expired lock
  releases inputs that are held for another, complete lock (`swifttx.cpp:456`); a
  complete vote for an unknown transaction makes an empty request that keeps the
  real one from being processed (`swifttx.cpp:369`).
* nQueuedValidatedHeaders is "Number of blocks in flight with validated headers"
  (`main.cpp:195`), but is not reduced when a peer goes with blocks in flight
  (`main.cpp:403`): it only grows above that number, and the timeouts computed from it
  with it.  DisconnectOldProtocol clears fDisconnect (`net.cpp:465`).
* A masternode can sign two conflicting transactions of which neither is mined, when a
  block that evicts one of them is disconnected again, also between acceptance and
  signature (`swifttx.cpp:83` to 87).
* With several service threads a thread whose wait times out takes whatever is first
  by then, which may be a task that is not due (`scheduler.cpp:77`).
* The precondition of ~WorkQueue, "worker threads have all stopped (call WaitExit)"
  (`httpserver.cpp:105`), is not met by calling WaitExit: it counts only workers that
  have started (line 156), and the workers are detached (line 459).  Nor does anything
  wait for a running callback before the queue is deleted (line 483).
* With peers that stay and send nothing, the synchronisation stays in LIST or MNW for
  ever: the timeout (`masternode-sync.cpp:335`) comes after the test for a peer that was
  asked (line 331).
* On a node with the spork key, an older message can overwrite what UpdateSpork set
  (`spork.cpp:160`), and UpdateSpork does not write the database (`spork.cpp:193`).
* Reset sets lastProcess to 0, so the next IsBlockchainSynced resets once more
  (`masternode-sync.cpp:59`).

## What is proved and what is only checked

| module | proved |
|---|---|
| CheckQueueProofs | TypeOK, VerdictExact, IdleBetweenSessions, TodoCounts |
| ChainProofs | TypeOK, LinksExact, ChainOnDisk, StartupWithoutInvalidate; ActiveChainValid, MostWorkActive, CandidatesComplete in the histories named above |
| CoinsCacheProofs | TypeOK, FreshMeansAbsent, BatchWriteAssertion, the refinement of CoinsView |
| MempoolProofs | UtxoMatchesChain and DisconnectSucceeds without coinstakes, and what holds of them with; PoolCheck, RemovalJustified, OrphanMapsAgree, OrphansResolved |
| SwiftTXProofs | NoDoubleCount, NoDoubleSpend, NoConflictingVotes |
| HttpServerProofs | OrderlyStop |
| BlockDownloadProofs | TypeOK, InFlightConsistent, PeerCountersExact, LastCommonIsFull, StallerOwes |
| MasternodeSyncProofs | SporkNeverOlder, SyncedOnRecentChain |

The assumptions are those named in the modules, which the runs evaluate.  Only
model-checked is liveness (`WaitReturns`, `ActivationEnds`, `ThreadsEnd`,
`TasksCalled`, `StopReturns`, `RequestsAnswered`, `NoAssetForever`), which is outside
the prover's reach.

## What is not modelled

Scripts, signatures, kernel hashes and amounts are inputs (whether a check
passes).  Peers' misbehaviour scores, relaying and the graphical client are left
out.  Databases are modelled by what the node relies on: a batch is atomic and
survives a crash.  Two accesses to an unguarded global are atomic.  The
`headers` message is never processed (`HeadersFirstSyncingActive` is false on
every network).

## Plan

Done: CheckQueue, CoinsView and CoinsCache, Chain, BlockDownload, SwiftTX,
HttpServer, Spork, MasternodeSync, BlockUndo and Mempool (safety proved); Scheduler
(checked).  Left, in this order:

1. Masternode list and payments: broadcasts, pings and states; payment votes
   count once; budget votes and finalized budgets after these.
2. Connections: reference counts, fDisconnect and bans, composed with
   BlockDownload; then the address manager's tables.
3. Pure algorithms against reference definitions: the skip list of
   chain.cpp, difficulty, subsidy.
