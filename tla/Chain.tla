------------------------------- MODULE Chain -------------------------------
(***************************************************************************)
(* The block index and the active chain (main.cpp): acceptance of blocks,  *)
(* the choice of the chain with the most work, reorganisation towards it,  *)
(* the invalidateblock and reconsiderblock commands, the two databases and *)
(* a crash at any point followed by LoadBlockIndexDB.                      *)
(*                                                                         *)
(* cs_main is held by one thread at a time (variable job).  Functions that *)
(* write to disk while they hold it are cut at each write, because a crash *)
(* can fall between two writes; the others are one action.  Blocks are the *)
(* nodes of a fixed tree; whether a block passes ContextualCheckBlock and  *)
(* ConnectBlock is a property of the block.  The contents of the coin      *)
(* database are determined by its best block.  pindexBestInvalid,          *)
(* pindexBestHeader and mapBlockSource, which feed only warnings, header   *)
(* requests and bans, are left out, and so are checkpoints.                *)
(***************************************************************************)
EXTENDS Integers, FiniteSets

CONSTANTS Blocks, Genesis,
          Parent,        \* pprev of every other block
          Path,          \* a block with all its ancestors
          Height,        \* nHeight
          ChainWork,     \* nChainWork
          Stake,         \* the proof-of-stake blocks
          BadContext,    \* blocks that ContextualCheckBlock refuses
          BadConnect,    \* blocks that ConnectBlock refuses
          MaxReorg,      \* -maxreorg
          Addresses,     \* possible orders of the CBlockIndex objects in memory
          Threads,       \* threads that call ProcessNewBlock or the RPCs
          NoBlock,       \* a null CBlockIndex*
          Allowed        \* bounds: how often each command, and a crash, may happen

ASSUME ChainAssumption ==
    /\ IsFiniteSet(Blocks) /\ Genesis \in Blocks /\ NoBlock \notin Blocks
    /\ Parent \in [Blocks \ {Genesis} -> Blocks]
    /\ Path \in [Blocks -> SUBSET Blocks]
    /\ Path[Genesis] = {Genesis}
    /\ \A b \in Blocks \ {Genesis} : Path[b] = Path[Parent[b]] \cup {b}
    /\ Height \in [Blocks -> Nat] /\ Height[Genesis] = 0
    /\ \A b \in Blocks \ {Genesis} : Height[b] = Height[Parent[b]] + 1
    /\ ChainWork \in [Blocks -> Nat]
    /\ \A b \in Blocks \ {Genesis} : ChainWork[b] > ChainWork[Parent[b]]
    /\ Stake \subseteq Blocks \ {Genesis}
    /\ BadContext \subseteq Blocks \ {Genesis}
    /\ BadConnect \subseteq Blocks \ {Genesis}
    /\ MaxReorg \in Nat \ {0}
    /\ Addresses \subseteq [Blocks -> Nat] /\ Addresses # {}
    /\ \A a \in Addresses : \A b, c \in Blocks : a[b] = a[c] => b = c
    /\ Allowed \subseteq [invalidate : Nat, reconsider : Nat, crash : Nat]

VARIABLES
    index,        \* the blocks in mapBlockIndex
    data,         \* those with BLOCK_HAVE_DATA (and BLOCK_VALID_TRANSACTIONS)
    undo,         \* those with BLOCK_HAVE_UNDO (and BLOCK_VALID_SCRIPTS)
    failedValid,  \* those with BLOCK_FAILED_VALID
    failedChild,  \* those with BLOCK_FAILED_CHILD
    chainTx,      \* those whose nChainTx is not 0
    seq,          \* nSequenceId
    nBlockSequenceId,
    addr,         \* the addresses of the CBlockIndex objects, as an order
    candidates,   \* setBlockIndexCandidates
    unlinked,     \* the values of mapBlocksUnlinked; the key of b is Parent[b]
    tip,          \* chainActive.Tip()
    coins,        \* pcoinsTip->GetBestBlock()
    dirty,        \* setDirtyBlockIndex
    disk,         \* the block index database
    diskCoins,    \* the best block of the coin database
    pc,           \* idle, activate (top of the loop), loop (its end)
    mostWork,     \* pindexMostWork of each thread inside ActivateBestChain
    job,          \* what the holder of cs_main is doing, see Jobs
    flush,        \* how far FlushStateToDisk is: no, index, coins, done
    newTip,       \* the argument of the UpdateTip after the flush
    used          \* how often each command was given, and the process crashed

status == <<index, data, undo, failedValid, failedChild, chainTx>>
order == <<seq, nBlockSequenceId, addr>>
memory == <<candidates, unlinked>>
durable == <<disk, diskCoins>>
control == <<pc, mostWork, job, flush, newTip>>
vars == <<status, order, memory, tip, coins, dirty, durable, control, used>>

Free == [kind |-> "none"]

(* step: ActivateBestChainStep towards target, started at tip old.         *)
(* invalidate: the loop of InvalidateBlock.  flush: FlushStateToDisk alone. *)
Jobs ==
    {Free}
    \cup [kind : {"step"}, thread : Threads, target : Blocks, old : Blocks]
    \cup [kind : {"invalidate"}, thread : Threads, target : Blocks]
    \cup [kind : {"flush"}]

DiskIndex == [index : SUBSET Blocks, data : SUBSET Blocks, undo : SUBSET Blocks,
              failedValid : SUBSET Blocks, failedChild : SUBSET Blocks]

-----------------------------------------------------------------------------
Failed == failedValid \cup failedChild

\* CBlockIndexWorkComparator, with sequence numbers s: is a worse than b?
WorseBy(s, a, b) ==
    \/ ChainWork[a] < ChainWork[b]
    \/ ChainWork[a] = ChainWork[b] /\ s[a] > s[b]
    \/ ChainWork[a] = ChainWork[b] /\ s[a] = s[b] /\ addr[a] > addr[b]

Worse(a, b) == WorseBy(seq, a, b)

Best(S) == CHOOSE b \in S : \A c \in S : ~Worse(b, c)

\* The highest block that two chains share: CChain::FindFork.
FindFork(a, b) ==
    CHOOSE f \in Path[a] \cap Path[b] : \A g \in Path[a] \cap Path[b] : Height[g] <= Height[f]

\* The next block on the way from the tip to b.
NextTowards(b) == CHOOSE c \in Path[b] \ Path[tip] : Parent[c] = tip

Init ==
    /\ index = {Genesis} /\ data = {Genesis} /\ chainTx = {Genesis}
    /\ undo = {} /\ failedValid = {} /\ failedChild = {}
    /\ seq = [b \in Blocks |-> IF b = Genesis THEN 1 ELSE 0]
    /\ nBlockSequenceId = 2
    /\ addr \in Addresses
    /\ candidates = {Genesis} /\ unlinked = {}
    /\ tip = Genesis /\ coins = Genesis /\ dirty = {}
    /\ disk = [index |-> {Genesis}, data |-> {Genesis}, undo |-> {},
               failedValid |-> {}, failedChild |-> {}]
    /\ diskCoins = Genesis
    /\ pc = [t \in Threads |-> "idle"]
    /\ mostWork = [t \in Threads |-> NoBlock]
    /\ job = Free /\ flush = "no" /\ newTip = NoBlock
    /\ used = [invalidate |-> 0, reconsider |-> 0, crash |-> 0]

-----------------------------------------------------------------------------
(* ProcessNewBlock and AcceptBlock.                                        *)

\* The block message skips a block whose header is known; submitblock only
\* skips one that is fully valid or failed.  Both need the parent's header.
Offered(b) ==
    /\ b # Genesis /\ Parent[b] \in index
    /\ ~(b \in index /\ (b \in Failed \/ b \in undo))

\* AcceptBlock up to AcceptBlockHeader: a failed parent, or a fork that starts
\* too far below the tip.
HeaderRefused(b) ==
    \/ Parent[b] \in Failed
    \/ b \notin index /\ Height[tip] - Height[b] >= MaxReorg

\* The fork checks of a proof-of-stake block: every block back to the active
\* chain must be on disk, and there may be fewer than MaxReorg of them.
ForkRefused(b) ==
    /\ b \in Stake /\ Parent[b] # tip
    /\ \/ ~(Path[Parent[b]] \ Path[tip] \subseteq data)
       \/ Cardinality(Path[Parent[b]] \ Path[tip]) >= MaxReorg

\* Mutant: the descendants that waited for b are forgotten.
LinkedAlone(b) == {b}

\* The blocks that get their nChainTx when b has data: b and what waits for it.
LinkedBy(b) ==
    {b} \cup {c \in unlinked : b \in Path[c] /\ Path[c] \ Path[b] \subseteq unlinked}

\* ReceivedBlockTransactions.  The queue hands out sequence numbers parent
\* first; among blocks of one height the order is that of a multimap.
ReceivedBlockTransactions(b) ==
    IF Parent[b] \in chainTx
    THEN LET L == LinkedBy(b) IN
         /\ chainTx' = chainTx \cup L
         /\ \E s \in [L -> nBlockSequenceId .. nBlockSequenceId + Cardinality(L) - 1] :
               /\ \A c, d \in L : (c # d => s[c] # s[d]) /\ (Height[c] < Height[d] => s[c] < s[d])
               /\ seq' = [c \in Blocks |-> IF c \in L THEN s[c] ELSE seq[c]]
         /\ nBlockSequenceId' = nBlockSequenceId + Cardinality(L)
         /\ candidates' = candidates \cup {c \in L : ~WorseBy(seq', c, tip)}
         /\ unlinked' = unlinked \ L
    ELSE /\ unlinked' = IF Parent[b] \in Failed THEN unlinked ELSE unlinked \cup {b}
         /\ UNCHANGED <<chainTx, seq, nBlockSequenceId, candidates>>

\* The header is new and the body fails ContextualCheckBlock.
AcceptFailed(b) ==
    /\ b \notin data /\ b \in BadContext
    /\ failedValid' = failedValid \cup {b}
    /\ dirty' = dirty \cup {b}
    /\ UNCHANGED <<data, chainTx, seq, nBlockSequenceId, candidates, unlinked, pc>>

\* The header stays in the index, the body is thrown away.
AcceptHeaderOnly(b) ==
    /\ b \notin data /\ b \notin BadContext /\ ForkRefused(b)
    /\ dirty' = dirty \cup ({b} \ index)
    /\ UNCHANGED <<data, chainTx, failedValid, seq, nBlockSequenceId, candidates, unlinked, pc>>

AcceptStored(t, b) ==
    /\ b \notin data /\ b \notin BadContext /\ ~ForkRefused(b)
    /\ data' = data \cup {b}
    /\ dirty' = dirty \cup {b}
    /\ ReceivedBlockTransactions(b)
    /\ pc' = [pc EXCEPT ![t] = "activate"]
    /\ UNCHANGED failedValid

AcceptKnown(t, b) ==
    /\ b \in data
    /\ pc' = [pc EXCEPT ![t] = "activate"]
    /\ UNCHANGED <<data, chainTx, failedValid, seq, nBlockSequenceId, candidates, unlinked, dirty>>

\* The part of ProcessNewBlock under cs_main.
ProcessNewBlock(t, b) ==
    /\ pc[t] = "idle" /\ job = Free
    /\ Offered(b) /\ ~HeaderRefused(b)
    /\ index' = index \cup {b}
    /\ AcceptFailed(b) \/ AcceptHeaderOnly(b) \/ AcceptStored(t, b) \/ AcceptKnown(t, b)
    /\ UNCHANGED <<undo, failedChild, addr, tip, coins, durable, mostWork, job, flush, newTip, used>>

-----------------------------------------------------------------------------
(* ActivateBestChain.                                                      *)

\* Why a candidate cannot be activated: failed blocks, or blocks without data,
\* between it and the active chain.
Defects(c) == {a \in Path[c] \ Path[tip] : a \in Failed \/ a \notin data}

\* The blocks from candidate c down to the first defect met.
Dropped(c) == {a \in Path[c] : \E d \in Defects(c) : /\ \A e \in Defects(c) : Height[e] <= Height[d]
                                                     /\ Height[a] >= Height[d]}

\* Mutant: the best candidate is taken without looking at its ancestors.
UsableUnchecked == candidates

Usable == {c \in candidates : Defects(c) = {}}

\* Candidates tried before the best usable one: FindMostWorkChain's do loop.
Tried == {c \in candidates \ Usable : \A u \in Usable : Worse(u, c)}

\* What the loop does to the candidates it tries and to the blocks above the
\* defect.
DropTried ==
    LET above(c) == Dropped(c) \ Defects(c)
        bad == {c \in Tried : Dropped(c) \cap Failed # {}}
    IN  /\ candidates' = candidates \ UNION {Dropped(c) : c \in Tried}
        /\ failedChild' = failedChild \cup UNION {above(c) : c \in bad}
        /\ unlinked' = unlinked \cup UNION {above(c) : c \in Tried \ bad}

\* The critical section finds nothing better than the tip and returns.
NothingToDo(t) ==
    /\ pc[t] = "activate" /\ job = Free
    /\ DropTried
    /\ Usable # {} => Best(Usable) = tip
    /\ pc' = [pc EXCEPT ![t] = "idle"]
    /\ mostWork' = [mostWork EXCEPT ![t] = NoBlock]
    /\ UNCHANGED <<index, data, undo, failedValid, chainTx, order, tip, coins, dirty,
                   durable, job, flush, newTip, used>>

\* FindMostWorkChain and the start of ActivateBestChainStep.
StartStep(t) ==
    /\ pc[t] = "activate" /\ job = Free
    /\ DropTried
    /\ Usable # {} /\ Best(Usable) # tip
    /\ mostWork' = [mostWork EXCEPT ![t] = Best(Usable)]
    /\ job' = [kind |-> "step", thread |-> t, target |-> Best(Usable), old |-> tip]
    /\ UNCHANGED <<index, data, undo, failedValid, chainTx, order, tip, coins, dirty,
                   durable, pc, flush, newTip, used>>

\* DisconnectTip up to its FlushStateToDisk(FLUSH_STATE_ALWAYS).
DisconnectTip ==
    /\ coins' = Parent[tip]
    /\ newTip' = Parent[tip]
    /\ flush' = "index"

StepDisconnect ==
    /\ job.kind = "step" /\ flush = "no"
    /\ tip # FindFork(tip, job.target)
    /\ DisconnectTip
    /\ UNCHANGED <<status, order, memory, tip, dirty, durable, pc, mostWork, job, used>>

\* ConnectTip up to its FlushStateToDisk, which writes when the cache is full or
\* the block opened a new file.
StepConnect ==
    /\ job.kind = "step" /\ flush = "no"
    /\ tip = FindFork(tip, job.target)
    /\ LET b == NextTowards(job.target)
       IN  /\ b \notin BadConnect
           /\ undo' = undo \cup {b}
           /\ dirty' = IF b \in undo THEN dirty ELSE dirty \cup {b}
           /\ coins' = b
           /\ newTip' = b
           /\ flush' \in {"index", "done"}
    /\ UNCHANGED <<index, data, failedValid, failedChild, chainTx, order, memory, tip,
                   durable, pc, mostWork, job, used>>

\* Mutant: the refused block is not marked.
StepInvalidUnmarked ==
    /\ job.kind = "step" /\ flush = "no"
    /\ tip = FindFork(tip, job.target) /\ NextTowards(job.target) \in BadConnect
    /\ pc' = [pc EXCEPT ![job.thread] = "loop"]
    /\ job' = Free
    /\ UNCHANGED <<status, order, memory, tip, coins, dirty, durable, mostWork, flush, newTip, used>>

\* ConnectBlock refuses the block: InvalidBlockFound, and the step ends.
StepInvalid ==
    /\ job.kind = "step" /\ flush = "no"
    /\ tip = FindFork(tip, job.target)
    /\ LET b == NextTowards(job.target)
       IN  /\ b \in BadConnect
           /\ failedValid' = failedValid \cup {b}
           /\ dirty' = dirty \cup {b}
           /\ candidates' = candidates \ {b}
    /\ pc' = [pc EXCEPT ![job.thread] = "loop"]
    /\ job' = Free
    /\ UNCHANGED <<index, data, undo, failedChild, chainTx, order, unlinked, tip, coins,
                   durable, mostWork, flush, newTip, used>>

\* Mutant: the tip itself is pruned as well.
PrunedWithTip(t) == {c \in candidates : Worse(t, c)}

\* PruneBlockIndexCandidates with the new tip t.
Pruned(t) == {c \in candidates : ~Worse(c, t)}

\* UpdateTip at the end of ConnectTip; the step is over when the new tip has
\* more work than the one the step started from, or is its target.
StepUpdateTip ==
    /\ job.kind = "step" /\ flush = "done" /\ tip \in Path[newTip]
    /\ tip' = newTip
    /\ newTip' = NoBlock
    /\ flush' = "no"
    /\ candidates' = Pruned(newTip)
    /\ LET over == ChainWork[newTip] > ChainWork[job.old] \/ newTip = job.target
       IN  /\ job' = IF over THEN Free ELSE job
           /\ pc' = IF over THEN [pc EXCEPT ![job.thread] = "loop"] ELSE pc
    /\ UNCHANGED <<status, order, unlinked, coins, dirty, durable, mostWork, used>>

\* UpdateTip at the end of DisconnectTip.
DisconnectUpdateTip ==
    /\ job.kind \in {"step", "invalidate"} /\ flush = "done" /\ newTip \in Path[tip]
    /\ tip' = newTip
    /\ newTip' = NoBlock
    /\ flush' = "no"
    /\ UNCHANGED <<status, order, memory, coins, dirty, durable, pc, mostWork, job, used>>

\* while (pindexMostWork != chainActive.Tip()), read without cs_main.
LoopTest(t) ==
    /\ pc[t] = "loop"
    /\ pc' = [pc EXCEPT ![t] = IF mostWork[t] = tip THEN "idle" ELSE "activate"]
    /\ mostWork' = [mostWork EXCEPT ![t] = NoBlock]
    /\ UNCHANGED <<status, order, memory, tip, coins, dirty, durable, job, flush, newTip, used>>

-----------------------------------------------------------------------------
(* The invalidateblock and reconsiderblock commands.                       *)

InvalidateBlock(t, b) ==
    /\ pc[t] = "idle" /\ job = Free
    /\ b \in index \ {Genesis}
    /\ failedValid' = failedValid \cup {b}
    /\ dirty' = dirty \cup {b}
    /\ candidates' = candidates \ {b}
    /\ job' = [kind |-> "invalidate", thread |-> t, target |-> b]
    /\ used' = [used EXCEPT !.invalidate = @ + 1] /\ used' \in Allowed
    /\ UNCHANGED <<index, data, undo, failedChild, chainTx, order, unlinked, tip, coins,
                   durable, pc, mostWork, flush, newTip>>

\* One round of its loop.
InvalidateDisconnect ==
    /\ job.kind = "invalidate" /\ flush = "no" /\ job.target \in Path[tip]
    /\ failedChild' = failedChild \cup {tip}
    /\ dirty' = dirty \cup {tip}
    /\ candidates' = candidates \ {tip}
    /\ DisconnectTip
    /\ UNCHANGED <<index, data, undo, failedValid, chainTx, order, unlinked, tip, durable,
                   pc, mostWork, job, used>>

\* The candidates InvalidateBlock and LoadBlockIndexDB put (back) in.
Eligible == {c \in data \cap chainTx : c \notin Failed}

\* The rest of InvalidateBlock; ActivateBestChain follows.
InvalidateDone ==
    /\ job.kind = "invalidate" /\ flush = "no" /\ job.target \notin Path[tip]
    /\ candidates' = candidates \cup {c \in Eligible : ~Worse(c, tip)}
    /\ pc' = [pc EXCEPT ![job.thread] = "activate"]
    /\ job' = Free
    /\ UNCHANGED <<status, order, unlinked, tip, coins, dirty, durable, mostWork, flush, newTip, used>>

\* The blocks whose failure flags ReconsiderBlock clears.
Cleared(b) == {c \in Failed : b \in Path[c] \/ c \in Path[b]}

ReconsiderBlock(t, b) ==
    /\ pc[t] = "idle" /\ job = Free
    /\ b \in index
    /\ failedValid' = failedValid \ Cleared(b)
    /\ failedChild' = failedChild \ Cleared(b)
    /\ dirty' = dirty \cup Cleared(b) \cup {c \in index \ data : b \in Path[c]}
    /\ candidates' = candidates
          \cup {c \in data \cap chainTx \cap Cleared(b) : b \in Path[c] /\ Worse(tip, c)}
    /\ pc' = [pc EXCEPT ![t] = "activate"]
    /\ used' = [used EXCEPT !.reconsider = @ + 1] /\ used' \in Allowed
    /\ UNCHANGED <<index, data, undo, chainTx, order, unlinked, tip, coins, durable,
                   mostWork, job, flush, newTip>>

-----------------------------------------------------------------------------
(* FlushStateToDisk, a crash, and LoadBlockIndexDB.                        *)

\* A flush that is not part of a tip change: periodic, at shutdown, by RPC.
StartFlush ==
    /\ job = Free
    /\ dirty # {} \/ coins # diskCoins
    /\ job' = [kind |-> "flush"]
    /\ flush' = "index"
    /\ UNCHANGED <<status, order, memory, tip, coins, dirty, durable, pc, mostWork, newTip, used>>

\* Mutant: the chainstate is written before the block index it refers to.
FlushIndexLate ==
    /\ flush = "index"
    /\ diskCoins' = coins
    /\ flush' = "coins"
    /\ UNCHANGED <<status, order, memory, tip, coins, dirty, disk, pc, mostWork, job, newTip, used>>

\* WriteBatchSync of the dirty entries of the block index.
FlushIndex ==
    /\ flush = "index"
    /\ LET written(old, new) == (old \ dirty) \cup (new \cap dirty)
       IN  disk' = [index |-> written(disk.index, index),
                    data |-> written(disk.data, data),
                    undo |-> written(disk.undo, undo),
                    failedValid |-> written(disk.failedValid, failedValid),
                    failedChild |-> written(disk.failedChild, failedChild)]
    /\ dirty' = {}
    /\ flush' = "coins"
    /\ UNCHANGED <<status, order, memory, tip, coins, diskCoins, pc, mostWork, job, newTip, used>>

\* pcoinsTip->Flush(): one database batch.
FlushCoins ==
    /\ flush = "coins"
    /\ diskCoins' = coins
    /\ flush' = IF job.kind = "flush" THEN "no" ELSE "done"
    /\ job' = IF job.kind = "flush" THEN Free ELSE job
    /\ UNCHANGED <<status, order, memory, tip, coins, dirty, disk, pc, mostWork, newTip, used>>

\* What LoadBlockIndexDB computes from the block index database: the blocks
\* whose nChainTx it sets, and the candidates before they are pruned.
LoadedChainTx == {c \in disk.data : Path[c] \subseteq disk.data}
LoadedCandidates == LoadedChainTx \ (disk.failedValid \cup disk.failedChild)

\* Mutant: only blocks better than the loaded tip are kept.
LoadedStrictlyAbove(a) ==
    {c \in LoadedCandidates :
        \/ ChainWork[c] > ChainWork[diskCoins]
        \/ ChainWork[c] = ChainWork[diskCoins] /\ a[c] < a[diskCoins]}

\* PruneBlockIndexCandidates at startup: all sequence numbers are 0.
LoadedAbove(a) ==
    {c \in LoadedCandidates :
        \/ ChainWork[c] > ChainWork[diskCoins]
        \/ ChainWork[c] = ChainWork[diskCoins] /\ a[c] <= a[diskCoins]}

\* The process dies and starts again; AppInit2, on one thread, ends with
\* ActivateBestChain.
Restart ==
    /\ used' = [used EXCEPT !.crash = @ + 1] /\ used' \in Allowed
    /\ index' = disk.index /\ data' = disk.data /\ undo' = disk.undo
    /\ failedValid' = disk.failedValid /\ failedChild' = disk.failedChild
    /\ chainTx' = LoadedChainTx
    /\ unlinked' = disk.data \ LoadedChainTx
    /\ seq' = [b \in Blocks |-> 0]
    /\ nBlockSequenceId' = 1
    /\ addr' \in Addresses
    /\ tip' = diskCoins /\ coins' = diskCoins /\ dirty' = {}
    /\ candidates' = LoadedAbove(addr')
    /\ \E t \in Threads : pc' = [u \in Threads |-> IF u = t THEN "activate" ELSE "idle"]
    /\ mostWork' = [t \in Threads |-> NoBlock]
    /\ job' = Free /\ flush' = "no" /\ newTip' = NoBlock
    /\ UNCHANGED durable

-----------------------------------------------------------------------------
HolderStep ==
    \/ StepDisconnect \/ StepConnect \/ StepInvalid \/ StepUpdateTip
    \/ InvalidateDisconnect \/ InvalidateDone \/ DisconnectUpdateTip
    \/ FlushIndex \/ FlushCoins

ActivateBestChain(t) == NothingToDo(t) \/ StartStep(t) \/ LoopTest(t)

Next ==
    \/ \E t \in Threads, b \in Blocks :
          ProcessNewBlock(t, b) \/ InvalidateBlock(t, b) \/ ReconsiderBlock(t, b)
    \/ \E t \in Threads : ActivateBestChain(t)
    \/ HolderStep
    \/ StartFlush
    \/ Restart

(* The holder of cs_main runs, and a thread inside ActivateBestChain gets  *)
(* the lock again and again.  Nothing is assumed of the environment.       *)
Fairness == WF_vars(HolderStep) /\ \A t \in Threads : SF_vars(ActivateBestChain(t))

Spec == Init /\ [][Next]_vars /\ Fairness

-----------------------------------------------------------------------------
(* Types; the active chain is made of blocks that have all their data.     *)
TypeOK ==
    /\ index \subseteq Blocks /\ data \subseteq index /\ undo \subseteq data
    /\ failedValid \subseteq index /\ failedChild \subseteq index
    /\ chainTx \subseteq data
    /\ seq \in [Blocks -> Nat] /\ nBlockSequenceId \in Nat /\ addr \in Addresses
    /\ candidates \subseteq chainTx /\ unlinked \subseteq data
    /\ tip \in chainTx /\ coins \in chainTx /\ dirty \subseteq index
    /\ disk \in DiskIndex /\ diskCoins \in Blocks
    /\ pc \in [Threads -> {"idle", "activate", "loop"}]
    /\ mostWork \in [Threads -> Blocks \cup {NoBlock}]
    /\ job \in Jobs /\ flush \in {"no", "index", "coins", "done"}
    /\ newTip \in Blocks \cup {NoBlock}
    /\ used \in [invalidate : Nat, reconsider : Nat, crash : Nat]

Quiet == job = Free /\ \A t \in Threads : pc[t] = "idle"

(* "We know all blocks in it are valid already" (FindMostWorkChain, line   *)
(* 2906): no block of the active chain carries a failure flag, except      *)
(* while InvalidateBlock is taking it out.                                 *)
ActiveChainValid ==
    job.kind # "invalidate" => Path[tip] \cap Failed = {}

(* The result of ActivateBestChain is "an activated best chain" (line      *)
(* 3033): with no call running, no block whose whole chain has data and no *)
(* failure flag sorts better than the tip.                                 *)
MostWorkActive ==
    Quiet => \A b \in data : Path[b] \subseteq data \ Failed => ~Worse(tip, b)

(* CheckBlockIndex on setBlockIndexCandidates: once no call is running, the *)
(* set holds every valid block at least as good as the tip.                *)
CandidatesComplete ==
    Quiet => \A b \in chainTx : Path[b] \cap failedValid = {} /\ ~Worse(b, tip) => b \in candidates

(* CheckBlockIndex on nChainTx and mapBlocksUnlinked: a block with data    *)
(* has its nChainTx when all its ancestors have data, and is remembered as *)
(* unlinked otherwise, so that it is linked when the missing block comes.  *)
LinksExact ==
    /\ chainTx = {b \in data : Path[b] \subseteq data}
    /\ unlinked = data \ chainTx

(* What FlushStateToDisk's order is for: whenever the process dies, the    *)
(* best block of the coin database is in the block index database with all *)
(* its chain, and with the undo data to leave it.                          *)
ChainOnDisk ==
    /\ Path[diskCoins] \subseteq disk.data
    /\ Path[diskCoins] \ {Genesis} \subseteq disk.undo

(* The assertion at the end of PruneBlockIndexCandidates (line 2957) holds *)
(* for what LoadBlockIndexDB would load if the process died now.           *)
StartupAssertion ==
    \A a \in Addresses : LoadedAbove(a) # {}

(* It does as long as invalidateblock was not used.                        *)
StartupWithoutInvalidate ==
    used.invalidate = 0 => StartupAssertion

(* Every call of ActivateBestChain ends.                                   *)
ActivationEnds ==
    \A t \in Threads : pc[t] = "activate" ~> pc[t] = "idle"

=============================================================================
