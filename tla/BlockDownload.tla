--------------------------- MODULE BlockDownload ---------------------------
(***************************************************************************)
(* Which blocks are requested from which peer (main.cpp): the CNodeState   *)
(* of every peer, mapBlocksInFlight and the counters beside it, kept by    *)
(* the message handler thread ("net"), the threads that answer RPC calls   *)
(* ("rpc") and the socket thread, which adds and deletes peers.            *)
(*                                                                         *)
(* ProcessNewBlock lets go of cs_main before ActivateBestChain, and the    *)
(* "block" handler looks the hash up before it takes the lock: a thread's  *)
(* pc says how far its call is.  A NodeId is never used twice.  Times are  *)
(* left out: a timeout may have expired whenever its clock is running.     *)
(* So is the order in the list vBlocksInFlight, which only they need: it   *)
(* is a set, and nBlocksInFlight the number the code keeps beside it.      *)
(* Misbehaviour scores are left out: a ban is one of the reasons to drop a *)
(* peer.  The chain is what AcceptBlock and ActivateBestChain make of it   *)
(* when every stored block is valid; Chain has the rest.                   *)
(***************************************************************************)
EXTENDS Integers, FiniteSets

CONSTANTS Blocks, Genesis,
          Parent,          \* of every block but Genesis
          Ancestors,       \* of a block, with itself
          nHeight,
          nChainWork,
          ProofOfStake,    \* blocks that AcceptBlock subjects to its fork checks
          Refused,         \* of these: deep in a fork, their stake is spent or the fork too long
          Bad,             \* blocks that fail ContextualCheckBlock
          Loaded, Stored,  \* the index at the start, and the blocks of it with data
          Peers,
          Offers,          \* the blocks a peer announces and sends
          Submits,         \* the blocks given to submitblock
          Kind,            \* fInbound, fWhitelisted, fOneShot, fClient, obsolete
          BLOCK_DOWNLOAD_WINDOW, MAX_BLOCKS_IN_TRANSIT_PER_PEER,
          None

ASSUME DownloadAssumption ==
    /\ IsFiniteSet(Blocks) /\ Genesis \in Blocks /\ Parent \in [Blocks \ {Genesis} -> Blocks]
    /\ Ancestors \in [Blocks -> SUBSET Blocks] /\ Ancestors[Genesis] = {Genesis}
    /\ nHeight \in [Blocks -> Nat] /\ nHeight[Genesis] = 0 /\ nChainWork \in [Blocks -> Nat]
    /\ \A b \in Blocks \ {Genesis} :
          /\ Ancestors[b] = {b} \cup Ancestors[Parent[b]]
          /\ nHeight[b] = nHeight[Parent[b]] + 1
          /\ nChainWork[b] > nChainWork[Parent[b]]
    /\ Refused \subseteq ProofOfStake /\ ProofOfStake \cup Bad \subseteq Blocks \ {Genesis}
    /\ Genesis \in Stored /\ Stored \subseteq Loaded /\ Loaded \subseteq Blocks
    /\ \A b \in Stored : Ancestors[b] \subseteq Stored
    /\ \A b \in Loaded : Ancestors[b] \subseteq Loaded \ Bad
    /\ IsFiniteSet(Peers) /\ None \notin Peers \cup Blocks
    /\ Offers \in [Peers -> SUBSET Blocks] /\ Submits \subseteq Blocks \ {Genesis}
    /\ Kind \in [Peers -> [fInbound : BOOLEAN, fWhitelisted : BOOLEAN, fOneShot : BOOLEAN,
                           fClient : BOOLEAN, obsolete : BOOLEAN]]
    /\ BLOCK_DOWNLOAD_WINDOW \in Nat \ {0} /\ MAX_BLOCKS_IN_TRANSIT_PER_PEER \in Nat \ {0}

Threads == {"net", "rpc"}

VARIABLES index, data, failed,    \* mapBlockIndex; with BLOCK_HAVE_DATA; BLOCK_FAILED
          tip,
          life,                   \* of a CNode: new, listed (in vNodes), removed, deleted
          fDisconnect, version,   \* of a CNode; version: its version message was handled
          node,                   \* the CNodeState of a peer
          mapBlocksInFlight,      \* the peer a block is in flight from
          nQueuedValidatedHeaders, nPreferredDownload, nSyncStarted,
          pc                      \* of a thread in ProcessNewBlock

blockVars == <<index, data, failed, tip>>
vars == <<index, data, failed, tip, life, fDisconnect, version, node, mapBlocksInFlight,
          nQueuedValidatedHeaders, nPreferredDownload, nSyncStarted, pc>>

Idle == [at |-> "idle", peer |-> None, block |-> None]

\* CNodeState().
CNodeState == [best |-> None, unknown |-> None, common |-> None, fSyncStarted |-> FALSE,
               stalling |-> FALSE, vBlocksInFlight |-> {}, nBlocksInFlight |-> 0,
               fPreferredDownload |-> FALSE]

Init ==
    /\ index = Loaded /\ data = Stored /\ failed = {}
    /\ tip \in {b \in Stored : \A c \in Stored : nChainWork[c] <= nChainWork[b]}
    /\ life = [p \in Peers |-> "new"]
    /\ fDisconnect = [p \in Peers |-> FALSE] /\ version = [p \in Peers |-> FALSE]
    /\ node = [p \in Peers |-> CNodeState]
    /\ mapBlocksInFlight = [b \in Blocks |-> None]
    /\ nQueuedValidatedHeaders = 0 /\ nPreferredDownload = 0 /\ nSyncStarted = 0
    /\ pc = [t \in Threads |-> Idle]

\* nChainTx: all the transactions up to b are here.
Linked(b) == Ancestors[b] \subseteq data
Ancestor(b, h) == CHOOSE a \in Ancestors[b] : nHeight[a] = h
Highest(S) == CHOOSE b \in S : \A c \in S : nHeight[c] <= nHeight[b]
LastCommonAncestor(a, b) == Highest(Ancestors[a] \cap Ancestors[b])

-----------------------------------------------------------------------------
(* Peers come and go.                                                      *)

\* The message thread is in no handler, so p is its next peer.
Serving(p) == pc["net"] = Idle /\ life[p] = "listed" /\ ~fDisconnect[p]

InitializeNode(p) ==
    /\ life[p] = "new"
    /\ life' = [life EXCEPT ![p] = "listed"]
    /\ UNCHANGED <<blockVars, fDisconnect, version, node, mapBlocksInFlight,
                   nQueuedValidatedHeaders, nPreferredDownload, nSyncStarted, pc>>

\* UpdatePreferredDownload.
Preferred(p) ==
    (~Kind[p].fInbound \/ Kind[p].fWhitelisted) /\ ~Kind[p].fOneShot /\ ~Kind[p].fClient

\* The "version" message, the first of a connection.  DisconnectOldProtocol
\* assigns fDisconnect either way.
Version(p) ==
    /\ Serving(p) /\ ~version[p]
    /\ version' = [version EXCEPT ![p] = TRUE]
    /\ fDisconnect' = [fDisconnect EXCEPT ![p] = Kind[p].obsolete]
    /\ IF Kind[p].obsolete THEN UNCHANGED <<node, nPreferredDownload>>
       ELSE /\ node' = [node EXCEPT ![p].fPreferredDownload = Preferred(p)]
            /\ nPreferredDownload' = nPreferredDownload + (IF Preferred(p) THEN 1 ELSE 0)
    /\ UNCHANGED <<blockVars, life, mapBlocksInFlight, nQueuedValidatedHeaders, nSyncStarted, pc>>

\* CloseSocketDisconnect by another thread: the socket was closed or idle,
\* disconnectnode, setban.
Disconnect(p) ==
    /\ life[p] = "listed" /\ ~fDisconnect[p]
    /\ fDisconnect' = [fDisconnect EXCEPT ![p] = TRUE]
    /\ UNCHANGED <<blockVars, life, version, node, mapBlocksInFlight,
                   nQueuedValidatedHeaders, nPreferredDownload, nSyncStarted, pc>>

\* ThreadSocketHandler takes the node out of vNodes.
RemoveNode(p) ==
    /\ life[p] = "listed" /\ fDisconnect[p]
    /\ life' = [life EXCEPT ![p] = "removed"]
    /\ UNCHANGED <<blockVars, fDisconnect, version, node, mapBlocksInFlight,
                   nQueuedValidatedHeaders, nPreferredDownload, nSyncStarted, pc>>

\* Mutants: the blocks stay in mapBlocksInFlight; a counter is not taken back.
FinalizeNodeForgetful(p) ==
    /\ life[p] = "removed" /\ pc["net"].peer # p
    /\ life' = [life EXCEPT ![p] = "deleted"]
    /\ nSyncStarted' = nSyncStarted - (IF node[p].fSyncStarted THEN 1 ELSE 0)
    /\ nPreferredDownload' = nPreferredDownload - (IF node[p].fPreferredDownload THEN 1 ELSE 0)
    /\ node' = [node EXCEPT ![p] = CNodeState]
    /\ UNCHANGED <<blockVars, fDisconnect, version, mapBlocksInFlight, nQueuedValidatedHeaders, pc>>
FinalizeNodeKeepsSync(p) ==
    /\ life[p] = "removed" /\ pc["net"].peer # p
    /\ life' = [life EXCEPT ![p] = "deleted"]
    /\ nPreferredDownload' = nPreferredDownload - (IF node[p].fPreferredDownload THEN 1 ELSE 0)
    /\ mapBlocksInFlight' =
         [b \in Blocks |-> IF b \in node[p].vBlocksInFlight THEN None ELSE mapBlocksInFlight[b]]
    /\ node' = [node EXCEPT ![p] = CNodeState]
    /\ UNCHANGED <<blockVars, fDisconnect, version, nQueuedValidatedHeaders, nSyncStarted, pc>>

\* The last reference is released and the CNode deleted.  Its blocks in flight
\* stay counted in nQueuedValidatedHeaders for ever.
FinalizeNode(p) ==
    /\ life[p] = "removed" /\ pc["net"].peer # p
    /\ life' = [life EXCEPT ![p] = "deleted"]
    /\ nSyncStarted' = nSyncStarted - (IF node[p].fSyncStarted THEN 1 ELSE 0)
    /\ nPreferredDownload' = nPreferredDownload - (IF node[p].fPreferredDownload THEN 1 ELSE 0)
    /\ mapBlocksInFlight' =
         [b \in Blocks |-> IF b \in node[p].vBlocksInFlight THEN None ELSE mapBlocksInFlight[b]]
    /\ node' = [node EXCEPT ![p] = CNodeState]
    /\ UNCHANGED <<blockVars, fDisconnect, version, nQueuedValidatedHeaders, pc>>

-----------------------------------------------------------------------------
(* Announcements.                                                          *)

\* The announced block b replaces the best one unless it has less work.
BetterKnown(s, b) ==
    IF s.best = None \/ nChainWork[b] >= nChainWork[s.best] THEN [s EXCEPT !.best = b] ELSE s

\* ProcessBlockAvailability, on a CNodeState.
Availability(s) ==
    IF s.unknown \in index THEN [BetterKnown(s, s.unknown) EXCEPT !.unknown = None] ELSE s

\* UpdateBlockAvailability.
Announced(s, b) ==
    IF b \in index THEN BetterKnown(Availability(s), b)
    ELSE [Availability(s) EXCEPT !.unknown = b]

\* An "inv" message; the getdata it sends at once for an unknown block is not
\* recorded anywhere.
Inv(p, b) ==
    /\ Serving(p) /\ version[p]
    /\ node' = [node EXCEPT ![p] = Announced(node[p], b)]
    /\ UNCHANGED <<blockVars, life, fDisconnect, version, mapBlocksInFlight,
                   nQueuedValidatedHeaders, nPreferredDownload, nSyncStarted, pc>>

-----------------------------------------------------------------------------
(* FindNextBlocksToDownload and SendMessages.                              *)

\* The blocks FindNextBlocksToDownload looks at on the way to b: the window
\* beyond the last common block and one more.
Walk(from, b) ==
    {a \in Ancestors[b] : /\ nHeight[from] < nHeight[a]
                          /\ nHeight[a] <= nHeight[from] + BLOCK_DOWNLOAD_WINDOW + 1}

Below(walk, b) == {a \in walk : nHeight[a] < nHeight[b]}

\* Neither here nor requested.
Missing(S) == {b \in S : b \notin data \cup failed /\ mapBlocksInFlight[b] = None}

\* The loop returns at a failed block and with the count-th missing one.
Reached(walk, count) ==
    {b \in walk : /\ failed \cap (Below(walk, b) \cup {b}) = {}
                  /\ Cardinality(Missing(Below(walk, b))) < count}

\* Mutant: the last common block advances over blocks whose ancestors are
\* missing.
FullAnyway(S) == S \cap data

\* The blocks over which the last common block advances.
Full(S) == {b \in S : b \in data /\ Linked(b)}

\* The peer that the first block in flight of the walk was asked of.
Waiting(S) ==
    LET wait == {b \in S \ data : mapBlocksInFlight[b] # None}
    IN  {mapBlocksInFlight[b] : b \in {b \in wait : Below(wait, b) = {}}}

\* FindNextBlocksToDownload: the blocks to ask p for, its last common block
\* and the peer that holds the window up.
FindNext(p, s, count) ==
    LET guess == IF nHeight[s.best] <= nHeight[tip] THEN Ancestor(tip, nHeight[s.best]) ELSE tip
        from == LastCommonAncestor(IF s.common = None THEN guess ELSE s.common, s.best)
        reached == Reached(Walk(from, s.best), count)
        blocks == {b \in Missing(reached) : nHeight[b] <= nHeight[from] + BLOCK_DOWNLOAD_WINDOW}
    IN  IF s.best = None \/ (s.best # None /\ nChainWork[s.best] < nChainWork[tip])
        THEN [common |-> s.common, blocks |-> {}, stallers |-> {}]
        ELSE [common |-> Highest({from} \cup Full(reached)),
              blocks |-> blocks,
              stallers |-> IF blocks = {} /\ Missing(reached) # {} THEN Waiting(reached) \ {p} ELSE {}]

fFetch(p) ==
    node[p].fPreferredDownload \/ (nPreferredDownload = 0 /\ ~Kind[p].fClient /\ ~Kind[p].fOneShot)

\* The peer that nStallingSince is set for, if any.
Stalled(r, s) == IF s.nBlocksInFlight = 0 THEN r.stallers ELSE {}

\* SendMessages to p.  drop: p is banned, or another thread closes its socket
\* meanwhile; recent: the best header is less than 6 hours old; late: the
\* clocks that have run out.
SendMessages(p, drop, recent, late) ==
    LET s0 == node[p]
        start == ~s0.fSyncStarted /\ ~Kind[p].fClient /\ fFetch(p) /\ (nSyncStarted = 0 \/ recent)
        gone == \/ drop
                \/ "stall" \in late /\ s0.stalling
                \/ "block" \in late /\ s0.vBlocksInFlight # {}
        room == MAX_BLOCKS_IN_TRANSIT_PER_PEER - s0.nBlocksInFlight
        s1 == [s0 EXCEPT !.fSyncStarted = @ \/ start]
        s2 == Availability(s1)
        r == FindNext(p, s2, room)
        s3 == [s2 EXCEPT !.common = r.common, !.vBlocksInFlight = @ \cup r.blocks,
                         !.nBlocksInFlight = @ + Cardinality(r.blocks)]
        asks == ~gone /\ ~Kind[p].fClient /\ fFetch(p) /\ room > 0
    IN  /\ Serving(p) /\ version[p]
        /\ nSyncStarted' = nSyncStarted + (IF start THEN 1 ELSE 0)
        /\ fDisconnect' = [fDisconnect EXCEPT ![p] = gone]
        /\ IF asks
           THEN /\ node' = [o \in Peers |->
                              LET s == IF o = p THEN s3 ELSE node[o]
                              IN  IF o \in Stalled(r, s3) THEN [s EXCEPT !.stalling = TRUE] ELSE s]
                /\ mapBlocksInFlight' = [b \in Blocks |-> IF b \in r.blocks THEN p ELSE mapBlocksInFlight[b]]
                /\ nQueuedValidatedHeaders' = nQueuedValidatedHeaders + Cardinality(r.blocks)
           ELSE /\ node' = [node EXCEPT ![p] = s1]
                /\ UNCHANGED <<mapBlocksInFlight, nQueuedValidatedHeaders>>
        /\ UNCHANGED <<blockVars, life, version, nPreferredDownload, pc>>

-----------------------------------------------------------------------------
(* Blocks.                                                                 *)

\* A "block" message.  A hash that is in the index is not processed, data or
\* not; neither is a block without its parent (getblocks is sent instead).
BlockMessage(p, b) ==
    /\ Serving(p) /\ version[p] /\ b # Genesis
    /\ pc' = IF Parent[b] \in index /\ b \notin index
             THEN [pc EXCEPT !["net"] = [at |-> "process", peer |-> p, block |-> b]] ELSE pc
    /\ UNCHANGED <<blockVars, life, fDisconnect, version, node, mapBlocksInFlight,
                   nQueuedValidatedHeaders, nPreferredDownload, nSyncStarted>>

\* submitblock.  A block of the active chain is a duplicate.
SubmitBlock(b) ==
    /\ pc["rpc"] = Idle
    /\ b \notin failed \cup Ancestors[tip]
    /\ pc' = [pc EXCEPT !["rpc"] = [at |-> "process", peer |-> None, block |-> b]]
    /\ UNCHANGED <<blockVars, life, fDisconnect, version, node, mapBlocksInFlight,
                   nQueuedValidatedHeaders, nPreferredDownload, nSyncStarted>>

\* Mutant: the stalling clock runs on.
ReceivedStillStalling(b) ==
    LET q == mapBlocksInFlight[b]
    IN  IF q = None THEN UNCHANGED <<mapBlocksInFlight, nQueuedValidatedHeaders, node>>
        ELSE /\ mapBlocksInFlight' = [mapBlocksInFlight EXCEPT ![b] = None]
             /\ nQueuedValidatedHeaders' = nQueuedValidatedHeaders - 1
             /\ node' = [node EXCEPT ![q].vBlocksInFlight = @ \ {b}, ![q].nBlocksInFlight = @ - 1]

MarkBlockAsReceived(b) ==
    LET q == mapBlocksInFlight[b]
    IN  IF q = None THEN UNCHANGED <<mapBlocksInFlight, nQueuedValidatedHeaders, node>>
        ELSE /\ mapBlocksInFlight' = [mapBlocksInFlight EXCEPT ![b] = None]
             /\ nQueuedValidatedHeaders' = nQueuedValidatedHeaders - 1
             /\ node' = [node EXCEPT ![q].vBlocksInFlight = @ \ {b}, ![q].nBlocksInFlight = @ - 1,
                                     ![q].stalling = FALSE]

\* The checks of AcceptBlock on a proof of stake block whose parent is not in
\* the active chain: it reads every block down to the fork.
ForkRefused(b) ==
    /\ b \in ProofOfStake /\ Parent[b] \notin Ancestors[tip]
    /\ ~Linked(Parent[b]) \/ b \in Refused

\* Mutant: the block is stored although ContextualCheckBlock failed.
AcceptBlockAnyway(b) ==
    /\ UNCHANGED tip
    /\ IF Parent[b] \notin index \/ Parent[b] \in failed \/ b \in data \cup failed
       THEN UNCHANGED <<index, data, failed>>
       ELSE /\ index' = index \cup {b}
            /\ failed' = IF b \in Bad THEN failed \cup {b} ELSE failed
            /\ data' = IF ForkRefused(b) THEN data ELSE data \cup {b}

\* AcceptBlock.  A block that fails after AcceptBlockHeader leaves its header
\* in the index.
AcceptBlock(b) ==
    /\ UNCHANGED tip
    /\ IF Parent[b] \notin index \/ Parent[b] \in failed \/ b \in data \cup failed
       THEN UNCHANGED <<index, data, failed>>
       ELSE /\ index' = index \cup {b}
            /\ failed' = IF b \in Bad THEN failed \cup {b} ELSE failed
            /\ data' = IF b \in Bad \/ ForkRefused(b) THEN data ELSE data \cup {b}

\* The end of the "block" handler: DisconnectOldProtocol on the peer, once
\* the call has returned to it.
Returned(t) ==
    /\ pc' = [pc EXCEPT ![t] = Idle]
    /\ fDisconnect' = IF t = "net" THEN [fDisconnect EXCEPT ![pc[t].peer] = Kind[pc[t].peer].obsolete]
                      ELSE fDisconnect

\* ProcessNewBlock up to the release of cs_main.  checked: CheckBlock, which
\* a body that does not belong to the header fails.
ProcessNewBlock(t, checked) ==
    LET b == pc[t].block
    IN  /\ pc[t].at = "process"
        /\ MarkBlockAsReceived(b)
        /\ IF checked THEN AcceptBlock(b) ELSE UNCHANGED blockVars
        /\ IF checked /\ b \in data'
           THEN pc' = [pc EXCEPT ![t].at = "activate"] /\ UNCHANGED fDisconnect
           ELSE Returned(t)
        /\ UNCHANGED <<life, version, nPreferredDownload, nSyncStarted>>

\* ActivateBestChain: a block with more work than the tip and all of its
\* ancestors.
ActivateBestChain(t) ==
    LET better == {b \in data : Linked(b) /\ nChainWork[b] > nChainWork[tip]}
    IN  /\ pc[t].at = "activate"
        /\ IF better = {} THEN tip' = tip
           ELSE \E b \in better : (\A c \in better : nChainWork[c] <= nChainWork[b]) /\ tip' = b
        /\ Returned(t)
        /\ UNCHANGED <<index, data, failed, life, version, node, mapBlocksInFlight,
                       nQueuedValidatedHeaders, nPreferredDownload, nSyncStarted>>

-----------------------------------------------------------------------------
Next ==
    \/ \E p \in Peers :
          \/ InitializeNode(p) \/ Version(p) \/ Disconnect(p) \/ RemoveNode(p) \/ FinalizeNode(p)
          \/ \E drop, recent \in BOOLEAN, late \in SUBSET {"stall", "block"} :
                SendMessages(p, drop, recent, late)
          \/ \E b \in Offers[p] : Inv(p, b) \/ BlockMessage(p, b)
    \/ \E b \in Submits : SubmitBlock(b)
    \/ \E t \in Threads :
          (\E checked \in BOOLEAN : ProcessNewBlock(t, checked)) \/ ActivateBestChain(t)

Spec == Init /\ [][Next]_vars

-----------------------------------------------------------------------------
NodeStates ==
    [best : Blocks \cup {None}, unknown : Blocks \cup {None}, common : Blocks \cup {None},
     fSyncStarted : BOOLEAN, stalling : BOOLEAN, vBlocksInFlight : SUBSET Blocks,
     nBlocksInFlight : 0 .. MAX_BLOCKS_IN_TRANSIT_PER_PEER, fPreferredDownload : BOOLEAN]

TypeOK ==
    /\ index \subseteq Blocks /\ data \subseteq index /\ failed \subseteq index \ data /\ tip \in data
    /\ life \in [Peers -> {"new", "listed", "removed", "deleted"}]
    /\ fDisconnect \in [Peers -> BOOLEAN] /\ version \in [Peers -> BOOLEAN]
    /\ node \in [Peers -> NodeStates]
    /\ \A p \in Peers : {node[p].best, node[p].common} \subseteq index \cup {None}
    /\ mapBlocksInFlight \in [Blocks -> Peers \cup {None}]
    /\ {nPreferredDownload, nSyncStarted, nQueuedValidatedHeaders} \subseteq Nat
    /\ pc \in [Threads -> [at : {"idle", "process", "activate"}, peer : Peers \cup {None},
                            block : Blocks \cup {None}]]

(* MarkBlockAsReceived and SendMessages follow the NodeId and the iterator *)
(* of mapBlocksInFlight without a test: its entries and the lists of the   *)
(* peers that exist are the same at every moment, nBlocksInFlight is their *)
(* length, and no thread stores a block that is still requested.           *)
InFlightConsistent ==
    /\ \A b \in Blocks, p \in Peers : mapBlocksInFlight[b] = p <=> b \in node[p].vBlocksInFlight
    /\ \A p \in Peers : /\ node[p].nBlocksInFlight = Cardinality(node[p].vBlocksInFlight)
                        /\ node[p].vBlocksInFlight # {} => life[p] \in {"listed", "removed"}
    /\ \A b \in Blocks : mapBlocksInFlight[b] # None => b \in index \ (data \cup failed)

PreferredPeers == {p \in Peers : node[p].fPreferredDownload}
SyncingPeers == {p \in Peers : node[p].fSyncStarted}

(* nPreferredDownload and nSyncStarted count the peers that exist: when    *)
(* the last one that is syncing goes, another may start (SendMessages),    *)
(* and when the last preferred one goes, the others are fetched from.      *)
(* Nothing of the kind holds of nQueuedValidatedHeaders: FinalizeNode      *)
(* leaves the blocks in flight of a peer in it.                            *)
PeerCountersExact ==
    /\ nPreferredDownload = Cardinality(PreferredPeers)
    /\ nSyncStarted = Cardinality(SyncingPeers)

(* "The last full block we both have" (main.cpp:321): every ancestor of    *)
(* pindexLastCommonBlock is stored.                                        *)
LastCommonIsFull ==
    \A p \in Peers : node[p].common # None => Linked(node[p].common)

(* The stalling clock only runs for a peer that owes a block.              *)
StallerOwes ==
    \A p \in Peers : node[p].stalling => node[p].vBlocksInFlight # {}

=============================================================================
