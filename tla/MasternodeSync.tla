--------------------------- MODULE MasternodeSync ---------------------------
(***************************************************************************)
(* CMasternodeSync (masternode-sync.cpp): a node asks its peers, one every *)
(* few seconds, for sporks, the masternode list, the payment winners and   *)
(* the budget, and moves from one asset to the next when answers stop      *)
(* coming.  Spork 8 decides whether silence is a failure.                  *)
(*                                                                         *)
(* Three threads touch this state without a lock: the masternode thread in *)
(* Process, the message thread (Added..., IsBlockchainSynced) and RPC      *)
(* (mnsync reset, IsBlockchainSynced).  Process is three stretches: the    *)
(* head, the loop up to a decision, and the act on it.                     *)
(*                                                                         *)
(* A time is kept as what the code can tell of it: whether an item came    *)
(* within MASTERNODE_SYNC_TIMEOUT * 2, whether the asset is older than     *)
(* MASTERNODE_SYNC_TIMEOUT * 5, the failure than a minute, the last call   *)
(* of IsBlockchainSynced than an hour; time passing flips these.  An item  *)
(* may always be one that was not yet seen twice, so mapSeenSync... is     *)
(* left out, and with it the counts of "ssc", which only GUI and budget    *)
(* read, the messages that are sent, and the shorter way of regtest.       *)
(***************************************************************************)
EXTENDS Spork

CONSTANTS Peers,
          Current,     \* the peers with a recent enough protocol version
          MASTERNODE_SYNC_THRESHOLD,
          SPORK_8_MASTERNODE_PAYMENT_ENFORCEMENT

ASSUME SyncAssumption ==
    /\ Current \subseteq Peers
    /\ MASTERNODE_SYNC_THRESHOLD \in Nat \ {0}
    /\ SPORK_8_MASTERNODE_PAYMENT_ENFORCEMENT \in SporkIDs

Assets == {"INITIAL", "SPORKS", "LIST", "MNW", "BUDGET", "FAILED", "FINISHED"}
Asked == {"LIST", "MNW", "BUDGET"}

VARIABLES sync,        \* the members of CMasternodeSync
          fulfilled,   \* the peers marked as asked for the current asset
          process      \* where Process is: tick, loop, or a decision to act on

syncVars == <<sync, fulfilled, process>>
vars == <<sporkVars, syncVars>>

\* Reset, which also the constructor calls.
ResetState ==
    [asset |-> "INITIAL", attempt |-> 0,
     last |-> [a \in Asked |-> "never"],   \* lastMasternodeList, -Winner, lastBudgetItem
     late |-> FALSE,                       \* nAssetSyncStarted
     retry |-> FALSE,                      \* lastFailure
     fBlockchainSynced |-> FALSE,
     stale |-> TRUE]                       \* lastProcess

Init ==
    /\ SporkInit
    /\ sync = ResetState
    /\ fulfilled = {}
    /\ process = "tick"

\* Mutant: a case of the switch is missing.
NextAssetNoWinner(a) ==
    CASE a \in {"INITIAL", "FAILED"} -> "SPORKS"
      [] a = "SPORKS" -> "LIST"
      [] a = "LIST" -> "MNW"
      [] a = "BUDGET" -> "FINISHED"
      [] OTHER -> a

\* The switch of GetNextAsset.
NextAsset(a) ==
    CASE a \in {"INITIAL", "FAILED"} -> "SPORKS"
      [] a = "SPORKS" -> "LIST"
      [] a = "LIST" -> "MNW"
      [] a = "MNW" -> "BUDGET"
      [] a = "BUDGET" -> "FINISHED"
      [] OTHER -> a

GetNextAsset(s) == [s EXCEPT !.asset = NextAsset(@), !.attempt = 0, !.late = FALSE]

\* The marks for the next asset.  ClearFulfilledRequest takes the marks of an
\* earlier round off, unless cs_vNodes is taken: then any may be left.
NextFulfilled == fulfilled' \in SUBSET Peers

\* Mutant: after an hour without a call only the sync starts again.
IsBlockchainSyncedKept(s, recent) ==
    LET r == IF s.stale THEN [ResetState EXCEPT !.asset = s.asset] ELSE s
    IN  [r EXCEPT !.stale = FALSE, !.fBlockchainSynced = @ \/ recent]

\* IsBlockchainSynced: the state after it; recent says that cs_main was free
\* and the tip is recent.
IsBlockchainSynced(s, recent) ==
    LET r == IF s.stale THEN ResetState ELSE s
    IN  [r EXCEPT !.stale = FALSE, !.fBlockchainSynced = @ \/ recent]

-----------------------------------------------------------------------------
(* The masternode thread: Process, on the ticks that are not skipped.      *)

\* Up to the loop.  enabled says that some masternode is enabled.
ProcessHead ==
    /\ process = "tick"
    /\ \E enabled, recent \in BOOLEAN :
        LET again == \/ sync.asset = "FINISHED" /\ ~enabled
                     \/ sync.asset = "FAILED" /\ sync.retry
            s0 == IF again THEN ResetState ELSE sync
            s1 == IF s0.asset = "INITIAL" THEN GetNextAsset(s0) ELSE s0
            s2 == IsBlockchainSynced(s1, recent)
            waits == ~s2.fBlockchainSynced /\ s2.asset \notin {"INITIAL", "SPORKS"}
        IN  /\ s0.asset \notin {"FINISHED", "FAILED"}
            /\ sync' = s2
            /\ IF s0.asset = "INITIAL" THEN NextFulfilled ELSE UNCHANGED fulfilled
            /\ process' = IF waits THEN "tick" ELSE "loop"
    /\ UNCHANGED sporkVars

\* cs_vNodes is taken, or no peer is there to ask.
ProcessSkips ==
    /\ process = "loop"
    /\ process' = "tick"
    /\ UNCHANGED <<sporkVars, sync, fulfilled>>

Fresh(p) == p \notin fulfilled
Fulfil(p) == fulfilled' = fulfilled \cup {p}

\* No item came for a while, or none came at all.
MoveOn == sync.last[sync.asset] = "quiet" /\ sync.attempt >= MASTERNODE_SYNC_THRESHOLD
TimedOut ==
    /\ sync.last[sync.asset] = "never"
    /\ sync.attempt >= MASTERNODE_SYNC_THRESHOLD * 3 \/ sync.late

\* The request is sent, unless enough were.
Ask(p) ==
    /\ Fulfil(p)
    /\ process' = "tick"
    /\ sync' = IF sync.attempt < MASTERNODE_SYNC_THRESHOLD * 3
               THEN [sync EXCEPT !.attempt = @ + 1] ELSE sync

\* After the third peer the sporks are taken for complete; the attempt is
\* counted for the next asset.
AskSporks(p) ==
    /\ sync.asset = "SPORKS" /\ Fresh(p)
    /\ Fulfil(p)
    /\ IF sync.attempt >= 2
       THEN process' = "next and count" /\ UNCHANGED sync
       ELSE process' = "tick" /\ sync' = [sync EXCEPT !.attempt = @ + 1]

\* The branches of LIST and MNW, which look at silence only with a fresh peer.
AskList(p) ==
    /\ sync.asset \in {"LIST", "MNW"} /\ p \in Current
    /\ \/ MoveOn /\ process' = "next" /\ UNCHANGED <<sync, fulfilled>>
       \/ ~MoveOn /\ Fresh(p) /\ ~TimedOut /\ Ask(p)
       \/ /\ ~MoveOn /\ Fresh(p) /\ TimedOut
          /\ Fulfil(p)
          /\ process' = IF IsSporkActive(SPORK_8_MASTERNODE_PAYMENT_ENFORCEMENT) THEN "fail" ELSE "next"
          /\ UNCHANGED sync

AskBudget(p) ==
    /\ sync.asset = "BUDGET" /\ p \in Current
    /\ \/ (MoveOn \/ TimedOut) /\ process' = "next" /\ UNCHANGED <<sync, fulfilled>>
       \/ ~MoveOn /\ ~TimedOut /\ Fresh(p) /\ Ask(p)

\* The loop up to the first peer it does not pass over.
ProcessLoop(p) ==
    /\ process = "loop"
    /\ AskSporks(p) \/ AskList(p) \/ AskBudget(p)
    /\ UNCHANGED sporkVars

\* The decision takes effect on what the state is by now.
ProcessActs ==
    /\ process \in {"next", "next and count", "fail"}
    /\ sync' = CASE process = "next" -> GetNextAsset(sync)
                 [] process = "next and count" -> [GetNextAsset(sync) EXCEPT !.attempt = @ + 1]
                 [] OTHER -> [sync EXCEPT !.asset = "FAILED", !.attempt = 0, !.retry = FALSE]
    /\ IF process = "fail" THEN UNCHANGED fulfilled ELSE NextFulfilled
    /\ process' = "tick"
    /\ UNCHANGED sporkVars

-----------------------------------------------------------------------------
(* Other threads, peers and time.                                          *)

\* AddedMasternodeList, AddedMasternodeWinner, AddedBudgetItem.
Added(a) ==
    /\ sync' = [sync EXCEPT !.last[a] = "recent"]
    /\ UNCHANGED <<sporkVars, fulfilled, process>>

\* IsBlockchainSynced from the message thread or RPC.
CallIsBlockchainSynced ==
    /\ \E recent \in BOOLEAN : sync' = IsBlockchainSynced(sync, recent)
    /\ UNCHANGED <<sporkVars, fulfilled, process>>

\* mnsync reset.
RpcReset ==
    /\ sync' = ResetState
    /\ UNCHANGED <<sporkVars, fulfilled, process>>

\* A connection has ended and another peer has filled the slot, which need not
\* happen: ThreadOpenConnections replaces no peer that stays.
NewPeer(p) ==
    /\ p \in fulfilled
    /\ fulfilled' = fulfilled \ {p}
    /\ UNCHANGED <<sporkVars, sync, process>>

ItemsStop(a) ==
    /\ sync.last[a] = "recent"
    /\ sync' = [sync EXCEPT !.last[a] = "quiet"]
    /\ UNCHANGED <<sporkVars, fulfilled, process>>

AssetGetsLate ==
    /\ sync.asset \in Asked /\ ~sync.late
    /\ sync' = [sync EXCEPT !.late = TRUE]
    /\ UNCHANGED <<sporkVars, fulfilled, process>>

MinuteAfterFailure ==
    /\ sync.asset = "FAILED" /\ ~sync.retry
    /\ sync' = [sync EXCEPT !.retry = TRUE]
    /\ UNCHANGED <<sporkVars, fulfilled, process>>

\* The machine sleeps for more than an hour.
Sleeps ==
    /\ ~sync.stale
    /\ sync' = [sync EXCEPT !.stale = TRUE]
    /\ UNCHANGED <<sporkVars, fulfilled, process>>

Restart ==
    /\ LoadSporksFromDB
    /\ sync' = ResetState
    /\ fulfilled' = {}
    /\ process' = "tick"

-----------------------------------------------------------------------------
Next ==
    \/ SporkStep /\ UNCHANGED syncVars
    \/ ProcessHead
    \/ ProcessSkips
    \/ \E p \in Peers : ProcessLoop(p) \/ NewPeer(p)
    \/ ProcessActs
    \/ \E a \in Asked : Added(a) \/ ItemsStop(a)
    \/ CallIsBlockchainSynced
    \/ RpcReset
    \/ AssetGetsLate
    \/ MinuteAfterFailure
    \/ Sleeps
    \/ Restart

\* The masternode thread runs every second and gets cs_vNodes again and again;
\* time passes.  Peers need not come or go.
Fairness ==
    /\ WF_vars(ProcessHead) /\ WF_vars(ProcessSkips) /\ WF_vars(ProcessActs)
    /\ SF_vars(\E p \in Peers : ProcessLoop(p))
    /\ \A a \in Asked : WF_vars(ItemsStop(a))
    /\ WF_vars(AssetGetsLate) /\ WF_vars(MinuteAfterFailure)

Spec == Init /\ [][Next]_vars /\ Fairness

-----------------------------------------------------------------------------
(* The node takes the masternode list, the winners or the budget for       *)
(* synchronised only on a chain that was found recent, although Reset may  *)
(* come from other threads, after a sleep of an hour or from RPC, between  *)
(* the decision of Process and its effect (masternode-sync.cpp:287).       *)
SyncedOnRecentChain ==
    sync.asset \in {"MNW", "BUDGET", "FINISHED"} => sync.fBlockchainSynced

\* Process passes over every peer: each one was asked, and what came or did
\* not come in the meantime is not enough for the tests made before that one.
PassesAll ==
    CASE sync.asset = "SPORKS" -> Peers \subseteq fulfilled
      [] sync.asset \in {"LIST", "MNW"} -> Current \subseteq fulfilled /\ ~MoveOn
      [] sync.asset = "BUDGET" -> Current \subseteq fulfilled /\ ~MoveOn /\ ~TimedOut
      [] OTHER -> FALSE

(* Process does not stay in one asset for ever, unless the node is reset   *)
(* again and again, the chain is not recent, new items of the asset never  *)
(* stop coming, or every peer was asked and none leaves: then the sporks   *)
(* wait for a third peer, list and winners also for an item, however long  *)
(* ago they started (masternode-sync.cpp:331), the budget only when an     *)
(* item came and too few peers were asked.  With a new peer now and then   *)
(* each asset ends, and the node comes back from a failure (line 276).     *)
NoAssetForever ==
    \A a \in Assets \ {"FINISHED"} :
        <>[](sync.asset = a) =>
            \/ []<>sync.stale
            \/ a \in Asked /\ (<>[]~sync.fBlockchainSynced \/ []<>(sync.last[a] = "recent"))
            \/ <>[]PassesAll

=============================================================================
