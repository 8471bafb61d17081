------------------------ MODULE MasternodeSyncProofs ------------------------
(***************************************************************************)
(* SporkNeverOlder of the sporks alone and, since every step of            *)
(* MasternodeSync is one of Spork or leaves the sporks alone, of the two   *)
(* together; SyncedOnRecentChain for any peers, sporks and threshold.      *)
(***************************************************************************)
EXTENDS MasternodeSync, TLAPS

-----------------------------------------------------------------------------
(* Sporks.                                                                 *)

(* What the values are; a message is being handled unless the thread waits. *)
SporkType ==
    /\ mapSporksActive \in [SporkIDs -> Sporks \cup {None}]
    /\ pSporkDB \in [SporkIDs -> Sporks \cup {None}]
    /\ handler \in [at : {"waiting", "assign", "write"}, spork : Sporks \cup {None}]
    /\ handler.at # "waiting" => handler.spork \in Sporks
    /\ fMasterKey \in BOOLEAN

(* Without the key the test of ProcessSpork still holds at the assignment, *)
(* since no other thread changes the active sporks.                        *)
StillNewer == ~fMasterKey /\ handler.at = "assign" => Newer(handler.spork)

(* Without the key the database is at most the message at hand behind.     *)
Written ==
    ~fMasterKey =>
        \A id \in SporkIDs :
            pSporkDB[id] = mapSporksActive[id]
                \/ (handler.at = "write" /\ id = handler.spork.nSporkID)

WrittenValue ==
    ~fMasterKey /\ handler.at = "write" => mapSporksActive[handler.spork.nSporkID] = handler.spork

SporkInv == SporkType /\ StillNewer /\ Written /\ WrittenValue

\* The sporks start with an empty database.
LEMMA SporkInitInv == SporkInit => SporkInv
  BY DEF SporkInit, SporkInv, SporkType, StillNewer, Written, WrittenValue, Waiting

\* The fields of a message.
LEMMA SporkFields ==
  ASSUME NEW m \in Sporks
  PROVE  m.nSporkID \in SporkIDs /\ m.nTimeSigned \in Nat /\ m # None
  BY SporkAssumption

\* A message that passed the tests of ProcessSpork is newer.
LEMMA ReceiveInv ==
  ASSUME SporkInv, NEW m \in Sporks, Receive(m)
  PROVE  SporkInv'
  <1>1. m.nSporkID \in SporkIDs
    BY SporkFields
  <1>2. /\ handler' = [at |-> "assign", spork |-> m]
        /\ Newer(m)
        /\ handler.at = "waiting"
        /\ UNCHANGED <<mapSporksActive, pSporkDB, fMasterKey>>
    BY DEF Receive, Waiting
  <1>3. SporkType'
    BY <1>2 DEF SporkInv, SporkType
  <1>4. StillNewer' /\ Written' /\ WrittenValue'
    BY <1>2 DEF SporkInv, StillNewer, Written, WrittenValue, Newer
  <1> QED
    BY <1>3, <1>4 DEF SporkInv

\* The assignment leaves one spork to be written.
LEMMA AssignInv ==
  ASSUME SporkInv, Assign
  PROVE  SporkInv'
  <1> DEFINE m == handler.spork
  <1>1. m \in Sporks /\ m.nSporkID \in SporkIDs
    BY SporkFields DEF Assign, SporkInv, SporkType
  <1>2. /\ mapSporksActive' = [mapSporksActive EXCEPT ![m.nSporkID] = m]
        /\ handler' = [handler EXCEPT !.at = "write"]
        /\ handler.at = "assign"
        /\ UNCHANGED <<pSporkDB, fMasterKey>>
    BY DEF Assign
  <1>3. handler'.at = "write" /\ handler'.spork = m
    BY <1>2 DEF SporkInv, SporkType
  <1>4. SporkType'
    BY <1>1, <1>2, <1>3 DEF SporkInv, SporkType
  <1>5. StillNewer' /\ Written' /\ WrittenValue'
    BY <1>1, <1>2, <1>3 DEF SporkInv, SporkType, StillNewer, Written, WrittenValue
  <1> QED
    BY <1>4, <1>5 DEF SporkInv

\* The write brings the database up to date.
LEMMA WriteInv ==
  ASSUME SporkInv, WriteSpork
  PROVE  SporkInv'
  <1> DEFINE m == handler.spork
  <1>1. m \in Sporks /\ m.nSporkID \in SporkIDs
    BY SporkFields DEF WriteSpork, SporkInv, SporkType
  <1>2. /\ pSporkDB' = [pSporkDB EXCEPT ![m.nSporkID] = m]
        /\ handler' = [at |-> "waiting", spork |-> None]
        /\ handler.at = "write"
        /\ UNCHANGED <<mapSporksActive, fMasterKey>>
    BY DEF WriteSpork, Waiting
  <1>3. SporkType'
    BY <1>1, <1>2 DEF SporkInv, SporkType
  <1>4. StillNewer' /\ Written' /\ WrittenValue'
    BY <1>1, <1>2 DEF SporkInv, SporkType, StillNewer, Written, WrittenValue
  <1> QED
    BY <1>3, <1>4 DEF SporkInv

\* Every step keeps the invariant.
LEMMA SporkNextInv ==
  ASSUME SporkInv, [SporkStep \/ LoadSporksFromDB]_sporkVars
  PROVE  SporkInv'
  <1>1. ASSUME NEW m \in Sporks, Receive(m) PROVE SporkInv'
    BY <1>1, ReceiveInv
  <1>2. ASSUME NEW m \in Sporks, UpdateSpork(m) PROVE SporkInv'
    <2>1. m.nSporkID \in SporkIDs
      BY SporkFields
    <2> QED
      BY <1>2, <2>1 DEF UpdateSpork, SporkInv, SporkType, StillNewer, Written, WrittenValue
  <1>3. CASE Assign
    BY <1>3, AssignInv
  <1>4. CASE WriteSpork
    BY <1>4, WriteInv
  <1>5. CASE LoadSporksFromDB
    BY <1>5 DEF LoadSporksFromDB, SporkInv, SporkType, StillNewer, Written, WrittenValue, Waiting
  <1>6. CASE UNCHANGED sporkVars
    BY <1>6 DEF sporkVars, SporkInv, SporkType, StillNewer, Written, WrittenValue, Newer
  <1> QED
    BY <1>1, <1>2, <1>3, <1>4, <1>5, <1>6 DEF SporkStep

\* What a step does to the time of an active spork.
LEMMA StepNotOlder ==
  ASSUME SporkInv, [SporkStep \/ LoadSporksFromDB]_sporkVars, ~fMasterKey, handler.at # "write",
         NEW id \in SporkIDs
  PROVE  TimeSigned(mapSporksActive[id]) <= TimeSigned(mapSporksActive'[id])
  <1>1. mapSporksActive[id] \in Sporks \cup {None}
    BY DEF SporkInv, SporkType
  <1>2. TimeSigned(mapSporksActive[id]) \in Int
    BY <1>1, SporkFields DEF TimeSigned
  <1>3. CASE mapSporksActive'[id] = mapSporksActive[id]
    BY <1>2, <1>3
  <1>4. CASE LoadSporksFromDB
    <2>1. mapSporksActive'[id] = mapSporksActive[id]
      BY <1>4 DEF LoadSporksFromDB, SporkInv, Written
    <2> QED
      BY <2>1, <1>3
  <1>5. CASE Assign /\ id = handler.spork.nSporkID
    <2> DEFINE m == handler.spork
    <2>1. m \in Sporks /\ m # None /\ m.nTimeSigned \in Nat /\ Newer(m)
      BY <1>5, SporkFields DEF Assign, SporkInv, SporkType, StillNewer
    <2>2. mapSporksActive'[id] = m
      BY <1>5 DEF Assign, SporkInv, SporkType
    <2>3. mapSporksActive[id] # None =>
            mapSporksActive[id].nTimeSigned \in Nat /\ mapSporksActive[id].nTimeSigned < m.nTimeSigned
      BY <1>1, <1>5, <2>1, SporkFields DEF Newer
    <2>4. TimeSigned(mapSporksActive'[id]) = m.nTimeSigned
      BY <2>1, <2>2 DEF TimeSigned
    <2> QED
      BY <2>1, <2>3, <2>4 DEF TimeSigned
  <1>6. CASE Assign /\ id # handler.spork.nSporkID
    <2>1. mapSporksActive'[id] = mapSporksActive[id]
      BY <1>6 DEF Assign, SporkInv, SporkType
    <2> QED
      BY <2>1, <1>3
  <1>7. ASSUME ~LoadSporksFromDB, ~Assign
        PROVE  mapSporksActive' = mapSporksActive
    BY <1>7 DEF SporkStep, Receive, UpdateSpork, WriteSpork, sporkVars
  <1> QED
    BY <1>3, <1>4, <1>5, <1>6, <1>7

\* The invariant holds in every behaviour of the sporks.
THEOREM SporkInvHolds == SporkSpec => []SporkInv
  <1>1. SporkInit => SporkInv
    BY SporkInitInv
  <1>2. SporkInv /\ [SporkStep \/ LoadSporksFromDB]_sporkVars => SporkInv'
    BY SporkNextInv
  <1> QED
    BY <1>1, <1>2, PTL DEF SporkSpec

\* On a node without the key no active spork gets older, for any sporks,
\* messages and clock, in any order of messages and with kills anywhere but
\* between the assignment and the write (ProcessSpork, LoadSporksFromDB).
THEOREM SporkNeverOlderHolds == SporkSpec => SporkNeverOlder
  <1>1. SporkInv /\ [SporkStep \/ LoadSporksFromDB]_sporkVars =>
          [~fMasterKey /\ handler.at # "write" =>
             \A id \in SporkIDs :
               TimeSigned(mapSporksActive[id]) <= TimeSigned(mapSporksActive'[id])]_sporkVars
    BY StepNotOlder
  <1> QED
    BY <1>1, SporkInvHolds, PTL DEF SporkSpec, SporkNeverOlder

\* The synchronisation reads the sporks and never writes them: with Process,
\* resets and RPC beside them, they behave as CSporkManager alone does.
THEOREM SyncKeepsSporks == Spec => SporkSpec
  <1>1. Init => SporkInit
    BY DEF Init
  <1>2. [Next]_vars => [SporkStep \/ LoadSporksFromDB]_sporkVars
    <2> SUFFICES ASSUME [Next]_vars PROVE [SporkStep \/ LoadSporksFromDB]_sporkVars
      OBVIOUS
    <2>1. ASSUME NEW p \in Peers, ProcessLoop(p) \/ NewPeer(p) PROVE UNCHANGED sporkVars
      BY <2>1 DEF ProcessLoop, NewPeer
    <2>2. ASSUME NEW a \in Asked, Added(a) \/ ItemsStop(a) PROVE UNCHANGED sporkVars
      BY <2>2 DEF Added, ItemsStop
    <2>3. CASE ProcessHead \/ ProcessSkips \/ ProcessActs
      BY <2>3 DEF ProcessHead, ProcessSkips, ProcessActs
    <2>4. CASE CallIsBlockchainSynced \/ RpcReset \/ AssetGetsLate \/ MinuteAfterFailure \/ Sleeps
      BY <2>4 DEF CallIsBlockchainSynced, RpcReset, AssetGetsLate, MinuteAfterFailure, Sleeps
    <2>5. CASE Restart
      BY <2>5 DEF Restart
    <2>6. CASE UNCHANGED vars
      BY <2>6 DEF vars
    <2> QED
      BY <2>1, <2>2, <2>3, <2>4, <2>5, <2>6 DEF Next
  <1> QED
    BY <1>1, <1>2, PTL DEF Spec, SporkSpec

\* On a node without the key no active spork gets older, while the masternode
\* synchronisation runs beside the message thread.
THEOREM SporkNeverOlderInSync == Spec => SporkNeverOlder
  BY SyncKeepsSporks, SporkNeverOlderHolds, PTL

-----------------------------------------------------------------------------
(* Synchronisation.                                                        *)

(* The members of CMasternodeSync, and where Process is.                   *)
SyncType ==
    /\ sync \in [asset : Assets, attempt : Nat, last : [Asked -> {"never", "recent", "quiet"}],
                 late : BOOLEAN, retry : BOOLEAN, fBlockchainSynced : BOOLEAN, stale : BOOLEAN]
    /\ process \in {"tick", "loop", "next", "next and count", "fail"}

(* Beyond the test of Process only a reset can make the chain doubtful,    *)
(* and that starts the assets again.                                       *)
Passed ==
    process \in {"loop", "next"} /\ sync.asset \notin {"INITIAL", "SPORKS", "FAILED"}
        => sync.fBlockchainSynced

(* The decision to leave the sporks meets the sporks or a reset.           *)
LeavesSporks == process = "next and count" => sync.asset \in {"INITIAL", "SPORKS"}

SyncInv == SyncType /\ SyncedOnRecentChain /\ Passed /\ LeavesSporks

\* The state of a reset.
LEMMA ResetType ==
  /\ ResetState \in [asset : Assets, attempt : Nat, last : [Asked -> {"never", "recent", "quiet"}],
                     late : BOOLEAN, retry : BOOLEAN, fBlockchainSynced : BOOLEAN, stale : BOOLEAN]
  /\ ResetState.asset = "INITIAL"
  BY DEF ResetState, Assets, Asked

\* The switch of GetNextAsset stays among the assets.
LEMMA NextAssetType ==
  ASSUME NEW a \in Assets
  PROVE  /\ NextAsset(a) \in Assets
         /\ NextAsset(a) \in {"MNW", "BUDGET", "FINISHED"} => a \in {"LIST", "MNW", "BUDGET", "FINISHED"}
         /\ a \in {"INITIAL", "SPORKS"} => NextAsset(a) \in {"SPORKS", "LIST"}
  BY DEF NextAsset, Assets

\* GetNextAsset changes the asset and restarts its clocks.
LEMMA GetNextAssetType ==
  ASSUME NEW s \in [asset : Assets, attempt : Nat, last : [Asked -> {"never", "recent", "quiet"}],
                    late : BOOLEAN, retry : BOOLEAN, fBlockchainSynced : BOOLEAN, stale : BOOLEAN]
  PROVE  /\ GetNextAsset(s) \in
              [asset : Assets, attempt : Nat, last : [Asked -> {"never", "recent", "quiet"}],
               late : BOOLEAN, retry : BOOLEAN, fBlockchainSynced : BOOLEAN, stale : BOOLEAN]
         /\ GetNextAsset(s).asset = NextAsset(s.asset)
         /\ GetNextAsset(s).fBlockchainSynced = s.fBlockchainSynced
         /\ GetNextAsset(s).attempt = 0
  BY NextAssetType DEF GetNextAsset

\* Counting an attempt changes nothing else.
LEMMA CountedType ==
  ASSUME NEW s \in [asset : Assets, attempt : Nat, last : [Asked -> {"never", "recent", "quiet"}],
                    late : BOOLEAN, retry : BOOLEAN, fBlockchainSynced : BOOLEAN, stale : BOOLEAN]
  PROVE  /\ [s EXCEPT !.attempt = @ + 1] \in
              [asset : Assets, attempt : Nat, last : [Asked -> {"never", "recent", "quiet"}],
               late : BOOLEAN, retry : BOOLEAN, fBlockchainSynced : BOOLEAN, stale : BOOLEAN]
         /\ [s EXCEPT !.attempt = @ + 1].asset = s.asset
  OBVIOUS

\* IsBlockchainSynced keeps the state, or resets it when an hour has passed.
LEMMA IsBlockchainSyncedType ==
  ASSUME NEW s \in [asset : Assets, attempt : Nat, last : [Asked -> {"never", "recent", "quiet"}],
                    late : BOOLEAN, retry : BOOLEAN, fBlockchainSynced : BOOLEAN, stale : BOOLEAN],
         NEW recent \in BOOLEAN
  PROVE  /\ IsBlockchainSynced(s, recent) \in
              [asset : Assets, attempt : Nat, last : [Asked -> {"never", "recent", "quiet"}],
               late : BOOLEAN, retry : BOOLEAN, fBlockchainSynced : BOOLEAN, stale : BOOLEAN]
         /\ IsBlockchainSynced(s, recent).asset \in {s.asset, "INITIAL"}
         /\ IsBlockchainSynced(s, recent).asset # "INITIAL" /\ s.fBlockchainSynced
              => IsBlockchainSynced(s, recent).fBlockchainSynced
  <1>1. CASE s.stale
    BY <1>1, ResetType DEF IsBlockchainSynced
  <1>2. CASE ~s.stale
    BY <1>2 DEF IsBlockchainSynced
  <1> QED
    BY <1>1, <1>2

\* The node starts with nothing synchronised.
LEMMA SyncInitInv == Init => SyncInv
  <1> SUFFICES ASSUME Init PROVE SyncInv
    OBVIOUS
  <1>1. sync = ResetState /\ process = "tick"
    BY DEF Init
  <1> QED
    BY <1>1, ResetType DEF SyncInv, SyncType, SyncedOnRecentChain, Passed, LeavesSporks

\* The head of Process enters the loop beyond the sporks only on a recent chain.
LEMMA HeadInv ==
  ASSUME SyncInv, ProcessHead
  PROVE  SyncInv'
  <1>1. PICK enabled \in BOOLEAN, recent \in BOOLEAN :
          LET again == \/ sync.asset = "FINISHED" /\ ~enabled
                       \/ sync.asset = "FAILED" /\ sync.retry
              s0 == IF again THEN ResetState ELSE sync
              s1 == IF s0.asset = "INITIAL" THEN GetNextAsset(s0) ELSE s0
              s2 == IsBlockchainSynced(s1, recent)
              waits == ~s2.fBlockchainSynced /\ s2.asset \notin {"INITIAL", "SPORKS"}
          IN  /\ s0.asset \notin {"FINISHED", "FAILED"}
              /\ sync' = s2
              /\ process' = IF waits THEN "tick" ELSE "loop"
    BY DEF ProcessHead
  <1> DEFINE again == \/ sync.asset = "FINISHED" /\ ~enabled
                      \/ sync.asset = "FAILED" /\ sync.retry
             s0 == IF again THEN ResetState ELSE sync
             s1 == IF s0.asset = "INITIAL" THEN GetNextAsset(s0) ELSE s0
             R == [asset : Assets, attempt : Nat, last : [Asked -> {"never", "recent", "quiet"}],
                   late : BOOLEAN, retry : BOOLEAN, fBlockchainSynced : BOOLEAN, stale : BOOLEAN]
  <1>2. s0 \in R /\ (s0.asset \in {"MNW", "BUDGET", "FINISHED"} => s0.fBlockchainSynced)
    BY ResetType DEF SyncInv, SyncType, SyncedOnRecentChain
  <1>3. s1 \in R /\ (s1.asset \in {"MNW", "BUDGET", "FINISHED"} => s1.fBlockchainSynced)
    <2>1. CASE s0.asset = "INITIAL"
      <3>1. s1 = GetNextAsset(s0)
        BY <2>1
      <3>2. NextAsset("INITIAL") = "SPORKS"
        BY DEF NextAsset
      <3> HIDE DEF s0, s1
      <3> QED
        BY <1>2, <2>1, <3>1, <3>2, GetNextAssetType
    <2>2. CASE s0.asset # "INITIAL"
      <3>1. s1 = s0
        BY <2>2
      <3> QED
        BY <1>2, <3>1
    <2> QED
      BY <2>1, <2>2
  <1> HIDE DEF s1
  <1>4. /\ sync' = IsBlockchainSynced(s1, recent)
        /\ process' = IF ~sync'.fBlockchainSynced /\ sync'.asset \notin {"INITIAL", "SPORKS"}
                      THEN "tick" ELSE "loop"
    BY <1>1 DEF s1
  <1>5. /\ sync' \in R
        /\ sync'.asset \in {s1.asset, "INITIAL"}
        /\ sync'.asset # "INITIAL" /\ s1.fBlockchainSynced => sync'.fBlockchainSynced
    BY <1>3, <1>4, IsBlockchainSyncedType
  <1> QED
    BY <1>3, <1>4, <1>5 DEF SyncInv, SyncType, SyncedOnRecentChain, Passed, LeavesSporks

\* The loop changes no asset, and decides only on what the head let through.
LEMMA LoopInv ==
  ASSUME SyncInv, NEW p \in Peers, ProcessLoop(p)
  PROVE  SyncInv'
  <1>0. SyncType
    BY DEF SyncInv
  <1>1. CASE AskSporks(p)
    <2>1. CASE sync.attempt >= 2
      <3>1. process' = "next and count" /\ sync' = sync /\ sync.asset = "SPORKS"
        BY <1>1, <2>1 DEF AskSporks
      <3> QED
        BY <3>1 DEF SyncInv, SyncType, SyncedOnRecentChain, Passed, LeavesSporks
    <2>2. CASE ~(sync.attempt >= 2)
      <3>1. /\ process' = "tick" /\ sync' = [sync EXCEPT !.attempt = @ + 1]
            /\ sync.asset = "SPORKS"
        BY <1>1, <2>2 DEF AskSporks
      <3>2. SyncType'
        BY <1>0, <3>1, CountedType DEF SyncType
      <3>3. sync'.asset = "SPORKS"
        BY <1>0, <3>1, CountedType DEF SyncType
      <3> QED
        BY <3>1, <3>2, <3>3 DEF SyncInv, SyncedOnRecentChain, Passed, LeavesSporks
    <2> QED
      BY <2>1, <2>2
  <1>2. ASSUME Ask(p), process = "loop" PROVE SyncInv'
    BY <1>2 DEF Ask, SyncInv, SyncType, SyncedOnRecentChain, Passed, LeavesSporks
  <1>3. CASE AskList(p)
    BY <1>2, <1>3 DEF AskList, ProcessLoop, SyncInv, SyncType, SyncedOnRecentChain, Passed, LeavesSporks
  <1>4. CASE AskBudget(p)
    BY <1>2, <1>4 DEF AskBudget, ProcessLoop, SyncInv, SyncType, SyncedOnRecentChain, Passed, LeavesSporks
  <1> QED
    BY <1>1, <1>3, <1>4 DEF ProcessLoop

\* A decision takes effect on the state of the moment.
LEMMA ActsInv ==
  ASSUME SyncInv, ProcessActs
  PROVE  SyncInv'
  <1>1. process' = "tick"
    BY DEF ProcessActs
  <1>2. CASE process = "next"
    <2>1. sync' = GetNextAsset(sync)
      BY <1>2 DEF ProcessActs
    <2> QED
      BY <1>1, <1>2, <2>1, GetNextAssetType, NextAssetType
         DEF SyncInv, SyncType, SyncedOnRecentChain, Passed, LeavesSporks
  <1>3. CASE process = "next and count"
    <2>1. sync' = [GetNextAsset(sync) EXCEPT !.attempt = @ + 1]
      BY <1>3 DEF ProcessActs
    <2> DEFINE s == GetNextAsset(sync)
    <2>2. /\ s \in [asset : Assets, attempt : Nat, last : [Asked -> {"never", "recent", "quiet"}],
                    late : BOOLEAN, retry : BOOLEAN, fBlockchainSynced : BOOLEAN, stale : BOOLEAN]
          /\ s.asset = NextAsset(sync.asset)
      BY GetNextAssetType DEF SyncInv, SyncType
    <2>3. s.asset \in {"SPORKS", "LIST"}
      BY <1>3, <2>2, NextAssetType DEF SyncInv, SyncType, LeavesSporks
    <2> HIDE DEF s
    <2>4. sync' = [s EXCEPT !.attempt = @ + 1]
      BY <2>1 DEF s
    <2>5. SyncType'
      BY <1>1, <2>2, <2>4 DEF SyncType
    <2>6. sync'.asset \in {"SPORKS", "LIST"}
      BY <2>2, <2>3, <2>4
    <2> QED
      BY <1>1, <2>5, <2>6 DEF SyncInv, SyncedOnRecentChain, Passed, LeavesSporks
  <1>4. CASE process = "fail"
    <2>1. sync' = [sync EXCEPT !.asset = "FAILED", !.attempt = 0, !.retry = FALSE]
      BY <1>4 DEF ProcessActs
    <2> QED
      BY <1>1, <2>1 DEF SyncInv, SyncType, SyncedOnRecentChain, Passed, LeavesSporks, Assets
  <1> QED
    BY <1>2, <1>3, <1>4 DEF ProcessActs

\* IsBlockchainSynced in another thread, with Process anywhere.
LEMMA CallInv ==
  ASSUME SyncInv, CallIsBlockchainSynced
  PROVE  SyncInv'
  <1>1. PICK recent \in BOOLEAN : sync' = IsBlockchainSynced(sync, recent)
    BY DEF CallIsBlockchainSynced
  <1>2. process' = process
    BY DEF CallIsBlockchainSynced
  <1> QED
    BY <1>1, <1>2, IsBlockchainSyncedType
       DEF SyncInv, SyncType, SyncedOnRecentChain, Passed, LeavesSporks

\* A reset from RPC, with Process anywhere, and a restart.
LEMMA ResetInv ==
  ASSUME SyncInv, RpcReset \/ Restart
  PROVE  SyncInv'
  <1>1. sync' = ResetState /\ process' \in {process, "tick"}
    BY DEF RpcReset, Restart
  <1> QED
    BY <1>1, ResetType DEF SyncInv, SyncType, SyncedOnRecentChain, Passed, LeavesSporks

\* Items, clocks and peers leave the asset and the chain alone.
LEMMA QuietInv ==
  ASSUME SyncInv,
         \/ \E a \in Asked : Added(a) \/ ItemsStop(a)
         \/ AssetGetsLate \/ MinuteAfterFailure \/ Sleeps
  PROVE  SyncInv'
  <1> USE DEF SyncInv, SyncType, SyncedOnRecentChain, Passed, LeavesSporks
  <1>1. ASSUME NEW a \in Asked, Added(a) PROVE SyncInv'
    BY <1>1 DEF Added
  <1>2. ASSUME NEW a \in Asked, ItemsStop(a) PROVE SyncInv'
    BY <1>2 DEF ItemsStop
  <1>3. CASE AssetGetsLate
    BY <1>3 DEF AssetGetsLate
  <1>4. CASE MinuteAfterFailure
    BY <1>4 DEF MinuteAfterFailure
  <1>5. CASE Sleeps
    BY <1>5 DEF Sleeps
  <1> HIDE DEF SyncInv
  <1> QED
    BY <1>1, <1>2, <1>3, <1>4, <1>5

\* Every step keeps the invariant.
LEMMA SyncNextInv ==
  ASSUME SyncInv, [Next]_vars
  PROVE  SyncInv'
  <1>1. ASSUME UNCHANGED <<sync, process>> PROVE SyncInv'
    BY <1>1 DEF SyncInv, SyncType, SyncedOnRecentChain, Passed, LeavesSporks
  <1>2. CASE SporkStep /\ UNCHANGED syncVars
    BY <1>1, <1>2 DEF syncVars
  <1>3. CASE UNCHANGED vars
    BY <1>1, <1>3 DEF vars, syncVars
  <1>4. CASE ProcessSkips
    BY <1>4 DEF ProcessSkips, SyncInv, SyncType, SyncedOnRecentChain, Passed, LeavesSporks
  <1>5. ASSUME NEW p \in Peers, NewPeer(p) PROVE SyncInv'
    BY <1>1, <1>5 DEF NewPeer
  <1> QED
    BY <1>2, <1>3, <1>4, <1>5, HeadInv, LoopInv, ActsInv, CallInv, ResetInv, QuietInv DEF Next

\* The node takes nothing beyond the sporks and the list for synchronised on a
\* chain that was not found recent, for any peers, sporks and threshold, with
\* resets of other threads at any moment (CMasternodeSync::Process).
THEOREM SyncedOnRecentChainHolds == Spec => []SyncedOnRecentChain
  <1>1. Init => SyncInv
    BY SyncInitInv
  <1>2. SyncInv /\ [Next]_vars => SyncInv'
    BY SyncNextInv
  <1>3. SyncInv => SyncedOnRecentChain
    BY DEF SyncInv
  <1> QED
    BY <1>1, <1>2, <1>3, PTL DEF Spec

=============================================================================
