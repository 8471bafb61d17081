------------------------ MODULE BlockDownloadProofs ------------------------
(***************************************************************************)
(* The invariants of BlockDownload, for every tree of blocks, every set of *)
(* peers and every window.  They are inductive together with Shape: the    *)
(* active chain is stored, the index is closed under parents, a peer whose *)
(* version message was not handled is not preferred, and a thread inside   *)
(* ProcessNewBlock holds a block.                                          *)
(***************************************************************************)
EXTENDS BlockDownload, FiniteSetTheorems, WellFoundedInduction, TLAPS

Shape ==
    /\ Linked(tip)
    /\ \A b \in index : Ancestors[b] \subseteq index
    /\ \A p \in Peers : ~version[p] => ~node[p].fPreferredDownload
    /\ \A t \in Threads : pc[t].at # "idle" => pc[t].block \in Blocks \ {Genesis}

(* With the two counters of PeerCountersExact, the lower bound that keeps  *)
(* nQueuedValidatedHeaders from falling below zero.                        *)
BlocksInFlight == {b \in Blocks : mapBlocksInFlight[b] # None}

Counters ==
    /\ nPreferredDownload = Cardinality(PreferredPeers)
    /\ nSyncStarted = Cardinality(SyncingPeers)
    /\ nQueuedValidatedHeaders >= Cardinality(BlocksInFlight)

DownloadInv == TypeOK /\ InFlightConsistent /\ Counters /\ LastCommonIsFull /\ StallerOwes /\ Shape

-----------------------------------------------------------------------------
(* The tree of blocks.                                                     *)

LEMMA Least ==
  ASSUME NEW T, T \subseteq Nat, T # {}
  PROVE  \E x \in T : \A y \in T : x <= y
<1>1. PICK x \in T : \A y \in T : ~(<<y, x>> \in OpToRel(<, Nat))
  BY NatLessThanWellFounded, WFMin
<1>2. ASSUME NEW y \in T PROVE x <= y
  <2>1. x \in Nat /\ y \in Nat
    OBVIOUS
  <2>2. ~(y < x)
    BY <1>1, <2>1 DEF OpToRel
  <2>3. QED
    BY <2>1, <2>2
<1>3. QED
  BY <1>2

LEMMA Tree ==
  /\ Genesis \in Blocks /\ Parent \in [Blocks \ {Genesis} -> Blocks]
  /\ Ancestors \in [Blocks -> SUBSET Blocks] /\ Ancestors[Genesis] = {Genesis}
  /\ nHeight \in [Blocks -> Nat] /\ nHeight[Genesis] = 0
  /\ \A b \in Blocks \ {Genesis} : /\ Ancestors[b] = {b} \cup Ancestors[Parent[b]]
                                   /\ nHeight[b] = nHeight[Parent[b]] + 1
BY DownloadAssumption

\* A set that holds the genesis block and follows the tree upwards is all of it.
LEMMA Upwards ==
  ASSUME NEW S, Genesis \in S, \A b \in Blocks \ {Genesis} : Parent[b] \in S => b \in S
  PROVE  \A b \in Blocks : b \in S
<1> SUFFICES ASSUME NEW d \in Blocks, d \notin S PROVE FALSE
  OBVIOUS
<1> DEFINE T == {nHeight[b] : b \in Blocks \ S}
<1>1. T \subseteq Nat /\ T # {}
  BY Tree
<1>2. PICK h \in T : \A y \in T : h <= y
  <2> HIDE DEF T
  <2> QED BY <1>1, Least
<1>3. PICK b \in Blocks \ S : h = nHeight[b]
  BY <1>2
<1>4. b # Genesis /\ Parent[b] \in Blocks \ S
  BY <1>3, Tree
<1>5. /\ nHeight[Parent[b]] \in T /\ nHeight[Parent[b]] \in Nat
      /\ nHeight[b] = nHeight[Parent[b]] + 1
  BY <1>4, <1>3, Tree
<1>6. h <= nHeight[Parent[b]]
  BY <1>2, <1>5
<1>7. QED
  BY <1>3, <1>5, <1>6

\* What a chain is: it starts at the genesis block, holds the chains of its
\* blocks, and at every height up to its end exactly one block.
ChainOf(b) ==
    /\ b \in Ancestors[b] /\ Genesis \in Ancestors[b]
    /\ \A a \in Ancestors[b] : Ancestors[a] \subseteq Ancestors[b] /\ nHeight[a] <= nHeight[b]
    /\ \A a, c \in Ancestors[b] : nHeight[a] = nHeight[c] => a = c
    /\ \A h \in 0 .. nHeight[b] : \E a \in Ancestors[b] : nHeight[a] = h

LEMMA Chains == \A b \in Blocks : ChainOf(b)
<1> DEFINE S == {b \in Blocks : ChainOf(b)}
<1>1. Genesis \in S
  BY Tree DEF ChainOf
<1>2. ASSUME NEW b \in Blocks \ {Genesis}, Parent[b] \in S PROVE b \in S
  <2> DEFINE q == Parent[b]
  <2>1. /\ q \in Blocks /\ ChainOf(q) /\ Ancestors[b] = {b} \cup Ancestors[q]
        /\ nHeight[b] = nHeight[q] + 1 /\ nHeight[q] \in Nat
        /\ \A a \in Ancestors[q] : a \in Blocks /\ nHeight[a] \in Nat
    BY <1>2, Tree
  <2> HIDE DEF q
  <2>2. b \in Ancestors[b] /\ Genesis \in Ancestors[b]
    BY <2>1 DEF ChainOf
  <2>3. \A a \in Ancestors[q] : Ancestors[a] \subseteq Ancestors[q] /\ nHeight[a] <= nHeight[q]
    BY <2>1 DEF ChainOf
  <2>4. \A a \in Ancestors[b] : Ancestors[a] \subseteq Ancestors[b] /\ nHeight[a] <= nHeight[b]
    BY <2>1, <2>3
  <2>5. \A a, c \in Ancestors[q] : nHeight[a] = nHeight[c] => a = c
    BY <2>1 DEF ChainOf
  <2>6. \A a, c \in Ancestors[b] : nHeight[a] = nHeight[c] => a = c
    BY <2>1, <2>3, <2>5
  <2>7. ASSUME NEW h \in 0 .. nHeight[b] PROVE \E a \in Ancestors[b] : nHeight[a] = h
    <3>1. CASE h = nHeight[b]
      BY <3>1, <2>2
    <3>2. CASE h \in 0 .. nHeight[q]
      BY <3>2, <2>1 DEF ChainOf
    <3>3. QED
      BY <3>1, <3>2, <2>1
  <2>8. QED
    BY <2>2, <2>4, <2>6, <2>7 DEF ChainOf
<1>3. \A b \in Blocks : b \in S
  <2> HIDE DEF S
  <2> QED BY <1>1, <1>2, Upwards
<1>4. QED
  BY <1>3

\* pskip->GetAncestor(height): the block of b's chain at a height.
LEMMA AncestorAt ==
  ASSUME NEW b \in Blocks, NEW h \in Nat, h <= nHeight[b]
  PROVE  Ancestor(b, h) \in Ancestors[b]
<1>1. \E a \in Ancestors[b] : nHeight[a] = h
  <2>1. h \in 0 .. nHeight[b]
    BY Tree
  <2>2. QED
    BY <2>1, Chains DEF ChainOf
<1>2. QED
  BY <1>1 DEF Ancestor

\* Among blocks of one chain there is a highest one.
LEMMA HighestIn ==
  ASSUME NEW b \in Blocks, NEW S, S \subseteq Ancestors[b], S # {}
  PROVE  Highest(S) \in S /\ \A c \in S : nHeight[c] <= nHeight[Highest(S)]
<1> DEFINE T == {nHeight[b] - nHeight[c] : c \in S}
<1>1. /\ nHeight[b] \in Nat
      /\ \A c \in S : nHeight[c] \in Nat /\ nHeight[c] <= nHeight[b]
  BY Tree, Chains DEF ChainOf
<1>2. T \subseteq Nat /\ T # {}
  BY <1>1
<1>3. PICK x \in T : \A y \in T : x <= y
  <2> HIDE DEF T
  <2> QED BY <1>2, Least
<1>4. PICK d \in S : x = nHeight[b] - nHeight[d]
  BY <1>3
<1>5. \A c \in S : nHeight[c] <= nHeight[d]
  <2> SUFFICES ASSUME NEW c \in S PROVE nHeight[c] <= nHeight[d]
    OBVIOUS
  <2>1. nHeight[b] - nHeight[c] \in T
    OBVIOUS
  <2>2. QED
    BY <2>1, <1>1, <1>3, <1>4
<1>6. QED
  BY <1>4, <1>5 DEF Highest

-----------------------------------------------------------------------------
(* FindNextBlocksToDownload.                                               *)

LEMMA SubsetOfBlocks ==
  ASSUME NEW S, S \subseteq Blocks
  PROVE  IsFiniteSet(S) /\ Cardinality(S) \in Nat
BY DownloadAssumption, FS_Subset, FS_CardinalityType

\* "if (vBlocks.size() == count) return": never more blocks than asked for.
LEMMA AtMostCount ==
  ASSUME TypeOK, NEW b \in Blocks, NEW from \in Blocks, NEW count \in Nat \ {0}
  PROVE  Cardinality(Missing(Reached(Walk(from, b), count))) <= count
<1> DEFINE W == Walk(from, b)
           M == Missing(Reached(W, count))
<1>1. W \subseteq Ancestors[b] /\ M \subseteq Reached(W, count) /\ Reached(W, count) \subseteq W
  BY DEF Walk, Missing, Reached
<1>2. W \subseteq Blocks /\ M \subseteq Ancestors[b] /\ M \subseteq Blocks
  BY <1>1, Tree
<1>3. CASE M = {}
  BY <1>3, FS_EmptySet
<1>4. CASE M # {}
  <2> DEFINE d == Highest(M)
             L == Missing(Below(W, d))
  <2> HIDE DEF M, W
  <2>1. d \in M /\ \A c \in M : nHeight[c] <= nHeight[d]
    BY <1>2, <1>4, HighestIn
  <2> HIDE DEF d
  <2>2. Cardinality(L) < count
    BY <2>1, <1>1 DEF Reached
  <2>3. L \subseteq Blocks
    BY <1>2 DEF Missing, Below
  <2>4. M \ {d} \subseteq L
    <3> SUFFICES ASSUME NEW c \in M, c # d PROVE c \in L
      OBVIOUS
    <3>1. c \in Ancestors[b] /\ d \in Ancestors[b] /\ c \in W /\ c \in Blocks /\ d \in Blocks
      BY <2>1, <1>1, <1>2
    <3>2. nHeight[c] # nHeight[d]
      BY <3>1, Chains DEF ChainOf
    <3>3. nHeight[c] < nHeight[d]
      BY <3>1, <3>2, <2>1, Tree
    <3>4. c \notin data \cup failed /\ mapBlocksInFlight[c] = None
      BY DEF M, Missing
    <3>5. QED
      BY <3>1, <3>3, <3>4 DEF Missing, Below
  <2> HIDE DEF L
  <2>5. IsFiniteSet(L) /\ Cardinality(L) \in Nat
    BY <2>3, SubsetOfBlocks
  <2>6. Cardinality(M \ {d}) <= Cardinality(L)
    BY <2>4, <2>5, FS_Subset
  <2>7. IsFiniteSet(M) /\ Cardinality(M) \in Nat
    BY <1>2, SubsetOfBlocks
  <2>8. Cardinality(M \ {d}) = Cardinality(M) - 1
    BY <2>7, <2>1, FS_RemoveElement
  <2>9. QED
    BY <2>2, <2>5, <2>6, <2>7, <2>8 DEF M, W
<1>5. QED
  BY <1>3, <1>4

\* What FindNextBlocksToDownload returns for the state s of peer p.
FoundFor(p, r, count) ==
    /\ r.common \in index \cup {None} /\ (r.common # None => Linked(r.common))
    /\ r.blocks \subseteq {b \in index \ (data \cup failed) : mapBlocksInFlight[b] = None}
    /\ Cardinality(r.blocks) <= count
    /\ \A q \in r.stallers : q # p /\ \E b \in Blocks : mapBlocksInFlight[b] = q /\ q # None

LEMMA FindNextFound ==
  ASSUME TypeOK, Shape, NEW p \in Peers, NEW s \in NodeStates, NEW count \in Nat \ {0},
         s.best \in index \cup {None}, s.common \in index \cup {None},
         s.common # None => Linked(s.common)
  PROVE  FoundFor(p, FindNext(p, s, count), count)
<1> DEFINE guess == IF nHeight[s.best] <= nHeight[tip] THEN Ancestor(tip, nHeight[s.best]) ELSE tip
           start == IF s.common = None THEN guess ELSE s.common
           from == LastCommonAncestor(start, s.best)
           reached == Reached(Walk(from, s.best), count)
           missing == Missing(reached)
           blocks == {b \in missing : nHeight[b] <= nHeight[from] + BLOCK_DOWNLOAD_WINDOW}
           ahead == [common |-> Highest({from} \cup Full(reached)),
                     blocks |-> blocks,
                     stallers |-> IF blocks = {} /\ missing # {} THEN Waiting(reached) \ {p} ELSE {}]
           behind == [common |-> s.common, blocks |-> {}, stallers |-> {}]
<1>1. \/ FindNext(p, s, count) = behind
      \/ s.best # None /\ FindNext(p, s, count) = ahead
  BY DEF FindNext
<1>2. FoundFor(p, behind, count)
  BY FS_EmptySet DEF FoundFor
<1>3. ASSUME s.best # None PROVE FoundFor(p, ahead, count)
  <2>1. /\ s.best \in index /\ s.best \in Blocks /\ Ancestors[s.best] \subseteq index
        /\ tip \in Blocks /\ tip \in index /\ index \subseteq Blocks /\ Ancestors[tip] \subseteq index
    BY <1>3 DEF TypeOK, Shape
  <2>2. guess \in Ancestors[tip]
    <3>1. nHeight[s.best] \in Nat
      BY <2>1, Tree
    <3>2. tip \in Ancestors[tip]
      BY <2>1, Chains DEF ChainOf
    <3>3. QED
      BY <3>1, <3>2, <2>1, AncestorAt
  <2> HIDE DEF guess
  <2>3. start \in Blocks /\ Linked(start)
    <3>1. guess \in Blocks /\ Ancestors[guess] \subseteq Ancestors[tip]
      BY <2>1, <2>2, Tree, Chains DEF ChainOf
    <3>2. Linked(guess)
      BY <3>1 DEF Linked, Shape
    <3>3. QED
      BY <3>1, <3>2, <2>1
  <2> HIDE DEF start
  <2>4. from \in Ancestors[start] /\ from \in Ancestors[s.best]
    <3>1. Genesis \in Ancestors[start] \cap Ancestors[s.best]
      BY <2>1, <2>3, Chains DEF ChainOf
    <3>2. QED
      BY <3>1, <2>1, HighestIn DEF LastCommonAncestor
  <2> HIDE DEF from
  <2>5. from \in index /\ from \in Blocks /\ Linked(from)
    <3>1. from \in index /\ from \in Blocks
      BY <2>1, <2>4
    <3>2. Ancestors[from] \subseteq Ancestors[start]
      BY <2>3, <2>4, Chains DEF ChainOf
    <3>3. QED
      BY <3>1, <3>2, <2>3 DEF Linked
  <2>6. reached \subseteq Ancestors[s.best]
    BY DEF Reached, Walk
  <2>7. Cardinality(missing) <= count
    BY <2>1, <2>5, AtMostCount
  <2> HIDE DEF reached
  <2>8. missing \subseteq {b \in index \ (data \cup failed) : mapBlocksInFlight[b] = None}
    BY <2>1, <2>6 DEF Missing
  <2>9. Full(reached) \subseteq Ancestors[s.best] /\ \A c \in Full(reached) : Linked(c)
    BY <2>6 DEF Full
  <2>10. ahead.common \in index /\ Linked(ahead.common)
    <3>1. Highest({from} \cup Full(reached)) \in {from} \cup Full(reached)
      BY <2>1, <2>4, <2>9, HighestIn
    <3>2. QED
      BY <3>1, <2>1, <2>5, <2>9
  <2>11. Cardinality(blocks) <= count
    <3> HIDE DEF missing
    <3>1. missing \subseteq Blocks /\ blocks \subseteq missing /\ blocks \subseteq Blocks
      BY <2>1, <2>8
    <3>2. /\ IsFiniteSet(missing) /\ Cardinality(missing) \in Nat /\ Cardinality(blocks) \in Nat
      BY <3>1, SubsetOfBlocks
    <3> HIDE DEF blocks
    <3>3. Cardinality(blocks) <= Cardinality(missing)
      BY <3>1, <3>2, FS_Subset
    <3>4. QED
      BY <3>2, <3>3, <2>7
  <2>12. ASSUME NEW q \in ahead.stallers
         PROVE  q # p /\ \E b \in Blocks : mapBlocksInFlight[b] = q /\ q # None
    <3>1. q \in Waiting(reached) /\ q # p
      OBVIOUS
    <3>2. QED
      BY <3>1, <2>1, <2>6 DEF Waiting
  <2>13. ahead.blocks \subseteq missing /\ ahead.blocks = blocks
    OBVIOUS
  <2> HIDE DEF ahead, missing, blocks
  <2>14. QED
    BY <2>8, <2>10, <2>11, <2>12, <2>13 DEF FoundFor
<1>4. QED
  BY <1>1, <1>2, <1>3

-----------------------------------------------------------------------------
(* Announcements change what is known of a peer's chain and nothing else.  *)

Alike(s, u) ==
    /\ u.common = s.common /\ u.fSyncStarted = s.fSyncStarted /\ u.stalling = s.stalling
    /\ u.vBlocksInFlight = s.vBlocksInFlight /\ u.nBlocksInFlight = s.nBlocksInFlight
    /\ u.fPreferredDownload = s.fPreferredDownload

LEMMA BetterKnownKeeps ==
  ASSUME TypeOK, NEW s \in NodeStates, s.best \in index \cup {None}, NEW b \in index
  PROVE  /\ BetterKnown(s, b) \in NodeStates /\ BetterKnown(s, b).best \in index \cup {None}
         /\ Alike(s, BetterKnown(s, b))
BY DEF BetterKnown, NodeStates, Alike, TypeOK

LEMMA AvailabilityKeeps ==
  ASSUME TypeOK, NEW s \in NodeStates, s.best \in index \cup {None}
  PROVE  /\ Availability(s) \in NodeStates /\ Availability(s).best \in index \cup {None}
         /\ Alike(s, Availability(s))
<1>1. CASE s.unknown \in index
  <2> DEFINE u == BetterKnown(s, s.unknown)
  <2>1. u \in NodeStates /\ u.best \in index \cup {None} /\ Alike(s, u)
    BY <1>1, BetterKnownKeeps
  <2> HIDE DEF u
  <2>2. [u EXCEPT !.unknown = None] \in NodeStates
    BY <2>1 DEF NodeStates
  <2>3. [u EXCEPT !.unknown = None].best = u.best /\ Alike(s, [u EXCEPT !.unknown = None])
    BY <2>1 DEF NodeStates, Alike
  <2>4. Availability(s) = [u EXCEPT !.unknown = None]
    BY <1>1 DEF Availability, u
  <2>5. QED
    BY <2>1, <2>2, <2>3, <2>4
<1>2. CASE s.unknown \notin index
  BY <1>2 DEF Availability, Alike
<1>3. QED
  BY <1>1, <1>2

LEMMA AnnouncedKeeps ==
  ASSUME TypeOK, NEW s \in NodeStates, s.best \in index \cup {None}, NEW b \in Blocks
  PROVE  /\ Announced(s, b) \in NodeStates /\ Announced(s, b).best \in index \cup {None}
         /\ Alike(s, Announced(s, b))
<1> DEFINE u == Availability(s)
<1>1. u \in NodeStates /\ u.best \in index \cup {None} /\ Alike(s, u)
  BY AvailabilityKeeps
<1> HIDE DEF u
<1>2. CASE b \in index
  <2>1. Announced(s, b) = BetterKnown(u, b)
    BY <1>2 DEF Announced, u
  <2>2. /\ BetterKnown(u, b) \in NodeStates /\ BetterKnown(u, b).best \in index \cup {None}
        /\ Alike(u, BetterKnown(u, b))
    BY <1>1, <1>2, BetterKnownKeeps
  <2>3. QED
    BY <1>1, <2>1, <2>2 DEF Alike
<1>3. CASE b \notin index
  <2>1. Announced(s, b) = [u EXCEPT !.unknown = b]
    BY <1>3 DEF Announced, u
  <2>2. [u EXCEPT !.unknown = b] \in NodeStates
    BY <1>1 DEF NodeStates
  <2>3. [u EXCEPT !.unknown = b].best = u.best /\ Alike(s, [u EXCEPT !.unknown = b])
    BY <1>1 DEF NodeStates, Alike
  <2>4. QED
    BY <1>1, <2>1, <2>2, <2>3
<1>4. QED
  BY <1>2, <1>3

-----------------------------------------------------------------------------
(* Counting.                                                               *)

LEMMA SubsetOfPeers ==
  ASSUME NEW S, S \subseteq Peers
  PROVE  IsFiniteSet(S) /\ Cardinality(S) \in Nat
BY DownloadAssumption, FS_Subset, FS_CardinalityType

\* A counter follows the set it counts when one peer changes sides.
LEMMA CountFollows ==
  ASSUME NEW S, S \subseteq Peers, NEW T, NEW p \in Peers, T \ {p} = S \ {p}, T \subseteq Peers
  PROVE  /\ p \in S /\ p \notin T => Cardinality(T) = Cardinality(S) - 1
         /\ p \notin S /\ p \in T => Cardinality(T) = Cardinality(S) + 1
         /\ (p \in S <=> p \in T) => Cardinality(T) = Cardinality(S)
<1>1. IsFiniteSet(S) /\ Cardinality(S) \in Nat
  BY SubsetOfPeers
<1>2. ASSUME p \in S, p \notin T PROVE Cardinality(T) = Cardinality(S) - 1
  <2>1. T = S \ {p}
    BY <1>2
  <2>2. QED
    BY <1>1, <1>2, <2>1, FS_RemoveElement
<1>3. ASSUME p \notin S, p \in T PROVE Cardinality(T) = Cardinality(S) + 1
  <2>1. T = S \cup {p}
    BY <1>3
  <2>2. QED
    BY <1>1, <1>3, <2>1, FS_AddElement
<1>4. ASSUME p \in S <=> p \in T PROVE Cardinality(T) = Cardinality(S)
  <2>1. T = S
    BY <1>4
  <2>2. QED
    BY <2>1
<1>5. QED
  BY <1>2, <1>3, <1>4

-----------------------------------------------------------------------------
LEMMA InitInv == Init => DownloadInv
<1> SUFFICES ASSUME Init PROVE DownloadInv
  OBVIOUS
<1>1. CNodeState \in NodeStates
  BY DownloadAssumption DEF CNodeState, NodeStates
<1>2. TypeOK
  BY <1>1, DownloadAssumption DEF Init, TypeOK, CNodeState, Idle
<1>3. InFlightConsistent
  BY FS_EmptySet, DownloadAssumption DEF Init, InFlightConsistent, CNodeState
<1>4. Counters
  <2>1. PreferredPeers = {} /\ SyncingPeers = {} /\ BlocksInFlight = {}
    BY DEF Init, CNodeState, PreferredPeers, SyncingPeers, BlocksInFlight
  <2>2. nPreferredDownload = 0 /\ nSyncStarted = 0 /\ nQueuedValidatedHeaders = 0
    BY DEF Init
  <2>3. QED
    BY <2>1, <2>2, FS_EmptySet DEF Counters
<1>5. LastCommonIsFull /\ StallerOwes
  BY DEF Init, LastCommonIsFull, StallerOwes, CNodeState
<1>6. Shape
  BY DownloadAssumption DEF Init, Shape, Linked, CNodeState, Idle, Threads
<1>7. QED
  BY <1>2, <1>3, <1>4, <1>5, <1>6 DEF DownloadInv

-----------------------------------------------------------------------------
(* Steps that leave the download state alone.                              *)

LEMMA QuietStep ==
  ASSUME DownloadInv, UNCHANGED <<blockVars, version, node, mapBlocksInFlight,
                          nQueuedValidatedHeaders, nPreferredDownload, nSyncStarted>>,
         life' \in [Peers -> {"new", "listed", "removed", "deleted"}],
         \A p \in Peers : life[p] \in {"listed", "removed"} => life'[p] \in {"listed", "removed"},
         fDisconnect' \in [Peers -> BOOLEAN],
         pc' \in [Threads -> [at : {"idle", "process", "activate"}, peer : Peers \cup {None},
                              block : Blocks \cup {None}]],
         \A t \in Threads : pc'[t].at # "idle" => pc'[t].block \in Blocks \ {Genesis}
  PROVE  DownloadInv'
<1>1. TypeOK'
  BY DEF DownloadInv, TypeOK, blockVars
<1>2. InFlightConsistent'
  BY DEF DownloadInv, InFlightConsistent, blockVars
<1>3. Counters'
  BY DEF DownloadInv, Counters, PreferredPeers, SyncingPeers, BlocksInFlight
<1>4. LastCommonIsFull' /\ StallerOwes'
  BY DEF DownloadInv, LastCommonIsFull, StallerOwes, Linked, blockVars
<1>5. Shape'
  BY DEF DownloadInv, Shape, Linked, blockVars
<1>6. QED
  BY <1>1, <1>2, <1>3, <1>4, <1>5 DEF DownloadInv

LEMMA ConnectionSteps ==
  ASSUME DownloadInv, NEW p \in Peers, InitializeNode(p) \/ Disconnect(p) \/ RemoveNode(p)
  PROVE  DownloadInv'
<1>1. /\ life \in [Peers -> {"new", "listed", "removed", "deleted"}]
      /\ fDisconnect \in [Peers -> BOOLEAN]
      /\ pc \in [Threads -> [at : {"idle", "process", "activate"}, peer : Peers \cup {None},
                             block : Blocks \cup {None}]]
      /\ \A t \in Threads : pc[t].at # "idle" => pc[t].block \in Blocks \ {Genesis}
  BY DEF DownloadInv, TypeOK, Shape
<1>2. CASE InitializeNode(p)
  BY <1>1, <1>2, QuietStep DEF InitializeNode
<1>3. CASE Disconnect(p)
  BY <1>1, <1>3, QuietStep DEF Disconnect
<1>4. CASE RemoveNode(p)
  BY <1>1, <1>4, QuietStep DEF RemoveNode
<1>5. QED
  BY <1>2, <1>3, <1>4

LEMMA ArrivalSteps ==
  ASSUME DownloadInv, NEW b \in Blocks \ {Genesis},
         SubmitBlock(b) \/ \E p \in Peers : BlockMessage(p, b)
  PROVE  DownloadInv'
<1> DEFINE PC == [at : {"idle", "process", "activate"}, peer : Peers \cup {None},
                  block : Blocks \cup {None}]
<1>1. /\ life \in [Peers -> {"new", "listed", "removed", "deleted"}]
      /\ fDisconnect \in [Peers -> BOOLEAN]
      /\ pc \in [Threads -> PC]
      /\ \A t \in Threads : pc[t].at # "idle" => pc[t].block \in Blocks \ {Genesis}
  BY DEF DownloadInv, TypeOK, Shape
<1>2. /\ pc' \in [Threads -> PC]
      /\ \A t \in Threads : pc'[t].at # "idle" => pc'[t].block \in Blocks \ {Genesis}
  <2>1. PICK t \in Threads, q \in Peers \cup {None} :
           \/ pc' = [pc EXCEPT ![t] = [at |-> "process", peer |-> q, block |-> b]]
           \/ pc' = pc
    BY DEF SubmitBlock, BlockMessage, Threads
  <2>2. [at |-> "process", peer |-> q, block |-> b] \in PC
    OBVIOUS
  <2>3. QED
    BY <1>1, <2>1, <2>2
<1>3. UNCHANGED <<blockVars, life, fDisconnect, version, node, mapBlocksInFlight,
                  nQueuedValidatedHeaders, nPreferredDownload, nSyncStarted>>
  BY DEF SubmitBlock, BlockMessage
<1>4. QED
  BY <1>1, <1>2, <1>3, QuietStep

\* ActivateBestChain moves the tip to a block all of whose ancestors are here.
LEMMA ActivateStep ==
  ASSUME DownloadInv, NEW t \in Threads, ActivateBestChain(t)
  PROVE  DownloadInv'
<1>1. /\ UNCHANGED <<index, data, failed, life, version, node, mapBlocksInFlight,
                     nQueuedValidatedHeaders, nPreferredDownload, nSyncStarted>>
      /\ Returned(t)
  BY DEF ActivateBestChain
<1>2. tip' \in data /\ Linked(tip')
  BY DEF ActivateBestChain, DownloadInv, TypeOK, Shape
<1>3. /\ pc' \in [Threads -> [at : {"idle", "process", "activate"}, peer : Peers \cup {None},
                              block : Blocks \cup {None}]]
      /\ \A u \in Threads : pc'[u].at # "idle" => pc'[u].block \in Blocks \ {Genesis}
  BY <1>1 DEF Returned, DownloadInv, TypeOK, Shape, Idle
<1>4. fDisconnect' \in [Peers -> BOOLEAN]
  BY <1>1, DownloadAssumption DEF Returned, DownloadInv, TypeOK
<1>5. TypeOK'
  BY <1>1, <1>2, <1>3, <1>4 DEF DownloadInv, TypeOK
<1>6. InFlightConsistent'
  BY <1>1 DEF DownloadInv, InFlightConsistent
<1>7. Counters'
  BY <1>1 DEF DownloadInv, Counters, PreferredPeers, SyncingPeers, BlocksInFlight
<1>8. LastCommonIsFull' /\ StallerOwes'
  BY <1>1 DEF DownloadInv, LastCommonIsFull, StallerOwes, Linked
<1>9. Shape'
  BY <1>1, <1>2, <1>3 DEF DownloadInv, Shape, Linked
<1>10. QED
  BY <1>5, <1>6, <1>7, <1>8, <1>9 DEF DownloadInv

-----------------------------------------------------------------------------
(* Steps that change the state of one peer.                                *)

\* An "inv" message.
LEMMA AnnounceStep ==
  ASSUME DownloadInv, NEW p \in Peers, NEW b \in Blocks, Inv(p, b)
  PROVE  DownloadInv'
<1> DEFINE u == Announced(node[p], b)
<1>1. /\ UNCHANGED <<blockVars, life, fDisconnect, version, mapBlocksInFlight,
                     nQueuedValidatedHeaders, nPreferredDownload, nSyncStarted, pc>>
      /\ node' = [node EXCEPT ![p] = u]
  BY DEF Inv
<1>2. TypeOK /\ node \in [Peers -> NodeStates] /\ node[p].best \in index \cup {None}
  BY DEF DownloadInv, TypeOK
<1>3. u \in NodeStates /\ u.best \in index \cup {None} /\ Alike(node[p], u)
  BY <1>2, AnnouncedKeeps
<1> HIDE DEF u
<1>4. node' \in [Peers -> NodeStates] /\ \A o \in Peers : Alike(node[o], node'[o])
  BY <1>1, <1>2, <1>3 DEF Alike
<1>5. \A o \in Peers : {node'[o].best, node'[o].common} \subseteq index \cup {None}
  BY <1>1, <1>2, <1>3, <1>4 DEF Alike, TypeOK
<1>6. TypeOK'
  BY <1>1, <1>2, <1>4, <1>5 DEF TypeOK, blockVars
<1>7. InFlightConsistent'
  BY <1>1, <1>4 DEF DownloadInv, InFlightConsistent, Alike, blockVars
<1>8. Counters'
  <2>1. PreferredPeers' = PreferredPeers /\ SyncingPeers' = SyncingPeers
    BY <1>4 DEF PreferredPeers, SyncingPeers, Alike
  <2>2. BlocksInFlight' = BlocksInFlight
    BY <1>1 DEF BlocksInFlight
  <2>3. QED
    BY <1>1, <2>1, <2>2 DEF DownloadInv, Counters
<1>9. LastCommonIsFull' /\ StallerOwes'
  BY <1>1, <1>4 DEF DownloadInv, LastCommonIsFull, StallerOwes, Linked, Alike, blockVars
<1>10. Shape'
  BY <1>1, <1>4 DEF DownloadInv, Shape, Linked, Alike, blockVars
<1>11. QED
  BY <1>6, <1>7, <1>8, <1>9, <1>10 DEF DownloadInv

LEMMA VersionStep ==
  ASSUME DownloadInv, NEW p \in Peers, Version(p)
  PROVE  DownloadInv'
<1>1. /\ UNCHANGED <<blockVars, life, mapBlocksInFlight, nQueuedValidatedHeaders, nSyncStarted, pc>>
      /\ ~version[p] /\ version' = [version EXCEPT ![p] = TRUE]
      /\ fDisconnect' = [fDisconnect EXCEPT ![p] = Kind[p].obsolete]
  BY DEF Version
<1>2. TypeOK /\ node \in [Peers -> NodeStates] /\ ~node[p].fPreferredDownload
  BY <1>1 DEF DownloadInv, TypeOK, Shape
<1>3. /\ fDisconnect' \in [Peers -> BOOLEAN] /\ version' \in [Peers -> BOOLEAN]
      /\ Preferred(p) \in BOOLEAN
  BY <1>1, <1>2, DownloadAssumption DEF TypeOK, Preferred
<1>4. PICK f \in BOOLEAN : /\ node' = [node EXCEPT ![p].fPreferredDownload = f]
                           /\ nPreferredDownload' = nPreferredDownload + (IF f THEN 1 ELSE 0)
  <2>1. CASE Kind[p].obsolete
    <3>1. node[p].fPreferredDownload = FALSE
      BY <1>2 DEF NodeStates
    <3>2. node = [node EXCEPT ![p].fPreferredDownload = FALSE]
      BY <1>2, <3>1 DEF NodeStates
    <3>3. nPreferredDownload = nPreferredDownload + 0
      BY <1>2 DEF TypeOK
    <3>4. QED
      BY <2>1, <3>2, <3>3 DEF Version
  <2>2. CASE ~Kind[p].obsolete
    BY <2>2, <1>3 DEF Version
  <2>3. QED
    BY <2>1, <2>2
<1>5. /\ node' \in [Peers -> NodeStates]
      /\ \A o \in Peers :
            /\ node'[o].best = node[o].best /\ node'[o].common = node[o].common
            /\ node'[o].fSyncStarted = node[o].fSyncStarted /\ node'[o].stalling = node[o].stalling
            /\ node'[o].vBlocksInFlight = node[o].vBlocksInFlight
            /\ node'[o].nBlocksInFlight = node[o].nBlocksInFlight
            /\ o # p => node'[o].fPreferredDownload = node[o].fPreferredDownload
      /\ node'[p].fPreferredDownload = f
  BY <1>2, <1>4 DEF NodeStates
<1>6. Counters'
  <2>1. SyncingPeers' = SyncingPeers /\ BlocksInFlight' = BlocksInFlight
    BY <1>1, <1>5 DEF SyncingPeers, BlocksInFlight
  <2>2. /\ PreferredPeers' \ {p} = PreferredPeers \ {p} /\ p \notin PreferredPeers
        /\ PreferredPeers \subseteq Peers /\ PreferredPeers' \subseteq Peers
        /\ p \in PreferredPeers' <=> f
    BY <1>2, <1>5 DEF PreferredPeers
  <2>3. Cardinality(PreferredPeers') = Cardinality(PreferredPeers) + (IF f THEN 1 ELSE 0)
    <3>1. Cardinality(PreferredPeers) \in Nat
      BY <2>2, SubsetOfPeers
    <3>2. QED
      BY <2>2, <3>1, CountFollows
  <2>4. QED
    BY <1>1, <1>4, <2>1, <2>3 DEF DownloadInv, Counters
<1>7. TypeOK'
  <2>1. nPreferredDownload' \in Nat
    BY <1>2, <1>4 DEF TypeOK
  <2>2. QED
    BY <1>1, <1>2, <1>3, <1>5, <2>1 DEF TypeOK, blockVars
<1>8. InFlightConsistent'
  BY <1>1, <1>5 DEF DownloadInv, InFlightConsistent, blockVars
<1>9. LastCommonIsFull' /\ StallerOwes'
  BY <1>1, <1>5 DEF DownloadInv, LastCommonIsFull, StallerOwes, Linked, blockVars
<1>10. Shape'
  BY <1>1, <1>2, <1>5 DEF DownloadInv, Shape, Linked, blockVars, TypeOK
<1>11. QED
  BY <1>6, <1>7, <1>8, <1>9, <1>10 DEF DownloadInv

\* FinalizeNode takes a peer, its flags and its requests out together.
LEMMA FinalizeStep ==
  ASSUME DownloadInv, NEW p \in Peers, FinalizeNode(p)
  PROVE  DownloadInv'
<1>1. /\ UNCHANGED <<blockVars, fDisconnect, version, nQueuedValidatedHeaders, pc>>
      /\ life' = [life EXCEPT ![p] = "deleted"]
      /\ nSyncStarted' = nSyncStarted - (IF node[p].fSyncStarted THEN 1 ELSE 0)
      /\ nPreferredDownload' = nPreferredDownload - (IF node[p].fPreferredDownload THEN 1 ELSE 0)
      /\ mapBlocksInFlight' =
           [b \in Blocks |-> IF b \in node[p].vBlocksInFlight THEN None ELSE mapBlocksInFlight[b]]
      /\ node' = [node EXCEPT ![p] = CNodeState]
  BY DEF FinalizeNode
<1>2. TypeOK /\ node \in [Peers -> NodeStates] /\ InFlightConsistent /\ Counters
  BY DEF DownloadInv, TypeOK
<1>3. CNodeState \in NodeStates
  BY DownloadAssumption DEF CNodeState, NodeStates
<1>4. /\ node' \in [Peers -> NodeStates] /\ node'[p] = CNodeState
      /\ \A o \in Peers : o # p => node'[o] = node[o]
  BY <1>1, <1>2, <1>3
<1>5. /\ mapBlocksInFlight' \in [Blocks -> Peers \cup {None}]
      /\ \A b \in Blocks : mapBlocksInFlight'[b] =
            IF b \in node[p].vBlocksInFlight THEN None ELSE mapBlocksInFlight[b]
  BY <1>1, <1>2 DEF TypeOK
<1>6. Counters'
  <2>1. /\ PreferredPeers' \ {p} = PreferredPeers \ {p} /\ p \notin PreferredPeers'
        /\ PreferredPeers \subseteq Peers /\ PreferredPeers' \subseteq Peers
        /\ p \in PreferredPeers <=> node[p].fPreferredDownload
    BY <1>4 DEF PreferredPeers, CNodeState
  <2>2. /\ SyncingPeers' \ {p} = SyncingPeers \ {p} /\ p \notin SyncingPeers'
        /\ SyncingPeers \subseteq Peers /\ SyncingPeers' \subseteq Peers
        /\ p \in SyncingPeers <=> node[p].fSyncStarted
    BY <1>4 DEF SyncingPeers, CNodeState
  <2>3. /\ Cardinality(PreferredPeers) \in Nat /\ Cardinality(SyncingPeers) \in Nat
    BY <2>1, <2>2, SubsetOfPeers
  <2>4. Cardinality(PreferredPeers') =
            Cardinality(PreferredPeers) - (IF node[p].fPreferredDownload THEN 1 ELSE 0)
    BY <2>1, <2>3, CountFollows
  <2>5. Cardinality(SyncingPeers') =
            Cardinality(SyncingPeers) - (IF node[p].fSyncStarted THEN 1 ELSE 0)
    BY <2>2, <2>3, CountFollows
  <2>6. nQueuedValidatedHeaders >= Cardinality(BlocksInFlight')
    <3>1. BlocksInFlight' \subseteq BlocksInFlight /\ BlocksInFlight \subseteq Blocks
      BY <1>5 DEF BlocksInFlight
    <3>2. /\ IsFiniteSet(BlocksInFlight) /\ Cardinality(BlocksInFlight) \in Nat
          /\ Cardinality(BlocksInFlight') \in Nat
      BY <3>1, SubsetOfBlocks
    <3>3. Cardinality(BlocksInFlight') <= Cardinality(BlocksInFlight)
      BY <3>1, <3>2, FS_Subset
    <3>4. nQueuedValidatedHeaders \in Nat /\ nQueuedValidatedHeaders >= Cardinality(BlocksInFlight)
      BY <1>2 DEF TypeOK, Counters
    <3>5. QED
      BY <3>2, <3>3, <3>4
  <2>7. QED
    BY <1>1, <1>2, <2>4, <2>5, <2>6 DEF Counters
<1>7. nPreferredDownload' \in Nat /\ nSyncStarted' \in Nat
  <2>1. PreferredPeers' \subseteq Peers /\ SyncingPeers' \subseteq Peers
    BY DEF PreferredPeers, SyncingPeers
  <2>2. QED
    BY <1>6, <2>1, SubsetOfPeers DEF Counters
<1>8. TypeOK'
  BY <1>1, <1>2, <1>4, <1>5, <1>7 DEF TypeOK, blockVars, CNodeState
<1>9. InFlightConsistent'
  <2>1. ASSUME NEW b \in Blocks, NEW o \in Peers
        PROVE  mapBlocksInFlight'[b] = o <=> b \in node'[o].vBlocksInFlight
    <3>1. mapBlocksInFlight[b] = o <=> b \in node[o].vBlocksInFlight
      BY <1>2 DEF InFlightConsistent
    <3>2. mapBlocksInFlight[b] = p <=> b \in node[p].vBlocksInFlight
      BY <1>2 DEF InFlightConsistent
    <3>3. o # None
      BY DownloadAssumption
    <3>4. CASE o = p
      BY <3>2, <3>3, <3>4, <1>4, <1>5 DEF CNodeState
    <3>5. CASE o # p
      BY <3>1, <3>2, <3>3, <3>5, <1>4, <1>5
    <3>6. QED
      BY <3>4, <3>5
  <2>2. ASSUME NEW o \in Peers
        PROVE  /\ node'[o].nBlocksInFlight = Cardinality(node'[o].vBlocksInFlight)
               /\ node'[o].vBlocksInFlight # {} => life'[o] \in {"listed", "removed"}
    <3>1. CASE o = p
      BY <3>1, <1>4, FS_EmptySet DEF CNodeState
    <3>2. CASE o # p
      BY <3>2, <1>1, <1>2, <1>4 DEF InFlightConsistent, TypeOK
    <3>3. QED
      BY <3>1, <3>2
  <2>3. \A b \in Blocks : mapBlocksInFlight'[b] # None => b \in index \ (data \cup failed)
    BY <1>2, <1>5 DEF InFlightConsistent
  <2>4. QED
    BY <1>1, <2>1, <2>2, <2>3 DEF InFlightConsistent, blockVars
<1>10. LastCommonIsFull' /\ StallerOwes'
  BY <1>1, <1>4 DEF DownloadInv, LastCommonIsFull, StallerOwes, Linked, blockVars, CNodeState
<1>11. Shape'
  BY <1>1, <1>4 DEF DownloadInv, Shape, Linked, blockVars, CNodeState
<1>12. QED
  BY <1>6, <1>8, <1>9, <1>10, <1>11 DEF DownloadInv

-----------------------------------------------------------------------------
(* SendMessages.                                                           *)

\* Its effect on the peers: B is asked of p, and other peers that owe a
\* block may be found to stall.
Sent(p, B, start) ==
    /\ node' \in [Peers -> NodeStates]
    /\ \A o \in Peers :
          /\ node'[o].best \in index \cup {None} /\ node'[o].common \in index \cup {None}
          /\ node'[o].common # None => Linked(node'[o].common)
          /\ node'[o].fPreferredDownload = node[o].fPreferredDownload
          /\ node'[o].fSyncStarted = (node[o].fSyncStarted \/ (o = p /\ start))
          /\ node'[o].vBlocksInFlight = IF o = p THEN node[o].vBlocksInFlight \cup B
                                        ELSE node[o].vBlocksInFlight
          /\ node'[o].nBlocksInFlight = IF o = p THEN node[o].nBlocksInFlight + Cardinality(B)
                                        ELSE node[o].nBlocksInFlight
          /\ node'[o].stalling => node[o].stalling \/ \E b \in Blocks : mapBlocksInFlight[b] = o
    /\ B \subseteq {b \in index \ (data \cup failed) : mapBlocksInFlight[b] = None}
    /\ mapBlocksInFlight' = [b \in Blocks |-> IF b \in B THEN p ELSE mapBlocksInFlight[b]]
    /\ nQueuedValidatedHeaders' = nQueuedValidatedHeaders + Cardinality(B)
    /\ nSyncStarted' = nSyncStarted + (IF start THEN 1 ELSE 0)
    /\ start => ~node[p].fSyncStarted

LEMMA SendEffect ==
  ASSUME DownloadInv, NEW p \in Peers, NEW drop \in BOOLEAN, NEW recent \in BOOLEAN,
         NEW late \in SUBSET {"stall", "block"}, SendMessages(p, drop, recent, late)
  PROVE  \E B \in SUBSET Blocks, start \in BOOLEAN : Sent(p, B, start)
<1> DEFINE s0 == node[p]
           start == ~s0.fSyncStarted /\ ~Kind[p].fClient /\ fFetch(p) /\ (nSyncStarted = 0 \/ recent)
           gone == \/ drop
                   \/ "stall" \in late /\ s0.stalling
                   \/ "block" \in late /\ s0.vBlocksInFlight # {}
           room == MAX_BLOCKS_IN_TRANSIT_PER_PEER - s0.nBlocksInFlight
           s1 == [s0 EXCEPT !.fSyncStarted = @ \/ start]
           s2 == Availability(s1)
           r == FindNext(p, s2, room)
           s3 == [s2 EXCEPT !.common = r.common, !.vBlocksInFlight = @ \cup r.blocks,
                            !.nBlocksInFlight = @ + Cardinality(r.blocks)]
           asks == ~gone /\ ~Kind[p].fClient /\ fFetch(p) /\ room > 0
<1>1. /\ nSyncStarted' = nSyncStarted + (IF start THEN 1 ELSE 0)
      /\ \/ /\ asks
            /\ node' = [o \in Peers |->
                          LET s == IF o = p THEN s3 ELSE node[o]
                          IN  IF o \in Stalled(r, s3) THEN [s EXCEPT !.stalling = TRUE] ELSE s]
            /\ mapBlocksInFlight' = [b \in Blocks |-> IF b \in r.blocks THEN p ELSE mapBlocksInFlight[b]]
            /\ nQueuedValidatedHeaders' = nQueuedValidatedHeaders + Cardinality(r.blocks)
         \/ /\ ~asks
            /\ node' = [node EXCEPT ![p] = s1]
            /\ UNCHANGED <<mapBlocksInFlight, nQueuedValidatedHeaders>>
  BY DEF SendMessages
<1>2. /\ TypeOK /\ Shape /\ LastCommonIsFull
      /\ node \in [Peers -> NodeStates]
      /\ \A o \in Peers : /\ node[o].best \in index \cup {None} /\ node[o].common \in index \cup {None}
                          /\ node[o].common # None => Linked(node[o].common)
  BY DEF DownloadInv, TypeOK, LastCommonIsFull
<1>3. start \in BOOLEAN /\ (start => ~node[p].fSyncStarted)
  OBVIOUS
<1> HIDE DEF start
<1>4. /\ s1 \in NodeStates /\ s1.best = s0.best /\ s1.common = s0.common
      /\ s1.fPreferredDownload = s0.fPreferredDownload /\ s1.stalling = s0.stalling
      /\ s1.vBlocksInFlight = s0.vBlocksInFlight /\ s1.nBlocksInFlight = s0.nBlocksInFlight
      /\ s1.fSyncStarted = (s0.fSyncStarted \/ start)
  BY <1>2, <1>3 DEF NodeStates
<1> HIDE DEF s1
<1>5. ASSUME ~asks PROVE Sent(p, {}, start)
  <2>1. node' = [node EXCEPT ![p] = s1] /\ UNCHANGED <<mapBlocksInFlight, nQueuedValidatedHeaders>>
    BY <1>1, <1>5
  <2>2. /\ node' \in [Peers -> NodeStates] /\ node'[p] = s1
        /\ \A o \in Peers : o # p => node'[o] = node[o]
    BY <1>2, <1>4, <2>1
  <2>3. Cardinality({}) = 0 /\ s0.nBlocksInFlight \in Nat /\ nQueuedValidatedHeaders \in Nat
    BY <1>2, FS_EmptySet DEF TypeOK, NodeStates
  <2>4. mapBlocksInFlight' = [b \in Blocks |-> IF b \in {} THEN p ELSE mapBlocksInFlight[b]]
    BY <1>2, <2>1 DEF TypeOK
  <2>5. ASSUME NEW o \in Peers
        PROVE /\ node'[o].best \in index \cup {None} /\ node'[o].common \in index \cup {None}
              /\ node'[o].common # None => Linked(node'[o].common)
              /\ node'[o].fPreferredDownload = node[o].fPreferredDownload
              /\ node'[o].fSyncStarted = (node[o].fSyncStarted \/ (o = p /\ start))
              /\ node'[o].vBlocksInFlight = IF o = p THEN node[o].vBlocksInFlight \cup {}
                                            ELSE node[o].vBlocksInFlight
              /\ node'[o].nBlocksInFlight = IF o = p THEN node[o].nBlocksInFlight + Cardinality({})
                                            ELSE node[o].nBlocksInFlight
              /\ node'[o].stalling => node[o].stalling \/ \E b \in Blocks : mapBlocksInFlight[b] = o
    <3>1. CASE o = p
      BY <3>1, <2>2, <2>3, <1>2, <1>4
    <3>2. CASE o # p
      <4>1. node'[o] = node[o] /\ node[o] \in NodeStates
        BY <3>2, <2>2, <1>2
      <4>2. node[o].fSyncStarted \in BOOLEAN
        BY <4>1 DEF NodeStates
      <4>3. QED
        BY <4>1, <4>2, <3>2, <1>2
    <3>3. QED
      BY <3>1, <3>2
  <2>6. nQueuedValidatedHeaders' = nQueuedValidatedHeaders + Cardinality({})
    BY <2>1, <2>3
  <2>7. QED
    BY <1>1, <1>3, <2>2, <2>4, <2>5, <2>6 DEF Sent
<1>6. ASSUME asks PROVE r.blocks \in SUBSET Blocks /\ Sent(p, r.blocks, start)
  <2> DEFINE B == r.blocks
  <2>1. s2 \in NodeStates /\ s2.best \in index \cup {None} /\ Alike(s1, s2)
    BY <1>2, <1>4, AvailabilityKeeps
  <2> HIDE DEF s2
  <2>2. room \in Nat \ {0} /\ s0.nBlocksInFlight \in Nat /\ s0.nBlocksInFlight + room = MAX_BLOCKS_IN_TRANSIT_PER_PEER
    BY <1>2, <1>6, DownloadAssumption DEF NodeStates
  <2>3. s2.common = s0.common
    BY <1>4, <2>1 DEF Alike
  <2>4. FoundFor(p, r, room)
    <3> HIDE DEF room
    <3>1. s2.common \in index \cup {None} /\ (s2.common # None => Linked(s2.common))
      BY <1>2, <2>3
    <3>2. QED
      BY <1>2, <2>1, <2>2, <3>1, FindNextFound
  <2> HIDE DEF r
  <2>5. B \subseteq {b \in index \ (data \cup failed) : mapBlocksInFlight[b] = None} /\ B \subseteq Blocks
    BY <1>2, <2>4 DEF FoundFor, TypeOK
  <2>6. Cardinality(B) \in Nat /\ Cardinality(B) <= room
    BY <2>4, <2>5, SubsetOfBlocks DEF FoundFor
  <2>7. s0.nBlocksInFlight + Cardinality(B) \in 0 .. MAX_BLOCKS_IN_TRANSIT_PER_PEER
    <3> HIDE DEF room, B
    <3>1. QED
      BY <2>2, <2>6, DownloadAssumption
  <2>8. /\ s2.vBlocksInFlight = s0.vBlocksInFlight /\ s2.nBlocksInFlight = s0.nBlocksInFlight
        /\ s2.stalling = s0.stalling /\ s2.fPreferredDownload = s0.fPreferredDownload
        /\ s2.fSyncStarted = (s0.fSyncStarted \/ start)
    BY <1>4, <2>1 DEF Alike
  <2>9. r.common \in index \cup {None} /\ r.common \in Blocks \cup {None} /\ (r.common # None => Linked(r.common))
    BY <1>2, <2>4 DEF FoundFor, TypeOK
  <2>10. /\ s3 \in NodeStates /\ s3.best = s2.best /\ s3.common = r.common
         /\ s3.vBlocksInFlight = s0.vBlocksInFlight \cup B
         /\ s3.nBlocksInFlight = s0.nBlocksInFlight + Cardinality(B)
         /\ s3.stalling = s0.stalling /\ s3.fPreferredDownload = s0.fPreferredDownload
         /\ s3.fSyncStarted = (s0.fSyncStarted \/ start)
    <3> DEFINE n == s0.nBlocksInFlight + Cardinality(B)
    <3>1. s3 = [s2 EXCEPT !.common = r.common, !.vBlocksInFlight = @ \cup B, !.nBlocksInFlight = n]
      BY <2>8
    <3>2. n \in 0 .. MAX_BLOCKS_IN_TRANSIT_PER_PEER
      BY <2>7
    <3> HIDE DEF n, B, s3
    <3>3. s2.vBlocksInFlight \cup B \in SUBSET Blocks
      BY <2>1, <2>5 DEF NodeStates
    <3>4. QED
      BY <2>1, <2>8, <2>9, <3>1, <3>2, <3>3 DEF NodeStates, n
  <2> HIDE DEF s3
  <2> DEFINE W == Stalled(r, s3)
  <2>11. \A o \in W : o # p /\ \E b \in Blocks : mapBlocksInFlight[b] = o
    BY <2>4 DEF FoundFor, Stalled
  <2> HIDE DEF W
  <2>12. /\ node' = [o \in Peers |-> LET s == IF o = p THEN s3 ELSE node[o]
                                     IN  IF o \in W THEN [s EXCEPT !.stalling = TRUE] ELSE s]
         /\ mapBlocksInFlight' = [b \in Blocks |-> IF b \in B THEN p ELSE mapBlocksInFlight[b]]
         /\ nQueuedValidatedHeaders' = nQueuedValidatedHeaders + Cardinality(B)
    BY <1>1, <1>6 DEF W
  <2>13. \A o \in Peers : /\ o = p => node'[o] = s3
                          /\ o # p /\ o \in W => node'[o] = [node[o] EXCEPT !.stalling = TRUE]
                          /\ o # p /\ o \notin W => node'[o] = node[o]
    BY <2>11, <2>12
  <2>14. ASSUME NEW o \in Peers
         PROVE /\ node'[o] \in NodeStates
               /\ node'[o].best \in index \cup {None} /\ node'[o].common \in index \cup {None}
               /\ node'[o].common # None => Linked(node'[o].common)
               /\ node'[o].fPreferredDownload = node[o].fPreferredDownload
               /\ node'[o].fSyncStarted = (node[o].fSyncStarted \/ (o = p /\ start))
               /\ node'[o].vBlocksInFlight = IF o = p THEN node[o].vBlocksInFlight \cup B
                                             ELSE node[o].vBlocksInFlight
               /\ node'[o].nBlocksInFlight = IF o = p THEN node[o].nBlocksInFlight + Cardinality(B)
                                             ELSE node[o].nBlocksInFlight
               /\ node'[o].stalling => node[o].stalling \/ \E b \in Blocks : mapBlocksInFlight[b] = o
    <3>1. CASE o = p
      BY <3>1, <2>1, <2>9, <2>10, <2>13
    <3>2. CASE o # p
      <4>1. node[o] \in NodeStates /\ node[o].fSyncStarted \in BOOLEAN
        BY <1>2 DEF NodeStates
      <4>2. CASE o \notin W
        BY <4>1, <4>2, <3>2, <2>13, <1>2
      <4>3. CASE o \in W
        <5> DEFINE u == [node[o] EXCEPT !.stalling = TRUE]
        <5>1. /\ u \in NodeStates /\ u.best = node[o].best /\ u.common = node[o].common
              /\ u.fPreferredDownload = node[o].fPreferredDownload
              /\ u.fSyncStarted = node[o].fSyncStarted
              /\ u.vBlocksInFlight = node[o].vBlocksInFlight
              /\ u.nBlocksInFlight = node[o].nBlocksInFlight
          BY <4>1 DEF NodeStates
        <5> HIDE DEF u
        <5>2. node'[o] = u /\ \E b \in Blocks : mapBlocksInFlight[b] = o
          BY <4>3, <3>2, <2>11, <2>13 DEF u
        <5>3. QED
          BY <4>1, <5>1, <5>2, <3>2, <1>2
      <4>4. QED
        BY <4>2, <4>3
    <3>3. QED
      BY <3>1, <3>2
  <2>15. node' \in [Peers -> NodeStates]
    BY <2>12, <2>14
  <2> HIDE DEF B
  <2>16. QED
    BY <1>1, <1>3, <2>5, <2>12, <2>14, <2>15 DEF Sent, B
<1>7. QED
  BY <1>3, <1>5, <1>6

LEMMA SendStep ==
  ASSUME DownloadInv, NEW p \in Peers, NEW drop \in BOOLEAN, NEW recent \in BOOLEAN,
         NEW late \in SUBSET {"stall", "block"}, SendMessages(p, drop, recent, late)
  PROVE  DownloadInv'
<1>1. PICK B \in SUBSET Blocks, start \in BOOLEAN : Sent(p, B, start)
  BY SendEffect
<1>2. /\ UNCHANGED <<blockVars, life, version, nPreferredDownload, pc>>
      /\ life[p] = "listed" /\ fDisconnect' \in [Peers -> BOOLEAN]
  BY DEF SendMessages, Serving, DownloadInv, TypeOK
<1>3. TypeOK /\ InFlightConsistent /\ Counters /\ StallerOwes /\ Shape
  BY DEF DownloadInv
<1>4. /\ IsFiniteSet(B) /\ Cardinality(B) \in Nat /\ p # None
      /\ \A b \in B : b \in index \ (data \cup failed) /\ mapBlocksInFlight[b] = None
  BY <1>1, SubsetOfBlocks, DownloadAssumption DEF Sent
<1>5. /\ mapBlocksInFlight' \in [Blocks -> Peers \cup {None}]
      /\ \A b \in Blocks : mapBlocksInFlight'[b] = IF b \in B THEN p ELSE mapBlocksInFlight[b]
  BY <1>1, <1>3 DEF Sent, TypeOK
<1>6. Counters'
  <2>1. nPreferredDownload' = Cardinality(PreferredPeers')
    <3>1. PreferredPeers' = PreferredPeers
      BY <1>1 DEF PreferredPeers, Sent
    <3>2. QED
      BY <1>2, <1>3, <3>1 DEF Counters
  <2>2. nSyncStarted' = Cardinality(SyncingPeers')
    <3>1. /\ SyncingPeers' \ {p} = SyncingPeers \ {p}
          /\ SyncingPeers \subseteq Peers /\ SyncingPeers' \subseteq Peers
          /\ (start => p \notin SyncingPeers /\ p \in SyncingPeers')
          /\ (~start => (p \in SyncingPeers <=> p \in SyncingPeers'))
      BY <1>1 DEF SyncingPeers, Sent
    <3>2. Cardinality(SyncingPeers) \in Nat
      BY <3>1, SubsetOfPeers
    <3>3. Cardinality(SyncingPeers') = Cardinality(SyncingPeers) + (IF start THEN 1 ELSE 0)
      BY <3>1, <3>2, CountFollows
    <3>4. QED
      BY <1>1, <1>3, <3>3 DEF Sent, Counters
  <2>3. nQueuedValidatedHeaders' >= Cardinality(BlocksInFlight')
    <3>1. /\ BlocksInFlight' = BlocksInFlight \cup B /\ BlocksInFlight \cap B = {}
          /\ BlocksInFlight \subseteq Blocks
      BY <1>4, <1>5 DEF BlocksInFlight
    <3>2. IsFiniteSet(BlocksInFlight) /\ Cardinality(BlocksInFlight) \in Nat
      BY <3>1, SubsetOfBlocks
    <3>3. Cardinality(BlocksInFlight') = Cardinality(BlocksInFlight) + Cardinality(B)
      <4>1. Cardinality(BlocksInFlight') =
               Cardinality(BlocksInFlight) + Cardinality(B) - Cardinality({})
        BY <1>4, <3>1, <3>2, FS_Union
      <4>2. QED
        BY <4>1, <1>4, <3>2, FS_EmptySet
    <3>4. nQueuedValidatedHeaders \in Nat /\ nQueuedValidatedHeaders >= Cardinality(BlocksInFlight)
      BY <1>3 DEF TypeOK, Counters
    <3>5. nQueuedValidatedHeaders' = nQueuedValidatedHeaders + Cardinality(B)
      BY <1>1 DEF Sent
    <3>6. QED
      BY <1>4, <3>2, <3>3, <3>4, <3>5
  <2>4. QED
    BY <2>1, <2>2, <2>3 DEF Counters
<1>7. TypeOK'
  <2>1. nSyncStarted' \in Nat /\ nQueuedValidatedHeaders' \in Nat
    BY <1>1, <1>3, <1>4 DEF Sent, TypeOK
  <2>2. /\ node' \in [Peers -> NodeStates]
        /\ \A o \in Peers : {node'[o].best, node'[o].common} \subseteq index \cup {None}
    <3>1. /\ node' \in [Peers -> NodeStates]
          /\ \A o \in Peers : /\ node'[o].best \in index \cup {None}
                              /\ node'[o].common \in index \cup {None}
      BY <1>1 DEF Sent
    <3>2. QED
      BY <3>1
  <2>3. QED
    BY <1>2, <1>3, <1>5, <2>1, <2>2 DEF TypeOK, blockVars
<1>8. InFlightConsistent'
  <2>1. ASSUME NEW b \in Blocks, NEW o \in Peers
        PROVE  mapBlocksInFlight'[b] = o <=> b \in node'[o].vBlocksInFlight
    <3>1. mapBlocksInFlight[b] = o <=> b \in node[o].vBlocksInFlight
      BY <1>3 DEF InFlightConsistent
    <3>2. node'[o].vBlocksInFlight = IF o = p THEN node[o].vBlocksInFlight \cup B
                                     ELSE node[o].vBlocksInFlight
      BY <1>1 DEF Sent
    <3>3. o # None
      BY DownloadAssumption
    <3>4. QED
      BY <3>1, <3>2, <3>3, <1>4, <1>5
  <2>2. ASSUME NEW o \in Peers
        PROVE  /\ node'[o].nBlocksInFlight = Cardinality(node'[o].vBlocksInFlight)
               /\ node'[o].vBlocksInFlight # {} => life'[o] \in {"listed", "removed"}
    <3> DEFINE v == node[o].vBlocksInFlight
    <3>1. /\ node[o].nBlocksInFlight = Cardinality(v) /\ v \subseteq Blocks
          /\ v # {} => life[o] \in {"listed", "removed"}
      BY <1>3 DEF InFlightConsistent, TypeOK, NodeStates
    <3>2. CASE o # p
      BY <3>1, <3>2, <1>1, <1>2 DEF Sent
    <3>3. CASE o = p
      <4>1. /\ node'[o].vBlocksInFlight = v \cup B
            /\ node'[o].nBlocksInFlight = Cardinality(v) + Cardinality(B)
        BY <3>1, <3>3, <1>1 DEF Sent
      <4>2. v \cap B = {}
        BY <3>1, <1>3, <1>4, DownloadAssumption DEF InFlightConsistent
      <4>3. IsFiniteSet(v) /\ Cardinality(v) \in Nat
        BY <3>1, SubsetOfBlocks
      <4> HIDE DEF v
      <4>4. Cardinality(v \cup B) = Cardinality(v) + Cardinality(B) - Cardinality({})
        BY <1>4, <4>2, <4>3, FS_Union
      <4>5. Cardinality(v \cup B) = Cardinality(v) + Cardinality(B)
        BY <4>3, <4>4, <1>4, FS_EmptySet
      <4>6. QED
        BY <4>1, <4>5, <3>3, <1>2
    <3>4. QED
      BY <3>2, <3>3
  <2>3. \A b \in Blocks : mapBlocksInFlight'[b] # None => b \in index \ (data \cup failed)
    BY <1>3, <1>4, <1>5 DEF InFlightConsistent
  <2>4. QED
    BY <1>2, <2>1, <2>2, <2>3 DEF InFlightConsistent, blockVars
<1>9. LastCommonIsFull'
  BY <1>1, <1>2 DEF Sent, LastCommonIsFull, Linked, blockVars
<1>10. StallerOwes'
  <2> SUFFICES ASSUME NEW o \in Peers, node'[o].stalling PROVE node'[o].vBlocksInFlight # {}
    BY DEF StallerOwes
  <2>1. /\ node[o].stalling \/ \E b \in Blocks : mapBlocksInFlight[b] = o
        /\ node[o].vBlocksInFlight \subseteq node'[o].vBlocksInFlight
    BY <1>1 DEF Sent
  <2>2. node[o].vBlocksInFlight # {}
    BY <2>1, <1>3 DEF StallerOwes, InFlightConsistent
  <2>3. QED
    BY <2>1, <2>2
<1>11. Shape'
  <2>1. \A o \in Peers : node'[o].fPreferredDownload = node[o].fPreferredDownload
    BY <1>1 DEF Sent
  <2>2. QED
    BY <2>1, <1>2, <1>3 DEF Shape, Linked, blockVars
<1>12. QED
  BY <1>6, <1>7, <1>8, <1>9, <1>10, <1>11 DEF DownloadInv

-----------------------------------------------------------------------------
(* ProcessNewBlock.                                                        *)

\* After MarkBlockAsReceived(b) nobody owes b, and everything else is as it was.
Received(b) ==
    /\ node' \in [Peers -> NodeStates]
    /\ \A o \in Peers :
          /\ node'[o].best = node[o].best /\ node'[o].common = node[o].common
          /\ node'[o].fPreferredDownload = node[o].fPreferredDownload
          /\ node'[o].fSyncStarted = node[o].fSyncStarted
          /\ node'[o].vBlocksInFlight = node[o].vBlocksInFlight \ {b}
          /\ node'[o].nBlocksInFlight = Cardinality(node'[o].vBlocksInFlight)
          /\ node'[o].stalling => node'[o].vBlocksInFlight # {}
    /\ mapBlocksInFlight' \in [Blocks -> Peers \cup {None}]
    /\ \A c \in Blocks : mapBlocksInFlight'[c] = IF c = b THEN None ELSE mapBlocksInFlight[c]
    /\ nQueuedValidatedHeaders' \in Nat /\ nQueuedValidatedHeaders' >= Cardinality(BlocksInFlight')

LEMMA ReceivedEffect ==
  ASSUME DownloadInv, NEW b \in Blocks, MarkBlockAsReceived(b)
  PROVE  Received(b)
<1> DEFINE q == mapBlocksInFlight[b]
<1>1. /\ TypeOK /\ InFlightConsistent /\ Counters /\ StallerOwes
      /\ node \in [Peers -> NodeStates] /\ mapBlocksInFlight \in [Blocks -> Peers \cup {None}]
      /\ q \in Peers \cup {None} /\ nQueuedValidatedHeaders \in Nat
      /\ nQueuedValidatedHeaders >= Cardinality(BlocksInFlight)
  BY DEF DownloadInv, TypeOK, Counters
<1>2. ASSUME NEW o \in Peers
      PROVE  /\ node[o] \in NodeStates /\ node[o].vBlocksInFlight \subseteq Blocks
             /\ node[o].nBlocksInFlight = Cardinality(node[o].vBlocksInFlight)
             /\ node[o].stalling => node[o].vBlocksInFlight # {}
             /\ b \in node[o].vBlocksInFlight <=> q = o
  BY <1>1 DEF InFlightConsistent, StallerOwes, NodeStates
<1>3. CASE q = None
  <2>1. UNCHANGED <<mapBlocksInFlight, nQueuedValidatedHeaders, node>>
    BY <1>3 DEF MarkBlockAsReceived
  <2>2. \A o \in Peers : node[o].vBlocksInFlight = node[o].vBlocksInFlight \ {b}
    BY <1>2, <1>3, DownloadAssumption
  <2>3. nQueuedValidatedHeaders' >= Cardinality(BlocksInFlight')
    BY <1>1, <2>1 DEF BlocksInFlight
  <2>4. QED
    BY <1>1, <1>2, <1>3, <2>1, <2>2, <2>3 DEF Received
<1>4. CASE q # None
  <2> DEFINE v == node[q].vBlocksInFlight
             u == [node[q] EXCEPT !.vBlocksInFlight = @ \ {b}, !.nBlocksInFlight = @ - 1,
                                  !.stalling = FALSE]
  <2>1. /\ mapBlocksInFlight' = [mapBlocksInFlight EXCEPT ![b] = None]
        /\ nQueuedValidatedHeaders' = nQueuedValidatedHeaders - 1
        /\ node' = [node EXCEPT ![q].vBlocksInFlight = @ \ {b}, ![q].nBlocksInFlight = @ - 1,
                                ![q].stalling = FALSE]
    BY <1>4 DEF MarkBlockAsReceived
  <2>2. q \in Peers /\ node[q] \in NodeStates /\ b \in v /\ v \subseteq Blocks
    BY <1>1, <1>2, <1>4
  <2>3. node'[q] = u /\ \A o \in Peers : o # q => node'[o] = node[o]
    BY <1>1, <2>1, <2>2 DEF NodeStates
  <2>4. IsFiniteSet(v) /\ Cardinality(v) \in Nat /\ Cardinality(v \ {b}) = Cardinality(v) - 1
    <3>1. IsFiniteSet(v) /\ Cardinality(v) \in Nat
      BY <2>2, SubsetOfBlocks
    <3>2. QED
      BY <3>1, <2>2, FS_RemoveElement
  <2>5. Cardinality(v \ {b}) \in Nat
    BY <2>2, SubsetOfBlocks
  <2>6. /\ node[q].nBlocksInFlight = Cardinality(v)
        /\ node[q].nBlocksInFlight \in 0 .. MAX_BLOCKS_IN_TRANSIT_PER_PEER
        /\ node[q].nBlocksInFlight - 1 = Cardinality(v \ {b})
        /\ node[q].nBlocksInFlight - 1 \in 0 .. MAX_BLOCKS_IN_TRANSIT_PER_PEER
    <3>1. /\ node[q].nBlocksInFlight = Cardinality(v)
          /\ node[q].nBlocksInFlight \in 0 .. MAX_BLOCKS_IN_TRANSIT_PER_PEER
      BY <1>2, <2>2 DEF NodeStates
    <3>2. QED
      BY <3>1, <2>4, <2>5, DownloadAssumption
  <2>7. /\ u \in NodeStates /\ u.best = node[q].best /\ u.common = node[q].common
        /\ u.fPreferredDownload = node[q].fPreferredDownload
        /\ u.fSyncStarted = node[q].fSyncStarted
        /\ u.vBlocksInFlight = v \ {b} /\ u.nBlocksInFlight = Cardinality(v \ {b})
        /\ ~u.stalling
    <3> DEFINE n == node[q].nBlocksInFlight - 1
    <3>1. n \in 0 .. MAX_BLOCKS_IN_TRANSIT_PER_PEER /\ n = Cardinality(v \ {b})
      BY <2>6
    <3>2. u = [node[q] EXCEPT !.vBlocksInFlight = @ \ {b}, !.nBlocksInFlight = n, !.stalling = FALSE]
      OBVIOUS
    <3> HIDE DEF n, u
    <3>3. QED
      BY <2>2, <3>1, <3>2 DEF NodeStates
  <2> HIDE DEF u
  <2>8. node' \in [Peers -> NodeStates]
    <3>1. DOMAIN node' = Peers /\ \A o \in Peers : node'[o] \in NodeStates
      BY <1>1, <2>1, <2>3, <2>7
    <3>2. node' = [o \in Peers |-> node'[o]]
      BY <1>1, <2>1
    <3>3. QED
      BY <3>1, <3>2
  <2>9. ASSUME NEW o \in Peers
        PROVE /\ node'[o].best = node[o].best /\ node'[o].common = node[o].common
              /\ node'[o].fPreferredDownload = node[o].fPreferredDownload
              /\ node'[o].fSyncStarted = node[o].fSyncStarted
              /\ node'[o].vBlocksInFlight = node[o].vBlocksInFlight \ {b}
              /\ node'[o].nBlocksInFlight = Cardinality(node'[o].vBlocksInFlight)
              /\ node'[o].stalling => node'[o].vBlocksInFlight # {}
    <3>1. CASE o = q
      BY <3>1, <2>3, <2>7
    <3>2. CASE o # q
      <4>1. node'[o] = node[o] /\ node[o].vBlocksInFlight \ {b} = node[o].vBlocksInFlight
        BY <3>2, <2>3, <1>2
      <4>2. QED
        BY <4>1, <1>2
    <3>3. QED
      BY <3>1, <3>2
  <2>10. nQueuedValidatedHeaders' \in Nat /\ nQueuedValidatedHeaders' >= Cardinality(BlocksInFlight')
    <3>1. BlocksInFlight' = BlocksInFlight \ {b} /\ b \in BlocksInFlight /\ BlocksInFlight \subseteq Blocks
      BY <1>1, <1>4, <2>1 DEF BlocksInFlight
    <3>2. IsFiniteSet(BlocksInFlight) /\ Cardinality(BlocksInFlight) \in Nat
      BY <3>1, SubsetOfBlocks
    <3>3. /\ Cardinality(BlocksInFlight') = Cardinality(BlocksInFlight) - 1
          /\ Cardinality(BlocksInFlight') \in Nat
      BY <3>1, <3>2, FS_RemoveElement, SubsetOfBlocks
    <3>4. QED
      BY <1>1, <2>1, <3>2, <3>3
  <2>11. /\ mapBlocksInFlight' \in [Blocks -> Peers \cup {None}]
         /\ \A c \in Blocks : mapBlocksInFlight'[c] = IF c = b THEN None ELSE mapBlocksInFlight[c]
    BY <1>1, <2>1
  <2>12. QED
    BY <2>8, <2>9, <2>10, <2>11 DEF Received
<1>5. QED
  BY <1>3, <1>4

\* AcceptBlock touches only b: it may enter the index, and then either its
\* data is stored or it is marked as failed, or neither.
Accepted(b) ==
    /\ tip' = tip
    /\ index \subseteq index' /\ index' \subseteq index \cup {b} /\ data \subseteq data'
    /\ data' \subseteq data \cup {b} /\ failed' \subseteq failed \cup {b}
    /\ data' \subseteq index' /\ failed' \subseteq index' \ data'
    /\ \A c \in index' : Ancestors[c] \subseteq index'

LEMMA AcceptedEffect ==
  ASSUME DownloadInv, NEW b \in Blocks \ {Genesis}, AcceptBlock(b) \/ UNCHANGED blockVars
  PROVE  Accepted(b)
<1>1. /\ data \subseteq index /\ failed \subseteq index \ data /\ index \subseteq Blocks
      /\ \A c \in index : Ancestors[c] \subseteq index
  BY DEF DownloadInv, TypeOK, Shape
<1>2. CASE UNCHANGED <<index, data, failed, tip>>
  BY <1>1, <1>2 DEF Accepted
<1>3. CASE /\ UNCHANGED tip /\ Parent[b] \in index /\ b \notin data \cup failed
           /\ index' = index \cup {b}
           /\ failed' = IF b \in Bad THEN failed \cup {b} ELSE failed
           /\ data' = IF b \in Bad \/ ForkRefused(b) THEN data ELSE data \cup {b}
  <2>1. Ancestors[b] = {b} \cup Ancestors[Parent[b]]
    BY Tree
  <2>2. \A c \in index' : Ancestors[c] \subseteq index'
    BY <1>1, <1>3, <2>1
  <2>3. data' \subseteq index' /\ failed' \subseteq index' \ data'
    BY <1>1, <1>3
  <2>4. QED
    BY <1>3, <2>2, <2>3 DEF Accepted
<1>4. QED
  BY <1>2, <1>3 DEF AcceptBlock, blockVars

LEMMA ProcessStep ==
  ASSUME DownloadInv, NEW t \in Threads, NEW checked \in BOOLEAN, ProcessNewBlock(t, checked)
  PROVE  DownloadInv'
<1> DEFINE b == pc[t].block
<1>1. /\ pc[t].at = "process" /\ MarkBlockAsReceived(b)
      /\ AcceptBlock(b) \/ UNCHANGED blockVars
      /\ UNCHANGED <<life, version, nPreferredDownload, nSyncStarted>>
      /\ \/ pc' = [pc EXCEPT ![t].at = "activate"] /\ UNCHANGED fDisconnect
         \/ Returned(t)
  BY DEF ProcessNewBlock
<1>2. TypeOK /\ InFlightConsistent /\ Counters /\ LastCommonIsFull /\ Shape
  BY DEF DownloadInv
<1>3. b \in Blocks \ {Genesis}
  BY <1>1, <1>2 DEF Shape
<1>4. /\ pc' \in [Threads -> [at : {"idle", "process", "activate"}, peer : Peers \cup {None},
                              block : Blocks \cup {None}]]
      /\ \A u \in Threads : pc'[u].at # "idle" => pc'[u].block \in Blocks \ {Genesis}
  <2>1. CASE pc' = [pc EXCEPT ![t].at = "activate"]
    BY <1>1, <1>2, <2>1 DEF TypeOK, Shape
  <2>2. CASE Returned(t)
    BY <1>2, <2>2 DEF Returned, TypeOK, Shape, Idle
  <2>3. QED
    BY <1>1, <2>1, <2>2
<1>5. fDisconnect' \in [Peers -> BOOLEAN]
  <2>1. CASE UNCHANGED fDisconnect
    BY <1>2, <2>1 DEF TypeOK
  <2>2. CASE Returned(t)
    BY <1>2, <2>2, DownloadAssumption DEF Returned, TypeOK
  <2>3. QED
    BY <1>1, <2>1, <2>2
<1> HIDE DEF b
<1>6. Received(b) /\ Accepted(b)
  BY <1>1, <1>3, ReceivedEffect, AcceptedEffect
<1>7. \A c \in Blocks : Linked(c) => Linked(c)'
  BY <1>6 DEF Linked, Accepted
<1>8. TypeOK'
  <2>1. /\ index' \subseteq Blocks /\ data' \subseteq index' /\ failed' \subseteq index' \ data'
        /\ tip' \in data' /\ index \subseteq index'
    BY <1>2, <1>3, <1>6 DEF TypeOK, Accepted
  <2>2. \A p \in Peers : {node'[p].best, node'[p].common} \subseteq index' \cup {None}
    BY <1>2, <1>6, <2>1 DEF TypeOK, Received
  <2>3. QED
    BY <1>1, <1>2, <1>4, <1>5, <1>6, <2>1, <2>2 DEF TypeOK, Received
<1>9. InFlightConsistent'
  <2>1. \A c \in Blocks, o \in Peers : mapBlocksInFlight'[c] = o <=> c \in node'[o].vBlocksInFlight
    BY <1>2, <1>6, DownloadAssumption DEF InFlightConsistent, Received
  <2>2. \A o \in Peers : /\ node'[o].nBlocksInFlight = Cardinality(node'[o].vBlocksInFlight)
                         /\ node'[o].vBlocksInFlight # {} => life'[o] \in {"listed", "removed"}
    BY <1>1, <1>2, <1>6 DEF InFlightConsistent, Received
  <2>3. \A c \in Blocks : mapBlocksInFlight'[c] # None => c \in index' \ (data' \cup failed')
    BY <1>2, <1>6 DEF InFlightConsistent, Received, Accepted
  <2>4. QED
    BY <2>1, <2>2, <2>3 DEF InFlightConsistent
<1>10. Counters'
  <2>1. PreferredPeers' = PreferredPeers /\ SyncingPeers' = SyncingPeers
    BY <1>6 DEF PreferredPeers, SyncingPeers, Received
  <2>2. QED
    BY <1>1, <1>2, <1>6, <2>1 DEF Counters, Received
<1>11. LastCommonIsFull' /\ StallerOwes'
  <2>1. ASSUME NEW o \in Peers, node'[o].common # None PROVE Linked(node[o].common)'
    <3>1. node'[o].common = node[o].common
      BY <1>6 DEF Received
    <3>2. node[o].common \in Blocks /\ Linked(node[o].common)
      BY <1>2, <2>1, <3>1 DEF TypeOK, LastCommonIsFull
    <3>3. Ancestors[node[o].common] \subseteq data /\ data \subseteq data'
      BY <3>2, <1>6 DEF Linked, Accepted
    <3>4. QED
      BY <3>1, <3>3 DEF Linked
  <2>2. QED
    BY <2>1, <1>6 DEF LastCommonIsFull, StallerOwes, Received
<1>12. Shape'
  <2>1. Linked(tip)'
    BY <1>2, <1>6 DEF Shape, Linked, Accepted
  <2>2. \A p \in Peers : ~version'[p] => ~node'[p].fPreferredDownload
    BY <1>1, <1>2, <1>6 DEF Shape, Received
  <2>3. QED
    BY <1>4, <1>6, <2>1, <2>2 DEF Shape, Accepted
<1>13. QED
  BY <1>8, <1>9, <1>10, <1>11, <1>12 DEF DownloadInv

-----------------------------------------------------------------------------
LEMMA StutterStep ==
  ASSUME DownloadInv, UNCHANGED vars
  PROVE  DownloadInv'
<1>1. /\ UNCHANGED <<blockVars, version, node, mapBlocksInFlight,
                     nQueuedValidatedHeaders, nPreferredDownload, nSyncStarted>>
      /\ life' = life /\ fDisconnect' = fDisconnect /\ pc' = pc
  BY DEF vars, blockVars
<1>2. QED
  BY <1>1, QuietStep DEF DownloadInv, TypeOK, Shape

(* The bookkeeping of the block download holds together at every moment,   *)
(* whatever the threads of main.cpp interleave: DownloadInv is inductive.  *)
THEOREM DownloadInvariant == Spec => []DownloadInv
<1>1. ASSUME DownloadInv, Next PROVE DownloadInv'
  <2>1. ASSUME NEW p \in Peers,
               InitializeNode(p) \/ Version(p) \/ Disconnect(p) \/ RemoveNode(p) \/ FinalizeNode(p)
        PROVE  DownloadInv'
    BY <1>1, <2>1, ConnectionSteps, VersionStep, FinalizeStep
  <2>2. ASSUME NEW p \in Peers, NEW drop \in BOOLEAN, NEW recent \in BOOLEAN,
               NEW late \in SUBSET {"stall", "block"}, SendMessages(p, drop, recent, late)
        PROVE  DownloadInv'
    BY <1>1, <2>2, SendStep
  <2>3. ASSUME NEW p \in Peers, NEW b \in Offers[p], Inv(p, b) \/ BlockMessage(p, b)
        PROVE  DownloadInv'
    <3>1. b \in Blocks
      BY DownloadAssumption
    <3>2. CASE Inv(p, b)
      BY <1>1, <3>1, <3>2, AnnounceStep
    <3>3. CASE BlockMessage(p, b)
      <4>1. b # Genesis
        BY <3>3 DEF BlockMessage
      <4>2. QED
        BY <1>1, <3>1, <3>3, <4>1, ArrivalSteps
    <3>4. QED
      BY <2>3, <3>2, <3>3
  <2>4. ASSUME NEW b \in Submits, SubmitBlock(b) PROVE DownloadInv'
    <3>1. b \in Blocks \ {Genesis}
      BY DownloadAssumption
    <3>2. QED
      BY <1>1, <2>4, <3>1, ArrivalSteps
  <2>5. ASSUME NEW t \in Threads, NEW checked \in BOOLEAN, ProcessNewBlock(t, checked)
        PROVE  DownloadInv'
    BY <1>1, <2>5, ProcessStep
  <2>6. ASSUME NEW t \in Threads, ActivateBestChain(t) PROVE DownloadInv'
    BY <1>1, <2>6, ActivateStep
  <2>7. QED
    BY <1>1, <2>1, <2>2, <2>3, <2>4, <2>5, <2>6 DEF Next
<1>2. QED
  BY InitInv, <1>1, StutterStep, PTL DEF Spec

(* TypeOK of BlockDownload: the index, the stored and the failed blocks    *)
(* nest, pindexBestKnownBlock and pindexLastCommonBlock are in the index,  *)
(* and no peer is asked for more than MAX_BLOCKS_IN_TRANSIT_PER_PEER       *)
(* blocks at once, although SendMessages only bounds each batch.           *)
THEOREM DownloadTypeCorrect == Spec => []TypeOK
BY DownloadInvariant, PTL DEF DownloadInv

(* MarkBlockAsReceived may follow the NodeId and the iterator it finds in  *)
(* mapBlocksInFlight: map and lists agree in every reachable state, with   *)
(* FinalizeNode and the message and RPC threads in any order.              *)
THEOREM InFlightAlwaysConsistent == Spec => []InFlightConsistent
BY DownloadInvariant, PTL DEF DownloadInv

(* nPreferredDownload and nSyncStarted are the numbers of peers that exist *)
(* and have the flag, so neither goes below zero nor keeps a peer that     *)
(* FinalizeNode erased, whatever order peers come and go in.               *)
THEOREM PeerCountersAlwaysExact == Spec => []PeerCountersExact
BY DownloadInvariant, PTL DEF DownloadInv, Counters, PeerCountersExact

(* pindexLastCommonBlock only ever advances over blocks whose ancestors    *)
(* are all stored, reorganizations and concurrent submits included.        *)
THEOREM LastCommonAlwaysFull == Spec => []LastCommonIsFull
BY DownloadInvariant, PTL DEF DownloadInv

(* nStallingSince is never set for a peer that owes nothing, so the two    *)
(* seconds of the stalling timeout never run against such a peer.          *)
THEOREM StallerAlwaysOwes == Spec => []StallerOwes
BY DownloadInvariant, PTL DEF DownloadInv

=============================================================================
