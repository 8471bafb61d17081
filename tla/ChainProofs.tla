---------------------------- MODULE ChainProofs ----------------------------
(***************************************************************************)
(* Proofs about Chain, for every tree of blocks, any number of threads and *)
(* any number of commands and crashes.                                     *)
(*                                                                         *)
(* CoreInv is inductive on its own.  It gives TypeOK, LinksExact and       *)
(* ChainOnDisk: the index entries that differ from the database are dirty, *)
(* nothing is dirty while the coins are written, and the block that        *)
(* ActivateBestChainStep works towards has all its data and is not below   *)
(* the tip.                                                                *)
(*                                                                         *)
(* FlagInv adds the failure flags (ActiveChainValid and the assertion at   *)
(* startup), and WorkInv what the candidates are good for (MostWorkActive  *)
(* and CandidatesComplete).  These hold in the histories that the          *)
(* theorems name.                                                          *)
(***************************************************************************)
EXTENDS Chain, FiniteSetTheorems, WellFoundedInduction, TLAPS

-----------------------------------------------------------------------------
(* The core invariant.                                                     *)

\* The database holds nothing that memory lacks, and lacks nothing that is not
\* waiting in setDirtyBlockIndex.
DiskBehind ==
    /\ disk.data \subseteq data /\ data \ dirty \subseteq disk.data
    /\ disk.undo \subseteq undo /\ undo \ dirty \subseteq disk.undo

DiskShape ==
    /\ disk.data \subseteq disk.index /\ disk.undo \subseteq disk.data
    /\ disk.failedValid \subseteq disk.index /\ disk.failedChild \subseteq disk.index

UndoComplete ==
    (Path[tip] \cup Path[coins]) \ {Genesis} \subseteq undo

\* How far the holder of cs_main is.
HolderInv ==
    /\ flush = "no" <=> job.kind \in {"none", "step", "invalidate"} /\ newTip = NoBlock
    /\ job.kind \in {"none", "flush"} => newTip = NoBlock
    /\ job.kind = "none" => flush = "no"
    /\ coins = IF newTip = NoBlock THEN tip ELSE newTip
    /\ flush = "coins" => dirty = {}

\* The targets of the two loops.
TargetInv ==
    /\ job.kind = "step" =>
          /\ job.target \in chainTx /\ job.target \notin Path[tip]
          /\ newTip # NoBlock => newTip = job.target \/ job.target \notin Path[newTip]
    /\ job.kind = "invalidate" => job.target # Genesis

\* No candidate is below the tip.
CandidateWork ==
    \A c \in candidates : ChainWork[c] >= ChainWork[tip]

CoreInv ==
    /\ TypeOK /\ LinksExact /\ ChainOnDisk
    /\ DiskBehind /\ DiskShape /\ UndoComplete
    /\ HolderInv /\ TargetInv /\ CandidateWork

-----------------------------------------------------------------------------
(* The failure flags.                                                      *)

\* The disconnected tip is on disk before UpdateTip, and a connected one comes
\* after the best block of the coin database.
DiskTip ==
    /\ diskCoins \in Path[tip] \cup {coins}
    /\ flush = "done" /\ newTip \in Path[tip] => diskCoins = newTip
    /\ newTip # NoBlock =>
          \/ newTip \in Path[tip] \ {tip}
          \/ job.kind = "step" /\ tip \in Path[newTip] /\ newTip \in Path[job.target]

\* A failed block of the active chain is being taken out by InvalidateBlock.
FlagsOnChain ==
    /\ \A x \in Path[tip] \cap Failed : job.kind = "invalidate" /\ job.target \in Path[x]
    /\ job.kind = "step" => Path[job.target] \cap Failed = {}

DiskFlags ==
    /\ disk.failedValid \cup disk.failedChild \subseteq Failed \cup dirty
    /\ used.invalidate = 0 =>
          /\ job.kind # "invalidate"
          /\ Path[diskCoins] \cap (disk.failedValid \cup disk.failedChild) = {}

\* invalidateblock was not used, or the process did not crash.
NoHalfInvalidated == used.invalidate = 0 \/ used.crash = 0

FlagInv == DiskTip /\ DiskFlags /\ (NoHalfInvalidated => FlagsOnChain)

-----------------------------------------------------------------------------
(* What the candidates are good for.                                       *)

Valid(b) == b \in chainTx /\ Path[b] \cap Failed = {}

\* A valid block whose chain ConnectBlock accepts.
Sound(b) == Valid(b) /\ Path[b] \cap BadConnect = {}

\* A candidate to fall back on that is as good as b.
Covered(b) == \E c \in candidates : Sound(c) /\ ~Worse(c, b)

TipCovered == job.kind # "invalidate" => Covered(tip)

BetterCovered ==
    job.kind # "invalidate" =>
       \A b \in chainTx : Valid(b) /\ Worse(tip, b) => b \in candidates \/ Covered(b)

NothingBetter(t) == \A b \in chainTx : Valid(b) => ~Worse(t, b)

\* Blocks that were connected once are sound for ConnectBlock.
Connected ==
    (Path[tip] \cup Path[coins] \cup Path[diskCoins]) \cap BadConnect = {}

StepTarget ==
    job.kind = "step" =>
       /\ pc[job.thread] = "activate" /\ mostWork[job.thread] = job.target
       /\ NothingBetter(job.target)

\* Somebody is about to look for a better tip, or there is none.
Looking ==
    \/ job.kind \in {"step", "invalidate"}
    \/ \E t \in Threads : pc[t] = "activate" \/ (pc[t] = "loop" /\ mostWork[t] # tip)
    \/ NothingBetter(tip)

\* A failed ancestor explains every BLOCK_FAILED_CHILD, in memory and on disk.
ChildExplained ==
    /\ \A x \in failedChild : Path[x] \cap failedValid # {}
    /\ \A x \in disk.failedChild : Path[x] \cap disk.failedValid # {}
    /\ disk.failedValid \subseteq failedValid /\ failedValid \ dirty \subseteq disk.failedValid
    /\ job.kind = "invalidate" => job.target \in failedValid

\* reconsiderblock was not used, and no crash met an invalidateblock.
PlainHistory == used.reconsider = 0 /\ NoHalfInvalidated

BestKnown == TipCovered /\ BetterCovered /\ StepTarget /\ Looking

WorkInv ==
    /\ Connected
    /\ PlainHistory => BestKnown
    /\ used.reconsider = 0 => ChildExplained

-----------------------------------------------------------------------------
(* The tree of blocks.  The library's induction theorems need an operator  *)
(* as parameter; a least counterexample does instead.                      *)

LEMMA NatMinimum ==
  ASSUME NEW T, T \subseteq Nat, T # {}
  PROVE  \E x \in T : \A y \in T : x <= y
<1>1. \E x \in T : \A y \in T : ~(<<y, x>> \in OpToRel(<, Nat))
  BY NatLessThanWellFounded, WFMin
<1>2. PICK x \in T : \A y \in T : ~(<<y, x>> \in OpToRel(<, Nat))
  BY <1>1
<1>3. ASSUME NEW y \in T PROVE x <= y
  <2>1. x \in Nat /\ y \in Nat
    OBVIOUS
  <2>2. ~(y < x)
    BY <1>2, <2>1 DEF OpToRel
  <2>3. QED
    BY <2>1, <2>2
<1>4. QED
  BY <1>3

LEMMA Tree ==
  /\ Genesis \in Blocks /\ Parent \in [Blocks \ {Genesis} -> Blocks]
  /\ Path \in [Blocks -> SUBSET Blocks] /\ Path[Genesis] = {Genesis}
  /\ \A b \in Blocks \ {Genesis} : Path[b] = Path[Parent[b]] \cup {b}
  /\ Height \in [Blocks -> Nat]
  /\ \A b \in Blocks \ {Genesis} : Height[b] = Height[Parent[b]] + 1
  /\ ChainWork \in [Blocks -> Nat]
  /\ \A b \in Blocks \ {Genesis} : ChainWork[b] > ChainWork[Parent[b]]
  /\ NoBlock \notin Blocks
BY ChainAssumption

\* A set that holds the genesis block and follows the tree upwards is all of it.
LEMMA TreeInduction ==
  ASSUME NEW S, Genesis \in S, \A b \in Blocks \ {Genesis} : Parent[b] \in S => b \in S
  PROVE  \A b \in Blocks : b \in S
<1> SUFFICES ASSUME NEW d \in Blocks, d \notin S PROVE FALSE
  OBVIOUS
<1> DEFINE T == {Height[b] : b \in Blocks \ S}
<1>1. T \subseteq Nat /\ T # {}
  BY Tree
<1>2. PICK h \in T : \A y \in T : h <= y
  <2> HIDE DEF T
  <2> QED BY <1>1, NatMinimum
<1>3. PICK b \in Blocks \ S : h = Height[b]
  BY <1>2
<1>4. b # Genesis /\ Parent[b] \in Blocks \ S
  BY <1>3, Tree
<1>5. Height[Parent[b]] \in T /\ Height[b] = Height[Parent[b]] + 1 /\ Height[Parent[b]] \in Nat
  BY <1>4, <1>3, Tree
<1>6. h <= Height[Parent[b]]
  BY <1>2, <1>5
<1>7. QED
  BY <1>3, <1>5, <1>6

LEMMA PathSelf ==
  \A b \in Blocks : b \in Path[b] /\ Genesis \in Path[b] /\ Path[b] \subseteq Blocks
<1> DEFINE S == {b \in Blocks : b \in Path[b] /\ Genesis \in Path[b]}
<1>1. Genesis \in S
  BY Tree
<1>2. \A b \in Blocks \ {Genesis} : Parent[b] \in S => b \in S
  BY Tree
<1>3. \A b \in Blocks : b \in S
  <2> HIDE DEF S
  <2> QED BY <1>1, <1>2, TreeInduction
<1>4. QED
  BY <1>3, Tree

\* Going down a chain, height and work decrease.
LEMMA PathBelow ==
  \A b \in Blocks : \A a \in Path[b] :
     a = b \/ (Height[a] < Height[b] /\ ChainWork[a] < ChainWork[b])
<1> DEFINE S == {b \in Blocks : \A a \in Path[b] :
                    a = b \/ (Height[a] < Height[b] /\ ChainWork[a] < ChainWork[b])}
<1>1. Genesis \in S
  BY Tree
<1>2. ASSUME NEW b \in Blocks \ {Genesis}, Parent[b] \in S PROVE b \in S
  <2> SUFFICES ASSUME NEW a \in Path[b], a # b
               PROVE  Height[a] < Height[b] /\ ChainWork[a] < ChainWork[b]
    OBVIOUS
  <2>1. a \in Path[Parent[b]] /\ Parent[b] \in Blocks /\ a \in Blocks
    BY Tree
  <2>2. a = Parent[b] \/ (Height[a] < Height[Parent[b]] /\ ChainWork[a] < ChainWork[Parent[b]])
    BY <1>2, <2>1
  <2>3. /\ Height[a] \in Nat /\ Height[b] \in Nat /\ Height[Parent[b]] \in Nat
        /\ ChainWork[a] \in Nat /\ ChainWork[b] \in Nat /\ ChainWork[Parent[b]] \in Nat
        /\ Height[b] = Height[Parent[b]] + 1 /\ ChainWork[b] > ChainWork[Parent[b]]
    BY <2>1, Tree
  <2>4. QED
    BY <2>2, <2>3
<1>3. \A b \in Blocks : b \in S
  <2> HIDE DEF S
  <2> QED BY <1>1, <1>2, TreeInduction
<1>4. QED
  BY <1>3

LEMMA PathTrans ==
  \A b \in Blocks : \A a \in Path[b] : Path[a] \subseteq Path[b]
<1> DEFINE S == {b \in Blocks : \A a \in Path[b] : Path[a] \subseteq Path[b]}
<1>1. Genesis \in S
  BY Tree
<1>2. ASSUME NEW b \in Blocks \ {Genesis}, Parent[b] \in S PROVE b \in S
  <2>1. Path[b] = Path[Parent[b]] \cup {b}
    BY Tree
  <2>2. \A a \in Path[Parent[b]] : Path[a] \subseteq Path[Parent[b]]
    BY <1>2
  <2>3. QED
    BY <2>1, <2>2
<1>3. \A b \in Blocks : b \in S
  <2> HIDE DEF S
  <2> QED BY <1>1, <1>2, TreeInduction
<1>4. QED
  BY <1>3

\* A chain is linear.
LEMMA PathLinear ==
  \A b \in Blocks : \A a, c \in Path[b] : a \in Path[c] \/ c \in Path[a]
<1> DEFINE S == {b \in Blocks : \A a, c \in Path[b] : a \in Path[c] \/ c \in Path[a]}
<1>1. Genesis \in S
  BY Tree
<1>2. ASSUME NEW b \in Blocks \ {Genesis}, Parent[b] \in S PROVE b \in S
  <2> SUFFICES ASSUME NEW a \in Path[b], NEW c \in Path[b] PROVE a \in Path[c] \/ c \in Path[a]
    OBVIOUS
  <2>1. Path[b] = Path[Parent[b]] \cup {b}
    BY Tree
  <2>2. CASE a \in Path[Parent[b]] /\ c \in Path[Parent[b]]
    BY <1>2, <2>2
  <2>3. CASE a = b \/ c = b
    BY <2>3
  <2>4. QED
    BY <2>1, <2>2, <2>3
<1>3. \A b \in Blocks : b \in S
  <2> HIDE DEF S
  <2> QED BY <1>1, <1>2, TreeInduction
<1>4. QED
  BY <1>3

\* The higher of two blocks of a chain has the lower one below it.
LEMMA PathByHeight ==
  ASSUME NEW b \in Blocks, NEW a \in Path[b], NEW c \in Path[b], Height[a] <= Height[c]
  PROVE  a \in Path[c]
<1>1. a \in Blocks /\ c \in Blocks
  BY PathSelf
<1>2. CASE c \in Path[a]
  <2>1. Height[a] \in Nat /\ Height[c] \in Nat
    BY <1>1, Tree
  <2>2. c = a
    BY <1>1, <1>2, <2>1, PathBelow
  <2>3. QED
    BY <2>2, <1>1, PathSelf
<1>3. QED
  BY <1>2, PathLinear

\* A parent is below its child, and a chain leaves every block it passes.
LEMMA ParentBelow ==
  \A b \in Blocks \ {Genesis} :
     /\ Parent[b] \in Blocks /\ Parent[b] \in Path[b] /\ Parent[b] # b
     /\ b \notin Path[Parent[b]] /\ Path[Parent[b]] \subseteq Path[b]
<1> SUFFICES ASSUME NEW b \in Blocks \ {Genesis}
             PROVE  /\ Parent[b] \in Blocks /\ Parent[b] \in Path[b] /\ Parent[b] # b
                    /\ b \notin Path[Parent[b]] /\ Path[Parent[b]] \subseteq Path[b]
  OBVIOUS
<1>1. Parent[b] \in Blocks /\ Parent[b] \in Path[b] /\ Path[Parent[b]] \subseteq Path[b]
  BY Tree, PathSelf
<1>2. Height[b] = Height[Parent[b]] + 1 /\ Height[Parent[b]] \in Nat
  BY <1>1, Tree
<1>3. Parent[b] # b /\ ~(Height[b] < Height[Parent[b]])
  BY <1>2
<1>4. b \notin Path[Parent[b]]
  BY <1>1, <1>3, PathBelow
<1>5. QED
  BY <1>1, <1>3, <1>4

LEMMA PathNext ==
  \A b \in Blocks : \A a \in Path[b] :
     a # b => \E c \in Path[b] \ {Genesis} : Parent[c] = a
<1> DEFINE S == {b \in Blocks : \A a \in Path[b] :
                    a # b => \E c \in Path[b] \ {Genesis} : Parent[c] = a}
<1>1. Genesis \in S
  BY Tree
<1>2. ASSUME NEW b \in Blocks \ {Genesis}, Parent[b] \in S PROVE b \in S
  <2> SUFFICES ASSUME NEW a \in Path[b], a # b
               PROVE  \E c \in Path[b] \ {Genesis} : Parent[c] = a
    OBVIOUS
  <2>1. Path[b] = Path[Parent[b]] \cup {b}
    BY Tree
  <2>2. CASE a = Parent[b]
    BY <2>1, <2>2
  <2>3. CASE a # Parent[b]
    <3>1. \E c \in Path[Parent[b]] \ {Genesis} : Parent[c] = a
      BY <1>2, <2>1, <2>3
    <3>2. QED
      BY <3>1, <2>1
  <2>4. QED
    BY <2>2, <2>3
<1>3. \A b \in Blocks : b \in S
  <2> HIDE DEF S
  <2> QED BY <1>1, <1>2, TreeInduction
<1>4. QED
  BY <1>3

\* CChain::FindFork finds the tip itself exactly when the tip is below b.
LEMMA ForkIsTip ==
  ASSUME NEW a \in Blocks, NEW b \in Blocks
  PROVE  a = FindFork(a, b) <=> a \in Path[b]
<1> DEFINE C == Path[a] \cap Path[b]
           T == {Height[a] - Height[g] : g \in C}
<1>1. C \subseteq Blocks /\ Genesis \in C /\ a \in Path[a]
  BY PathSelf
<1>2. \A g \in C : Height[g] \in Nat /\ Height[a] \in Nat /\ Height[g] <= Height[a]
  BY <1>1, Tree, PathBelow
<1>3. T \subseteq Nat /\ T # {}
  <2>1. \A g \in C : Height[a] - Height[g] \in Nat
    BY <1>2
  <2>2. QED
    BY <1>1, <2>1
<1>4. PICK m \in T : \A y \in T : m <= y
  <2> HIDE DEF T
  <2> QED BY <1>3, NatMinimum
<1>5. PICK f \in C : m = Height[a] - Height[f]
  OBVIOUS
<1>6. \A g \in C : Height[g] <= Height[f]
  <2> SUFFICES ASSUME NEW g \in C PROVE Height[g] <= Height[f]
    OBVIOUS
  <2>1. Height[a] - Height[f] <= Height[a] - Height[g]
    BY <1>4, <1>5
  <2>2. QED
    BY <2>1, <1>2
<1>7. FindFork(a, b) \in C /\ \A g \in C : Height[g] <= Height[FindFork(a, b)]
  BY <1>6 DEF FindFork
<1>8. ASSUME a \in C PROVE a = FindFork(a, b)
  <2>1. Height[a] <= Height[FindFork(a, b)]
    BY <1>7, <1>8
  <2>2. Height[a] \in Nat /\ Height[FindFork(a, b)] \in Nat
    BY <1>2, <1>7
  <2>3. ~(Height[FindFork(a, b)] < Height[a])
    BY <2>1, <2>2
  <2>4. QED
    BY <2>3, <1>7, PathBelow
<1>9. QED
  BY <1>1, <1>7, <1>8

LEMMA NextTowardsIs ==
  ASSUME tip \in Blocks, NEW b \in Blocks, tip \in Path[b], b # tip
  PROVE  /\ NextTowards(b) \in Path[b] \ Path[tip] /\ NextTowards(b) \in Blocks \ {Genesis}
         /\ Parent[NextTowards(b)] = tip
<1>1. PICK c \in Path[b] \ {Genesis} : Parent[c] = tip
  BY PathNext
<1>2. c \in Blocks
  BY PathSelf
<1>3. c \notin Path[tip]
  BY <1>1, <1>2, ParentBelow
<1>4. NextTowards(b) \in Path[b] \ Path[tip] /\ Parent[NextTowards(b)] = tip
  BY <1>1, <1>3 DEF NextTowards
<1>5. QED
  BY <1>4, PathSelf

-----------------------------------------------------------------------------
(* CBlockIndexWorkComparator is a strict weak order.                       *)

LEMMA AddressType ==
  ASSUME addr \in Addresses
  PROVE  addr \in [Blocks -> Nat] /\ \A b, c \in Blocks : addr[b] = addr[c] => b = c
BY ChainAssumption

LEMMA WorseOrder ==
  ASSUME seq \in [Blocks -> Nat], addr \in Addresses, NEW a \in Blocks, NEW b \in Blocks
  PROVE  /\ Worse(a, b) => ~Worse(b, a)
         /\ ~Worse(a, a)
         /\ ~Worse(a, b) /\ ~Worse(b, a) => a = b
         /\ Worse(a, b) => ChainWork[a] <= ChainWork[b]
         /\ ChainWork[a] < ChainWork[b] => Worse(a, b)
<1>1. /\ ChainWork[a] \in Nat /\ ChainWork[b] \in Nat /\ seq[a] \in Nat /\ seq[b] \in Nat
      /\ addr[a] \in Nat /\ addr[b] \in Nat /\ (addr[a] = addr[b] => a = b)
  BY Tree, AddressType
<1>2. QED
  BY <1>1 DEF Worse, WorseBy

LEMMA WorseTrans ==
  ASSUME seq \in [Blocks -> Nat], addr \in Addresses,
         NEW a \in Blocks, NEW b \in Blocks, NEW c \in Blocks
  PROVE  /\ Worse(a, b) /\ Worse(b, c) => Worse(a, c)
         /\ ~Worse(a, b) /\ ~Worse(b, c) => ~Worse(a, c)
<1>1. /\ ChainWork[a] \in Nat /\ ChainWork[b] \in Nat /\ ChainWork[c] \in Nat
      /\ seq[a] \in Nat /\ seq[b] \in Nat /\ seq[c] \in Nat
      /\ addr[a] \in Nat /\ addr[b] \in Nat /\ addr[c] \in Nat
  BY Tree, AddressType
<1>2. QED
  BY <1>1 DEF Worse, WorseBy

\* A set of blocks has a best one: the one with the fewest blocks above it.
LEMMA BestIs ==
  ASSUME seq \in [Blocks -> Nat], addr \in Addresses, NEW S, S \subseteq Blocks, S # {}
  PROVE  Best(S) \in S /\ \A c \in S : ~Worse(Best(S), c)
<1> DEFINE Above(b) == {c \in S : Worse(b, c)}
           T == {Cardinality(Above(b)) : b \in S}
<1>1. IsFiniteSet(S)
  BY ChainAssumption, FS_Subset
<1>2. \A b \in S : IsFiniteSet(Above(b)) /\ Cardinality(Above(b)) \in Nat
  <2> SUFFICES ASSUME NEW b \in S PROVE IsFiniteSet(Above(b)) /\ Cardinality(Above(b)) \in Nat
    OBVIOUS
  <2>1. Above(b) \in SUBSET S
    OBVIOUS
  <2> HIDE DEF Above
  <2>2. IsFiniteSet(Above(b))
    BY <1>1, <2>1, FS_Subset
  <2>3. QED
    BY <2>2, FS_CardinalityType
<1>3. T \subseteq Nat /\ T # {}
  <2> HIDE DEF Above
  <2> QED BY <1>2
<1>4. PICK m \in T : \A y \in T : m <= y
  <2> HIDE DEF T
  <2> QED BY <1>3, NatMinimum
<1>5. PICK b \in S : m = Cardinality(Above(b))
  OBVIOUS
<1>6. \A c \in S : ~Worse(b, c)
  <2> SUFFICES ASSUME NEW c \in S, Worse(b, c) PROVE FALSE
    OBVIOUS
  <2>1. Above(c) \subseteq Above(b)
    BY WorseTrans
  <2>2. c \in Above(b) /\ c \notin Above(c)
    BY WorseOrder
  <2> HIDE DEF Above
  <2>3. /\ Cardinality(Above(c)) <= Cardinality(Above(b))
        /\ Cardinality(Above(b)) = Cardinality(Above(c)) => Above(b) = Above(c)
    BY <1>2, <2>1, FS_Subset
  <2>4. Cardinality(Above(b)) <= Cardinality(Above(c))
    BY <1>4, <1>5
  <2>5. QED
    BY <1>2, <2>2, <2>3, <2>4
<1>7. QED
  BY <1>6 DEF Best

-----------------------------------------------------------------------------
(* The core invariant is preserved by every action.                        *)

LEMMA JobShape ==
  ASSUME NEW j \in Jobs
  PROVE  /\ j.kind \in {"none", "step", "invalidate", "flush"}
         /\ j.kind = "none" <=> j = Free
         /\ j.kind = "step" => j.thread \in Threads /\ j.target \in Blocks /\ j.old \in Blocks
         /\ j.kind = "invalidate" => j.thread \in Threads /\ j.target \in Blocks
BY DEF Jobs, Free

LEMMA CoreFacts ==
  ASSUME CoreInv
  PROVE  /\ tip \in Blocks /\ coins \in Blocks /\ diskCoins \in Blocks
         /\ chainTx \subseteq Blocks /\ data \subseteq Blocks /\ candidates \subseteq Blocks
         /\ \A c \in chainTx : Path[c] \subseteq data
         /\ Path[tip] \subseteq data /\ Path[coins] \subseteq data
         /\ job = Free => flush = "no" /\ newTip = NoBlock /\ coins = tip
         /\ job.kind \in {"none", "step", "invalidate", "flush"}
<1>1. TypeOK /\ LinksExact /\ HolderInv
  BY DEF CoreInv
<1>2. chainTx \subseteq Blocks /\ data \subseteq Blocks /\ \A c \in chainTx : Path[c] \subseteq data
  BY <1>1 DEF TypeOK, LinksExact
<1>3. tip \in chainTx /\ coins \in chainTx /\ diskCoins \in Blocks /\ job \in Jobs /\ candidates \subseteq chainTx
  BY <1>1 DEF TypeOK
<1>4. job = Free => flush = "no" /\ newTip = NoBlock /\ coins = tip
  BY <1>1 DEF HolderInv, Free
<1>5. QED
  BY <1>2, <1>3, <1>4, JobShape

LEMMA InitCore == Init => CoreInv
<1> SUFFICES ASSUME Init PROVE CoreInv
  OBVIOUS
<1>1. Free \in Jobs
  BY DEF Jobs
<1>2. seq \in [Blocks -> Nat] /\ nBlockSequenceId \in Nat
  BY DEF Init
<1>3. disk \in DiskIndex
  BY Tree DEF Init, DiskIndex
<1>4. pc \in [Threads -> {"idle", "activate", "loop"}] /\ mostWork \in [Threads -> Blocks \cup {NoBlock}]
  BY DEF Init
<1>5. used \in [invalidate : Nat, reconsider : Nat, crash : Nat]
  BY DEF Init
<1>6. TypeOK
  BY <1>1, <1>2, <1>3, <1>4, <1>5, Tree DEF Init, TypeOK
<1>7. LinksExact /\ ChainOnDisk /\ DiskBehind /\ DiskShape /\ UndoComplete
  BY Tree DEF Init, LinksExact, ChainOnDisk, DiskBehind, DiskShape, UndoComplete
<1>8. HolderInv /\ TargetInv
  BY DEF Init, HolderInv, TargetInv, Free
<1>9. CandidateWork
  <2>1. ChainWork[Genesis] \in Nat
    BY Tree
  <2>2. QED
    BY <2>1 DEF Init, CandidateWork
<1>10. QED
  BY <1>6, <1>7, <1>8, <1>9 DEF CoreInv

\* A block with data whose ancestors all have data is linked when the last of
\* them arrives.
LEMMA LinkedIs ==
  ASSUME CoreInv, NEW b \in Blocks \ {Genesis}, b \notin data, Parent[b] \in chainTx
  PROVE  /\ LinkedBy(b) \subseteq data \cup {b} /\ b \in LinkedBy(b)
         /\ LinkedBy(b) \cap chainTx = {} /\ LinkedBy(b) \ {b} \subseteq unlinked
         /\ chainTx \cup LinkedBy(b) = {c \in data \cup {b} : Path[c] \subseteq data \cup {b}}
<1>1. /\ LinksExact /\ data \subseteq Blocks /\ \A c \in chainTx : Path[c] \subseteq data
  BY CoreFacts DEF CoreInv
<1>2. Path[b] = Path[Parent[b]] \cup {b}
  BY Tree
<1>3. LinkedBy(b) \subseteq data \cup {b} /\ b \in LinkedBy(b) /\ LinkedBy(b) \ {b} \subseteq unlinked
  BY <1>1 DEF LinkedBy, LinksExact
<1>4. LinkedBy(b) \cap chainTx = {}
  BY <1>1, <1>3 DEF LinksExact
<1>5. ASSUME NEW c \in chainTx \cup LinkedBy(b)
      PROVE  c \in data \cup {b} /\ Path[c] \subseteq data \cup {b}
  <2>1. CASE c \in chainTx
    BY <2>1, <1>1 DEF LinksExact
  <2>2. CASE c = b
    BY <2>2, <1>1, <1>2
  <2>3. CASE c \in unlinked /\ Path[c] \ Path[b] \subseteq unlinked
    BY <2>3, <1>1, <1>2 DEF LinksExact
  <2>4. QED
    BY <1>5, <2>1, <2>2, <2>3 DEF LinkedBy
<1>6. ASSUME NEW c \in data \cup {b}, Path[c] \subseteq data \cup {b}
      PROVE  c \in chainTx \cup LinkedBy(b)
  <2>1. CASE b \notin Path[c]
    <3>1. c # b /\ Path[c] \subseteq data
      BY <1>6, <2>1, PathSelf
    <3>2. QED
      BY <3>1, <1>1 DEF LinksExact
  <2>2. CASE b \in Path[c] /\ c # b
    <3>1. c \in unlinked
      BY <2>2, <1>1 DEF LinksExact
    <3>2. ASSUME NEW a \in Path[c] \ Path[b] PROVE a \in unlinked
      <4>1. a \in data
        BY <1>6, <3>2, PathSelf
      <4>2. b \in Path[a]
        BY <2>2, <1>1, PathLinear
      <4>3. QED
        BY <4>1, <4>2, <1>1 DEF LinksExact
    <3>3. QED
      BY <3>1, <3>2, <2>2 DEF LinkedBy
  <2>3. QED
    BY <1>3, <2>1, <2>2
<1>7. QED
  BY <1>3, <1>4, <1>5, <1>6

\* A block whose parent is not linked changes no link.
LEMMA UnlinkedIs ==
  ASSUME CoreInv, NEW b \in Blocks \ {Genesis}, b \notin data, Parent[b] \notin chainTx
  PROVE  chainTx = {c \in data \cup {b} : Path[c] \subseteq data \cup {b}}
<1>1. LinksExact /\ data \subseteq Blocks
  BY CoreFacts DEF CoreInv
<1>2. /\ Parent[b] \in Blocks /\ b \notin Path[Parent[b]] /\ Path[Parent[b]] \subseteq Path[b]
      /\ Parent[b] \in Path[Parent[b]]
  BY ParentBelow, PathSelf
<1>3. PICK m \in Path[Parent[b]] : m \notin data \cup {b}
  BY <1>1, <1>2 DEF LinksExact
<1>4. ASSUME NEW c \in data \cup {b}, Path[c] \subseteq data \cup {b} PROVE c \in chainTx
  <2>1. b \notin Path[c]
    <3> SUFFICES ASSUME b \in Path[c] PROVE FALSE
      OBVIOUS
    <3>1. Path[b] \subseteq Path[c]
      BY <1>1, PathTrans
    <3>2. QED
      BY <3>1, <1>2, <1>3, <1>4
  <2>2. QED
    BY <2>1, <1>1, <1>4, PathSelf DEF LinksExact
<1>5. QED
  BY <1>1, <1>4 DEF LinksExact

\* ReceivedBlockTransactions.
LEMMA ReceivedCore ==
  ASSUME CoreInv, NEW b \in Blocks \ {Genesis}, b \notin data, Parent[b] \notin Failed,
         data' = data \cup {b}, ReceivedBlockTransactions(b), UNCHANGED <<tip, addr>>
  PROVE  /\ LinksExact' /\ chainTx \subseteq chainTx' /\ chainTx' \subseteq data'
         /\ seq' \in [Blocks -> Nat] /\ nBlockSequenceId' \in Nat
         /\ candidates \subseteq candidates' /\ candidates' \subseteq chainTx' /\ unlinked' \subseteq data'
         /\ \A c \in chainTx : seq'[c] = seq[c]
         /\ \A c \in candidates' \ candidates : ~WorseBy(seq', c, tip)
         /\ \A c \in chainTx' \ chainTx : c \in candidates' \/ WorseBy(seq', c, tip)
<1>0. LinksExact /\ TypeOK /\ data \subseteq Blocks
  BY CoreFacts DEF CoreInv
<1>1. CASE Parent[b] \in chainTx
  <2> DEFINE L == LinkedBy(b)
  <2>1. /\ L \subseteq data \cup {b} /\ b \in L /\ L \cap chainTx = {} /\ L \ {b} \subseteq unlinked
        /\ chainTx \cup L = {c \in data \cup {b} : Path[c] \subseteq data \cup {b}}
    BY <1>1, LinkedIs
  <2>2. PICK s \in [L -> nBlockSequenceId .. nBlockSequenceId + Cardinality(L) - 1] :
           seq' = [c \in Blocks |-> IF c \in L THEN s[c] ELSE seq[c]]
    BY <1>1 DEF ReceivedBlockTransactions
  <2>3. /\ chainTx' = chainTx \cup L /\ unlinked' = unlinked \ L
        /\ nBlockSequenceId' = nBlockSequenceId + Cardinality(L)
        /\ candidates' = candidates \cup {c \in L : ~WorseBy(seq', c, tip)}
    BY <1>1 DEF ReceivedBlockTransactions
  <2> HIDE DEF L
  <2>4. Cardinality(L) \in Nat
    <3>1. L \subseteq Blocks
      BY <1>0, <2>1
    <3>2. IsFiniteSet(L)
      BY <3>1, ChainAssumption, FS_Subset
    <3>3. QED
      BY <3>2, FS_CardinalityType
  <2>5. nBlockSequenceId \in Nat /\ nBlockSequenceId' \in Nat
    BY <1>0, <2>3, <2>4 DEF TypeOK
  <2>6. seq \in [Blocks -> Nat] /\ \A c \in L : s[c] \in Nat
    BY <1>0, <2>2, <2>4, <2>5 DEF TypeOK
  <2>7. seq' \in [Blocks -> Nat]
    BY <2>2, <2>6
  <2>8. LinksExact'
    BY <1>0, <2>1, <2>3 DEF LinksExact
  <2>9. candidates \subseteq chainTx /\ chainTx \subseteq data /\ unlinked \subseteq data
    BY <1>0 DEF TypeOK
  <2>10. \A c \in chainTx : seq'[c] = seq[c]
    BY <2>1, <2>2, <2>9, <1>0
  <2>11. QED
    BY <2>1, <2>3, <2>5, <2>7, <2>8, <2>9, <2>10
<1>2. CASE Parent[b] \notin chainTx
  <2>1. /\ unlinked' = unlinked \cup {b}
        /\ UNCHANGED <<chainTx, seq, nBlockSequenceId, candidates>>
    BY <1>2 DEF ReceivedBlockTransactions
  <2>2. chainTx = {c \in data \cup {b} : Path[c] \subseteq data \cup {b}}
    BY <1>2, UnlinkedIs
  <2>3. LinksExact'
    <3>1. b \notin chainTx
      BY <1>0 DEF TypeOK
    <3>2. QED
      BY <1>0, <2>1, <2>2, <3>1 DEF LinksExact
  <2>4. QED
    BY <1>0, <2>1, <2>3 DEF TypeOK
<1>3. QED
  BY <1>1, <1>2

\* What every outcome of AcceptBlock leaves in the index.
LEMMA AcceptFacts ==
  ASSUME CoreInv, NEW t \in Threads, NEW b \in Blocks, ProcessNewBlock(t, b)
  PROVE  /\ b # Genesis /\ Parent[b] \notin Failed /\ index' = index \cup {b}
         /\ UNCHANGED <<undo, failedChild, addr, tip, coins, disk, diskCoins, mostWork, job, flush, newTip, used>>
         /\ job = Free
         /\ \/ b \notin data /\ AcceptStored(t, b)
            \/ /\ UNCHANGED <<data, chainTx, seq, nBlockSequenceId, candidates, unlinked>>
               /\ \/ failedValid' = failedValid
                  \/ b \notin data /\ failedValid' = failedValid \cup {b} /\ b \in dirty'
         /\ data' = data \/ data' = data \cup {b}
         /\ dirty \subseteq dirty' /\ dirty' \subseteq dirty \cup {b}
         /\ data' \ data \subseteq dirty'
         /\ pc' = pc \/ pc' = [pc EXCEPT ![t] = "activate"]
BY DEF ProcessNewBlock, Offered, HeaderRefused, AcceptFailed, AcceptHeaderOnly, AcceptStored,
       AcceptKnown, durable, ReceivedBlockTransactions

LEMMA ProcessCore ==
  ASSUME CoreInv, NEW t \in Threads, NEW b \in Blocks, ProcessNewBlock(t, b)
  PROVE  CoreInv'
<1>1. /\ b \in Blocks \ {Genesis} /\ Parent[b] \notin Failed /\ index' = index \cup {b}
      /\ UNCHANGED <<undo, failedChild, addr, tip, coins, disk, diskCoins, mostWork, job, flush, newTip, used>>
      /\ job = Free
      /\ data' = data \/ data' = data \cup {b}
      /\ dirty \subseteq dirty' /\ dirty' \subseteq dirty \cup {b} /\ data' \ data \subseteq dirty'
      /\ pc' = pc \/ pc' = [pc EXCEPT ![t] = "activate"]
  BY AcceptFacts
<1>2. /\ TypeOK /\ LinksExact /\ ChainOnDisk /\ DiskBehind /\ DiskShape /\ UndoComplete
      /\ HolderInv /\ TargetInv /\ CandidateWork
  BY DEF CoreInv
<1>3. /\ failedValid' \subseteq index'
      /\ failedValid' = failedValid \/ failedValid' = failedValid \cup {b}
  <2>1. failedValid' = failedValid \/ failedValid' = failedValid \cup {b}
    BY AcceptFacts DEF AcceptStored
  <2>2. QED
    BY <2>1, <1>1, <1>2 DEF TypeOK
<1>4. /\ LinksExact' /\ chainTx \subseteq chainTx' /\ chainTx' \subseteq data'
      /\ seq' \in [Blocks -> Nat] /\ nBlockSequenceId' \in Nat
      /\ candidates' \subseteq chainTx' /\ unlinked' \subseteq data'
      /\ \A c \in candidates' \ candidates : ~WorseBy(seq', c, tip)
  <2>1. CASE b \notin data /\ AcceptStored(t, b)
    <3>1. data' = data \cup {b} /\ ReceivedBlockTransactions(b)
      BY <2>1 DEF AcceptStored
    <3>2. QED
      BY <1>1, <2>1, <3>1, ReceivedCore
  <2>2. CASE UNCHANGED <<data, chainTx, seq, nBlockSequenceId, candidates, unlinked>>
    BY <1>2, <2>2 DEF LinksExact, TypeOK
  <2>3. QED
    BY <2>1, <2>2, AcceptFacts
<1>5. data' \subseteq index' /\ undo' \subseteq data'
  BY <1>1, <1>2 DEF TypeOK
<1>6. pc' \in [Threads -> {"idle", "activate", "loop"}]
  BY <1>1, <1>2 DEF TypeOK
<1>7. TypeOK'
  <2>1. index' \subseteq Blocks /\ failedChild' \subseteq index' /\ dirty' \subseteq index'
    BY <1>1, <1>2 DEF TypeOK
  <2>2. tip' \in chainTx' /\ coins' \in chainTx'
    BY <1>1, <1>2, <1>4 DEF TypeOK
  <2>3. /\ addr' \in Addresses /\ disk' \in DiskIndex /\ diskCoins' \in Blocks
        /\ mostWork' \in [Threads -> Blocks \cup {NoBlock}] /\ job' \in Jobs
        /\ flush' \in {"no", "index", "coins", "done"} /\ newTip' \in Blocks \cup {NoBlock}
        /\ used' \in [invalidate : Nat, reconsider : Nat, crash : Nat]
    BY <1>1, <1>2 DEF TypeOK
  <2>4. QED
    BY <1>3, <1>4, <1>5, <1>6, <2>1, <2>2, <2>3 DEF TypeOK
<1>8. ChainOnDisk' /\ DiskShape'
  BY <1>1, <1>2 DEF ChainOnDisk, DiskShape
<1>9. DiskBehind'
  BY <1>1, <1>2 DEF DiskBehind
<1>10. UndoComplete'
  BY <1>1, <1>2 DEF UndoComplete
<1>11. HolderInv' /\ TargetInv'
  <2>1. flush = "no" /\ newTip = NoBlock /\ coins = tip
    BY <1>1, CoreFacts
  <2>2. QED
    BY <1>1, <2>1 DEF HolderInv, TargetInv, Free
<1>12. CandidateWork'
  <2> SUFFICES ASSUME NEW c \in candidates' PROVE ChainWork[c] >= ChainWork[tip]
    BY <1>1 DEF CandidateWork
  <2>1. CASE c \in candidates
    BY <2>1, <1>2 DEF CandidateWork
  <2>2. CASE c \notin candidates
    <3>1. ~(ChainWork[c] < ChainWork[tip])
      BY <2>2, <1>4 DEF WorseBy
    <3>2. c \in Blocks /\ tip \in Blocks
      BY <1>4, <1>5, <1>1, <1>2 DEF TypeOK
    <3>3. ChainWork[c] \in Nat /\ ChainWork[tip] \in Nat
      BY <3>2, Tree
    <3>4. QED
      BY <3>1, <3>3
  <2>3. QED
    BY <2>1, <2>2
<1>13. QED
  BY <1>4, <1>7, <1>8, <1>9, <1>10, <1>11, <1>12 DEF CoreInv

\* FindMostWorkChain.  A candidate has all its data, so that a candidate that
\* is tried in vain has a failed block, and nothing becomes unlinked.
LEMMA DropTriedIs ==
  ASSUME CoreInv, DropTried
  PROVE  /\ candidates' \subseteq candidates /\ unlinked' = unlinked
         /\ failedChild \subseteq failedChild' /\ failedChild' \subseteq data \cup failedChild
         /\ \A x \in failedChild' \ failedChild :
               \E d \in Path[x] \ Path[tip] : d \in Failed
         /\ \A x \in candidates \ candidates' : Path[x] \cap Failed # {}
<1> DEFINE above(c) == Dropped(c) \ Defects(c)
           bad == {c \in Tried : Dropped(c) \cap Failed # {}}
<1>1. /\ candidates' = candidates \ UNION {Dropped(c) : c \in Tried}
      /\ failedChild' = failedChild \cup UNION {above(c) : c \in bad}
      /\ unlinked' = unlinked \cup UNION {above(c) : c \in Tried \ bad}
  BY DEF DropTried
<1>2. /\ candidates \subseteq chainTx /\ chainTx \subseteq Blocks
      /\ \A c \in chainTx : Path[c] \subseteq data
  BY CoreFacts DEF CoreInv, TypeOK
<1>3. ASSUME NEW c \in Tried, NEW a \in Dropped(c)
      PROVE  /\ a \in data /\ a \in Path[c]
             /\ \E d \in Dropped(c) : d \in Path[a] /\ d \notin Path[tip] /\ d \in Failed
  <2>1. c \in candidates /\ c \in Blocks /\ Path[c] \subseteq data
    BY <1>2 DEF Tried
  <2>2. PICK d \in Defects(c) : /\ \A e \in Defects(c) : Height[e] <= Height[d]
                                /\ Height[a] >= Height[d]
    BY DEF Dropped
  <2>3. a \in Path[c] /\ d \in Path[c] /\ d \notin Path[tip] /\ d \in Failed
    BY <2>1, <2>2 DEF Dropped, Defects
  <2>4. a \in Blocks /\ d \in Blocks /\ Height[a] \in Nat /\ Height[d] \in Nat
    BY <2>1, <2>3, PathSelf, Tree
  <2>5. d \in Path[a]
    <3>1. Height[d] <= Height[a]
      BY <2>2, <2>4
    <3>2. QED
      BY <3>1, <2>1, <2>3, PathByHeight
  <2>6. d \in Dropped(c)
    <3>1. Height[d] >= Height[d]
      BY <2>4
    <3>2. QED
      BY <3>1, <2>2, <2>3 DEF Dropped
  <2>7. QED
    BY <2>1, <2>3, <2>5, <2>6
<1>4. ASSUME NEW c \in Tried \ bad PROVE above(c) = {}
  BY <1>3
<1>5. unlinked' = unlinked
  BY <1>1, <1>4
<1>6. \A x \in failedChild' \ failedChild : \E c \in Tried : x \in Dropped(c)
  BY <1>1
<1>7. \A x \in candidates \ candidates' : \E c \in Tried : x \in Dropped(c)
  BY <1>1
<1>8. ASSUME NEW x \in failedChild' \ failedChild
      PROVE  x \in data /\ \E d \in Path[x] \ Path[tip] : d \in Failed
  BY <1>3, <1>6
<1>9. ASSUME NEW x \in candidates \ candidates' PROVE Path[x] \cap Failed # {}
  BY <1>3, <1>7
<1>10. QED
  BY <1>1, <1>5, <1>8, <1>9

\* The target of a step is a usable candidate other than the tip.
LEMMA TargetIs ==
  ASSUME CoreInv, Usable # {}, Best(Usable) # tip
  PROVE  /\ Best(Usable) \in Usable /\ Best(Usable) \in chainTx /\ Best(Usable) \notin Path[tip]
         /\ \A c \in Usable : ~Worse(Best(Usable), c)
<1>1. seq \in [Blocks -> Nat] /\ addr \in Addresses /\ candidates \subseteq chainTx
  BY DEF CoreInv, TypeOK
<1>2. Usable \subseteq candidates /\ candidates \subseteq Blocks /\ tip \in Blocks
  BY CoreFacts DEF Usable
<1>3. Best(Usable) \in Usable /\ \A c \in Usable : ~Worse(Best(Usable), c)
  BY <1>1, <1>2, BestIs
<1>4. Best(Usable) \in candidates /\ Best(Usable) \in Blocks
  BY <1>2, <1>3
<1>5. ChainWork[Best(Usable)] >= ChainWork[tip]
  BY <1>4 DEF CoreInv, CandidateWork
<1>6. ChainWork[Best(Usable)] \in Nat /\ ChainWork[tip] \in Nat
  BY <1>2, <1>4, Tree
<1>7. ~(ChainWork[Best(Usable)] < ChainWork[tip])
  BY <1>5, <1>6
<1>8. Best(Usable) \notin Path[tip]
  BY <1>2, <1>7, PathBelow
<1>9. QED
  BY <1>1, <1>3, <1>4, <1>8

LEMMA ActivateCore ==
  ASSUME CoreInv, NEW t \in Threads, NothingToDo(t) \/ StartStep(t)
  PROVE  CoreInv'
<1>1. /\ DropTried /\ job = Free
      /\ UNCHANGED <<index, data, undo, failedValid, chainTx, seq, nBlockSequenceId, addr, tip,
                     coins, dirty, disk, diskCoins, flush, newTip, used>>
  BY DEF NothingToDo, StartStep, order, durable
<1>2. /\ candidates' \subseteq candidates /\ unlinked' = unlinked
      /\ failedChild' \subseteq data \cup failedChild
  BY <1>1, DropTriedIs
<1>3. /\ TypeOK /\ LinksExact /\ ChainOnDisk /\ DiskBehind /\ DiskShape /\ UndoComplete
      /\ HolderInv /\ TargetInv /\ CandidateWork
  BY DEF CoreInv
<1>4. flush = "no" /\ newTip = NoBlock /\ coins = tip
  BY <1>1, CoreFacts
<1>5. /\ pc' \in [Threads -> {"idle", "activate", "loop"}]
      /\ mostWork' \in [Threads -> Blocks \cup {NoBlock}] /\ job' \in Jobs
      /\ HolderInv' /\ TargetInv'
  <2>1. CASE NothingToDo(t)
    <3>1. /\ pc' = [pc EXCEPT ![t] = "idle"] /\ mostWork' = [mostWork EXCEPT ![t] = NoBlock]
          /\ job' = job
      BY <2>1 DEF NothingToDo
    <3>2. HolderInv' /\ TargetInv'
      BY <1>1, <1>4, <3>1 DEF HolderInv, TargetInv, Free
    <3>3. QED
      BY <1>3, <3>1, <3>2 DEF TypeOK
  <2>2. CASE StartStep(t)
    <3> DEFINE b == Best(Usable)
    <3>1. /\ mostWork' = [mostWork EXCEPT ![t] = b] /\ pc' = pc
          /\ job' = [kind |-> "step", thread |-> t, target |-> b, old |-> tip]
          /\ Usable # {} /\ b # tip
      BY <2>2 DEF StartStep
    <3>2. b \in chainTx /\ b \notin Path[tip] /\ b \in Blocks /\ tip \in Blocks
      BY <3>1, TargetIs, CoreFacts
    <3> HIDE DEF b
    <3>3. job' \in Jobs
      BY <3>1, <3>2 DEF Jobs
    <3>4. HolderInv' /\ TargetInv'
      BY <1>1, <1>4, <3>1, <3>2 DEF HolderInv, TargetInv
    <3>5. QED
      BY <1>3, <3>1, <3>2, <3>3, <3>4 DEF TypeOK
  <2>3. QED
    BY <2>1, <2>2
<1>6. TypeOK'
  <2>1. /\ failedChild' \subseteq index' /\ candidates' \subseteq chainTx' /\ unlinked' \subseteq data'
    BY <1>1, <1>2, <1>3 DEF TypeOK
  <2>2. QED
    BY <1>1, <1>3, <1>5, <2>1 DEF TypeOK
<1>7. LinksExact' /\ ChainOnDisk' /\ DiskBehind' /\ DiskShape' /\ UndoComplete'
  BY <1>1, <1>2, <1>3 DEF LinksExact, ChainOnDisk, DiskBehind, DiskShape, UndoComplete
<1>8. CandidateWork'
  BY <1>1, <1>2, <1>3 DEF CandidateWork
<1>9. QED
  BY <1>5, <1>6, <1>7, <1>8 DEF CoreInv

LEMMA DisconnectFacts ==
  ASSUME CoreInv, tip # Genesis
  PROVE  /\ Parent[tip] \in chainTx /\ Parent[tip] \in Blocks /\ Parent[tip] # NoBlock
         /\ Path[Parent[tip]] \subseteq Path[tip] /\ tip \notin Path[Parent[tip]]
         /\ Parent[tip] \in Path[tip]
<1>1. tip \in Blocks \ {Genesis} /\ Path[tip] \subseteq data /\ LinksExact
  BY CoreFacts DEF CoreInv
<1>2. /\ Parent[tip] \in Blocks /\ Parent[tip] \in Path[tip] /\ Path[Parent[tip]] \subseteq Path[tip]
      /\ tip \notin Path[Parent[tip]]
  BY <1>1, ParentBelow
<1>3. QED
  BY <1>1, <1>2, Tree DEF LinksExact

\* Between two disk writes the index and the tip do not change.
LEMMA StepDisconnectCore ==
  ASSUME CoreInv, StepDisconnect
  PROVE  CoreInv' /\ tip # Genesis /\ tip \notin Path[job.target]
<1>1. /\ job.kind = "step" /\ flush = "no" /\ tip # FindFork(tip, job.target)
      /\ coins' = Parent[tip] /\ newTip' = Parent[tip] /\ flush' = "index"
      /\ UNCHANGED <<index, data, undo, failedValid, failedChild, chainTx, seq, nBlockSequenceId, addr,
                     candidates, unlinked, tip, dirty, disk, diskCoins, pc, mostWork, job, used>>
  BY DEF StepDisconnect, DisconnectTip, status, order, memory, durable
<1>2. /\ TypeOK /\ LinksExact /\ ChainOnDisk /\ DiskBehind /\ DiskShape /\ UndoComplete
      /\ HolderInv /\ TargetInv /\ CandidateWork /\ tip \in Blocks
  BY CoreFacts DEF CoreInv
<1>3. job.target \in Blocks
  BY <1>1, <1>2, JobShape DEF TypeOK
<1>4. tip \notin Path[job.target] /\ tip # Genesis
  BY <1>1, <1>2, <1>3, ForkIsTip, PathSelf
<1>5. /\ Parent[tip] \in chainTx /\ Parent[tip] \in Blocks /\ Parent[tip] # NoBlock
      /\ Path[Parent[tip]] \subseteq Path[tip]
  BY <1>4, DisconnectFacts
<1>6. TypeOK'
  BY <1>1, <1>2, <1>5 DEF TypeOK
<1>7. LinksExact' /\ ChainOnDisk' /\ DiskBehind' /\ DiskShape' /\ CandidateWork'
  BY <1>1, <1>2 DEF LinksExact, ChainOnDisk, DiskBehind, DiskShape, CandidateWork
<1>8. UndoComplete'
  BY <1>1, <1>2, <1>5 DEF UndoComplete
<1>9. HolderInv' /\ TargetInv'
  BY <1>1, <1>2, <1>5 DEF HolderInv, TargetInv
<1>10. QED
  BY <1>4, <1>6, <1>7, <1>8, <1>9 DEF CoreInv

\* The block that ConnectTip connects, or refuses.
LEMMA ConnectFacts ==
  ASSUME CoreInv, job.kind = "step", tip = FindFork(tip, job.target)
  PROVE  /\ tip \in Path[job.target] /\ NextTowards(job.target) \in chainTx
         /\ NextTowards(job.target) \in Blocks \ {Genesis} /\ NextTowards(job.target) # NoBlock
         /\ NextTowards(job.target) \in Path[job.target] \ Path[tip]
         /\ Parent[NextTowards(job.target)] = tip
         /\ Path[NextTowards(job.target)] = Path[tip] \cup {NextTowards(job.target)}
<1> DEFINE b == NextTowards(job.target)
<1>1. /\ TypeOK /\ LinksExact /\ TargetInv /\ tip \in Blocks /\ Path[tip] \subseteq data
      /\ \A c \in chainTx : Path[c] \subseteq data
  BY CoreFacts DEF CoreInv
<1>2. job.target \in Blocks /\ job.target \in chainTx /\ job.target \notin Path[tip]
  BY <1>1, JobShape DEF TypeOK, TargetInv
<1>3. tip \in Path[job.target] /\ job.target # tip
  BY <1>1, <1>2, ForkIsTip, PathSelf
<1>4. b \in Path[job.target] \ Path[tip] /\ b \in Blocks \ {Genesis} /\ Parent[b] = tip
  BY <1>1, <1>2, <1>3, NextTowardsIs
<1> HIDE DEF b
<1>5. Path[b] = Path[tip] \cup {b} /\ b # NoBlock
  BY <1>4, Tree
<1>6. b \in data /\ Path[b] \subseteq data
  BY <1>1, <1>2, <1>4, <1>5
<1>7. b \in chainTx
  BY <1>1, <1>6 DEF LinksExact
<1>8. QED
  BY <1>3, <1>4, <1>5, <1>7 DEF b

LEMMA StepConnectCore ==
  ASSUME CoreInv, StepConnect
  PROVE  CoreInv'
<1> DEFINE b == NextTowards(job.target)
<1>1. /\ job.kind = "step" /\ flush = "no" /\ tip = FindFork(tip, job.target)
      /\ undo' = undo \cup {b} /\ dirty' = (IF b \in undo THEN dirty ELSE dirty \cup {b})
      /\ coins' = b /\ newTip' = b /\ flush' \in {"index", "done"}
      /\ UNCHANGED <<index, data, failedValid, failedChild, chainTx, seq, nBlockSequenceId, addr,
                     candidates, unlinked, tip, disk, diskCoins, pc, mostWork, job, used>>
  BY DEF StepConnect, order, memory, durable
<1>2. /\ TypeOK /\ LinksExact /\ ChainOnDisk /\ DiskBehind /\ DiskShape /\ UndoComplete
      /\ HolderInv /\ TargetInv /\ CandidateWork
  BY DEF CoreInv
<1>3. /\ b \in chainTx /\ b \in Blocks \ {Genesis} /\ b # NoBlock /\ Path[b] = Path[tip] \cup {b}
      /\ b \in Path[job.target] \ Path[tip]
  BY <1>1, ConnectFacts
<1> HIDE DEF b
<1>4. b \in data /\ b \in index /\ job.target \notin Path[tip]
  BY <1>1, <1>2, <1>3 DEF TypeOK, TargetInv
<1>5. TypeOK'
  BY <1>1, <1>2, <1>3, <1>4 DEF TypeOK
<1>6. LinksExact' /\ ChainOnDisk' /\ DiskShape' /\ CandidateWork'
  BY <1>1, <1>2 DEF LinksExact, ChainOnDisk, DiskShape, CandidateWork
<1>7. DiskBehind'
  BY <1>1, <1>2 DEF DiskBehind
<1>8. UndoComplete'
  BY <1>1, <1>2, <1>3 DEF UndoComplete
<1>9. HolderInv' /\ TargetInv'
  BY <1>1, <1>2, <1>3, <1>4 DEF HolderInv, TargetInv
<1>10. QED
  BY <1>5, <1>6, <1>7, <1>8, <1>9 DEF CoreInv

LEMMA StepInvalidCore ==
  ASSUME CoreInv, StepInvalid
  PROVE  CoreInv'
<1> DEFINE b == NextTowards(job.target)
<1>1. /\ job.kind = "step" /\ flush = "no" /\ tip = FindFork(tip, job.target)
      /\ failedValid' = failedValid \cup {b} /\ dirty' = dirty \cup {b}
      /\ candidates' = candidates \ {b} /\ job' = Free
      /\ pc' = [pc EXCEPT ![job.thread] = "loop"]
      /\ UNCHANGED <<index, data, undo, failedChild, chainTx, seq, nBlockSequenceId, addr, unlinked,
                     tip, coins, disk, diskCoins, mostWork, flush, newTip, used>>
  BY DEF StepInvalid, order, durable
<1>2. /\ TypeOK /\ LinksExact /\ ChainOnDisk /\ DiskBehind /\ DiskShape /\ UndoComplete
      /\ HolderInv /\ TargetInv /\ CandidateWork
  BY DEF CoreInv
<1>3. b \in chainTx
  BY <1>1, ConnectFacts
<1> HIDE DEF b
<1>4. b \in index /\ job' \in Jobs
  BY <1>1, <1>2, <1>3 DEF TypeOK, Jobs
<1>5. TypeOK'
  BY <1>1, <1>2, <1>4 DEF TypeOK
<1>6. LinksExact' /\ ChainOnDisk' /\ DiskShape' /\ CandidateWork' /\ DiskBehind' /\ UndoComplete'
  BY <1>1, <1>2 DEF LinksExact, ChainOnDisk, DiskShape, CandidateWork, DiskBehind, UndoComplete
<1>7. HolderInv' /\ TargetInv'
  BY <1>1, <1>2 DEF HolderInv, TargetInv, Free
<1>8. QED
  BY <1>5, <1>6, <1>7 DEF CoreInv

\* UpdateTip, at the end of ConnectTip or of DisconnectTip.
LEMMA StepUpdateTipCore ==
  ASSUME CoreInv, StepUpdateTip
  PROVE  CoreInv'
<1> DEFINE over == ChainWork[newTip] > ChainWork[job.old] \/ newTip = job.target
<1>1. /\ job.kind = "step" /\ flush = "done" /\ tip' = newTip /\ newTip' = NoBlock /\ flush' = "no"
      /\ candidates' = Pruned(newTip)
      /\ job' = (IF over THEN Free ELSE job)
      /\ pc' = (IF over THEN [pc EXCEPT ![job.thread] = "loop"] ELSE pc)
      /\ UNCHANGED <<index, data, undo, failedValid, failedChild, chainTx, seq, nBlockSequenceId, addr,
                     unlinked, coins, dirty, disk, diskCoins, mostWork, used>>
  BY DEF StepUpdateTip, status, order, durable
<1>2. /\ TypeOK /\ LinksExact /\ ChainOnDisk /\ DiskBehind /\ DiskShape /\ UndoComplete
      /\ HolderInv /\ TargetInv /\ candidates \subseteq Blocks
  BY CoreFacts DEF CoreInv
<1>3. newTip # NoBlock /\ coins = newTip
  BY <1>1, <1>2 DEF HolderInv
<1>4. newTip \in chainTx /\ newTip \in Blocks
  BY <1>2, <1>3, CoreFacts DEF TypeOK
<1>5. job' \in Jobs /\ pc' \in [Threads -> {"idle", "activate", "loop"}] /\ Free \in Jobs
  BY <1>1, <1>2 DEF TypeOK, Jobs
<1>6. candidates' \subseteq candidates
  BY <1>1 DEF Pruned
<1>7. TypeOK'
  BY <1>1, <1>2, <1>4, <1>5, <1>6 DEF TypeOK
<1>8. LinksExact' /\ ChainOnDisk' /\ DiskShape' /\ DiskBehind'
  BY <1>1, <1>2 DEF LinksExact, ChainOnDisk, DiskShape, DiskBehind
<1>9. UndoComplete'
  BY <1>1, <1>2, <1>3 DEF UndoComplete
<1>10. HolderInv' /\ TargetInv'
  <2>1. CASE over
    BY <1>1, <1>3, <2>1 DEF HolderInv, TargetInv, Free
  <2>2. CASE ~over
    BY <1>1, <1>2, <1>3, <2>2 DEF HolderInv, TargetInv
  <2>3. QED
    BY <2>1, <2>2
<1>11. CandidateWork'
  <2> SUFFICES ASSUME NEW c \in candidates' PROVE ChainWork[c] >= ChainWork[newTip]
    BY <1>1 DEF CandidateWork
  <2>1. c \in Blocks /\ ~Worse(c, newTip)
    BY <1>1, <1>2 DEF Pruned
  <2>2. ChainWork[c] \in Nat /\ ChainWork[newTip] \in Nat /\ ~(ChainWork[c] < ChainWork[newTip])
    BY <1>4, <2>1, Tree DEF Worse, WorseBy
  <2>3. QED
    BY <2>2
<1>12. QED
  BY <1>7, <1>8, <1>9, <1>10, <1>11 DEF CoreInv

LEMMA DisconnectUpdateTipCore ==
  ASSUME CoreInv, DisconnectUpdateTip
  PROVE  CoreInv'
<1>1. /\ job.kind \in {"step", "invalidate"} /\ flush = "done" /\ newTip \in Path[tip]
      /\ tip' = newTip /\ newTip' = NoBlock /\ flush' = "no"
      /\ UNCHANGED <<index, data, undo, failedValid, failedChild, chainTx, seq, nBlockSequenceId, addr,
                     candidates, unlinked, coins, dirty, disk, diskCoins, pc, mostWork, job, used>>
  BY DEF DisconnectUpdateTip, status, order, memory, durable
<1>2. /\ TypeOK /\ LinksExact /\ ChainOnDisk /\ DiskBehind /\ DiskShape /\ UndoComplete
      /\ HolderInv /\ TargetInv /\ CandidateWork /\ candidates \subseteq Blocks /\ tip \in Blocks
  BY CoreFacts DEF CoreInv
<1>3. newTip # NoBlock /\ coins = newTip
  BY <1>1, <1>2 DEF HolderInv
<1>4. newTip \in chainTx /\ newTip \in Blocks /\ Path[newTip] \subseteq Path[tip]
  BY <1>1, <1>2, <1>3, CoreFacts, PathTrans DEF TypeOK
<1>5. TypeOK'
  BY <1>1, <1>2, <1>4 DEF TypeOK
<1>6. LinksExact' /\ ChainOnDisk' /\ DiskShape' /\ DiskBehind'
  BY <1>1, <1>2 DEF LinksExact, ChainOnDisk, DiskShape, DiskBehind
<1>7. UndoComplete'
  BY <1>1, <1>2, <1>3 DEF UndoComplete
<1>8. HolderInv' /\ TargetInv'
  BY <1>1, <1>2, <1>3, <1>4 DEF HolderInv, TargetInv
<1>9. CandidateWork'
  <2> SUFFICES ASSUME NEW c \in candidates PROVE ChainWork[c] >= ChainWork[newTip]
    BY <1>1 DEF CandidateWork
  <2>1. /\ ChainWork[c] \in Nat /\ ChainWork[newTip] \in Nat /\ ChainWork[tip] \in Nat
        /\ ChainWork[c] >= ChainWork[tip]
    BY <1>2, <1>4, Tree DEF CandidateWork
  <2>2. newTip = tip \/ ChainWork[newTip] < ChainWork[tip]
    BY <1>1, <1>2, PathBelow
  <2>3. QED
    BY <2>1, <2>2
<1>10. QED
  BY <1>5, <1>6, <1>7, <1>8, <1>9 DEF CoreInv

LEMMA LoopTestCore ==
  ASSUME CoreInv, NEW t \in Threads, LoopTest(t)
  PROVE  CoreInv'
<1>1. /\ pc' = [pc EXCEPT ![t] = IF mostWork[t] = tip THEN "idle" ELSE "activate"]
      /\ mostWork' = [mostWork EXCEPT ![t] = NoBlock]
      /\ UNCHANGED <<index, data, undo, failedValid, failedChild, chainTx, seq, nBlockSequenceId, addr,
                     candidates, unlinked, tip, coins, dirty, disk, diskCoins, job, flush, newTip, used>>
  BY DEF LoopTest, status, order, memory, durable
<1>2. /\ TypeOK /\ LinksExact /\ ChainOnDisk /\ DiskBehind /\ DiskShape /\ UndoComplete
      /\ HolderInv /\ TargetInv /\ CandidateWork
  BY DEF CoreInv
<1>3. TypeOK'
  <2>1. pc' \in [Threads -> {"idle", "activate", "loop"}] /\ mostWork' \in [Threads -> Blocks \cup {NoBlock}]
    BY <1>1, <1>2 DEF TypeOK
  <2>2. QED
    BY <1>1, <1>2, <2>1 DEF TypeOK
<1>4. LinksExact' /\ ChainOnDisk' /\ DiskShape' /\ DiskBehind' /\ UndoComplete' /\ CandidateWork'
  BY <1>1, <1>2 DEF LinksExact, ChainOnDisk, DiskShape, DiskBehind, UndoComplete, CandidateWork
<1>5. HolderInv' /\ TargetInv'
  BY <1>1, <1>2 DEF HolderInv, TargetInv
<1>6. QED
  BY <1>3, <1>4, <1>5 DEF CoreInv

LEMMA InvalidateBlockCore ==
  ASSUME CoreInv, NEW t \in Threads, NEW b \in Blocks, InvalidateBlock(t, b)
  PROVE  CoreInv'
<1>1. /\ job = Free /\ b \in index \ {Genesis}
      /\ failedValid' = failedValid \cup {b} /\ dirty' = dirty \cup {b}
      /\ candidates' = candidates \ {b}
      /\ job' = [kind |-> "invalidate", thread |-> t, target |-> b]
      /\ used' = [used EXCEPT !.invalidate = @ + 1]
      /\ UNCHANGED <<index, data, undo, failedChild, chainTx, seq, nBlockSequenceId, addr, unlinked,
                     tip, coins, disk, diskCoins, pc, mostWork, flush, newTip>>
  BY DEF InvalidateBlock, order, durable
<1>2. /\ TypeOK /\ LinksExact /\ ChainOnDisk /\ DiskBehind /\ DiskShape /\ UndoComplete
      /\ HolderInv /\ TargetInv /\ CandidateWork
  BY DEF CoreInv
<1>3. flush = "no" /\ newTip = NoBlock /\ coins = tip
  BY <1>1, CoreFacts
<1>4. job' \in Jobs
  BY <1>1 DEF Jobs
<1>5. used' \in [invalidate : Nat, reconsider : Nat, crash : Nat]
  BY <1>1, <1>2 DEF TypeOK
<1>6. TypeOK'
  BY <1>1, <1>2, <1>4, <1>5 DEF TypeOK
<1>7. LinksExact' /\ ChainOnDisk' /\ DiskShape' /\ DiskBehind' /\ UndoComplete' /\ CandidateWork'
  BY <1>1, <1>2 DEF LinksExact, ChainOnDisk, DiskShape, DiskBehind, UndoComplete, CandidateWork
<1>8. HolderInv' /\ TargetInv'
  BY <1>1, <1>3 DEF HolderInv, TargetInv
<1>9. QED
  BY <1>6, <1>7, <1>8 DEF CoreInv

LEMMA InvalidateDisconnectCore ==
  ASSUME CoreInv, InvalidateDisconnect
  PROVE  CoreInv' /\ tip # Genesis
<1>1. /\ job.kind = "invalidate" /\ flush = "no" /\ job.target \in Path[tip]
      /\ failedChild' = failedChild \cup {tip} /\ dirty' = dirty \cup {tip}
      /\ candidates' = candidates \ {tip}
      /\ coins' = Parent[tip] /\ newTip' = Parent[tip] /\ flush' = "index"
      /\ UNCHANGED <<index, data, undo, failedValid, chainTx, seq, nBlockSequenceId, addr, unlinked,
                     tip, disk, diskCoins, pc, mostWork, job, used>>
  BY DEF InvalidateDisconnect, DisconnectTip, order, durable
<1>2. /\ TypeOK /\ LinksExact /\ ChainOnDisk /\ DiskBehind /\ DiskShape /\ UndoComplete
      /\ HolderInv /\ TargetInv /\ CandidateWork
  BY DEF CoreInv
<1>3. tip # Genesis
  BY <1>1, <1>2, Tree DEF TargetInv
<1>4. /\ Parent[tip] \in chainTx /\ Parent[tip] \in Blocks /\ Parent[tip] # NoBlock
      /\ Path[Parent[tip]] \subseteq Path[tip]
  BY <1>3, DisconnectFacts
<1>5. tip \in index
  BY <1>2 DEF TypeOK
<1>6. TypeOK'
  BY <1>1, <1>2, <1>4, <1>5 DEF TypeOK
<1>7. LinksExact' /\ ChainOnDisk' /\ DiskShape' /\ DiskBehind' /\ CandidateWork'
  BY <1>1, <1>2 DEF LinksExact, ChainOnDisk, DiskShape, DiskBehind, CandidateWork
<1>8. UndoComplete'
  BY <1>1, <1>2, <1>4 DEF UndoComplete
<1>9. HolderInv' /\ TargetInv'
  BY <1>1, <1>2, <1>4 DEF HolderInv, TargetInv
<1>10. QED
  BY <1>3, <1>6, <1>7, <1>8, <1>9 DEF CoreInv

\* The two commands put better candidates back.
LEMMA CommandCore ==
  ASSUME CoreInv, InvalidateDone \/ \E t \in Threads, b \in Blocks : ReconsiderBlock(t, b)
  PROVE  CoreInv'
<1>1. /\ UNCHANGED <<index, data, undo, chainTx, seq, nBlockSequenceId, addr, unlinked,
                     tip, coins, disk, diskCoins, mostWork, flush, newTip>>
      /\ failedValid' \subseteq failedValid /\ failedChild' \subseteq failedChild
      /\ dirty \subseteq dirty' /\ dirty' \subseteq dirty \cup Failed \cup index
      /\ job' = Free /\ (job = Free \/ (job.kind = "invalidate" /\ flush = "no"))
  BY DEF InvalidateDone, ReconsiderBlock, status, order, durable, Cleared
<1>2. /\ TypeOK /\ LinksExact /\ ChainOnDisk /\ DiskBehind /\ DiskShape /\ UndoComplete
      /\ HolderInv /\ TargetInv /\ CandidateWork /\ tip \in Blocks /\ chainTx \subseteq Blocks
  BY CoreFacts DEF CoreInv
<1>3. /\ candidates \subseteq candidates' /\ candidates' \subseteq chainTx
      /\ \A c \in candidates' \ candidates : ~Worse(c, tip)
  <2>1. CASE InvalidateDone
    BY <2>1, <1>2 DEF InvalidateDone, Eligible, TypeOK
  <2>2. CASE \E t \in Threads, b \in Blocks : ReconsiderBlock(t, b)
    <3>1. /\ candidates \subseteq candidates' /\ candidates' \subseteq chainTx
          /\ \A c \in candidates' \ candidates : c \in chainTx /\ Worse(tip, c)
      BY <2>2, <1>2 DEF ReconsiderBlock, TypeOK
    <3>2. seq \in [Blocks -> Nat] /\ addr \in Addresses
      BY <1>2 DEF TypeOK
    <3>3. \A c \in candidates' \ candidates : ~Worse(c, tip)
      BY <3>1, <3>2, <1>2, WorseOrder
    <3>4. QED
      BY <3>1, <3>3
  <2>3. QED
    BY <2>1, <2>2
<1>4. flush = "no" /\ newTip = NoBlock /\ coins = tip
  BY <1>1, <1>2, CoreFacts DEF HolderInv
<1>5. /\ pc' \in [Threads -> {"idle", "activate", "loop"}]
      /\ used' \in [invalidate : Nat, reconsider : Nat, crash : Nat]
  <2>1. pc \in [Threads -> {"idle", "activate", "loop"}] /\ used \in [invalidate : Nat, reconsider : Nat, crash : Nat]
    BY <1>2 DEF TypeOK
  <2>2. CASE InvalidateDone
    BY <2>1, <2>2 DEF InvalidateDone
  <2>3. CASE \E t \in Threads, b \in Blocks : ReconsiderBlock(t, b)
    <3>1. used' = [used EXCEPT !.reconsider = @ + 1] /\ \E t \in Threads : pc' = [pc EXCEPT ![t] = "activate"]
      BY <2>3 DEF ReconsiderBlock
    <3>2. QED
      BY <2>1, <3>1
  <2>4. QED
    BY <2>2, <2>3
<1>6. TypeOK'
  <2>1. dirty' \subseteq index' /\ failedValid' \subseteq index' /\ failedChild' \subseteq index' /\ job' \in Jobs
    BY <1>1, <1>2 DEF TypeOK, Failed, Jobs
  <2>2. QED
    BY <1>1, <1>2, <1>3, <1>5, <2>1 DEF TypeOK
<1>7. LinksExact' /\ ChainOnDisk' /\ DiskShape' /\ DiskBehind' /\ UndoComplete'
  BY <1>1, <1>2 DEF LinksExact, ChainOnDisk, DiskShape, DiskBehind, UndoComplete
<1>8. HolderInv' /\ TargetInv'
  BY <1>1, <1>4 DEF HolderInv, TargetInv, Free
<1>9. CandidateWork'
  <2> SUFFICES ASSUME NEW c \in candidates' PROVE ChainWork[c] >= ChainWork[tip]
    BY <1>1 DEF CandidateWork
  <2>1. CASE c \in candidates
    BY <2>1, <1>2 DEF CandidateWork
  <2>2. CASE c \notin candidates
    <3>1. ~(ChainWork[c] < ChainWork[tip])
      BY <2>2, <1>3 DEF Worse, WorseBy
    <3>2. ChainWork[c] \in Nat /\ ChainWork[tip] \in Nat
      BY <1>2, <1>3, Tree
    <3>3. QED
      BY <3>1, <3>2
  <2>3. QED
    BY <2>1, <2>2
<1>10. QED
  BY <1>6, <1>7, <1>8, <1>9 DEF CoreInv

LEMMA StartFlushCore ==
  ASSUME CoreInv, StartFlush
  PROVE  CoreInv'
<1>1. /\ job = Free /\ job' = [kind |-> "flush"] /\ flush' = "index"
      /\ UNCHANGED <<index, data, undo, failedValid, failedChild, chainTx, seq, nBlockSequenceId, addr,
                     candidates, unlinked, tip, coins, dirty, disk, diskCoins, pc, mostWork, newTip, used>>
  BY DEF StartFlush, status, order, memory, durable
<1>2. /\ TypeOK /\ LinksExact /\ ChainOnDisk /\ DiskBehind /\ DiskShape /\ UndoComplete
      /\ HolderInv /\ TargetInv /\ CandidateWork
  BY DEF CoreInv
<1>3. newTip = NoBlock /\ coins = tip
  BY <1>1, CoreFacts
<1>4. job' \in Jobs
  BY <1>1 DEF Jobs
<1>5. TypeOK'
  BY <1>1, <1>2, <1>4 DEF TypeOK
<1>6. LinksExact' /\ ChainOnDisk' /\ DiskShape' /\ DiskBehind' /\ UndoComplete' /\ CandidateWork'
  BY <1>1, <1>2 DEF LinksExact, ChainOnDisk, DiskShape, DiskBehind, UndoComplete, CandidateWork
<1>7. HolderInv' /\ TargetInv'
  BY <1>1, <1>3 DEF HolderInv, TargetInv
<1>8. QED
  BY <1>5, <1>6, <1>7 DEF CoreInv

\* The block index batch: afterwards the database has what memory has.
LEMMA FlushIndexCore ==
  ASSUME CoreInv, FlushIndex
  PROVE  CoreInv' /\ disk'.failedValid \cup disk'.failedChild
                        \subseteq ((disk.failedValid \cup disk.failedChild) \ dirty) \cup Failed
<1> DEFINE written(old, new) == (old \ dirty) \cup (new \cap dirty)
<1>1. /\ flush = "index" /\ dirty' = {} /\ flush' = "coins"
      /\ disk' = [index |-> written(disk.index, index), data |-> written(disk.data, data),
                  undo |-> written(disk.undo, undo),
                  failedValid |-> written(disk.failedValid, failedValid),
                  failedChild |-> written(disk.failedChild, failedChild)]
      /\ UNCHANGED <<index, data, undo, failedValid, failedChild, chainTx, seq, nBlockSequenceId, addr,
                     candidates, unlinked, tip, coins, diskCoins, pc, mostWork, job, newTip, used>>
  BY DEF FlushIndex, status, order, memory
<1>2. /\ TypeOK /\ LinksExact /\ ChainOnDisk /\ DiskBehind /\ DiskShape /\ UndoComplete
      /\ HolderInv /\ TargetInv /\ CandidateWork
  BY DEF CoreInv
<1>3. /\ disk'.index = written(disk.index, index) /\ disk'.data = written(disk.data, data)
      /\ disk'.undo = written(disk.undo, undo)
      /\ disk'.failedValid = written(disk.failedValid, failedValid)
      /\ disk'.failedChild = written(disk.failedChild, failedChild)
  BY <1>1
<1>4. /\ disk.index \subseteq Blocks /\ disk.data \subseteq Blocks /\ disk.undo \subseteq Blocks
      /\ disk.failedValid \subseteq Blocks /\ disk.failedChild \subseteq Blocks
  BY <1>2 DEF TypeOK, DiskIndex
<1>5. disk' \in DiskIndex
  <2>1. /\ written(disk.index, index) \subseteq Blocks /\ written(disk.data, data) \subseteq Blocks
        /\ written(disk.undo, undo) \subseteq Blocks
        /\ written(disk.failedValid, failedValid) \subseteq Blocks
        /\ written(disk.failedChild, failedChild) \subseteq Blocks
    BY <1>2, <1>4 DEF TypeOK
  <2> HIDE DEF written
  <2>2. QED
    BY <1>1, <2>1 DEF DiskIndex
<1>6. TypeOK'
  <2>1. dirty' \subseteq index'
    BY <1>1
  <2>2. QED
    BY <1>1, <1>2, <1>5, <2>1 DEF TypeOK
<1>7. disk'.data = data /\ disk'.undo = undo
  BY <1>2, <1>3 DEF DiskBehind
<1>8. DiskBehind'
  BY <1>1, <1>7 DEF DiskBehind
<1>9. ChainOnDisk'
  BY <1>1, <1>2, <1>7 DEF ChainOnDisk, DiskBehind
<1>10. DiskShape'
  BY <1>2, <1>3 DEF DiskShape, TypeOK
<1>11. LinksExact' /\ UndoComplete' /\ CandidateWork' /\ TargetInv'
  BY <1>1, <1>2 DEF LinksExact, UndoComplete, CandidateWork, TargetInv
<1>12. HolderInv'
  BY <1>1, <1>2 DEF HolderInv
<1>13. disk'.failedValid \cup disk'.failedChild
          \subseteq ((disk.failedValid \cup disk.failedChild) \ dirty) \cup Failed
  BY <1>3 DEF Failed
<1>14. QED
  BY <1>6, <1>8, <1>9, <1>10, <1>11, <1>12, <1>13 DEF CoreInv

\* The coin batch: nothing was dirty, so the chain of coins is on disk.
LEMMA FlushCoinsCore ==
  ASSUME CoreInv, FlushCoins
  PROVE  CoreInv'
<1>1. /\ flush = "coins" /\ diskCoins' = coins
      /\ flush' = (IF job.kind = "flush" THEN "no" ELSE "done")
      /\ job' = (IF job.kind = "flush" THEN Free ELSE job)
      /\ UNCHANGED <<index, data, undo, failedValid, failedChild, chainTx, seq, nBlockSequenceId, addr,
                     candidates, unlinked, tip, coins, dirty, disk, pc, mostWork, newTip, used>>
  BY DEF FlushCoins, status, order, memory
<1>2. /\ TypeOK /\ LinksExact /\ ChainOnDisk /\ DiskBehind /\ DiskShape /\ UndoComplete
      /\ HolderInv /\ TargetInv /\ CandidateWork /\ Path[coins] \subseteq data /\ coins \in Blocks
      /\ job.kind \in {"none", "step", "invalidate", "flush"}
  BY CoreFacts DEF CoreInv
<1>3. job' \in Jobs /\ flush' \in {"no", "index", "coins", "done"}
  BY <1>1, <1>2 DEF TypeOK, Jobs
<1>4. TypeOK'
  BY <1>1, <1>2, <1>3 DEF TypeOK
<1>5. ChainOnDisk'
  <2>1. dirty = {}
    BY <1>1, <1>2 DEF HolderInv
  <2>2. QED
    BY <1>1, <1>2, <2>1 DEF ChainOnDisk, DiskBehind, UndoComplete
<1>6. LinksExact' /\ UndoComplete' /\ CandidateWork' /\ DiskShape' /\ DiskBehind'
  BY <1>1, <1>2 DEF LinksExact, UndoComplete, CandidateWork, DiskShape, DiskBehind
<1>7. HolderInv' /\ TargetInv'
  <2>1. CASE job.kind = "flush"
    BY <1>1, <1>2, <2>1 DEF HolderInv, TargetInv, Free
  <2>2. CASE job.kind # "flush"
    BY <1>1, <1>2, <2>2 DEF HolderInv, TargetInv
  <2>3. QED
    BY <2>1, <2>2
<1>8. QED
  BY <1>4, <1>5, <1>6, <1>7 DEF CoreInv

\* LoadBlockIndexDB after a crash.
LEMMA RestartCore ==
  ASSUME CoreInv, Restart
  PROVE  CoreInv' /\ \A c \in LoadedCandidates : c \in candidates' <=> ~Worse(c, tip)'
<1>1. /\ index' = disk.index /\ data' = disk.data /\ undo' = disk.undo
      /\ failedValid' = disk.failedValid /\ failedChild' = disk.failedChild
      /\ chainTx' = LoadedChainTx /\ unlinked' = disk.data \ LoadedChainTx
      /\ seq' = [b \in Blocks |-> 0] /\ nBlockSequenceId' = 1 /\ addr' \in Addresses
      /\ tip' = diskCoins /\ coins' = diskCoins /\ dirty' = {} /\ candidates' = LoadedAbove(addr')
      /\ mostWork' = [t \in Threads |-> NoBlock] /\ job' = Free /\ flush' = "no" /\ newTip' = NoBlock
      /\ disk' = disk /\ diskCoins' = diskCoins
      /\ used' = [used EXCEPT !.crash = @ + 1]
      /\ \E t \in Threads : pc' = [u \in Threads |-> IF u = t THEN "activate" ELSE "idle"]
  BY DEF Restart, durable
<1>2. TypeOK /\ ChainOnDisk /\ DiskShape /\ diskCoins \in Blocks
  BY CoreFacts DEF CoreInv
<1>3. /\ disk.index \subseteq Blocks /\ disk.data \subseteq Blocks /\ disk.undo \subseteq Blocks
      /\ disk.failedValid \subseteq Blocks /\ disk.failedChild \subseteq Blocks /\ disk \in DiskIndex
  BY <1>2 DEF TypeOK, DiskIndex
<1>4. diskCoins \in LoadedChainTx /\ LoadedChainTx \subseteq disk.data
  BY <1>2, PathSelf DEF ChainOnDisk, LoadedChainTx
<1>5. candidates' \subseteq LoadedCandidates /\ LoadedCandidates \subseteq LoadedChainTx
  BY <1>1 DEF LoadedAbove, LoadedCandidates
<1>6. TypeOK'
  <2>1. pc' \in [Threads -> {"idle", "activate", "loop"}] /\ mostWork' \in [Threads -> Blocks \cup {NoBlock}]
    BY <1>1
  <2>2. used' \in [invalidate : Nat, reconsider : Nat, crash : Nat]
    BY <1>1, <1>2 DEF TypeOK
  <2>3. seq' \in [Blocks -> Nat] /\ nBlockSequenceId' \in Nat /\ job' \in Jobs
    BY <1>1 DEF Jobs
  <2>4. /\ index' \subseteq Blocks /\ data' \subseteq index' /\ undo' \subseteq data'
        /\ failedValid' \subseteq index' /\ failedChild' \subseteq index'
    BY <1>1, <1>2, <1>3 DEF DiskShape
  <2>5. /\ chainTx' \subseteq data' /\ candidates' \subseteq chainTx' /\ unlinked' \subseteq data'
        /\ tip' \in chainTx' /\ coins' \in chainTx' /\ dirty' \subseteq index'
    BY <1>1, <1>4, <1>5
  <2>6. QED
    BY <1>1, <1>2, <1>3, <2>1, <2>2, <2>3, <2>4, <2>5 DEF TypeOK
<1>7. LinksExact'
  BY <1>1 DEF LinksExact, LoadedChainTx
<1>8. ChainOnDisk' /\ DiskShape' /\ DiskBehind' /\ UndoComplete'
  BY <1>1, <1>2 DEF ChainOnDisk, DiskShape, DiskBehind, UndoComplete
<1>9. HolderInv' /\ TargetInv'
  BY <1>1 DEF HolderInv, TargetInv, Free
<1>10. ASSUME NEW c \in LoadedCandidates
       PROVE  /\ c \in candidates' <=> ~Worse(c, tip)'
              /\ c \in candidates' => ChainWork[c] >= ChainWork[diskCoins]
  <2>1. c \in Blocks
    BY <1>3, <1>4, <1>5
  <2>2. /\ ChainWork[c] \in Nat /\ ChainWork[diskCoins] \in Nat
        /\ addr'[c] \in Nat /\ addr'[diskCoins] \in Nat
        /\ seq'[c] = 0 /\ seq'[diskCoins] = 0
    BY <1>1, <1>2, <2>1, Tree, ChainAssumption
  <2>3. c \in candidates' <=> \/ ChainWork[c] > ChainWork[diskCoins]
                              \/ ChainWork[c] = ChainWork[diskCoins] /\ addr'[c] <= addr'[diskCoins]
    BY <1>1 DEF LoadedAbove
  <2>4. Worse(c, tip)' <=> \/ ChainWork[c] < ChainWork[diskCoins]
                           \/ ChainWork[c] = ChainWork[diskCoins] /\ seq'[c] > seq'[diskCoins]
                           \/ /\ ChainWork[c] = ChainWork[diskCoins] /\ seq'[c] = seq'[diskCoins]
                              /\ addr'[c] > addr'[diskCoins]
    BY <1>1 DEF Worse, WorseBy
  <2>5. QED
    BY <2>2, <2>3, <2>4
<1>11. CandidateWork'
  BY <1>1, <1>5, <1>10 DEF CandidateWork
<1>12. QED
  BY <1>6, <1>7, <1>8, <1>9, <1>10, <1>11 DEF CoreInv

LEMMA NextCore == CoreInv /\ [Next]_vars => CoreInv'
<1> SUFFICES ASSUME CoreInv, [Next]_vars PROVE CoreInv'
  OBVIOUS
<1>1. CASE UNCHANGED vars
  BY <1>1 DEF vars, status, order, memory, durable, control, CoreInv, TypeOK, LinksExact, ChainOnDisk,
              DiskBehind, DiskShape, UndoComplete, HolderInv, TargetInv, CandidateWork
<1>2. CASE Next
  BY <1>2, ProcessCore, ActivateCore, LoopTestCore, InvalidateBlockCore, CommandCore, StepDisconnectCore,
     StepConnectCore, StepInvalidCore, StepUpdateTipCore, DisconnectUpdateTipCore,
     InvalidateDisconnectCore, StartFlushCore, FlushIndexCore, FlushCoinsCore, RestartCore
     DEF Next, HolderStep, ActivateBestChain
<1>3. QED
  BY <1>1, <1>2

(* The core invariant holds in every reachable state.                      *)
THEOREM CoreInvariant == Spec => []CoreInv
  BY InitCore, NextCore, PTL DEF Spec

(* Type correctness, with what it says of the code: the active chain and   *)
(* the candidates have all their data, whatever is sent, commanded or      *)
(* crashes.                                                                *)
THEOREM ChainTypeCorrect == Spec => []TypeOK
<1>1. CoreInv => TypeOK
  BY DEF CoreInv
<1>2. QED
  BY <1>1, CoreInvariant, PTL

(* nChainTx and mapBlocksUnlinked are exact, for blocks that arrive in any *)
(* order.                                                                  *)
THEOREM LinksAlwaysExact == Spec => []LinksExact
<1>1. CoreInv => LinksExact
  BY DEF CoreInv
<1>2. QED
  BY <1>1, CoreInvariant, PTL

(* At every moment the two databases can be loaded: the coins never run    *)
(* ahead of the block index.                                               *)
THEOREM ChainAlwaysOnDisk == Spec => []ChainOnDisk
<1>1. CoreInv => ChainOnDisk
  BY DEF CoreInv
<1>2. QED
  BY <1>1, CoreInvariant, PTL

-----------------------------------------------------------------------------
(* The coin database is on the active chain, or one block ahead of it.     *)

LEMMA InitFlags == Init => FlagInv
<1> SUFFICES ASSUME Init PROVE FlagInv
  OBVIOUS
<1>1. DiskTip
  BY Tree DEF Init, DiskTip
<1>2. DiskFlags /\ FlagsOnChain
  BY Tree DEF Init, DiskFlags, FlagsOnChain, Failed, Free
<1>3. QED
  BY <1>1, <1>2 DEF FlagInv

\* While no tip change is under way, the coin database is on the active chain.
LEMMA DiskTipFrame ==
  ASSUME CoreInv, DiskTip, tip' = tip, diskCoins' = diskCoins, coins' = coins, newTip' = NoBlock
  PROVE  DiskTip'
BY CoreFacts, PathSelf, Tree DEF DiskTip

LEMMA DiskTipNext ==
  ASSUME CoreInv, DiskTip, Next
  PROVE  DiskTip'
<1>0. /\ tip \in Blocks /\ coins \in Blocks /\ diskCoins \in Blocks /\ HolderInv /\ TypeOK
      /\ (job = Free => newTip = NoBlock)
  BY CoreFacts DEF CoreInv
<1>1. CASE StepDisconnect \/ InvalidateDisconnect
  <2>1. /\ flush = "no" /\ coins' = Parent[tip] /\ newTip' = Parent[tip] /\ flush' = "index"
        /\ UNCHANGED <<tip, diskCoins, job>>
    BY <1>1 DEF StepDisconnect, InvalidateDisconnect, DisconnectTip, durable
  <2>2. tip # Genesis
    BY <1>1, StepDisconnectCore, InvalidateDisconnectCore
  <2>3. Parent[tip] \in Path[tip] /\ Parent[tip] # tip
    BY <2>2, <1>0, ParentBelow
  <2>4. coins = tip /\ tip \in Path[tip]
    BY <2>1, <1>0, PathSelf DEF HolderInv
  <2>5. QED
    BY <2>1, <2>3, <2>4 DEF DiskTip
<1>2. CASE StepConnect
  <2> DEFINE b == NextTowards(job.target)
  <2>1. /\ job.kind = "step" /\ flush = "no" /\ tip = FindFork(tip, job.target)
        /\ coins' = b /\ newTip' = b /\ UNCHANGED <<tip, diskCoins, job>>
    BY <1>2 DEF StepConnect, durable
  <2>2. b \in Path[job.target] \ Path[tip] /\ Path[b] = Path[tip] \cup {b}
    BY <2>1, ConnectFacts
  <2>3. coins = tip /\ tip \in Path[tip]
    BY <2>1, <1>0, PathSelf DEF HolderInv
  <2> HIDE DEF b
  <2>4. QED
    BY <2>1, <2>2, <2>3 DEF DiskTip
<1>3. CASE StepUpdateTip
  <2>1. /\ job.kind = "step" /\ flush = "done" /\ tip \in Path[newTip]
        /\ tip' = newTip /\ newTip' = NoBlock /\ flush' = "no" /\ UNCHANGED <<coins, diskCoins>>
    BY <1>3 DEF StepUpdateTip, durable
  <2>2. newTip # NoBlock /\ coins = newTip
    BY <2>1, <1>0 DEF HolderInv
  <2>3. Path[tip] \subseteq Path[newTip] /\ newTip \in Path[newTip]
    BY <2>1, <2>2, <1>0, PathTrans, PathSelf
  <2>4. QED
    BY <2>1, <2>2, <2>3, <1>0 DEF DiskTip
<1>4. CASE DisconnectUpdateTip
  <2>1. /\ flush = "done" /\ newTip \in Path[tip]
        /\ tip' = newTip /\ newTip' = NoBlock /\ flush' = "no" /\ UNCHANGED <<coins, diskCoins>>
    BY <1>4 DEF DisconnectUpdateTip, durable
  <2>2. newTip \in Path[newTip]
    BY <2>1, <1>0, PathSelf
  <2>3. QED
    BY <2>1, <2>2 DEF DiskTip
<1>5. CASE FlushIndex
  <2>1. flush' = "coins" /\ UNCHANGED <<tip, coins, diskCoins, newTip, job>>
    BY <1>5 DEF FlushIndex
  <2>2. QED
    BY <2>1 DEF DiskTip
<1>6. CASE FlushCoins
  <2>1. /\ flush = "coins" /\ diskCoins' = coins /\ UNCHANGED <<tip, coins, newTip>>
        /\ job' = (IF job.kind = "flush" THEN Free ELSE job)
    BY <1>6 DEF FlushCoins
  <2>2. CASE newTip = NoBlock
    <3>1. coins = tip /\ NoBlock \notin Path[tip]
      BY <2>2, <1>0, PathSelf, Tree DEF HolderInv
    <3>2. QED
      BY <2>1, <2>2, <3>1 DEF DiskTip
  <2>3. CASE newTip # NoBlock
    <3>1. coins = newTip /\ job.kind # "flush"
      BY <2>3, <1>0 DEF HolderInv
    <3>2. QED
      BY <2>1, <2>3, <3>1 DEF DiskTip
  <2>4. QED
    BY <2>2, <2>3
<1>7. CASE Restart
  <2>1. tip' = diskCoins /\ newTip' = NoBlock /\ diskCoins' = diskCoins /\ flush' = "no"
    BY <1>7 DEF Restart, durable
  <2>2. QED
    BY <2>1, <1>0, PathSelf DEF DiskTip
<1>8. CASE \/ \E t \in Threads, b \in Blocks : ProcessNewBlock(t, b)
           \/ \E t \in Threads : NothingToDo(t) \/ StartStep(t)
           \/ \E t \in Threads, b \in Blocks : InvalidateBlock(t, b)
           \/ \E t \in Threads, b \in Blocks : ReconsiderBlock(t, b)
           \/ StartFlush
  <2>1. job = Free /\ UNCHANGED <<tip, coins, diskCoins, newTip>>
    BY <1>8 DEF ProcessNewBlock, NothingToDo, StartStep, InvalidateBlock, ReconsiderBlock, StartFlush, durable
  <2>2. QED
    BY <1>0, <2>1, DiskTipFrame
<1>9. CASE StepInvalid \/ InvalidateDone
  <2>1. flush = "no" /\ UNCHANGED <<tip, coins, diskCoins, newTip>>
    BY <1>9 DEF StepInvalid, InvalidateDone, durable
  <2>2. newTip = NoBlock
    BY <1>0, <2>1 DEF HolderInv
  <2>3. QED
    BY <2>1, <2>2, DiskTipFrame
<1>10. CASE \E t \in Threads : LoopTest(t)
  <2>1. UNCHANGED <<tip, coins, diskCoins, newTip, job, flush>>
    BY <1>10 DEF LoopTest, durable
  <2>2. QED
    BY <2>1 DEF DiskTip
<1>11. QED
  BY <1>1, <1>2, <1>3, <1>4, <1>5, <1>6, <1>7, <1>8, <1>9, <1>10
     DEF Next, HolderStep, ActivateBestChain

\* With DiskTip, UpdateTip goes up or down by the action that it ends.
LEMMA UpFacts ==
  ASSUME CoreInv, DiskTip, StepUpdateTip
  PROVE  newTip \in Path[job.target] /\ newTip \in Blocks /\ tip \in Path[newTip]
         /\ job.target \in Blocks /\ coins = newTip
<1>1. job.kind = "step" /\ flush = "done" /\ tip \in Path[newTip]
  BY DEF StepUpdateTip
<1>2. HolderInv /\ TypeOK /\ tip \in Blocks /\ coins \in Blocks
  BY CoreFacts DEF CoreInv
<1>3. newTip # NoBlock /\ coins = newTip
  BY <1>1, <1>2 DEF HolderInv
<1>4. newTip \notin Path[tip] \ {tip}
  <2> SUFFICES ASSUME newTip \in Path[tip], newTip # tip PROVE FALSE
    OBVIOUS
  <2>1. /\ Height[newTip] < Height[tip] /\ Height[tip] < Height[newTip]
        /\ Height[newTip] \in Nat /\ Height[tip] \in Nat
    BY <1>1, <1>2, <1>3, PathBelow, Tree
  <2>2. QED
    BY <2>1
<1>5. newTip \in Path[job.target]
  BY <1>3, <1>4 DEF DiskTip
<1>6. job.target \in Blocks
  BY <1>1, <1>2, JobShape DEF TypeOK
<1>7. QED
  BY <1>1, <1>2, <1>3, <1>5, <1>6

-----------------------------------------------------------------------------
(* The failure flags.                                                      *)

\* Without invalidateblock, no chain that matters has a failed block.
LEMMA CleanChains ==
  ASSUME CoreInv, FlagInv, used.invalidate = 0
  PROVE  (Path[tip] \cup Path[coins] \cup Path[diskCoins]) \cap Failed = {}
<1>1. DiskTip /\ FlagsOnChain /\ job.kind # "invalidate"
  BY DEF FlagInv, DiskFlags, NoHalfInvalidated
<1>2. Path[tip] \cap Failed = {} /\ (job.kind = "step" => Path[job.target] \cap Failed = {})
  BY <1>1 DEF FlagsOnChain
<1>3. HolderInv /\ TypeOK /\ tip \in Blocks
  BY CoreFacts DEF CoreInv
<1>4. Path[coins] \cap Failed = {}
  <2>1. CASE newTip = NoBlock
    BY <2>1, <1>2, <1>3 DEF HolderInv
  <2>2. CASE newTip # NoBlock
    <3>1. coins = newTip
      BY <2>2, <1>3 DEF HolderInv
    <3>2. CASE newTip \in Path[tip]
      BY <3>1, <3>2, <1>2, <1>3, PathTrans
    <3>3. CASE job.kind = "step" /\ newTip \in Path[job.target]
      BY <3>1, <3>3, <1>2, <1>3, PathTrans, JobShape DEF TypeOK
    <3>4. QED
      BY <2>2, <3>2, <3>3, <1>1 DEF DiskTip
  <2>3. QED
    BY <2>1, <2>2
<1>5. Path[diskCoins] \cap Failed = {}
  <2>1. CASE diskCoins \in Path[tip]
    BY <2>1, <1>2, <1>3, PathTrans
  <2>2. CASE diskCoins = coins
    BY <2>2, <1>4
  <2>3. QED
    BY <2>1, <2>2, <1>1 DEF DiskTip
<1>6. QED
  BY <1>2, <1>4, <1>5

LEMMA DiskFlagsNext ==
  ASSUME CoreInv, FlagInv, Next
  PROVE  DiskFlags'
<1>0. DiskFlags /\ HolderInv /\ TypeOK
  BY DEF FlagInv, CoreInv
<1>1. CASE FlushIndex
  <2>1. /\ dirty' = {} /\ UNCHANGED <<failedValid, failedChild, diskCoins, job, used>>
    BY <1>1 DEF FlushIndex, status
  <2>2. disk'.failedValid \cup disk'.failedChild
           \subseteq ((disk.failedValid \cup disk.failedChild) \ dirty) \cup Failed
    BY <1>1, FlushIndexCore
  <2>3. disk'.failedValid \cup disk'.failedChild \subseteq Failed
    BY <1>0, <2>2 DEF DiskFlags
  <2>4. Failed' = Failed
    BY <2>1 DEF Failed
  <2>5. used.invalidate = 0 => Path[diskCoins] \cap Failed = {}
    BY CleanChains
  <2>6. QED
    BY <1>0, <2>1, <2>3, <2>4, <2>5 DEF DiskFlags
<1>2. CASE FlushCoins
  <2>1. /\ flush = "coins" /\ diskCoins' = coins
        /\ UNCHANGED <<failedValid, failedChild, dirty, disk, used>>
        /\ job' = (IF job.kind = "flush" THEN Free ELSE job)
    BY <1>2 DEF FlushCoins, status
  <2>2. dirty = {}
    BY <2>1, <1>0 DEF HolderInv
  <2>3. used.invalidate = 0 => Path[coins] \cap Failed = {}
    BY CleanChains
  <2>4. Failed' = Failed
    BY <2>1 DEF Failed
  <2>5. used.invalidate = 0 => job'.kind # "invalidate"
    BY <1>0, <2>1 DEF DiskFlags, Free
  <2>6. QED
    BY <1>0, <2>1, <2>2, <2>3, <2>4, <2>5 DEF DiskFlags
<1>3. CASE Restart
  <2>1. /\ failedValid' = disk.failedValid /\ failedChild' = disk.failedChild /\ job' = Free
        /\ disk' = disk /\ diskCoins' = diskCoins /\ used' = [used EXCEPT !.crash = @ + 1]
    BY <1>3 DEF Restart, durable
  <2>2. used'.invalidate = used.invalidate
    BY <1>0, <2>1 DEF TypeOK
  <2>3. QED
    BY <1>0, <2>1, <2>2 DEF DiskFlags, Failed, Free
<1>4. CASE \E t \in Threads, b \in Blocks : InvalidateBlock(t, b)
  <2>1. PICK b \in Blocks : /\ failedValid' = failedValid \cup {b} /\ dirty' = dirty \cup {b}
                            /\ UNCHANGED <<failedChild, disk, diskCoins>>
                            /\ used' = [used EXCEPT !.invalidate = @ + 1]
    BY <1>4 DEF InvalidateBlock, durable
  <2>2. used'.invalidate # 0
    BY <1>0, <2>1 DEF TypeOK
  <2>3. QED
    BY <1>0, <2>1, <2>2 DEF DiskFlags, Failed
<1>5. CASE \E t \in Threads, b \in Blocks : ReconsiderBlock(t, b)
  <2>1. PICK b \in Blocks : /\ failedValid' = failedValid \ Cleared(b)
                            /\ failedChild' = failedChild \ Cleared(b)
                            /\ dirty \cup Cleared(b) \subseteq dirty'
                            /\ UNCHANGED <<disk, diskCoins, job>>
                            /\ used' = [used EXCEPT !.reconsider = @ + 1]
    BY <1>5 DEF ReconsiderBlock, durable
  <2>2. used'.invalidate = used.invalidate
    BY <1>0, <2>1 DEF TypeOK
  <2>3. Failed \cup dirty \subseteq Failed' \cup dirty'
    BY <2>1 DEF Failed
  <2>4. QED
    BY <1>0, <2>1, <2>2, <2>3 DEF DiskFlags
<1>6. CASE \/ \E t \in Threads, b \in Blocks : ProcessNewBlock(t, b)
           \/ \E t \in Threads : NothingToDo(t) \/ StartStep(t) \/ LoopTest(t)
           \/ StepDisconnect \/ StepConnect \/ StepInvalid \/ StepUpdateTip \/ DisconnectUpdateTip
           \/ InvalidateDisconnect \/ InvalidateDone \/ StartFlush
  <2>1. /\ failedValid \subseteq failedValid' /\ failedChild \subseteq failedChild' /\ dirty \subseteq dirty'
        /\ UNCHANGED <<disk, diskCoins, used>>
        /\ job' = job \/ job'.kind \in {"none", "step", "flush"}
    <3>1. CASE \E t \in Threads, b \in Blocks : ProcessNewBlock(t, b)
      <4>1. PICK t \in Threads, b \in Blocks : ProcessNewBlock(t, b)
        BY <3>1
      <4>2. failedValid \subseteq failedValid' /\ failedChild' = failedChild /\ dirty \subseteq dirty'
        BY <4>1, AcceptFacts DEF AcceptStored
      <4>3. UNCHANGED <<disk, diskCoins, used, job>>
        BY <4>1, AcceptFacts
      <4>4. QED
        BY <4>2, <4>3
    <3>2. CASE \E t \in Threads : NothingToDo(t) \/ StartStep(t)
      <4>1. DropTried /\ UNCHANGED <<failedValid, dirty, disk, diskCoins, used>>
        BY <3>2 DEF NothingToDo, StartStep, durable
      <4>2. job' = job \/ job'.kind = "step"
        BY <3>2 DEF NothingToDo, StartStep
      <4>3. QED
        BY <4>1, <4>2, DropTriedIs
    <3>3. CASE \/ \E t \in Threads : LoopTest(t)
               \/ StepDisconnect \/ StepConnect \/ StepInvalid \/ StepUpdateTip \/ DisconnectUpdateTip
               \/ InvalidateDisconnect \/ InvalidateDone \/ StartFlush
      BY <3>3 DEF LoopTest, StepDisconnect, StepConnect, StepInvalid, StepUpdateTip, DisconnectUpdateTip,
                  InvalidateDisconnect, InvalidateDone, StartFlush, DisconnectTip, status, durable, Free
    <3>4. QED
      BY <1>6, <3>1, <3>2, <3>3
  <2>2. Failed \cup dirty \subseteq Failed' \cup dirty'
    BY <2>1 DEF Failed
  <2>3. QED
    BY <1>0, <2>1, <2>2 DEF DiskFlags
<1>7. QED
  BY <1>1, <1>2, <1>3, <1>4, <1>5, <1>6 DEF Next, HolderStep, ActivateBestChain

\* The commands and the crash are counted, and nothing else.
LEMMA UsedNext ==
  ASSUME CoreInv, Next
  PROVE  /\ used'.invalidate = 0 => used.invalidate = 0
         /\ used'.crash = 0 => used.crash = 0 /\ ~Restart
         /\ used'.reconsider = 0 => /\ used.reconsider = 0
                                    /\ ~\E t \in Threads, b \in Blocks : ReconsiderBlock(t, b)
<1>0. used \in [invalidate : Nat, reconsider : Nat, crash : Nat]
  BY DEF CoreInv, TypeOK
<1>1. CASE \E t \in Threads, b \in Blocks : InvalidateBlock(t, b)
  <2>1. used' = [used EXCEPT !.invalidate = @ + 1]
    BY <1>1 DEF InvalidateBlock
  <2>2. used'.invalidate = used.invalidate + 1 /\ used'.crash = used.crash /\ used'.reconsider = used.reconsider
    BY <1>0, <2>1
  <2>3. (Restart => used'.crash = used.crash + 1) /\ used.crash \in Nat /\ used.invalidate \in Nat
    BY <1>0 DEF Restart
  <2>4. /\ (\E t \in Threads, b \in Blocks : ReconsiderBlock(t, b)) => used'.reconsider = used.reconsider + 1
        /\ used.reconsider \in Nat
    BY <1>0 DEF ReconsiderBlock
  <2>5. QED
    BY <2>2, <2>3, <2>4
<1>2. CASE Restart
  <2>1. used' = [used EXCEPT !.crash = @ + 1]
    BY <1>2 DEF Restart
  <2>2. /\ used'.invalidate = used.invalidate /\ used'.crash = used.crash + 1
        /\ used'.reconsider = used.reconsider /\ used.crash \in Nat
    BY <1>0, <2>1
  <2>3. /\ (\E t \in Threads, b \in Blocks : ReconsiderBlock(t, b)) => used'.reconsider = used.reconsider + 1
        /\ used.reconsider \in Nat
    BY <1>0 DEF ReconsiderBlock
  <2>4. QED
    BY <2>2, <2>3
<1>3. CASE \E t \in Threads, b \in Blocks : ReconsiderBlock(t, b)
  <2>1. used' = [used EXCEPT !.reconsider = @ + 1]
    BY <1>3 DEF ReconsiderBlock
  <2>2. /\ used'.invalidate = used.invalidate /\ used'.crash = used.crash
        /\ used'.reconsider = used.reconsider + 1 /\ used.reconsider \in Nat /\ used.crash \in Nat
    BY <1>0, <2>1
  <2>3. Restart => used'.crash = used.crash + 1
    BY <1>0 DEF Restart
  <2>4. QED
    BY <2>2, <2>3
<1>4. CASE UNCHANGED used
  <2>1. Restart => used'.crash = used.crash + 1
    BY <1>0 DEF Restart
  <2>2. (\E t \in Threads, b \in Blocks : ReconsiderBlock(t, b)) => used'.reconsider = used.reconsider + 1
    BY <1>0 DEF ReconsiderBlock
  <2>3. used.crash \in Nat /\ used.reconsider \in Nat
    BY <1>0
  <2>4. QED
    BY <1>4, <2>1, <2>2, <2>3
<1>5. CASE \/ \E t \in Threads, b \in Blocks : ProcessNewBlock(t, b)
           \/ \E t \in Threads : ActivateBestChain(t)
           \/ HolderStep \/ StartFlush
  <2>1. UNCHANGED used
    BY <1>5 DEF ProcessNewBlock, ActivateBestChain, NothingToDo, StartStep, LoopTest, HolderStep,
                StepDisconnect, StepConnect, StepInvalid, StepUpdateTip, DisconnectUpdateTip,
                InvalidateDisconnect, InvalidateDone, StartFlush, FlushIndex, FlushCoins
  <2>2. QED
    BY <2>1, <1>4
<1>6. QED
  BY <1>1, <1>2, <1>3, <1>5 DEF Next

LEMMA FlagsOnChainNext ==
  ASSUME CoreInv, FlagInv, Next, NoHalfInvalidated'
  PROVE  FlagsOnChain'
<1>0. /\ TypeOK /\ DiskTip /\ DiskFlags /\ tip \in Blocks /\ Path[tip] \subseteq data
      /\ data \subseteq Blocks
  BY CoreFacts DEF FlagInv, CoreInv
<1>1. NoHalfInvalidated
  BY UsedNext DEF NoHalfInvalidated
<1>2. FlagsOnChain
  BY <1>1 DEF FlagInv
<1>3. job.kind # "invalidate" => Path[tip] \cap Failed = {}
  BY <1>2 DEF FlagsOnChain
<1>4. CASE \E t \in Threads, b \in Blocks : ProcessNewBlock(t, b)
  <2>1. PICK t \in Threads, b \in Blocks : ProcessNewBlock(t, b)
    BY <1>4
  <2>2. tip' = tip /\ job' = job /\ job = Free /\ failedChild' = failedChild
    BY <2>1, AcceptFacts
  <2>3. failedValid' = failedValid \/ (b \notin data /\ failedValid' = failedValid \cup {b})
    BY <2>1, AcceptFacts DEF AcceptStored
  <2>4. Path[tip] \cap Failed' = {}
    BY <2>2, <2>3, <1>0, <1>3 DEF Failed, Free
  <2>5. QED
    BY <2>2, <2>4 DEF FlagsOnChain, Free
<1>5. CASE \E t \in Threads : NothingToDo(t) \/ StartStep(t)
  <2>1. PICK t \in Threads : NothingToDo(t) \/ StartStep(t)
    BY <1>5
  <2>2. DropTried /\ job = Free /\ tip' = tip /\ failedValid' = failedValid
    BY <2>1 DEF NothingToDo, StartStep
  <2>3. Path[tip] \cap Failed = {}
    BY <1>3, <2>2 DEF Free
  <2>4. \A x \in Failed' \ Failed : \E d \in Path[x] \ Path[tip] : d \in Failed
    BY <2>2, DropTriedIs DEF Failed
  <2>5. Path[tip] \cap Failed' = {}
    BY <1>0, <2>3, <2>4, PathTrans
  <2>6. CASE NothingToDo(t)
    <3>1. job' = job
      BY <2>6 DEF NothingToDo
    <3>2. QED
      BY <2>2, <2>5, <3>1 DEF FlagsOnChain, Free
  <2>7. CASE StartStep(t)
    <3> DEFINE b == Best(Usable)
    <3>1. job' = [kind |-> "step", thread |-> t, target |-> b, old |-> tip] /\ Usable # {} /\ b # tip
      BY <2>7 DEF StartStep
    <3>2. b \in Usable /\ b \in Blocks
      BY <3>1, TargetIs, CoreFacts
    <3> HIDE DEF b
    <3>3. Path[b] \cap Failed = {}
      BY <3>2, <2>3 DEF Usable, Defects
    <3>4. Path[b] \cap Failed' = {}
      BY <3>2, <3>3, <2>4, PathTrans
    <3>5. QED
      BY <2>2, <2>5, <3>1, <3>4 DEF FlagsOnChain
  <2>8. QED
    BY <2>1, <2>6, <2>7
<1>6. CASE StepInvalid
  <2> DEFINE b == NextTowards(job.target)
  <2>1. /\ job.kind = "step" /\ tip = FindFork(tip, job.target) /\ failedValid' = failedValid \cup {b}
        /\ job' = Free /\ UNCHANGED <<failedChild, tip>>
    BY <1>6 DEF StepInvalid
  <2>2. b \notin Path[tip]
    BY <2>1, ConnectFacts
  <2>3. Path[tip] \cap Failed' = {}
    BY <1>3, <2>1, <2>2 DEF Failed
  <2>4. QED
    BY <2>1, <2>3 DEF FlagsOnChain, Free
<1>7. CASE StepUpdateTip
  <2>1. /\ job.kind = "step" /\ tip' = newTip /\ (job' = Free \/ job' = job)
        /\ UNCHANGED <<failedValid, failedChild>>
    BY <1>7 DEF StepUpdateTip, status
  <2>2. newTip \in Path[job.target] /\ job.target \in Blocks
    BY <1>0, <1>7, UpFacts
  <2>3. Path[newTip] \cap Failed = {}
    BY <1>2, <2>1, <2>2, PathTrans DEF FlagsOnChain
  <2>4. Failed' = Failed
    BY <2>1 DEF Failed
  <2>5. QED
    BY <1>2, <2>1, <2>3, <2>4 DEF FlagsOnChain, Free
<1>8. CASE DisconnectUpdateTip
  <2>1. newTip \in Path[tip] /\ tip' = newTip /\ UNCHANGED <<failedValid, failedChild, job>>
    BY <1>8 DEF DisconnectUpdateTip, status
  <2>2. Path[newTip] \subseteq Path[tip] /\ Failed' = Failed
    BY <1>0, <2>1, PathTrans DEF Failed
  <2>3. QED
    BY <1>2, <2>1, <2>2 DEF FlagsOnChain
<1>9. CASE \E t \in Threads, b \in Blocks : InvalidateBlock(t, b)
  <2>1. PICK t \in Threads, b \in Blocks :
           /\ job = Free /\ failedValid' = failedValid \cup {b} /\ UNCHANGED <<failedChild, tip>>
           /\ job' = [kind |-> "invalidate", thread |-> t, target |-> b]
    BY <1>9 DEF InvalidateBlock
  <2>2. Path[tip] \cap Failed' \subseteq {b} /\ b \in Path[b]
    BY <1>3, <2>1, PathSelf DEF Failed, Free
  <2>3. QED
    BY <2>1, <2>2 DEF FlagsOnChain
<1>10. CASE InvalidateDisconnect
  <2>1. /\ job.kind = "invalidate" /\ job.target \in Path[tip] /\ failedChild' = failedChild \cup {tip}
        /\ UNCHANGED <<failedValid, tip, job>>
    BY <1>10 DEF InvalidateDisconnect
  <2>2. Failed' = Failed \cup {tip}
    BY <2>1 DEF Failed
  <2>3. QED
    BY <1>2, <2>1, <2>2 DEF FlagsOnChain
<1>11. CASE InvalidateDone
  <2>1. /\ job.kind = "invalidate" /\ job.target \notin Path[tip] /\ job' = Free
        /\ UNCHANGED <<failedValid, failedChild, tip>>
    BY <1>11 DEF InvalidateDone, status
  <2>2. Path[tip] \cap Failed = {}
    BY <1>0, <1>2, <2>1, PathTrans DEF FlagsOnChain
  <2>3. Failed' = Failed
    BY <2>1 DEF Failed
  <2>4. QED
    BY <2>1, <2>2, <2>3 DEF FlagsOnChain, Free
<1>12. CASE \E t \in Threads, b \in Blocks : ReconsiderBlock(t, b)
  <2>1. /\ job = Free /\ Failed' \subseteq Failed /\ UNCHANGED <<tip, job>>
    BY <1>12 DEF ReconsiderBlock, Failed
  <2>2. QED
    BY <1>3, <2>1 DEF FlagsOnChain, Free
<1>13. CASE Restart
  <2>1. used.invalidate = 0
    BY <1>13, UsedNext DEF NoHalfInvalidated
  <2>2. Path[diskCoins] \cap (disk.failedValid \cup disk.failedChild) = {}
    BY <1>0, <2>1 DEF DiskFlags
  <2>3. /\ failedValid' = disk.failedValid /\ failedChild' = disk.failedChild /\ tip' = diskCoins /\ job' = Free
    BY <1>13 DEF Restart
  <2>4. QED
    BY <2>2, <2>3 DEF FlagsOnChain, Failed, Free
<1>14. CASE \/ \E t \in Threads : LoopTest(t)
            \/ StepDisconnect \/ StepConnect \/ StartFlush \/ FlushIndex \/ FlushCoins
  <2>1. UNCHANGED <<failedValid, failedChild, tip>>
    BY <1>14 DEF LoopTest, StepDisconnect, StepConnect, StartFlush, FlushIndex, FlushCoins, status
  <2>2. Failed' = Failed
    BY <2>1 DEF Failed
  <2>3. job' = job \/ (job.kind \in {"none", "flush"} /\ job'.kind \in {"none", "flush"})
    BY <1>14 DEF LoopTest, StepDisconnect, StepConnect, StartFlush, FlushIndex, FlushCoins, Free
  <2>4. QED
    BY <1>2, <2>1, <2>2, <2>3 DEF FlagsOnChain
<1>15. QED
  BY <1>4, <1>5, <1>6, <1>7, <1>8, <1>9, <1>10, <1>11, <1>12, <1>13, <1>14
     DEF Next, HolderStep, ActivateBestChain

LEMMA NextFlags == CoreInv /\ FlagInv /\ [Next]_vars => FlagInv'
<1> SUFFICES ASSUME CoreInv, FlagInv, [Next]_vars PROVE FlagInv'
  OBVIOUS
<1>1. CASE UNCHANGED vars
  BY <1>1 DEF vars, status, durable, control, FlagInv, DiskTip, DiskFlags, FlagsOnChain, NoHalfInvalidated, Failed
<1>2. CASE Next
  BY <1>2, DiskTipNext, DiskFlagsNext, FlagsOnChainNext DEF FlagInv
<1>3. QED
  BY <1>1, <1>2

(* The invariant of the failure flags holds in every reachable state.      *)
THEOREM FlagInvariant == Spec => []FlagInv
<1>1. CoreInv /\ [Next]_vars /\ FlagInv => FlagInv'
  BY NextFlags
<1>2. QED
  BY <1>1, InitFlags, CoreInvariant, PTL DEF Spec

(* "We know all blocks in it are valid already": for any number of         *)
(* commands, as long as a crash did not meet an invalidateblock, no block  *)
(* of the active chain carries a failure flag outside InvalidateBlock.     *)
THEOREM ActiveChainAlwaysValid == Spec => [](NoHalfInvalidated => ActiveChainValid)
<1>1. FlagInv => (NoHalfInvalidated => ActiveChainValid)
  BY DEF FlagInv, FlagsOnChain, ActiveChainValid
<1>2. QED
  BY <1>1, FlagInvariant, PTL

(* Until invalidateblock is used the assertion of                          *)
(* PruneBlockIndexCandidates holds after a crash at any moment: the best   *)
(* block of the coin database is itself a candidate.                       *)
THEOREM AlwaysStartsUp == Spec => []StartupWithoutInvalidate
<1>1. CoreInv /\ FlagInv => StartupWithoutInvalidate
  <2> SUFFICES ASSUME CoreInv, FlagInv, used.invalidate = 0, NEW a \in Addresses
               PROVE  diskCoins \in LoadedAbove(a)
    BY DEF StartupWithoutInvalidate, StartupAssertion
  <2>1. diskCoins \in Blocks /\ ChainOnDisk /\ DiskFlags
    BY CoreFacts DEF CoreInv, FlagInv
  <2>2. diskCoins \in Path[diskCoins] /\ Path[diskCoins] \subseteq disk.data
    BY <2>1, PathSelf DEF ChainOnDisk
  <2>3. diskCoins \in LoadedCandidates
    BY <2>1, <2>2 DEF DiskFlags, LoadedCandidates, LoadedChainTx
  <2>4. ChainWork[diskCoins] \in Nat /\ a[diskCoins] \in Nat
    BY <2>1, Tree, ChainAssumption
  <2>5. QED
    BY <2>3, <2>4 DEF LoadedAbove
<1>2. QED
  BY <1>1, CoreInvariant, FlagInvariant, PTL

-----------------------------------------------------------------------------
(* The candidates.                                                         *)

LEMMA InitWork == Init => WorkInv
<1> SUFFICES ASSUME Init PROVE WorkInv
  OBVIOUS
<1>1. Connected
  BY Tree, ChainAssumption DEF Init, Connected
<1>2. /\ tip = Genesis /\ candidates = {Genesis} /\ chainTx = {Genesis} /\ Failed = {} /\ job.kind = "none"
      /\ addr \in Addresses /\ seq \in [Blocks -> Nat]
  BY DEF Init, Failed, Free
<1>3. ~Worse(Genesis, Genesis)
  BY <1>2, Tree, WorseOrder
<1>4. Sound(Genesis)
  BY <1>2, Tree, ChainAssumption DEF Sound, Valid
<1>5. BestKnown
  BY <1>2, <1>3, <1>4 DEF BestKnown, TipCovered, BetterCovered, StepTarget, Looking, Covered, NothingBetter
<1>6. ChildExplained
  BY <1>2 DEF Init, ChildExplained
<1>7. QED
  BY <1>1, <1>5, <1>6 DEF WorkInv

LEMMA ConnectedNext ==
  ASSUME CoreInv, DiskTip, Connected, Next
  PROVE  Connected'
<1>0. /\ tip \in Blocks /\ HolderInv /\ (job = Free => newTip = NoBlock)
  BY CoreFacts DEF CoreInv
<1>1. CASE StepDisconnect \/ InvalidateDisconnect
  <2>1. coins' = Parent[tip] /\ UNCHANGED <<tip, diskCoins>>
    BY <1>1 DEF StepDisconnect, InvalidateDisconnect, DisconnectTip, durable
  <2>2. Path[Parent[tip]] \subseteq Path[tip]
    BY <1>1, DisconnectFacts, StepDisconnectCore, InvalidateDisconnectCore
  <2>3. QED
    BY <2>1, <2>2 DEF Connected
<1>2. CASE StepConnect
  <2> DEFINE b == NextTowards(job.target)
  <2>1. /\ job.kind = "step" /\ tip = FindFork(tip, job.target) /\ b \notin BadConnect
        /\ coins' = b /\ UNCHANGED <<tip, diskCoins>>
    BY <1>2 DEF StepConnect, durable
  <2>2. Path[b] = Path[tip] \cup {b}
    BY <2>1, ConnectFacts
  <2>3. QED
    BY <2>1, <2>2 DEF Connected
<1>3. CASE StepUpdateTip \/ DisconnectUpdateTip
  <2>1. /\ tip' = newTip /\ UNCHANGED <<coins, diskCoins>> /\ flush = "done"
        /\ job.kind \in {"step", "invalidate"}
    BY <1>3 DEF StepUpdateTip, DisconnectUpdateTip, durable
  <2>2. newTip = coins
    BY <1>0, <2>1 DEF HolderInv
  <2>3. QED
    BY <2>1, <2>2 DEF Connected
<1>4. CASE FlushCoins
  <2>1. diskCoins' = coins /\ UNCHANGED <<tip, coins>>
    BY <1>4 DEF FlushCoins
  <2>2. QED
    BY <2>1 DEF Connected
<1>5. CASE Restart
  <2>1. tip' = diskCoins /\ coins' = diskCoins /\ diskCoins' = diskCoins
    BY <1>5 DEF Restart, durable
  <2>2. QED
    BY <2>1 DEF Connected
<1>6. CASE \/ \E t \in Threads, b \in Blocks : ProcessNewBlock(t, b)
           \/ \E t \in Threads : NothingToDo(t) \/ StartStep(t) \/ LoopTest(t)
           \/ \E t \in Threads, b \in Blocks : InvalidateBlock(t, b) \/ ReconsiderBlock(t, b)
           \/ StepInvalid \/ InvalidateDone \/ StartFlush \/ FlushIndex
  <2>1. UNCHANGED <<tip, coins, diskCoins>>
    BY <1>6 DEF ProcessNewBlock, NothingToDo, StartStep, LoopTest, InvalidateBlock, ReconsiderBlock,
                StepInvalid, InvalidateDone, StartFlush, FlushIndex, durable
  <2>2. QED
    BY <2>1 DEF Connected
<1>7. QED
  BY <1>1, <1>2, <1>3, <1>4, <1>5, <1>6 DEF Next, HolderStep, ActivateBestChain

LEMMA ChildExplainedNext ==
  ASSUME CoreInv, ChildExplained, Next, ~\E t \in Threads, b \in Blocks : ReconsiderBlock(t, b)
  PROVE  ChildExplained'
<1>0. TypeOK /\ tip \in Blocks /\ data \subseteq Blocks /\ index \subseteq Blocks
  BY CoreFacts DEF CoreInv, TypeOK
<1>1. CASE \E t \in Threads, b \in Blocks : ProcessNewBlock(t, b)
  <2>1. PICK t \in Threads, b \in Blocks : ProcessNewBlock(t, b)
    BY <1>1
  <2>2. UNCHANGED <<failedChild, disk, job>> /\ dirty \subseteq dirty'
    BY <2>1, AcceptFacts
  <2>3. failedValid' = failedValid \/ (failedValid' = failedValid \cup {b} /\ b \in dirty')
    BY <2>1, AcceptFacts DEF AcceptStored
  <2>4. QED
    BY <2>2, <2>3 DEF ChildExplained
<1>2. CASE \E t \in Threads : NothingToDo(t) \/ StartStep(t)
  <2>1. DropTried /\ UNCHANGED <<failedValid, dirty, disk>>
    BY <1>2 DEF NothingToDo, StartStep, durable
  <2>2. job = Free /\ (job' = job \/ job'.kind = "step")
    BY <1>2 DEF NothingToDo, StartStep
  <2>3. ASSUME NEW x \in failedChild' PROVE Path[x] \cap failedValid # {}
    <3>1. CASE x \in failedChild
      BY <3>1 DEF ChildExplained
    <3>2. CASE x \notin failedChild
      <4>1. PICK d \in Path[x] : d \in Failed
        BY <3>2, <2>1, DropTriedIs
      <4>2. x \in Blocks
        BY <1>0, <3>2, <2>1, DropTriedIs
      <4>3. Path[d] \subseteq Path[x]
        BY <4>2, PathTrans
      <4>4. QED
        BY <4>1, <4>3 DEF Failed, ChildExplained
    <3>3. QED
      BY <3>1, <3>2
  <2>4. QED
    BY <2>1, <2>2, <2>3 DEF ChildExplained, Free
<1>3. CASE StepInvalid
  <2>1. /\ UNCHANGED <<failedChild, disk>> /\ job' = Free
        /\ \E b : failedValid' = failedValid \cup {b} /\ dirty' = dirty \cup {b}
    BY <1>3 DEF StepInvalid, durable
  <2>2. QED
    BY <2>1 DEF ChildExplained, Free
<1>4. CASE \E t \in Threads, b \in Blocks : InvalidateBlock(t, b)
  <2>1. PICK b \in Blocks : /\ failedValid' = failedValid \cup {b} /\ dirty' = dirty \cup {b}
                            /\ UNCHANGED <<failedChild, disk>> /\ job'.target = b
    BY <1>4 DEF InvalidateBlock, durable
  <2>2. QED
    BY <2>1 DEF ChildExplained
<1>5. CASE InvalidateDisconnect
  <2>1. /\ job.kind = "invalidate" /\ job.target \in Path[tip] /\ failedChild' = failedChild \cup {tip}
        /\ UNCHANGED <<failedValid, disk, job>> /\ dirty' = dirty \cup {tip}
    BY <1>5 DEF InvalidateDisconnect, durable
  <2>2. QED
    BY <2>1 DEF ChildExplained
<1>6. CASE FlushIndex
  <2>1. /\ disk'.failedValid = (disk.failedValid \ dirty) \cup (failedValid \cap dirty)
        /\ disk'.failedChild = (disk.failedChild \ dirty) \cup (failedChild \cap dirty)
        /\ UNCHANGED <<failedValid, failedChild, job>>
    BY <1>6 DEF FlushIndex, status
  <2>2. disk'.failedValid = failedValid
    BY <2>1 DEF ChildExplained
  <2>3. \A x \in disk'.failedChild : Path[x] \cap failedValid # {}
    BY <2>1 DEF ChildExplained
  <2>4. QED
    BY <2>1, <2>2, <2>3 DEF ChildExplained
<1>7. CASE Restart
  <2>1. /\ failedValid' = disk.failedValid /\ failedChild' = disk.failedChild /\ disk' = disk /\ job' = Free
    BY <1>7 DEF Restart, durable
  <2>2. QED
    BY <2>1 DEF ChildExplained, Free
<1>8. CASE \/ \E t \in Threads : LoopTest(t)
           \/ StepDisconnect \/ StepConnect \/ StepUpdateTip \/ DisconnectUpdateTip
           \/ InvalidateDone \/ StartFlush \/ FlushCoins
  <2>1. /\ UNCHANGED <<failedValid, failedChild, disk>> /\ dirty \subseteq dirty'
        /\ job' = job \/ job'.kind \in {"none", "flush"}
    BY <1>8 DEF LoopTest, StepDisconnect, StepConnect, StepUpdateTip, DisconnectUpdateTip, InvalidateDone,
                StartFlush, FlushCoins, status, durable, Free
  <2>2. QED
    BY <2>1 DEF ChildExplained
<1>9. QED
  BY <1>1, <1>2, <1>3, <1>4, <1>5, <1>6, <1>7, <1>8 DEF Next, HolderStep, ActivateBestChain

\* Steps that touch neither flags nor candidates nor the tip.
LEMMA BestFrame ==
  ASSUME CoreInv, BestKnown,
         UNCHANGED <<chainTx, failedValid, failedChild, seq, addr, candidates, tip>>,
         \/ UNCHANGED <<job, pc, mostWork>>
         \/ job.kind \in {"none", "flush"} /\ job'.kind \in {"none", "flush"} /\ UNCHANGED <<pc, mostWork>>
         \/ UNCHANGED job /\ \E t \in Threads : LoopTest(t)
  PROVE  BestKnown'
<1>0. TypeOK /\ job \in Jobs
  BY DEF CoreInv, TypeOK
<1>1. /\ \A b : Valid(b)' <=> Valid(b)
      /\ \A b, c : Worse(b, c)' <=> Worse(b, c)
      /\ \A b : Sound(b)' <=> Sound(b)
  BY DEF Valid, Failed, Worse, WorseBy, Sound
<1>2. \A b : Covered(b)' <=> Covered(b)
  BY <1>1 DEF Covered
<1>3. \A b : NothingBetter(b)' <=> NothingBetter(b)
  BY <1>1 DEF NothingBetter
<1>4. job'.kind = job.kind \/ (job.kind \in {"none", "flush"} /\ job'.kind \in {"none", "flush"})
  OBVIOUS
<1>5. TipCovered' /\ BetterCovered'
  BY <1>1, <1>2, <1>4 DEF BestKnown, TipCovered, BetterCovered
<1>6. CASE UNCHANGED <<pc, mostWork>>
  BY <1>3, <1>4, <1>5, <1>6 DEF BestKnown, StepTarget, Looking
<1>7. CASE UNCHANGED job /\ \E t \in Threads : LoopTest(t)
  <2>1. PICK t \in Threads : LoopTest(t)
    BY <1>7
  <2>2. /\ pc[t] = "loop"
        /\ pc' = [pc EXCEPT ![t] = IF mostWork[t] = tip THEN "idle" ELSE "activate"]
        /\ mostWork' = [mostWork EXCEPT ![t] = NoBlock]
    BY <2>1 DEF LoopTest
  <2>3. /\ \A u \in Threads \ {t} : pc'[u] = pc[u] /\ mostWork'[u] = mostWork[u]
        /\ pc'[t] = IF mostWork[t] = tip THEN "idle" ELSE "activate"
    BY <1>0, <2>2 DEF TypeOK
  <2>4. StepTarget'
    <3> SUFFICES ASSUME job.kind = "step"
                 PROVE  /\ pc'[job.thread] = "activate" /\ mostWork'[job.thread] = job.target
                        /\ NothingBetter(job.target)'
      BY <1>7 DEF StepTarget
    <3>1. pc[job.thread] = "activate" /\ mostWork[job.thread] = job.target /\ NothingBetter(job.target)
      BY DEF BestKnown, StepTarget
    <3>2. job.thread \in Threads \ {t}
      BY <1>0, <2>2, <3>1, JobShape
    <3>3. QED
      BY <1>3, <2>3, <3>1, <3>2
  <2>5. Looking'
    <3>1. CASE job.kind \in {"step", "invalidate"} \/ NothingBetter(tip)
      BY <3>1, <1>3, <1>7 DEF Looking
    <3>2. CASE \E u \in Threads : pc[u] = "activate" \/ (pc[u] = "loop" /\ mostWork[u] # tip)
      <4>1. PICK u \in Threads : pc[u] = "activate" \/ (pc[u] = "loop" /\ mostWork[u] # tip)
        BY <3>2
      <4>2. CASE u = t
        BY <4>1, <4>2, <2>2, <2>3 DEF Looking
      <4>3. CASE u # t
        BY <4>1, <4>3, <2>3 DEF Looking
      <4>4. QED
        BY <4>2, <4>3
    <3>3. QED
      BY <3>1, <3>2 DEF BestKnown, Looking
  <2>6. QED
    BY <1>5, <2>4, <2>5 DEF BestKnown
<1>8. QED
  BY <1>6, <1>7

\* The same order for any sequence numbers.
LEMMA WorseByOrder ==
  ASSUME addr \in Addresses, NEW s \in [Blocks -> Nat], NEW a \in Blocks, NEW b \in Blocks
  PROVE  WorseBy(s, a, b) => ~WorseBy(s, b, a)
<1>1. /\ ChainWork[a] \in Nat /\ ChainWork[b] \in Nat /\ s[a] \in Nat /\ s[b] \in Nat
      /\ addr[a] \in Nat /\ addr[b] \in Nat
  BY Tree, AddressType
<1>2. QED
  BY <1>1 DEF WorseBy

LEMMA ProcessBest ==
  ASSUME CoreInv, BestKnown, NEW t \in Threads, NEW b \in Blocks, ProcessNewBlock(t, b)
  PROVE  BestKnown'
<1>0. /\ TypeOK /\ tip \in Blocks /\ tip \in chainTx /\ chainTx \subseteq Blocks
      /\ \A c \in chainTx : Path[c] \subseteq data
  BY CoreFacts DEF CoreInv, TypeOK
<1>1. /\ b \in Blocks \ {Genesis} /\ Parent[b] \notin Failed /\ job = Free
      /\ UNCHANGED <<failedChild, addr, tip, mostWork, job>>
  BY AcceptFacts
<1>2. failedValid' = failedValid \/ (b \notin data /\ failedValid' = failedValid \cup {b})
  BY AcceptFacts DEF AcceptStored
<1>3. /\ chainTx \subseteq chainTx' /\ chainTx' \subseteq Blocks /\ seq' \in [Blocks -> Nat]
      /\ candidates \subseteq candidates'
      /\ \A c \in chainTx : seq'[c] = seq[c]
      /\ \A c \in chainTx' \ chainTx : c \in candidates' \/ WorseBy(seq', c, tip)
  <2>1. CASE b \notin data /\ AcceptStored(t, b)
    <3>1. data' = data \cup {b} /\ ReceivedBlockTransactions(b)
      BY <2>1 DEF AcceptStored
    <3>2. data' \subseteq Blocks
      BY <3>1, <1>0 DEF TypeOK
    <3>3. QED
      BY <1>1, <2>1, <3>1, <3>2, ReceivedCore
  <2>2. CASE UNCHANGED <<chainTx, seq, candidates>>
    BY <1>0, <2>2 DEF TypeOK
  <2>3. QED
    BY <2>1, <2>2, AcceptFacts
<1>4. \A c \in chainTx : Path[c] \cap Failed' = Path[c] \cap Failed
  BY <1>0, <1>1, <1>2 DEF Failed
<1>5. \A c \in chainTx : (Valid(c)' <=> Valid(c)) /\ (Sound(c)' <=> Sound(c))
  BY <1>3, <1>4 DEF Valid, Sound
<1>6. \A c, d \in chainTx : Worse(c, d)' <=> Worse(c, d)
  BY <1>1, <1>3 DEF Worse, WorseBy
<1>7. \A c, d \in Blocks : Worse(c, d)' <=> WorseBy(seq', c, d)
  BY <1>1 DEF Worse, WorseBy
<1>8. \A d \in chainTx : Covered(d) => Covered(d)'
  <2> SUFFICES ASSUME NEW d \in chainTx, NEW c \in candidates, Sound(c), ~Worse(c, d) PROVE Covered(d)'
    BY DEF Covered
  <2>1. c \in chainTx /\ c \in candidates'
    BY <1>0, <1>3 DEF TypeOK
  <2>2. QED
    BY <1>5, <1>6, <2>1 DEF Covered
<1>9. TipCovered'
  <2>1. Covered(tip)
    BY <1>1 DEF BestKnown, TipCovered, Free
  <2>2. QED
    BY <1>0, <1>1, <1>8, <2>1 DEF TipCovered
<1>10. BetterCovered'
  <2> SUFFICES ASSUME NEW c \in chainTx', Valid(c)', Worse(tip, c)'
               PROVE  c \in candidates' \/ Covered(c)'
    BY <1>1 DEF BetterCovered
  <2>1. CASE c \in chainTx
    <3>1. Valid(c) /\ Worse(tip, c)
      BY <2>1, <1>0, <1>1, <1>5, <1>6
    <3>2. c \in candidates \/ Covered(c)
      BY <2>1, <3>1, <1>1 DEF BestKnown, BetterCovered, Free
    <3>3. QED
      BY <2>1, <3>2, <1>3, <1>8
  <2>2. CASE c \notin chainTx
    <3>1. WorseBy(seq', tip, c)
      BY <1>0, <1>1, <1>3, <1>7
    <3>2. ~WorseBy(seq', c, tip)
      BY <1>0, <1>3, <3>1, WorseByOrder DEF TypeOK
    <3>3. QED
      BY <2>2, <3>2, <1>3
  <2>3. QED
    BY <2>1, <2>2
<1>11. StepTarget'
  BY <1>1 DEF StepTarget, Free
<1>12. Looking'
  <2>1. CASE pc' = [pc EXCEPT ![t] = "activate"]
    <3>1. pc'[t] = "activate"
      BY <1>0, <2>1 DEF TypeOK
    <3>2. QED
      BY <3>1 DEF Looking
  <2>2. CASE pc' = pc /\ UNCHANGED <<chainTx, seq>>
    <3>1. NothingBetter(tip) => NothingBetter(tip)'
      BY <1>0, <1>1, <1>5, <1>6, <2>2 DEF NothingBetter
    <3>2. QED
      BY <3>1, <1>1, <2>2 DEF BestKnown, Looking
  <2>3. QED
    BY <2>1, <2>2, AcceptFacts DEF AcceptStored
<1>13. QED
  BY <1>9, <1>10, <1>11, <1>12 DEF BestKnown

\* FindMostWorkChain drops no valid block, and its choice has no valid block above it.
LEMMA ActivateBest ==
  ASSUME CoreInv, BestKnown, NEW t \in Threads, NothingToDo(t) \/ StartStep(t)
  PROVE  BestKnown'
<1> DEFINE m == Best(Usable)
<1>0. /\ TypeOK /\ tip \in Blocks /\ tip \in chainTx /\ chainTx \subseteq Blocks
      /\ candidates \subseteq chainTx /\ seq \in [Blocks -> Nat] /\ addr \in Addresses
      /\ \A c \in chainTx : Path[c] \subseteq data
  BY CoreFacts DEF CoreInv, TypeOK
<1>1. /\ DropTried /\ job = Free /\ pc[t] = "activate"
      /\ UNCHANGED <<index, data, failedValid, chainTx, seq, addr, tip>>
  BY DEF NothingToDo, StartStep, order
<1>2. /\ candidates' \subseteq candidates /\ failedChild \subseteq failedChild'
      /\ \A x \in failedChild' \ failedChild : \E d \in Path[x] \ Path[tip] : d \in Failed
      /\ \A x \in candidates \ candidates' : Path[x] \cap Failed # {}
  BY <1>1, DropTriedIs
<1>3. TipCovered /\ BetterCovered /\ job.kind = "none"
  BY <1>1 DEF BestKnown, Free
<1>4. ASSUME NEW c \in chainTx
      PROVE  (Valid(c)' <=> Valid(c)) /\ (Sound(c)' <=> Sound(c))
  <2>1. \A x \in Path[c] : Path[x] \subseteq Path[c]
    BY <1>0, PathTrans
  <2>2. Path[c] \cap Failed = {} <=> Path[c] \cap Failed' = {}
    BY <1>1, <1>2, <2>1 DEF Failed
  <2>3. QED
    BY <1>1, <2>2 DEF Valid, Sound
<1>5. \A c, d : Worse(c, d)' <=> Worse(c, d)
  BY <1>1 DEF Worse, WorseBy
<1>6. \A c \in candidates : Valid(c) => c \in candidates' /\ c \in Usable
  BY <1>0, <1>2 DEF Valid, Usable, Defects
<1>7. \A d : Covered(d) => Covered(d)'
  <2> SUFFICES ASSUME NEW d, NEW c \in candidates, Sound(c), ~Worse(c, d) PROVE Covered(d)'
    BY DEF Covered
  <2>1. c \in candidates' /\ Sound(c)' /\ ~Worse(c, d)'
    BY <1>0, <1>4, <1>5, <1>6 DEF Sound
  <2>2. QED
    BY <2>1 DEF Covered
<1>8. TipCovered' /\ BetterCovered'
  <2>1. TipCovered'
    BY <1>1, <1>3, <1>7 DEF TipCovered
  <2>2. ASSUME NEW b \in chainTx', Valid(b)', Worse(tip, b)'
        PROVE  b \in candidates' \/ Covered(b)'
    <3>1. b \in chainTx /\ Valid(b) /\ Worse(tip, b)
      BY <1>1, <1>4, <1>5, <2>2
    <3>2. b \in candidates \/ Covered(b)
      BY <1>3, <3>1 DEF BetterCovered
    <3>3. QED
      BY <1>6, <1>7, <3>1, <3>2
  <2>3. QED
    BY <2>1, <2>2 DEF BetterCovered
<1>9. PICK k \in candidates : Sound(k) /\ ~Worse(k, tip)
  BY <1>3 DEF TipCovered, Covered
<1>10. Usable \subseteq candidates /\ Usable \subseteq Blocks /\ k \in Usable
  BY <1>0, <1>6, <1>9 DEF Usable, Sound
<1>11. m \in Usable /\ \A c \in Usable : ~Worse(m, c)
  BY <1>0, <1>10, BestIs
<1> HIDE DEF m
<1>12. NothingBetter(m)
  <2> SUFFICES ASSUME NEW b \in chainTx, Valid(b) PROVE ~Worse(m, b)
    BY DEF NothingBetter
  <2>0. m \in Blocks /\ b \in Blocks
    BY <1>0, <1>10, <1>11
  <2>1. CASE ~Worse(tip, b)
    <3>1. ~Worse(k, b)
      BY <1>0, <1>9, <1>10, <2>0, <2>1, WorseTrans
    <3>2. QED
      BY <1>0, <1>10, <1>11, <2>0, <3>1, WorseTrans
  <2>2. CASE b \in candidates
    BY <2>2, <1>6, <1>11
  <2>3. CASE Covered(b)
    <3>1. PICK c \in candidates : Sound(c) /\ ~Worse(c, b)
      BY <2>3 DEF Covered
    <3>2. c \in Usable /\ c \in Blocks
      BY <1>6, <1>10, <3>1 DEF Sound
    <3>3. QED
      BY <1>0, <1>11, <2>0, <3>1, <3>2, WorseTrans
  <2>4. QED
    BY <1>3, <2>1, <2>2, <2>3 DEF BetterCovered
<1>13. CASE NothingToDo(t)
  <2>1. m = tip /\ job' = job
    BY <1>10, <1>13 DEF NothingToDo, m
  <2>2. NothingBetter(tip)'
    BY <1>1, <1>4, <1>5, <1>12, <2>1 DEF NothingBetter
  <2>3. QED
    BY <1>3, <1>8, <2>1, <2>2 DEF BestKnown, StepTarget, Looking
<1>14. CASE StartStep(t)
  <2>1. /\ mostWork' = [mostWork EXCEPT ![t] = m] /\ pc' = pc
        /\ job' = [kind |-> "step", thread |-> t, target |-> m, old |-> tip]
    BY <1>14 DEF StartStep, m
  <2>2. mostWork'[t] = m /\ pc'[t] = "activate"
    BY <1>0, <1>1, <2>1 DEF TypeOK
  <2>3. job'.kind = "step" /\ job'.thread = t /\ job'.target = m
    BY <2>1
  <2>4. StepTarget'
    <3>1. NothingBetter(job.target)'
      BY <1>1, <1>4, <1>5, <1>12, <2>3 DEF NothingBetter
    <3>2. QED
      BY <2>2, <2>3, <3>1 DEF StepTarget
  <2>5. QED
    BY <1>8, <2>3, <2>4 DEF BestKnown, Looking
<1>15. QED
  BY <1>13, <1>14

\* The block that ConnectBlock refused is on no chain to fall back on.
LEMMA StepInvalidBest ==
  ASSUME CoreInv, BestKnown, StepInvalid
  PROVE  BestKnown'
<1> DEFINE b == NextTowards(job.target)
<1>0. /\ TypeOK /\ tip \in Blocks /\ candidates \subseteq chainTx /\ chainTx \subseteq Blocks
      /\ TargetInv /\ job \in Jobs
  BY CoreFacts DEF CoreInv, TypeOK
<1>1. /\ job.kind = "step" /\ tip = FindFork(tip, job.target) /\ b \in BadConnect
      /\ failedValid' = failedValid \cup {b} /\ candidates' = candidates \ {b} /\ job' = Free
      /\ pc' = [pc EXCEPT ![job.thread] = "loop"]
      /\ UNCHANGED <<failedChild, chainTx, seq, addr, tip, mostWork>>
  BY DEF StepInvalid, order
<1>2. b \in Blocks
  BY <1>1, ConnectFacts
<1> HIDE DEF b
<1>3. \A c, d : Worse(c, d)' <=> Worse(c, d)
  BY <1>1 DEF Worse, WorseBy
<1>4. \A c \in chainTx : /\ Valid(c)' => Valid(c) /\ c # b
                         /\ Sound(c) => Sound(c)' /\ c # b
  BY <1>0, <1>1, PathSelf DEF Valid, Sound, Failed
<1>5. \A d : Covered(d) => Covered(d)'
  <2> SUFFICES ASSUME NEW d, NEW c \in candidates, Sound(c), ~Worse(c, d) PROVE Covered(d)'
    BY DEF Covered
  <2>1. c \in candidates' /\ Sound(c)' /\ ~Worse(c, d)'
    BY <1>0, <1>1, <1>3, <1>4
  <2>2. QED
    BY <2>1 DEF Covered
<1>6. TipCovered /\ BetterCovered /\ StepTarget
  BY DEF BestKnown
<1>7. TipCovered'
  BY <1>1, <1>5, <1>6 DEF TipCovered
<1>8. BetterCovered'
  <2> SUFFICES ASSUME NEW x \in chainTx', Valid(x)', Worse(tip, x)'
               PROVE  x \in candidates' \/ Covered(x)'
    BY DEF BetterCovered
  <2>1. x \in chainTx /\ Valid(x) /\ Worse(tip, x) /\ x # b
    BY <1>1, <1>3, <1>4
  <2>2. x \in candidates \/ Covered(x)
    BY <1>1, <1>6, <2>1 DEF BetterCovered
  <2>3. QED
    BY <1>1, <1>5, <2>1, <2>2
<1>9. StepTarget'
  BY <1>1 DEF StepTarget, Free
<1>10. Looking'
  <2>1. job.thread \in Threads /\ mostWork[job.thread] = job.target /\ job.target # tip
    BY <1>0, <1>1, <1>6, JobShape, PathSelf DEF StepTarget, TargetInv
  <2>2. pc'[job.thread] = "loop"
    BY <1>0, <1>1, <2>1 DEF TypeOK
  <2>3. \E t \in Threads : pc'[t] = "loop" /\ mostWork'[t] # tip'
    BY <1>1, <2>1, <2>2
  <2>4. QED
    BY <2>3 DEF Looking
<1>11. QED
  BY <1>7, <1>8, <1>9, <1>10 DEF BestKnown

\* A connected tip is sound, and the candidates worse than it are not missed.
LEMMA StepUpdateTipBest ==
  ASSUME CoreInv, DiskTip, FlagsOnChain, Connected, BestKnown, StepUpdateTip
  PROVE  BestKnown'
<1> DEFINE over == ChainWork[newTip] > ChainWork[job.old] \/ newTip = job.target
<1>0. /\ TypeOK /\ tip \in Blocks /\ candidates \subseteq chainTx /\ chainTx \subseteq Blocks
      /\ job \in Jobs /\ seq \in [Blocks -> Nat] /\ addr \in Addresses /\ coins \in chainTx
  BY CoreFacts DEF CoreInv, TypeOK
<1>1. /\ job.kind = "step" /\ tip' = newTip /\ candidates' = Pruned(newTip)
      /\ job' = (IF over THEN Free ELSE job)
      /\ pc' = (IF over THEN [pc EXCEPT ![job.thread] = "loop"] ELSE pc)
      /\ UNCHANGED <<failedValid, failedChild, chainTx, seq, addr, mostWork>>
  BY DEF StepUpdateTip, status, order
<1>2. /\ newTip \in Path[job.target] /\ newTip \in Blocks /\ tip \in Path[newTip]
      /\ job.target \in Blocks /\ coins = newTip /\ job.thread \in Threads
  BY <1>0, <1>1, UpFacts, JobShape
<1>3. /\ \A c, d : Worse(c, d)' <=> Worse(c, d)
      /\ \A c : Valid(c)' <=> Valid(c)
      /\ \A c : Sound(c)' <=> Sound(c)
  BY <1>1 DEF Worse, WorseBy, Valid, Sound, Failed
<1>4. Sound(newTip) /\ Valid(newTip)
  <2>1. Path[newTip] \subseteq Path[job.target]
    BY <1>2, PathTrans
  <2>2. Path[newTip] \cap Failed = {}
    BY <1>1, <2>1 DEF FlagsOnChain
  <2>3. QED
    BY <1>0, <1>2, <2>2 DEF Connected, Sound, Valid
<1>5. newTip = tip \/ Worse(tip, newTip)
  <2> SUFFICES ASSUME newTip # tip PROVE Worse(tip, newTip)
    OBVIOUS
  <2>1. ChainWork[tip] < ChainWork[newTip]
    BY <1>2, PathBelow
  <2>2. QED
    BY <1>0, <1>2, <2>1, WorseOrder
<1>6. TipCovered /\ BetterCovered /\ StepTarget
  BY DEF BestKnown
<1>7. TipCovered'
  <2>1. ~Worse(newTip, newTip)
    BY <1>0, <1>2, WorseOrder
  <2>2. Covered(newTip)
    BY <1>0, <1>1, <1>2, <1>4, <1>5, <1>6, <2>1 DEF TipCovered, BetterCovered, Covered
  <2>3. PICK c \in candidates : Sound(c) /\ ~Worse(c, newTip)
    BY <2>2 DEF Covered
  <2>4. c \in candidates' /\ Sound(c)' /\ ~Worse(c, tip)'
    BY <1>1, <1>3, <2>3 DEF Pruned, Worse, WorseBy
  <2>5. QED
    BY <2>4 DEF TipCovered, Covered
<1>8. BetterCovered'
  <2> SUFFICES ASSUME NEW x \in chainTx', Valid(x)', Worse(tip, x)'
               PROVE  x \in candidates' \/ Covered(x)'
    BY DEF BetterCovered
  <2>1. x \in chainTx /\ x \in Blocks /\ Valid(x) /\ Worse(newTip, x)
    BY <1>0, <1>1, <1>3 DEF Worse, WorseBy
  <2>2. Worse(tip, x) /\ ~Worse(x, newTip)
    BY <1>0, <1>2, <1>5, <2>1, WorseTrans, WorseOrder
  <2>3. x \in candidates \/ Covered(x)
    BY <1>1, <1>6, <2>1, <2>2 DEF BetterCovered
  <2>4. CASE x \in candidates
    BY <1>1, <2>2, <2>4 DEF Pruned
  <2>5. CASE Covered(x)
    <3>1. PICK c \in candidates : Sound(c) /\ ~Worse(c, x)
      BY <2>5 DEF Covered
    <3>2. ~Worse(c, newTip)
      BY <1>0, <1>2, <2>1, <2>2, <3>1, WorseTrans
    <3>3. c \in candidates' /\ Sound(c)' /\ ~Worse(c, x)'
      BY <1>1, <1>3, <3>1, <3>2 DEF Pruned
    <3>4. QED
      BY <3>3 DEF Covered
  <2>6. QED
    BY <2>3, <2>4, <2>5
<1>9. /\ pc[job.thread] = "activate" /\ mostWork[job.thread] = job.target /\ NothingBetter(job.target)
  BY <1>1, <1>6 DEF StepTarget
<1>10. CASE over
  <2>1. job'.kind = "none" /\ pc'[job.thread] = "loop"
    BY <1>0, <1>1, <1>2, <1>10 DEF Free, TypeOK
  <2>2. CASE newTip = job.target
    <3>1. NothingBetter(tip)'
      BY <1>1, <1>3, <1>9, <2>2 DEF NothingBetter, Worse, WorseBy
    <3>2. QED
      BY <1>7, <1>8, <2>1, <3>1 DEF BestKnown, StepTarget, Looking
  <2>3. CASE newTip # job.target
    <3>1. \E t \in Threads : pc'[t] = "loop" /\ mostWork'[t] # tip'
      BY <1>1, <1>2, <1>9, <2>1, <2>3
    <3>2. QED
      BY <1>7, <1>8, <2>1, <3>1 DEF BestKnown, StepTarget, Looking
  <2>4. QED
    BY <2>2, <2>3
<1>11. CASE ~over
  <2>1. job' = job /\ pc' = pc
    BY <1>1, <1>11
  <2>2. NothingBetter(job.target)'
    BY <1>1, <1>3, <1>9, <2>1 DEF NothingBetter, Worse, WorseBy
  <2>3. QED
    BY <1>1, <1>7, <1>8, <1>9, <2>1, <2>2 DEF BestKnown, StepTarget, Looking
<1>12. QED
  BY <1>10, <1>11

LEMMA DisconnectUpdateTipBest ==
  ASSUME CoreInv, BestKnown, DisconnectUpdateTip
  PROVE  BestKnown'
<1>0. /\ TypeOK /\ tip \in Blocks /\ candidates \subseteq chainTx /\ chainTx \subseteq Blocks
      /\ seq \in [Blocks -> Nat] /\ addr \in Addresses
  BY CoreFacts DEF CoreInv, TypeOK
<1>1. /\ job.kind \in {"step", "invalidate"} /\ newTip \in Path[tip] /\ tip' = newTip
      /\ UNCHANGED <<failedValid, failedChild, chainTx, seq, addr, candidates, pc, mostWork, job>>
  BY DEF DisconnectUpdateTip, status, order, memory
<1>2. newTip \in Blocks
  BY <1>0, <1>1, PathSelf
<1>3. /\ \A c, d : Worse(c, d)' <=> Worse(c, d)
      /\ \A c : Valid(c)' <=> Valid(c)
      /\ \A c : Sound(c)' <=> Sound(c)
  BY <1>1 DEF Worse, WorseBy, Valid, Sound, Failed
<1>4. ~Worse(tip, newTip)
  <2>1. CASE newTip = tip
    BY <1>0, <2>1, WorseOrder
  <2>2. CASE newTip # tip
    <3>1. ChainWork[newTip] < ChainWork[tip]
      BY <1>0, <1>1, <2>2, PathBelow
    <3>2. QED
      BY <1>0, <1>2, <3>1, WorseOrder
  <2>3. QED
    BY <2>1, <2>2
<1>5. \A c : Covered(c) => Covered(c)'
  BY <1>1, <1>3 DEF Covered
<1>6. TipCovered /\ BetterCovered /\ StepTarget
  BY DEF BestKnown
<1>7. ASSUME job.kind # "invalidate", NEW x \in chainTx, ~Worse(tip, x)
      PROVE  Covered(x)
  <2>1. PICK c \in candidates : Sound(c) /\ ~Worse(c, tip)
    BY <1>6, <1>7 DEF TipCovered, Covered
  <2>2. ~Worse(c, x)
    BY <1>0, <1>7, <2>1, WorseTrans
  <2>3. QED
    BY <2>1, <2>2 DEF Covered
<1>8. newTip \in chainTx
  BY <1>0, <1>1 DEF DisconnectUpdateTip, CoreInv, HolderInv, TypeOK
<1>9. TipCovered'
  <2> SUFFICES ASSUME job'.kind # "invalidate" PROVE Covered(tip)'
    BY DEF TipCovered
  <2>1. Covered(newTip)
    BY <1>1, <1>4, <1>7, <1>8
  <2>2. QED
    BY <1>1, <1>3, <2>1 DEF Covered, Worse, WorseBy
<1>10. BetterCovered'
  <2> SUFFICES ASSUME job'.kind # "invalidate", NEW x \in chainTx', Valid(x)', Worse(tip, x)'
               PROVE  x \in candidates' \/ Covered(x)'
    BY DEF BetterCovered
  <2>1. CASE Worse(tip, x)
    BY <1>1, <1>3, <1>5, <1>6, <2>1 DEF BetterCovered
  <2>2. CASE ~Worse(tip, x)
    BY <1>1, <1>5, <1>7, <2>2
  <2>3. QED
    BY <2>1, <2>2
<1>11. StepTarget'
  BY <1>1, <1>3, <1>6 DEF StepTarget, NothingBetter
<1>12. QED
  BY <1>1, <1>9, <1>10, <1>11 DEF BestKnown, Looking

\* InvalidateBlock promises nothing before it ends, and then has put every valid
\* block that is as good as the tip back.
LEMMA InvalidateBest ==
  ASSUME CoreInv, FlagsOnChain, Connected,
         \/ \E t \in Threads, b \in Blocks : InvalidateBlock(t, b)
         \/ InvalidateDisconnect \/ InvalidateDone
  PROVE  BestKnown'
<1>1. CASE \/ \E t \in Threads, b \in Blocks : InvalidateBlock(t, b)
           \/ InvalidateDisconnect
  <2>1. job'.kind = "invalidate"
    BY <1>1 DEF InvalidateBlock, InvalidateDisconnect
  <2>2. QED
    BY <2>1 DEF BestKnown, TipCovered, BetterCovered, StepTarget, Looking
<1>2. CASE InvalidateDone
  <2>0. /\ TypeOK /\ tip \in Blocks /\ tip \in chainTx /\ chainTx \subseteq Blocks /\ chainTx \subseteq data
        /\ job \in Jobs /\ seq \in [Blocks -> Nat] /\ addr \in Addresses
    BY CoreFacts DEF CoreInv, TypeOK
  <2>1. /\ job.kind = "invalidate" /\ job.target \notin Path[tip]
        /\ candidates' = candidates \cup {c \in Eligible : ~Worse(c, tip)}
        /\ pc' = [pc EXCEPT ![job.thread] = "activate"] /\ job' = Free
        /\ UNCHANGED <<failedValid, failedChild, chainTx, seq, addr, tip>>
    BY <1>2 DEF InvalidateDone, status, order
  <2>2. /\ \A c, d : Worse(c, d)' <=> Worse(c, d)
        /\ \A c : Valid(c)' <=> Valid(c)
        /\ \A c : Sound(c)' <=> Sound(c)
    BY <2>1 DEF Worse, WorseBy, Valid, Sound, Failed
  <2>3. \A c \in chainTx : Valid(c) /\ ~Worse(c, tip) => c \in candidates'
    BY <2>0, <2>1, PathSelf DEF Valid, Eligible
  <2>4. Sound(tip) /\ Valid(tip)
    <3>1. Path[tip] \cap Failed = {}
      BY <2>0, <2>1, PathTrans DEF FlagsOnChain
    <3>2. QED
      BY <2>0, <3>1 DEF Sound, Valid, Connected
  <2>5. ~Worse(tip, tip)
    BY <2>0, WorseOrder
  <2>6. TipCovered'
    BY <2>0, <2>1, <2>2, <2>3, <2>4, <2>5 DEF TipCovered, Covered
  <2>7. BetterCovered'
    <3> SUFFICES ASSUME NEW x \in chainTx', Valid(x)', Worse(tip, x)' PROVE x \in candidates'
      BY DEF BetterCovered
    <3>1. x \in chainTx /\ x \in Blocks /\ Valid(x) /\ Worse(tip, x)
      BY <2>0, <2>1, <2>2
    <3>2. ~Worse(x, tip)
      BY <2>0, <3>1, WorseOrder
    <3>3. QED
      BY <2>3, <3>1, <3>2
  <2>8. job.thread \in Threads
    BY <2>0, <2>1, JobShape
  <2>9. pc'[job.thread] = "activate"
    BY <2>0, <2>1, <2>8 DEF TypeOK
  <2>10. StepTarget' /\ Looking'
    BY <2>1, <2>8, <2>9 DEF StepTarget, Looking, Free
  <2>11. QED
    BY <2>6, <2>7, <2>10 DEF BestKnown
<1>3. QED
  BY <1>1, <1>2

\* LoadBlockIndexDB finds the tip clean when invalidateblock was not used, and
\* loads every valid block that is as good.
LEMMA RestartBest ==
  ASSUME CoreInv, FlagInv, Connected, Restart, NoHalfInvalidated'
  PROVE  BestKnown'
<1>0. /\ TypeOK /\ ChainOnDisk /\ diskCoins \in Blocks /\ DiskFlags
      /\ used \in [invalidate : Nat, reconsider : Nat, crash : Nat] /\ disk \in DiskIndex
  BY CoreFacts DEF CoreInv, TypeOK, FlagInv
<1>1. /\ failedValid' = disk.failedValid /\ failedChild' = disk.failedChild
      /\ chainTx' = LoadedChainTx /\ seq' = [b \in Blocks |-> 0] /\ addr' \in Addresses
      /\ tip' = diskCoins /\ diskCoins' = diskCoins /\ job' = Free
      /\ used' = [used EXCEPT !.crash = @ + 1]
      /\ \E t \in Threads : pc' = [u \in Threads |-> IF u = t THEN "activate" ELSE "idle"]
  BY DEF Restart, durable
<1>2. used.invalidate = 0
  <2>1. used'.crash = used.crash + 1 /\ used.crash \in Nat /\ used'.invalidate = used.invalidate
    BY <1>0, <1>1
  <2>2. QED
    BY <2>1 DEF NoHalfInvalidated
<1>3. Path[diskCoins] \cap (disk.failedValid \cup disk.failedChild) = {}
  BY <1>0, <1>2 DEF DiskFlags
<1>4. Failed' = disk.failedValid \cup disk.failedChild
  BY <1>1 DEF Failed
<1>5. diskCoins \in LoadedCandidates /\ diskCoins \in chainTx'
  BY <1>0, <1>1, <1>3, PathSelf DEF ChainOnDisk, LoadedCandidates, LoadedChainTx
<1>6. LoadedChainTx \subseteq Blocks
  BY <1>0 DEF LoadedChainTx, DiskIndex
<1>7. \A c \in LoadedCandidates : c \in candidates' <=> ~Worse(c, tip)'
  BY RestartCore
<1>8. ASSUME NEW x \in Blocks, x = diskCoins \/ Worse(tip, x)' PROVE ~Worse(x, tip)'
  <2>1. /\ ChainWork[x] \in Nat /\ ChainWork[diskCoins] \in Nat /\ addr'[x] \in Nat /\ addr'[diskCoins] \in Nat
        /\ seq'[x] = 0 /\ seq'[diskCoins] = 0
    BY <1>0, <1>1, Tree, ChainAssumption
  <2>2. QED
    BY <1>1, <1>8, <2>1 DEF Worse, WorseBy
<1>9. TipCovered'
  <2>1. Sound(tip)'
    BY <1>1, <1>3, <1>4, <1>5 DEF Sound, Valid, Connected
  <2>2. \A x \in LoadedCandidates : x = diskCoins => x \in candidates' /\ ~Worse(x, tip)'
    BY <1>0, <1>7, <1>8
  <2>3. tip' \in candidates' /\ ~Worse(tip, tip)'
    BY <1>1, <1>5, <2>2 DEF Worse, WorseBy
  <2>4. QED
    BY <2>1, <2>3 DEF TipCovered, Covered
<1>10. BetterCovered'
  <2> SUFFICES ASSUME NEW x \in chainTx', Valid(x)', Worse(tip, x)' PROVE x \in candidates'
    BY DEF BetterCovered
  <2>1. x \in Blocks /\ x \in Path[x]
    BY <1>1, <1>6, PathSelf
  <2>2. x \in LoadedCandidates
    BY <1>1, <1>4, <2>1 DEF Valid, LoadedCandidates
  <2>3. QED
    BY <1>7, <1>8, <2>1, <2>2
<1>11. StepTarget' /\ Looking'
  BY <1>1 DEF StepTarget, Looking, Free
<1>12. QED
  BY <1>9, <1>10, <1>11 DEF BestKnown

LEMMA BestKnownNext ==
  ASSUME CoreInv, FlagInv, Connected, PlainHistory => BestKnown, Next, PlainHistory'
  PROVE  BestKnown'
<1>1. /\ PlainHistory
      /\ ~\E t \in Threads, b \in Blocks : ReconsiderBlock(t, b)
  BY UsedNext DEF PlainHistory, NoHalfInvalidated
<1>2. BestKnown /\ FlagsOnChain /\ DiskTip /\ NoHalfInvalidated'
  BY <1>1 DEF PlainHistory, FlagInv
<1>3. CASE \/ \E t \in Threads : LoopTest(t)
           \/ StepDisconnect \/ StepConnect \/ StartFlush \/ FlushIndex \/ FlushCoins
  <2>1. UNCHANGED <<chainTx, failedValid, failedChild, seq, addr, candidates, tip>>
    BY <1>3 DEF LoopTest, StepDisconnect, StepConnect, StartFlush, FlushIndex, FlushCoins,
                status, order, memory
  <2>2. \/ UNCHANGED <<job, pc, mostWork>>
        \/ job.kind \in {"none", "flush"} /\ job'.kind \in {"none", "flush"} /\ UNCHANGED <<pc, mostWork>>
        \/ UNCHANGED job /\ \E t \in Threads : LoopTest(t)
    BY <1>3 DEF LoopTest, StepDisconnect, StepConnect, StartFlush, FlushIndex, FlushCoins, Free
  <2>3. QED
    BY <1>2, <2>1, <2>2, BestFrame
<1>4. QED
  BY <1>1, <1>2, <1>3, ProcessBest, ActivateBest, StepInvalidBest, StepUpdateTipBest,
     DisconnectUpdateTipBest, InvalidateBest, RestartBest
     DEF Next, HolderStep, ActivateBestChain

LEMMA NextWork == CoreInv /\ FlagInv /\ WorkInv /\ [Next]_vars => WorkInv'
<1> SUFFICES ASSUME CoreInv, FlagInv, WorkInv, [Next]_vars PROVE WorkInv'
  OBVIOUS
<1>1. CASE UNCHANGED vars
  <2>1. UNCHANGED <<chainTx, failedValid, failedChild, seq, addr, candidates, tip, coins, diskCoins, disk,
                    dirty, job, pc, mostWork, used>>
    BY <1>1 DEF vars, status, order, memory, durable, control
  <2>2. (PlainHistory' <=> PlainHistory) /\ (BestKnown => BestKnown')
    BY <2>1, BestFrame DEF PlainHistory, NoHalfInvalidated
  <2>3. Connected' /\ (used'.reconsider = 0 => ChildExplained')
    BY <2>1 DEF WorkInv, Connected, ChildExplained
  <2>4. QED
    BY <2>2, <2>3 DEF WorkInv
<1>2. CASE Next
  <2>1. Connected'
    BY <1>2, ConnectedNext DEF WorkInv, FlagInv
  <2>2. PlainHistory' => BestKnown'
    BY <1>2, BestKnownNext DEF WorkInv
  <2>3. used'.reconsider = 0 => ChildExplained'
    BY <1>2, UsedNext, ChildExplainedNext DEF WorkInv
  <2>4. QED
    BY <2>1, <2>2, <2>3 DEF WorkInv
<1>3. QED
  BY <1>1, <1>2

(* What the candidates are good for, in every reachable state.             *)
THEOREM WorkInvariant == Spec => []WorkInv
<1>1. CoreInv /\ FlagInv /\ [Next]_vars /\ WorkInv => WorkInv'
  BY NextWork
<1>2. QED
  BY <1>1, InitWork, CoreInvariant, FlagInvariant, PTL DEF Spec

(* "The result is either failure or an activated best chain": when every   *)
(* call of ActivateBestChain has returned, no valid block sorts better     *)
(* than the tip.  This is for any interleaving of threads, any number of   *)
(* crashes or of invalidateblock commands, but not both, and without       *)
(* reconsiderblock, which the run chain_reconsider shows to break it.      *)
THEOREM MostWorkAlwaysActive == Spec => [](PlainHistory => MostWorkActive)
<1>1. CoreInv /\ WorkInv => (PlainHistory => MostWorkActive)
  <2> SUFFICES ASSUME CoreInv, BestKnown, Quiet, NEW b \in data, Path[b] \subseteq data \ Failed
               PROVE  ~Worse(tip, b)
    BY DEF WorkInv, MostWorkActive
  <2>1. b \in chainTx /\ Valid(b)
    BY DEF CoreInv, LinksExact, Valid
  <2>2. job.kind = "none" /\ \A t \in Threads : pc[t] = "idle"
    BY DEF Quiet, Free
  <2>3. NothingBetter(tip)
    BY <2>2 DEF BestKnown, Looking
  <2>4. QED
    BY <2>1, <2>3 DEF NothingBetter
<1>2. QED
  BY <1>1, CoreInvariant, WorkInvariant, PTL

(* CheckBlockIndex on setBlockIndexCandidates, in the same histories: when *)
(* no call is running, every block whose chain is linked and has no        *)
(* BLOCK_FAILED_VALID, and which is as good as the tip, is a candidate.    *)
THEOREM CandidatesAlwaysComplete == Spec => [](PlainHistory => CandidatesComplete)
<1>1. CoreInv /\ WorkInv => (PlainHistory => CandidatesComplete)
  <2> SUFFICES ASSUME CoreInv, BestKnown, ChildExplained, Quiet, NEW b \in chainTx,
                      Path[b] \cap failedValid = {}, ~Worse(b, tip)
               PROVE  b \in candidates
    BY DEF WorkInv, PlainHistory, CandidatesComplete
  <2>0. /\ tip \in Blocks /\ b \in Blocks /\ candidates \subseteq chainTx /\ candidates \subseteq Blocks
        /\ seq \in [Blocks -> Nat] /\ addr \in Addresses
    BY CoreFacts DEF CoreInv, TypeOK
  <2>1. Valid(b)
    <3>1. \A x \in Path[b] : Path[x] \subseteq Path[b]
      BY <2>0, PathTrans
    <3>2. Path[b] \cap failedChild = {}
      BY <3>1 DEF ChildExplained
    <3>3. QED
      BY <3>2 DEF Valid, Failed
  <2>2. job.kind = "none" /\ \A t \in Threads : pc[t] = "idle"
    BY DEF Quiet, Free
  <2>3. NothingBetter(tip) /\ TipCovered
    BY <2>2 DEF BestKnown, Looking
  <2>4. b = tip
    BY <2>0, <2>1, <2>3, WorseOrder DEF NothingBetter
  <2>5. PICK c \in candidates : Sound(c) /\ ~Worse(c, tip)
    BY <2>2, <2>3 DEF TipCovered, Covered
  <2>6. ~Worse(tip, c)
    BY <2>0, <2>3, <2>5 DEF NothingBetter, Sound
  <2>7. c = tip
    BY <2>0, <2>5, <2>6, WorseOrder
  <2>8. QED
    BY <2>4, <2>5, <2>7
<1>2. QED
  BY <1>1, CoreInvariant, WorkInvariant, PTL

=============================================================================
