-------------------------- MODULE CoinsCacheProofs --------------------------
(* Proofs about CoinsCache: the flags keep their meaning, the assertion in  *)
(* BatchWrite holds, and the caches implement the flat map of CoinsView.    *)
EXTENDS CoinsCache, TLAPS

(* The assertion of BatchWrite is not inductive: an entry that is spent now *)
(* may get coins again.  What is: an entry of the view that pcoinsTip lacks *)
(* is fresh, spent or not.                                                  *)
FreshOrBelow ==
    \A x \in Txids : view[x] # NoEntry /\ tip[x] = NoEntry => view[x].fresh

(* The inductive invariant: types, and the meaning of the two flags.  The  *)
(* refinement needs all of it: a flush skips clean entries and forgets     *)
(* fresh ones.                                                             *)
Inv == TypeOK /\ FreshMeansAbsent /\ CleanMeansEqual /\ FreshOrBelow

(* Pulling an entry into pcoinsTip keeps the types and is invisible.       *)
LEMMA TipFetchedType ==
    ASSUME TypeOK, NEW x \in Txids
    PROVE  /\ TipFetched(x) \in [Txids -> Entries \cup {NoEntry}]
           /\ \A y \in Txids : y # x => TipFetched(x)[y] = tip[y]
           /\ TipFetched(x)[x] = NoEntry <=> tip[x] = NoEntry /\ db[x] = Pruned
           /\ TipFetched(x)[x] # NoEntry /\ tip[x] = NoEntry =>
                 /\ TipFetched(x)[x].coins = db[x]
                 /\ TipFetched(x)[x].dirty = FALSE
                 /\ TipFetched(x)[x].fresh = FALSE
           /\ tip[x] # NoEntry => TipFetched(x)[x] = tip[x]
<1>1. [coins |-> db[x], dirty |-> FALSE, fresh |-> FALSE] \in Entries
  BY DEF TypeOK, Entries
<1>2. [coins |-> db[x], dirty |-> FALSE, fresh |-> FALSE] # NoEntry
  BY <1>1, CoinsAssumption DEF Entries
<1>3. QED
  BY <1>1, <1>2 DEF TypeOK, TipFetched

(* The entry of the view that FetchCoins makes, and the one ModifyCoins    *)
(* hands out.                                                              *)
LEMMA OpenedType ==
    ASSUME TypeOK, NEW x \in Txids
    PROVE  /\ Pulled(x) \in Entries \cup {NoEntry}
           /\ Opened(x) \in Entries
<1>1. TipFetched(x)[x] \in Entries \cup {NoEntry}
  BY TipFetchedType
<1>2. Pulled(x) \in Entries \cup {NoEntry}
  BY <1>1 DEF Pulled, Entries
<1>3. [coins |-> Pruned, dirty |-> FALSE, fresh |-> TRUE] \in Entries
  BY CoinsAssumption DEF Entries
<1>4. view[x] \in Entries \cup {NoEntry}
  BY DEF TypeOK
<1>5. QED
  BY <1>2, <1>3, <1>4 DEF Opened

(* The initial states satisfy the invariant.                               *)
LEMMA InitInv == Init => Inv
<1> SUFFICES ASSUME Init PROVE Inv
  OBVIOUS
<1>1. \A x \in Txids : tip[x] = NoEntry /\ view[x] = NoEntry
  BY DEF Init, Empty
<1>2. TypeOK
  BY CoinsAssumption DEF Init, Empty, TypeOK
<1>3. QED
  BY <1>1, <1>2 DEF Inv, FreshMeansAbsent, CleanMeansEqual, FreshOrBelow

(* FRESH, DIRTY and the assertion, for one transaction.                    *)
Good(x) ==
    /\ tip[x] # NoEntry /\ tip[x].fresh => db[x] = Pruned
    /\ view[x] # NoEntry /\ view[x].fresh => TipCoins(x) = Pruned
    /\ tip[x] # NoEntry /\ ~tip[x].dirty => tip[x].coins = db[x]
    /\ view[x] # NoEntry /\ ~view[x].dirty => view[x].coins = TipCoins(x)
    /\ view[x] # NoEntry /\ tip[x] = NoEntry => view[x].fresh

LEMMA InvPointwise == Inv <=> TypeOK /\ \A x \in Txids : Good(x)
  BY DEF Inv, FreshMeansAbsent, CleanMeansEqual, FreshOrBelow, Good

LEMMA GoodInv == ASSUME TypeOK', \A x \in Txids : Good(x)' PROVE Inv'
  BY DEF Inv, FreshMeansAbsent, CleanMeansEqual, FreshOrBelow, Good

(* The parts of the type invariant that the actions on the best block and  *)
(* on whole caches touch.                                                  *)
LEMMA EmptyType == /\ Empty \in [Txids -> Entries \cup {NoEntry}]
                   /\ \A x \in Txids : Empty[x] = NoEntry
  BY DEF Empty

(* What each operation does to pcoinsTip as its readers see it.            *)
LEMMA FetchInvisible ==
    ASSUME Inv, NEW x \in Txids, tip' = TipFetched(x), db' = db
    PROVE  \A y \in Txids : TipCoins(y)' = TipCoins(y)
<1> TAKE y \in Txids
<1> TypeOK
  BY DEF Inv
<1>1. CASE y # x
  BY <1>1, TipFetchedType DEF TipCoins
<1>2. CASE y = x
  BY <1>2, TipFetchedType DEF TipCoins
<1>3. QED
  BY <1>1, <1>2

(* Reads pull entries in and keep the invariant.                           *)
LEMMA FetchTipInv == ASSUME Inv, NEW x \in Txids, FetchTip(x) PROVE Inv'
<1> USE DEF FetchTip
<1>0. TypeOK
  BY DEF Inv
<1>1. TypeOK'
  BY <1>0, TipFetchedType DEF TypeOK
<1>2. ASSUME NEW y \in Txids PROVE Good(y)'
  <2>1. Good(y)
    BY InvPointwise
  <2>2. TipCoins(y)' = TipCoins(y)
    BY FetchInvisible
  <2>3. CASE y # x \/ tip[y] # NoEntry \/ db[y] = Pruned
    <3>1. tip'[y] = tip[y]
      BY <1>0, <2>3, TipFetchedType
    <3>2. QED
      BY <2>1, <2>2, <3>1 DEF Good
  <2>4. CASE y = x /\ tip[y] = NoEntry /\ db[y] # Pruned
    <3>1. tip'[y].coins = db'[y] /\ tip'[y].fresh = FALSE /\ tip'[y] # NoEntry
      BY <1>0, <2>4, TipFetchedType
    <3>2. QED
      BY <2>1, <2>2, <3>1 DEF Good
  <2>5. QED
    BY <2>3, <2>4
<1>3. QED
  BY <1>1, <1>2, GoodInv

LEMMA FetchViewInv == ASSUME Inv, NEW x \in Txids, FetchView(x) PROVE Inv'
<1> USE DEF FetchView
<1>0. TypeOK
  BY DEF Inv
<1>1. TypeOK'
  BY <1>0, TipFetchedType, OpenedType DEF TypeOK
<1>2. ASSUME NEW y \in Txids PROVE Good(y)'
  <2>1. Good(y)
    BY InvPointwise
  <2>2. TipCoins(y)' = TipCoins(y)
    BY FetchInvisible
  <2>3. /\ tip'[y] # NoEntry /\ tip'[y].fresh => db'[y] = Pruned
        /\ tip'[y] # NoEntry /\ ~tip'[y].dirty => tip'[y].coins = db'[y]
    BY <1>0, <2>1, TipFetchedType DEF Good
  <2>4. CASE y # x
    <3>1. tip'[y] = tip[y] /\ view'[y] = view[y]
      BY <1>0, <2>4, TipFetchedType DEF TypeOK
    <3>2. QED
      BY <2>1, <2>2, <3>1 DEF Good
  <2>5. CASE y = x
    <3>1. view'[x] = Pulled(x)
      BY <1>0 DEF TypeOK
    <3>2. TipFetched(x)[x] # NoEntry => TipFetched(x)[x].coins = TipCoins(x)
      BY <1>0, TipFetchedType DEF TipCoins
    <3>3. ASSUME TipFetched(x)[x] # NoEntry
          PROVE  /\ view'[x].coins = TipCoins(x)'
                 /\ view'[x].fresh = (TipCoins(x)' = Pruned)
                 /\ view'[x].dirty = FALSE
      BY <2>2, <2>5, <3>1, <3>2, <3>3 DEF Pulled
    <3>4. TipFetched(x)[x] = NoEntry => view'[x] = NoEntry
      BY <3>1 DEF Pulled
    <3>5. QED
      BY <2>3, <2>5, <3>3, <3>4 DEF Good
  <2>6. QED
    BY <2>4, <2>5
<1>3. QED
  BY <1>1, <1>2, GoodInv

(* What ModifyCoins leaves in the view: the caller's value, dirty, and      *)
(* fresh only if pcoinsTip shows no coins.                                  *)
LEMMA ModifiedEntry ==
    ASSUME Inv, NEW x \in Txids, NEW c \in Coins, ModifyCoins(x, c)
    PROVE  /\ TypeOK'
           /\ \A y \in Txids : TipCoins(y)' = TipCoins(y)
           /\ \A y \in Txids : y # x => view'[y] = view[y] /\ tip'[y] = tip[y]
           /\ Opened(x).fresh => TipCoins(x) = Pruned
           /\ view'[x] = NoEntry <=> Opened(x).fresh /\ c = Pruned
           /\ view'[x] # NoEntry => /\ view'[x].coins = c
                                    /\ view'[x].dirty = TRUE
                                    /\ view'[x].fresh = Opened(x).fresh
           /\ tip'[x] = NoEntry => Opened(x).fresh
<1> USE DEF ModifyCoins
<1> DEFINE new == [coins |-> c, dirty |-> TRUE, fresh |-> Opened(x).fresh]
<1>0. TypeOK
  BY DEF Inv
<1>1. new \in Entries /\ new # NoEntry
  <2>1. new \in Entries
    BY <1>0, OpenedType DEF Entries
  <2>2. QED
    BY <2>1, CoinsAssumption DEF Entries
<1>2. TipFetched(x) \in [Txids -> Entries \cup {NoEntry}]
  BY <1>0, TipFetchedType
<1>3. TypeOK'
  BY <1>0, <1>1, <1>2 DEF TypeOK
<1>4. \A y \in Txids : TipCoins(y)' = TipCoins(y)
  <2>1. CASE view[x] = NoEntry
    BY <2>1, FetchInvisible
  <2>2. CASE view[x] # NoEntry
    BY <2>2 DEF TipCoins
  <2>3. QED
    BY <2>1, <2>2
<1>5. \A y \in Txids : y # x => view'[y] = view[y] /\ tip'[y] = tip[y]
  BY <1>0, TipFetchedType DEF TypeOK
<1>6. TipFetched(x)[x] # NoEntry => TipFetched(x)[x].coins = TipCoins(x)
  BY <1>0, TipFetchedType DEF TipCoins
<1>7. Opened(x).fresh => TipCoins(x) = Pruned
  <2>1. CASE view[x] # NoEntry
    BY <2>1, InvPointwise DEF Opened, Good
  <2>2. CASE view[x] = NoEntry /\ TipFetched(x)[x] = NoEntry
    BY <1>0, <2>2, TipFetchedType DEF TipCoins
  <2>3. CASE view[x] = NoEntry /\ TipFetched(x)[x] # NoEntry
    <3>1. Pulled(x) = [coins |-> TipFetched(x)[x].coins, dirty |-> FALSE,
                       fresh |-> TipFetched(x)[x].coins = Pruned]
      BY <2>3 DEF Pulled
    <3>2. Pulled(x) \in Entries
      BY <1>2, <2>3, <3>1 DEF Entries
    <3>3. Pulled(x) # NoEntry
      BY <3>2, CoinsAssumption DEF Entries
    <3>4. Pulled(x).fresh = (TipFetched(x)[x].coins = Pruned)
      BY <2>3 DEF Pulled
    <3>5. Opened(x) = Pulled(x)
      BY <2>3, <3>3 DEF Opened
    <3>6. QED
      BY <1>6, <2>3, <3>4, <3>5
  <2>4. QED
    BY <2>1, <2>2, <2>3
<1>8. view'[x] = IF Opened(x).fresh /\ c = Pruned THEN NoEntry ELSE new
  BY <1>0 DEF TypeOK
<1>9. tip'[x] = NoEntry => Opened(x).fresh
  BY InvPointwise DEF Opened, Pulled, Good
<1>10. QED
  BY <1>1, <1>3, <1>4, <1>5, <1>7, <1>8, <1>9

LEMMA ModifyInv ==
    ASSUME Inv, NEW x \in Txids, NEW c \in Coins, ModifyCoins(x, c) PROVE Inv'
<1>0. TypeOK
  BY DEF Inv
<1>1. ASSUME NEW y \in Txids PROVE Good(y)'
  <2>1. Good(y)
    BY InvPointwise
  <2>2. TipCoins(y)' = TipCoins(y) /\ db' = db
    BY ModifiedEntry DEF ModifyCoins
  <2>3. CASE y # x
    <3>1. tip'[y] = tip[y] /\ view'[y] = view[y]
      BY <2>3, ModifiedEntry
    <3>2. QED
      BY <2>1, <2>2, <3>1 DEF Good
  <2>4. CASE y = x
    <3>1. /\ tip'[x] # NoEntry /\ tip'[x].fresh => db'[x] = Pruned
          /\ tip'[x] # NoEntry /\ ~tip'[x].dirty => tip'[x].coins = db'[x]
      BY <1>0, <2>1, <2>4, TipFetchedType DEF Good, ModifyCoins
    <3>2. QED
      BY <2>2, <2>4, <3>1, ModifiedEntry DEF Good
  <2>5. QED
    BY <2>3, <2>4
<1>2. QED
  BY <1>1, ModifiedEntry, GoodInv

(* BatchWrite into pcoinsTip: its readers now see what the readers of the   *)
(* view saw, and the flags still mean what they should.                     *)
LEMMA MergedEntry ==
    ASSUME Inv, NEW x \in Txids
    PROVE  /\ Merged(x) \in Entries \cup {NoEntry}
           /\ (IF Merged(x) = NoEntry THEN db[x] ELSE Merged(x).coins) = ViewCoins(x)
           /\ Merged(x) # NoEntry /\ Merged(x).fresh => db[x] = Pruned
           /\ Merged(x) # NoEntry /\ ~Merged(x).dirty => Merged(x).coins = db[x]
<1>0. /\ tip[x] \in Entries \cup {NoEntry}
      /\ view[x] \in Entries \cup {NoEntry}
      /\ NoEntry \notin Entries
  BY CoinsAssumption DEF Inv, TypeOK, Entries
<1>1. Good(x)
  BY InvPointwise
<1>2. CASE view[x] = NoEntry \/ ~view[x].dirty
  BY <1>0, <1>1, <1>2 DEF Good, Merged, TipCoins, ViewCoins
<1>3. CASE view[x] # NoEntry /\ view[x].dirty /\ tip[x] = NoEntry /\ view[x].coins = Pruned
  BY <1>0, <1>1, <1>3 DEF Good, Merged, TipCoins, ViewCoins
<1>4. CASE view[x] # NoEntry /\ view[x].dirty /\ tip[x] = NoEntry /\ view[x].coins # Pruned
  <2>1. Merged(x) = [coins |-> view[x].coins, dirty |-> TRUE, fresh |-> TRUE]
    BY <1>4 DEF Merged
  <2>2. Merged(x) \in Entries
    BY <1>0, <1>4, <2>1 DEF Entries
  <2>3. db[x] = Pruned
    BY <1>1, <1>4 DEF Good, TipCoins
  <2>4. Merged(x).coins = view[x].coins /\ Merged(x).dirty = TRUE
    BY <2>1
  <2>5. QED
    BY <1>0, <1>4, <2>2, <2>3, <2>4 DEF ViewCoins
<1>5. CASE view[x] # NoEntry /\ view[x].dirty /\ tip[x] # NoEntry
           /\ tip[x].fresh /\ view[x].coins = Pruned
  BY <1>0, <1>1, <1>5 DEF Good, Merged, ViewCoins
<1>6. CASE view[x] # NoEntry /\ view[x].dirty /\ tip[x] # NoEntry
           /\ ~(tip[x].fresh /\ view[x].coins = Pruned)
  <2>1. Merged(x) = [tip[x] EXCEPT !.coins = view[x].coins, !.dirty = TRUE]
    BY <1>6 DEF Merged
  <2>2. /\ Merged(x) \in Entries
        /\ Merged(x).coins = view[x].coins
        /\ Merged(x).dirty = TRUE
        /\ Merged(x).fresh = tip[x].fresh
    BY <1>0, <1>6, <2>1 DEF Entries
  <2>3. QED
    BY <1>0, <1>1, <1>6, <2>2 DEF Good, ViewCoins
<1>7. QED
  BY <1>2, <1>3, <1>4, <1>5, <1>6

LEMMA FlushViewInv == ASSUME Inv, FlushView PROVE Inv'
<1> USE DEF FlushView
<1>1. TypeOK'
  BY MergedEntry, EmptyType, CoinsAssumption DEF Inv, TypeOK
<1>2. ASSUME NEW y \in Txids PROVE Good(y)'
  <2>1. tip'[y] = Merged(y) /\ view'[y] = NoEntry /\ db' = db
    BY EmptyType
  <2>2. QED
    BY <2>1, MergedEntry DEF Good
<1>3. QED
  BY <1>1, <1>2, GoodInv

LEMMA DropViewInv == ASSUME Inv, DropView PROVE Inv'
<1> USE DEF DropView
<1>1. TypeOK'
  BY EmptyType DEF Inv, TypeOK
<1>2. ASSUME NEW y \in Txids PROVE Good(y)'
  BY InvPointwise, EmptyType DEF Good
<1>3. QED
  BY <1>1, <1>2, GoodInv

LEMMA RestartInv == ASSUME Inv, Restart PROVE Inv'
<1> USE DEF Restart
<1>1. TypeOK'
  BY EmptyType DEF Inv, TypeOK
<1>2. ASSUME NEW y \in Txids PROVE Good(y)'
  BY EmptyType DEF Good
<1>3. QED
  BY <1>1, <1>2, GoodInv

(* The batch written to the database makes it equal to what readers of     *)
(* pcoinsTip saw: clean entries may be skipped.                            *)
LEMMA FlushTipWritten ==
    ASSUME Inv, FlushTip, NEW x \in Txids
    PROVE  db'[x] = TipCoins(x) /\ db'[x] \in Coins
  BY InvPointwise DEF FlushTip, Good, TipCoins, Inv, TypeOK, Entries

LEMMA FlushTipInv == ASSUME Inv, FlushTip PROVE Inv'
<1>1. TypeOK'
  <2>1. db' \in [Txids -> Coins]
    BY FlushTipWritten DEF FlushTip
  <2>2. QED
    BY <2>1, EmptyType DEF FlushTip, Inv, TypeOK
<1>2. ASSUME NEW y \in Txids PROVE Good(y)'
  <2>1. tip'[y] = NoEntry /\ view'[y] = NoEntry
    BY EmptyType DEF FlushTip, Inv, TypeOK
  <2>2. QED
    BY <2>1 DEF Good
<1>3. QED
  BY <1>1, <1>2, GoodInv

LEMMA OpenViewInv == ASSUME Inv, OpenView PROVE Inv'
<1>1. TypeOK'
  BY CoinsAssumption DEF OpenView, TipBlock, Inv, TypeOK
<1>2. ASSUME NEW y \in Txids PROVE Good(y)'
  BY InvPointwise DEF OpenView, Good, TipCoins
<1>3. QED
  BY <1>1, <1>2, GoodInv

LEMMA SetBestBlockInv == ASSUME Inv, NEW h \in Hashes, SetBestBlock(h) PROVE Inv'
<1>1. TypeOK'
  BY CoinsAssumption DEF SetBestBlock, Inv, TypeOK
<1>2. ASSUME NEW y \in Txids PROVE Good(y)'
  BY InvPointwise DEF SetBestBlock, Good, TipCoins
<1>3. QED
  BY <1>1, <1>2, GoodInv

LEMMA NextInv == Inv /\ [Next]_vars => Inv'
<1> SUFFICES ASSUME Inv, [Next]_vars PROVE Inv'
  OBVIOUS
<1>1. CASE UNCHANGED vars
  <2>1. TypeOK'
    BY <1>1 DEF vars, Inv, TypeOK
  <2>2. ASSUME NEW y \in Txids PROVE Good(y)'
    BY <1>1, InvPointwise DEF vars, Good, TipCoins
  <2>3. QED
    BY <2>1, <2>2, GoodInv
<1>2. CASE Next
  BY <1>2, FetchTipInv, FetchViewInv, ModifyInv, SetBestBlockInv, OpenViewInv,
     FlushViewInv, DropViewInv, FlushTipInv, RestartInv DEF Next
<1>3. QED
  BY <1>1, <1>2

(* The inductive invariant holds in every reachable state.                 *)
THEOREM CoinsInvariant == Spec => []Inv
  BY InitInv, NextInv, PTL DEF Spec

(* Type correctness: every layer holds coins of the declared shape, and    *)
(* nothing is left of a view once it is closed.                            *)
THEOREM TypeCorrect == Spec => []TypeOK
<1>1. Inv => TypeOK
  BY DEF Inv
<1>2. QED
  BY <1>1, CoinsInvariant, PTL

(* FRESH means what coins.h says of it, for any number of transactions: it *)
(* is always safe to forget a fresh entry that is spent.                   *)
THEOREM FreshMeansAbsentHolds == Spec => []FreshMeansAbsent
<1>1. Inv => FreshMeansAbsent
  BY DEF Inv
<1>2. QED
  BY <1>1, CoinsInvariant, PTL

(* The assertion at coins.cpp:180 cannot fail.                             *)
THEOREM BatchWriteAssertionHolds == Spec => []BatchWriteAssertion
<1>1. Inv => BatchWriteAssertion
  BY DEF Inv, FreshOrBelow, BatchWriteAssertion
<1>2. QED
  BY <1>1, CoinsInvariant, PTL

-----------------------------------------------------------------------------
(* The refinement.  A step of the caches changes the maps that readers see *)
(* as one step of CoinsView, or not at all.                                *)

TipMap == [x \in Txids |-> TipCoins(x)]
ViewMap == [x \in Txids |-> ViewCoins(x)]

LEMMA InitFlat == Init => Flat!Init
<1> SUFFICES ASSUME Init PROVE Flat!Init
  OBVIOUS
<1>1. \A x \in Txids : TipCoins(x) = db[x] /\ ViewCoins(x) = db[x]
  BY DEF Init, Empty, TipCoins, ViewCoins
<1>2. TipMap = db /\ ViewMap = db
  BY <1>1 DEF Init, TipMap, ViewMap
<1>3. TipBlock = dbBest /\ ViewBlock = dbBest
  BY DEF Init, TipBlock, ViewBlock
<1>4. QED
  BY <1>2, <1>3 DEF Init, Flat!Init, Flat!Map, TipMap, ViewMap

(* Reads are invisible.                                                    *)
LEMMA ReadFlat ==
    ASSUME Inv, NEW x \in Txids, FetchTip(x) \/ FetchView(x) PROVE UNCHANGED Flat!vars
<1>0. TypeOK
  BY DEF Inv
<1>1. tip' = TipFetched(x) /\ UNCHANGED <<db, dbBest, tipBest, viewBest, open>>
  BY DEF FetchTip, FetchView
<1>2. \A y \in Txids : TipCoins(y)' = TipCoins(y)
  BY <1>1, FetchInvisible
<1>3. \A y \in Txids : ViewCoins(y)' = ViewCoins(y)
  <2>1. CASE FetchTip(x)
    BY <1>2, <2>1 DEF FetchTip, ViewCoins
  <2>2. CASE FetchView(x)
    <3> USE DEF FetchView
    <3>1. \A y \in Txids : y # x => view'[y] = view[y]
      BY <1>0, <2>2 DEF TypeOK
    <3>2. view'[x] = Pulled(x)
      BY <1>0, <2>2 DEF TypeOK
    <3>3. TipFetched(x)[x] # NoEntry => TipFetched(x)[x].coins = TipCoins(x)
      BY <1>0, TipFetchedType DEF TipCoins
    <3>4. TipFetched(x)[x] # NoEntry => view'[x].coins = TipCoins(x)
      BY <3>2, <3>3 DEF Pulled
    <3>5. TipFetched(x)[x] = NoEntry => view'[x] = NoEntry
      BY <3>2 DEF Pulled
    <3>6. ViewCoins(x)' = ViewCoins(x)
      BY <1>2, <2>2, <3>4, <3>5 DEF ViewCoins
    <3>7. QED
      BY <1>2, <3>1, <3>6 DEF ViewCoins
  <2>3. QED
    BY <2>1, <2>2
<1>4. TipMap' = TipMap /\ ViewMap' = ViewMap
  BY <1>2, <1>3 DEF TipMap, ViewMap
<1>5. TipBlock' = TipBlock /\ ViewBlock' = ViewBlock
  BY <1>1 DEF TipBlock, ViewBlock
<1>6. QED
  BY <1>1, <1>4, <1>5 DEF Flat!vars, TipMap, ViewMap

LEMMA ModifyFlat ==
    ASSUME Inv, NEW x \in Txids, NEW c \in Coins, ModifyCoins(x, c) PROVE Flat!Write(x, c)
<1>1. \A y \in Txids : TipCoins(y)' = TipCoins(y)
  BY ModifiedEntry
<1>2. \A y \in Txids : y # x => ViewCoins(y)' = ViewCoins(y)
  BY <1>1, ModifiedEntry DEF ViewCoins
<1>3. ViewCoins(x)' = c
  BY <1>1, ModifiedEntry DEF ViewCoins
<1>4. TipMap' = TipMap
  BY <1>1 DEF TipMap
<1>5. ViewMap' = [ViewMap EXCEPT ![x] = c]
  BY <1>2, <1>3 DEF ViewMap
<1>6. TipBlock' = TipBlock /\ ViewBlock' = ViewBlock
  BY DEF ModifyCoins, TipBlock, ViewBlock
<1>7. QED
  BY <1>4, <1>5, <1>6 DEF ModifyCoins, Flat!Write, TipMap, ViewMap

(* With no view open, its readers see pcoinsTip.                           *)
LEMMA ClosedView ==
    ASSUME Inv, ~open PROVE ViewMap = TipMap /\ ViewBlock = TipBlock
  BY EmptyType DEF Inv, TypeOK, ViewMap, TipMap, ViewCoins, ViewBlock

LEMMA OpenFlat == ASSUME Inv, OpenView PROVE Flat!Begin
<1>1. TipMap' = TipMap /\ ViewMap' = ViewMap
  BY DEF OpenView, TipMap, ViewMap, TipCoins, ViewCoins
<1>2. TipBlock \in Hashes
  BY DEF Inv, TypeOK, TipBlock
<1>3. TipBlock' = TipBlock /\ ViewBlock' = TipBlock
  BY <1>2, CoinsAssumption DEF OpenView, TipBlock, ViewBlock
<1>4. ViewMap = TipMap
  BY ClosedView DEF OpenView
<1>5. QED
  BY <1>1, <1>3, <1>4 DEF OpenView, Flat!Begin, TipMap, ViewMap

LEMMA SetBestFlat ==
    ASSUME Inv, NEW h \in Hashes, SetBestBlock(h) PROVE Flat!SetBestBlock(h)
<1>1. TipMap' = TipMap /\ ViewMap' = ViewMap
  BY DEF SetBestBlock, TipMap, ViewMap, TipCoins, ViewCoins
<1>2. TipBlock' = TipBlock /\ ViewBlock' = h
  BY CoinsAssumption DEF SetBestBlock, TipBlock, ViewBlock
<1>3. QED
  BY <1>1, <1>2 DEF SetBestBlock, Flat!SetBestBlock, TipMap, ViewMap

LEMMA CommitFlat == ASSUME Inv, FlushView PROVE Flat!Commit
<1> USE DEF FlushView
<1>1. \A y \in Txids : TipCoins(y)' = ViewCoins(y)
  <2> TAKE y \in Txids
  <2>1. tip'[y] = Merged(y)
    OBVIOUS
  <2>2. QED
    BY <2>1, MergedEntry DEF TipCoins
<1>2. \A y \in Txids : ViewCoins(y)' = ViewCoins(y)
  BY <1>1, EmptyType DEF ViewCoins
<1>3. TipMap' = ViewMap /\ ViewMap' = ViewMap
  BY <1>1, <1>2 DEF TipMap, ViewMap
<1>4. TipBlock' = ViewBlock /\ ViewBlock' = ViewBlock
  BY DEF Inv, TypeOK, TipBlock, ViewBlock
<1>5. QED
  BY <1>3, <1>4 DEF Flat!Commit, TipMap, ViewMap

LEMMA AbandonFlat == ASSUME Inv, DropView PROVE Flat!Abandon
<1> USE DEF DropView
<1>1. TipMap' = TipMap /\ TipBlock' = TipBlock
  BY DEF TipMap, TipCoins, TipBlock
<1>2. ViewMap' = TipMap' /\ ViewBlock' = TipBlock'
  BY EmptyType DEF TipMap, ViewMap, ViewCoins, ViewBlock
<1>3. QED
  BY <1>1, <1>2 DEF Flat!Abandon, TipMap, ViewMap

LEMMA SaveFlat == ASSUME Inv, FlushTip PROVE Flat!Save
<1>1. \A y \in Txids : db'[y] = TipCoins(y) /\ TipCoins(y)' = TipCoins(y)
  <2> TAKE y \in Txids
  <2>1. db'[y] = TipCoins(y)
    BY FlushTipWritten
  <2>2. tip'[y] = NoEntry
    BY EmptyType DEF FlushTip
  <2>3. QED
    BY <2>1, <2>2 DEF TipCoins
<1>2. db' = TipMap /\ TipMap' = TipMap
  BY <1>1 DEF FlushTip, TipMap
<1>3. ViewMap' = ViewMap
  <2>1. ViewMap = TipMap
    BY ClosedView DEF FlushTip
  <2>2. ViewMap' = TipMap'
    BY EmptyType DEF FlushTip, Inv, TypeOK, ViewMap, TipMap, ViewCoins
  <2>3. QED
    BY <1>2, <2>1, <2>2
<1>4. dbBest' = TipBlock /\ TipBlock' = TipBlock /\ ViewBlock' = ViewBlock
  BY DEF FlushTip, TipBlock, ViewBlock
<1>5. QED
  BY <1>2, <1>3, <1>4 DEF FlushTip, Flat!Save, TipMap, ViewMap

LEMMA CrashFlat == ASSUME Inv, Restart PROVE Flat!Crash
<1> USE DEF Restart
<1>1. TipMap' = db /\ ViewMap' = db
  BY EmptyType DEF TipMap, ViewMap, TipCoins, ViewCoins, Inv, TypeOK
<1>2. TipBlock' = dbBest /\ ViewBlock' = dbBest
  BY DEF TipBlock, ViewBlock
<1>3. QED
  BY <1>1, <1>2 DEF Flat!Crash, TipMap, ViewMap

LEMMA NextFlat == Inv /\ [Next]_vars => [Flat!Next]_(Flat!vars)
<1> SUFFICES ASSUME Inv, [Next]_vars PROVE [Flat!Next]_(Flat!vars)
  OBVIOUS
<1>1. CASE UNCHANGED vars
  BY <1>1 DEF vars, Flat!vars, TipCoins, ViewCoins, TipBlock, ViewBlock
<1>2. CASE \E x \in Txids : FetchTip(x) \/ FetchView(x)
  BY <1>2, ReadFlat
<1>3. CASE \E x \in Txids, c \in Coins : ModifyCoins(x, c)
  BY <1>3, ModifyFlat DEF Flat!Next
<1>4. CASE \E h \in Hashes : SetBestBlock(h)
  BY <1>4, SetBestFlat DEF Flat!Next
<1>5. CASE OpenView \/ FlushView \/ DropView \/ FlushTip \/ Restart
  BY <1>5, OpenFlat, CommitFlat, AbandonFlat, SaveFlat, CrashFlat DEF Flat!Next
<1>6. QED
  BY <1>1, <1>2, <1>3, <1>4, <1>5 DEF Next

(* The caches implement the flat map: no coin is lost or resurrected,      *)
(* whatever is cached, flushed, dropped or lost in a crash.                *)
THEOREM CachesImplementMap == Spec => ImplementsCoinsView
  BY InitFlat, NextFlat, CoinsInvariant, PTL DEF Spec, ImplementsCoinsView, Flat!Spec

=============================================================================
