----------------------------- MODULE CoinsCache -----------------------------
(***************************************************************************)
(* The layered coin caches (coins.cpp, txdb.cpp): the coin database, the   *)
(* cache pcoinsTip above it, and the CCoinsViewCache that ConnectTip and   *)
(* DisconnectTip open above pcoinsTip for the block at hand.  An entry     *)
(* carries the flags DIRTY and FRESH, which decide what a flush may skip   *)
(* and what it may forget; a lost or a resurrected coin is the bug.        *)
(* Everything runs under cs_main.  One CCoins is a value of Coins; the     *)
(* callers of ModifyCoins may put any value there.                         *)
(***************************************************************************)
CONSTANTS Txids, Coins, Pruned, Hashes,
          NoHash,    \* uint256(0): the best block was not read yet
          NoEntry    \* no entry in cacheCoins

ASSUME CoinsAssumption ==
    /\ Pruned \in Coins /\ NoHash \notin Hashes
    /\ NoEntry \notin [coins : Coins, dirty : BOOLEAN, fresh : BOOLEAN]

VARIABLES
    db, dbBest,        \* the database; a pruned transaction is not in it
    tip, tipBest,      \* cacheCoins and hashBlock of pcoinsTip
    view, viewBest,    \* the same of the view of the block at hand
    open,              \* does that view exist
    done               \* Connect- or DisconnectBlock has set its best block

vars == <<db, dbBest, tip, tipBest, view, viewBest, open, done>>

Entries == [coins : Coins, dirty : BOOLEAN, fresh : BOOLEAN]
Empty == [x \in Txids |-> NoEntry]

\* What a reader of each layer sees.
TipCoins(x) == IF tip[x] = NoEntry THEN db[x] ELSE tip[x].coins
ViewCoins(x) == IF view[x] = NoEntry THEN TipCoins(x) ELSE view[x].coins
TipBlock == IF tipBest = NoHash THEN dbBest ELSE tipBest
ViewBlock == IF viewBest = NoHash THEN TipBlock ELSE viewBest

Init ==
    /\ db \in [Txids -> Coins] /\ dbBest \in Hashes
    /\ tip = Empty /\ tipBest = NoHash
    /\ view = Empty /\ viewBest = NoHash
    /\ open = FALSE /\ done = FALSE

-----------------------------------------------------------------------------
\* FetchCoins of pcoinsTip: the entry is pulled in when the database has one.
TipFetched(x) ==
    IF tip[x] # NoEntry \/ db[x] = Pruned THEN tip
    ELSE [tip EXCEPT ![x] = [coins |-> db[x], dirty |-> FALSE, fresh |-> FALSE]]

\* GetCoins, HaveCoins and AccessCoins of pcoinsTip.
FetchTip(x) ==
    /\ tip' = TipFetched(x)
    /\ UNCHANGED <<db, dbBest, tipBest, view, viewBest, open, done>>

\* CCoinsViewCache view(pcoinsTip), whose block ConnectBlock and
\* DisconnectBlock read first: GetBestBlock goes down all the layers.
OpenView ==
    /\ ~open
    /\ open' = TRUE
    /\ tipBest' = TipBlock
    /\ viewBest' = TipBlock
    /\ UNCHANGED <<db, dbBest, tip, view, done>>

\* Mutant: an entry is taken for fresh although the parent has coins.
PulledFresh(x) ==
    IF TipFetched(x)[x] = NoEntry THEN NoEntry
    ELSE [coins |-> TipFetched(x)[x].coins, dirty |-> FALSE, fresh |-> TRUE]

\* The entry that FetchCoins of the view makes of what pcoinsTip returns.
Pulled(x) ==
    IF TipFetched(x)[x] = NoEntry THEN NoEntry
    ELSE [coins |-> TipFetched(x)[x].coins, dirty |-> FALSE,
          fresh |-> TipFetched(x)[x].coins = Pruned]

FetchView(x) ==
    /\ open /\ view[x] = NoEntry
    /\ tip' = TipFetched(x)
    /\ view' = [view EXCEPT ![x] = Pulled(x)]
    /\ UNCHANGED <<db, dbBest, tipBest, viewBest, open, done>>

\* Mutant: an entry that no layer below has is not marked fresh.
OpenedNotFresh(x) ==
    IF view[x] # NoEntry THEN view[x]
    ELSE IF Pulled(x) = NoEntry THEN [coins |-> Pruned, dirty |-> FALSE, fresh |-> FALSE]
    ELSE Pulled(x)

\* The entry that ModifyCoins hands out.
Opened(x) ==
    IF view[x] # NoEntry THEN view[x]
    ELSE IF Pulled(x) = NoEntry THEN [coins |-> Pruned, dirty |-> FALSE, fresh |-> TRUE]
    ELSE Pulled(x)

\* ModifyCoins, a change by the caller, and the end of the CCoinsModifier.
ModifyCoins(x, c) ==
    /\ open /\ ~done
    /\ tip' = IF view[x] = NoEntry THEN TipFetched(x) ELSE tip
    /\ view' = [view EXCEPT ![x] =
                  IF Opened(x).fresh /\ c = Pruned THEN NoEntry
                  ELSE [coins |-> c, dirty |-> TRUE, fresh |-> Opened(x).fresh]]
    /\ UNCHANGED <<db, dbBest, tipBest, viewBest, open, done>>

\* The last thing ConnectBlock and DisconnectBlock do.
SetBestBlock(h) ==
    /\ open /\ ~done
    /\ viewBest' = h
    /\ done' = TRUE
    /\ UNCHANGED <<db, dbBest, tip, tipBest, view, open>>

\* Mutant: a spent coin is always forgotten.
MergedForgetting(x) ==
    IF view[x] = NoEntry \/ ~view[x].dirty THEN tip[x]
    ELSE IF view[x].coins = Pruned THEN NoEntry
    ELSE IF tip[x] = NoEntry THEN [coins |-> view[x].coins, dirty |-> TRUE, fresh |-> TRUE]
    ELSE [tip[x] EXCEPT !.coins = view[x].coins, !.dirty = TRUE]

\* BatchWrite of pcoinsTip, for the entry of x.
Merged(x) ==
    IF view[x] = NoEntry \/ ~view[x].dirty THEN tip[x]
    ELSE IF tip[x] = NoEntry
    THEN IF view[x].coins = Pruned THEN NoEntry
         ELSE [coins |-> view[x].coins, dirty |-> TRUE, fresh |-> TRUE]
    ELSE IF tip[x].fresh /\ view[x].coins = Pruned THEN NoEntry
    ELSE [tip[x] EXCEPT !.coins = view[x].coins, !.dirty = TRUE]

\* Mutant: cacheCoins is not cleared.
FlushViewKept ==
    /\ open /\ done
    /\ tip' = [x \in Txids |-> Merged(x)]
    /\ tipBest' = viewBest
    /\ open' = FALSE /\ done' = FALSE
    /\ viewBest' = NoHash
    /\ UNCHANGED <<db, dbBest, view>>

\* Flush of the view, after which nobody uses it.
FlushView ==
    /\ open /\ done
    /\ tip' = [x \in Txids |-> Merged(x)]
    /\ tipBest' = viewBest
    /\ view' = Empty /\ viewBest' = NoHash
    /\ open' = FALSE /\ done' = FALSE
    /\ UNCHANGED <<db, dbBest>>

\* The block is refused, or was only tested: the view is dropped.
DropView ==
    /\ open
    /\ view' = Empty /\ viewBest' = NoHash
    /\ open' = FALSE /\ done' = FALSE
    /\ UNCHANGED <<db, dbBest, tip, tipBest>>

\* pcoinsTip->Flush() in FlushStateToDisk: CCoinsViewDB::BatchWrite is one
\* database batch.
FlushTip ==
    /\ ~open
    /\ db' = [x \in Txids |-> IF tip[x] # NoEntry /\ tip[x].dirty THEN tip[x].coins ELSE db[x]]
    /\ dbBest' = IF tipBest # NoHash THEN tipBest ELSE dbBest
    /\ tip' = Empty
    /\ UNCHANGED <<tipBest, view, viewBest, open, done>>

\* The process dies; the caches start empty.
Restart ==
    /\ tip' = Empty /\ tipBest' = NoHash
    /\ view' = Empty /\ viewBest' = NoHash
    /\ open' = FALSE /\ done' = FALSE
    /\ UNCHANGED <<db, dbBest>>

Next ==
    \/ \E x \in Txids : FetchTip(x) \/ FetchView(x)
    \/ \E x \in Txids, c \in Coins : ModifyCoins(x, c)
    \/ \E h \in Hashes : SetBestBlock(h)
    \/ OpenView \/ FlushView \/ DropView \/ FlushTip \/ Restart

Spec == Init /\ [][Next]_vars

-----------------------------------------------------------------------------
(* Types; a view that does not exist holds nothing, and one that exists    *)
(* has read its best block, as has pcoinsTip below it.                     *)
TypeOK ==
    /\ db \in [Txids -> Coins] /\ dbBest \in Hashes
    /\ tip \in [Txids -> Entries \cup {NoEntry}] /\ tipBest \in Hashes \cup {NoHash}
    /\ view \in [Txids -> Entries \cup {NoEntry}] /\ viewBest \in Hashes \cup {NoHash}
    /\ open \in BOOLEAN /\ done \in BOOLEAN
    /\ ~open => view = Empty /\ viewBest = NoHash /\ ~done
    /\ open => viewBest # NoHash /\ tipBest # NoHash

(* The meaning of FRESH in coins.h: "the parent view does not have this    *)
(* entry (or it is pruned)".  This is what makes it safe to forget a fresh *)
(* entry that is spent.                                                    *)
FreshMeansAbsent ==
    \A x \in Txids :
        /\ tip[x] # NoEntry /\ tip[x].fresh => db[x] = Pruned
        /\ view[x] # NoEntry /\ view[x].fresh => TipCoins(x) = Pruned

(* The meaning of DIRTY: an entry without it has the value the parent has, *)
(* so that a flush may skip it.                                            *)
CleanMeansEqual ==
    \A x \in Txids :
        /\ tip[x] # NoEntry /\ ~tip[x].dirty => tip[x].coins = db[x]
        /\ view[x] # NoEntry /\ ~view[x].dirty => view[x].coins = TipCoins(x)

(* The assertion in BatchWrite (coins.cpp:180): an entry with unspent      *)
(* outputs that pcoinsTip has never pulled in is fresh, because pcoinsTip  *)
(* pulls in whatever the database has when the view first asks for it.     *)
BatchWriteAssertion ==
    \A x \in Txids :
        view[x] # NoEntry /\ view[x].dirty /\ view[x].coins # Pruned /\ tip[x] = NoEntry
            => view[x].fresh

(* No coin is lost, resurrected or seen half way: what readers of the      *)
(* caches see behaves like one map with a private copy for the block at    *)
(* hand (CoinsView), whatever is cached, flushed or lost in a crash.       *)
Flat == INSTANCE CoinsView WITH
            utxo <- [x \in Txids |-> TipCoins(x)], best <- TipBlock,
            work <- [x \in Txids |-> ViewCoins(x)], workBest <- ViewBlock,
            saved <- db, savedBest <- dbBest

ImplementsCoinsView == Flat!Spec

=============================================================================
