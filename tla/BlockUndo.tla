----------------------------- MODULE BlockUndo -----------------------------
(***************************************************************************)
(* ConnectBlock and DisconnectBlock on the set of unspent outputs          *)
(* (main.cpp, coins.h, undo.h): transactions spend and create outputs in   *)
(* order, undo data is kept for every connected block, and a               *)
(* reorganisation takes blocks off again with it.                          *)
(*                                                                         *)
(* A block is its sequence of transactions.  Amounts, scripts, signature   *)
(* operations and unspendable outputs are left out: a block that           *)
(* ConnectBlock refuses for them never gets into the chain.  Undo data     *)
(* that is already on disk is not written again by the code; what is read  *)
(* of it would be the same.                                                *)
(***************************************************************************)
EXTENDS Integers, SequencesExt

CONSTANTS Txids,
          Kind,       \* coinbase, coinstake or normal
          Inputs,     \* the sequence of outputs <<txid, n>> that a transaction spends
          Outputs,    \* the positions of its outputs
          ScriptSigHeight,  \* the height that the scriptSig of a coinbase starts with
          Blocks,     \* sequences of transactions, coinbase first
          nCoinbaseMaturity,
          MaxHeight   \* bound on the length of the chain

ASSUME UndoAssumption ==
    /\ Kind \in [Txids -> {"coinbase", "coinstake", "normal"}]
    /\ Inputs \in [Txids -> Seq(Txids \X Nat)]
    /\ \A x \in Txids : IsInjective(Inputs[x]) /\ (Kind[x] = "coinbase" <=> Inputs[x] = <<>>)
    /\ Outputs \in [Txids -> SUBSET Nat]
    /\ ScriptSigHeight \in [Txids -> Nat]
    /\ Blocks \subseteq Seq(Txids) \ {<<>>}
    /\ \A b \in Blocks : \A i \in DOMAIN b : Kind[b[i]] = "coinbase" <=> i = 1
    /\ nCoinbaseMaturity \in Nat /\ MaxHeight \in Nat

VARIABLES utxo,     \* the CCoins of every transaction
          chain,    \* chainActive without the genesis block
          undo      \* the undo data of each block of the chain

vars == <<utxo, chain, undo>>

\* A CCoins.  Two that have no output left are equal (operator==), so one
\* value stands for all of them.
Pruned == [outs |-> {}, nHeight |-> 0, fCoinBase |-> FALSE, fCoinStake |-> FALSE]
Coins(outs, h, cb, cs) ==
    IF outs = {} THEN Pruned ELSE [outs |-> outs, nHeight |-> h, fCoinBase |-> cb, fCoinStake |-> cs]

FromTx(x, h) == Coins(Outputs[x], h, Kind[x] = "coinbase", Kind[x] = "coinstake")

Init ==
    /\ utxo = [x \in Txids |-> Pruned]
    /\ chain = <<>> /\ undo = <<>>

-----------------------------------------------------------------------------
\* CCoins::Spend: the undo record of the last output carries the metadata.
Spend(acc, in) ==
    LET c == acc.utxo[in[1]]
        left == c.outs \ {in[2]}
    IN  [utxo |-> [acc.utxo EXCEPT ![in[1]] = Coins(left, c.nHeight, c.fCoinBase, c.fCoinStake)],
         undo |-> Append(acc.undo,
                    IF left = {} THEN [nHeight |-> c.nHeight, fCoinBase |-> c.fCoinBase, fCoinStake |-> c.fCoinStake]
                    ELSE [nHeight |-> 0, fCoinBase |-> FALSE, fCoinStake |-> FALSE])]

\* CheckInputs: coins of a coinbase or a coinstake are deep enough.
Mature(c, h) == c.fCoinBase \/ c.fCoinStake => h - c.nHeight >= nCoinbaseMaturity

\* ConnectBlock's tests of one transaction: BIP30, the inputs are unspent and
\* mature.
Acceptable(u, x, h) ==
    /\ u[x] = Pruned
    /\ \A i \in DOMAIN Inputs[x] :
          LET in == Inputs[x][i] IN in[2] \in u[in[1]].outs /\ Mature(u[in[1]], h)

\* The loop of UpdateCoins over the inputs of x: the view and the undo data
\* after each.
Spending(u, x) ==
    LET v[j \in 0 .. Len(Inputs[x])] ==
            IF j = 0 THEN [utxo |-> u, undo |-> <<>>] ELSE Spend(v[j - 1], Inputs[x][j])
    IN  v

UpdateCoins(u, x, h) ==
    LET spent == Spending(u, x)[Len(Inputs[x])]
    IN  [utxo |-> [spent.utxo EXCEPT ![x] = FromTx(x, h)], undo |-> spent.undo]

\* One transaction in the loop of ConnectBlock; one that fails ends it.
ConnectTx(acc, x, h) ==
    IF ~acc.ok \/ ~Acceptable(acc.utxo, x, h) THEN [acc EXCEPT !.ok = FALSE]
    ELSE LET up == UpdateCoins(acc.utxo, x, h)
         IN  [ok |-> TRUE, utxo |-> up.utxo, undo |-> Append(acc.undo, up.undo)]

\* The loop over the transactions of b at height h.
Connecting(u, b, h) ==
    LET v[i \in 0 .. Len(b)] ==
            IF i = 0 THEN [ok |-> TRUE, utxo |-> u, undo |-> <<>>] ELSE ConnectTx(v[i - 1], b[i], h)
    IN  v

Connected(u, b, h) == Connecting(u, b, h)[Len(b)]

\* AcceptBlock stores no block whose coinbase names another height.
ContextualCheckBlock(b, h) == ScriptSigHeight[b[1]] = h

\* ConnectTip.
ConnectBlock(b) ==
    LET c == Connected(utxo, b, Len(chain) + 1)
    IN  /\ Len(chain) < MaxHeight
        /\ ContextualCheckBlock(b, Len(chain) + 1)
        /\ c.ok
        /\ utxo' = c.utxo
        /\ chain' = Append(chain, b)
        /\ undo' = Append(undo, c.undo)

-----------------------------------------------------------------------------
\* Mutant: the coinbase flag is not restored.
RestoreNoCoinBase(acc, in, rec) ==
    LET c == acc.utxo[in[1]]
        base == IF rec.nHeight # 0 THEN [Pruned EXCEPT !.nHeight = rec.nHeight] ELSE c
    IN  [clean |-> acc.clean /\ (rec.nHeight # 0 <=> c = Pruned) /\ in[2] \notin base.outs,
         utxo |-> [acc.utxo EXCEPT ![in[1]] = [base EXCEPT !.outs = @ \cup {in[2]}]]]

\* DisconnectBlock puts one spent output back.  A record with a height starts
\* a new CCoins: its fCoinStake is read from disk and not used.
Restore(acc, in, rec) ==
    LET c == acc.utxo[in[1]]
        base == IF rec.nHeight # 0
                THEN [Pruned EXCEPT !.fCoinBase = rec.fCoinBase, !.nHeight = rec.nHeight]
                ELSE c
    IN  [clean |-> acc.clean /\ (rec.nHeight # 0 <=> c = Pruned) /\ in[2] \notin base.outs,
         utxo |-> [acc.utxo EXCEPT ![in[1]] = [base EXCEPT !.outs = @ \cup {in[2]}]]]

\* The outputs of x must be there exactly as the block made them; they go.
Cleared(acc, x, h) ==
    [clean |-> acc.clean /\ acc.utxo[x] = FromTx(x, h), utxo |-> [acc.utxo EXCEPT ![x] = Pruned]]

\* Mutant: inputs are restored in the order in which they were spent.
UndoTxForward(acc, x, recs, h) ==
    LET v[j \in 0 .. Len(Inputs[x])] ==
            IF j = 0 THEN Cleared(acc, x, h) ELSE Restore(v[j - 1], Inputs[x][j], recs[j])
    IN  v[Len(Inputs[x])]

\* The inputs of x are restored, last first: the view when those after j are.
Restoring(acc, x, recs) ==
    LET v[j \in 0 .. Len(Inputs[x])] ==
            IF j = Len(Inputs[x]) THEN acc ELSE Restore(v[j + 1], Inputs[x][j + 1], recs[j + 1])
    IN  v

\* One transaction is undone.
UndoTx(acc, x, recs, h) == Restoring(Cleared(acc, x, h), x, recs)[0]

\* The transactions of b are undone, last first: the view when those after i
\* are.
Undoing(u, b, recs, h) ==
    LET v[i \in 0 .. Len(b)] ==
            IF i = Len(b) THEN [clean |-> TRUE, utxo |-> u] ELSE UndoTx(v[i + 1], b[i + 1], recs[i + 1], h)
    IN  v

\* DisconnectBlock on the tip.
Undone == Undoing(utxo, Last(chain), Last(undo), Len(chain))[0]

\* DisconnectTip; when the block does not come off clean nothing changes.
DisconnectBlock ==
    /\ chain # <<>>
    /\ Undone.clean
    /\ utxo' = Undone.utxo
    /\ chain' = Front(chain)
    /\ undo' = Front(undo)

Next == (\E b \in Blocks : ConnectBlock(b)) \/ DisconnectBlock

Spec == Init /\ [][Next]_vars

-----------------------------------------------------------------------------
\* The heights at which the chain makes x and spends its output n.
CreatedAt(x) == {i \in DOMAIN chain : x \in Range(chain[i])}
SpentAt(x, n) == {i \in DOMAIN chain : \E y \in Range(chain[i]) : <<x, n>> \in Range(Inputs[y])}

(* The coins of every transaction, with their height and flags, are what    *)
(* the active chain made and did not spend, whatever blocks were connected *)
(* and taken off again on the way: "Undo the effects of this block"        *)
(* (main.h:349) is exact.                                                  *)
UtxoMatchesChain ==
    \A x \in Txids :
        /\ CreatedAt(x) = {} => utxo[x] = Pruned
        /\ \A i \in CreatedAt(x) :
              utxo[x] = Coins({n \in Outputs[x] : SpentAt(x, n) = {}}, i,
                              Kind[x] = "coinbase", Kind[x] = "coinstake")

(* DisconnectBlock finds the outputs of the block "exactly" (main.cpp:2193) *)
(* and the inputs spent: the tip can always be disconnected, at any depth  *)
(* of a reorganisation.                                                    *)
DisconnectSucceeds ==
    chain # <<>> => Undone.clean

=============================================================================
