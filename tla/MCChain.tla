------------------------------ MODULE MCChain ------------------------------
(* A tree with two branches: a1 on genesis, and b1 on genesis with b2, a   *)
(* proof-of-stake block, followed by b3, which fails in ConnectBlock, and  *)
(* by c3, which fails in ContextualCheckBlock.  a1 is worth as much as b2, *)
(* so that a reorganisation from a1 to b3 fails half way and has to find   *)
(* its way back, and the tie is decided by the order of arrival.           *)
EXTENDS Chain, TLC

CONSTANTS g, a1, b1, b2, b3, c3, t1, t2

MCBlocks == {g, a1, b1, b2, b3, c3}
MCParent == a1 :> g @@ b1 :> g @@ b2 :> b1 @@ b3 :> b2 @@ c3 :> b2
MCHeight == g :> 0 @@ a1 :> 1 @@ b1 :> 1 @@ b2 :> 2 @@ b3 :> 3 @@ c3 :> 3
MCPath == g :> {g} @@ a1 :> {g, a1} @@ b1 :> {g, b1} @@ b2 :> {g, b1, b2}
          @@ b3 :> {g, b1, b2, b3} @@ c3 :> {g, b1, b2, c3}
MCChainWork == g :> 1 @@ a1 :> 3 @@ b1 :> 2 @@ b2 :> 3 @@ b3 :> 4 @@ c3 :> 4
MCAddresses == {g :> 5 @@ a1 :> 4 @@ b1 :> 3 @@ b2 :> 2 @@ b3 :> 1 @@ c3 :> 0}
MCStake == {b2}
MCBadContext == {c3}
MCBadConnect == {b3}
MCThreads == {t1, t2}

(* At most one command or one crash; the two commands; one of them and a   *)
(* crash.                                                                  *)
MCUse == [invalidate : 0 .. 1, reconsider : 0 .. 1, crash : 0 .. 1]
MCOne == {u \in MCUse : u.invalidate + u.reconsider + u.crash <= 1}
MCCommands == {u \in MCUse : u.crash = 0}
MCInvalidateCrash == {u \in MCUse : u.reconsider = 0}

=============================================================================
