-------------------------- MODULE MCMasternodeSync --------------------------
(* One spork, signed off at 1 and on at 2; one message is forged and one   *)
(* signed too far in the future.  One peer at a time, which others replace. *)
EXTENDS MasternodeSync

MCSporks ==
    {[nSporkID |-> 8, nTimeSigned |-> 1, nValue |-> 9, fValidSig |-> TRUE],
     [nSporkID |-> 8, nTimeSigned |-> 2, nValue |-> 0, fValidSig |-> TRUE],
     [nSporkID |-> 8, nTimeSigned |-> 3, nValue |-> 0, fValidSig |-> FALSE],
     [nSporkID |-> 8, nTimeSigned |-> 5, nValue |-> 9, fValidSig |-> TRUE]}
MCDefaultValue == [id \in {8} |-> 9]

=============================================================================
