----------------------------- MODULE MCSwiftTX -----------------------------
(* t2 spends an outpoint of t1 and one of t3, which are independent of     *)
(* each other, so that a block with t1 makes room for t3.  One vote of m1  *)
(* names the wrong height; t3 has an input that is too young for a lock.   *)
EXTENDS SwiftTX

MCVin == "t1" :> <<"a">> @@ "t2" :> <<"a", "b">> @@ "t3" :> <<"b">>
MCHeight == "t1" :> 1 @@ "t2" :> 2 @@ "t3" :> 1
MCVotes == {<<"m1", "t2", 1>>, <<"m1", "t2", 2>>, <<"m2", "t2", 2>>}
MCDoubtful == {<<"m2", "t2", 2>>}

=============================================================================
