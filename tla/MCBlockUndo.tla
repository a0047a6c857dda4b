---------------------------- MODULE MCBlockUndo -----------------------------
(***************************************************************************)
(* A tree in which a proof-of-stake block and a payment spend a coinbase   *)
(* completely (A2), the payment is also in a block of another branch,      *)
(* which spends its own outputs (B2), and three blocks are invalid: D2     *)
(* spends its own coinbase, T2 has a transaction older than its input, X3  *)
(* spends twice.  E3 is not Ordinary: it repeats the coinbase of A2 and    *)
(* spends all outputs of a coinstake, the empty one included.              *)
(***************************************************************************)
EXTENDS BlockUndo

TreePprev == [b \in Block \ {Genesis} |->
  CASE b = "A1" -> Genesis [] b \in {"A2", "B2", "D2", "T2"} -> "A1" [] b = "E3" -> "A2"
    [] b = "X3" -> "B2"]
TreeHeight[b \in Block] == IF b = Genesis THEN 0 ELSE TreeHeight[TreePprev[b]] + 1
TreeChain[b \in Block] == IF b = Genesis THEN {b} ELSE TreeChain[TreePprev[b]] \cup {b}
TreeVtx == [b \in Block |->
  CASE b = "G" -> <<>> [] b = "A1" -> <<"a1">> [] b = "A2" -> <<"a2", "stake", "pay">>
    [] b = "B2" -> <<"b2", "pay", "split", "join">>
    [] b = "D2" -> <<"d2", "hasty">> [] b = "X3" -> <<"x3", "again">>
    [] b = "T2" -> <<"t2", "early">> [] b = "E3" -> <<"a2", "sweep">>]
CoinBases == {"a1", "a2", "b2", "d2", "t2", "x3"}
TxVin == [t \in Tx |->
  CASE t \in {"stake", "early"} -> <<<<"a1", 0>>>> [] t \in {"pay", "again"} -> <<<<"a1", 1>>>>
    [] t = "split" -> <<<<"pay", 0>>>> [] t = "join" -> <<<<"split", 1>>, <<"split", 0>>>>
    [] t = "hasty" -> <<<<"d2", 0>>>>
    [] t = "sweep" -> <<<<"stake", 0>>, <<"stake", 1>>>> [] OTHER -> <<>>]
TxVout == [t \in Tx |->
  CASE t \in {"a1", "stake", "split"} -> {0, 1} [] t = "join" -> {} [] OTHER -> {0}]
TxTime == [t \in Tx |-> IF t = "early" THEN 1 ELSE 2]
=============================================================================
