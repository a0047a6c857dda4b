------------------------------ MODULE MCTxPool ------------------------------
(***************************************************************************)
(* The coinbase a1 is spent by pay; split and rival compete for an output  *)
(* of pay; join needs two parents; odd is not standard and is mined in A4, *)
(* late spends it, and the input of multi is not standard.  A3 and B3 mine *)
(* different parts.                                                        *)
(***************************************************************************)
EXTENDS TxPool

TreePprev == [b \in Block \ {Genesis} |->
  CASE b = "A1" -> Genesis [] b = "A2" -> "A1" [] b \in {"A3", "B3"} -> "A2" [] b = "A4" -> "A3" [] b = "B4" -> "B3"]
TreeVtx == [b \in Block |->
  CASE b = "G" -> <<>> [] b = "A1" -> <<"a1">> [] b = "A2" -> <<"a2">>
    [] b = "A3" -> <<"a3", "pay", "split">> [] b = "B3" -> <<"b3", "stake", "pay">>
    [] b = "A4" -> <<"a4", "odd">> [] b = "B4" -> <<"b4", "rival">>]
TreeHeight[b \in Block] == IF b = Genesis THEN 0 ELSE TreeHeight[pprev[b]] + 1
TreeChain[b \in Block] == IF b = Genesis THEN {b} ELSE TreeChain[pprev[b]] \cup {b}
CoinBases == {"a1", "a2", "a3", "b3", "a4", "b4"}
Loose == {"pay", "split", "rival", "join", "odd", "late", "bad", "multi"}
Txs == CoinBases \cup {"stake"} \cup Loose
TxVin == [t \in Txs |->
  CASE t = "pay" -> <<<<"a1", 0>>>> [] t = "stake" -> <<<<"a1", 1>>>>
    [] t = "split" -> <<<<"pay", 0>>>> [] t = "rival" -> <<<<"pay", 0>>>>
    [] t = "join" -> <<<<"split", 0>>, <<"pay", 1>>>>
    [] t = "odd" -> <<<<"split", 1>>>> [] t = "late" -> <<<<"odd", 0>>>>
    [] t = "bad" -> <<<<"pay", 1>>>> [] t = "multi" -> <<<<"join", 0>>>> [] OTHER -> <<>>]
TxVout == [t \in Txs |-> IF t \in {"a1", "pay", "split"} THEN 2 ELSE 1]
Locked == [t \in Txs |-> IF t = "rival" THEN 3 ELSE 0]
HashOrder == <<"a1", "a2", "a3", "b3", "a4", "b4", "stake", "multi", "join", "late", "bad", "odd", "split", "rival", "pay">>
NoTime == [t \in Txs |-> 0]
SomeTime == [t \in Txs |-> 1]
Orders == {HashOrder,
  <<"pay", "rival", "split", "odd", "bad", "late", "join", "multi", "stake", "b4", "a4", "b3", "a3", "a2", "a1">>}
=============================================================================
