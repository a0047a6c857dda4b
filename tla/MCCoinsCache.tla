---------------------------- MODULE MCCoinsCache ----------------------------
(***************************************************************************)
(* Transactions are interchangeable, and so are the unspent coins and the  *)
(* blocks.                                                                 *)
(***************************************************************************)
EXTENDS CoinsCache, TLC

Symmetry == Permutations(Txid) \cup Permutations(Coins \ {Pruned}) \cup Permutations(Block)
=============================================================================
