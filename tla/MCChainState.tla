---------------------------- MODULE MCChainState ----------------------------
(***************************************************************************)
(* Small block trees for ChainState.                                       *)
(***************************************************************************)
EXTENDS ChainState

CONSTANTS G, A1, A2, B1, B2, B3, C2

\* The two-branch tree: G-A1-A2 and G-B1-B2-B3, with C2 beside A2.  Block is all of
\* it, or all but B3 and C2.
ForkPprev ==
  [b \in Block \ {G} |->
     CASE b \in {A1, B1} -> G
       [] b \in {A2, C2} -> A1
       [] b = B2 -> B1
       [] b = B3 -> B2]

ForkChain[b \in Block] == IF b = G THEN {G} ELSE {b} \cup ForkChain[ForkPprev[b]]
ForkHeight == [b \in Block |-> Cardinality(ForkChain[b]) - 1]
ForkAddress ==
  [b \in Block |-> CASE b = G -> 0 [] b = A1 -> 1 [] b = A2 -> 2 [] b = B1 -> 3
                         [] b = B2 -> 4 [] b = B3 -> 5 [] b = C2 -> 6]
\* Proof of work only.
NoKernel == [b \in Block |-> G]

\* B2 is staked with a coin whose stake modifier is that of B1: its kernel can be
\* verified only while B1 is on the active chain.
SideKernel == [NoKernel EXCEPT ![B2] = B1]
=============================================================================
