--------------------------- MODULE MCBlockDownload ---------------------------
(***************************************************************************)
(* Small block trees for BlockDownload.                                    *)
(***************************************************************************)
EXTENDS BlockDownload, TLC

CONSTANTS G, A1, A2, C1, P1, P2

\* G-A1-A2, with C1 beside A1.
ForkBlock == {G, A1, A2, C1}
ForkChain == [b \in ForkBlock |-> CASE b = G -> {G} [] b = A2 -> {G, A1, A2} [] OTHER -> {G, b}]
ForkHeight == [b \in ForkBlock |-> Cardinality(ForkChain[b]) - 1]

\* P1 is reorganised from C1 to A2; P2 stays at A1.
ForkTips == (P1 :> {C1, A2}) @@ (P2 :> {A1})
ForkFirst == (P1 :> C1) @@ (P2 :> A1)

\* P2 is reorganised to A2 as well, after P1 or before.
ForkTipsBoth == [p \in {P1, P2} |-> {C1, A2}]
ForkFirstBoth == [p \in {P1, P2} |-> C1]
=============================================================================
