---------------------------- MODULE MCBlockFiles ----------------------------
(***************************************************************************)
(* A chain of two blocks on Genesis.  A file has room for Genesis and one  *)
(* block, so that each may get to be the last of its file.                 *)
(***************************************************************************)
EXTENDS BlockFiles

TreePprev == [b \in Block \ {Genesis} |-> IF b = "A2" THEN "A1" ELSE Genesis]
TreeChain == [b \in Block |-> IF b = "A2" THEN {Genesis, "A1", "A2"} ELSE {Genesis, b}]
UnitSize == [b \in Block |-> 1]
=============================================================================
