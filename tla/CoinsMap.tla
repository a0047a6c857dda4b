------------------------------ MODULE CoinsMap ------------------------------
(***************************************************************************)
(* What the stack of coin views promises to the code that connects blocks: *)
(* three plain versions of the map from transaction to coins, each with    *)
(* the block it stands for.  One is on disk, one is current, one may be a  *)
(* draft that is either committed whole or abandoned.                      *)
(***************************************************************************)
CONSTANTS Txid, Coins, Block, NoDraft

VARIABLES committed, current, draft

vars == <<committed, current, draft>>

Version == [coins : [Txid -> Coins], best : Block]

Init ==
  /\ committed \in Version
  /\ current = committed
  /\ draft = NoDraft

\* A view for the changes of one block.
Open == draft = NoDraft /\ draft' = current /\ UNCHANGED <<committed, current>>

Update(t, c) ==
  /\ draft # NoDraft
  /\ draft' = [coins |-> [draft.coins EXCEPT ![t] = c], best |-> draft.best]
  /\ UNCHANGED <<committed, current>>

SetBest(b) ==
  /\ draft # NoDraft
  /\ draft' = [coins |-> draft.coins, best |-> b]
  /\ UNCHANGED <<committed, current>>

\* All the changes of the draft appear at once, or none.
Commit == draft # NoDraft /\ current' = draft /\ draft' = NoDraft /\ UNCHANGED committed
Abandon == draft # NoDraft /\ draft' = NoDraft /\ UNCHANGED <<committed, current>>

Sync == draft = NoDraft /\ committed' = current /\ UNCHANGED <<current, draft>>

\* The database refuses the batch: the coins fall back to those on disk while
\* the best block stays.
SyncFails ==
  /\ draft = NoDraft
  /\ current' = [coins |-> committed.coins, best |-> current.best]
  /\ UNCHANGED <<committed, draft>>

Restart == current' = committed /\ draft' = NoDraft /\ UNCHANGED committed

Next ==
  \/ Open \/ Commit \/ Abandon \/ Sync \/ SyncFails \/ Restart
  \/ \E t \in Txid, c \in Coins : Update(t, c)
  \/ \E b \in Block : SetBest(b)

Spec == Init /\ [][Next]_vars
=============================================================================
