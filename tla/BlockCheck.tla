----------------------------- MODULE BlockCheck -----------------------------
(***************************************************************************)
(* What ConnectBlock needs of the script check queue: it opens a batch for *)
(* a block, adds checks, waits, and gets the conjunction of their results. *)
(***************************************************************************)
EXTENDS Naturals

CONSTANT MaxChecks

VARIABLES phase, added, bad, verdict

vars == <<phase, added, bad, verdict>>

Init == phase = "closed" /\ added = 0 /\ bad = {} /\ verdict = TRUE

\* CCheckQueueControl is constructed.
Open ==
  /\ phase = "closed" /\ phase' = "open"
  /\ added' = 0 /\ bad' = {}
  /\ UNCHANGED verdict

\* CCheckQueueControl::Add
Add(n) ==
  /\ phase = "open" /\ added + n <= MaxChecks
  /\ added' = added + n
  /\ \E f \in SUBSET ((added + 1) .. (added + n)) : bad' = bad \cup f
  /\ UNCHANGED <<phase, verdict>>

\* CCheckQueueControl::Wait is called.
Wait == phase = "open" /\ phase' = "waiting" /\ UNCHANGED <<added, bad, verdict>>

\* It returns.
Finish ==
  /\ phase = "waiting" /\ phase' = "closed"
  /\ verdict' = (bad = {})
  /\ UNCHANGED <<added, bad>>

Next == Open \/ Wait \/ Finish \/ \E n \in 1 .. MaxChecks : Add(n)

Spec == Init /\ [][Next]_vars
FairSpec == Spec /\ WF_vars(Finish)
=============================================================================
