----------------------------- MODULE CheckQueue -----------------------------
(***************************************************************************)
(* CCheckQueue and CCheckQueueControl of checkqueue.h: the script checks   *)
(* of a block are pushed by the master (the thread in ConnectBlock, which  *)
(* holds cs_main, so there is one at a time) and run by the worker threads *)
(* of init.cpp and, at the end, by the master itself.                      *)
(*                                                                         *)
(* A check is a number; bad is the set of those that will return false.    *)
(* A critical section is one step, except that a thread woken from its     *)
(* wait first takes the mutex and decrements nIdle: the constructor of     *)
(* CCheckQueueControl reads the counters without the mutex and can see     *)
(* that state.                                                             *)
(***************************************************************************)
EXTENDS Integers, Sequences, FiniteSets, FiniteSetsExt, Functions

CONSTANTS
  Worker,       \* threads running ThreadScriptCheck
  Master,       \* the thread in ConnectBlock
  NoThread,
  nBatchSize,   \* 128 in main.cpp
  MaxChecks,    \* bound: checks of one block
  MaxBad,       \* bound: checks of one block that fail
  MaxSpurious   \* bound: wake-ups without a notification

ASSUME QueueAssumption ==
  /\ IsFiniteSet(Worker)
  /\ Master \notin Worker /\ NoThread \notin Worker \cup {Master}
  /\ nBatchSize \in Nat \ {0}
  /\ MaxChecks \in Nat
  /\ MaxBad \in Nat /\ MaxSpurious \in Nat

VARIABLES
  queue,        \* checks not yet taken, a stack
  nIdle, nTotal, nTodo, fAllOk,
  mutex,        \* the thread that holds it between two steps
  pc,           \* where each thread is in Loop
  vChecks,      \* the batch of each thread
  fOk,          \* that local of each thread
  added,        \* checks the master pushed for this block
  bad,          \* those of them that fail
  executed,     \* checks whose operator() has been called
  verdict,      \* what Wait returned for the last block
  fInterrupted, \* the master's thread has been interrupted
  nSpurious     \* wake-ups without a notification so far (bound)

wakeVars == <<fInterrupted, nSpurious>>
vars == <<queue, nIdle, nTotal, nTodo, fAllOk, mutex, pc, vChecks, fOk, added, bad,
          executed, verdict, fInterrupted, nSpurious>>

Thread == Worker \cup {Master}

\* "start": about to call Loop; "wait": in cond.wait; "woken": notified;
\* "held": woken and holding the mutex; "run": a batch taken; "done": a batch
\* executed; "gone": interrupted.  The master is "outside" between blocks and
\* "adding" while ConnectBlock pushes checks.
Place == {"start", "wait", "woken", "held", "run", "done", "gone", "outside", "adding"}

Init ==
  /\ queue = <<>>
  /\ nIdle = 0 /\ nTotal = 0 /\ nTodo = 0 /\ fAllOk = TRUE
  /\ mutex = NoThread
  /\ pc = [t \in Thread |-> IF t = Master THEN "outside" ELSE "start"]
  /\ vChecks = [t \in Thread |-> <<>>]
  /\ fOk = [t \in Thread |-> TRUE]
  /\ added = 0 /\ bad = {} /\ executed = {} /\ verdict = TRUE /\ fInterrupted = FALSE /\ nSpurious = 0

-----------------------------------------------------------------------------
\* CCheckQueueControl: a new block.
Begin ==
  /\ pc[Master] = "outside"
  /\ pc' = [pc EXCEPT ![Master] = "adding"]
  /\ added' = 0 /\ bad' = {} /\ executed' = {}
  /\ UNCHANGED <<queue, nIdle, nTotal, nTodo, fAllOk, mutex, vChecks, fOk, verdict, wakeVars>>

\* The workers a notify_one (n = 1) or notify_all on condWorker wakes.
Notified(n) ==
  LET waiting == {w \in Worker : pc[w] = "wait"}
  IN IF n > 1 \/ waiting = {} THEN {waiting} ELSE {{w} : w \in waiting}

\* Mutant of Add: one check is counted, however many are added.
AddCountsOne(n) ==
  /\ pc[Master] = "adding" /\ mutex = NoThread
  /\ added + n <= MaxChecks
  /\ LET new == (added + 1) .. (added + n)
     IN \E f \in SUBSET new : bad' = bad \cup f /\ Cardinality(bad') <= MaxBad
  /\ queue' = queue \o [i \in 1 .. n |-> added + i]
  /\ added' = added + n
  /\ nTodo' = nTodo + 1
  /\ \E woken \in Notified(n) :
       pc' = [t \in Thread |-> IF t \in woken THEN "woken" ELSE pc[t]]
  /\ UNCHANGED <<nIdle, nTotal, fAllOk, mutex, vChecks, fOk, executed, verdict, wakeVars>>

\* CCheckQueue::Add of n checks, of which those in f fail.
Add(n) ==
  /\ pc[Master] = "adding" /\ mutex = NoThread
  /\ added + n <= MaxChecks
  /\ LET new == (added + 1) .. (added + n)
     IN \E f \in SUBSET new : bad' = bad \cup f /\ Cardinality(bad') <= MaxBad
  /\ queue' = queue \o [i \in 1 .. n |-> added + i]
  /\ added' = added + n
  /\ nTodo' = nTodo + n
  /\ \E woken \in Notified(n) :
       pc' = [t \in Thread |-> IF t \in woken THEN "woken" ELSE pc[t]]
  /\ UNCHANGED <<nIdle, nTotal, fAllOk, mutex, vChecks, fOk, executed, verdict, wakeVars>>

\* CCheckQueueControl::Wait, or its destructor when ConnectBlock fails early.
Wait ==
  /\ pc[Master] = "adding"
  /\ pc' = [pc EXCEPT ![Master] = "start"]
  /\ UNCHANGED <<queue, nIdle, nTotal, nTodo, fAllOk, mutex, vChecks, fOk, added, bad,
                 executed, verdict, wakeVars>>

-----------------------------------------------------------------------------
\* How many work units to take, with the counters as they are then.
BatchSize(total, idle) ==
  Max({1, Min({nBatchSize, Len(queue) \div (total + idle + 1)})})

\* Mutant of TopOfLoop: the master leaves as soon as the queue is empty.
TopOfLoopEarly(t, todo, ok, total, idle, places) ==
  \/ /\ queue # <<>>
     /\ LET rest == Len(queue) - BatchSize(total, idle)
        IN /\ vChecks' = [vChecks EXCEPT ![t] = SubSeq(queue, rest + 1, Len(queue))]
           /\ queue' = SubSeq(queue, 1, rest)
     /\ fOk' = [fOk EXCEPT ![t] = ok]
     /\ pc' = [places EXCEPT ![t] = "run"]
     /\ nTotal' = total /\ nIdle' = idle /\ fAllOk' = ok
     /\ UNCHANGED verdict
  \/ /\ queue = <<>> /\ t = Master
     /\ verdict' = ok
     /\ pc' = [places EXCEPT ![t] = "outside"]
     /\ vChecks' = [vChecks EXCEPT ![t] = <<>>]
     /\ nTotal' = total - 1 /\ nIdle' = idle /\ fAllOk' = TRUE
     /\ UNCHANGED <<queue, fOk>>
  \/ /\ queue = <<>> /\ t # Master
     /\ pc' = [places EXCEPT ![t] = "wait"]
     /\ vChecks' = [vChecks EXCEPT ![t] = <<>>]
     /\ nTotal' = total /\ nIdle' = idle + 1 /\ fAllOk' = ok
     /\ UNCHANGED <<queue, fOk, verdict>>

\* From "logically, the do loop starts here": take a batch, return (the master,
\* when nothing is left anywhere), or wait.  The arguments are the counters and
\* the places of the threads after the clean-up of the same critical section.
TopOfLoop(t, todo, ok, total, idle, places) ==
  \/ /\ queue # <<>>
     /\ LET rest == Len(queue) - BatchSize(total, idle)
        IN /\ vChecks' = [vChecks EXCEPT ![t] = SubSeq(queue, rest + 1, Len(queue))]
           /\ queue' = SubSeq(queue, 1, rest)
     /\ fOk' = [fOk EXCEPT ![t] = ok]
     /\ pc' = [places EXCEPT ![t] = "run"]
     /\ nTotal' = total /\ nIdle' = idle /\ fAllOk' = ok
     /\ UNCHANGED verdict
  \/ /\ queue = <<>> /\ t = Master /\ todo = 0
     /\ verdict' = ok
     /\ pc' = [places EXCEPT ![t] = "outside"]
     /\ vChecks' = [vChecks EXCEPT ![t] = <<>>]
     /\ nTotal' = total - 1 /\ nIdle' = idle /\ fAllOk' = TRUE
     /\ UNCHANGED <<queue, fOk>>
  \/ /\ queue = <<>> /\ ~(t = Master /\ todo = 0)
     /\ pc' = [places EXCEPT ![t] = "wait"]
     /\ vChecks' = [vChecks EXCEPT ![t] = <<>>]
     /\ nTotal' = total /\ nIdle' = idle + 1 /\ fAllOk' = ok
     /\ UNCHANGED <<queue, fOk, verdict>>

\* The first iteration of Loop.
EnterLoop(t) ==
  /\ pc[t] = "start" /\ mutex = NoThread
  /\ TopOfLoop(t, nTodo, fAllOk, nTotal + 1, nIdle, pc)
  /\ UNCHANGED <<nTodo, mutex, added, bad, executed, wakeVars>>

\* The batch is executed outside the mutex: checks are called until one fails.
\* vChecks is kept until the thread reports, for its length, which is nNow.
Execute(t) ==
  /\ pc[t] = "run"
  /\ LET called == {i \in DOMAIN vChecks[t] :
                      fOk[t] /\ \A j \in 1 .. (i - 1) : vChecks[t][j] \notin bad}
     IN /\ executed' = executed \cup {vChecks[t][i] : i \in called}
        /\ fOk' = [fOk EXCEPT ![t] = @ /\ \A i \in DOMAIN vChecks[t] : vChecks[t][i] \notin bad]
  /\ pc' = [pc EXCEPT ![t] = "done"]
  /\ UNCHANGED <<queue, nIdle, nTotal, nTodo, fAllOk, mutex, vChecks, added, bad, verdict, wakeVars>>

\* Mutant of Report: the worker that finishes last does not wake the master.
ReportSilently(t) ==
  /\ pc[t] = "done" /\ mutex = NoThread
  /\ LET todo == nTodo - Len(vChecks[t])
         ok == fAllOk /\ fOk[t]
     IN nTodo' = todo /\ TopOfLoop(t, todo, ok, nTotal, nIdle, pc)
  /\ UNCHANGED <<mutex, added, bad, executed, wakeVars>>

\* A later iteration of Loop: clean up after the batch, wake the master when it
\* was the last, and go on.
Report(t) ==
  /\ pc[t] = "done" /\ mutex = NoThread
  /\ LET todo == nTodo - Len(vChecks[t])
         ok == fAllOk /\ fOk[t]
         places == IF todo = 0 /\ t # Master /\ pc[Master] = "wait"
                   THEN [pc EXCEPT ![Master] = "woken"] ELSE pc
     IN nTodo' = todo /\ TopOfLoop(t, todo, ok, nTotal, nIdle, places)
  /\ UNCHANGED <<mutex, added, bad, executed, wakeVars>>

\* A notified thread gets the mutex back inside cond.wait, and decrements nIdle.
Reacquire(t) ==
  /\ pc[t] = "woken" /\ mutex = NoThread
  /\ mutex' = t
  /\ nIdle' = nIdle - 1
  /\ pc' = [pc EXCEPT ![t] = "held"]
  /\ UNCHANGED <<queue, nTotal, nTodo, fAllOk, vChecks, fOk, added, bad, executed, verdict, wakeVars>>

\* It then tests the loop condition again.
Resume(t) ==
  /\ pc[t] = "held" /\ mutex = t
  /\ mutex' = NoThread
  /\ TopOfLoop(t, nTodo, fAllOk, nTotal, nIdle, pc)
  /\ UNCHANGED <<nTodo, added, bad, executed, wakeVars>>

\* A condition variable may wake a thread without a notification.
SpuriousWake(t) ==
  /\ nSpurious < MaxSpurious
  /\ nSpurious' = nSpurious + 1
  /\ pc[t] = "wait"
  /\ pc' = [pc EXCEPT ![t] = "woken"]
  /\ UNCHANGED <<queue, nIdle, nTotal, nTodo, fAllOk, mutex, vChecks, fOk, added, bad,
                 executed, verdict, fInterrupted>>

\* Shutdown interrupts a waiting worker: the exception leaves Loop, and the
\* counters, as they are.
Interrupt(w) ==
  /\ pc[w] = "wait" /\ mutex = NoThread
  /\ pc' = [pc EXCEPT ![w] = "gone"]
  /\ UNCHANGED <<queue, nIdle, nTotal, nTodo, fAllOk, mutex, vChecks, fOk, added, bad,
                 executed, verdict, wakeVars>>

\* Shutdown interrupts the waiting master: the exception leaves Wait with the
\* counters as they are, and the destructor of CCheckQueueControl calls it again.
InterruptMaster ==
  /\ pc[Master] = "wait" /\ mutex = NoThread
  /\ ~fInterrupted
  /\ fInterrupted' = TRUE
  /\ pc' = [pc EXCEPT ![Master] = "start"]
  /\ UNCHANGED <<queue, nIdle, nTotal, nTodo, fAllOk, mutex, vChecks, fOk, added, bad,
                 executed, verdict, nSpurious>>

\* A step of thread t inside Loop.
Loop(t) == EnterLoop(t) \/ Execute(t) \/ Report(t) \/ Reacquire(t) \/ Resume(t)

Next ==
  \/ Begin
  \/ \E n \in 1 .. MaxChecks : Add(n)
  \/ Wait
  \/ \E t \in Thread : Loop(t)
  \/ \E t \in Thread : SpuriousWake(t)
  \/ \E w \in Worker : Interrupt(w)
  \/ InterruptMaster

Spec == Init /\ [][Next]_vars

\* Every thread that can take a step of Loop keeps running.
FairSpec == Spec /\ \A t \in Thread : WF_vars(Loop(t))

-----------------------------------------------------------------------------
\* The state has the types the code gives it; the counters may count the
\* interrupted master once more.
TypeOK ==
  /\ queue \in Seq(1 .. MaxChecks)
  /\ nIdle \in 0 .. Cardinality(Thread) + 1
  /\ nTotal \in 0 .. Cardinality(Thread) + 1
  /\ nTodo \in 0 .. MaxChecks
  /\ fAllOk \in BOOLEAN
  /\ mutex \in Thread \cup {NoThread}
  /\ pc \in [Thread -> Place]
  /\ vChecks \in [Thread -> Seq(1 .. MaxChecks)]
  /\ fOk \in [Thread -> BOOLEAN]
  /\ added \in 0 .. MaxChecks
  /\ bad \subseteq 1 .. added
  /\ executed \subseteq 1 .. added
  /\ verdict \in BOOLEAN
  /\ fInterrupted \in BOOLEAN
  /\ nSpurious \in 0 .. MaxSpurious

\* The checks that wait in the queue or are in the batch of a thread.
Pending == Range(queue) \cup UNION {Range(vChecks[t]) : t \in Thread}

\* nTodo is "Number of verifications that haven't completed yet.  This includes
\* elements that are not anymore in queue, but still in worker's own batches";
\* and no check is in two places, so none is called twice.  The state keeps its types.
TodoExact ==
  LET batch(t) == Range(vChecks[t])
  IN /\ TypeOK
     /\ nTodo = Cardinality(Pending)
     /\ IsInjective(queue)
     /\ \A t \in Thread :
          /\ IsInjective(vChecks[t])
          /\ batch(t) \cap Range(queue) = {}
          /\ \A u \in Thread \ {t} : batch(t) \cap batch(u) = {}
     /\ (Range(queue) \cup UNION {batch(t) : t \in {u \in Thread : pc[u] = "run"}}) \cap executed = {}

\* When the master is outside, the queue is unused: nothing of the block is left
\* behind for the next one, whatever was interrupted, and a block is accepted
\* only when every check was called.
UnusedBetween ==
  pc[Master] = "outside" /\ mutex = NoThread =>
    /\ queue = <<>> /\ nTodo = 0 /\ fAllOk
    /\ nTotal = nIdle
    /\ \A t \in Thread : vChecks[t] = <<>>
    /\ verdict => executed = 1 .. added

\* The queue implements the verification of a block in one step, whose result is
\* whether all evaluations were successful, and which always comes.
Phase == CASE pc[Master] = "outside" -> "closed"
           [] pc[Master] = "adding" -> "open"
           [] OTHER -> "waiting"
Block == INSTANCE BlockCheck WITH phase <- Phase
Implements == Block!FairSpec
=============================================================================
