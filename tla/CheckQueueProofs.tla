-------------------------- MODULE CheckQueueProofs --------------------------
(***************************************************************************)
(* For any number of workers, any batch size and blocks with any number of *)
(* checks: the counters of the check queue are exact, the queue is unused  *)
(* between two blocks, and whatever Wait returns is the conjunction of the *)
(* results of the block's checks.                                          *)
(***************************************************************************)
EXTENDS CheckQueue, FiniteSetTheorems, SequenceTheorems, TLAPS

\* Where a thread is counted in nTotal, and in nIdle.
Counted == {"wait", "woken", "held", "run", "done", "gone"}
Resting == {"wait", "woken", "gone"}

\* The threads at one of the given places.
At(places, P) == {t \in Thread : places[t] \in P}

\* Once interrupted, the master is counted one more time.
Again == IF fInterrupted THEN 1 ELSE 0

\* How the places of the threads, the mutex and the batches go together.
Control ==
  /\ \A w \in Worker : pc[w] \notin {"outside", "adding"}
  /\ pc[Master] # "gone"
  /\ \A t \in Thread : (mutex = t) <=> (pc[t] = "held")
  /\ \A t \in Thread : (vChecks[t] = <<>>) <=> (pc[t] \notin {"run", "done"})
  /\ pc[Master] = "outside" => fAllOk /\ Pending = {} /\ (verdict => executed = 1 .. added)

Counters ==
  /\ nTotal = Cardinality(At(pc, Counted)) + Again
  /\ nIdle = Cardinality(At(pc, Resting)) + Again

\* Every check of the block that was not executed is in one place.
Distinct ==
  /\ Pending \subseteq 1 .. added
  /\ nTodo = Cardinality(Pending)
  /\ IsInjective(queue)
  /\ Range(queue) \cap executed = {}
  /\ \A t \in Thread :
       /\ IsInjective(vChecks[t])
       /\ Range(vChecks[t]) \cap Range(queue) = {}
       /\ \A u \in Thread \ {t} : Range(vChecks[t]) \cap Range(vChecks[u]) = {}
       /\ pc[t] = "run" => Range(vChecks[t]) \cap executed = {}

\* A check called with success.
Passed(c) == c \in executed /\ c \notin bad

\* What the flags say about the checks that are finished.
Results ==
  /\ pc[Master] # "outside" /\ fAllOk => \A c \in (1 .. added) \ Pending : Passed(c)
  /\ ~fAllOk => bad # {}
  /\ \A t \in Thread : pc[t] \in {"run", "done"} /\ ~fOk[t] => bad # {}
  /\ \A t \in Thread : pc[t] = "done" /\ fOk[t] => \A c \in Range(vChecks[t]) : Passed(c)

IInv == TypeOK /\ Control /\ Counters /\ Distinct /\ Results

-----------------------------------------------------------------------------
\* A sequence without repetitions has as many elements as positions.
LEMMA DistinctElements ==
  ASSUME NEW S, NEW s \in Seq(S), IsInjective(s)
  PROVE  IsFiniteSet(Range(s)) /\ Cardinality(Range(s)) = Len(s)
  <1>1. Len(s) \in Nat /\ s \in [1 .. Len(s) -> S] /\ DOMAIN s = 1 .. Len(s)
    BY LenProperties, Zenon
  <1>2. s \in Bijection(1 .. Len(s), Range(s))
    BY <1>1, Zenon DEF Bijection, Injection, Surjection, IsInjective, Range
  <1>3. ExistsBijection(1 .. Len(s), Range(s))
    BY <1>2, Zenon DEF ExistsBijection
  <1>4. QED
    BY <1>1, <1>3, FS_CountingElements, FS_NatBijection, Zenon

LEMMA NonEmptyRange ==
  ASSUME NEW S, NEW s \in Seq(S), s # <<>>
  PROVE  Range(s) # {}
  <1>1. Len(s) \in Nat /\ Len(s) # 0 /\ DOMAIN s = 1 .. Len(s)
    BY LenProperties, EmptySeq, Zenon
  <1>2. 1 \in DOMAIN s
    BY <1>1
  <1>3. QED
    BY <1>2, Zenon DEF Range

\* Cutting such a sequence in two.
LEMMA CutInTwo ==
  ASSUME NEW S, NEW s \in Seq(S), IsInjective(s), NEW r \in Nat, r < Len(s)
  PROVE  LET a == SubSeq(s, 1, r)
             b == SubSeq(s, r + 1, Len(s))
         IN /\ a \in Seq(S) /\ b \in Seq(S) /\ b # <<>>
            /\ IsInjective(a) /\ IsInjective(b)
            /\ Range(a) \cup Range(b) = Range(s)
            /\ Range(a) \cap Range(b) = {}
  <1> DEFINE a == SubSeq(s, 1, r)
             b == SubSeq(s, r + 1, Len(s))
  <1>1. Len(s) \in Nat /\ s \in [1 .. Len(s) -> S] /\ DOMAIN s = 1 .. Len(s)
    BY LenProperties, Zenon
  <1>2. a \in Seq(S) /\ Len(a) = r /\ \A i \in 1 .. r : a[i] = s[i]
    <2>1. \A i \in 1 .. r : s[i] \in S
      BY <1>1
    <2>2. QED
      BY <2>1, <1>1, SubSeqProperties
  <1>3. b \in Seq(S) /\ Len(b) = Len(s) - r /\ \A i \in 1 .. Len(s) - r : b[i] = s[r + i]
    <2>1. PICK m \in Int : m = r + 1
      OBVIOUS
    <2>a. Len(s) \in Int
      BY <1>1
    <2>2. PICK n \in Int : n = Len(s)
      BY <2>a, Zenon
    <2>3. \A i \in m .. n : s[i] \in S
      BY <2>1, <2>2, <1>1
    <2>4. /\ SubSeq(s, m, n) \in Seq(S)
          /\ Len(SubSeq(s, m, n)) = IF m <= n THEN n - m + 1 ELSE 0
          /\ \A i \in 1 .. n - m + 1 : SubSeq(s, m, n)[i] = s[m + i - 1]
      BY <2>3, SubSeqProperties
    <2>5. b = SubSeq(s, m, n) /\ n - m + 1 = Len(s) - r /\ m <= n
      BY <2>1, <2>2, <1>1
    <2> HIDE DEF b
    <2>6. QED
      BY <2>1, <2>2, <2>4, <2>5
  <1>4. DOMAIN a = 1 .. r /\ DOMAIN b = 1 .. Len(s) - r
    BY <1>2, <1>3, LenProperties, Zenon
  <1> HIDE DEF a, b
  <1>5. b # <<>>
    BY <1>1, <1>3
  <1>a. \A i \in 1 .. r : i \in 1 .. Len(s) /\ a[i] = s[i]
    BY <1>1, <1>2
  <1>b. \A i \in 1 .. Len(s) - r : r + i \in 1 .. Len(s) /\ b[i] = s[r + i]
    BY <1>1, <1>3
  <1>c. \A i, j \in 1 .. Len(s) : s[i] = s[j] => i = j
    BY <1>1, Zenon DEF IsInjective
  <1>6. IsInjective(a) /\ IsInjective(b)
    <2>1. \A i, j \in 1 .. r : a[i] = a[j] => i = j
      BY <1>a, <1>c, Zenon
    <2>2. ASSUME NEW i \in 1 .. Len(s) - r, NEW j \in 1 .. Len(s) - r, b[i] = b[j] PROVE i = j
      <3>1. r + i = r + j
        BY <2>2, <1>b, <1>c, Zenon
      <3>2. QED
        BY <3>1, <1>1
    <2>3. QED
      BY <2>1, <2>2, <1>4, Zenon DEF IsInjective
  <1>7. Range(a) \cup Range(b) \subseteq Range(s)
    BY <1>a, <1>b, <1>1, <1>4 DEF Range
  <1>8. ASSUME NEW x \in Range(s) PROVE x \in Range(a) \cup Range(b)
    <2>1. PICK i \in 1 .. Len(s) : x = s[i]
      BY <1>1, Zenon DEF Range
    <2>2. CASE i <= r
      BY <2>1, <2>2, <1>2, <1>4 DEF Range
    <2>3. CASE i > r
      <3>1. i - r \in 1 .. Len(s) - r /\ b[i - r] = s[i]
        BY <2>1, <2>3, <1>1, <1>3
      <3>2. QED
        BY <3>1, <2>1, <1>4, Zenon DEF Range
    <2>4. QED
      BY <2>1, <2>2, <2>3, <1>1
  <1>9. Range(a) \cap Range(b) = {}
    <2>1. ASSUME NEW i \in 1 .. r, NEW j \in 1 .. Len(s) - r PROVE a[i] # b[j]
      <3>1. r + j # i
        BY <1>1
      <3>2. QED
        BY <3>1, <1>a, <1>b, <1>c, Zenon
    <2>2. QED
      BY <2>1, <1>4, Zenon DEF Range
  <1>10. QED
    BY <1>2, <1>3, <1>5, <1>6, <1>7, <1>8, <1>9, Zenon DEF a, b

\* How many units Loop takes: at least one, and no more than there are.
LEMMA BatchFits ==
  ASSUME NEW total \in Nat, NEW idle \in Nat, queue \in Seq(1 .. MaxChecks), queue # <<>>
  PROVE  BatchSize(total, idle) \in 1 .. Len(queue)
  <1>1. Len(queue) \in Nat /\ Len(queue) > 0
    BY LenProperties, EmptySeq
  <1> DEFINE q == Len(queue) \div (total + idle + 1)
             m == Min({nBatchSize, q})
  <1>2. q \in Int /\ q <= Len(queue)
    BY <1>1
  <1>3. nBatchSize \in Int
    BY QueueAssumption
  <1> HIDE DEF q
  <1>4. m \in {nBatchSize, q} /\ m <= q
    <2>1. \E x \in {nBatchSize, q} : \A y \in {nBatchSize, q} : x <= y
      BY <1>2, <1>3
    <2>2. QED
      BY <2>1, <1>2, <1>3, Zenon DEF Min
  <1> HIDE DEF m
  <1>5. Max({1, m}) \in {1, m} /\ Max({1, m}) >= 1
    BY <1>2, <1>3, <1>4 DEF Max
  <1>6. QED
    BY <1>1, <1>2, <1>3, <1>4, <1>5 DEF BatchSize, m, q

-----------------------------------------------------------------------------
\* The pending checks are finitely many, and so are the threads at some places.
LEMMA PendingFinite ==
  ASSUME added \in Nat, NEW P \in SUBSET (1 .. added)
  PROVE  IsFiniteSet(P) /\ Cardinality(P) \in Nat /\ Cardinality(P) <= added
  <1>1. IsFiniteSet(1 .. added) /\ Cardinality(1 .. added) = added
    BY FS_Interval
  <1>2. IsFiniteSet(P) /\ Cardinality(P) <= Cardinality(1 .. added)
    BY <1>1, FS_Subset, Zenon
  <1>3. QED
    BY <1>1, <1>2, FS_CardinalityType, Zenon

LEMMA ThreadsFinite ==
  ASSUME NEW T \in SUBSET Thread
  PROVE  IsFiniteSet(T) /\ Cardinality(T) \in Nat /\ Cardinality(T) <= Cardinality(Thread)
  <1>1. IsFiniteSet(Thread)
    BY QueueAssumption, FS_AddElement, Zenon DEF Thread
  <1>2. QED
    BY <1>1, FS_Subset, FS_CardinalityType, Zenon

\* Moving one thread changes the number of threads at some places by that thread.
LEMMA OneMoves ==
  ASSUME NEW t \in Thread, NEW a \in [Thread -> Place], NEW b \in [Thread -> Place], NEW P,
         \A u \in Thread \ {t} : (a[u] \in P) <=> (b[u] \in P)
  PROVE  /\ Cardinality(At(a, P)) \in Nat
         /\ Cardinality(At(b, P)) = Cardinality(At(a, P)) + (IF b[t] \in P THEN 1 ELSE 0)
                                                          - (IF a[t] \in P THEN 1 ELSE 0)
  <1> DEFINE O == {u \in Thread \ {t} : a[u] \in P}
  <1>1. IsFiniteSet(O) /\ Cardinality(O) \in Nat /\ t \notin O
    BY ThreadsFinite, Zenon
  <1>2. At(a, P) = IF a[t] \in P THEN O \cup {t} ELSE O
    BY Zenon DEF At
  <1>3. At(b, P) = IF b[t] \in P THEN O \cup {t} ELSE O
    BY Zenon DEF At
  <1>4. Cardinality(O \cup {t}) = Cardinality(O) + 1
    BY <1>1, FS_AddElement, Zenon
  <1> HIDE DEF O
  <1>5. QED
    BY <1>1, <1>2, <1>3, <1>4

\* When the same threads are at some places, as many are.
LEMMA NoneMoves ==
  ASSUME NEW a \in [Thread -> Place], NEW b \in [Thread -> Place], NEW P,
         \A u \in Thread : (a[u] \in P) <=> (b[u] \in P)
  PROVE  At(b, P) = At(a, P)
  BY Zenon DEF At

\* The checks that are pending without the batch of thread t.
Others(t) == Range(queue) \cup UNION {Range(vChecks[u]) : u \in Thread \ {t}}

\* What the arguments of TopOfLoop stand for: the state after the clean-up, with the
\* batch of thread t out of account and the thread running.
Ready(t, todo, ok, total, idle, places) ==
  /\ todo = Cardinality(Others(t))
  /\ ok \in BOOLEAN /\ (~ok => bad # {})
  /\ places \in [Thread -> Place]
  /\ \A w \in Worker : places[w] \notin {"outside", "adding"}
  /\ places[Master] # "gone" /\ places[t] \notin {"outside", "adding"}
  /\ \A u \in Thread \ {t} :
       /\ places[u] # "held"
       /\ vChecks[u] = <<>> <=> places[u] \notin {"run", "done"}
       /\ places[u] \in {"run", "done"} => places[u] = pc[u]
  /\ total = Cardinality({u \in Thread \ {t} : places[u] \in Counted}) + 1 + Again
  /\ idle = Cardinality({u \in Thread \ {t} : places[u] \in Resting}) + Again
  /\ (t # Master /\ places[Master] = "outside") =>
       /\ ok /\ Others(t) = {}
       /\ verdict => executed = 1 .. added
  /\ ~(t # Master /\ places[Master] = "outside") =>
       (ok => \A c \in (1 .. added) \ Others(t) : Passed(c))

\* A critical section of Loop ends in a state that satisfies the invariant again.
LEMMA TopOfLoopKeeps ==
  ASSUME IInv, NEW t \in Thread, NEW todo, NEW ok, NEW total, NEW idle, NEW places,
         Ready(t, todo, ok, total, idle, places),
         TopOfLoop(t, todo, ok, total, idle, places),
         nTodo' = todo, mutex' = NoThread, UNCHANGED <<added, bad, executed, wakeVars>>
  PROVE  IInv'
  <1> USE DEF IInv
  <1>t. /\ queue \in Seq(1 .. MaxChecks) /\ vChecks \in [Thread -> Seq(1 .. MaxChecks)]
        /\ fOk \in [Thread -> BOOLEAN] /\ verdict \in BOOLEAN /\ places \in [Thread -> Place]
        /\ added \in Nat /\ added <= MaxChecks /\ MaxChecks \in Nat
        /\ t # NoThread /\ Master # NoThread /\ NoThread \notin Thread /\ Master \in Thread
    BY QueueAssumption DEF TypeOK, Ready, Thread
  <1>n. total \in Nat /\ idle \in Nat /\ todo \in Nat /\ Again \in {0, 1}
    <2>1. Others(t) \in SUBSET (1 .. added)
      BY Zenon DEF Distinct, Others, Pending
    <2>2. Again \in {0, 1}
      BY Zenon DEF Again
    <2>3. todo \in Nat
      BY <2>1, <1>t, PendingFinite, Zenon DEF Ready
    <2>4. ASSUME NEW P PROVE Cardinality({u \in Thread \ {t} : places[u] \in P}) \in Nat
      BY ThreadsFinite, Zenon
    <2>5. /\ total = Cardinality({u \in Thread \ {t} : places[u] \in Counted}) + 1 + Again
          /\ idle = Cardinality({u \in Thread \ {t} : places[u] \in Resting}) + Again
      BY Zenon DEF Ready
    <2>6. /\ Cardinality({u \in Thread \ {t} : places[u] \in Counted}) \in Nat
          /\ Cardinality({u \in Thread \ {t} : places[u] \in Resting}) \in Nat
      BY <2>4, Zenon
    <2>7. QED
      BY <2>2, <2>3, <2>5, <2>6
  \* the places of the threads afterwards
  <1>p. \E x \in {"run", "outside", "wait"} :
           /\ pc' = [places EXCEPT ![t] = x]
           /\ x = "outside" => t = Master
    BY Zenon DEF TopOfLoop
  \* the checks afterwards
  <1>q. /\ queue' \in Seq(1 .. MaxChecks) /\ vChecks' \in [Thread -> Seq(1 .. MaxChecks)]
        /\ \A u \in Thread \ {t} : vChecks'[u] = vChecks[u]
        /\ (vChecks'[t] = <<>>) <=> (pc'[t] # "run")
        /\ IsInjective(queue') /\ IsInjective(vChecks'[t])
        /\ Range(queue') \cup Range(vChecks'[t]) = Range(queue)
        /\ Range(queue') \cap Range(vChecks'[t]) = {}
    <2>1. CASE queue # <<>>
      <3> DEFINE rest == Len(queue) - BatchSize(total, idle)
      <3>1. rest \in Nat /\ rest < Len(queue)
        <4>1. BatchSize(total, idle) \in 1 .. Len(queue)
          BY <2>1, <1>t, <1>n, BatchFits, Zenon
        <4>2. Len(queue) \in Nat
          BY <1>t, LenProperties, Zenon
        <4>3. QED
          BY <4>1, <4>2
      <3>2. /\ vChecks' = [vChecks EXCEPT ![t] = SubSeq(queue, rest + 1, Len(queue))]
            /\ queue' = SubSeq(queue, 1, rest)
            /\ pc' = [places EXCEPT ![t] = "run"]
        BY <2>1, Zenon DEF TopOfLoop
      <3> HIDE DEF rest
      <3>3. IsInjective(queue)
        BY Zenon DEF Distinct
      <3>4. QED
        BY <3>1, <3>2, <3>3, <1>t, CutInTwo, Zenon
    <2>2. CASE queue = <<>>
      <3>1. /\ queue' = queue
            /\ vChecks' = [vChecks EXCEPT ![t] = <<>>]
            /\ pc'[t] # "run"
        BY <2>2, <1>t, Zenon DEF TopOfLoop
      <3>2. Range(<<>>) = {} /\ IsInjective(<<>>)
        BY DEF Range, IsInjective
      <3>3. QED
        BY <3>1, <3>2, <2>2, <1>t, Zenon
    <2>3. QED
      BY <2>1, <2>2, Zenon
  <1>r. Pending' = Others(t)
    <2>1. Pending' = Range(queue') \cup Range(vChecks'[t]) \cup UNION {Range(vChecks'[u]) : u \in Thread \ {t}}
      BY Zenon DEF Pending
    <2>2. UNION {Range(vChecks'[u]) : u \in Thread \ {t}} = UNION {Range(vChecks[u]) : u \in Thread \ {t}}
      BY <1>q, Zenon
    <2>3. QED
      BY <2>1, <2>2, <1>q, Zenon DEF Others
  \* the flags afterwards
  <1>f. /\ fOk' \in [Thread -> BOOLEAN] /\ verdict' \in BOOLEAN /\ fAllOk' \in BOOLEAN
        /\ \A u \in Thread \ {t} : fOk'[u] = fOk[u]
        /\ pc'[t] = "run" => fOk'[t] = ok
        /\ pc'[t] # "outside" => fAllOk' = ok /\ verdict' = verdict
        /\ pc'[t] = "outside" => verdict' = ok /\ fAllOk' = TRUE /\ Others(t) = {}
    <2>1. ok \in BOOLEAN
      BY Zenon DEF Ready
    <2>2. Cardinality(Others(t)) = 0 => Others(t) = {}
      <3>1. Others(t) \in SUBSET (1 .. added)
        BY Zenon DEF Distinct, Others, Pending
      <3>2. QED
        BY <3>1, <1>t, PendingFinite, FS_EmptySet, Zenon
    <2>3. CASE queue # <<>>
      BY <2>1, <2>3, <1>t, Zenon DEF TopOfLoop
    <2>4. CASE queue = <<>> /\ t = Master /\ todo = 0
      BY <2>1, <2>2, <2>4, <1>t, Zenon DEF TopOfLoop, Ready
    <2>5. CASE queue = <<>> /\ ~(t = Master /\ todo = 0)
      BY <2>1, <2>5, <1>t, Zenon DEF TopOfLoop
    <2>6. QED
      BY <2>3, <2>4, <2>5, Zenon
  \* the counters afterwards
  <1>c. Counters' /\ nTotal' \in 0 .. Cardinality(Thread) + 1 /\ nIdle' \in 0 .. Cardinality(Thread) + 1
    <2> DEFINE C == {u \in Thread \ {t} : places[u] \in Counted}
               R == {u \in Thread \ {t} : places[u] \in Resting}
    <2>1. /\ IsFiniteSet(C) /\ Cardinality(C) \in Nat /\ t \notin C
          /\ IsFiniteSet(R) /\ Cardinality(R) \in Nat /\ t \notin R
      BY ThreadsFinite, Zenon
    <2>2. At(pc', Counted) = IF pc'[t] \in Counted THEN C \cup {t} ELSE C
      BY <1>p, <1>t, Zenon DEF At
    <2>3. At(pc', Resting) = IF pc'[t] \in Resting THEN R \cup {t} ELSE R
      BY <1>p, <1>t, Zenon DEF At
    <2>4. Cardinality(C \cup {t}) = Cardinality(C) + 1 /\ Cardinality(R \cup {t}) = Cardinality(R) + 1
      BY <2>1, FS_AddElement, Zenon
    <2>5. total = Cardinality(C) + 1 + Again /\ idle = Cardinality(R) + Again /\ Again' = Again
      BY Zenon DEF Ready, Again, wakeVars
    <2> HIDE DEF C, R
    <2>6. ASSUME queue # <<>> PROVE Counters'
      <3>1. nTotal' = total /\ nIdle' = idle /\ pc'[t] = "run"
        BY <2>6, <1>t, Zenon DEF TopOfLoop
      <3>2. QED
        BY <3>1, <2>1, <2>2, <2>3, <2>4, <2>5, <1>n, Zenon DEF Counters, Counted, Resting
    <2>7. ASSUME queue = <<>> /\ t = Master /\ todo = 0 PROVE Counters'
      <3>1. nTotal' = total - 1 /\ nIdle' = idle /\ pc'[t] = "outside"
        BY <2>7, <1>t, Zenon DEF TopOfLoop
      <3>2. QED
        BY <3>1, <2>1, <2>2, <2>3, <2>4, <2>5, <1>n DEF Counters, Counted, Resting
    <2>8. ASSUME queue = <<>> /\ ~(t = Master /\ todo = 0) PROVE Counters'
      <3>1. nTotal' = total /\ nIdle' = idle + 1 /\ pc'[t] = "wait"
        BY <2>8, <1>t, Zenon DEF TopOfLoop
      <3>2. /\ Cardinality(At(pc', Counted)) = Cardinality(C) + 1
            /\ Cardinality(At(pc', Resting)) = Cardinality(R) + 1
        BY <3>1, <2>2, <2>3, <2>4, Zenon DEF Counted, Resting
      <3>3. QED
        BY <3>1, <3>2, <2>1, <2>5, <1>n DEF Counters
    <2>9. Counters'
      BY <2>6, <2>7, <2>8, Zenon
    <2>10. At(pc', Counted) \in SUBSET Thread /\ At(pc', Resting) \in SUBSET Thread /\ Thread \in SUBSET Thread
      BY Zenon DEF At
    <2>11. QED
      BY <2>9, <2>10, <2>5, <1>n, ThreadsFinite DEF Counters
  <1>1. TypeOK'
    <2>1. todo \in 0 .. MaxChecks
      <3>1. Others(t) \in SUBSET (1 .. added)
        BY Zenon DEF Distinct, Others, Pending
      <3>2. todo = Cardinality(Others(t))
        BY Zenon DEF Ready
      <3>3. Cardinality(Others(t)) \in Nat /\ Cardinality(Others(t)) <= added
        BY <3>1, <1>t, PendingFinite, Zenon
      <3>4. QED
        BY <3>2, <3>3, <1>t, SMTT(30)
    <2>2. pc' \in [Thread -> Place]
      BY <1>p, <1>t, Zenon DEF Place
    <2>3. QED
      BY <2>1, <2>2, <1>c, <1>f, <1>q, <1>t, Zenon DEF TypeOK, wakeVars
  <1>2. Control'
    <2>1. \A w \in Worker : pc'[w] \notin {"outside", "adding"}
      BY <1>p, <1>t, QueueAssumption, Zenon DEF Ready, Thread
    <2>2. pc'[Master] # "gone"
      BY <1>p, <1>t, Zenon DEF Ready
    <2>3. \A u \in Thread : (mutex' = u) <=> (pc'[u] = "held")
      BY <1>p, <1>t, Zenon DEF Ready
    <2>4. \A u \in Thread : (vChecks'[u] = <<>>) <=> (pc'[u] \notin {"run", "done"})
      BY <1>p, <1>q, <1>t, Zenon DEF Ready
    <2>5. pc'[Master] = "outside" => fAllOk' /\ Pending' = {} /\ (verdict' => executed' = 1 .. added')
      <3>1. CASE t = Master
        <4> SUFFICES ASSUME pc'[t] = "outside" PROVE fAllOk' /\ Pending' = {} /\ (verdict' => executed' = 1 .. added')
          BY <3>1, Zenon
        <4>1. verdict' = ok /\ fAllOk' = TRUE /\ Others(t) = {}
          BY <1>f, Zenon
        <4>2. executed \subseteq 1 .. added
          BY Zenon DEF TypeOK
        <4>3. ok => 1 .. added \subseteq executed
          BY <4>1, <3>1, Zenon DEF Ready, Passed
        <4>4. QED
          BY <4>1, <4>2, <4>3, <1>r, Zenon
      <3>2. CASE t # Master
        <4>1. pc'[Master] = places[Master] /\ pc'[t] # "outside"
          BY <3>2, <1>p, <1>t, Zenon
        <4>2. QED
          BY <4>1, <3>2, <1>f, <1>r DEF Ready
      <3>3. QED
        BY <3>1, <3>2, Zenon
    <2>6. QED
      BY <2>1, <2>2, <2>3, <2>4, <2>5, Zenon DEF Control
  <1>3. Distinct'
    <2>1. Pending' \subseteq 1 .. added' /\ nTodo' = Cardinality(Pending')
      BY <1>r, Zenon DEF Distinct, Others, Pending, Ready
    <2>2. Range(queue') \cap executed' = {} /\ Range(vChecks'[t]) \cap executed' = {}
      BY <1>q, Zenon DEF Distinct
    <2>3. \A u \in Thread \ {t} :
            /\ IsInjective(vChecks'[u])
            /\ Range(vChecks'[u]) \cap Range(queue') = {}
            /\ Range(vChecks'[u]) \cap Range(vChecks'[t]) = {}
            /\ \A v \in Thread \ {u, t} : Range(vChecks'[u]) \cap Range(vChecks'[v]) = {}
      BY <1>q, Zenon DEF Distinct
    <2>4. \A u \in Thread \ {t} : pc'[u] = "run" => Range(vChecks'[u]) \cap executed' = {}
      BY <1>p, <1>q, <1>t, ZenonT(40) DEF Distinct, Ready
    <2>5. QED
      BY <2>1, <2>2, <2>3, <2>4, <1>q, Zenon DEF Distinct
  <1>4. Results'
    <2>1. \A c : Passed(c)' <=> Passed(c)
      BY Zenon DEF Passed
    <2>2. pc'[Master] # "outside" /\ fAllOk' => \A c \in (1 .. added') \ Pending' : Passed(c)'
      BY <2>1, <1>f, <1>p, <1>r, <1>t, Zenon DEF Ready
    <2>3. ~fAllOk' => bad' # {}
      BY <1>f DEF Ready
    <2>4. \A u \in Thread : pc'[u] \in {"run", "done"} /\ ~fOk'[u] => bad' # {}
      BY <1>f, <1>p, <1>t, Zenon DEF Ready, Results
    <2>5. \A u \in Thread : pc'[u] = "done" /\ fOk'[u] => \A c \in Range(vChecks'[u]) : Passed(c)'
      BY <2>1, <1>f, <1>p, <1>q, <1>t, ZenonT(40) DEF Ready, Results
    <2>6. QED
      BY <2>2, <2>3, <2>4, <2>5, Zenon DEF Results
  <1>5. QED
    BY <1>1, <1>2, <1>3, <1>4, <1>c, Zenon

\* A critical section of thread t in Loop, up to where it gives the mutex back.
Section(t) ==
  \E todo, ok, total, idle, places :
    /\ Ready(t, todo, ok, total, idle, places)
    /\ TopOfLoop(t, todo, ok, total, idle, places)
    /\ nTodo' = todo /\ mutex' = NoThread /\ UNCHANGED <<added, bad, executed, wakeVars>>
    /\ pc[t] \notin {"outside", "adding"}
    /\ \A u \in Thread : places[u] = pc[u] \/ {places[u], pc[u]} \cap {"outside", "adding"} = {}

LEMMA SectionKeeps ==
  ASSUME IInv, NEW t \in Thread, Section(t)
  PROVE  IInv'
  BY TopOfLoopKeeps, Zenon DEF Section

\* How many threads are at some places without thread t.
LEMMA WithoutOne ==
  ASSUME NEW t \in Thread, NEW a, NEW P
  PROVE  /\ Cardinality(At(a, P)) \in Nat
         /\ Cardinality({u \in Thread \ {t} : a[u] \in P}) =
              Cardinality(At(a, P)) - (IF a[t] \in P THEN 1 ELSE 0)
  <1>1. IsFiniteSet(At(a, P)) /\ Cardinality(At(a, P)) \in Nat
    BY ThreadsFinite, Zenon DEF At
  <1>2. {u \in Thread \ {t} : a[u] \in P} = At(a, P) \ {t}
    BY Zenon DEF At
  <1>3. t \in At(a, P) <=> a[t] \in P
    BY Zenon DEF At
  <1>4. Cardinality(At(a, P) \ {t}) =
          IF t \in At(a, P) THEN Cardinality(At(a, P)) - 1 ELSE Cardinality(At(a, P))
    BY <1>1, FS_RemoveElement, Zenon
  <1>5. QED
    BY <1>1, <1>2, <1>3, <1>4

\* The pending checks are those of thread t and the others, which are apart.
LEMMA PendingSplit ==
  ASSUME Distinct, NEW t \in Thread
  PROVE  /\ Pending = Others(t) \cup Range(vChecks[t])
         /\ Others(t) \cap Range(vChecks[t]) = {}
         /\ vChecks[t] = <<>> => Others(t) = Pending
  <1>1. Pending = Others(t) \cup Range(vChecks[t])
    BY Zenon DEF Pending, Others
  <1>2. Others(t) \cap Range(vChecks[t]) = {}
    BY DEF Others, Distinct
  <1>3. Range(<<>>) = {}
    BY DEF Range
  <1>4. QED
    BY <1>1, <1>2, <1>3, Zenon

LEMMA EnterLoopIsSection ==
  ASSUME IInv, NEW t \in Thread, EnterLoop(t)
  PROVE  Section(t)
  <1> USE DEF IInv
  <1>1. /\ pc[t] = "start" /\ mutex = NoThread /\ NoThread \notin Thread
        /\ TopOfLoop(t, nTodo, fAllOk, nTotal + 1, nIdle, pc)
        /\ nTodo' = nTodo /\ mutex' = NoThread /\ UNCHANGED <<added, bad, executed, wakeVars>>
    BY QueueAssumption, Zenon DEF EnterLoop, Thread
  <1>2. Others(t) = Pending
    BY <1>1, PendingSplit, Zenon DEF Control
  <1>3. Ready(t, nTodo, fAllOk, nTotal + 1, nIdle, pc)
    <2>1. nTodo = Cardinality(Others(t)) /\ fAllOk \in BOOLEAN /\ (~fAllOk => bad # {}) /\ pc \in [Thread -> Place]
      BY <1>2, Zenon DEF Distinct, TypeOK, Results
    <2>2. /\ \A w \in Worker : pc[w] \notin {"outside", "adding"}
          /\ pc[Master] # "gone" /\ pc[t] \notin {"outside", "adding"}
          /\ \A u \in Thread \ {t} :
               /\ pc[u] # "held"
               /\ vChecks[u] = <<>> <=> pc[u] \notin {"run", "done"}
               /\ pc[u] \in {"run", "done"} => pc[u] = pc[u]
      BY <1>1, Zenon DEF Control
    <2>3. /\ nTotal + 1 = Cardinality({u \in Thread \ {t} : pc[u] \in Counted}) + 1 + Again
          /\ nIdle = Cardinality({u \in Thread \ {t} : pc[u] \in Resting}) + Again
      <3>1. /\ Cardinality({u \in Thread \ {t} : pc[u] \in Counted}) = Cardinality(At(pc, Counted))
            /\ Cardinality({u \in Thread \ {t} : pc[u] \in Resting}) = Cardinality(At(pc, Resting))
        BY <1>1, WithoutOne DEF Counted, Resting
      <3>2. Cardinality(At(pc, Counted)) \in Nat /\ Again \in Nat
        BY WithoutOne, Zenon DEF Again
      <3>3. QED
        BY <3>1, <3>2 DEF Counters
    <2>4. (t # Master /\ pc[Master] = "outside") =>
            fAllOk /\ Others(t) = {} /\ (verdict => executed = 1 .. added)
      BY <1>2, Zenon DEF Control
    <2>5. ~(t # Master /\ pc[Master] = "outside") =>
            (fAllOk => \A c \in (1 .. added) \ Others(t) : Passed(c))
      BY <1>1, <1>2, Zenon DEF Results
    <2>6. QED
      BY <2>1, <2>2, <2>3, <2>4, <2>5, Zenon DEF Ready
  <1>4. QED
    BY <1>1, <1>3, Zenon DEF Section

LEMMA ResumeIsSection ==
  ASSUME IInv, NEW t \in Thread, Resume(t)
  PROVE  Section(t)
  <1> USE DEF IInv
  <1>1. /\ pc[t] = "held" /\ mutex = t /\ NoThread \notin Thread
        /\ TopOfLoop(t, nTodo, fAllOk, nTotal, nIdle, pc)
        /\ nTodo' = nTodo /\ mutex' = NoThread /\ UNCHANGED <<added, bad, executed, wakeVars>>
    BY QueueAssumption, Zenon DEF Resume, Thread
  <1>2. Others(t) = Pending
    BY <1>1, PendingSplit, Zenon DEF Control
  <1>3. Ready(t, nTodo, fAllOk, nTotal, nIdle, pc)
    <2>1. nTodo = Cardinality(Others(t)) /\ fAllOk \in BOOLEAN /\ (~fAllOk => bad # {}) /\ pc \in [Thread -> Place]
      BY <1>2, Zenon DEF Distinct, TypeOK, Results
    <2>2. /\ \A w \in Worker : pc[w] \notin {"outside", "adding"}
          /\ pc[Master] # "gone" /\ pc[t] \notin {"outside", "adding"}
          /\ \A u \in Thread \ {t} :
               /\ pc[u] # "held"
               /\ vChecks[u] = <<>> <=> pc[u] \notin {"run", "done"}
               /\ pc[u] \in {"run", "done"} => pc[u] = pc[u]
      BY <1>1, Zenon DEF Control
    <2>3. /\ nTotal = Cardinality({u \in Thread \ {t} : pc[u] \in Counted}) + 1 + Again
          /\ nIdle = Cardinality({u \in Thread \ {t} : pc[u] \in Resting}) + Again
      <3>1. /\ Cardinality({u \in Thread \ {t} : pc[u] \in Counted}) = Cardinality(At(pc, Counted)) - 1
            /\ Cardinality({u \in Thread \ {t} : pc[u] \in Resting}) = Cardinality(At(pc, Resting))
        BY <1>1, WithoutOne DEF Counted, Resting
      <3>2. Cardinality(At(pc, Counted)) \in Nat /\ Again \in Nat
        BY WithoutOne, Zenon DEF Again
      <3>3. QED
        BY <3>1, <3>2 DEF Counters
    <2>4. (t # Master /\ pc[Master] = "outside") =>
            fAllOk /\ Others(t) = {} /\ (verdict => executed = 1 .. added)
      BY <1>2, Zenon DEF Control
    <2>5. ~(t # Master /\ pc[Master] = "outside") =>
            (fAllOk => \A c \in (1 .. added) \ Others(t) : Passed(c))
      BY <1>1, <1>2, Zenon DEF Results
    <2>6. QED
      BY <2>1, <2>2, <2>3, <2>4, <2>5, Zenon DEF Ready
  <1>4. QED
    BY <1>1, <1>3, Zenon DEF Section

LEMMA ReportIsSection ==
  ASSUME IInv, NEW t \in Thread, Report(t)
  PROVE  Section(t)
  <1> USE DEF IInv
  <1> DEFINE todo == nTodo - Len(vChecks[t])
             ok == fAllOk /\ fOk[t]
             places == IF todo = 0 /\ t # Master /\ pc[Master] = "wait"
                       THEN [pc EXCEPT ![Master] = "woken"] ELSE pc
  <1>1. /\ pc[t] = "done" /\ mutex = NoThread /\ NoThread \notin Thread /\ Master \in Thread
        /\ TopOfLoop(t, todo, ok, nTotal, nIdle, places)
        /\ nTodo' = todo /\ mutex' = NoThread /\ UNCHANGED <<added, bad, executed, wakeVars>>
    BY QueueAssumption, Zenon DEF Report, Thread
  <1>2. pc \in [Thread -> Place] /\ fAllOk \in BOOLEAN /\ fOk[t] \in BOOLEAN /\ added \in Nat
    BY DEF TypeOK
  <1>3. todo = Cardinality(Others(t))
    <2>1. vChecks[t] \in Seq(1 .. MaxChecks) /\ IsInjective(vChecks[t])
      BY Zenon DEF TypeOK, Distinct
    <2>2. IsFiniteSet(Range(vChecks[t])) /\ Cardinality(Range(vChecks[t])) = Len(vChecks[t])
      BY <2>1, DistinctElements, Zenon
    <2>3. IsFiniteSet(Pending) /\ Pending \cap Range(vChecks[t]) = Range(vChecks[t])
      BY <1>2, PendingFinite, PendingSplit, Zenon DEF Distinct
    <2>4. Others(t) = Pending \ Range(vChecks[t])
      BY PendingSplit, Zenon
    <2>5. Cardinality(Others(t)) = Cardinality(Pending) - Cardinality(Range(vChecks[t]))
      BY <2>3, <2>4, FS_Difference, Zenon
    <2>6. QED
      BY <2>2, <2>5, Zenon DEF Distinct
  <1>4. /\ places \in [Thread -> Place] /\ places[t] = "done"
        /\ \A u \in Thread : places[u] # pc[u] => u = Master /\ pc[u] = "wait" /\ places[u] = "woken"
    BY <1>1, <1>2, Zenon DEF Place
  <1>5. pc[Master] # "outside"
    <2>1. Range(vChecks[t]) # {}
      <3>1. vChecks[t] # <<>> /\ vChecks[t] \in Seq(1 .. MaxChecks)
        BY <1>1, Zenon DEF Control, TypeOK
      <3>2. QED
        BY <3>1, NonEmptyRange, Zenon
    <2>2. QED
      BY <2>1, PendingSplit, Zenon DEF Control
  <1> HIDE DEF todo, places
  <1>6. Ready(t, todo, ok, nTotal, nIdle, places)
    <2>1. ok \in BOOLEAN /\ (~ok => bad # {})
      BY <1>1, <1>2, Zenon DEF Results
    <2>2. /\ \A w \in Worker : places[w] \notin {"outside", "adding"}
          /\ places[Master] # "gone" /\ places[t] \notin {"outside", "adding"}
          /\ \A u \in Thread \ {t} :
               /\ places[u] # "held"
               /\ vChecks[u] = <<>> <=> places[u] \notin {"run", "done"}
               /\ places[u] \in {"run", "done"} => places[u] = pc[u]
      BY <1>1, <1>4, Zenon DEF Control, Thread
    <2>3. /\ nTotal = Cardinality({u \in Thread \ {t} : places[u] \in Counted}) + 1 + Again
          /\ nIdle = Cardinality({u \in Thread \ {t} : places[u] \in Resting}) + Again
      <3>1. At(places, Counted) = At(pc, Counted) /\ At(places, Resting) = At(pc, Resting)
        BY <1>4, Zenon DEF At, Counted, Resting
      <3>2. places[t] \in Counted /\ places[t] \notin Resting
        BY <1>4, Zenon DEF Counted, Resting
      <3>3. /\ Cardinality({u \in Thread \ {t} : places[u] \in Counted}) = Cardinality(At(pc, Counted)) - 1
            /\ Cardinality({u \in Thread \ {t} : places[u] \in Resting}) = Cardinality(At(pc, Resting)) - 0
        BY <3>1, <3>2, WithoutOne
      <3>4. Cardinality(At(pc, Counted)) \in Nat /\ Cardinality(At(pc, Resting)) \in Nat /\ Again \in Nat
        BY WithoutOne, Zenon DEF Again
      <3>5. QED
        BY <3>3, <3>4 DEF Counters
    <2>4. places[Master] # "outside"
      BY <1>1, <1>4, <1>5, Zenon
    <2>5. ok => \A c \in (1 .. added) \ Others(t) : Passed(c)
      BY <1>1, <1>5, PendingSplit, Zenon DEF Results
    <2>6. QED
      BY <2>1, <2>2, <2>3, <2>4, <2>5, <1>3, <1>4, Zenon DEF Ready
  <1>7. QED
    BY <1>1, <1>4, <1>6 DEF Section

LEMMA ExecuteKeeps ==
  ASSUME IInv, NEW t \in Thread, Execute(t)
  PROVE  IInv'
  <1> USE DEF IInv
  <1> DEFINE called == {i \in DOMAIN vChecks[t] :
                          fOk[t] /\ \A j \in 1 .. (i - 1) : vChecks[t][j] \notin bad}
             new == {vChecks[t][i] : i \in called}
             clean == \A i \in DOMAIN vChecks[t] : vChecks[t][i] \notin bad
  <1>1. /\ pc[t] = "run" /\ pc' = [pc EXCEPT ![t] = "done"]
        /\ executed' = executed \cup new
        /\ fOk' = [fOk EXCEPT ![t] = @ /\ clean]
        /\ UNCHANGED <<queue, nIdle, nTotal, nTodo, fAllOk, mutex, vChecks, added, bad, verdict, wakeVars>>
    BY Zenon DEF Execute
  <1>2. pc \in [Thread -> Place] /\ fOk \in [Thread -> BOOLEAN] /\ vChecks[t] \in Seq(1 .. MaxChecks)
    BY Zenon DEF TypeOK
  <1>3. /\ new \subseteq Range(vChecks[t])
        /\ fOk[t] /\ clean => new = Range(vChecks[t])
        /\ clean <=> Range(vChecks[t]) \cap bad = {}
    <2>1. DOMAIN vChecks[t] = 1 .. Len(vChecks[t]) /\ Len(vChecks[t]) \in Nat
      BY <1>2, LenProperties, Zenon
    <2>2. new \subseteq Range(vChecks[t])
      BY Zenon DEF Range
    <2>3. fOk[t] /\ clean => called = DOMAIN vChecks[t]
      BY <2>1
    <2>4. clean <=> Range(vChecks[t]) \cap bad = {}
      BY Zenon DEF Range
    <2> HIDE DEF clean
    <2>5. QED
      BY <2>2, <2>3, <2>4, Zenon DEF Range
  <1> HIDE DEF new, clean
  <1>4. clean \in BOOLEAN
    BY Zenon DEF clean
  <1>5. Pending' = Pending /\ pc'[Master] # "outside" /\ pc[Master] # "outside"
    <2>1. Pending' = Pending
      BY <1>1, Zenon DEF Pending
    <2>2. Range(vChecks[t]) # {}
      <3>1. vChecks[t] # <<>> /\ vChecks[t] \in Seq(1 .. MaxChecks)
        BY <1>1, <1>2, Zenon DEF Control
      <3>2. QED
        BY <3>1, NonEmptyRange, Zenon
    <2>3. Pending # {}
      BY <2>2, PendingSplit, Zenon
    <2>4. pc[Master] # "outside"
      BY <2>3, Zenon DEF Control
    <2>5. QED
      BY <2>1, <2>4, <1>1, <1>2
  <1>6. TypeOK'
    <2>1. new \subseteq 1 .. added
      BY <1>3, PendingSplit, Zenon DEF Distinct
    <2>2. QED
      BY <2>1, <1>1, <1>2, <1>4, Zenon DEF TypeOK, Place, wakeVars
  <1>7. Control'
    <2>1. \A u \in Thread :
            /\ (pc'[u] = "held") <=> (pc[u] = "held")
            /\ (pc'[u] \notin {"run", "done"}) <=> (pc[u] \notin {"run", "done"})
            /\ pc'[u] \in {"outside", "adding", "gone"} => pc'[u] = pc[u]
      BY <1>1, <1>2, Zenon
    <2>2. mutex' = mutex /\ vChecks' = vChecks /\ Master \in Thread /\ Worker \subseteq Thread
      BY <1>1, Zenon DEF Thread
    <2>3. QED
      BY <2>1, <2>2, <1>5, Zenon DEF Control
  <1>8. Counters'
    <2>1. At(pc', Counted) = At(pc, Counted) /\ At(pc', Resting) = At(pc, Resting)
      BY <1>1, <1>2, Zenon DEF At, Counted, Resting
    <2>2. QED
      BY <2>1, <1>1, Zenon DEF Counters, Again, wakeVars
  <1>9. Distinct'
    <2>1. \A u \in Thread \ {t} : Range(vChecks[u]) \cap new = {}
      BY <1>3, Zenon DEF Distinct
    <2>2. Range(queue) \cap new = {}
      BY <1>3, Zenon DEF Distinct
    <2>3. QED
      BY <2>1, <2>2, <1>1, <1>2, <1>5, Zenon DEF Distinct
  <1>10. Results'
    <2>1. \A c : Passed(c) => Passed(c)'
      BY <1>1, Zenon DEF Passed
    <2>2. fAllOk' => \A c \in (1 .. added') \ Pending' : Passed(c)'
      BY <2>1, <1>1, <1>5, Zenon DEF Results
    <2>3. \A u \in Thread : pc'[u] \in {"run", "done"} /\ ~fOk'[u] => bad' # {}
      BY <1>1, <1>2, <1>3, <1>4, Zenon DEF Results
    <2>4. ASSUME fOk'[t], NEW c \in Range(vChecks[t]) PROVE Passed(c)'
      <3>1. fOk[t] /\ clean
        BY <2>4, <1>1, <1>2, <1>4, Zenon
      <3>2. QED
        BY <3>1, <1>1, <1>3, Zenon DEF Passed
    <2>5. \A u \in Thread : pc'[u] = "done" /\ fOk'[u] => \A c \in Range(vChecks'[u]) : Passed(c)'
      BY <2>1, <2>4, <1>1, <1>2, Zenon DEF Results
    <2>6. ~fAllOk' => bad' # {}
      BY <1>1, Zenon DEF Results
    <2>7. QED
      BY <2>2, <2>3, <2>5, <2>6, Zenon DEF Results
  <1>11. QED
    BY <1>6, <1>7, <1>8, <1>9, <1>10, Zenon

-----------------------------------------------------------------------------
\* Threads that move without the mutex, and without beginning or ending a batch.
LEMMA MoveKeeps ==
  ASSUME IInv, pc' \in [Thread -> Place],
         \A u \in Thread : pc'[u] # pc[u] =>
           /\ {pc[u], pc'[u]} \cap {"run", "done", "held", "outside"} = {}
           /\ pc'[u] \notin {"gone", "adding"} \/ (pc'[u] = "gone" /\ u # Master),
         fInterrupted' \in BOOLEAN, nSpurious' \in 0 .. MaxSpurious, Counters',
         UNCHANGED <<queue, nIdle, nTotal, nTodo, fAllOk, mutex, vChecks, fOk, added, bad, executed, verdict>>
  PROVE  IInv'
  <1> USE DEF IInv
  <1>1. Pending' = Pending
    BY Zenon DEF Pending
  <1>2. TypeOK'
    BY Zenon DEF TypeOK
  <1>3. Master \in Thread /\ \A w \in Worker : w \in Thread
    BY Zenon DEF Thread
  <1>4. Control'
    BY <1>1, <1>3, Zenon DEF Control
  <1>5. Distinct'
    BY <1>1, Zenon DEF Distinct
  <1>6. Results'
    BY <1>1, <1>3, Zenon DEF Results, Passed
  <1>7. QED
    BY <1>2, <1>4, <1>5, <1>6, Zenon

LEMMA WaitKeeps ==
  ASSUME IInv, Wait
  PROVE  IInv'
  <1>1. pc \in [Thread -> Place] /\ Master \in Thread
    BY Zenon DEF IInv, TypeOK, Thread
  <1>2. At(pc', Counted) = At(pc, Counted) /\ At(pc', Resting) = At(pc, Resting)
    BY <1>1, Zenon DEF Wait, At, Counted, Resting
  <1>3. Counters'
    BY <1>2, Zenon DEF IInv, Counters, Wait, Again, wakeVars
  <1>4. pc' = [pc EXCEPT ![Master] = "start"] /\ pc[Master] = "adding"
    BY Zenon DEF Wait
  <1>5. fInterrupted' \in BOOLEAN /\ nSpurious' \in 0 .. MaxSpurious
    BY Zenon DEF IInv, TypeOK, Wait, wakeVars
  <1>6. QED
    BY <1>1, <1>3, <1>4, <1>5, MoveKeeps, Zenon DEF Wait, Place

LEMMA SpuriousWakeKeeps ==
  ASSUME IInv, NEW t \in Thread, SpuriousWake(t)
  PROVE  IInv'
  <1>1. pc \in [Thread -> Place]
    BY Zenon DEF IInv, TypeOK
  <1>2. At(pc', Counted) = At(pc, Counted) /\ At(pc', Resting) = At(pc, Resting)
    BY <1>1, Zenon DEF SpuriousWake, At, Counted, Resting
  <1>3. Counters'
    BY <1>2, Zenon DEF IInv, Counters, SpuriousWake, Again
  <1>4. pc' = [pc EXCEPT ![t] = "woken"] /\ pc[t] = "wait"
    BY Zenon DEF SpuriousWake
  <1>5. fInterrupted' \in BOOLEAN /\ nSpurious' \in 0 .. MaxSpurious
    BY QueueAssumption DEF IInv, TypeOK, SpuriousWake
  <1>6. QED
    BY <1>1, <1>3, <1>4, <1>5, MoveKeeps, Zenon DEF SpuriousWake, Place

LEMMA InterruptKeeps ==
  ASSUME IInv, NEW w \in Worker, Interrupt(w)
  PROVE  IInv'
  <1>1. pc \in [Thread -> Place] /\ w \in Thread /\ w # Master
    BY QueueAssumption, Zenon DEF IInv, TypeOK, Thread
  <1>2. At(pc', Counted) = At(pc, Counted) /\ At(pc', Resting) = At(pc, Resting)
    BY <1>1, Zenon DEF Interrupt, At, Counted, Resting
  <1>3. Counters'
    BY <1>2, Zenon DEF IInv, Counters, Interrupt, Again, wakeVars
  <1>4. pc' = [pc EXCEPT ![w] = "gone"] /\ pc[w] = "wait"
    BY Zenon DEF Interrupt
  <1>5. fInterrupted' \in BOOLEAN /\ nSpurious' \in 0 .. MaxSpurious
    BY Zenon DEF IInv, TypeOK, Interrupt, wakeVars
  <1>6. QED
    BY <1>1, <1>3, <1>4, <1>5, MoveKeeps, Zenon DEF Interrupt, Place

\* The master leaves nTotal and nIdle one too high, once.
LEMMA InterruptMasterKeeps ==
  ASSUME IInv, InterruptMaster
  PROVE  IInv'
  <1>1. pc \in [Thread -> Place] /\ Master \in Thread
    BY Zenon DEF IInv, TypeOK, Thread
  <1>2. pc' = [pc EXCEPT ![Master] = "start"] /\ pc[Master] = "wait" /\ Again' = 1 /\ Again = 0
    BY Zenon DEF InterruptMaster, Again
  <1>3. pc' \in [Thread -> Place]
    BY <1>1, <1>2, Zenon DEF Place
  <1>4. ASSUME NEW P, "wait" \in P, "start" \notin P
        PROVE  Cardinality(At(pc', P)) = Cardinality(At(pc, P)) - 1 /\ Cardinality(At(pc, P)) \in Nat
    <2>1. \A u \in Thread \ {Master} : (pc[u] \in P) <=> (pc'[u] \in P)
      BY <1>1, <1>2, Zenon
    <2>2. pc[Master] \in P /\ pc'[Master] \notin P
      BY <1>1, <1>2, <1>4, Zenon
    <2>3. QED
      BY <2>1, <2>2, <1>1, <1>3, OneMoves
  <1>5. /\ Cardinality(At(pc', Counted)) = Cardinality(At(pc, Counted)) - 1
        /\ Cardinality(At(pc', Resting)) = Cardinality(At(pc, Resting)) - 1
        /\ Cardinality(At(pc, Counted)) \in Nat /\ Cardinality(At(pc, Resting)) \in Nat
    BY <1>4, Zenon DEF Counted, Resting
  <1>6. Counters'
    BY <1>2, <1>5 DEF IInv, Counters, InterruptMaster
  <1>7. fInterrupted' \in BOOLEAN /\ nSpurious' \in 0 .. MaxSpurious
    BY Zenon DEF IInv, TypeOK, InterruptMaster
  <1>8. QED
    BY <1>1, <1>2, <1>3, <1>6, <1>7, MoveKeeps, Zenon DEF InterruptMaster

LEMMA ReacquireKeeps ==
  ASSUME IInv, NEW t \in Thread, Reacquire(t)
  PROVE  IInv'
  <1> USE DEF IInv
  <1>1. /\ pc[t] = "woken" /\ mutex = NoThread /\ mutex' = t
        /\ pc' = [pc EXCEPT ![t] = "held"] /\ nIdle' = nIdle - 1
        /\ pc \in [Thread -> Place] /\ NoThread \notin Thread /\ Master \in Thread
    BY QueueAssumption, Zenon DEF Reacquire, TypeOK, Thread
  <1>2. Pending' = Pending /\ Again' = Again
    BY Zenon DEF Pending, Again, Reacquire, wakeVars
  <1>3. pc' \in [Thread -> Place]
    BY <1>1, Zenon DEF Place
  <1>4. At(pc', Counted) = At(pc, Counted)
    BY <1>1, Zenon DEF At, Counted
  <1>5. Cardinality(At(pc', Resting)) = Cardinality(At(pc, Resting)) - 1 /\ Cardinality(At(pc, Resting)) \in Nat
    <2>1. ASSUME NEW P, "woken" \in P, "held" \notin P
          PROVE  Cardinality(At(pc', P)) = Cardinality(At(pc, P)) - 1 /\ Cardinality(At(pc, P)) \in Nat
      <3>1. \A u \in Thread \ {t} : (pc[u] \in P) <=> (pc'[u] \in P)
        BY <1>1, Zenon
      <3>2. pc[t] \in P /\ pc'[t] \notin P
        BY <1>1, <2>1, Zenon
      <3>3. pc \in [Thread -> Place]
        BY <1>1, Zenon
      <3> HIDE DEF IInv
      <3>4. QED
        BY <3>1, <3>2, <3>3, <1>3, OneMoves
    <2>2. QED
      BY <2>1, Zenon DEF Resting
  <1>6. Counters'
    BY <1>1, <1>2, <1>4, <1>5 DEF Counters, Reacquire, Again
  <1>7. TypeOK'
    <2>1. nIdle' \in 0 .. Cardinality(Thread) + 1
      <3>1. Cardinality(At(pc', Resting)) \in Nat /\ Again \in Nat
        BY ThreadsFinite, Zenon DEF At, Again
      <3>2. nIdle' >= 0
        BY <3>1, <1>2, <1>6 DEF Counters
      <3>3. Cardinality(Thread) \in Nat /\ nIdle \in Int /\ nIdle <= Cardinality(Thread) + 1
        BY ThreadsFinite DEF TypeOK
      <3>4. QED
        BY <3>2, <3>3, <1>1
    <2>2. QED
      BY <2>1, <1>1, <1>3, Zenon DEF TypeOK, Reacquire, wakeVars
  <1>8. Control'
    BY <1>1, <1>2 DEF Control, Reacquire
  <1>9. Distinct'
    BY <1>1, <1>2, Zenon DEF Distinct, Reacquire
  <1>10. Results'
    BY <1>1, <1>2, Zenon DEF Results, Passed, Reacquire
  <1>11. QED
    BY <1>6, <1>7, <1>8, <1>9, <1>10, Zenon

LEMMA BeginKeeps ==
  ASSUME IInv, Begin
  PROVE  IInv'
  <1> USE DEF IInv
  <1>1. /\ pc[Master] = "outside" /\ pc' = [pc EXCEPT ![Master] = "adding"]
        /\ added' = 0 /\ bad' = {} /\ executed' = {}
        /\ pc \in [Thread -> Place] /\ Master \in Thread /\ Master \notin Worker
    BY QueueAssumption, Zenon DEF Begin, TypeOK, Thread
  <1>2. Pending' = Pending /\ Pending = {} /\ fAllOk
    BY <1>1 DEF Pending, Begin, Control
  <1>3. At(pc', Counted) = At(pc, Counted) /\ At(pc', Resting) = At(pc, Resting)
    BY <1>1, Zenon DEF At, Counted, Resting
  <1>4. TypeOK'
    BY <1>1, QueueAssumption DEF TypeOK, Begin, wakeVars, Place
  <1>5. Control'
    BY <1>1, <1>2 DEF Control, Begin
  <1>6. Counters'
    BY <1>3, Zenon DEF Counters, Begin, Again, wakeVars
  <1>7. Distinct'
    BY <1>1, <1>2, Zenon DEF Distinct, Begin
  <1>8. Results'
    <2>1. \A t \in Thread : pc'[t] \notin {"run", "done"}
      <3>1. \A t \in Thread : Range(vChecks[t]) = {}
        BY <1>2, Zenon DEF Pending
      <3>2. \A t \in Thread : vChecks[t] = <<>>
        BY <3>1, NonEmptyRange, Zenon DEF TypeOK
      <3>3. QED
        BY <3>2, <1>1, Zenon DEF Control
    <2>2. fAllOk' /\ (1 .. added') = {}
      BY <1>1, <1>2 DEF Begin
    <2>3. QED
      BY <2>1, <2>2, Zenon DEF Results
  <1>9. QED
    BY <1>4, <1>5, <1>6, <1>7, <1>8, Zenon

\* The new checks are none of the old ones, and each of them is counted.
LEMMA AddKeeps ==
  ASSUME IInv, NEW n \in 1 .. MaxChecks, Add(n)
  PROVE  IInv'
  <1> USE DEF IInv
  <1> DEFINE new == [i \in 1 .. n |-> added + i]
  <1>1. /\ pc[Master] = "adding" /\ mutex = NoThread /\ NoThread \notin Thread /\ Master \in Thread
        /\ added + n <= MaxChecks /\ added' = added + n /\ nTodo' = nTodo + n
        /\ queue' = queue \o new
        /\ UNCHANGED <<nIdle, nTotal, fAllOk, mutex, vChecks, fOk, executed, verdict, wakeVars>>
    BY QueueAssumption, Zenon DEF Add, Thread
  <1>2. PICK woken \in SUBSET {w \in Worker : pc[w] = "wait"} :
          pc' = [t \in Thread |-> IF t \in woken THEN "woken" ELSE pc[t]]
    BY ZenonT(30) DEF Add, Notified
  <1>3. bad \subseteq bad' /\ bad' \subseteq bad \cup ((added + 1) .. (added + n))
    BY Zenon DEF Add
  <1>4. /\ pc \in [Thread -> Place] /\ added \in Nat /\ n \in Nat /\ MaxChecks \in Nat
        /\ queue \in Seq(1 .. MaxChecks) /\ bad \subseteq 1 .. added /\ executed \subseteq 1 .. added
    BY QueueAssumption DEF TypeOK
  <1>5. /\ pc' \in [Thread -> Place]
        /\ \A u \in Thread : pc'[u] # pc[u] => u \in Worker /\ pc[u] = "wait" /\ pc'[u] = "woken"
    BY <1>2, <1>4, Zenon DEF Place
  <1>6. /\ queue' \in Seq(1 .. MaxChecks)
        /\ Range(queue') = Range(queue) \cup ((added + 1) .. (added + n))
        /\ IsInjective(queue')
    <2>1. new \in Seq(1 .. MaxChecks) /\ Len(new) = n /\ DOMAIN new = 1 .. n /\ \A i \in 1 .. n : new[i] = added + i
      BY <1>1, <1>4
    <2> HIDE DEF new
    <2>2. Len(queue) \in Nat /\ DOMAIN queue = 1 .. Len(queue)
      BY <1>4, LenProperties, Zenon
    <2>3. /\ queue' \in Seq(1 .. MaxChecks) /\ Len(queue') = Len(queue) + n
          /\ \A i \in 1 .. Len(queue) + n : queue'[i] = IF i <= Len(queue) THEN queue[i] ELSE new[i - Len(queue)]
      <3>1. /\ queue \o new \in Seq(1 .. MaxChecks) /\ Len(queue \o new) = Len(queue) + Len(new)
            /\ \A i \in 1 .. Len(queue) + Len(new) :
                 (queue \o new)[i] = IF i <= Len(queue) THEN queue[i] ELSE new[i - Len(queue)]
        BY <2>1, <1>4, ConcatProperties, Zenon
      <3>2. QED
        BY <3>1, <2>1, <1>1, Zenon
    <2>4. DOMAIN queue' = 1 .. Len(queue) + n
      BY <2>3, LenProperties, Zenon
    <2>5. \A i \in 1 .. Len(queue) : i \in 1 .. Len(queue) + n /\ queue'[i] = queue[i]
      BY <2>2, <2>3, <1>4
    <2>6. \A i \in 1 .. Len(queue) + n : i > Len(queue) =>
            i - Len(queue) \in 1 .. n /\ queue'[i] = added + (i - Len(queue))
      BY <2>1, <2>2, <2>3, <1>4, SMTT(30)
    <2>7. ASSUME NEW c \in (added + 1) .. (added + n) PROVE c \in Range(queue')
      <3>1. Len(queue) + (c - added) \in 1 .. Len(queue) + n /\ Len(queue) + (c - added) > Len(queue)
        BY <2>2, <1>4
      <3>2. queue'[Len(queue) + (c - added)] = c
        BY <3>1, <2>2, <2>6, <1>4, SMTT(40)
      <3>3. QED
        BY <3>1, <3>2, <2>4, Zenon DEF Range
    <2>8. Range(queue) \subseteq Range(queue')
      BY <2>2, <2>4, <2>5, Zenon DEF Range
    <2>9. ASSUME NEW i \in 1 .. Len(queue) + n
          PROVE  queue'[i] \in Range(queue) \cup ((added + 1) .. (added + n))
      <3>1. CASE i <= Len(queue)
        BY <3>1, <2>2, <2>5 DEF Range
      <3>2. CASE i > Len(queue)
        BY <3>2, <2>2, <2>6, <1>4
      <3>3. QED
        BY <3>1, <3>2, <2>2
    <2>10. Range(queue') = Range(queue) \cup ((added + 1) .. (added + n))
      BY <2>4, <2>7, <2>8, <2>9, Zenon DEF Range
    <2>11. Range(queue) \subseteq 1 .. added
      BY Zenon DEF Distinct, Pending
    <2>12. ASSUME NEW i \in 1 .. Len(queue) + n, NEW j \in 1 .. Len(queue) + n, queue'[i] = queue'[j]
           PROVE  i = j
      <3>1. CASE i <= Len(queue) /\ j <= Len(queue)
        <4>1. i \in 1 .. Len(queue) /\ j \in 1 .. Len(queue) /\ queue[i] = queue[j]
          BY <3>1, <2>2, <2>5, <2>12
        <4>2. QED
          BY <4>1, <2>2, Zenon DEF Distinct, IsInjective
      <3>2. CASE i > Len(queue) /\ j > Len(queue)
        BY <3>2, <2>2, <2>6, <2>12, <1>4
      <3>3. ASSUME NEW k \in 1 .. Len(queue) + n, NEW l \in 1 .. Len(queue) + n,
                   k <= Len(queue), l > Len(queue)
            PROVE  queue'[k] # queue'[l]
        <4>1. queue'[k] \in 1 .. added
          BY <3>3, <2>2, <2>5, <2>11 DEF Range
        <4>2. queue'[l] > added
          BY <3>3, <2>2, <2>6, <1>4
        <4>3. QED
          BY <4>1, <4>2, <1>4
      <3>4. QED
        BY <3>1, <3>2, <3>3, <2>2, <2>12
    <2>13. QED
      BY <2>3, <2>4, <2>10, <2>12, Zenon DEF IsInjective
  <1> HIDE DEF new
  <1>7. /\ Pending' = Pending \cup ((added + 1) .. (added + n))
        /\ Pending \cap ((added + 1) .. (added + n)) = {}
    <2>1. Pending' = Pending \cup ((added + 1) .. (added + n))
      BY <1>1, <1>6, Zenon DEF Pending
    <2>2. QED
      BY <2>1, <1>4 DEF Distinct
  <1>8. Cardinality(Pending') = Cardinality(Pending) + n /\ Pending' \subseteq 1 .. added' /\ Cardinality(Pending') <= added'
    <2>1. IsFiniteSet(Pending) /\ Cardinality(Pending) \in Nat /\ Cardinality(Pending) <= added
      BY <1>4, PendingFinite, Zenon DEF Distinct
    <2>2. IsFiniteSet((added + 1) .. (added + n)) /\ Cardinality((added + 1) .. (added + n)) = n
      <3>1. added + 1 \in Int /\ added + n \in Int /\ ~(added + 1 > added + n) /\ (added + n) - (added + 1) + 1 = n
        BY <1>4
      <3>2. QED
        BY <3>1, FS_Interval, Zenon
    <2>3. Cardinality(Pending') = Cardinality(Pending) + n - Cardinality({})
      <3> DEFINE I == (added + 1) .. (added + n)
      <3>1. IsFiniteSet(I) /\ Cardinality(I) = n /\ Pending' = Pending \cup I /\ Pending \cap I = {}
        BY <2>2, <1>7, Zenon
      <3> HIDE DEF I
      <3>2. Cardinality(Pending \cup I) = Cardinality(Pending) + Cardinality(I) - Cardinality(Pending \cap I)
        BY <2>1, <3>1, FS_Union, Zenon
      <3>3. QED
        BY <3>1, <3>2, Zenon
    <2>4. Cardinality({}) = 0
      BY FS_EmptySet, Zenon
    <2>5. QED
      BY <2>1, <2>3, <2>4, <1>1, <1>4, <1>7 DEF Distinct
  <1>9. TypeOK'
    <2>1. bad' \subseteq 1 .. added' /\ executed' \subseteq 1 .. added'
      BY <1>1, <1>3, <1>4
    <2>2. nTodo' \in 0 .. MaxChecks
      BY <1>1, <1>4, <1>8, PendingFinite DEF Distinct
    <2>3. QED
      BY <2>1, <2>2, <1>1, <1>4, <1>5, <1>6 DEF TypeOK, wakeVars
  <1>10. Control'
    BY <1>1, <1>5, Zenon DEF Control, Thread
  <1>11. Counters'
    <2>1. At(pc', Counted) = At(pc, Counted) /\ At(pc', Resting) = At(pc, Resting)
      BY <1>5, Zenon DEF At, Counted, Resting
    <2>2. QED
      BY <2>1, <1>1, Zenon DEF Counters, Again, wakeVars
  <1>12. Distinct'
    <2>1. \A t \in Thread : Range(vChecks[t]) \subseteq Pending
      BY Zenon DEF Pending
    <2>2. ((added + 1) .. (added + n)) \cap executed = {}
      BY <1>4
    <2>3. QED
      BY <2>1, <2>2, <1>1, <1>5, <1>6, <1>7, <1>8, Zenon DEF Distinct
  <1>13. Results'
    <2>1. \A c \in 1 .. added : Passed(c) => Passed(c)'
      BY <1>1, <1>3, <1>4 DEF Passed
    <2>2. \A c \in (1 .. added') \ Pending' : c \in (1 .. added) \ Pending
      BY <1>1, <1>4, <1>7
    <2>3. \A t \in Thread : Range(vChecks[t]) \subseteq 1 .. added
      BY Zenon DEF Distinct, Pending
    <2>4. QED
      BY <2>1, <2>2, <2>3, <1>1, <1>3, <1>5, Zenon DEF Results
  <1>14. QED
    BY <1>9, <1>10, <1>11, <1>12, <1>13, Zenon

-----------------------------------------------------------------------------
LEMMA InitIInv == Init => IInv
  <1> SUFFICES ASSUME Init PROVE IInv
    BY Zenon
  <1>1. Range(<<>>) = {} /\ IsInjective(<<>>) /\ <<>> \in Seq(1 .. MaxChecks)
    BY EmptySeq DEF Range, IsInjective
  <1>2. Master \in Thread /\ Master \notin Worker /\ Worker \subseteq Thread /\ NoThread \notin Thread
    BY QueueAssumption, Zenon DEF Thread
  <1>3. Pending = {}
    BY <1>1, Zenon DEF Init, Pending
  <1>4. At(pc, Counted) = {} /\ At(pc, Resting) = {} /\ Cardinality({}) = 0
    BY FS_EmptySet, Zenon DEF Init, At, Counted, Resting
  <1>5. Counters
    <2>1. nTotal = 0 /\ nIdle = 0 /\ Again = 0
      BY Zenon DEF Init, Again
    <2>2. QED
      BY <2>1, <1>4 DEF Counters
  <1>6. 0 \in 0 .. Cardinality(Thread) + 1
    BY ThreadsFinite
  <1>7. TypeOK
    <2>1. pc \in [Thread -> Place] /\ vChecks \in [Thread -> Seq(1 .. MaxChecks)] /\ fOk \in [Thread -> BOOLEAN]
      BY <1>1, Zenon DEF Init, Place
    <2>2. queue \in Seq(1 .. MaxChecks) /\ mutex \in Thread \cup {NoThread}
      BY <1>1, Zenon DEF Init
    <2>3. nIdle \in 0 .. Cardinality(Thread) + 1 /\ nTotal \in 0 .. Cardinality(Thread) + 1
      BY <1>6, Zenon DEF Init
    <2>4. nTodo \in 0 .. MaxChecks /\ added \in 0 .. MaxChecks /\ nSpurious \in 0 .. MaxSpurious
      BY QueueAssumption DEF Init
    <2>5. fAllOk \in BOOLEAN /\ verdict \in BOOLEAN /\ fInterrupted \in BOOLEAN
      BY Zenon DEF Init
    <2>6. bad \subseteq 1 .. added /\ executed \subseteq 1 .. added
      BY Zenon DEF Init
    <2>7. QED
      BY <2>1, <2>2, <2>3, <2>4, <2>5, <2>6, Zenon DEF TypeOK
  <1>8. Control
    BY <1>2, <1>3 DEF Init, Control
  <1>9. Distinct
    BY <1>1, <1>3, <1>4, Zenon DEF Init, Distinct
  <1>10. Results
    BY <1>2, Zenon DEF Init, Results
  <1>11. QED
    BY <1>5, <1>7, <1>8, <1>9, <1>10, Zenon DEF IInv

LEMMA StepIInv == IInv /\ [Next]_vars => IInv'
  <1> SUFFICES ASSUME IInv, [Next]_vars PROVE IInv'
    BY Zenon
  <1>1. CASE Begin
    BY <1>1, BeginKeeps, Zenon
  <1>2. ASSUME NEW n \in 1 .. MaxChecks, Add(n) PROVE IInv'
    BY <1>2, AddKeeps, Zenon
  <1>3. CASE Wait
    BY <1>3, WaitKeeps, Zenon
  <1>4. ASSUME NEW t \in Thread, Loop(t) PROVE IInv'
    BY <1>4, EnterLoopIsSection, ReportIsSection, ResumeIsSection, SectionKeeps, ExecuteKeeps, ReacquireKeeps, Zenon DEF Loop
  <1>5. ASSUME NEW t \in Thread, SpuriousWake(t) PROVE IInv'
    BY <1>5, SpuriousWakeKeeps, Zenon
  <1>6. ASSUME NEW w \in Worker, Interrupt(w) PROVE IInv'
    BY <1>6, InterruptKeeps, Zenon
  <1>7. CASE InterruptMaster
    BY <1>7, InterruptMasterKeeps, Zenon
  <1>8. CASE UNCHANGED vars
    <2>1. UNCHANGED <<queue, nIdle, nTotal, nTodo, fAllOk, mutex, pc, vChecks, fOk, added, bad,
                      executed, verdict, fInterrupted, nSpurious>>
      BY <1>8, Zenon DEF vars
    <2>2. Pending' = Pending /\ Again' = Again
      BY <2>1, Zenon DEF Pending, Again
    <2>3. TypeOK' /\ Control' /\ Counters'
      BY <2>1, <2>2, Zenon DEF IInv, TypeOK, Control, Counters
    <2>4. Distinct' /\ Results'
      BY <2>1, <2>2, Zenon DEF IInv, Distinct, Results, Passed
    <2>5. QED
      BY <2>3, <2>4, Zenon DEF IInv
  <1>9. QED
    BY <1>1, <1>2, <1>3, <1>4, <1>5, <1>6, <1>7, <1>8, Zenon DEF Next

\* The inductive invariant: control, counters, places of the checks and results.
THEOREM Invariance == Spec => []IInv
  BY InitIInv, StepIInv, PTL DEF Spec

\* nTodo counts the checks in the queue and in the batches of all threads, and no
\* check is in two places: Loop and Add of CCheckQueue, for any number of workers.
THEOREM TodoIsExact == Spec => []TodoExact
  <1>1. IInv => TodoExact
    BY DEF IInv, Distinct, TodoExact
  <1>2. QED
    BY <1>1, Invariance, PTL

\* What the constructor of CCheckQueueControl asserts: between blocks the queue is
\* unused, also when waiting threads were interrupted; a block whose Wait returned
\* true had all its checks called.
THEOREM UnusedBetweenBlocks == Spec => []UnusedBetween
  <1>1. ASSUME IInv PROVE UnusedBetween
    <2> USE DEF IInv
    <2> SUFFICES ASSUME pc[Master] = "outside", mutex = NoThread
                 PROVE  /\ queue = <<>> /\ nTodo = 0 /\ fAllOk
                        /\ nTotal = nIdle
                        /\ \A t \in Thread : vChecks[t] = <<>>
                        /\ verdict => executed = 1 .. added
      BY Zenon DEF UnusedBetween
    <2>1. fAllOk /\ Pending = {} /\ (verdict => executed = 1 .. added)
      BY <1>1, Zenon DEF Control
    <2>2. nTodo = 0
      BY <1>1, <2>1, FS_EmptySet, Zenon DEF Distinct
    <2>3. queue = <<>> /\ \A t \in Thread : vChecks[t] = <<>>
      <3>1. Range(queue) = {} /\ \A t \in Thread : Range(vChecks[t]) = {}
        BY <2>1, Zenon DEF Pending
      <3>2. queue \in Seq(1 .. MaxChecks) /\ \A t \in Thread : vChecks[t] \in Seq(1 .. MaxChecks)
        BY <1>1, Zenon DEF TypeOK
      <3>3. QED
        BY <3>1, <3>2, NonEmptyRange, Zenon
    <2>4. At(pc, Counted) = At(pc, Resting)
      <3>1. \A t \in Thread : pc[t] \notin {"run", "done", "held"}
        BY <1>1, <2>3, QueueAssumption, Zenon DEF Control, Thread
      <3>2. QED
        BY <3>1, Zenon DEF At, Counted, Resting
    <2>5. QED
      BY <1>1, <2>1, <2>2, <2>3, <2>4, Zenon DEF Counters
  <1>2. QED
    BY <1>1, Invariance, PTL

-----------------------------------------------------------------------------
\* The phase of BlockCheck, by the place of the master.
LEMMA PhaseFacts ==
  /\ pc[Master] = "outside" => Phase = "closed"
  /\ pc[Master] = "adding" => Phase = "open"
  /\ pc[Master] \notin {"outside", "adding"} => Phase = "waiting"
  BY Zenon DEF Phase

\* A critical section of Loop does not show in BlockCheck, unless the master returns:
\* then the result is right.
LEMMA TopOfLoopRefines ==
  ASSUME IInv, NEW t \in Thread, NEW todo, NEW ok, NEW total, NEW idle, NEW places,
         Ready(t, todo, ok, total, idle, places),
         pc[t] \notin {"outside", "adding"},
         \A u \in Thread : places[u] = pc[u] \/ {places[u], pc[u]} \cap {"outside", "adding"} = {},
         TopOfLoop(t, todo, ok, total, idle, places),
         UNCHANGED <<added, bad>>
  PROVE  Block!Finish \/ UNCHANGED <<Phase, added, bad, verdict>>
  <1>1. places \in [Thread -> Place] /\ Master \in Thread
    BY Zenon DEF Ready, Thread
  <1>2. CASE queue = <<>> /\ t = Master /\ todo = 0
    <2>1. verdict' = ok /\ pc'[Master] = "outside"
      BY <1>1, <1>2, Zenon DEF TopOfLoop
    <2>2. Phase = "waiting" /\ Phase' = "closed"
      BY <1>2, <2>1, Zenon DEF Phase
    <2>3. Others(t) \in SUBSET (1 .. added) /\ added \in Nat /\ bad \subseteq 1 .. added
      BY DEF IInv, Distinct, Others, Pending, TypeOK
    <2>4. Others(t) = {}
      BY <1>2, <2>3, PendingFinite, FS_EmptySet, Zenon DEF Ready
    <2>5. ok => bad = {}
      BY <1>2, <2>3, <2>4, Zenon DEF Ready, Passed
    <2>6. ok \in BOOLEAN /\ (~ok => bad # {})
      BY Zenon DEF Ready
    <2>7. verdict' = (bad = {})
      BY <2>1, <2>5, <2>6, Zenon
    <2>8. QED
      BY <2>2, <2>7, Zenon DEF Block!Finish
  <1>3. CASE ~(queue = <<>> /\ t = Master /\ todo = 0)
    <2>1. verdict' = verdict
      BY <1>3, Zenon DEF TopOfLoop
    <2>2. \E x \in {"run", "wait"} : pc' = [places EXCEPT ![t] = x]
      BY <1>3, Zenon DEF TopOfLoop
    <2>3. pc'[Master] = pc[Master] \/ {pc'[Master], pc[Master]} \cap {"outside", "adding"} = {}
      BY <1>1, <2>2, Zenon
    <2>4. Phase' = Phase
      BY <2>3, Zenon DEF Phase
    <2>5. QED
      BY <2>1, <2>4, Zenon
  <1>4. QED
    BY <1>2, <1>3, Zenon

\* Every step of the queue is a step of BlockCheck or does not show there.
LEMMA StepRefines == IInv /\ [Next]_vars => [Block!Next]_(Block!vars)
  <1> SUFFICES ASSUME IInv, [Next]_vars
               PROVE  Block!Next \/ UNCHANGED <<Phase, added, bad, verdict>>
    BY Zenon DEF Block!vars
  <1>1. Master \in Thread /\ pc \in [Thread -> Place]
    BY Zenon DEF IInv, TypeOK, Thread
  <1>2. CASE Begin
    <2>1. pc[Master] = "outside" /\ pc'[Master] = "adding"
      BY <1>1, <1>2, Zenon DEF Begin
    <2>2. Block!Open
      BY <2>1, <1>2, Zenon DEF Begin, Block!Open, Phase
    <2>3. QED
      BY <2>2, Zenon DEF Block!Next
  <1>3. ASSUME NEW n \in 1 .. MaxChecks, Add(n) PROVE Block!Next
    <2>1. pc[Master] = "adding" /\ pc'[Master] = "adding"
      <3>1. PICK woken \in Notified(n) : pc' = [t \in Thread |-> IF t \in woken THEN "woken" ELSE pc[t]]
        BY <1>3, Zenon DEF Add
      <3>2. Master \notin woken
        BY QueueAssumption, Zenon DEF Notified
      <3>3. QED
        BY <3>1, <3>2, <1>1, <1>3, Zenon DEF Add
    <2>2. Phase = "open" /\ Phase' = "open"
      BY <2>1, Zenon DEF Phase
    <2>3. \E f \in SUBSET ((added + 1) .. (added + n)) : bad' = bad \cup f
      BY <1>3, Zenon DEF Add
    <2>4. Block!Add(n)
      BY <2>2, <2>3, <1>3, Zenon DEF Add, Block!Add
    <2>5. QED
      BY <2>4, Zenon DEF Block!Next
  <1>4. CASE Wait
    <2>1. pc[Master] = "adding" /\ pc'[Master] = "start"
      BY <1>1, <1>4, Zenon DEF Wait
    <2>2. Block!Wait
      BY <2>1, <1>4, Zenon DEF Wait, Block!Wait, Phase
    <2>3. QED
      BY <2>2, Zenon DEF Block!Next
  <1>5. ASSUME NEW t \in Thread, Loop(t) PROVE Block!Next \/ UNCHANGED <<Phase, added, bad, verdict>>
    <2>1. CASE EnterLoop(t) \/ Report(t) \/ Resume(t)
      <3>1. Section(t)
        BY <2>1, EnterLoopIsSection, ReportIsSection, ResumeIsSection, Zenon
      <3>2. Block!Finish \/ UNCHANGED <<Phase, added, bad, verdict>>
        BY <3>1, TopOfLoopRefines, Zenon DEF Section
      <3>3. QED
        BY <3>2, Zenon DEF Block!Next
    <2>2. CASE Execute(t)
      BY <2>2, <1>1, Zenon DEF Execute, Phase
    <2>3. CASE Reacquire(t)
      BY <2>3, <1>1, Zenon DEF Reacquire, Phase
    <2>4. QED
      BY <1>5, <2>1, <2>2, <2>3, Zenon DEF Loop
  <1>6. ASSUME NEW t \in Thread, SpuriousWake(t) PROVE UNCHANGED <<Phase, added, bad, verdict>>
    BY <1>1, <1>6, Zenon DEF SpuriousWake, Phase
  <1>7. ASSUME NEW w \in Worker, Interrupt(w) PROVE UNCHANGED <<Phase, added, bad, verdict>>
    BY <1>1, <1>7, QueueAssumption, Zenon DEF Interrupt, Phase
  <1>8. CASE InterruptMaster
    BY <1>1, <1>8, Zenon DEF InterruptMaster, Phase
  <1>9. CASE UNCHANGED vars
    BY <1>9, Zenon DEF vars, Phase
  <1>10. QED
    BY <1>2, <1>3, <1>4, <1>5, <1>6, <1>7, <1>8, <1>9, Zenon DEF Next

\* The queue implements the verification of a block in one step: the value Wait
\* returns is whether all evaluations were successful, for any number of workers and
\* any order in which they take, execute and report batches.  (That Wait returns is
\* the fairness part of Implements.)
THEOREM ImplementsBlockCheck == Spec => Block!Spec
  <1>1. Init => Block!Init
    BY Zenon DEF Init, Block!Init, Phase, Thread
  <1>2. QED
    BY <1>1, StepRefines, Invariance, PTL DEF Spec, Block!Spec

=============================================================================
