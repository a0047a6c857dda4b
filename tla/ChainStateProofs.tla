-------------------------- MODULE ChainStateProofs --------------------------
(***************************************************************************)
(* For every block tree, number of threads and sequence of commands: the   *)
(* state of ChainState is well typed, linked blocks have all their data,   *)
(* validated blocks rest on validated blocks, and a block of the active    *)
(* chain is failed only when InvalidateBlock could not disconnect it.      *)
(***************************************************************************)
EXTENDS ChainState, TLAPS

\* What cs_main protects: only its holder is inside ActivateBestChainStep, and
\* the chain it works towards is linked and free of failed blocks, but for those
\* that InvalidateBlock could not disconnect.
StepInv ==
  \A t \in Thread : pc[t] = "step" =>
    /\ csMain = t
    /\ pindexMostWork[t] \in linked
    /\ pindexOldTip \in linked
    /\ \A b \in Chain[pindexMostWork[t]] : Failed(b) => b \in cutShort

\* The active chain above genesis has passed ConnectBlock.
ActiveScripts == Chain[tip] \ {Genesis} \subseteq scriptsValid

\* The inductive invariant.
IInv ==
  /\ TypeOK
  /\ LinkSound
  /\ StepInv
  /\ ActiveScripts
  /\ ScriptsClosed
  /\ \A b \in Chain[tip] : Failed(b) => b \in cutShort

\* A block is the last of its own chain.
LEMMA ChainSelf == \A b \in Block : b \in Chain[b] /\ Chain[b] \subseteq Block
  BY TreeAssumption

\* The chain of the predecessor is contained in the chain of a block.
LEMMA ChainPprev ==
  \A b \in Block \ {Genesis} :
    /\ pprev[b] \in Block
    /\ pprev[b] \in Chain[b]
    /\ Chain[pprev[b]] \subseteq Chain[b]
    /\ Chain[b] = Chain[pprev[b]] \cup {b}
  BY TreeAssumption, ChainSelf

\* The chain assumptions in the form the proofs use.
LEMMA ChainFacts ==
  /\ \A b \in Block : Genesis \in Chain[b]
  /\ \A x \in Block : \A a, b \in Chain[x] : a \in Chain[b] \/ b \in Chain[a]
  /\ \A b \in Block : \A a \in Chain[b] : Chain[a] \subseteq Chain[b]
  /\ Chain[Genesis] = {Genesis}
  /\ Genesis \in Block /\ NoBlock \notin Block /\ NoThread \notin Thread
  BY TreeAssumption, Zenon

\* The initial state satisfies the inductive invariant.
LEMMA InitIInv == Init => IInv
  <1>1. SUFFICES ASSUME Init PROVE IInv
    BY Zenon
  <1>2. TypeOK
    <2>1. nSequenceId \in [Block -> Nat] /\ nBlockSequenceId \in Nat
      BY <1>1, Zenon DEF Init
    <2>2. nOperator \in 0 .. MaxEvent /\ nFailure \in 0 .. MaxEvent
      BY <1>1, BoundAssumption DEF Init
    <2>3. gaveUp \in BOOLEAN /\ cutShort \in SUBSET mapBlockIndex
      BY <1>1, Zenon DEF Init
    <2>4. /\ pc \in [Thread -> {"idle", "find", "step", "check"}]
          /\ pindexMostWork \in [Thread -> mapBlockIndex \cup {NoBlock}]
      BY <1>1, Zenon DEF Init
    <2>5. QED
      BY <1>1, <2>1, <2>2, <2>3, <2>4, ChainFacts, Zenon DEF Init, TypeOK
  <1>3. LinkSound /\ StepInv /\ ActiveScripts /\ ScriptsClosed
    BY <1>1, TreeAssumption, Zenon DEF Init, LinkSound, StepInv, ActiveScripts, ScriptsClosed
  <1>4. \A b \in Chain[tip] : Failed(b) => b \in cutShort
    BY <1>1, Zenon DEF Init, Failed
  <1>5. QED
    BY <1>2, <1>3, <1>4, Zenon DEF IInv

\* A header: only the index grows.
LEMMA HeadersIInv ==
  ASSUME IInv, NEW b \in Block, ProcessHeaders(b)
  PROVE  IInv'
  <1> USE DEF indexVars, failVars, stepVars, diskVars
  <1>1. TypeOK'
    BY DEF IInv, TypeOK, ProcessHeaders, AcceptBlockHeader, AddToBlockIndex
  <1>2. LinkSound' /\ StepInv' /\ ActiveScripts' /\ ScriptsClosed'
    BY Zenon DEF IInv, ProcessHeaders, LinkSound, StepInv, ActiveScripts, ScriptsClosed, Failed
  <1>3. (\A x \in Chain[tip] : Failed(x) => x \in cutShort)'
    BY Zenon DEF IInv, ProcessHeaders, Failed
  <1>4. QED
    BY <1>1, <1>2, <1>3, Zenon DEF IInv

\* What the queue of ReceivedBlockTransactions reaches is a set of blocks, with a number.
LEMMA UnlockedFacts ==
  ASSUME TypeOK, NEW b \in Block
  PROVE  /\ Unlocked(b) \subseteq mapBlocksUnlinked \cup {b}
         /\ b \in Unlocked(b)
         /\ Cardinality(Unlocked(b)) \in Nat
  <1>1. Unlocked(b) \subseteq mapBlocksUnlinked \cup {b} /\ b \in Unlocked(b)
    BY ChainSelf, Zenon DEF Unlocked
  <1>2. Unlocked(b) \subseteq Block
    BY <1>1, Zenon DEF TypeOK
  <1>3. Cardinality(Unlocked(b)) \in Nat
    BY <1>2, TreeAssumption, Zenon
  <1>4. QED
    BY <1>1, <1>3, Zenon

\* The blocks that link with b have all their ancestors linked.
LEMMA UnlockedLinks ==
  ASSUME TypeOK, LinkSound, NEW b \in Block \ {Genesis}, pprev[b] \in linked,
         NEW x \in Unlocked(b)
  PROVE  Chain[x] \subseteq (haveData \cup {b}) \cap (linked \cup Unlocked(b))
  <1>1. /\ x \in Block
        /\ b \in Chain[x]
        /\ (Chain[x] \ Chain[b]) \subseteq mapBlocksUnlinked
    BY Zenon DEF Unlocked, TypeOK
  <1>2. SUFFICES ASSUME NEW a \in Chain[x]
                 PROVE  a \in haveData \cup {b} /\ a \in linked \cup Unlocked(b)
    BY Zenon
  <1>3. a \in Block
    BY <1>1, ChainSelf, Zenon
  <1>4. CASE a \in Chain[b]
    BY <1>4, ChainPprev, UnlockedFacts DEF LinkSound
  <1>5. CASE a \notin Chain[b]
    <2>1. a \in mapBlocksUnlinked
      BY <1>1, <1>5, Zenon
    <2>2. b \in Chain[a]
      BY <1>1, <1>5, ChainFacts, Zenon
    <2>3. Chain[a] \ Chain[b] \subseteq mapBlocksUnlinked
      BY <1>1, ChainFacts, Zenon
    <2>4. QED
      BY <2>1, <2>2, <2>3, Zenon DEF Unlocked, TypeOK
  <1>6. QED
    BY <1>4, <1>5, Zenon

\* A turn of the queue that fails leaves whole chains linked: the blocks before it
\* in the queue have had all their ancestors' turns.
LEMMA RefusedLinks ==
  ASSUME TypeOK, LinkSound, NEW b \in Block \ {Genesis}, ReceivedUnverified(b),
         haveData' = haveData \cup {b}
  PROVE  /\ linked' \in SUBSET haveData'
         /\ mapBlocksUnlinked' \in SUBSET haveData'
         /\ nSequenceId' \in [Block -> Nat]
         /\ nBlockSequenceId' \in Nat
         /\ setBlockIndexCandidates' \in SUBSET linked'
         /\ linked \subseteq linked'
         /\ LinkSound'
  <1> DEFINE U == Unlocked(b)
  <1>1. PICK f \in QueueOrders(U), x \in U :
          /\ nSequenceId' = [y \in Block |-> IF y \in {z \in U : f[z] < f[x]} \cup {x} THEN f[y] ELSE nSequenceId[y]]
          /\ nBlockSequenceId' = nBlockSequenceId + Cardinality({z \in U : f[z] < f[x]}) + 1
          /\ linked' = linked \cup {z \in U : f[z] < f[x]} \cup {x}
          /\ setBlockIndexCandidates' \subseteq setBlockIndexCandidates \cup {z \in U : f[z] < f[x]}
          /\ mapBlocksUnlinked' \subseteq mapBlocksUnlinked
    BY Zenon DEF ReceivedUnverified
  <1>2. pprev[b] \in linked
    BY Zenon DEF ReceivedUnverified
  <1>3. /\ U \subseteq mapBlocksUnlinked \cup {b} /\ U \subseteq Block
        /\ Cardinality(U) \in Nat /\ nBlockSequenceId \in Nat
    BY UnlockedFacts, Zenon DEF TypeOK
  <1>4. /\ f \in [U -> nBlockSequenceId .. (nBlockSequenceId + Cardinality(U) - 1)]
        /\ \A y, z \in U : nHeight[y] < nHeight[z] => f[y] < f[z]
    <2>1. /\ f \in [U -> nBlockSequenceId .. (nBlockSequenceId + Cardinality(U) - 1)]
          /\ \A y, z \in U : y # z => (nHeight[y] < nHeight[z] => f[y] < f[z])
      BY Zenon DEF QueueOrders
    <2>2. \A y \in Block : ~(nHeight[y] < nHeight[y])
      BY TreeAssumption
    <2>3. QED
      BY <1>3, <2>1, <2>2, Zenon
  <1>5. \A y \in U : Chain[y] \subseteq (haveData \cup {b}) \cap (linked \cup U)
    BY <1>2, UnlockedLinks, Zenon
  <1> HIDE DEF U
  <1>6. \A y \in U : f[y] \in Nat
    BY <1>3, <1>4
  <1> DEFINE done == {z \in U : f[z] < f[x]}
  <1>7. done \subseteq Block /\ Cardinality(done) \in Nat
    BY <1>3, TreeAssumption, Zenon
  <1>8. nSequenceId' \in [Block -> Nat]
    BY <1>1, <1>3, <1>6 DEF TypeOK
  <1>9. nBlockSequenceId' \in Nat
    <2>1. nBlockSequenceId' = nBlockSequenceId + Cardinality(done) + 1
      BY <1>1, Zenon
    <2> HIDE DEF done
    <2>2. QED
      BY <1>3, <1>7, <2>1
  <1>10. ASSUME NEW y \in done \cup {x}, NEW a \in Chain[y] PROVE a \in linked \cup done \cup {x}
    <2>1. y \in U /\ y \in Block /\ a \in Block /\ a \in linked \cup U
      BY <1>3, <1>5, ChainSelf, Zenon
    <2>2. CASE a \in U /\ a # y
      <3>1. nHeight[a] < nHeight[y]
        BY <2>1, <2>2, TreeAssumption, Zenon
      <3>2. f[a] < f[y]
        BY <1>4, <2>1, <2>2, <3>1, Zenon
      <3>3. f[a] \in Nat /\ f[y] \in Nat /\ f[x] \in Nat /\ (y = x \/ f[y] < f[x])
        BY <1>6, <2>1, <2>2, Zenon
      <3>4. f[a] < f[x]
        BY <3>2, <3>3
      <3>5. QED
        BY <2>2, <3>4, Zenon
    <2>3. QED
      BY <2>1, <2>2, Zenon
  <1>11. linked' = linked \cup done \cup {x} /\ setBlockIndexCandidates' \subseteq setBlockIndexCandidates \cup done
    BY <1>1, Zenon
  <1>12. done \cup {x} \subseteq U
    BY <1>1, Zenon
  <1> HIDE DEF done
  <1>13. LinkSound'
    BY <1>5, <1>10, <1>11, <1>12, Zenon DEF LinkSound
  <1>14. linked' \in SUBSET haveData'
    BY <1>3, <1>11, <1>12, Zenon DEF TypeOK
  <1>15. QED
    BY <1>1, <1>8, <1>9, <1>11, <1>13, <1>14, Zenon DEF TypeOK

\* Block data received: the active chain and the flags stay as they are, except
\* that a block without data may be marked failed.
LEMMA NewBlockIInv ==
  ASSUME IInv, NEW t \in Thread, NEW b \in Block, ProcessNewBlock(t, b)
  PROVE  IInv'
  <1> USE DEF indexVars, failVars, stepVars, diskVars
  <1>a. /\ mapBlockIndex' = mapBlockIndex \cup {b}
        /\ pindexBestHeader' \in mapBlockIndex'
    BY DEF IInv, TypeOK, ProcessNewBlock, AcceptBlockHeader, AddToBlockIndex
  <1>b. Genesis \in haveData
    BY ChainFacts, Zenon DEF IInv, TypeOK, LinkSound
  <1>c. /\ UNCHANGED <<csMain, pindexMostWork, pindexOldTip, scriptsValid, tip,
                       diskVars, nOperator, failedChild, pindexBestInvalid>>
        /\ pc' = pc \/ pc' = [pc EXCEPT ![t] = "find"]
        /\ csMain = NoThread
    BY Zenon DEF ProcessNewBlock, AcceptBlock, AcceptBlockNonFinal
  <1>1. CASE b \in haveData /\ UNCHANGED <<haveData, linked, nSequenceId, nBlockSequenceId,
                     mapBlocksUnlinked, failVars, setBlockIndexCandidates, setDirtyBlockIndex>>
    <2>1. TypeOK'
      BY <1>a, <1>c, <1>1, Zenon DEF IInv, TypeOK
    <2>2. LinkSound' /\ StepInv' /\ ActiveScripts' /\ ScriptsClosed'
      BY <1>c, <1>1, ChainFacts DEF IInv, TypeOK, LinkSound, StepInv, ActiveScripts, ScriptsClosed
    <2>3. (\A x \in Chain[tip] : Failed(x) => x \in cutShort)'
      BY <1>c, <1>1, Zenon DEF IInv, Failed
    <2>4. QED
      BY <2>1, <2>2, <2>3, Zenon DEF IInv
  <1>2. CASE AcceptBlock(b) /\ (ReceivedUnlinked(b) \/ ReceivedLinked(b) \/ ReceivedUnverified(b))
    <2>1. /\ b # Genesis
          /\ b \in Block \ {Genesis}
          /\ haveData' = haveData \cup {b}
          /\ setDirtyBlockIndex' \subseteq mapBlockIndex'
          /\ UNCHANGED failVars
      BY <1>2, <1>a, <1>b, Zenon DEF AcceptBlock, IInv, TypeOK
    <2>2. /\ linked' \in SUBSET haveData'
          /\ mapBlocksUnlinked' \in SUBSET haveData'
          /\ nSequenceId' \in [Block -> Nat]
          /\ nBlockSequenceId' \in Nat
          /\ setBlockIndexCandidates' \in SUBSET linked'
          /\ linked \subseteq linked'
          /\ LinkSound'
      <3>1. CASE ReceivedUnlinked(b)
        BY <3>1, <2>1, Zenon DEF ReceivedUnlinked, IInv, TypeOK, LinkSound
      <3>2. CASE ReceivedUnverified(b)
        BY <3>2, <2>1, RefusedLinks, Zenon DEF IInv, TypeOK
      <3>3. CASE ReceivedLinked(b)
        <4>1. PICK f \in QueueOrders(Unlocked(b)) :
                /\ nSequenceId' = [x \in Block |-> IF x \in Unlocked(b) THEN f[x] ELSE nSequenceId[x]]
                /\ setBlockIndexCandidates' \subseteq setBlockIndexCandidates \cup Unlocked(b)
          BY <3>3, Zenon DEF ReceivedLinked
        <4>2. f \in [Unlocked(b) -> nBlockSequenceId .. (nBlockSequenceId + Cardinality(Unlocked(b)) - 1)]
          BY Zenon DEF QueueOrders
        <4>3. nBlockSequenceId \in Nat /\ Cardinality(Unlocked(b)) \in Nat
          BY UnlockedFacts, Zenon DEF IInv, TypeOK
        <4>4. \A x \in Unlocked(b) : f[x] \in Nat
          BY <4>2, <4>3
        <4>5. nSequenceId' \in [Block -> Nat]
          BY <4>1, <4>4, Zenon DEF IInv, TypeOK
        <4>6. nBlockSequenceId' \in Nat
          BY <3>3, <4>3 DEF ReceivedLinked
        <4>7. /\ linked' = linked \cup Unlocked(b)
              /\ mapBlocksUnlinked' = mapBlocksUnlinked \ Unlocked(b)
              /\ Unlocked(b) \subseteq mapBlocksUnlinked \cup {b}
          BY <3>3, UnlockedFacts, Zenon DEF ReceivedLinked, IInv
        <4>8. \A x \in Unlocked(b) : Chain[x] \subseteq haveData' \cap linked'
          BY <3>3, <2>1, <4>7, UnlockedLinks, Zenon DEF ReceivedLinked, IInv
        <4>9. LinkSound'
          BY <4>7, <4>8, <2>1, Zenon DEF LinkSound, IInv
        <4>10. QED
          BY <4>1, <4>5, <4>6, <4>7, <4>9, <2>1, Zenon DEF IInv, TypeOK
      <3>4. QED
        BY <1>2, <3>1, <3>2, <3>3, Zenon
    <2>3. TypeOK'
      BY <1>a, <1>c, <2>1, <2>2, Zenon DEF IInv, TypeOK
    <2>4. StepInv' /\ ActiveScripts' /\ ScriptsClosed'
      BY <1>c, <2>1, <2>2, ChainFacts
         DEF IInv, TypeOK, StepInv, ActiveScripts, ScriptsClosed, Failed
    <2>5. (\A x \in Chain[tip] : Failed(x) => x \in cutShort)'
      BY <1>c, <2>1, Zenon DEF IInv, Failed
    <2>6. QED
      BY <2>2, <2>3, <2>4, <2>5, Zenon DEF IInv
  <1>3. CASE AcceptBlockNonFinal(b)
    <2>1. /\ b \notin haveData
          /\ failedValid' = failedValid \cup {b}
          /\ UNCHANGED <<haveData, linked, nSequenceId, nBlockSequenceId, mapBlocksUnlinked,
                         setBlockIndexCandidates>>
          /\ setDirtyBlockIndex' \subseteq setDirtyBlockIndex \cup {b}
      BY <1>3, Zenon DEF AcceptBlockNonFinal
    <2>2. TypeOK'
      BY <1>a, <1>c, <2>1, Zenon DEF IInv, TypeOK
    <2>3. LinkSound' /\ StepInv' /\ ActiveScripts' /\ ScriptsClosed'
      BY <1>c, <2>1, ChainFacts
         DEF IInv, TypeOK, LinkSound, StepInv, ActiveScripts, ScriptsClosed
    <2>4. (\A x \in Chain[tip] : Failed(x) => x \in cutShort)'
      BY <1>c, <2>1, Zenon DEF IInv, Failed, LinkSound, TypeOK
    <2>5. QED
      BY <2>2, <2>3, <2>4, Zenon DEF IInv
  <1>4. QED
    BY <1>1, <1>2, <1>3, Zenon DEF ProcessNewBlock

\* FindMostWorkChain and the loop test of ActivateBestChain.
LEMMA FindIInv ==
  ASSUME IInv, NEW t \in Thread,
         DiscardCandidate(t) \/ FindMostWorkChain(t) \/ NothingToDo(t) \/ CheckLoop(t)
  PROVE  IInv'
  <1> USE DEF indexVars, failVars, stepVars, diskVars
  <1>1. CASE DiscardCandidate(t)
    <2>1. PICK b \in Block, x \in Block :
            /\ IsBestCandidate(b)
            /\ FirstFailed(b, x)
            /\ failedChild' = failedChild \cup {y \in Chain[b] : nHeight[y] > nHeight[x]}
            /\ setBlockIndexCandidates' \subseteq setBlockIndexCandidates
            /\ pindexBestInvalid' \in {b, pindexBestInvalid}
      BY <1>1, Zenon DEF DiscardCandidate, InvalidChainFound
    <2>2. b \in linked /\ Chain[b] \subseteq mapBlockIndex
      BY <2>1, Zenon DEF IsBestCandidate, IInv, TypeOK, LinkSound
    <2>3. \A y \in Chain[b] : nHeight[y] > nHeight[x] => y \notin Chain[tip]
      <3>1. SUFFICES ASSUME NEW y \in Chain[b], nHeight[y] > nHeight[x], y \in Chain[tip]
                     PROVE  FALSE
        BY Zenon
      <3>2. x \in Chain[b] /\ x \notin Chain[tip] /\ tip \in Block
        BY <2>1, Zenon DEF FirstFailed, IInv, TypeOK
      <3>3. x \in Chain[y] \/ y \in Chain[x]
        BY <3>2, ChainFacts, Zenon
      <3>4. CASE x \in Chain[y]
        BY <3>1, <3>2, <3>4, ChainFacts, Zenon
      <3>5. CASE y \in Chain[x]
        <4>1. y \in Block /\ x \in Block /\ nHeight[y] \in Nat /\ nHeight[x] \in Nat
          BY ChainSelf, TreeAssumption, Zenon
        <4>2. y # x => nHeight[y] < nHeight[x]
          BY <3>5, TreeAssumption, Zenon
        <4>3. QED
          BY <3>1, <4>1, <4>2
      <3>6. QED
        BY <3>3, <3>4, <3>5, Zenon
    <2>4. TypeOK'
      BY <1>1, <2>1, <2>2, Zenon DEF IInv, TypeOK, DiscardCandidate
    <2>5. LinkSound' /\ ActiveScripts' /\ ScriptsClosed'
      BY <1>1, Zenon DEF DiscardCandidate, IInv, LinkSound, ActiveScripts, ScriptsClosed
    <2>6. StepInv'
      BY <1>1, ChainFacts DEF DiscardCandidate, IInv, StepInv, TypeOK
    <2>7. (\A y \in Chain[tip] : Failed(y) => y \in cutShort)'
      BY <1>1, <2>1, <2>3, Zenon DEF DiscardCandidate, IInv, Failed
    <2>8. QED
      BY <2>4, <2>5, <2>6, <2>7, Zenon DEF IInv
  <1>2. CASE FindMostWorkChain(t)
    <2>1. PICK b \in Block :
            /\ b \in linked
            /\ \A y \in Chain[b] \ Chain[tip] : ~Failed(y)
            /\ pindexMostWork' = [pindexMostWork EXCEPT ![t] = b]
      BY <1>2, Zenon DEF FindMostWorkChain, IsBestCandidate, IInv, TypeOK
    <2>2. TypeOK'
      BY <1>2, <2>1, Zenon DEF FindMostWorkChain, IInv, TypeOK
    <2>3. LinkSound' /\ ActiveScripts' /\ ScriptsClosed'
      BY <1>2, Zenon DEF FindMostWorkChain, IInv, LinkSound, ActiveScripts, ScriptsClosed
    <2>4. \A y \in Chain[b] : Failed(y) => y \in cutShort
      BY <2>1, Zenon DEF IInv
    <2>5. StepInv'
      BY <1>2, <2>1, <2>4, ChainFacts DEF FindMostWorkChain, IInv, StepInv, TypeOK, Failed
    <2>6. (\A y \in Chain[tip] : Failed(y) => y \in cutShort)'
      BY <1>2, Zenon DEF FindMostWorkChain, IInv, Failed
    <2>7. QED
      BY <2>2, <2>3, <2>5, <2>6, Zenon DEF IInv
  <1>3. CASE NothingToDo(t) \/ CheckLoop(t)
    <2>1. TypeOK'
      BY <1>3, Zenon DEF NothingToDo, CheckLoop, Return, IInv, TypeOK
    <2>2. LinkSound' /\ ActiveScripts' /\ ScriptsClosed'
      BY <1>3, Zenon DEF NothingToDo, CheckLoop, Return, IInv, LinkSound, ActiveScripts, ScriptsClosed
    <2>3. StepInv'
      BY <1>3, ChainFacts DEF NothingToDo, CheckLoop, Return, IInv, StepInv, TypeOK, Failed
    <2>4. (\A y \in Chain[tip] : Failed(y) => y \in cutShort)'
      BY <1>3, Zenon DEF NothingToDo, CheckLoop, Return, IInv, Failed
    <2>5. QED
      BY <2>1, <2>2, <2>3, <2>4, Zenon DEF IInv
  <1>4. QED
    BY <1>1, <1>2, <1>3, Zenon

\* ActivateBestChainStep: blocks leave and enter the active chain.
LEMMA StepIInv ==
  ASSUME IInv, NEW t \in Thread,
         DisconnectTip(t) \/ ConnectTip(t) \/ ConnectTipInvalid(t) \/ FailStep(t)
  PROVE  IInv'
  <1> USE DEF indexVars, failVars, stepVars, diskVars
  <1>0. /\ pc[t] = "step" /\ csMain = t
        /\ pindexMostWork[t] \in linked
        /\ Chain[pindexMostWork[t]] \subseteq linked \cap haveData \cap mapBlockIndex
        /\ \A b \in Chain[pindexMostWork[t]] : Failed(b) => b \in cutShort
        /\ tip \in Block /\ pindexMostWork[t] \in Block
    BY Zenon DEF DisconnectTip, ConnectTip, ConnectTipInvalid, FailStep, NextToConnect,
           IInv, StepInv, LinkSound, TypeOK
  <1>1. CASE DisconnectTip(t)
    <2>1. tip # Genesis
      BY <1>1, <1>0, ChainFacts, Zenon DEF DisconnectTip
    <2>2. Chain[pprev[tip]] \subseteq Chain[tip] /\ pprev[tip] \in linked
      BY <2>1, <1>0, ChainPprev, Zenon DEF IInv, LinkSound, TypeOK
    <2>3. TypeOK'
      BY <1>1, <2>2, Zenon DEF DisconnectTip, IInv, TypeOK
    <2>4. LinkSound' /\ ScriptsClosed' /\ StepInv'
      BY <1>1, Zenon DEF DisconnectTip, IInv, LinkSound, ScriptsClosed, StepInv, Failed
    <2>5. ActiveScripts' /\ (\A b \in Chain[tip] : Failed(b) => b \in cutShort)'
      BY <1>1, <2>2, Zenon DEF DisconnectTip, IInv, ActiveScripts, Failed
    <2>6. QED
      BY <2>3, <2>4, <2>5, Zenon DEF IInv
  <1>2. CASE ConnectTip(t)
    <2>1. PICK b \in Block \ UnconnectableBlock :
            /\ b \in Chain[pindexMostWork[t]] \ {Genesis}
            /\ pprev[b] = tip
            /\ tip' = b
            /\ scriptsValid' = scriptsValid \cup {b}
            /\ setDirtyBlockIndex' \subseteq setDirtyBlockIndex \cup {b}
            /\ setBlockIndexCandidates' \subseteq setBlockIndexCandidates
            /\ Unlock(t) \/ UNCHANGED stepVars
      BY <1>2, Zenon DEF ConnectTip, NextToConnect, PruneBlockIndexCandidates
    <2>2. Chain[b] = Chain[tip] \cup {b}
      BY <2>1, ChainPprev, Zenon
    <2>3. TypeOK'
      <3>1. b \in linked /\ b \in haveData /\ b \in mapBlockIndex
        BY <2>1, <1>0, Zenon
      <3>2. /\ csMain' \in Thread \cup {NoThread}
            /\ pc' \in [Thread -> {"idle", "find", "step", "check"}]
            /\ UNCHANGED <<pindexMostWork, pindexOldTip>>
        BY <2>1, Zenon DEF Unlock, IInv, TypeOK
      <3>3. QED
        BY <1>2, <2>1, <3>1, <3>2, Zenon DEF ConnectTip, IInv, TypeOK
    <2>4. LinkSound' /\ StepInv'
      BY <1>2, <2>1, <1>0 DEF ConnectTip, Unlock, IInv, LinkSound, StepInv, TypeOK, Failed
    <2>5. ActiveScripts' /\ ScriptsClosed'
      BY <2>1, <2>2, Zenon DEF IInv, ActiveScripts, ScriptsClosed
    <2>6. (\A x \in Chain[tip] : Failed(x) => x \in cutShort)'
      BY <1>2, <2>1, <2>2, <1>0, Zenon DEF ConnectTip, IInv, Failed
    <2>7. QED
      BY <2>3, <2>4, <2>5, <2>6, Zenon DEF IInv
  <1>3. CASE ConnectTipInvalid(t)
    <2>1. PICK b \in UnconnectableBlock :
            /\ b \in Chain[pindexMostWork[t]] \ {Genesis}
            /\ pprev[b] = tip
            /\ failedValid' = failedValid \cup {b}
            /\ setDirtyBlockIndex' = setDirtyBlockIndex \cup {b}
            /\ setBlockIndexCandidates' \subseteq setBlockIndexCandidates
            /\ pindexBestInvalid' \in {b, pindexBestInvalid}
      BY <1>3, Zenon DEF ConnectTipInvalid, NextToConnect, InvalidChainFound
    <2>2. b \in mapBlockIndex /\ b \notin Chain[tip]
      BY <2>1, <1>0, BoundAssumption, TreeAssumption, Zenon
    <2>3. TypeOK'
      BY <1>3, <2>1, <2>2 DEF ConnectTipInvalid, Unlock, IInv, TypeOK
    <2>4. LinkSound' /\ ActiveScripts' /\ ScriptsClosed'
      BY <1>3, Zenon DEF ConnectTipInvalid, IInv, LinkSound, ActiveScripts, ScriptsClosed
    <2>5. StepInv'
      BY <1>3, <1>0, Zenon DEF ConnectTipInvalid, Unlock, IInv, StepInv, TypeOK
    <2>6. (\A x \in Chain[tip] : Failed(x) => x \in cutShort)'
      BY <1>3, <2>1, <2>2, Zenon DEF ConnectTipInvalid, IInv, Failed
    <2>7. QED
      BY <2>3, <2>4, <2>5, <2>6, Zenon DEF IInv
  <1>4. CASE FailStep(t)
    <2>1. /\ scriptsValid' \subseteq scriptsValid \cup linked
          /\ scriptsValid \subseteq scriptsValid'
          /\ setDirtyBlockIndex' \subseteq setDirtyBlockIndex \cup linked
          /\ ScriptsClosed'
      <3>1. CASE UNCHANGED <<scriptsValid, setDirtyBlockIndex>>
        BY <3>1, Zenon DEF IInv, ScriptsClosed
      <3>2. ASSUME NEW b \in Block \ UnconnectableBlock, NextToConnect(t, b),
                   scriptsValid' = scriptsValid \cup {b}, setDirtyBlockIndex' = setDirtyBlockIndex \cup {b}
            PROVE  /\ scriptsValid' \subseteq scriptsValid \cup linked
                   /\ scriptsValid \subseteq scriptsValid'
                   /\ setDirtyBlockIndex' \subseteq setDirtyBlockIndex \cup linked
                   /\ ScriptsClosed'
        <4>1. b \in linked /\ Chain[b] = Chain[tip] \cup {b}
          BY <1>0, <3>2, ChainPprev, Zenon DEF NextToConnect
        <4>2. QED
          BY <3>2, <4>1, Zenon DEF IInv, ScriptsClosed, ActiveScripts
      <3>3. QED
        BY <1>4, <3>1, <3>2, Zenon DEF FailStep
    <2>2. nFailure' \in 0 .. MaxEvent
      <3>1. nFailure' = nFailure + 1 /\ nOperator + nFailure < MaxEvent
        BY <1>4, Zenon DEF FailStep
      <3>2. nFailure \in 0 .. MaxEvent /\ nOperator \in 0 .. MaxEvent
        BY Zenon DEF IInv, TypeOK
      <3>3. QED
        BY <3>1, <3>2, BoundAssumption
    <2>3. TypeOK'
      BY <1>4, <2>1, <2>2, Zenon DEF FailStep, Return, IInv, TypeOK
    <2>4. LinkSound' /\ ActiveScripts'
      BY <1>4, <2>1, Zenon DEF FailStep, IInv, LinkSound, ActiveScripts
    <2>5. StepInv'
      BY <1>4, <1>0, Zenon DEF FailStep, Return, IInv, StepInv, TypeOK
    <2>6. (\A x \in Chain[tip] : Failed(x) => x \in cutShort)'
      BY <1>4, Zenon DEF FailStep, IInv, Failed
    <2>7. QED
      BY <2>1, <2>3, <2>4, <2>5, <2>6, Zenon DEF IInv
  <1>5. QED
    BY <1>1, <1>2, <1>3, <1>4, Zenon

\* The operator's commands.
LEMMA OperatorIInv ==
  ASSUME IInv, NEW t \in Thread, NEW b \in Block,
         InvalidateBlock(t, b) \/ FailInvalidate(t, b) \/ ReconsiderBlock(t, b)
  PROVE  IInv'
  <1> USE DEF indexVars, failVars, stepVars, diskVars
  <1>0. /\ csMain = NoThread
        /\ b \in mapBlockIndex \ {Genesis}
        /\ UNCHANGED <<csMain, pindexMostWork, pindexOldTip>>
        /\ nOperator' \in 0 .. MaxEvent
        /\ Chain[tip] \subseteq mapBlockIndex /\ tip \in Block
        /\ \A u \in Thread : pc[u] # "step"
    <2>1. Operator(t, b)
      BY Zenon DEF InvalidateBlock, FailInvalidate, ReconsiderBlock
    <2>2. nOperator' \in 0 .. MaxEvent
      BY <2>1, BoundAssumption DEF Operator, IInv, TypeOK
    <2>3. QED
      BY <2>1, <2>2, BoundAssumption, ChainFacts DEF Operator, IInv, TypeOK, LinkSound, StepInv
  <1>1. CASE InvalidateBlock(t, b)
    <2> DEFINE cut == {x \in Chain[tip] : b \in Chain[x]}
               newTip == IF b \in Chain[tip] THEN pprev[b] ELSE tip
    <2>1. /\ tip' = newTip
          /\ failedValid' = failedValid \cup {b}
          /\ failedChild' = failedChild \cup cut
          /\ setDirtyBlockIndex' = setDirtyBlockIndex \cup cut \cup {b}
          /\ setBlockIndexCandidates' \subseteq setBlockIndexCandidates \cup linked
          /\ pindexBestInvalid' \in {b, pindexBestInvalid}
          /\ pc' = [pc EXCEPT ![t] = "find"]
          /\ UNCHANGED <<indexVars, scriptsValid, diskVars>>
      BY <1>1, Zenon DEF InvalidateBlock, InvalidChainFound
    <2>2. /\ newTip \in linked
          /\ Chain[newTip] \subseteq Chain[tip]
          /\ b \notin Chain[newTip]
      <3>1. CASE b \in Chain[tip]
        BY <3>1, <1>0, ChainPprev, ChainFacts, TreeAssumption DEF IInv, LinkSound, TypeOK
      <3>2. CASE b \notin Chain[tip]
        BY <3>2, Zenon DEF IInv, TypeOK
      <3>3. QED
        BY <3>1, <3>2, Zenon
    <2>3. TypeOK'
      BY <1>0, <2>1, <2>2, Zenon DEF IInv, TypeOK
    <2>4. LinkSound' /\ ScriptsClosed' /\ StepInv'
      BY <1>0, <2>1, Zenon DEF IInv, TypeOK, LinkSound, ScriptsClosed, StepInv
    <2>5. ActiveScripts'
      BY <2>1, <2>2, Zenon DEF IInv, ActiveScripts
    <2>6. (\A x \in Chain[tip] : Failed(x) => x \in cutShort)'
      <3>1. newTip \in Block
        BY <2>2, Zenon DEF IInv, TypeOK
      <3>2. \A x \in Chain[newTip] : b \notin Chain[x]
        BY <3>1, <2>2, ChainFacts, Zenon
      <3>3. QED
        BY <2>1, <2>2, <3>2, Zenon DEF IInv, Failed
    <2>7. QED
      BY <2>3, <2>4, <2>5, <2>6, Zenon DEF IInv
  <1>2. CASE FailInvalidate(t, b)
    <2>1. PICK x \in Chain[tip] :
            /\ tip' = x
            /\ failedChild' = failedChild \cup {y \in Chain[tip] : x \in Chain[y]}
            /\ setDirtyBlockIndex' =
                 setDirtyBlockIndex \cup {y \in Chain[tip] : x \in Chain[y]} \cup {b}
            /\ setBlockIndexCandidates' \subseteq setBlockIndexCandidates
            /\ cutShort' = cutShort \cup {y \in Chain[tip] : x \in Chain[y]} \cup {b}
      BY <1>2, Zenon DEF FailInvalidate
    <2>2. x \in linked /\ Chain[x] \subseteq Chain[tip]
      BY <1>0, ChainFacts, Zenon DEF IInv, TypeOK, LinkSound
    <2>3. /\ failedValid' = failedValid \cup {b} /\ UNCHANGED <<indexVars, pindexBestInvalid, scriptsValid, nFailure, gaveUp>>
          /\ \A u \in Thread : pc'[u] # "step"
          /\ pc' \in [Thread -> {"idle", "find", "step", "check"}]
      <3>1. UNCHANGED pc \/ pc' = [pc EXCEPT ![t] = "find"]
        BY <1>2, Zenon DEF FailInvalidate
      <3>2. \A u \in Thread : pc'[u] # "step"
        BY <1>0, <3>1 DEF IInv, TypeOK
      <3>3. pc' \in [Thread -> {"idle", "find", "step", "check"}]
        BY <3>1, Zenon DEF IInv, TypeOK
      <3>4. QED
        BY <1>2, <3>2, <3>3, Zenon DEF FailInvalidate
    <2>4. TypeOK'
      BY <1>0, <2>1, <2>2, <2>3, Zenon DEF IInv, TypeOK
    <2>5. LinkSound' /\ ScriptsClosed' /\ StepInv'
      BY <2>3, Zenon DEF IInv, LinkSound, ScriptsClosed, StepInv
    <2>6. ActiveScripts'
      BY <2>1, <2>2, <2>3, Zenon DEF IInv, ActiveScripts
    <2>7. (\A y \in Chain[tip] : Failed(y) => y \in cutShort)'
      BY <2>1, <2>2, <2>3, Zenon DEF IInv, Failed
    <2>8. QED
      BY <2>4, <2>5, <2>6, <2>7, Zenon DEF IInv
  <1>3. CASE ReconsiderBlock(t, b)
    <2>1. /\ failedValid' \subseteq failedValid
          /\ failedChild' \subseteq failedChild
          /\ setDirtyBlockIndex' \subseteq setDirtyBlockIndex \cup mapBlockIndex
          /\ setBlockIndexCandidates' \subseteq setBlockIndexCandidates \cup linked
          /\ pindexBestInvalid' \in {NoBlock, pindexBestInvalid}
          /\ pc' = [pc EXCEPT ![t] = "find"]
          /\ UNCHANGED <<indexVars, scriptsValid, tip, diskVars>>
      BY <1>3, Zenon DEF ReconsiderBlock, Failed, IInv, TypeOK
    <2>2. TypeOK'
      BY <1>0, <2>1, Zenon DEF IInv, TypeOK
    <2>3. LinkSound' /\ ScriptsClosed' /\ StepInv' /\ ActiveScripts'
      BY <1>0, <2>1, Zenon DEF IInv, TypeOK, LinkSound, ScriptsClosed, StepInv, ActiveScripts
    <2>4. (\A x \in Chain[tip] : Failed(x) => x \in cutShort)'
      BY <2>1, Zenon DEF IInv, Failed
    <2>5. QED
      BY <2>2, <2>3, <2>4, Zenon DEF IInv
  <1>4. QED
    BY <1>1, <1>2, <1>3, Zenon

\* Every step preserves the inductive invariant.
LEMMA NextIInv == IInv /\ [Next]_vars => IInv'
  <1>1. SUFFICES ASSUME IInv, [Next]_vars PROVE IInv'
    BY Zenon
  <1>2. CASE UNCHANGED vars
    BY <1>1, <1>2, Zenon DEF vars, indexVars, failVars, stepVars, diskVars, IInv, TypeOK, LinkSound, StepInv,
                      ActiveScripts, ScriptsClosed, Failed
  <1>3. CASE \E b \in Block : ProcessHeaders(b)
    BY <1>1, <1>3, HeadersIInv, Zenon
  <1>4. CASE \E t \in Thread, b \in Block : ProcessNewBlock(t, b)
    BY <1>1, <1>4, NewBlockIInv, Zenon
  <1>5. CASE \E t \in Thread : Activate(t) \/ FailStep(t)
    BY <1>1, <1>5, FindIInv, StepIInv, Zenon DEF Activate
  <1>6. CASE \E t \in Thread, b \in Block :
               InvalidateBlock(t, b) \/ FailInvalidate(t, b) \/ ReconsiderBlock(t, b)
    BY <1>1, <1>6, OperatorIInv, Zenon
  <1>7. QED
    BY <1>1, <1>2, <1>3, <1>4, <1>5, <1>6, Zenon DEF Next

\* The inductive invariant holds in every reachable state.
THEOREM Invariance == Spec => []IInv
  BY InitIInv, NextIInv, PTL DEF Spec

\* The state of the block index is well typed: in particular candidates and the
\* tip are linked, and linked blocks have data.
THEOREM TypeCorrect == Spec => []TypeOK
  <1>1. IInv => TypeOK
    BY Zenon DEF IInv
  <1>2. QED
    BY <1>1, Invariance, PTL

\* The data FindMostWorkChain asserts on its way down is always there, however
\* blocks arrive and whatever the operator does.
THEOREM LinksSound == Spec => []LinkSound
  <1>1. IInv => LinkSound
    BY Zenon DEF IInv
  <1>2. QED
    BY <1>1, Invariance, PTL

\* Blocks marked BLOCK_VALID_SCRIPTS rest on blocks marked so, and none of them
\* breaks a consensus rule.
THEOREM ScriptsAreClosed == Spec => []ScriptsClosed
  <1>1. IInv => ScriptsClosed
    BY Zenon DEF IInv
  <1>2. QED
    BY <1>1, Invariance, PTL

\* The active chain holds only blocks with data that passed ConnectBlock, whatever
\* the disk does, and none that is marked failed but those that InvalidateBlock
\* could not disconnect.
THEOREM ActiveChainIsSound == Spec => []ActiveChainSound
  <1>1. IInv => ActiveChainSound
    BY Zenon DEF IInv, ActiveChainSound, ActiveScripts, LinkSound, TypeOK
  <1>2. QED
    BY <1>1, Invariance, PTL

-----------------------------------------------------------------------------
(***************************************************************************)
(* As long as the operator has marked no block and every kernel can be     *)
(* verified: the links of the block index are exact, no eligible block     *)
(* that beats the tip is forgotten, and the node rests only on its best    *)
(* chain.                                                                  *)
(*                                                                         *)
(* A candidate that is pruned was worse than a tip.  That tip passed       *)
(* ConnectBlock, so it can never turn out to be failed, and it stays a     *)
(* candidate until a better tip takes its place: Kept says so, and with it *)
(* a reorganisation that fails half way forgets nothing.                   *)
(***************************************************************************)

\* Every block's kernel can be verified on any active chain (proof of work only),
\* and every stake modifier computed.
KernelsVerify == BadModifierBlock = {} /\ \A b \in Block : KernelBlock[b] = Genesis

\* Blocks fail only for the reasons of AcceptBlock and ConnectBlock.
FailedFor ==
  /\ failedValid \subseteq UnconnectableBlock \cup NonFinalBlock
  /\ haveData \cap NonFinalBlock = {}
  /\ \A b \in failedChild : \E a \in Chain[b] : a \in failedValid

\* x is a candidate, or a candidate that was the tip beats it.
Beaten(x) ==
  \/ x \in setBlockIndexCandidates
  \/ \E o \in setBlockIndexCandidates \cap (scriptsValid \cup {Genesis}) : Worse(x, o)

Kept == \A x \in linked : Eligible(x) /\ ~Worse(x, tip) => Beaten(x)

NoneWorse == \A c \in setBlockIndexCandidates : ~Worse(c, tip)

\* No candidate beats the chain a thread is working towards.
StepBest ==
  \A t \in Thread : pc[t] = "step" =>
    \A c \in setBlockIndexCandidates : ~Worse(pindexMostWork[t], c)

\* While a better block than the tip waits, a thread is on its way to look for it,
\* or one has failed on the way.
Going ==
  gaveUp \/ TipIsBest \/ \E t \in Thread : \/ pc[t] \in {"find", "step"}
                                           \/ pc[t] = "check" /\ pindexMostWork[t] # tip

BestInv == FailedFor /\ Kept /\ NoneWorse /\ StepBest /\ Going

\* The inductive invariant, beside IInv.
JInv == nOperator = 0 => cutShort = {} /\ BestInv

-----------------------------------------------------------------------------
\* CBlockIndexWorkComparator is a strict weak order.
LEMMA WorseOrder ==
  ASSUME NEW seq \in [Block -> Nat], NEW a \in Block, NEW b \in Block, NEW c \in Block
  PROVE  /\ ~WorseBy(seq, a, a)
         /\ WorseBy(seq, a, b) => ~WorseBy(seq, b, a)
         /\ WorseBy(seq, a, b) /\ WorseBy(seq, b, c) => WorseBy(seq, a, c)
         /\ ~WorseBy(seq, a, b) /\ ~WorseBy(seq, b, c) => ~WorseBy(seq, a, c)
         /\ WorseBy(seq, a, b) /\ ~WorseBy(seq, c, b) => WorseBy(seq, a, c)
         /\ ~WorseBy(seq, b, a) /\ WorseBy(seq, b, c) => WorseBy(seq, a, c)
  <1>1. /\ nChainWork[a] \in Nat /\ nChainWork[b] \in Nat /\ nChainWork[c] \in Nat
        /\ Address[a] \in Nat /\ Address[b] \in Nat /\ Address[c] \in Nat
        /\ seq[a] \in Nat /\ seq[b] \in Nat /\ seq[c] \in Nat
    BY TreeAssumption, Zenon
  <1>2. QED
    BY <1>1 DEF WorseBy

\* The blocks that comparisons are about.
LEMMA Compared ==
  ASSUME IInv
  PROVE  /\ nSequenceId \in [Block -> Nat] /\ tip \in Block /\ tip \in linked
         /\ linked \subseteq Block /\ setBlockIndexCandidates \subseteq linked
  BY Zenon DEF IInv, TypeOK

\* A block beats its predecessor.
LEMMA ChildBeats ==
  ASSUME NEW b \in Block \ {Genesis}, NEW seq
  PROVE  WorseBy(seq, pprev[b], b)
  BY TreeAssumption, Zenon DEF WorseBy

\* A block that passed ConnectBlock, and its ancestors, are not failed.
LEMMA ScriptsClean ==
  ASSUME IInv, FailedFor, NEW b \in scriptsValid \cup {Genesis}, b \in linked
  PROVE  Eligible(b)
  <1>1. Chain[b] \subseteq haveData /\ b \in Block
    BY Zenon DEF IInv, LinkSound, TypeOK
  <1>2. Chain[b] \cap (UnconnectableBlock \cup NonFinalBlock) = {}
    <2>1. Genesis \notin UnconnectableBlock
      BY BoundAssumption, Zenon
    <2>2. Chain[b] \cap UnconnectableBlock = {}
      BY <2>1, ChainFacts, Zenon DEF IInv, ScriptsClosed
    <2>3. QED
      BY <1>1, <2>2, Zenon DEF FailedFor
  <1>3. Chain[b] \cap failedValid = {}
    BY <1>2, Zenon DEF FailedFor
  <1>4. Chain[b] \cap failedChild = {}
    <2>1. ASSUME NEW a \in Chain[b], a \in failedChild PROVE FALSE
      <3>1. PICK c \in Chain[a] : c \in failedValid
        BY <2>1, Zenon DEF FailedFor
      <3>2. c \in Chain[b]
        BY <1>1, <3>1, ChainFacts, Zenon
      <3>3. QED
        BY <1>3, <3>1, <3>2, Zenon
    <2>2. QED
      BY <2>1, Zenon
  <1>5. QED
    BY <1>3, <1>4, Zenon DEF Eligible, Failed

\* The tip is eligible.
LEMMA TipEligible ==
  ASSUME IInv, cutShort = {}
  PROVE  Eligible(tip) /\ tip \in scriptsValid \cup {Genesis}
  <1>1. tip \in Chain[tip]
    BY ChainSelf, Zenon DEF IInv, TypeOK
  <1>2. QED
    BY <1>1, Zenon DEF IInv, Eligible, TypeOK, ActiveScripts

\* When a block beats the tip, so does a candidate.
LEMMA CandidateBeats ==
  ASSUME IInv, Kept, NEW x \in linked, Eligible(x), Worse(tip, x)
  PROVE  \E c \in setBlockIndexCandidates : Worse(tip, c) /\ ~Worse(c, x)
  <1>1. ~Worse(x, tip)
    BY Compared, WorseOrder, Zenon DEF Worse
  <1>2. Beaten(x)
    BY <1>1, Zenon DEF Kept
  <1>3. CASE x \in setBlockIndexCandidates
    BY <1>3, Compared, WorseOrder, Zenon DEF Worse
  <1>4. ASSUME NEW o \in setBlockIndexCandidates, Worse(x, o)
        PROVE  Worse(tip, o) /\ ~Worse(o, x)
    BY <1>4, Compared, WorseOrder, Zenon DEF Worse
  <1>5. QED
    BY <1>2, <1>3, <1>4, Zenon DEF Beaten

-----------------------------------------------------------------------------
\* A step that touches neither the tip, nor the candidates, nor a status bit of a
\* linked block.
SameIndex == UNCHANGED <<linked, failedValid, failedChild, setBlockIndexCandidates, scriptsValid, tip, nSequenceId>>

\* Such a step leaves the tip and the candidates what they were to each other.
LEMMA SameBest ==
  ASSUME BestInv, SameIndex, haveData' \cap NonFinalBlock = {}
  PROVE  FailedFor' /\ Kept' /\ NoneWorse' /\ (TipIsBest => TipIsBest')
  <1>1. FailedFor'
    BY Zenon DEF BestInv, FailedFor, SameIndex
  <1>2. Kept' /\ NoneWorse' /\ (TipIsBest => TipIsBest')
    BY Zenon DEF BestInv, Kept, NoneWorse, TipIsBest, Beaten, Eligible, Failed, Worse, SameIndex
  <1>3. QED
    BY <1>1, <1>2, Zenon

\* A thread that has just been sent to look for the best chain.
LEMMA GoingOn ==
  ASSUME NEW t \in Thread, pc'[t] \in {"find", "step"}
  PROVE  Going'
  BY Zenon DEF Going

\* A header changes nothing that is compared.
LEMMA HeadersBest ==
  ASSUME IInv, BestInv, NEW b \in Block, ProcessHeaders(b)
  PROVE  BestInv'
  <1>1. SameIndex /\ UNCHANGED <<haveData, pc, pindexMostWork, gaveUp>>
    BY Zenon DEF ProcessHeaders, SameIndex, failVars, stepVars, diskVars
  <1>2. FailedFor' /\ Kept' /\ NoneWorse' /\ (TipIsBest => TipIsBest')
    BY <1>1, SameBest, Zenon DEF BestInv, FailedFor
  <1>3. StepBest'
    BY <1>1, Zenon DEF BestInv, StepBest, SameIndex, Worse
  <1>4. Going'
    BY <1>1, <1>2, Zenon DEF BestInv, Going, SameIndex
  <1>5. QED
    BY <1>2, <1>3, <1>4, Zenon DEF BestInv

\* A block links, and its waiting descendants with it: those that beat the tip
\* become candidates, and nothing changes for the blocks already linked.
LEMMA LinkedBest ==
  ASSUME IInv, BestInv, NEW b \in Block, AcceptBlock(b), ReceivedLinked(b),
         nSequenceId' \in [Block -> Nat], UNCHANGED <<scriptsValid, tip>>
  PROVE  FailedFor' /\ Kept' /\ NoneWorse'
  <1> DEFINE U == Unlocked(b)
  <1>1. /\ linked' = linked \cup U /\ haveData' = haveData \cup {b} /\ b \notin haveData /\ b \notin NonFinalBlock
        /\ UNCHANGED <<failedValid, failedChild>>
        /\ \A x \in Block \ U : nSequenceId'[x] = nSequenceId[x]
        /\ setBlockIndexCandidates' = setBlockIndexCandidates \cup {x \in U : ~WorseBy(nSequenceId', x, tip)}
    BY Zenon DEF AcceptBlock, ReceivedLinked, failVars
  <1>2. U \cap linked = {}
    BY <1>1, Zenon DEF Unlocked, IInv, LinkSound
  <1> HIDE DEF U
  <1>3. \A x, y \in linked : Worse(x, y)' <=> Worse(x, y)
    <2>1. \A x \in linked : nSequenceId'[x] = nSequenceId[x]
      BY <1>1, <1>2, Compared, Zenon
    <2>2. QED
      BY <2>1, Zenon DEF Worse, WorseBy
  <1>4. FailedFor'
    BY <1>1, Zenon DEF BestInv, FailedFor
  <1>5. NoneWorse'
    BY <1>1, <1>3, Compared, Zenon DEF BestInv, NoneWorse, Worse
  <1>6. ASSUME NEW x \in linked', Eligible(x)', ~Worse(x, tip)'
        PROVE  Beaten(x)'
    <2>1. CASE x \in U
      BY <1>1, <1>6, <2>1, Zenon DEF Beaten, Worse
    <2>2. CASE x \in linked
      <3>1. Eligible(x) /\ ~Worse(x, tip)
        BY <1>1, <1>3, <1>6, <2>2, Compared, Zenon DEF Eligible, Failed
      <3>2. Beaten(x)
        BY <2>2, <3>1, Zenon DEF BestInv, Kept
      <3>3. QED
        BY <1>1, <1>3, <2>2, <3>2, Compared, Zenon DEF Beaten
    <2>3. QED
      BY <1>1, <2>1, <2>2, Zenon
  <1>7. Kept'
    BY <1>6, Zenon DEF Kept
  <1>8. QED
    BY <1>4, <1>5, <1>7, Zenon

\* ProcessNewBlock: the thread that stores a block goes on to ActivateBestChain.
LEMMA NewBlockBest ==
  ASSUME IInv, IInv', KernelsVerify, BestInv, NEW t \in Thread, NEW b \in Block, ProcessNewBlock(t, b)
  PROVE  BestInv'
  <1>1. /\ csMain = NoThread
        /\ \A u \in Thread : pc'[u] = pc[u] \/ pc'[u] = "find"
        /\ UNCHANGED <<pindexMostWork, scriptsValid, tip, gaveUp>>
    BY Zenon DEF ProcessNewBlock, IInv, TypeOK, diskVars
  <1>2. \A u \in Thread : pc'[u] # "step"
    BY <1>1, ChainFacts, Zenon DEF IInv, StepInv
  <1>3. StepBest'
    BY <1>2, Zenon DEF StepBest
  <1>4. \A x : ~Refused(b, x)
    BY Compared, ChainFacts, Zenon DEF KernelsVerify, VerifyHashTarget, Refused
  <1>5. CASE pc'[t] = "find" /\ SameIndex /\ haveData' \cap NonFinalBlock = {}
    BY <1>3, <1>5, SameBest, GoingOn, Zenon DEF BestInv
  <1>6. CASE pc'[t] = "find" /\ AcceptBlock(b) /\ ReceivedLinked(b)
    <2>1. nSequenceId' \in [Block -> Nat]
      BY Zenon DEF IInv, TypeOK
    <2>2. FailedFor' /\ Kept' /\ NoneWorse'
      BY <1>1, <1>6, <2>1, LinkedBest, Zenon
    <2>3. QED
      BY <1>3, <1>6, <2>2, GoingOn, Zenon DEF BestInv
  <1>7. CASE pc' = pc /\ AcceptBlockNonFinal(b)
    <2>1. /\ failedValid' = failedValid \cup {b} /\ b \in NonFinalBlock
          /\ UNCHANGED <<haveData, linked, nSequenceId, setBlockIndexCandidates, failedChild>>
      BY <1>7, Zenon DEF AcceptBlockNonFinal
    <2>2. FailedFor'
      BY <2>1, Zenon DEF BestInv, FailedFor
    <2>3. \A x \in linked : Eligible(x)' => Eligible(x)
      BY <2>1, Zenon DEF Eligible, Failed
    <2>4. \A x, y : Worse(x, y)' <=> Worse(x, y)
      BY <2>1, Zenon DEF Worse
    <2>5. Kept' /\ NoneWorse' /\ (TipIsBest => TipIsBest')
      BY <1>1, <2>1, <2>3, <2>4, Zenon DEF BestInv, Kept, NoneWorse, TipIsBest, Beaten
    <2>6. Going'
      BY <1>1, <1>7, <2>5, Zenon DEF BestInv, Going
    <2>7. QED
      BY <1>3, <2>2, <2>5, <2>6, Zenon DEF BestInv
  <1>8. \/ pc'[t] = "find" /\ SameIndex /\ haveData' \cap NonFinalBlock = {}
        \/ pc'[t] = "find" /\ AcceptBlock(b) /\ ReceivedLinked(b)
        \/ pc' = pc /\ AcceptBlockNonFinal(b)
    <2>1. CASE /\ b \in haveData
               /\ pc' = [pc EXCEPT ![t] = "find"]
               /\ UNCHANGED <<haveData, linked, nSequenceId, nBlockSequenceId, mapBlocksUnlinked,
                              failVars, setBlockIndexCandidates, setDirtyBlockIndex>>
      BY <1>1, <2>1, Zenon DEF SameIndex, failVars, BestInv, FailedFor, IInv, TypeOK
    <2>2. CASE AcceptBlock(b) /\ ReceivedUnlinked(b) /\ pc' = [pc EXCEPT ![t] = "find"]
      BY <1>1, <2>2 DEF AcceptBlock, ReceivedUnlinked, SameIndex, failVars, BestInv, FailedFor, IInv, TypeOK
    <2>3. CASE AcceptBlock(b) /\ ReceivedLinked(b) /\ pc' = [pc EXCEPT ![t] = "find"]
      BY <2>3, Zenon DEF IInv, TypeOK
    <2>4. CASE AcceptBlock(b) /\ ReceivedUnverified(b)
      BY <1>4, <2>4, Zenon DEF ReceivedUnverified
    <2>5. CASE AcceptBlockNonFinal(b) /\ UNCHANGED pc
      BY <2>5, Zenon
    <2>6. QED
      BY <2>1, <2>2, <2>3, <2>4, <2>5, Zenon DEF ProcessNewBlock
  <1>9. QED
    BY <1>5, <1>6, <1>7, <1>8, Zenon

-----------------------------------------------------------------------------
\* FindMostWorkChain discards a chain with a failed block: no eligible block, and
\* no block that was the tip, is on it.
LEMMA DiscardBest ==
  ASSUME IInv, BestInv, NEW t \in Thread, DiscardCandidate(t)
  PROVE  BestInv'
  <1>1. /\ pc[t] = "find"
        /\ UNCHANGED <<linked, haveData, nSequenceId, failedValid, scriptsValid, tip, pc, pindexMostWork>>
    BY Zenon DEF DiscardCandidate, indexVars
  <1>2. PICK b \in Block, x \in Block :
          /\ x \in Chain[b] /\ Failed(x)
          /\ failedChild' = failedChild \cup {y \in Chain[b] : nHeight[y] > nHeight[x]}
          /\ setBlockIndexCandidates' =
               setBlockIndexCandidates \ ({y \in Chain[b] : nHeight[y] > nHeight[x]} \cup {x})
    BY Zenon DEF DiscardCandidate, FirstFailed
  <1> DEFINE above == {y \in Chain[b] : nHeight[y] > nHeight[x]}
  <1>3. \A y \in above \cup {x} : x \in Chain[y] /\ y \in Block
    <2>1. ASSUME NEW y \in above PROVE x \in Chain[y] /\ y \in Block
      <3>1. y \in Block /\ nHeight[y] \in Nat /\ nHeight[x] \in Nat /\ nHeight[y] > nHeight[x]
        BY ChainSelf, TreeAssumption, Zenon
      <3>2. y \notin Chain[x]
        BY <3>1, TreeAssumption
      <3>3. QED
        BY <1>2, <3>1, <3>2, ChainFacts, Zenon
    <2>2. QED
      BY <2>1, ChainSelf, Zenon
  <1>4. \A y \in above \cup {x} : ~Eligible(y)
    BY <1>2, <1>3, Zenon DEF Eligible
  <1>5. FailedFor'
    <2>1. \E a \in Chain[x] : a \in failedValid
      BY <1>2, ChainSelf, Zenon DEF BestInv, FailedFor, Failed
    <2>2. \A y \in above : \E a \in Chain[y] : a \in failedValid
      BY <1>3, <2>1, ChainFacts, Zenon
    <2>3. QED
      BY <1>1, <1>2, <2>2, Zenon DEF BestInv, FailedFor
  <1>6. \A y \in linked : Eligible(y)' => Eligible(y)
    BY <1>1, <1>2, Zenon DEF Eligible, Failed
  <1>7. \A y, z : Worse(y, z)' <=> Worse(y, z)
    BY <1>1, Zenon DEF Worse
  <1>8. setBlockIndexCandidates' = setBlockIndexCandidates \ (above \cup {x})
    BY <1>2, Zenon
  <1> HIDE DEF above
  <1>9. \A o \in setBlockIndexCandidates \cap (scriptsValid \cup {Genesis}) : o \in setBlockIndexCandidates'
    BY <1>4, <1>8, ScriptsClean, Compared, Zenon DEF BestInv
  <1>10. Kept'
    <2> SUFFICES ASSUME NEW y \in linked, Eligible(y), ~Worse(y, tip) PROVE Beaten(y)'
      BY <1>1, <1>6, <1>7, Zenon DEF Kept
    <2>1. Beaten(y)
      BY Zenon DEF BestInv, Kept
    <2>2. QED
      BY <1>1, <1>4, <1>7, <1>8, <1>9, <2>1, Zenon DEF Beaten
  <1>11. NoneWorse' /\ StepBest'
    BY <1>1, <1>7, <1>8, Zenon DEF BestInv, NoneWorse, StepBest
  <1>12. QED
    BY <1>1, <1>5, <1>10, <1>11, GoingOn, Zenon DEF BestInv

\* FindMostWorkChain returns the best candidate, or finds that the tip is best.
LEMMA FindBest ==
  ASSUME IInv, BestInv, NEW t \in Thread, FindMostWorkChain(t) \/ NothingToDo(t) \/ CheckLoop(t)
  PROVE  BestInv'
  <1>1. SameIndex /\ haveData' = haveData
    BY Zenon DEF FindMostWorkChain, NothingToDo, CheckLoop, SameIndex, indexVars, failVars
  <1>2. FailedFor' /\ Kept' /\ NoneWorse' /\ (TipIsBest => TipIsBest')
    BY <1>1, SameBest, Zenon DEF BestInv, FailedFor
  <1>3. /\ \A y, z : Worse(y, z)' <=> Worse(y, z)
        /\ setBlockIndexCandidates' = setBlockIndexCandidates /\ tip' = tip
    BY <1>1, Zenon DEF SameIndex, Worse
  <1>4. CASE FindMostWorkChain(t)
    <2>1. PICK b \in Block : IsBestCandidate(b) /\ pindexMostWork' = [pindexMostWork EXCEPT ![t] = b]
      BY <1>4, Zenon DEF FindMostWorkChain
    <2>2. pc' = [pc EXCEPT ![t] = "step"]
      BY <1>4, Zenon DEF FindMostWorkChain
    <2>3. \A c \in setBlockIndexCandidates : ~Worse(b, c)
      BY <2>1, Compared, WorseOrder, Zenon DEF IsBestCandidate, Worse
    <2>4. \A u \in Thread \ {t} : pc'[u] = pc[u] /\ pindexMostWork'[u] = pindexMostWork[u]
      BY <2>1, <2>2, Zenon DEF IInv, TypeOK
    <2>5. pindexMostWork'[t] = b /\ pc'[t] = "step"
      BY <2>1, <2>2, Zenon DEF IInv, TypeOK
    <2>6. StepBest'
      BY <1>3, <2>3, <2>4, <2>5, Zenon DEF BestInv, StepBest
    <2>7. QED
      BY <1>2, <2>5, <2>6, GoingOn, Zenon DEF BestInv
  <1>5. CASE NothingToDo(t)
    <2>1. pc' = [pc EXCEPT ![t] = "idle"] /\ pindexMostWork' = pindexMostWork
      BY <1>5, Zenon DEF NothingToDo, Return
    <2>2. StepBest'
      BY <1>3, <2>1, Zenon DEF BestInv, StepBest, IInv, TypeOK
    <2>3. setBlockIndexCandidates = {} \/ IsBestCandidate(tip)
      BY <1>5, Zenon DEF NothingToDo
    <2>4. \A c \in setBlockIndexCandidates : ~Worse(tip, c)
      BY <2>3, Compared, WorseOrder, Zenon DEF IsBestCandidate, Worse
    <2>5. TipIsBest
      BY <2>4, CandidateBeats, Zenon DEF TipIsBest, BestInv
    <2>6. QED
      BY <1>2, <2>2, <2>5, Zenon DEF BestInv, Going
  <1>6. CASE CheckLoop(t)
    <2>1. /\ pc[t] = "check" /\ pindexMostWork' = pindexMostWork
          /\ pc' = [pc EXCEPT ![t] = IF pindexMostWork[t] # tip THEN "find" ELSE "idle"]
          /\ gaveUp' = gaveUp
      BY <1>6, Zenon DEF CheckLoop, diskVars
    <2>2. /\ \A u \in Thread \ {t} : pc'[u] = pc[u]
          /\ pc'[t] = IF pindexMostWork[t] # tip THEN "find" ELSE "idle"
      BY <2>1, Zenon DEF IInv, TypeOK
    <2>3. StepBest'
      BY <1>3, <2>1, <2>2 DEF BestInv, StepBest
    <2>4. Going'
      BY <1>2, <1>3, <2>1, <2>2, Zenon DEF BestInv, Going
    <2>5. QED
      BY <1>2, <2>3, <2>4, Zenon DEF BestInv
  <1>7. QED
    BY <1>4, <1>5, <1>6, Zenon

-----------------------------------------------------------------------------
\* ActivateBestChainStep moves the tip back: what it beat is beaten by it, or by
\* what beats it.
LEMMA DisconnectBest ==
  ASSUME IInv, cutShort = {}, BestInv, NEW t \in Thread, DisconnectTip(t)
  PROVE  BestInv'
  <1>1. /\ pc[t] = "step" /\ tip \notin Chain[pindexMostWork[t]] /\ tip' = pprev[tip]
        /\ UNCHANGED <<linked, haveData, nSequenceId, failedValid, failedChild, scriptsValid,
                       setBlockIndexCandidates, pc, pindexMostWork>>
    BY Zenon DEF DisconnectTip, indexVars, failVars, stepVars
  <1>2. pindexMostWork[t] \in Block
    BY <1>1, Zenon DEF IInv, StepInv, TypeOK
  <1>3. tip \in Block \ {Genesis}
    BY <1>1, <1>2, Compared, ChainFacts, Zenon
  <1>4. tip' \in Block /\ Worse(tip', tip)
    BY <1>1, <1>3, ChildBeats, ChainPprev, Zenon DEF Worse
  <1>5. \A y, z : Worse(y, z)' <=> WorseBy(nSequenceId, y, z)
    BY <1>1, Zenon DEF Worse
  <1>6. Worse(tip', tip) <=> WorseBy(nSequenceId, tip', tip)
    BY Zenon DEF Worse
  <1>7. FailedFor'
    BY <1>1, Zenon DEF BestInv, FailedFor
  <1>8. NoneWorse'
    BY <1>1, <1>4, <1>5, Compared, WorseOrder, Zenon DEF BestInv, NoneWorse, Worse
  <1>9. ASSUME NEW x \in linked, Eligible(x) PROVE Beaten(x) \/ WorseBy(nSequenceId, x, tip')
    <2>1. CASE ~Worse(x, tip)
      BY <1>9, <2>1, Zenon DEF BestInv, Kept
    <2>2. CASE Worse(x, tip)
      <3>1. Beaten(tip) /\ tip \in scriptsValid \cup {Genesis}
        BY TipEligible, Compared, WorseOrder, Zenon DEF BestInv, Kept, Worse
      <3>2. ASSUME NEW o \in setBlockIndexCandidates, Worse(tip, o) PROVE Worse(x, o)
        BY <2>2, <3>2, Compared, WorseOrder, Zenon DEF Worse
      <3>3. QED
        BY <2>2, <3>1, <3>2, Zenon DEF Beaten
    <2>3. QED
      BY <2>1, <2>2, Zenon
  <1>10. Kept'
    <2>1. \A x \in linked : (Beaten(x)' <=> Beaten(x)) /\ (Eligible(x)' <=> Eligible(x))
      BY <1>1, Zenon DEF Beaten, Worse, Eligible, Failed
    <2>2. QED
      BY <1>1, <1>5, <1>9, <2>1, Zenon DEF Kept
  <1>11. StepBest'
    BY <1>1, Zenon DEF BestInv, StepBest, Worse
  <1>12. QED
    BY <1>1, <1>7, <1>8, <1>10, <1>11, GoingOn, Zenon DEF BestInv

\* ActivateBestChainStep connects a block: PruneBlockIndexCandidates drops only
\* what is worse than it, and when it is the chain's end nothing beats it.
LEMMA ConnectBest ==
  ASSUME IInv, BestInv, NEW t \in Thread, ConnectTip(t)
  PROVE  BestInv'
  <1>1. PICK b \in Block \ UnconnectableBlock :
          /\ NextToConnect(t, b) /\ tip' = b /\ scriptsValid' = scriptsValid \cup {b}
          /\ setBlockIndexCandidates' = {c \in setBlockIndexCandidates : ~Worse(c, b)}
          /\ Unlock(t) \/ UNCHANGED stepVars
    BY Zenon DEF ConnectTip, PruneBlockIndexCandidates
  <1>2. /\ UNCHANGED <<linked, haveData, nSequenceId, failedValid, failedChild>>
        /\ pindexMostWork' = pindexMostWork
        /\ pc[t] = "step" /\ b \in Block \ {Genesis} /\ pprev[b] = tip
    BY <1>1, Zenon DEF ConnectTip, indexVars, failVars, Unlock, stepVars, NextToConnect
  <1>3. Worse(tip, b)
    BY <1>2, ChildBeats, Zenon DEF Worse
  <1>4. /\ \A y, z : Worse(y, z)' <=> Worse(y, z)
        /\ \A y \in linked : Eligible(y)' <=> Eligible(y)
    BY <1>2, Zenon DEF Worse, Eligible, Failed
  <1>5. FailedFor'
    BY <1>2, Zenon DEF BestInv, FailedFor
  <1>6. NoneWorse'
    BY <1>1, <1>4, Zenon DEF NoneWorse
  <1>7. ASSUME NEW x \in linked, Eligible(x), ~Worse(x, b) PROVE Beaten(x)'
    <2>1. ~Worse(x, tip)
      BY <1>2, <1>3, <1>7, Compared, WorseOrder, Zenon DEF Worse
    <2>2. Beaten(x)
      BY <1>7, <2>1, Zenon DEF BestInv, Kept
    <2>3. ASSUME NEW o \in setBlockIndexCandidates, Worse(x, o) PROVE ~Worse(o, b)
      BY <1>2, <1>7, <2>3, Compared, WorseOrder, Zenon DEF Worse
    <2>4. QED
      BY <1>1, <1>4, <1>7, <2>2, <2>3, Zenon DEF Beaten
  <1>8. Kept'
    BY <1>1, <1>2, <1>4, <1>7, Zenon DEF Kept
  <1>9. \A u \in Thread : pc'[u] = "step" => pc[u] = "step"
    BY <1>1, Zenon DEF Unlock, stepVars, IInv, TypeOK
  <1>10. StepBest'
    BY <1>1, <1>2, <1>4, <1>9, Zenon DEF BestInv, StepBest
  <1>11. Going'
    <2>1. CASE pc'[t] = "step"
      BY <2>1, GoingOn, Zenon
    <2>2. CASE pc'[t] # "step" /\ b # pindexMostWork[t]
      <3>1. pc'[t] = "check"
        BY <1>1, <1>2, <2>2, Zenon DEF Unlock, stepVars, IInv, TypeOK
      <3>2. QED
        BY <1>1, <1>2, <2>2, <3>1, Zenon DEF Going
    <2>3. CASE b = pindexMostWork[t]
      <3>1. ASSUME NEW x \in linked, Eligible(x), Worse(b, x) PROVE FALSE
        <4>1. ~Worse(x, b)
          BY <1>2, <3>1, Compared, WorseOrder, Zenon DEF Worse
        <4>2. Beaten(x)'
          BY <1>7, <3>1, <4>1, Zenon
        <4>3. PICK c \in setBlockIndexCandidates : c = x \/ Worse(x, c)
          BY <1>1, <1>4, <4>2, Zenon DEF Beaten
        <4>4. Worse(b, c)
          BY <1>2, <3>1, <4>3, Compared, WorseOrder, Zenon DEF Worse
        <4>5. QED
          BY <1>2, <2>3, <4>4, Zenon DEF BestInv, StepBest
      <3>2. TipIsBest'
        BY <1>1, <1>2, <1>4, <3>1, Zenon DEF TipIsBest
      <3>3. QED
        BY <3>2, Zenon DEF Going
    <2>4. QED
      BY <2>1, <2>2, <2>3, Zenon
  <1>12. QED
    BY <1>5, <1>6, <1>8, <1>10, <1>11, Zenon DEF BestInv

\* InvalidBlockFound drops a block that never was the tip, and the loop goes on.
LEMMA InvalidBest ==
  ASSUME IInv, BestInv, NEW t \in Thread, ConnectTipInvalid(t)
  PROVE  BestInv'
  <1>1. PICK b \in UnconnectableBlock :
          /\ NextToConnect(t, b) /\ failedValid' = failedValid \cup {b}
          /\ setBlockIndexCandidates' = setBlockIndexCandidates \ {b}
    BY Zenon DEF ConnectTipInvalid
  <1>2. /\ UNCHANGED <<linked, haveData, nSequenceId, failedChild, scriptsValid, tip, pindexMostWork>>
        /\ pc' = [pc EXCEPT ![t] = "check"]
    BY Zenon DEF ConnectTipInvalid, indexVars, Unlock
  <1>3. b \in Block \ {Genesis} /\ b \notin scriptsValid
    BY BoundAssumption, Zenon DEF IInv, ScriptsClosed
  <1>4. pindexMostWork[t] # tip
    BY <1>1, <1>3, TreeAssumption, Zenon DEF NextToConnect
  <1>5. \A y, z : Worse(y, z)' <=> Worse(y, z)
    BY <1>2, Zenon DEF Worse
  <1>6. \A y \in linked : Eligible(y)' => Eligible(y) /\ y # b
    <2>1. \A y \in linked : y \in Chain[y]
      BY Compared, ChainSelf, Zenon
    <2>2. QED
      BY <1>1, <1>2, <2>1, Zenon DEF Eligible, Failed
  <1>7. FailedFor'
    BY <1>1, <1>2, Zenon DEF BestInv, FailedFor
  <1>8. Kept'
    BY <1>1, <1>2, <1>3, <1>5, <1>6, Zenon DEF BestInv, Kept, Beaten
  <1>9. NoneWorse'
    BY <1>1, <1>2, <1>5, Zenon DEF BestInv, NoneWorse
  <1>10. StepBest'
    BY <1>1, <1>2, <1>5, Zenon DEF BestInv, StepBest, IInv, TypeOK
  <1>11. Going'
    BY <1>2, <1>4, Zenon DEF Going, IInv, TypeOK
  <1>12. QED
    BY <1>7, <1>8, <1>9, <1>10, <1>11, Zenon DEF BestInv

\* A failure of the disk leaves the tip where it is, and forgets nothing.
LEMMA FailBest ==
  ASSUME IInv, BestInv, NEW t \in Thread, FailStep(t)
  PROVE  BestInv'
  <1>1. /\ UNCHANGED <<linked, haveData, nSequenceId, failedValid, failedChild, setBlockIndexCandidates,
                       tip, pindexMostWork>>
        /\ scriptsValid \subseteq scriptsValid'
        /\ pc' = [pc EXCEPT ![t] = "idle"] /\ gaveUp'
    BY Zenon DEF FailStep, indexVars, failVars, Return
  <1>2. FailedFor' /\ Kept' /\ NoneWorse'
    BY <1>1, Zenon DEF BestInv, FailedFor, Kept, NoneWorse, Beaten, Eligible, Failed, Worse
  <1>3. StepBest'
    BY <1>1, Zenon DEF BestInv, StepBest, Worse, IInv, TypeOK
  <1>4. QED
    BY <1>1, <1>2, <1>3, Zenon DEF BestInv, Going

-----------------------------------------------------------------------------
\* At the start genesis is the tip and the only candidate.
LEMMA InitJInv == Init => JInv
  <1> SUFFICES ASSUME Init PROVE BestInv
    BY Zenon DEF JInv, Init
  <1>1. IInv
    BY InitIInv, Zenon
  <1>2. ~Worse(Genesis, Genesis)
    BY <1>1, Compared, WorseOrder, TreeAssumption, Zenon DEF Worse
  <1>3. FailedFor
    BY BoundAssumption, Zenon DEF Init, FailedFor
  <1>4. Kept /\ NoneWorse /\ TipIsBest
    BY <1>2, Zenon DEF Init, Kept, NoneWorse, Beaten, TipIsBest
  <1>5. StepBest
    BY Zenon DEF Init, StepBest
  <1>6. QED
    BY <1>3, <1>4, <1>5, Zenon DEF BestInv, Going

\* Every step of the node keeps the invariant; an operator's command ends what it
\* is about.
LEMMA NextJInv ==
  ASSUME KernelsVerify, IInv, IInv', JInv, [Next]_vars
  PROVE  JInv'
  <1>1. CASE UNCHANGED vars
    <2>1. SameIndex /\ UNCHANGED <<haveData, pc, pindexMostWork, nOperator, gaveUp, cutShort>>
      BY <1>1, Zenon DEF vars, indexVars, failVars, stepVars, diskVars, SameIndex
    <2>2. SUFFICES ASSUME BestInv PROVE BestInv'
      BY <2>1, Zenon DEF JInv
    <2>3. FailedFor' /\ Kept' /\ NoneWorse' /\ (TipIsBest => TipIsBest')
      BY <2>1, <2>2, SameBest, Zenon DEF BestInv, FailedFor
    <2>4. StepBest' /\ Going'
      BY <2>1, <2>2, <2>3, Zenon DEF BestInv, StepBest, Going, SameIndex, Worse
    <2>5. QED
      BY <2>3, <2>4, Zenon DEF BestInv
  <1>2. CASE /\ UNCHANGED <<nOperator, cutShort>>
             /\ \/ \E b \in Block : ProcessHeaders(b)
                \/ \E t \in Thread, b \in Block : ProcessNewBlock(t, b)
                \/ \E t \in Thread : Activate(t) \/ FailStep(t)
    <2>1. SUFFICES ASSUME BestInv, cutShort = {} PROVE BestInv'
      BY <1>2, Zenon DEF JInv
    <2>2. QED
      BY <1>2, <2>1, HeadersBest, NewBlockBest, DiscardBest, FindBest, DisconnectBest, ConnectBest,
         InvalidBest, FailBest, Zenon DEF Activate
  <1>4. CASE \E t \in Thread, b \in Block :
               InvalidateBlock(t, b) \/ FailInvalidate(t, b) \/ ReconsiderBlock(t, b)
    <2>1. nOperator' = nOperator + 1
      BY <1>4 DEF InvalidateBlock, FailInvalidate, ReconsiderBlock, Operator
    <2>2. nOperator \in Nat
      BY BoundAssumption DEF IInv, TypeOK
    <2>3. QED
      BY <2>1, <2>2 DEF JInv
  <1>5. ASSUME NEW t \in Thread, Activate(t) \/ FailStep(t) PROVE UNCHANGED <<nOperator, cutShort>>
    BY <1>5, Zenon DEF Activate, DiscardCandidate, FindMostWorkChain, NothingToDo, DisconnectTip, ConnectTip,
                ConnectTipInvalid, CheckLoop, FailStep, diskVars
  <1>6. ASSUME NEW t \in Thread, NEW b \in Block, ProcessHeaders(b) \/ ProcessNewBlock(t, b)
        PROVE  UNCHANGED <<nOperator, cutShort>>
    BY <1>6, Zenon DEF ProcessHeaders, ProcessNewBlock, diskVars
  <1>7. ASSUME NEW b \in Block, ProcessHeaders(b) PROVE UNCHANGED <<nOperator, cutShort>>
    BY <1>7, Zenon DEF ProcessHeaders, diskVars
  <1>8. QED
    BY <1>1, <1>2, <1>4, <1>5, <1>6, <1>7, Zenon DEF Next

\* What the invariant says of the tip and of the candidates.
LEMMA JInvImplies ==
  ASSUME IInv, JInv, nOperator = 0
  PROVE  BestIsCandidate /\ RestsOnBest
  <1>1. BestInv
    BY Zenon DEF JInv
  <1>2. ASSUME NEW b \in linked, Eligible(b), ~Worse(b, tip)
        PROVE  \E c \in setBlockIndexCandidates : Eligible(c) /\ ~Worse(c, b)
    <2>1. Beaten(b)
      BY <1>1, <1>2, Zenon DEF BestInv, Kept
    <2>2. ~Worse(b, b)
      BY Compared, WorseOrder, Zenon DEF Worse
    <2>3. ASSUME NEW o \in setBlockIndexCandidates \cap (scriptsValid \cup {Genesis}), Worse(b, o)
          PROVE  Eligible(o) /\ ~Worse(o, b)
      <3>1. Eligible(o)
        BY <1>1, ScriptsClean, Compared, Zenon DEF BestInv
      <3>2. ~Worse(o, b)
        BY <2>3, Compared, WorseOrder, Zenon DEF Worse
      <3>3. QED
        BY <3>1, <3>2, Zenon
    <2>4. QED
      BY <1>2, <2>1, <2>2, <2>3, Zenon DEF Beaten
  <1>3. BestIsCandidate
    BY <1>1, <1>2, Zenon DEF BestIsCandidate, BestInv, NoneWorse
  <1>4. RestsOnBest
    BY <1>1, Zenon DEF BestInv, Going, RestsOnBest
  <1>5. QED
    BY <1>3, <1>4, Zenon

-----------------------------------------------------------------------------
(* The links of the block index.                                           *)

LinkedIs(b) ==
  /\ b \in linked <=> Chain[b] \subseteq haveData
  /\ b \in mapBlocksUnlinked <=> b \in haveData \ linked
  /\ b \in linked <=> nSequenceId[b] > 0

\* The inductive invariant of the links: a failed block is linked, so that
\* ReceivedBlockTransactions enters every waiting block in mapBlocksUnlinked.
LInv ==
  nOperator = 0 =>
    /\ failedValid \cup failedChild \subseteq linked
    /\ nBlockSequenceId > 0
    /\ \A b \in Block : LinkedIs(b)

\* At the start genesis is the only block there is data for.
LEMMA InitLInv == Init => LInv
  <1> SUFFICES ASSUME Init PROVE LInv
    BY Zenon
  <1>1. \A b \in Block : Chain[b] \subseteq {Genesis} <=> b = Genesis
    BY ChainSelf, ChainFacts, Zenon
  <1>2. \A b \in Block : LinkedIs(b)
    BY <1>1 DEF Init, LinkedIs
  <1>3. failedValid = {} /\ failedChild = {} /\ nBlockSequenceId > 0
    BY DEF Init
  <1>4. QED
    BY <1>2, <1>3, Zenon DEF LInv

\* A block whose parent is not linked waits.
LEMMA WaitsExact ==
  ASSUME IInv, nOperator = 0, LInv, NEW b \in Block \ {Genesis}, AcceptBlock(b), ReceivedUnlinked(b)
  PROVE  nBlockSequenceId' > 0 /\ \A x \in Block : LinkedIs(x)'
  <1>1. /\ b \notin haveData /\ haveData' = haveData \cup {b} /\ pprev[b] \notin linked
        /\ UNCHANGED <<linked, nSequenceId, nBlockSequenceId>>
    BY Zenon DEF AcceptBlock, ReceivedUnlinked
  <1>2. ~Failed(pprev[b])
    BY <1>1, Zenon DEF LInv, Failed
  <1>3. mapBlocksUnlinked' = mapBlocksUnlinked \cup {b}
    BY <1>2, Zenon DEF ReceivedUnlinked
  <1>4. \A x \in Block : LinkedIs(x)
    BY Zenon DEF LInv
  <1>5. ASSUME NEW x \in Block, Chain[x] \subseteq haveData \cup {b} PROVE Chain[x] \subseteq haveData
    <2>1. CASE b \notin Chain[x]
      BY <1>5, <2>1, Zenon
    <2>2. CASE b \in Chain[x]
      <3>1. Chain[pprev[b]] \subseteq Chain[x] /\ pprev[b] \in Block /\ b \notin Chain[pprev[b]]
        BY <2>2, ChainPprev, ChainFacts, TreeAssumption, Zenon
      <3>2. Chain[pprev[b]] \subseteq haveData
        BY <1>5, <3>1, Zenon
      <3>3. QED
        BY <1>1, <1>4, <3>1, <3>2, Zenon DEF LinkedIs
    <2>3. QED
      BY <2>1, <2>2, Zenon
  <1>6. b \notin linked
    BY <1>1, Zenon DEF IInv, TypeOK
  <1>7. QED
    BY <1>1, <1>3, <1>4, <1>5, <1>6, Zenon DEF LinkedIs, LInv

\* The queue of ReceivedBlockTransactions reaches exactly the blocks whose last
\* missing ancestor has come.
LEMMA UnlockedExact ==
  ASSUME IInv, nOperator = 0, LInv, NEW b \in Block \ {Genesis}, b \notin haveData, pprev[b] \in linked,
         NEW x \in Block
  PROVE  x \in linked \cup Unlocked(b) <=> Chain[x] \subseteq haveData \cup {b}
  <1>1. ASSUME x \in linked \cup Unlocked(b) PROVE Chain[x] \subseteq haveData \cup {b}
    <2>1. CASE x \in linked
      BY <2>1, Zenon DEF IInv, LinkSound
    <2>2. CASE x \in Unlocked(b)
      BY <2>2, UnlockedLinks, Zenon DEF IInv
    <2>3. QED
      BY <1>1, <2>1, <2>2, Zenon
  <1>2. ASSUME Chain[x] \subseteq haveData \cup {b}, b \notin Chain[x] PROVE x \in linked
    BY <1>2, Zenon DEF LInv, LinkedIs
  <1>3. ASSUME Chain[x] \subseteq haveData \cup {b}, b \in Chain[x] PROVE x \in Unlocked(b)
    <2>1. ASSUME NEW y \in Chain[x] \ Chain[b] PROVE y \in mapBlocksUnlinked
      <3>1. y \in Block /\ b \in Chain[y] /\ y # b
        BY <1>3, ChainSelf, ChainFacts, Zenon
      <3>2. y \in haveData
        BY <1>3, <3>1, Zenon
      <3>3. y \notin linked
        BY <3>1, Zenon DEF IInv, LinkSound
      <3>4. QED
        BY <3>1, <3>2, <3>3, Zenon DEF LInv, LinkedIs
    <2>2. x = b \/ x \notin Chain[b]
      <3>1. x # b /\ x \in Chain[b] => nHeight[x] < nHeight[b] /\ nHeight[b] < nHeight[x]
        BY <1>3, TreeAssumption, Zenon
      <3>2. nHeight[x] \in Nat /\ nHeight[b] \in Nat
        BY TreeAssumption, Zenon
      <3>3. QED
        BY <3>1, <3>2
    <2>3. x \in mapBlocksUnlinked \cup {b}
      BY <2>1, <2>2, ChainSelf, Zenon
    <2>4. QED
      BY <1>3, <2>1, <2>3, Zenon DEF Unlocked
  <1>4. QED
    BY <1>1, <1>2, <1>3, Zenon

\* A block whose parent is linked is linked at once, and the blocks that waited
\* for it with it.
LEMMA LinksNow ==
  ASSUME IInv, nOperator = 0, LInv, NEW b \in Block \ {Genesis}, AcceptBlock(b), ReceivedLinked(b)
  PROVE  nBlockSequenceId' > 0 /\ \A x \in Block : LinkedIs(x)'
  <1> DEFINE U == Unlocked(b)
  <1>1. /\ b \notin haveData /\ haveData' = haveData \cup {b} /\ pprev[b] \in linked
        /\ linked' = linked \cup U /\ mapBlocksUnlinked' = mapBlocksUnlinked \ U
        /\ nBlockSequenceId' = nBlockSequenceId + Cardinality(U)
    BY Zenon DEF AcceptBlock, ReceivedLinked
  <1>2. U \subseteq mapBlocksUnlinked \cup {b} /\ b \in U /\ Cardinality(U) \in Nat
    BY UnlockedFacts, Zenon DEF IInv
  <1>3. nBlockSequenceId \in Nat /\ nBlockSequenceId > 0
    BY Zenon DEF LInv, IInv, TypeOK
  <1>4. PICK f \in QueueOrders(U) : nSequenceId' = [x \in Block |-> IF x \in U THEN f[x] ELSE nSequenceId[x]]
    BY Zenon DEF ReceivedLinked
  <1>5. \A x \in U : f[x] > 0
    <2>1. f \in [U -> nBlockSequenceId .. (nBlockSequenceId + Cardinality(U) - 1)]
      BY Zenon DEF QueueOrders
    <2> HIDE DEF U
    <2>2. QED
      BY <1>2, <1>3, <2>1
  <1>6. \A x \in Block : x \in linked \cup U <=> Chain[x] \subseteq haveData \cup {b}
    BY <1>1, UnlockedExact, Zenon
  <1> HIDE DEF U
  <1>7. \A x \in Block : LinkedIs(x)
    BY Zenon DEF LInv
  <1>8. ASSUME NEW x \in Block PROVE LinkedIs(x)'
    <2>1. x \in linked' <=> Chain[x] \subseteq haveData'
      BY <1>1, <1>6, Zenon
    <2>2. x \in mapBlocksUnlinked' <=> x \in haveData' \ linked'
      BY <1>1, <1>2, <1>7, Zenon DEF LinkedIs
    <2>3. x \in linked' <=> nSequenceId'[x] > 0
      BY <1>1, <1>4, <1>5, <1>7, Zenon DEF LinkedIs
    <2>4. QED
      BY <2>1, <2>2, <2>3, Zenon DEF LinkedIs
  <1>9. QED
    BY <1>1, <1>2, <1>3, <1>8

\* Every step keeps the links exact, as long as no block is refused for a
\* transaction that is not final.
LEMMA NextLInv ==
  ASSUME KernelsVerify, NonFinalBlock = {}, IInv, LInv, [Next]_vars
  PROVE  LInv'
  <1> DEFINE Links == <<linked, haveData, nSequenceId, nBlockSequenceId, mapBlocksUnlinked>>
  <1>1. ASSUME UNCHANGED <<Links, nOperator>>,
               nOperator = 0 => failedValid' \cup failedChild' \subseteq failedValid \cup failedChild \cup linked
        PROVE  LInv'
    BY <1>1, Zenon DEF LInv, LinkedIs
  <1>2. CASE UNCHANGED vars
    BY <1>1, <1>2, Zenon DEF vars, indexVars, failVars
  <1>3. ASSUME NEW b \in Block, ProcessHeaders(b) PROVE LInv'
    BY <1>1, <1>3, Zenon DEF ProcessHeaders, failVars
  <1>4. ASSUME NEW t \in Thread, NEW b \in Block, ProcessNewBlock(t, b) PROVE LInv'
    <2>1. nOperator' = nOperator /\ \A x : ~Refused(b, x)
      BY <1>4, Compared, ChainFacts, Zenon DEF ProcessNewBlock, KernelsVerify, VerifyHashTarget, Refused
    <2>2. CASE b \in haveData /\ UNCHANGED <<Links, failVars>>
      BY <1>1, <2>1, <2>2, Zenon DEF failVars
    <2>3. CASE AcceptBlock(b) /\ (ReceivedUnlinked(b) \/ ReceivedLinked(b))
      <3>1. SUFFICES ASSUME nOperator = 0 PROVE LInv'
        BY <2>1, Zenon DEF LInv
      <3>2. b \in Block \ {Genesis}
        BY <2>3, Compared, ChainFacts, Zenon DEF AcceptBlock, IInv, LinkSound
      <3>3. nBlockSequenceId' > 0 /\ \A x \in Block : LinkedIs(x)'
        BY <2>3, <3>1, <3>2, WaitsExact, LinksNow, Zenon
      <3>4. (failedValid \cup failedChild \subseteq linked)'
        BY <2>3, <3>1, Zenon DEF AcceptBlock, failVars, ReceivedUnlinked, ReceivedLinked, LInv
      <3>5. QED
        BY <3>3, <3>4, Zenon DEF LInv
    <2>4. QED
      BY <1>4, <2>1, <2>2, <2>3, Zenon DEF ProcessNewBlock, ReceivedUnverified, AcceptBlockNonFinal, AcceptBlock
  <1>5. ASSUME NEW t \in Thread, Activate(t) \/ FailStep(t) PROVE LInv'
    <2>1. CASE DiscardCandidate(t)
      <3>1. PICK b \in Block : IsBestCandidate(b) /\ failedChild' \subseteq failedChild \cup Chain[b]
        BY <2>1, Zenon DEF DiscardCandidate
      <3>2. Chain[b] \subseteq linked
        BY <3>1, Compared, Zenon DEF IsBestCandidate, IInv, LinkSound
      <3>3. QED
        BY <1>1, <2>1, <3>1, <3>2, Zenon DEF DiscardCandidate, indexVars
    <2>2. CASE ConnectTipInvalid(t)
      <3>1. PICK b \in UnconnectableBlock : NextToConnect(t, b) /\ failedValid' = failedValid \cup {b}
        BY <2>2, Zenon DEF ConnectTipInvalid
      <3>2. b \in linked
        BY <3>1, Zenon DEF NextToConnect, IInv, StepInv, LinkSound
      <3>3. QED
        BY <1>1, <2>2, <3>1, <3>2, Zenon DEF ConnectTipInvalid, indexVars
    <2>3. CASE \/ FindMostWorkChain(t) \/ NothingToDo(t) \/ DisconnectTip(t) \/ ConnectTip(t)
               \/ CheckLoop(t) \/ FailStep(t)
      BY <1>1, <2>3, Zenon DEF FindMostWorkChain, NothingToDo, DisconnectTip, ConnectTip, CheckLoop, FailStep,
                        indexVars, failVars
    <2>4. QED
      BY <1>5, <2>1, <2>2, <2>3, Zenon DEF Activate
  <1>6. ASSUME NEW t \in Thread, NEW b \in Block,
               InvalidateBlock(t, b) \/ FailInvalidate(t, b) \/ ReconsiderBlock(t, b)
        PROVE  LInv'
    <2>1. nOperator' = nOperator + 1
      BY <1>6, Zenon DEF InvalidateBlock, FailInvalidate, ReconsiderBlock, Operator
    <2>2. nOperator \in Nat
      BY BoundAssumption DEF IInv, TypeOK
    <2>3. QED
      BY <2>1, <2>2 DEF LInv
  <1>7. QED
    BY <1>2, <1>3, <1>4, <1>5, <1>6, Zenon DEF Next

-----------------------------------------------------------------------------
\* "The result is either failure or an activated best chain": on every tree of
\* proof-of-work blocks, with any number of threads in ActivateBestChain and any
\* reorganisation failing half way, for an invalid block or for the disk, no
\* eligible block that beats the tip is forgotten, as long as the operator has
\* given no command.
THEOREM BestIsAlwaysCandidate ==
  ASSUME KernelsVerify
  PROVE  Spec => [](nOperator = 0 => BestIsCandidate)
  <1>1. IInv /\ IInv' /\ JInv /\ [Next]_vars => JInv'
    BY NextJInv, Zenon
  <1>2. IInv /\ JInv => (nOperator = 0 => BestIsCandidate)
    BY JInvImplies, Zenon
  <1>3. QED
    BY <1>1, <1>2, InitJInv, Invariance, PTL DEF Spec

\* And when no thread is in ActivateBestChain, the tip is the best chain there is,
\* or a call has failed and none has got through since.
THEOREM AlwaysRestsOnBest ==
  ASSUME KernelsVerify
  PROVE  Spec => [](nOperator = 0 => RestsOnBest)
  <1>1. IInv /\ IInv' /\ JInv /\ [Next]_vars => JInv'
    BY NextJInv, Zenon
  <1>2. IInv /\ JInv => (nOperator = 0 => RestsOnBest)
    BY JInvImplies, Zenon
  <1>3. QED
    BY <1>1, <1>2, InitJInv, Invariance, PTL DEF Spec

\* nChainTx, nSequenceId and mapBlocksUnlinked are what CheckBlockIndex asserts,
\* in whatever order the data of proof-of-work blocks arrives, when none is
\* refused for a transaction that is not final.
THEOREM LinksAreExact ==
  ASSUME KernelsVerify, NonFinalBlock = {}
  PROVE  Spec => []LinksExact
  <1>1. IInv /\ LInv /\ [Next]_vars => LInv'
    BY NextLInv, Zenon
  <1>2. IInv /\ LInv => LinksExact
    BY Zenon DEF LInv, LinksExact, LinkedIs, IInv, TypeOK
  <1>3. QED
    BY <1>1, <1>2, InitLInv, Invariance, PTL DEF Spec
=============================================================================
