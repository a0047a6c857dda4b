----------------------------- MODULE ChainState -----------------------------
(***************************************************************************)
(* The block index and the active chain of main.cpp: which headers and     *)
(* blocks are known (mapBlockIndex and the status bits of its entries),    *)
(* which are candidates for the tip (setBlockIndexCandidates), and how     *)
(* ActivateBestChain, InvalidateBlock and ReconsiderBlock move the tip.    *)
(*                                                                         *)
(* The tree of blocks that exist in the world is a constant; the state     *)
(* says what the node knows of it.  Several threads (the message handler,  *)
(* RPC workers, the miner and the staker) call ProcessNewBlock and         *)
(* ActivateBestChain, which releases cs_main between its steps.            *)
(***************************************************************************)
EXTENDS Naturals, FiniteSets

CONSTANTS
  Block,                    \* every block that may ever be received
  Genesis,                  \* the genesis block
  NoBlock,                  \* the NULL CBlockIndex pointer
  pprev,                    \* the predecessor of each block but Genesis
  nHeight,                  \* height in the tree
  nChainWork,               \* accumulated work
  Chain,                    \* Chain[b]: b and all its ancestors
  Address,                  \* the order of CBlockIndex addresses in memory
  KernelBlock,              \* the block the stake modifier of b's kernel comes from, Genesis for proof of work
  NonFinalBlock,            \* blocks holding a transaction that is not final
  BadModifierBlock,         \* blocks whose stake modifier cannot be computed or fails a checkpoint
  UnconnectableBlock,       \* blocks ConnectBlock finds to break a consensus rule
  Thread, NoThread,         \* callers of ProcessNewBlock and of the RPC commands
  MaxReorganizationDepth,   \* -maxreorg
  OperatorBlock,            \* blocks the operator names in invalidateblock and reconsiderblock
  MaxEvent                  \* bound: calls of those commands and failures of the disk in ActivateBestChain

\* The shape of the tree: what CBlockIndex construction in AddToBlockIndex
\* establishes for every entry (height, work, and the chain of pprev pointers).
ASSUME TreeAssumption ==
  /\ IsFiniteSet(Block) /\ \A S \in SUBSET Block : Cardinality(S) \in Nat
  /\ Genesis \in Block
  /\ NoBlock \notin Block
  /\ NoThread \notin Thread
  /\ pprev \in [Block \ {Genesis} -> Block]
  /\ nHeight \in [Block -> Nat]
  /\ nChainWork \in [Block -> Nat]
  /\ Address \in [Block -> Nat]
  /\ Chain \in [Block -> SUBSET Block]
  /\ Chain[Genesis] = {Genesis}
  /\ \A b \in Block \ {Genesis} :
       /\ nHeight[b] = nHeight[pprev[b]] + 1
       /\ nChainWork[b] > nChainWork[pprev[b]]
       /\ b \notin Chain[pprev[b]]
       /\ Chain[b] = Chain[pprev[b]] \cup {b}
  /\ \A b \in Block : Genesis \in Chain[b]
  /\ \A x \in Block : \A a, b \in Chain[x] : a \in Chain[b] \/ b \in Chain[a]
  /\ \A b \in Block : \A a \in Chain[b] :
       /\ Chain[a] \subseteq Chain[b]
       /\ a # b => nHeight[a] < nHeight[b] /\ nChainWork[a] < nChainWork[b]

ASSUME BoundAssumption ==
  /\ MaxReorganizationDepth \in Nat
  /\ OperatorBlock \subseteq Block \ {Genesis}
  /\ MaxEvent \in Nat
  /\ KernelBlock \in [Block -> Block]
  /\ NonFinalBlock \subseteq Block \ {Genesis}
  /\ BadModifierBlock \subseteq Block \ {Genesis}
  /\ UnconnectableBlock \subseteq Block \ {Genesis}

VARIABLES
  mapBlockIndex,            \* blocks with an index entry (at least BLOCK_VALID_TREE)
  haveData,                 \* BLOCK_HAVE_DATA, nTx > 0, BLOCK_VALID_TRANSACTIONS
  scriptsValid,             \* BLOCK_VALID_SCRIPTS
  failedValid,              \* BLOCK_FAILED_VALID
  failedChild,              \* BLOCK_FAILED_CHILD
  linked,                   \* nChainTx # 0
  nSequenceId,              \* order of linking, 0 before
  nBlockSequenceId,         \* the next nSequenceId
  mapBlocksUnlinked,        \* b is here when the pair (pprev[b], b) is in the multimap
  setBlockIndexCandidates,
  setDirtyBlockIndex,
  tip,                      \* chainActive.Tip(): chainActive is Chain[tip]
  pindexBestHeader,
  pindexBestInvalid,
  csMain,                   \* the thread that holds cs_main across steps
  pc,                       \* where each thread is in ActivateBestChain
  pindexMostWork,           \* that local of each thread
  pindexOldTip,             \* that local of the thread in ActivateBestChainStep
  nFailure,                 \* failures of the disk in ActivateBestChain so far (bound)
  gaveUp,                   \* history: a call of ActivateBestChain failed, and none has got through since
  cutShort,                 \* history: the blocks marked by an InvalidateBlock that could not cut the chain
  nOperator                 \* operator commands so far (bound)

indexVars == <<mapBlockIndex, haveData, linked, nSequenceId, nBlockSequenceId,
               mapBlocksUnlinked, pindexBestHeader>>
failVars  == <<failedValid, failedChild, pindexBestInvalid>>
stepVars  == <<csMain, pc, pindexMostWork, pindexOldTip>>
diskVars  == <<nFailure, gaveUp, cutShort>>
vars == <<indexVars, failVars, stepVars, scriptsValid, setBlockIndexCandidates,
          setDirtyBlockIndex, tip, diskVars, nOperator>>

-----------------------------------------------------------------------------
(* Status and ordering of index entries.                                   *)

\* nStatus & BLOCK_FAILED_MASK
Failed(b) == b \in failedValid \/ b \in failedChild

\* IsValid(BLOCK_VALID_TRANSACTIONS)
IsValid(b) == b \in haveData /\ ~Failed(b)

\* CBlockIndexWorkComparator under the sequence numbers seq: a sorts before b.
WorseBy(seq, a, b) ==
  \/ nChainWork[a] < nChainWork[b]
  \/ /\ nChainWork[a] = nChainWork[b]
     /\ \/ seq[a] > seq[b]
        \/ seq[a] = seq[b] /\ Address[a] > Address[b]

Worse(a, b) == WorseBy(nSequenceId, a, b)

\* The pindexBestInvalid update of InvalidChainFound.
InvalidChainFound(b) ==
  IF pindexBestInvalid = NoBlock \/ nChainWork[b] > nChainWork[pindexBestInvalid]
  THEN b ELSE pindexBestInvalid

Init ==
  /\ mapBlockIndex = {Genesis}
  /\ haveData = {Genesis}
  /\ scriptsValid = {}
  /\ failedValid = {}
  /\ failedChild = {}
  /\ linked = {Genesis}
  /\ nSequenceId = [b \in Block |-> IF b = Genesis THEN 1 ELSE 0]
  /\ nBlockSequenceId = 2
  /\ mapBlocksUnlinked = {}
  /\ setBlockIndexCandidates = {Genesis}
  /\ setDirtyBlockIndex = {}
  /\ tip = Genesis
  /\ pindexBestHeader = Genesis
  /\ pindexBestInvalid = NoBlock
  /\ csMain = NoThread
  /\ pc = [t \in Thread |-> "idle"]
  /\ pindexMostWork = [t \in Thread |-> NoBlock]
  /\ pindexOldTip = NoBlock
  /\ nFailure = 0
  /\ gaveUp = FALSE
  /\ cutShort = {}
  /\ nOperator = 0

-----------------------------------------------------------------------------
(* Headers and blocks arriving.                                            *)

\* AddToBlockIndex; its insertion in setDirtyBlockIndex is in each caller.
AddToBlockIndex(b) ==
  /\ mapBlockIndex' = mapBlockIndex \cup {b}
  /\ pindexBestHeader' =
       IF nChainWork[pindexBestHeader] < nChainWork[b] THEN b ELSE pindexBestHeader

\* AcceptBlockHeader returns true.  A header already known and not failed is
\* taken as it is; a new one needs a known predecessor, failed or not, and must
\* not start below the deepest permitted reorganisation.
AcceptBlockHeader(b) ==
  IF b \in mapBlockIndex
  THEN ~Failed(b) /\ UNCHANGED <<mapBlockIndex, pindexBestHeader>>
  ELSE /\ pprev[b] \in mapBlockIndex
       /\ nHeight[tip] < nHeight[b] + MaxReorganizationDepth
       /\ AddToBlockIndex(b)

\* The "headers" message, for a header that is new.
ProcessHeaders(b) ==
  /\ csMain = NoThread
  /\ b \notin mapBlockIndex
  /\ AcceptBlockHeader(b)
  /\ setDirtyBlockIndex' = setDirtyBlockIndex \cup {b}
  /\ UNCHANGED <<haveData, linked, nSequenceId, nBlockSequenceId, mapBlocksUnlinked,
                 failVars, stepVars, scriptsValid, setBlockIndexCandidates, tip,
                 diskVars, nOperator>>

\* VerifyHashTarget: CheckProofOfStake looks the kernel's stake modifier up with
\* chainActive.Next, so it succeeds only when that block is on the active chain.
\* Proof-of-work blocks always pass (KernelBlock is Genesis).
VerifyHashTarget(b) == KernelBlock[b] \in Chain[tip]

\* Mutant of Unlocked: the children waiting for b are not queued.
UnlockedAlone(b) == {b}

\* Mutant of Unlocked: descendants are taken although they do not wait in
\* mapBlocksUnlinked, their data being missing.
UnlockedLoose(b) == {d \in mapBlockIndex \cup {b} : b \in Chain[d]}

\* The blocks the queue of ReceivedBlockTransactions reaches from b: b, and the
\* blocks in mapBlocksUnlinked all of whose ancestors above b are there too.
Unlocked(b) ==
  {d \in mapBlocksUnlinked \cup {b} :
     b \in Chain[d] /\ (Chain[d] \ Chain[b]) \subseteq mapBlocksUnlinked}

\* The order the queue gives them: by height, then by the order of the parents;
\* the order of the children of one block is that of the multimap.
QueueOrders(S) ==
  {f \in [S -> nBlockSequenceId .. (nBlockSequenceId + Cardinality(S) - 1)] :
     \A x, y \in S : x # y =>
       /\ f[x] # f[y]
       /\ nHeight[x] < nHeight[y] => f[x] < f[y]
       /\ (nHeight[x] = nHeight[y] /\ pprev[x] \in S /\ pprev[y] \in S /\ f[pprev[x]] < f[pprev[y]])
            => f[x] < f[y]}

\* ReceivedBlockTransactions when a predecessor still lacks its data: the block
\* waits in mapBlocksUnlinked, unless its parent is failed.
ReceivedUnlinked(b) ==
  /\ pprev[b] \notin linked
  /\ mapBlocksUnlinked' =
       IF Failed(pprev[b]) THEN mapBlocksUnlinked ELSE mapBlocksUnlinked \cup {b}
  /\ UNCHANGED <<linked, nSequenceId, nBlockSequenceId, setBlockIndexCandidates>>

\* A turn of the queue fails at x: for the kernel of b, which every turn verifies
\* anew, or for the stake modifier of x.
Refused(b, x) == ~VerifyHashTarget(b) \/ x \in BadModifierBlock

\* ReceivedBlockTransactions when the block links: it and the descendants that
\* waited for it get their sequence numbers, and those that do not sort before
\* the tip become candidates.
ReceivedLinked(b) ==
  /\ pprev[b] \in linked
  /\ \A x \in Unlocked(b) : ~Refused(b, x)
  /\ \E f \in QueueOrders(Unlocked(b)) :
       LET seq == [x \in Block |-> IF x \in Unlocked(b) THEN f[x] ELSE nSequenceId[x]]
       IN /\ nSequenceId' = seq
          /\ setBlockIndexCandidates' =
               setBlockIndexCandidates \cup {x \in Unlocked(b) : ~WorseBy(seq, x, tip)}
  /\ nBlockSequenceId' = nBlockSequenceId + Cardinality(Unlocked(b))
  /\ linked' = linked \cup Unlocked(b)
  /\ mapBlocksUnlinked' = mapBlocksUnlinked \ Unlocked(b)

\* ReceivedBlockTransactions returning state.Invalid from the turn of x: the blocks
\* before it in the queue are linked and candidates; nChainTx and nSequenceId of x
\* are set, it is no candidate, and the blocks that wait for it go on waiting.
\* Those already taken from mapBlocksUnlinked whose turn did not come are lost.
ReceivedUnverified(b) ==
  /\ pprev[b] \in linked
  /\ \E f \in QueueOrders(Unlocked(b)), x \in Unlocked(b) :
       LET done == {y \in Unlocked(b) : f[y] < f[x]}
           seq == [y \in Block |-> IF y \in done \cup {x} THEN f[y] ELSE nSequenceId[y]]
       IN /\ Refused(b, x) /\ \A y \in done : ~Refused(b, y)
          /\ nSequenceId' = seq
          /\ nBlockSequenceId' = nBlockSequenceId + Cardinality(done) + 1
          /\ linked' = linked \cup done \cup {x}
          /\ setBlockIndexCandidates' =
               setBlockIndexCandidates \cup {y \in done : ~WorseBy(seq, y, tip)}
          /\ mapBlocksUnlinked' = mapBlocksUnlinked \ {y \in Block \ {Genesis} : pprev[y] \in done}

\* AcceptBlock storing a block that is new and final.
AcceptBlock(b) ==
  /\ b \notin haveData /\ b \notin NonFinalBlock
  /\ haveData' = haveData \cup {b}
  /\ setDirtyBlockIndex' = setDirtyBlockIndex \cup {b}
  /\ UNCHANGED <<failVars>>

\* AcceptBlock refusing a block with a transaction that is not final: the entry
\* is marked failed, and marked dirty only by AddToBlockIndex.  (A block refused
\* for its dev transaction leaves no more than its header, as ProcessHeaders does.)
AcceptBlockNonFinal(b) ==
  /\ b \notin haveData /\ b \in NonFinalBlock
  /\ failedValid' = failedValid \cup {b}
  /\ setDirtyBlockIndex' =
       IF b \in mapBlockIndex THEN setDirtyBlockIndex ELSE setDirtyBlockIndex \cup {b}
  /\ UNCHANGED <<haveData, linked, nSequenceId, nBlockSequenceId, mapBlocksUnlinked,
                 setBlockIndexCandidates, failedChild, pindexBestInvalid>>

\* ProcessNewBlock up to the release of cs_main; the caller goes on to
\* ActivateBestChain when AcceptBlock returned true, also for a block whose data
\* was already there.
ProcessNewBlock(t, b) ==
  /\ csMain = NoThread
  /\ pc[t] = "idle"
  /\ AcceptBlockHeader(b)
  /\ \/ /\ b \in haveData
        /\ pc' = [pc EXCEPT ![t] = "find"]
        /\ UNCHANGED <<haveData, linked, nSequenceId, nBlockSequenceId, mapBlocksUnlinked,
                       failVars, setBlockIndexCandidates, setDirtyBlockIndex>>
     \/ /\ AcceptBlock(b)
        /\ ReceivedUnlinked(b) \/ ReceivedLinked(b)
        /\ pc' = [pc EXCEPT ![t] = "find"]
     \/ /\ AcceptBlock(b)
        /\ ReceivedUnverified(b)
        /\ UNCHANGED pc
     \/ /\ AcceptBlockNonFinal(b)
        /\ UNCHANGED pc
  /\ UNCHANGED <<csMain, pindexMostWork, pindexOldTip, scriptsValid, tip,
                 diskVars, nOperator>>

-----------------------------------------------------------------------------
(* ActivateBestChain, one step of one thread at a time.                    *)

\* A thread leaves ActivateBestChain and cs_main.
Return(t) ==
  /\ csMain' = NoThread
  /\ pc' = [pc EXCEPT ![t] = "idle"]
  /\ UNCHANGED <<pindexMostWork, pindexOldTip>>

\* setBlockIndexCandidates.rbegin()
IsBestCandidate(b) ==
  /\ b \in setBlockIndexCandidates
  /\ \A c \in setBlockIndexCandidates \ {b} : Worse(c, b)

\* The failed block on the way from b down to the active chain that
\* FindMostWorkChain meets first.
FirstFailed(b, x) ==
  /\ x \in Chain[b] \ Chain[tip]
  /\ Failed(x)
  /\ \A y \in Chain[b] \ Chain[tip] : Failed(y) => nHeight[y] <= nHeight[x]

\* FindMostWorkChain meets a failed block: the whole chain above it is marked
\* (and not entered in setDirtyBlockIndex) and leaves the candidates.
DiscardCandidate(t) ==
  /\ pc[t] = "find" /\ csMain \in {NoThread, t}
  /\ \E b, x \in Block :
       /\ IsBestCandidate(b)
       /\ FirstFailed(b, x)
       /\ LET above == {y \in Chain[b] : nHeight[y] > nHeight[x]}
          IN /\ failedChild' = failedChild \cup above
             /\ setBlockIndexCandidates' = setBlockIndexCandidates \ (above \cup {x})
       /\ pindexBestInvalid' = InvalidChainFound(b)
  /\ csMain' = t
  /\ UNCHANGED <<indexVars, failedValid, scriptsValid, setDirtyBlockIndex, tip, pc,
                 pindexMostWork, pindexOldTip, diskVars, nOperator>>

\* Mutant of FindMostWorkChain: the chain is not searched for failed blocks.
FindMostWorkChainUnchecked(t) ==
  /\ pc[t] = "find" /\ csMain \in {NoThread, t}
  /\ \E b \in Block \ {tip} :
       /\ IsBestCandidate(b)
       /\ pindexMostWork' = [pindexMostWork EXCEPT ![t] = b]
  /\ csMain' = t
  /\ pindexOldTip' = tip
  /\ pc' = [pc EXCEPT ![t] = "step"]
  /\ UNCHANGED <<indexVars, failVars, scriptsValid, setBlockIndexCandidates,
                 setDirtyBlockIndex, tip, diskVars, nOperator>>

\* FindMostWorkChain returns, and ActivateBestChain has something to do.
FindMostWorkChain(t) ==
  /\ pc[t] = "find" /\ csMain \in {NoThread, t}
  /\ \E b \in Block \ {tip} :
       /\ IsBestCandidate(b)
       /\ \A y \in Chain[b] \ Chain[tip] : ~Failed(y)
       /\ pindexMostWork' = [pindexMostWork EXCEPT ![t] = b]
  /\ csMain' = t
  /\ pindexOldTip' = tip
  /\ pc' = [pc EXCEPT ![t] = "step"]
  /\ UNCHANGED <<indexVars, failVars, scriptsValid, setBlockIndexCandidates,
                 setDirtyBlockIndex, tip, diskVars, nOperator>>

\* FindMostWorkChain returns NULL or the tip: ActivateBestChain returns true.
NothingToDo(t) ==
  /\ pc[t] = "find" /\ csMain \in {NoThread, t}
  /\ setBlockIndexCandidates = {} \/ IsBestCandidate(tip)
  /\ Return(t)
  /\ gaveUp' = FALSE
  /\ UNCHANGED <<indexVars, failVars, scriptsValid, setBlockIndexCandidates,
                 setDirtyBlockIndex, tip, nFailure, cutShort, nOperator>>

\* DisconnectTip in ActivateBestChainStep, while the tip is not on the way to
\* pindexMostWork.
DisconnectTip(t) ==
  /\ pc[t] = "step"
  /\ tip \notin Chain[pindexMostWork[t]]
  /\ tip' = pprev[tip]
  /\ UNCHANGED <<indexVars, failVars, stepVars, scriptsValid, setBlockIndexCandidates,
                 setDirtyBlockIndex, diskVars, nOperator>>

\* Mutant of NextToConnect: the batch is walked from its other end.
NextToConnectTop(t, b) ==
  /\ pc[t] = "step"
  /\ tip \in Chain[pindexMostWork[t]]
  /\ b = pindexMostWork[t]

\* The block ActivateBestChainStep connects next.
NextToConnect(t, b) ==
  /\ pc[t] = "step"
  /\ b \in Chain[pindexMostWork[t]] \ {Genesis}
  /\ pprev[b] = tip

\* ActivateBestChainStep is over: leave cs_main and test the loop condition.
Unlock(t) ==
  /\ csMain' = NoThread
  /\ pc' = [pc EXCEPT ![t] = "check"]
  /\ UNCHANGED <<pindexMostWork, pindexOldTip>>

\* PruneBlockIndexCandidates with b as the tip.
PruneBlockIndexCandidates(b) ==
  setBlockIndexCandidates' = {c \in setBlockIndexCandidates : ~Worse(c, b)}

\* ConnectTip succeeds.  The step ends when the new tip has more work than the
\* one it started from, or is pindexMostWork.
ConnectTip(t) ==
  /\ \E b \in Block \ UnconnectableBlock :
       /\ NextToConnect(t, b)
       /\ tip' = b
       /\ scriptsValid' = scriptsValid \cup {b}
       /\ setDirtyBlockIndex' =
            IF b \in scriptsValid THEN setDirtyBlockIndex ELSE setDirtyBlockIndex \cup {b}
       /\ PruneBlockIndexCandidates(b)
       /\ IF nChainWork[b] > nChainWork[pindexOldTip] \/ b = pindexMostWork[t]
          THEN Unlock(t) ELSE UNCHANGED stepVars
       /\ gaveUp' = (gaveUp /\ b # pindexMostWork[t])
  /\ UNCHANGED <<indexVars, failVars, nFailure, cutShort, nOperator>>

\* Mutant of ConnectTipInvalid: the block is not marked and stays a candidate.
ConnectTipUnmarked(t) ==
  /\ \E b \in UnconnectableBlock : NextToConnect(t, b)
  /\ Unlock(t)
  /\ UNCHANGED <<indexVars, failVars, scriptsValid, setBlockIndexCandidates,
                 setDirtyBlockIndex, tip, diskVars, nOperator>>

\* ConnectTip finds that the block breaks a consensus rule: InvalidBlockFound
\* and InvalidChainFound.  (The second InvalidChainFound, on the lowest block of
\* the batch, never has more work than the first.)
ConnectTipInvalid(t) ==
  /\ \E b \in UnconnectableBlock :
       /\ NextToConnect(t, b)
       /\ failedValid' = failedValid \cup {b}
       /\ setDirtyBlockIndex' = setDirtyBlockIndex \cup {b}
       /\ setBlockIndexCandidates' = setBlockIndexCandidates \ {b}
       /\ pindexBestInvalid' = InvalidChainFound(b)
  /\ Unlock(t)
  /\ UNCHANGED <<indexVars, failedChild, scriptsValid, tip, diskVars, nOperator>>

\* DisconnectTip or ConnectTip fails for another reason than the block itself, and
\* ActivateBestChain returns false, or is left by an exception, with the tip where
\* it is.  A block or undo file that cannot be written and a block that cannot be
\* read also request a shutdown (AbortNode); undo data that DisconnectBlock cannot
\* read, and a batch the database refuses, do not.  The threads go on in both
\* cases, here until the process ends.
FailStep(t) ==
  /\ nOperator + nFailure < MaxEvent
  /\ pc[t] = "step"
  /\ \/ UNCHANGED <<scriptsValid, setDirtyBlockIndex>>
     \/ \E b \in Block \ UnconnectableBlock :    \* after ConnectBlock has succeeded
          /\ NextToConnect(t, b)
          /\ scriptsValid' = scriptsValid \cup {b}
          /\ setDirtyBlockIndex' = setDirtyBlockIndex \cup {b}
  /\ nFailure' = nFailure + 1
  /\ gaveUp' = TRUE
  /\ Return(t)
  /\ UNCHANGED <<indexVars, failVars, setBlockIndexCandidates, tip, cutShort, nOperator>>

\* Mutant of CheckLoop: one step, no loop.
CheckLoopOnce(t) ==
  /\ pc[t] = "check"
  /\ pc' = [pc EXCEPT ![t] = "idle"]
  /\ UNCHANGED <<indexVars, failVars, csMain, pindexMostWork, pindexOldTip, scriptsValid,
                 setBlockIndexCandidates, setDirtyBlockIndex, tip, diskVars, nOperator>>

\* while (pindexMostWork != chainActive.Tip()), read without cs_main.
CheckLoop(t) ==
  /\ pc[t] = "check"
  /\ pc' = [pc EXCEPT ![t] = IF pindexMostWork[t] # tip THEN "find" ELSE "idle"]
  /\ UNCHANGED <<indexVars, failVars, csMain, pindexMostWork, pindexOldTip, scriptsValid,
                 setBlockIndexCandidates, setDirtyBlockIndex, tip, diskVars, nOperator>>

-----------------------------------------------------------------------------
(* The operator's RPC commands.                                            *)

\* A command on block b is called by thread t.
Operator(t, b) ==
  /\ csMain = NoThread
  /\ pc[t] = "idle"
  /\ b \in OperatorBlock \cap mapBlockIndex
  /\ nOperator + nFailure < MaxEvent
  /\ nOperator' = nOperator + 1
  /\ UNCHANGED <<csMain, pindexMostWork, pindexOldTip>>

\* Mutant of InvalidateBlock: the candidates are not collected again.
InvalidateBlockNoRefill(t, b) ==
  /\ Operator(t, b)
  /\ LET cut == {x \in Chain[tip] : b \in Chain[x]}
     IN /\ tip' = IF b \in Chain[tip] THEN pprev[b] ELSE tip
        /\ failedChild' = failedChild \cup cut
        /\ setDirtyBlockIndex' = setDirtyBlockIndex \cup cut \cup {b}
        /\ setBlockIndexCandidates' = setBlockIndexCandidates \ (cut \cup {b})
  /\ failedValid' = failedValid \cup {b}
  /\ pindexBestInvalid' = InvalidChainFound(b)
  /\ pc' = [pc EXCEPT ![t] = "find"]
  /\ UNCHANGED <<indexVars, scriptsValid, diskVars>>

\* InvalidateBlock: the block fails, the active chain is cut below it, and every
\* valid linked block that does not sort before the new tip is a candidate again.
InvalidateBlock(t, b) ==
  /\ Operator(t, b)
  /\ LET cut == {x \in Chain[tip] : b \in Chain[x]}
         newTip == IF b \in Chain[tip] THEN pprev[b] ELSE tip
         failed == failedValid \cup failedChild \cup cut \cup {b}
     IN /\ tip' = newTip
        /\ failedValid' = failedValid \cup {b}
        /\ failedChild' = failedChild \cup cut
        /\ setDirtyBlockIndex' = setDirtyBlockIndex \cup cut \cup {b}
        /\ setBlockIndexCandidates' =
             (setBlockIndexCandidates \ (cut \cup {b})) \cup
               {x \in (haveData \cap linked) \ failed : ~Worse(x, newTip)}
  /\ pindexBestInvalid' = InvalidChainFound(b)
  /\ pc' = [pc EXCEPT ![t] = "find"]
  /\ UNCHANGED <<indexVars, scriptsValid, diskVars>>

\* InvalidateBlock when DisconnectTip fails at block x of the active chain: it
\* returns with the blocks walked so far marked and the candidates not collected
\* again.  invalidateblock goes on to ActivateBestChain when DisconnectBlock was the
\* cause, which leaves the CValidationState valid, and reports an error otherwise.
FailInvalidate(t, b) ==
  /\ Operator(t, b)
  /\ \E x \in Chain[tip] :
       LET walked == {y \in Chain[tip] : x \in Chain[y]}
       IN /\ b \in Chain[x]
          /\ tip' = x
          /\ failedChild' = failedChild \cup walked
          /\ setDirtyBlockIndex' = setDirtyBlockIndex \cup walked \cup {b}
          /\ setBlockIndexCandidates' = setBlockIndexCandidates \ (walked \cup {b})
          /\ cutShort' = cutShort \cup walked \cup {b}
  /\ failedValid' = failedValid \cup {b}
  /\ UNCHANGED pc \/ pc' = [pc EXCEPT ![t] = "find"]
  /\ UNCHANGED <<indexVars, pindexBestInvalid, scriptsValid, nFailure, gaveUp>>

\* ReconsiderBlock: the flags of the block, its descendants and its ancestors are
\* cleared; the block and the descendants the tip sorts before become candidates.
ReconsiderBlock(t, b) ==
  /\ Operator(t, b)
  /\ LET below == {x \in mapBlockIndex : b \in Chain[x] /\ ~IsValid(x)}
         above == {x \in Chain[b] : Failed(x)}
     IN /\ failedValid' = failedValid \ (below \cup above)
        /\ failedChild' = failedChild \ (below \cup above)
        /\ setDirtyBlockIndex' = setDirtyBlockIndex \cup below \cup above
        /\ setBlockIndexCandidates' =
             setBlockIndexCandidates \cup
               {x \in below : x \in haveData /\ x \in linked /\ Worse(tip, x)}
        /\ pindexBestInvalid' =
             IF pindexBestInvalid \in below THEN NoBlock ELSE pindexBestInvalid
  /\ pc' = [pc EXCEPT ![t] = "find"]
  /\ UNCHANGED <<indexVars, scriptsValid, tip, diskVars>>

-----------------------------------------------------------------------------
\* One step of ActivateBestChain in thread t.
Activate(t) ==
  \/ DiscardCandidate(t)
  \/ FindMostWorkChain(t)
  \/ NothingToDo(t)
  \/ DisconnectTip(t)
  \/ ConnectTip(t)
  \/ ConnectTipInvalid(t)
  \/ CheckLoop(t)

Next ==
  \/ \E b \in Block : ProcessHeaders(b)
  \/ \E t \in Thread, b \in Block : ProcessNewBlock(t, b)
  \/ \E t \in Thread : Activate(t)
  \/ \E t \in Thread : FailStep(t)
  \/ \E t \in Thread, b \in Block : InvalidateBlock(t, b)
  \/ \E t \in Thread, b \in Block : FailInvalidate(t, b)
  \/ \E t \in Thread, b \in Block : ReconsiderBlock(t, b)

Spec == Init /\ [][Next]_vars

\* A thread inside ActivateBestChain keeps running: it is not delayed for ever
\* while its next step can be taken.
Fairness == \A t \in Thread : WF_vars(Activate(t))

FairSpec == Spec /\ Fairness

-----------------------------------------------------------------------------
(* Properties.                                                             *)

\* The state has the types the code gives it.
TypeOK ==
  /\ mapBlockIndex \in SUBSET Block
  /\ haveData \in SUBSET mapBlockIndex
  /\ scriptsValid \in SUBSET haveData
  /\ failedValid \in SUBSET mapBlockIndex
  /\ failedChild \in SUBSET mapBlockIndex
  /\ linked \in SUBSET haveData
  /\ nSequenceId \in [Block -> Nat]
  /\ nBlockSequenceId \in Nat
  /\ mapBlocksUnlinked \in SUBSET haveData
  /\ setBlockIndexCandidates \in SUBSET linked
  /\ setDirtyBlockIndex \in SUBSET mapBlockIndex
  /\ tip \in linked
  /\ pindexBestHeader \in mapBlockIndex
  /\ pindexBestInvalid \in mapBlockIndex \cup {NoBlock}
  /\ csMain \in Thread \cup {NoThread}
  /\ pc \in [Thread -> {"idle", "find", "step", "check"}]
  /\ pindexMostWork \in [Thread -> mapBlockIndex \cup {NoBlock}]
  /\ pindexOldTip \in mapBlockIndex \cup {NoBlock}
  /\ nFailure \in 0 .. MaxEvent
  /\ gaveUp \in BOOLEAN
  /\ cutShort \in SUBSET mapBlockIndex
  /\ nOperator \in 0 .. MaxEvent

\* A block is linked (nChainTx set) only when it and all its ancestors have their
\* data: what FindMostWorkChain asserts on its way down to the active chain.
LinkSound == \A b \in linked : Chain[b] \subseteq haveData \cap linked

\* The assertions of CheckBlockIndex on nChainTx, nSequenceId and
\* mapBlocksUnlinked: a block is linked exactly when all data down to genesis is
\* there, and waits in mapBlocksUnlinked exactly when only its own is, until the
\* operator marks a block.
LinksExact ==
  nOperator = 0 =>
  \A b \in mapBlockIndex :
    /\ b \in linked <=> Chain[b] \subseteq haveData
    /\ b \in mapBlocksUnlinked <=> b \in haveData \ linked
    /\ b \in linked <=> nSequenceId[b] > 0

\* Every block of the active chain has its data and passed ConnectBlock, whatever
\* invalidations, reconsiderations, failed reorganisations and failures of the disk
\* came before; and one that is marked failed was marked by an InvalidateBlock that
\* could not disconnect it.
ActiveChainSound ==
  \A b \in Chain[tip] :
    /\ b \in haveData
    /\ b = Genesis \/ b \in scriptsValid
    /\ Failed(b) => b \in cutShort

\* "SCRIPTS valid implies all parents are SCRIPTS valid" (CheckBlockIndex), and
\* no block that breaks a consensus rule is ever marked so.
ScriptsClosed ==
  \A b \in scriptsValid :
    b \notin UnconnectableBlock /\ Chain[b] \ {Genesis} \subseteq scriptsValid

\* Blocks that could be the tip: all data there, no failed block below.
Eligible(b) == b \in linked /\ \A a \in Chain[b] : ~Failed(a)

\* No eligible block that beats the tip is ever forgotten: it is a candidate, or
\* an eligible candidate beats it (PruneBlockIndexCandidates dropped it for that
\* one); and no candidate sorts before the tip.  An InvalidateBlock that was cut
\* short may forget some: it does not collect the candidates again.
BestIsCandidate ==
  cutShort = {} =>
    /\ \A b \in linked : Eligible(b) /\ ~Worse(b, tip) =>
         \E c \in setBlockIndexCandidates : Eligible(c) /\ ~Worse(c, b)
    /\ \A c \in setBlockIndexCandidates : ~Worse(c, tip)

\* "The result is either failure or an activated best chain": when no thread is
\* in ActivateBestChain, no eligible block beats the tip, unless a call failed and
\* none has got through since (or InvalidateBlock was cut short).
TipIsBest == \A b \in linked : Eligible(b) => ~Worse(tip, b)
RestsOnBest ==
  (\A t \in Thread : pc[t] = "idle") /\ ~gaveUp /\ cutShort = {} => TipIsBest

\* Once blocks, commands and failures stop, the node settles on the best chain, or
\* where the last failure has left it.
Converges == <>[](TipIsBest \/ gaveUp \/ cutShort # {})
=============================================================================
