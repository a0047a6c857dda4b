------------------------------- MODULE TxPool -------------------------------
(***************************************************************************)
(* The memory pool and the orphan transactions while blocks are connected  *)
(* and disconnected: CTxMemPool, AcceptToMemoryPool, the "tx" message, the *)
(* maps of orphans, and the transactions CreateNewBlock collects.          *)
(*                                                                         *)
(* Which block comes next is left to chance (ChainState decides it), and   *)
(* pcoinsTip holds what the chain leaves unspent (BlockUndo shows it).     *)
(* An outpoint is <<transaction, position>>.  What a transaction fails for *)
(* whatever the chain (amounts, scripts, timestamps) is in BadTx.  Every   *)
(* handler holds cs_main and is one step.                                  *)
(***************************************************************************)
EXTENDS Integers, Sequences, FiniteSets, Functions

CONSTANTS
  Block, Genesis,
  pprev,         \* the predecessor of each block but Genesis
  nHeight,       \* the height of each block
  Chain,         \* the block and its ancestors
  vtx,           \* the transactions of each block, in order
  Tx, vin,
  vout,          \* the number of outputs of each transaction
  nLockTime,     \* the block height of nLockTime, 0 for none
  CoinBase, CoinStake,
  OldVersion,    \* transactions of version POW_TX_VERSION
  nTime,         \* the timestamp, 0 in an old version
  NonStandard,   \* refused by IsStandardTx, but valid in a block
  NonStandardInput, \* refused by AreInputsStandard, but valid in a block
  BadTx,         \* refused by the last checks of CheckInputs
  BigTx,         \* more than 5000 bytes
  FreeTx,        \* fee too low: may be refused, as the rate limiter and mapDeltas say
  Hashes,        \* all transactions in the order of their hashes
  Priorities,    \* orders in which CreateNewBlock may take transactions
  Peer,
  nMaxOrphanTx,
  COINBASE_MATURITY,
  LastProofOfWorkHeight

ASSUME PoolAssumption ==
  /\ Genesis \in Block /\ pprev \in [Block \ {Genesis} -> Block]
  /\ nHeight \in [Block -> Nat] /\ Chain \in [Block -> SUBSET Block] /\ Chain[Genesis] = {Genesis}
  /\ \A b \in Block \ {Genesis} :
       nHeight[b] = nHeight[pprev[b]] + 1 /\ Chain[b] = Chain[pprev[b]] \cup {b}
  /\ vtx \in [Block -> Seq(Tx)] /\ vin \in [Tx -> Seq(Tx \X Nat)] /\ vout \in [Tx -> Nat]
  /\ UNION {CoinBase, CoinStake, OldVersion, NonStandard, NonStandardInput, BadTx, BigTx, FreeTx}
       \subseteq Tx
  /\ nLockTime \in [Tx -> Nat] /\ nTime \in [Tx -> Nat] /\ \A t \in OldVersion : nTime[t] = 0
  /\ Hashes \in Seq(Tx) /\ Range(Hashes) = Tx
  /\ \A order \in Priorities : order \in Seq(Tx) /\ Range(order) = Tx
  /\ nMaxOrphanTx \in Nat /\ COINBASE_MATURITY \in Nat /\ LastProofOfWorkHeight \in Nat

VARIABLES
  tip,                          \* chainActive.Tip()
  mapTx,                        \* the transactions of the pool
  mapNextTx,                    \* who spends an outpoint, in the pool
  mapOrphanTransactions,        \* the peer each orphan came from
  mapOrphanTransactionsByPrev   \* the orphans that spend from a transaction

poolVars == <<mapTx, mapNextTx>>
orphanVars == <<mapOrphanTransactions, mapOrphanTransactionsByPrev>>
vars == <<tip, poolVars, orphanVars>>

Inputs == [t \in Tx |-> Range(vin[t])]
Parents == [t \in Tx |-> {out[1] : out \in Inputs[t]}]
Outputs == [t \in Tx |-> {t} \X (0 .. vout[t] - 1)]

\* pcoinsTip at block b: the unspent outputs of its chain, and their heights.
TxsOf == [b \in Block |-> UNION {Range(vtx[x]) : x \in Chain[b]}]
Coins == [b \in Block |-> (UNION {Outputs[t] : t \in TxsOf[b]}) \ (UNION {Inputs[t] : t \in TxsOf[b]})]
MinedIn(b, t) == {x \in Chain[b] : t \in Range(vtx[x])}
CoinsHeight == [b \in Block |-> [t \in TxsOf[b] |-> nHeight[CHOOSE x \in MinedIn(b, t) : TRUE]]]
HaveCoins(b, t) == \E out \in Coins[b] : out[1] = t

\* A coinbase or coinstake that is too young for a block at height h.
Immature(b, t, h) ==
  t \in (CoinBase \cup CoinStake) \cap TxsOf[b] /\ h - CoinsHeight[b][t] < COINBASE_MATURITY

IsFinalTx(t, h) == nLockTime[t] = 0 \/ nLockTime[t] < h

\* CheckTransaction, CheckBlock and ConnectBlock: only a coinbase has no inputs, the
\* inputs of a block's transactions are outputs of earlier ones that nothing else on
\* the chain spends, and its transactions are final.  The one of the genesis block is
\* never connected.  No transaction is on a chain twice: the code ensures it of
\* transactions with inputs, which are spent only once, but of a coinbase only where
\* blocks differ in it (BlockUndo has the blocks that repeat one).
ASSUME ChainAssumption ==
  /\ \A t \in Tx \ CoinBase : vin[t] # <<>>
  /\ \A b \in Block : \A t \in TxsOf[b] :
       /\ t \notin BadTx
       /\ \A out \in Inputs[t] : out[1] \in TxsOf[b] /\ out \in Outputs[out[1]]
       /\ \A u \in TxsOf[b] \ {t} : Inputs[t] \cap Inputs[u] = {}
  /\ vtx[Genesis] = <<>>
  /\ \A b \in Block \ {Genesis} :
       /\ Range(vtx[b]) \cap TxsOf[pprev[b]] = {}
       /\ \A i, j \in DOMAIN vtx[b] : vtx[b][i] = vtx[b][j] => i = j
       /\ \A i \in DOMAIN vtx[b] :
            /\ Parents[vtx[b][i]] \subseteq TxsOf[pprev[b]] \cup {vtx[b][j] : j \in 1 .. i - 1}
            /\ IsFinalTx(vtx[b][i], nHeight[b])

-----------------------------------------------------------------------------
(* CTxMemPool, on a pool [tx, next].                                       *)

EmptyMap == [x \in {} |-> x]
With(f, x, v) == [y \in DOMAIN f \cup {x} |-> IF y = x THEN v ELSE f[y]]
Without(f, S) == [x \in DOMAIN f \ S |-> f[x]]

addUnchecked(p, t) ==
  [tx |-> p.tx \cup {t},
   next |-> [out \in DOMAIN p.next \cup Inputs[t] |-> IF out \in Inputs[t] THEN t ELSE p.next[out]]]

Erased(p, S) == [tx |-> p.tx \ S, next |-> Without(p.next, UNION {Inputs[t] : t \in S \cap p.tx})]

\* The transactions that spend an output of one in S.
Spenders(p, S) == {p.next[out] : out \in {o \in DOMAIN p.next : o[1] \in S}}

\* The transactions of S and all of the pool that descends from them.
Descendants(p, S) ==
  {t \in p.tx \cup S : \A D \in SUBSET (p.tx \cup S) : S \subseteq D /\ Spenders(p, D) \subseteq D => t \in D}

\* Mutant of removeRecursive: the children of a transaction that is not in the
\* pool are kept.
removeRecursiveOwn(p, S) == Erased(p, Descendants(p, S \cap p.tx))

\* remove with fRecursive, for each transaction of S in turn: the transaction, in
\* the pool or not, and all that descends from it.
removeRecursive(p, S) == Erased(p, Descendants(p, S))

\* removeCoinbaseSpends, for the coins of block b and the next height h.  For an
\* input that is gone AccessCoins gives NULL or an entry that is pruned, as the
\* cache has it; only the former would be removed.  No transaction has one then.
removeCoinbaseSpends(p, b, h) ==
  removeRecursive(p, {t \in p.tx : \E out \in Inputs[t] : out[1] \notin p.tx /\ Immature(b, out[1], h)})

\* removeConflicts
removeConflicts(p, t) ==
  removeRecursive(p, {p.next[out] : out \in Inputs[t] \cap DOMAIN p.next} \ {t})

\* Mutant of removeForBlock: the conflicts of the block's transactions go, the
\* transactions themselves stay.
removeForBlockConflicts(p, txs) ==
  LET After[i \in 0 .. Len(txs)] == IF i = 0 THEN p ELSE removeConflicts(After[i - 1], txs[i])
  IN After[Len(txs)]

\* removeForBlock
removeForBlock(p, txs) ==
  LET After[i \in 0 .. Len(txs)] ==
        IF i = 0 THEN p ELSE removeConflicts(Erased(After[i - 1], {txs[i]}), txs[i])
  IN After[Len(txs)]

-----------------------------------------------------------------------------
\* Coinbases, coinstakes, and old versions once blocks are of proof of stake.
NeverLoose(t, h) ==
  t \in CoinBase \cup CoinStake \/ (h >= LastProofOfWorkHeight /\ t \in OldVersion)

\* AcceptToMemoryPool of t into p, over the coins of block b while chainActive is
\* at height h; the transactions in refused pay too little.  "dos" is a refusal
\* for which the sender is punished.
AcceptToMemoryPool(p, t, b, h, refused) ==
  CASE NeverLoose(t, h) -> "dos"
    [] t \in NonStandard \/ ~IsFinalTx(t, h + 1) -> "refused"
    [] t \in p.tx \/ Inputs[t] \cap DOMAIN p.next # {} -> "refused"
    [] HaveCoins(b, t) -> "refused"
    [] \E u \in Parents[t] : u \notin p.tx /\ ~HaveCoins(b, u) -> "missing"
    [] ~(Inputs[t] \subseteq Coins[b] \cup UNION {Outputs[u] : u \in p.tx}) -> "refused"
    [] t \in NonStandardInput \cup refused -> "refused"
    [] \E u \in Parents[t] \ p.tx : Immature(b, u, nHeight[b] + 1) -> "refused"
    [] t \in BadTx -> "dos"
    [] OTHER -> "accepted"

-----------------------------------------------------------------------------
(* The orphan transactions.                                                *)

Orphans == [orphans |-> mapOrphanTransactions, byPrev |-> mapOrphanTransactionsByPrev]

\* AddOrphanTx
AddOrphanTx(t, peer) ==
  IF t \in DOMAIN mapOrphanTransactions \cup BigTx THEN Orphans
  ELSE [orphans |-> With(mapOrphanTransactions, t, peer),
        byPrev |-> [u \in DOMAIN mapOrphanTransactionsByPrev \cup Parents[t] |->
                      {o \in DOMAIN mapOrphanTransactions :
                         u \in DOMAIN mapOrphanTransactionsByPrev /\ o \in mapOrphanTransactionsByPrev[u]}
                      \cup {o \in {t} : u \in Parents[o]}]]

\* Mutant of EraseOrphanTx: only the first input is looked up.
EraseOrphanTxFirst(w, S) ==
  LET left == [u \in DOMAIN w.byPrev |-> w.byPrev[u] \ {o \in S : vin[o][1][1] = u}]
  IN [orphans |-> Without(w.orphans, S), byPrev |-> Without(left, {u \in DOMAIN left : left[u] = {}})]

\* EraseOrphanTx of every transaction of S.
EraseOrphanTx(w, S) ==
  LET left == [u \in DOMAIN w.byPrev |-> w.byPrev[u] \ {o \in S : u \in Parents[o]}]
  IN [orphans |-> Without(w.orphans, S), byPrev |-> Without(left, {u \in DOMAIN left : left[u] = {}})]

\* Mutant of LimitOrphanTxSize: one more than the limit stays.
LimitOrphanTxSizeLate(w) ==
  LET n == Cardinality(DOMAIN w.orphans)
  IN {EraseOrphanTx(w, S) : S \in {S \in SUBSET DOMAIN w.orphans :
        Cardinality(S) = IF n > nMaxOrphanTx + 1 THEN n - nMaxOrphanTx - 1 ELSE 0}}

\* LimitOrphanTxSize: random orphans go, the new one perhaps among them.
LimitOrphanTxSize(w) ==
  LET n == Cardinality(DOMAIN w.orphans)
  IN {EraseOrphanTx(w, S) : S \in {S \in SUBSET DOMAIN w.orphans :
        Cardinality(S) = IF n > nMaxOrphanTx THEN n - nMaxOrphanTx ELSE 0}}

SetOrphans(w) ==
  /\ mapOrphanTransactions' = w.orphans
  /\ mapOrphanTransactionsByPrev' = w.byPrev
SetPool(p) == mapTx' = p.tx /\ mapNextTx' = p.next
Pool == [tx |-> mapTx, next |-> mapNextTx]

\* Mutant of TryOrphan: what depends on an accepted orphan is not looked at.
TryOrphanOnce(w, o, refused) ==
  LET verdict == AcceptToMemoryPool(w.pool, o, tip, nHeight[tip], refused)
      erased == [w EXCEPT !.erase = @ \cup {o}]
  IN IF verdict = "accepted" THEN [erased EXCEPT !.pool = addUnchecked(@, o)] ELSE erased

\* One orphan is tried again: it will be erased whatever comes of it.
TryOrphan(w, o, refused) ==
  LET peer == mapOrphanTransactions[o]
      verdict == AcceptToMemoryPool(w.pool, o, tip, nHeight[tip], refused)
      erased == [w EXCEPT !.erase = @ \cup {o}]
  IN CASE peer \in w.misbehaving -> erased
       [] verdict = "accepted" ->
            [erased EXCEPT !.pool = addUnchecked(@, o), !.queue = Append(@, o)]
       [] verdict = "dos" -> [erased EXCEPT !.misbehaving = @ \cup {peer}]
       [] OTHER -> erased

\* The orphans that spend from u, in the order of their hashes.
TryOrphans(w, u, refused) ==
  LET After[i \in 0 .. Len(Hashes)] ==
        IF i = 0 THEN w
        ELSE IF Hashes[i] \in mapOrphanTransactionsByPrev[u] THEN TryOrphan(After[i - 1], Hashes[i], refused)
        ELSE After[i - 1]
  IN After[Len(Hashes)]

\* vWorkQueue: the orphans of each accepted transaction.  None is accepted twice.
ResolveOrphans(t, refused) ==
  LET start == [pool |-> addUnchecked(Pool, t), queue |-> <<t>>, erase |-> {t}, misbehaving |-> {}]
      Work[i \in 0 .. Len(Hashes)] ==
        IF i = 0 THEN start
        ELSE LET w == Work[i - 1]
             IN IF i > Len(w.queue) \/ w.queue[i] \notin DOMAIN mapOrphanTransactionsByPrev THEN w
                ELSE TryOrphans(w, w.queue[i], refused)
  IN Work[Len(Hashes)]

-----------------------------------------------------------------------------
Init ==
  /\ tip = Genesis
  /\ mapTx = {} /\ mapNextTx = EmptyMap
  /\ mapOrphanTransactions = EmptyMap /\ mapOrphanTransactionsByPrev = EmptyMap

\* The "tx" message with transaction t from a peer.
ReceiveTx(t, peer) ==
  /\ UNCHANGED tip
  /\ \E refused \in SUBSET FreeTx :
       LET verdict == AcceptToMemoryPool(Pool, t, tip, nHeight[tip], refused)
       IN \/ /\ verdict = "accepted"
             /\ LET w == ResolveOrphans(t, refused)
                IN SetPool(w.pool) /\ SetOrphans(EraseOrphanTx(Orphans, w.erase))
          \/ /\ verdict = "missing"
             /\ \E w \in LimitOrphanTxSize(AddOrphanTx(t, peer)) : SetOrphans(w)
             /\ UNCHANGED poolVars

\* sendrawtransaction or the wallet: no limit on free transactions, and the
\* orphans are not looked at.
SendTransaction(t) ==
  /\ AcceptToMemoryPool(Pool, t, tip, nHeight[tip], {}) = "accepted"
  /\ SetPool(addUnchecked(Pool, t))
  /\ UNCHANGED <<tip, orphanVars>>

\* FinalizeNode: EraseOrphansFor the peer.
FinalizeNode(peer) ==
  /\ SetOrphans(EraseOrphanTx(Orphans, {o \in DOMAIN mapOrphanTransactions :
                                          mapOrphanTransactions[o] = peer}))
  /\ UNCHANGED <<tip, poolVars>>

\* ConnectTip
ConnectTip(b) ==
  /\ b # Genesis /\ pprev[b] = tip
  /\ SetPool(removeForBlock(Pool, vtx[b]))
  /\ tip' = b
  /\ UNCHANGED orphanVars

\* Mutant of ResurrectOrder: the last transaction of the block first.
ResurrectReversed(b) == [i \in DOMAIN vtx[b] |-> vtx[b][Len(vtx[b]) + 1 - i]]

ResurrectOrder(b) == vtx[b]

\* The transactions of the disconnected block tip, over the coins of b.
Resurrected(p, b) ==
  LET txs == ResurrectOrder(tip)
      After[i \in 0 .. Len(txs)] ==
        IF i = 0 THEN p
        ELSE IF AcceptToMemoryPool(After[i - 1], txs[i], b, nHeight[tip], {}) = "accepted"
        THEN addUnchecked(After[i - 1], txs[i])
        ELSE removeRecursive(After[i - 1], {txs[i]})
  IN After[Len(txs)]

\* DisconnectTip: the coins are those of the previous block already while
\* chainActive still ends with the disconnected one.
DisconnectTip ==
  /\ tip # Genesis
  /\ LET b == pprev[tip]
     IN SetPool(removeCoinbaseSpends(Resurrected(Pool, b), b, nHeight[tip])) /\ tip' = b
  /\ UNCHANGED orphanVars

Next ==
  \/ \E t \in Tx : SendTransaction(t) \/ \E peer \in Peer : ReceiveTx(t, peer)
  \/ \E peer \in Peer : FinalizeNode(peer)
  \/ \E b \in Block : ConnectTip(b)
  \/ DisconnectTip

Spec == Init /\ [][Next]_vars

-----------------------------------------------------------------------------
(* CreateNewBlock.                                                         *)

fProofOfStake == nHeight[tip] >= LastProofOfWorkHeight

\* The transactions of the pool that are looked at.
Considered ==
  {t \in mapTx : IsFinalTx(t, nHeight[tip] + 1) /\ (fProofOfStake <=> t \notin OldVersion)}

\* The timestamp limit of a block of proof of stake is nTime of the coinbase, which
\* is still the dummy CTransaction() with nTime 0.
TooLate(t) == fProofOfStake /\ nTime[t] > 0

\* Mutant of Unblocked: a transaction that waits for several is queued by the
\* first.
UnblockedEarly(w, t, waits) ==
  {c \in DOMAIN waits : t \in waits[c] /\ waits[c] \cap Range(w.block) = {}}

\* What waits for t and for nothing else (mapDependers, setDependsOn).
Unblocked(w, t, waits) ==
  {c \in DOMAIN waits : t \in waits[c] /\ waits[c] \subseteq Range(w.block) \cup {t}}

\* The transaction of the heap that comes first in this order.
First(order, heap) ==
  order[CHOOSE i \in DOMAIN order : order[i] \in heap /\ \A j \in 1 .. i - 1 : order[j] \notin heap]

\* The transactions of the new block when the heap gives them in this order and
\* the limits leave out those in skip: the size of the block, its signature
\* operations (tested twice) and, once the block has its minimal size, free
\* transactions.  Each transaction comes from the heap once, so that a set says
\* which ones a limit met.
Collect(order, skip) ==
  LET waits == [t \in Considered |-> {u \in Parents[t] : ~HaveCoins(tip, u)}]
      Take[i \in 0 .. Len(Hashes)] ==
        IF i = 0 THEN [block |-> <<>>, heap |-> {t \in Considered : waits[t] = {}}]
        ELSE LET w == Take[i - 1]
             IN IF w.heap = {} THEN w
                ELSE LET t == First(order, w.heap)
                         made == UNION {Outputs[u] : u \in Range(w.block)}
                         used == UNION {Inputs[u] : u \in Range(w.block)}
                         have == /\ t \notin skip /\ ~TooLate(t)
                                 /\ Inputs[t] \subseteq (Coins[tip] \cup made) \ used
                     IN IF have THEN [block |-> Append(w.block, t),
                                      heap |-> (w.heap \ {t}) \cup Unblocked(w, t, waits)]
                        ELSE [w EXCEPT !.heap = @ \ {t}]
  IN Take[Len(Hashes)].block

-----------------------------------------------------------------------------
\* The state has the types the code gives it, and only transactions that may be
\* loose are in the pool.
TypeOK ==
  /\ tip \in Block
  /\ mapTx \subseteq Tx \ (CoinBase \cup CoinStake)
  /\ \A out \in DOMAIN mapNextTx : mapNextTx[out] \in Tx
  /\ \A o \in DOMAIN mapOrphanTransactions : o \in Tx /\ mapOrphanTransactions[o] \in Peer
  /\ \A u \in DOMAIN mapOrphanTransactionsByPrev : mapOrphanTransactionsByPrev[u] \subseteq Tx

\* What CTxMemPool::check asserts, around every step that touches the pool or the
\* chain: each input is in mapNextTx under its spender and nothing else is, and is
\* an output of another pool transaction or a coin that is there and mature.  The
\* state keeps its types.
PoolConsistent ==
  /\ TypeOK
  /\ DOMAIN mapNextTx = UNION {Inputs[t] : t \in mapTx}
  /\ \A t \in mapTx : \A out \in Inputs[t] :
       /\ mapNextTx[out] = t
       /\ IF out[1] \in mapTx THEN out \in Outputs[out[1]]
          ELSE out \in Coins[tip] /\ ~Immature(tip, out[1], nHeight[tip] + 1)

\* A pool transaction is never also in the chain: "it's guaranteed to never
\* conflict with the underlying cache" (CCoinsViewMemPool::GetCoins).
PoolNotInChain == mapTx \cap TxsOf[tip] = {}

\* The two maps of orphans agree: an orphan is listed under each transaction it
\* spends from and nowhere else, and no list is empty (EraseOrphanTx).
OrphanMapsAgree ==
  /\ DOMAIN mapOrphanTransactionsByPrev = UNION {Parents[o] : o \in DOMAIN mapOrphanTransactions}
  /\ \A u \in DOMAIN mapOrphanTransactionsByPrev :
       mapOrphanTransactionsByPrev[u] = {o \in DOMAIN mapOrphanTransactions : u \in Parents[o]}

\* "do not allow mapOrphanTransactions to grow unbounded"
OrphansBounded == Cardinality(DOMAIN mapOrphanTransactions) <= nMaxOrphanTx

\* After a "tx" message no orphan is left that spends from a transaction the
\* message brought into the pool, itself or as an orphan of an orphan: each was
\* tried ("recursively process any orphan transactions that depended on this one"),
\* or erased untried because its peer has sent an invalid one in the same message.
OrphansFollowParents ==
  [][(\E t \in Tx, peer \in Peer : ReceiveTx(t, peer)) =>
       \A o \in DOMAIN mapOrphanTransactions' : Parents[o] \cap (mapTx' \ mapTx) = {}]_vars

\* The largest part of S whose inputs are coins of block b, mature for the next
\* one, or outputs of the part itself.
ValidPart(S, b) ==
  UNION {K \in SUBSET S : \A t \in K : \A out \in Inputs[t] :
           out[1] \in K \/ (out \in Coins[b] /\ ~Immature(b, out[1], nHeight[b] + 1))}

\* Connecting or disconnecting a block loses no pool transaction that is still
\* valid and keeps none that is not; the transactions of a disconnected block come
\* back, those that are loose and standard.
PoolFollowsChain ==
  [][tip' # tip =>
       LET loose == {t \in Range(vtx[tip]) \ (NonStandard \cup NonStandardInput) : ~NeverLoose(t, nHeight[tip])}
           back == IF tip # Genesis /\ tip' = pprev[tip] THEN loose ELSE {}
       IN mapTx' = ValidPart((mapTx \cup back) \ TxsOf[tip'], tip')]_vars

\* The block that CreateNewBlock makes has each transaction after those it spends
\* from, whatever the limits on size, signature operations and free transactions
\* leave out; and before proof of stake it leaves out nothing else that is final and
\* whose pool parents are in it.
TemplateComplete ==
  \A order \in Priorities, skip \in SUBSET mapTx :
    LET block == Collect(order, skip)
    IN /\ \A i \in DOMAIN block : \A u \in Parents[block[i]] \cap mapTx :
            \E j \in 1 .. i - 1 : block[j] = u
       /\ ~fProofOfStake => \A t \in (mapTx \cap OldVersion) \ skip :
            IsFinalTx(t, nHeight[tip] + 1) /\ Parents[t] \cap mapTx \subseteq Range(block)
              => t \in Range(block)

\* "Collect memory pool transactions into the block": a final pool transaction of
\* the current version that spends only coins of the chain is collected, when no
\* limit leaves it out.
StakeTemplateCollects ==
  fProofOfStake => \A order \in Priorities : \A t \in mapTx \ OldVersion :
    IsFinalTx(t, nHeight[tip] + 1) /\ Inputs[t] \subseteq Coins[tip] => t \in Range(Collect(order, {}))

=============================================================================
