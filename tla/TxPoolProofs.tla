---------------------------- MODULE TxPoolProofs ----------------------------
(***************************************************************************)
(* For any tree of blocks, transactions, peers and limits: the pool stays  *)
(* consistent with the chain through reorganisations (CTxMemPool::check),  *)
(* keeps what the new chain supports and nothing else, and gives complete  *)
(* block templates; the maps of orphans agree, are bounded, and no orphan  *)
(* outlives the arrival of its parent.                                     *)
(*                                                                         *)
(* The inductive invariant IInv says that the pool is Consistent: indexed  *)
(* exactly, founded on mature coins, apart from the chain.  The loops of   *)
(* the handlers are recursive functions; each is shown to run through a    *)
(* sequence of states whose steps have a stated effect, and an invariant   *)
(* of the loop is carried along it by induction on the number of steps.    *)
(***************************************************************************)
EXTENDS TxPool, FiniteSetTheorems, TLAPS, WellFoundedInduction, NaturalsInduction

-----------------------------------------------------------------------------
(* The pool [tx, next] and what the operations of CTxMemPool do to it.     *)

\* mapNextTx lists the inputs of the transactions of the pool and nothing else.
Indexed(p) ==
  /\ DOMAIN p.next = UNION {Inputs[t] : t \in p.tx}
  /\ \A t \in p.tx : \A out \in Inputs[t] : p.next[out] = t

\* The pools that the operations work on.
PoolSet ==
  {p \in [tx : SUBSET Tx, next : UNION {[D -> Tx] : D \in SUBSET (Tx \X Nat)}] : Indexed(p)}

\* Inputs are outpoints, and the parents are the transactions they belong to.
LEMMA InputFacts ==
  ASSUME NEW t \in Tx
  PROVE  /\ Inputs[t] \in SUBSET (Tx \X Nat)
         /\ \A out \in Inputs[t] : out[1] \in Tx /\ out[1] \in Parents[t]
         /\ \A u \in Parents[t] : \E out \in Inputs[t] : out[1] = u
  <1>1. Inputs[t] = Range(vin[t]) /\ Parents[t] = {out[1] : out \in Inputs[t]}
    BY Zenon DEF Inputs, Parents
  <1>2. \A i \in DOMAIN vin[t] : vin[t][i] \in Tx \X Nat
    BY PoolAssumption
  <1>3. Inputs[t] \in SUBSET (Tx \X Nat)
    BY <1>1, <1>2, Zenon DEF Range
  <1>4. QED
    BY <1>1, <1>3, Zenon

\* In an indexed pool no two transactions spend the same output.
LEMMA IndexFacts ==
  ASSUME NEW p \in PoolSet
  PROVE  /\ p.tx \in SUBSET Tx /\ Indexed(p)
         /\ \A t, u \in p.tx : t # u => Inputs[t] \cap Inputs[u] = {}
         /\ \A t \in p.tx : \A out \in Inputs[t] : out \in DOMAIN p.next /\ p.next[out] = t
         /\ \A out \in DOMAIN p.next : p.next[out] \in p.tx /\ out \in Inputs[p.next[out]]
  <1>1. p.tx \in SUBSET Tx /\ Indexed(p)
    BY Zenon DEF PoolSet
  <1>2. \A t \in p.tx : \A out \in Inputs[t] : p.next[out] = t
    BY <1>1, Zenon DEF Indexed
  <1>3. \A out \in DOMAIN p.next : \E t \in p.tx : out \in Inputs[t]
    BY <1>1, Zenon DEF Indexed
  <1>4. \A t, u \in p.tx : t # u => Inputs[t] \cap Inputs[u] = {}
    BY <1>2, Zenon
  <1>5. ASSUME NEW out \in DOMAIN p.next
        PROVE  p.next[out] \in p.tx /\ out \in Inputs[p.next[out]]
    <2>1. PICK t \in p.tx : out \in Inputs[t]
      BY <1>3, Zenon
    <2>2. p.next[out] = t
      BY <1>2, <2>1, Zenon
    <2>3. QED
      BY <2>1, <2>2, Zenon
  <1>6. \A t \in p.tx : \A out \in Inputs[t] : out \in DOMAIN p.next
    BY <1>1, Zenon DEF Indexed
  <1>7. QED
    BY <1>1, <1>2, <1>4, <1>5, <1>6, Zenon

\* A pool is in PoolSet when its index is exact and a function.
LEMMA MakePool ==
  ASSUME NEW T \in SUBSET Tx, NEW f, f = [out \in DOMAIN f |-> f[out]],
         DOMAIN f = UNION {Inputs[t] : t \in T}, \A t \in T : \A out \in Inputs[t] : f[out] = t
  PROVE  [tx |-> T, next |-> f] \in PoolSet
  <1> DEFINE p == [tx |-> T, next |-> f]
  <1>0. \A out \in DOMAIN f : \E t \in T : out \in Inputs[t]
    BY Zenon
  <1>1. DOMAIN f \in SUBSET (Tx \X Nat)
    <2>1. \A t \in T : Inputs[t] \in SUBSET (Tx \X Nat)
      BY InputFacts, Zenon
    <2>2. QED
      BY <1>0, <2>1, Zenon
  <1>2. ASSUME NEW out \in DOMAIN f PROVE f[out] \in Tx
    <2>1. PICK t \in T : out \in Inputs[t]
      BY <1>0, Zenon
    <2>2. f[out] = t
      BY <2>1, Zenon
    <2>3. QED
      BY <2>2, Zenon
  <1>3. f \in [DOMAIN f -> Tx]
    BY <1>2, Zenon
  <1>4. p.tx = T /\ p.next = f
    BY Zenon
  <1>5. Indexed(p)
    BY <1>4, Zenon DEF Indexed
  <1>6. p \in [tx : SUBSET Tx, next : UNION {[D -> Tx] : D \in SUBSET (Tx \X Nat)}]
    BY <1>1, <1>3, Zenon
  <1>7. QED
    BY <1>5, <1>6, Zenon DEF PoolSet

\* remove takes transactions out of both maps.
LEMMA ErasedFacts ==
  ASSUME NEW p \in PoolSet, NEW S
  PROVE  Erased(p, S) \in PoolSet /\ Erased(p, S).tx = p.tx \ S
  <1> DEFINE G == UNION {Inputs[t] : t \in S \cap p.tx}
             f == Without(p.next, G)
             T == p.tx \ S
  <1>1. Erased(p, S) = [tx |-> T, next |-> f]
    BY Zenon DEF Erased
  <1>2. f = [out \in (DOMAIN p.next) \ G |-> p.next[out]]
    BY Zenon DEF Without
  <1>3. /\ p.tx \in SUBSET Tx /\ \A t, u \in p.tx : t # u => Inputs[t] \cap Inputs[u] = {}
        /\ DOMAIN p.next = UNION {Inputs[t] : t \in p.tx}
        /\ \A t \in p.tx : \A out \in Inputs[t] : p.next[out] = t
    BY IndexFacts, Zenon DEF Indexed
  <1>4. ASSUME NEW out
        PROVE  (out \in DOMAIN p.next /\ out \notin G) <=> \E t \in T : out \in Inputs[t]
    <2>1. ASSUME out \in DOMAIN p.next, out \notin G PROVE \E t \in T : out \in Inputs[t]
      BY <1>3, <2>1, Zenon
    <2>2. ASSUME NEW t \in T, out \in Inputs[t], out \in G PROVE FALSE
      <3>1. PICK u \in S \cap p.tx : out \in Inputs[u]
        BY <2>2, Zenon
      <3>2. QED
        BY <1>3, <2>2, <3>1, Zenon
    <2>3. ASSUME NEW t \in T, out \in Inputs[t] PROVE out \in DOMAIN p.next
      BY <1>3, <2>3, Zenon
    <2>4. QED
      BY <2>1, <2>2, <2>3, Zenon
  <1>5. DOMAIN f = UNION {Inputs[t] : t \in T}
    <2>1. DOMAIN f = (DOMAIN p.next) \ G
      BY <1>2, Zenon
    <2>2. \A out : out \in DOMAIN f <=> \E t \in T : out \in Inputs[t]
      BY <1>4, <2>1, Zenon
    <2> HIDE DEF f, T
    <2>3. QED
      BY <2>2, Zenon
  <1>6. \A out \in DOMAIN f : f[out] = p.next[out]
    BY <1>2, Zenon
  <1>7. f = [out \in DOMAIN f |-> f[out]]
    BY <1>2, Zenon
  <1>8. T \in SUBSET Tx
    BY <1>3, Zenon
  <1>9. \A t \in T : \A out \in Inputs[t] : f[out] = t
    BY <1>3, <1>5, <1>6, ZenonT(40)
  <1> HIDE DEF f, T
  <1>10. [tx |-> T, next |-> f] \in PoolSet
    BY <1>5, <1>7, <1>8, <1>9, MakePool, Zenon
  <1>11. Erased(p, S).tx = T
    BY <1>1
  <1>12. QED
    BY <1>1, <1>10, <1>11, Zenon DEF T

\* addUnchecked puts a transaction into both maps.
LEMMA AddedFacts ==
  ASSUME NEW p \in PoolSet, NEW t \in Tx, Inputs[t] \cap DOMAIN p.next = {}
  PROVE  addUnchecked(p, t) \in PoolSet /\ addUnchecked(p, t).tx = p.tx \cup {t}
  <1> DEFINE f == [out \in DOMAIN p.next \cup Inputs[t] |-> IF out \in Inputs[t] THEN t ELSE p.next[out]]
             T == p.tx \cup {t}
  <1>1. addUnchecked(p, t) = [tx |-> T, next |-> f]
    BY Zenon DEF addUnchecked
  <1>2. /\ p.tx \in SUBSET Tx /\ DOMAIN p.next = UNION {Inputs[u] : u \in p.tx}
        /\ \A u \in p.tx : \A out \in Inputs[u] : p.next[out] = u
    BY IndexFacts, Zenon DEF Indexed
  <1>3. DOMAIN f = UNION {Inputs[u] : u \in T}
    <2>1. DOMAIN f = DOMAIN p.next \cup Inputs[t]
      BY Zenon
    <2>2. (UNION {Inputs[u] : u \in p.tx}) \cup Inputs[t] = UNION {Inputs[u] : u \in T}
      BY Zenon
    <2>3. QED
      BY <1>2, <2>1, <2>2, Zenon
  <1>4. \A out \in Inputs[t] : f[out] = t
    BY Zenon
  <1>5. \A out \in DOMAIN p.next : f[out] = p.next[out]
    BY Zenon
  <1>6. f = [out \in DOMAIN f |-> f[out]]
    BY Zenon
  <1>7. T \in SUBSET Tx
    BY <1>2, Zenon
  <1>8. ASSUME NEW u \in T, NEW out \in Inputs[u] PROVE f[out] = u
    <2>1. CASE u = t
      BY <1>4, <2>1, Zenon
    <2>2. CASE u \in p.tx
      BY <1>2, <1>5, <2>2, ZenonT(40)
    <2>3. QED
      BY <2>1, <2>2, Zenon
  <1> HIDE DEF f, T
  <1>9. [tx |-> T, next |-> f] \in PoolSet
    BY <1>3, <1>6, <1>7, <1>8, MakePool, Zenon
  <1>10. addUnchecked(p, t).tx = T
    BY <1>1
  <1>11. QED
    BY <1>1, <1>9, <1>10, Zenon DEF T

\* The descendants of S are closed under spending, and are the least such set.
LEMMA DescendantFacts ==
  ASSUME NEW p \in PoolSet, NEW S
  PROVE  /\ S \subseteq Descendants(p, S) /\ Descendants(p, S) \subseteq p.tx \cup S
         /\ \A t \in p.tx : \A out \in Inputs[t] : out[1] \in Descendants(p, S) => t \in Descendants(p, S)
         /\ \A R \in SUBSET (p.tx \cup S) :
              /\ S \subseteq R
              /\ \A t \in p.tx : \A out \in Inputs[t] : out[1] \in R => t \in R
              => Descendants(p, S) \subseteq R
  <1>0. p.tx \in SUBSET Tx /\ \A out \in DOMAIN p.next : p.next[out] \in p.tx /\ out \in Inputs[p.next[out]]
    BY IndexFacts, Zenon
  <1>1. \A t \in p.tx : \A out \in Inputs[t] : p.next[out] = t /\ out \in DOMAIN p.next
    BY IndexFacts, Zenon
  <1>2. ASSUME NEW D
        PROVE  Spenders(p, D) \subseteq D <=> \A t \in p.tx : \A out \in Inputs[t] : out[1] \in D => t \in D
    <2>1. Spenders(p, D) = {p.next[out] : out \in {o \in DOMAIN p.next : o[1] \in D}}
      BY Zenon DEF Spenders
    <2>2. ASSUME Spenders(p, D) \subseteq D, NEW t \in p.tx, NEW out \in Inputs[t], out[1] \in D
          PROVE  t \in D
      <3>1. out \in {o \in DOMAIN p.next : o[1] \in D} /\ p.next[out] = t
        BY <1>1, <2>2, Zenon
      <3>2. QED
        BY <2>1, <2>2, <3>1, Zenon
    <2>3. ASSUME \A t \in p.tx : \A out \in Inputs[t] : out[1] \in D => t \in D, NEW t \in Spenders(p, D)
          PROVE  t \in D
      <3>1. PICK out \in DOMAIN p.next : out[1] \in D /\ t = p.next[out]
        BY <2>1, <2>3, Zenon
      <3>2. QED
        BY <1>0, <2>3, <3>1, Zenon
    <2>4. QED
      BY <2>2, <2>3, Zenon
  <1>3. Descendants(p, S) =
          {t \in p.tx \cup S : \A D \in SUBSET (p.tx \cup S) : S \subseteq D /\ Spenders(p, D) \subseteq D => t \in D}
    BY Zenon DEF Descendants
  <1>4. S \subseteq Descendants(p, S) /\ Descendants(p, S) \subseteq p.tx \cup S
    BY <1>3, Zenon
  <1>5. ASSUME NEW t \in p.tx, NEW out \in Inputs[t], out[1] \in Descendants(p, S)
        PROVE  t \in Descendants(p, S)
    <2>1. SUFFICES ASSUME NEW D \in SUBSET (p.tx \cup S), S \subseteq D, Spenders(p, D) \subseteq D
                   PROVE  t \in D
      BY <1>3, Zenon
    <2>2. out[1] \in D
      BY <1>3, <1>5, <2>1, Zenon
    <2>3. QED
      BY <1>2, <2>1, <2>2, Zenon
  <1>6. ASSUME NEW R \in SUBSET (p.tx \cup S), S \subseteq R,
               \A t \in p.tx : \A out \in Inputs[t] : out[1] \in R => t \in R
        PROVE  Descendants(p, S) \subseteq R
    <2>1. Spenders(p, R) \subseteq R
      BY <1>2, <1>6, Zenon
    <2>2. QED
      BY <1>3, <1>6, <2>1, Zenon
  <1>7. QED
    BY <1>4, <1>5, <1>6, Zenon

\* What stays after remove with fRecursive spends nothing that was removed.
LEMMA RemoveFacts ==
  ASSUME NEW p \in PoolSet, NEW S
  PROVE  /\ removeRecursive(p, S) \in PoolSet
         /\ removeRecursive(p, S).tx = p.tx \ Descendants(p, S)
         /\ removeRecursive(p, S).tx \subseteq p.tx /\ removeRecursive(p, S).tx \cap S = {}
         /\ \A t \in removeRecursive(p, S).tx : \A out \in Inputs[t] :
              out[1] \notin S /\ (out[1] \in p.tx => out[1] \in removeRecursive(p, S).tx)
  <1>1. removeRecursive(p, S) \in PoolSet /\ removeRecursive(p, S).tx = p.tx \ Descendants(p, S)
    BY ErasedFacts, Zenon DEF removeRecursive
  <1>2. PICK D, q : D = Descendants(p, S) /\ q = removeRecursive(p, S)
    BY Zenon
  <1>3. S \subseteq D /\ \A t \in p.tx : \A out \in Inputs[t] : out[1] \in D => t \in D
    BY <1>2, DescendantFacts, Zenon
  <1>4. q.tx = p.tx \ D
    BY <1>1, <1>2, Zenon
  <1>5. q.tx \subseteq p.tx /\ q.tx \cap S = {}
    BY <1>3, <1>4, Zenon
  <1>6. \A t \in q.tx : \A out \in Inputs[t] : out[1] \notin S /\ (out[1] \in p.tx => out[1] \in q.tx)
    BY <1>3, <1>4, Zenon
  <1>7. QED
    BY <1>1, <1>2, <1>5, <1>6, Zenon

\* remove with fRecursive of one transaction.
LEMMA RemoveOne ==
  ASSUME NEW p \in PoolSet, NEW t
  PROVE  /\ removeRecursive(p, {t}) \in PoolSet /\ removeRecursive(p, {t}).tx \subseteq p.tx
         /\ \A u \in removeRecursive(p, {t}).tx : \A out \in Inputs[u] :
              out[1] # t /\ (out[1] \in p.tx => out[1] \in removeRecursive(p, {t}).tx)
  <1>1. PICK S : S = {t}
    BY Zenon
  <1>2. /\ removeRecursive(p, S) \in PoolSet /\ removeRecursive(p, S).tx \subseteq p.tx
        /\ \A u \in removeRecursive(p, S).tx : \A out \in Inputs[u] :
             out[1] \notin S /\ (out[1] \in p.tx => out[1] \in removeRecursive(p, S).tx)
    BY RemoveFacts, Zenon
  <1>3. QED
    BY <1>1, <1>2, Zenon

-----------------------------------------------------------------------------
(* The chain, and the pool over it.                                        *)

\* The coins that a transaction of the next block may spend.
Mature(b) == {out \in Coins[b] : ~Immature(b, out[1], nHeight[b] + 1)}

\* Every input is an output of another pool transaction or in A.
Founded(p, A) ==
  \A t \in p.tx : \A out \in Inputs[t] : IF out[1] \in p.tx THEN out \in Outputs[out[1]] ELSE out \in A

\* The pool p is consistent with the chain that ends in b.
Consistent(p, b) ==
  /\ p \in PoolSet /\ Founded(p, Mature(b))
  /\ p.tx \cap TxsOf[b] = {} /\ p.tx \cap (CoinBase \cup CoinStake) = {}

\* An output belongs to its transaction.
LEMMA OutputFacts ==
  ASSUME NEW t \in Tx, NEW out \in Outputs[t]
  PROVE  out[1] = t
  <1>1. out \in {t} \X (0 .. vout[t] - 1)
    BY Zenon DEF Outputs
  <1>2. QED
    BY <1>1

\* The coins are the outputs of the chain that nothing on the chain spends.
LEMMA CoinFacts ==
  ASSUME NEW b \in Block
  PROVE  /\ TxsOf[b] \in SUBSET Tx
         /\ \A out \in Coins[b] : /\ out[1] \in TxsOf[b] /\ out \in Outputs[out[1]] /\ HaveCoins(b, out[1])
                                  /\ \A t \in TxsOf[b] : out \notin Inputs[t]
         /\ \A t \in TxsOf[b] : \A out \in Outputs[t] :
              (\A u \in TxsOf[b] : out \notin Inputs[u]) => out \in Coins[b]
         /\ \A t : HaveCoins(b, t) => t \in TxsOf[b]
  <1>1. TxsOf[b] \in SUBSET Tx
    <2>1. TxsOf[b] = UNION {Range(vtx[x]) : x \in Chain[b]}
      BY Zenon DEF TxsOf
    <2>2. Chain[b] \in SUBSET Block
      BY PoolAssumption, Zenon
    <2>3. \A x \in Block : \A i \in DOMAIN vtx[x] : vtx[x][i] \in Tx
      BY PoolAssumption
    <2>4. \A x \in Block : Range(vtx[x]) \in SUBSET Tx
      BY <2>3, Zenon DEF Range
    <2>5. QED
      BY <2>1, <2>2, <2>4, Zenon
  <1>2. Coins[b] = (UNION {Outputs[t] : t \in TxsOf[b]}) \ (UNION {Inputs[t] : t \in TxsOf[b]})
    BY Zenon DEF Coins
  <1>3. ASSUME NEW out \in Coins[b]
        PROVE  /\ out[1] \in TxsOf[b] /\ out \in Outputs[out[1]]
               /\ \A t \in TxsOf[b] : out \notin Inputs[t]
    <2>1. \A t \in TxsOf[b] : out \notin Inputs[t]
      BY <1>2, Zenon
    <2>0. out \in UNION {Outputs[t] : t \in TxsOf[b]}
      BY <1>2, Zenon
    <2>2. PICK t \in TxsOf[b] : out \in Outputs[t]
      BY <2>0, Zenon
    <2>3. out[1] = t
      BY <1>1, <2>2, OutputFacts, Zenon
    <2>4. QED
      BY <2>1, <2>2, <2>3, Zenon
  <1>4. \A t : HaveCoins(b, t) <=> \E out \in Coins[b] : out[1] = t
    BY Zenon DEF HaveCoins
  <1>5. ASSUME NEW t, HaveCoins(b, t) PROVE t \in TxsOf[b]
    <2>1. PICK out \in Coins[b] : out[1] = t
      BY <1>4, <1>5, Zenon
    <2>2. QED
      BY <1>3, <2>1, Zenon
  <1>6. \A out \in Coins[b] : HaveCoins(b, out[1])
    BY <1>4, Zenon
  <1>7. ASSUME NEW t \in TxsOf[b], NEW out \in Outputs[t], \A u \in TxsOf[b] : out \notin Inputs[u]
        PROVE  out \in Coins[b]
    <2>1. out \in UNION {Outputs[u] : u \in TxsOf[b]}
      BY Zenon
    <2>2. out \notin UNION {Inputs[u] : u \in TxsOf[b]}
      BY <1>7, Zenon
    <2>3. QED
      BY <1>2, <2>1, <2>2, Zenon
  <1>8. QED
    BY <1>1, <1>3, <1>5, <1>6, <1>7, Zenon

\* The transactions of a chain are valid on it.
LEMMA ValidFacts ==
  ASSUME NEW b \in Block, NEW t \in TxsOf[b]
  PROVE  /\ t \in Tx /\ t \notin BadTx
         /\ \A out \in Inputs[t] : out[1] \in TxsOf[b] /\ out \in Outputs[out[1]]
         /\ \A u \in TxsOf[b] : u # t => Inputs[t] \cap Inputs[u] = {}
  <1>1. t \in Tx
    BY CoinFacts, Zenon
  <1>2. QED
    BY <1>1, ChainAssumption, Zenon

\* A block adds its transactions to those of the chain.
LEMMA BlockFacts ==
  ASSUME NEW b \in Block, b # Genesis
  PROVE  /\ pprev[b] \in Block /\ nHeight[pprev[b]] \in Nat /\ nHeight[b] = nHeight[pprev[b]] + 1
         /\ TxsOf[b] = TxsOf[pprev[b]] \cup Range(vtx[b])
         /\ Range(vtx[b]) \cap TxsOf[pprev[b]] = {}
         /\ Len(vtx[b]) \in Nat /\ \A i \in 1 .. Len(vtx[b]) : vtx[b][i] \in Range(vtx[b]) /\ vtx[b][i] \in Tx
         /\ \A t \in Range(vtx[b]) : t \in Tx /\ \E i \in 1 .. Len(vtx[b]) : vtx[b][i] = t
  <1>1. /\ pprev[b] \in Block /\ nHeight[pprev[b]] \in Nat /\ nHeight[b] = nHeight[pprev[b]] + 1
        /\ Chain[b] = Chain[pprev[b]] \cup {b}
    BY PoolAssumption, Zenon
  <1>2. TxsOf[b] = TxsOf[pprev[b]] \cup Range(vtx[b])
    <2>1. /\ TxsOf[b] = UNION {Range(vtx[x]) : x \in Chain[b]}
          /\ TxsOf[pprev[b]] = UNION {Range(vtx[x]) : x \in Chain[pprev[b]]}
      BY <1>1, Zenon DEF TxsOf
    <2>2. QED
      BY <1>1, <2>1, Zenon
  <1>3. Range(vtx[b]) \cap TxsOf[pprev[b]] = {}
    BY ChainAssumption, Zenon
  <1>4. Len(vtx[b]) \in Nat /\ DOMAIN vtx[b] = 1 .. Len(vtx[b])
    BY PoolAssumption
  <1>5. Range(vtx[b]) = {vtx[b][i] : i \in 1 .. Len(vtx[b])}
    BY <1>4, Zenon DEF Range
  <1>6. Range(vtx[b]) \in SUBSET Tx
    BY <1>2, CoinFacts, Zenon
  <1>7. QED
    BY <1>1, <1>2, <1>3, <1>4, <1>5, <1>6, Zenon

\* What has been checked of a transaction that AcceptToMemoryPool accepts.
LEMMA AcceptFacts ==
  ASSUME NEW p, NEW t, NEW b, NEW h, NEW refused, AcceptToMemoryPool(p, t, b, h, refused) = "accepted"
  PROVE  /\ ~NeverLoose(t, h) /\ t \notin NonStandard /\ t \notin NonStandardInput
         /\ t \notin p.tx /\ Inputs[t] \cap DOMAIN p.next = {} /\ ~HaveCoins(b, t)
         /\ Inputs[t] \subseteq Coins[b] \cup UNION {Outputs[u] : u \in p.tx}
         /\ \A u \in Parents[t] \ p.tx : ~Immature(b, u, nHeight[b] + 1)
  BY DEF AcceptToMemoryPool

\* A transaction that is accepted leaves the pool consistent.
LEMMA AcceptConsistent ==
  ASSUME NEW b \in Block, NEW p, Consistent(p, b), NEW t \in Tx, NEW h, NEW refused,
         AcceptToMemoryPool(p, t, b, h, refused) = "accepted"
  PROVE  Consistent(addUnchecked(p, t), b) /\ addUnchecked(p, t).tx = p.tx \cup {t}
  <1> DEFINE q == addUnchecked(p, t)
  <1>1. /\ p \in PoolSet /\ Founded(p, Mature(b)) /\ p.tx \cap TxsOf[b] = {}
        /\ p.tx \cap (CoinBase \cup CoinStake) = {} /\ p.tx \in SUBSET Tx
    BY IndexFacts, Zenon DEF Consistent
  <1>2. /\ ~NeverLoose(t, h) /\ Inputs[t] \cap DOMAIN p.next = {} /\ ~HaveCoins(b, t)
        /\ Inputs[t] \subseteq Coins[b] \cup UNION {Outputs[u] : u \in p.tx}
        /\ \A u \in Parents[t] \ p.tx : ~Immature(b, u, nHeight[b] + 1)
    BY AcceptFacts, Zenon
  <1>3. q \in PoolSet /\ q.tx = p.tx \cup {t}
    BY <1>1, <1>2, AddedFacts, Zenon
  <1>4. t \notin CoinBase \cup CoinStake
    BY <1>2, Zenon DEF NeverLoose
  <1> HIDE DEF q
  <1>5. \A out \in Coins[b] : /\ out[1] \in TxsOf[b] /\ out \in Outputs[out[1]] /\ HaveCoins(b, out[1])
                              /\ \A u \in TxsOf[b] : out \notin Inputs[u]
    BY CoinFacts, Zenon
  <1>6. ASSUME NEW out \in Inputs[t]
        PROVE  /\ out \in Outputs[out[1]] /\ (out[1] \in p.tx \/ (out \in Mature(b) /\ out[1] \notin q.tx))
    <2>1. CASE out \in Coins[b]
      <3>1. out[1] \in TxsOf[b] /\ out \in Outputs[out[1]] /\ HaveCoins(b, out[1])
        BY <1>5, <2>1, Zenon
      <3>2. out[1] \notin p.tx /\ out[1] # t
        BY <1>1, <1>2, <3>1, Zenon
      <3>3. out[1] \in Parents[t]
        BY InputFacts, Zenon
      <3>4. ~Immature(b, out[1], nHeight[b] + 1)
        BY <1>2, <3>2, <3>3, Zenon
      <3>5. QED
        BY <1>3, <2>1, <3>1, <3>2, <3>4, Zenon DEF Mature
    <2>2. CASE \E u \in p.tx : out \in Outputs[u]
      <3>1. PICK u \in p.tx : out \in Outputs[u]
        BY <2>2, Zenon
      <3>2. out[1] = u
        BY <1>1, <3>1, OutputFacts, Zenon
      <3>3. QED
        BY <3>1, <3>2, Zenon
    <2>3. QED
      BY <1>2, <2>1, <2>2, Zenon
  <1>7. t \notin TxsOf[b]
    <2>1. SUFFICES ASSUME t \in TxsOf[b] PROVE FALSE
      BY Zenon
    <2>2. PICK out \in Inputs[t] : TRUE
      <3>1. vin[t] # <<>> /\ vin[t] \in Seq(Tx \X Nat)
        BY <1>4, ChainAssumption, PoolAssumption, ZenonT(40)
      <3>2. 1 \in DOMAIN vin[t]
        BY <3>1
      <3>3. vin[t][1] \in Inputs[t]
        BY <3>2, Zenon DEF Inputs, Range
      <3>4. QED
        BY <3>3, Zenon
    <2>3. out[1] \in TxsOf[b]
      BY <2>1, ValidFacts, Zenon
    <2>4. out \notin Coins[b]
      BY <1>5, <2>1, Zenon
    <2>5. QED
      BY <1>1, <1>6, <2>3, <2>4, Zenon DEF Mature
  <1>8. ASSUME NEW u \in q.tx, NEW out \in Inputs[u]
        PROVE  IF out[1] \in q.tx THEN out \in Outputs[out[1]] ELSE out \in Mature(b)
    <2>1. CASE u = t
      BY <1>3, <1>6, <2>1, Zenon
    <2>2. CASE u \in p.tx
      <3>1. IF out[1] \in p.tx THEN out \in Outputs[out[1]] ELSE out \in Mature(b)
        BY <1>1, <2>2, Zenon DEF Founded
      <3>2. out \in Mature(b) => out[1] # t
        BY <1>2, <1>5, Zenon DEF Mature
      <3>3. QED
        BY <1>3, <3>1, <3>2, Zenon
    <2>3. QED
      BY <1>3, <2>1, <2>2, Zenon
  <1>9. Founded(q, Mature(b))
    BY <1>8, Zenon DEF Founded
  <1>10. QED
    BY <1>1, <1>3, <1>4, <1>7, <1>9, Zenon DEF Consistent, q

-----------------------------------------------------------------------------
(* Loops: recursive functions on the number of steps.                      *)

\* Induction on an interval, for a set of numbers.
LEMMA IntervalInduction ==
  ASSUME NEW n \in Nat, NEW T, 0 \in T, \A i \in 1 .. n : i - 1 \in T => i \in T
  PROVE  \A i \in 0 .. n : i \in T
  <1> DEFINE U == (0 .. n) \ T
             R == OpToRel(<, Nat)
  <1>1. SUFFICES ASSUME U # {} PROVE FALSE
    BY Zenon
  <1>2. U \subseteq Nat
    OBVIOUS
  <1>3. \E x \in U : \A y \in U : ~(<<y, x>> \in R)
    <2> HIDE DEF U
    <2> QED
      BY <1>1, <1>2, NatLessThanWellFounded, WFMin, Zenon
  <1>4. \A x, y \in Nat : <<y, x>> \in R <=> y < x
    BY Zenon DEF OpToRel
  <1> HIDE DEF R
  <1>5. PICK x \in U : \A y \in U : ~(y < x)
    BY <1>2, <1>3, <1>4, Zenon
  <1>6. x \in 1 .. n /\ x \notin T
    BY <1>5
  <1>7. x - 1 \notin T
    BY <1>6, Zenon
  <1>8. x - 1 \in U
    BY <1>6, <1>7
  <1>9. QED
    BY <1>5, <1>6, <1>8

\* f is the sequence of states from s0 through the first n steps of G.
Iterates(f, S, s0, n, G) ==
  f \in [0 .. n -> S] /\ f[0] = s0 /\ \A i \in 1 .. n : f[i] = G[i][f[i - 1]]

\* A step function can be iterated along an interval.
LEMMA Recursion ==
  ASSUME NEW S, NEW s0 \in S, NEW n \in Nat, NEW G \in [1 .. n -> [S -> S]]
  PROVE  \E f : Iterates(f, S, s0, n, G)
  <1> DEFINE Upto(k) == \E f \in [0 .. k -> S] : f[0] = s0 /\ \A i \in 1 .. k : f[i] = G[i][f[i - 1]]
             T == {k \in 0 .. n : Upto(k)}
  <1>1. 0 \in T
    <2> DEFINE g == [i \in 0 .. 0 |-> s0]
    <2>1. g \in [0 .. 0 -> S] /\ g[0] = s0 /\ (1 .. 0) = {}
      OBVIOUS
    <2> HIDE DEF g
    <2>2. Upto(0)
      BY <2>1, Zenon
    <2>3. QED
      BY <2>2
  <1>2. ASSUME NEW k \in 1 .. n, k - 1 \in T
        PROVE  k \in T
    <2>1. PICK f \in [0 .. k - 1 -> S] : f[0] = s0 /\ \A i \in 1 .. k - 1 : f[i] = G[i][f[i - 1]]
      BY <1>2, Zenon
    <2> DEFINE g == [i \in 0 .. k |-> IF i = k THEN G[k][f[k - 1]] ELSE f[i]]
    <2>2. f[k - 1] \in S
      OBVIOUS
    <2>3. G[k][f[k - 1]] \in S
      BY <2>2, Zenon
    <2>4. g \in [0 .. k -> S]
      BY <2>3
    <2>5. g[0] = s0
      BY <2>1
    <2>6. \A i \in 1 .. k : g[i] = G[i][g[i - 1]]
      <3> TAKE i \in 1 .. k
      <3>1. CASE i = k
        <4>1. g[k - 1] = f[k - 1]
          OBVIOUS
        <4>2. QED
          BY <3>1, <4>1
      <3>2. CASE i # k
        <4>1. i \in 1 .. k - 1 /\ g[i] = f[i] /\ g[i - 1] = f[i - 1]
          BY <3>2
        <4>2. QED
          BY <4>1, <2>1, Zenon
      <3>3. QED
        BY <3>1, <3>2, Zenon
    <2> HIDE DEF g
    <2>7. Upto(k)
      BY <2>4, <2>5, <2>6, Zenon
    <2> HIDE DEF Upto
    <2>8. QED
      BY <2>7
  <1>3. n \in T
    <2> HIDE DEF T
    <2>1. \A i \in 0 .. n : i \in T
      BY <1>1, <1>2, IntervalInduction, Zenon
    <2>2. QED
      BY <2>1
  <1>4. PICK f \in [0 .. n -> S] : f[0] = s0 /\ \A i \in 1 .. n : f[i] = G[i][f[i - 1]]
    BY <1>3, Zenon
  <1>5. Iterates(f, S, s0, n, G)
    BY <1>4, Zenon DEF Iterates
  <1>6. QED
    BY <1>5, Zenon

\* A function on 0 .. n.
OnSteps(g, n) == g = [i \in 0 .. n |-> g[i]]

\* A function that obeys the same recursion, where it stays in S, iterates the steps.
LEMMA RunIterates ==
  ASSUME NEW S, NEW s0 \in S, NEW n \in Nat, NEW G \in [1 .. n -> [S -> S]],
         NEW g, OnSteps(g, n), g[0] = s0,
         \A i \in 1 .. n : g[i - 1] \in S => g[i] = G[i][g[i - 1]]
  PROVE  Iterates(g, S, s0, n, G)
  <1> DEFINE T == {i \in 0 .. n : g[i] \in S}
  <1>1. 0 \in T
    OBVIOUS
  <1>2. ASSUME NEW i \in 1 .. n, i - 1 \in T
        PROVE  i \in T
    <2>1. g[i - 1] \in S /\ G[i] \in [S -> S]
      BY <1>2, Zenon
    <2>2. QED
      BY <2>1
  <1>3. \A i \in 0 .. n : g[i] \in S
    <2> HIDE DEF T
    <2>1. \A i \in 0 .. n : i \in T
      BY <1>1, <1>2, IntervalInduction, Zenon
    <2>2. QED
      BY <2>1, Zenon DEF T
  <1>4. g \in [0 .. n -> S]
    BY <1>3, Zenon DEF OnSteps
  <1>5. ASSUME NEW i \in 1 .. n
        PROVE  g[i] = G[i][g[i - 1]]
    <2>1. i - 1 \in 0 .. n
      OBVIOUS
    <2>2. QED
      BY <1>3, <2>1, Zenon
  <1>6. QED
    BY <1>4, <1>5, Zenon DEF Iterates

-----------------------------------------------------------------------------
(* ConnectTip: the pool loses the transactions of the block and what       *)
(* conflicts with them.                                                    *)

\* A set of transactions that are valid over the coins of a block.
Valid(K, b) == \A t \in K : \A out \in Inputs[t] : out[1] \in K \/ out \in Mature(b)

\* remove with fRecursive does not touch a valid set unless it is given a member of it.
LEMMA ValidStays ==
  ASSUME NEW b \in Block, NEW q \in PoolSet, NEW S, NEW K, Valid(K, b), K \cap TxsOf[b] = {},
         S \cap K = {}, S \cap TxsOf[b] = {}
  PROVE  K \cap q.tx \subseteq removeRecursive(q, S).tx
  <1> DEFINE R == {w \in q.tx \cup S : w \notin K /\ w \notin TxsOf[b]}
  <1>1. ASSUME NEW t \in q.tx, NEW out \in Inputs[t], out[1] \in R
        PROVE  t \in R
    <2>1. out[1] \notin K /\ out[1] \notin TxsOf[b]
      BY <1>1, Zenon
    <2>2. t \notin TxsOf[b]
      BY <2>1, ValidFacts, Zenon
    <2>3. out \notin Mature(b)
      BY <2>1, CoinFacts, Zenon DEF Mature
    <2>4. t \notin K
      BY <2>1, <2>3, Zenon DEF Valid
    <2>5. QED
      BY <2>2, <2>4, Zenon
  <1>2. S \subseteq R /\ R \in SUBSET (q.tx \cup S) /\ R \cap K = {}
    BY Zenon
  <1> HIDE DEF R
  <1>3. Descendants(q, S) \subseteq R
    BY <1>1, <1>2, DescendantFacts, Zenon
  <1>4. removeRecursive(q, S).tx = q.tx \ Descendants(q, S)
    BY RemoveFacts, Zenon
  <1>5. QED
    BY <1>2, <1>3, <1>4, Zenon

\* What one transaction of removeForBlock does.
ForBlockEffect(q, t, r) ==
  /\ r \in PoolSet /\ r.tx \subseteq q.tx /\ t \notin r.tx
  /\ \A u \in r.tx : Inputs[u] \cap Inputs[t] = {}
  /\ \A u \in r.tx : \A out \in Inputs[u] : out[1] \in q.tx => out[1] \in r.tx \/ out[1] = t
  /\ \A b \in Block : t \in TxsOf[b] =>
       \A K \in SUBSET q.tx : Valid(K, b) /\ K \cap TxsOf[b] = {} => K \subseteq r.tx

\* Erasing a transaction of the block and its conflicts has that effect.
LEMMA ForBlockStep ==
  ASSUME NEW q \in PoolSet, NEW t \in Tx
  PROVE  ForBlockEffect(q, t, removeConflicts(Erased(q, {t}), t))
  <1> DEFINE e == Erased(q, {t})
             r == removeConflicts(e, t)
             C == {e.next[out] : out \in Inputs[t] \cap DOMAIN e.next} \ {t}
  <1>1. e \in PoolSet /\ e.tx = q.tx \ {t}
    BY ErasedFacts, Zenon
  <1>2. r = removeRecursive(e, C)
    BY Zenon DEF removeConflicts
  <1>3. \A c \in C : \E out \in Inputs[t] \cap DOMAIN e.next : c = e.next[out]
    BY Zenon
  <1>4. \A out \in Inputs[t] \cap DOMAIN e.next : e.next[out] # t => e.next[out] \in C
    BY Zenon
  <1>5. t \notin C
    BY Zenon
  <1> HIDE DEF e, C, r
  <1>6. /\ \A u \in e.tx : \A out \in Inputs[u] : out \in DOMAIN e.next /\ e.next[out] = u
        /\ \A out \in DOMAIN e.next : e.next[out] \in e.tx /\ out \in Inputs[e.next[out]]
    BY <1>1, IndexFacts, Zenon
  <1>7. /\ r \in PoolSet /\ r.tx \subseteq e.tx /\ r.tx \cap C = {}
        /\ \A u \in r.tx : \A out \in Inputs[u] : out[1] \in e.tx => out[1] \in r.tx
    <2>1. /\ removeRecursive(e, C) \in PoolSet
          /\ removeRecursive(e, C).tx \subseteq e.tx /\ removeRecursive(e, C).tx \cap C = {}
          /\ \A u \in removeRecursive(e, C).tx : \A out \in Inputs[u] :
               out[1] \notin C /\ (out[1] \in e.tx => out[1] \in removeRecursive(e, C).tx)
      BY <1>1, RemoveFacts, Zenon
    <2>2. QED
      BY <1>2, <2>1, Zenon
  <1>8. r.tx \subseteq q.tx /\ t \notin r.tx
    BY <1>1, <1>7, Zenon
  <1>9. ASSUME NEW u \in r.tx, NEW out \in Inputs[u], out \in Inputs[t] PROVE FALSE
    <2>1. u \in e.tx /\ u # t
      BY <1>1, <1>7, Zenon
    <2>2. out \in DOMAIN e.next /\ e.next[out] = u
      BY <1>6, <2>1, Zenon
    <2>3. u \in C
      BY <1>4, <1>9, <2>1, <2>2, Zenon
    <2>4. QED
      BY <1>7, <2>3, Zenon
  <1>10. \A u \in r.tx : \A out \in Inputs[u] : out[1] \in q.tx => out[1] \in r.tx \/ out[1] = t
    BY <1>1, <1>7, Zenon
  <1>11. ASSUME NEW b \in Block, t \in TxsOf[b], NEW K \in SUBSET q.tx, Valid(K, b), K \cap TxsOf[b] = {}
         PROVE  K \subseteq r.tx
    <2>1. ASSUME NEW c \in C PROVE c \notin K /\ c \notin TxsOf[b]
      <3>1. PICK out \in Inputs[t] \cap DOMAIN e.next : c = e.next[out]
        BY <1>3, Zenon
      <3>2. out \in Inputs[c] /\ c # t
        BY <1>5, <1>6, <3>1, Zenon
      <3>3. c \notin TxsOf[b]
        BY <1>11, <3>1, <3>2, ValidFacts, Zenon
      <3>4. out[1] \in TxsOf[b] /\ out \notin Mature(b)
        BY <1>11, <3>1, ValidFacts, CoinFacts, Zenon DEF Mature
      <3>5. c \notin K
        BY <1>11, <3>2, <3>4, Zenon DEF Valid
      <3>6. QED
        BY <3>3, <3>5, Zenon
    <2>2. K \cap e.tx \subseteq r.tx
      BY <1>1, <1>2, <1>11, <2>1, ValidStays, Zenon
    <2>3. K \subseteq e.tx
      BY <1>1, <1>11, Zenon
    <2>4. QED
      BY <2>2, <2>3, Zenon
  <1>12. \A u \in r.tx : Inputs[u] \cap Inputs[t] = {}
    BY <1>9, Zenon
  <1>13. ForBlockEffect(q, t, r)
    BY <1>7, <1>8, <1>10, <1>11, <1>12, Zenon DEF ForBlockEffect
  <1>14. QED
    BY <1>13, Zenon DEF r, e

\* removeForBlock takes the transactions one after the other.
ForBlockRun(w, p, txs) ==
  /\ w \in [0 .. Len(txs) -> PoolSet] /\ w[0] = p
  /\ \A i \in 1 .. Len(txs) : w[i] = removeConflicts(Erased(w[i - 1], {txs[i]}), txs[i])
  /\ w[Len(txs)] = removeForBlock(p, txs)

\* removeForBlock goes through such states.
LEMMA ForBlockSteps ==
  ASSUME NEW p \in PoolSet, NEW txs \in Seq(Tx)
  PROVE  \E w : ForBlockRun(w, p, txs)
  <1> DEFINE n == Len(txs)
             Step(q, i) == removeConflicts(Erased(q, {txs[i]}), txs[i])
             G == [i \in 1 .. n |-> [q \in PoolSet |-> Step(q, i)]]
             Over(f) == [i \in 0 .. n |-> IF i = 0 THEN p ELSE Step(f[i - 1], i)]
             g == CHOOSE f : f = Over(f)
  <1>1. n \in Nat /\ \A i \in 1 .. n : txs[i] \in Tx
    OBVIOUS
  <1>2. removeForBlock(p, txs) = g[n]
    BY Zenon DEF removeForBlock
  <1>3. ASSUME NEW i \in 1 .. n, NEW q \in PoolSet PROVE Step(q, i) \in PoolSet
    <2>1. ForBlockEffect(q, txs[i], Step(q, i))
      BY <1>1, ForBlockStep, Zenon
    <2>2. QED
      BY <2>1, Zenon DEF ForBlockEffect
  <1>4. G \in [1 .. n -> [PoolSet -> PoolSet]]
    BY <1>3, Zenon
  <1>5. \A i \in 1 .. n, q \in PoolSet : G[i][q] = Step(q, i)
    BY Zenon
  <1> HIDE DEF G, n, Step
  <1>6. \E f : f = Over(f)
    <2>1. PICK f : Iterates(f, PoolSet, p, n, G)
      BY <1>1, <1>4, Recursion, Zenon
    <2>2. f \in [0 .. n -> PoolSet] /\ f[0] = p /\ \A i \in 1 .. n : f[i] = G[i][f[i - 1]]
      BY <2>1, Zenon DEF Iterates
    <2>3. \A i \in 1 .. n : f[i] = Step(f[i - 1], i)
      BY <1>1, <1>5, <2>2
    <2>4. f = Over(f)
      BY <1>1, <2>2, <2>3
    <2>5. QED
      BY <2>4, Zenon
  <1>7. g = Over(g)
    BY <1>6, Zenon
  <1> HIDE DEF g
  <1>8. OnSteps(g, n) /\ g[0] = p /\ \A i \in 1 .. n : g[i] = Step(g[i - 1], i)
    BY <1>1, <1>7 DEF OnSteps
  <1>9. g \in [0 .. n -> PoolSet]
    <2>1. \A i \in 1 .. n : g[i - 1] \in PoolSet => g[i] = G[i][g[i - 1]]
      BY <1>5, <1>8, Zenon
    <2>2. Iterates(g, PoolSet, p, n, G)
      BY <1>1, <1>4, <1>8, <2>1, RunIterates, Zenon
    <2>3. QED
      BY <2>2, Zenon DEF Iterates
  <1>10. ForBlockRun(g, p, txs)
    BY <1>2, <1>8, <1>9, Zenon DEF n, Step, ForBlockRun
  <1>11. QED
    BY <1>10, Zenon

\* The coins of the previous block, and the outputs of the new one that pool
\* transactions may have spent before it came.
ConnectFounds(b) ==
  Mature(pprev[b]) \cup
    {out \in Tx \X Nat : \E t \in Range(vtx[b]) \ (CoinBase \cup CoinStake) : out \in Outputs[t]}

\* A coin that is mature stays mature while nothing spends it.
LEMMA MatureNext ==
  ASSUME NEW b \in Block, b # Genesis, NEW out \in Mature(pprev[b]), \A t \in Range(vtx[b]) : out \notin Inputs[t]
  PROVE  out \in Mature(b)
  <1> DEFINE a == pprev[b]
             t == out[1]
  <1>1. /\ a \in Block /\ nHeight[a] \in Nat /\ nHeight[b] = nHeight[a] + 1
        /\ TxsOf[b] = TxsOf[a] \cup Range(vtx[b]) /\ Range(vtx[b]) \cap TxsOf[a] = {}
    BY BlockFacts, Zenon
  <1>2. out \in Coins[a] /\ ~Immature(a, t, nHeight[a] + 1)
    BY Zenon DEF Mature
  <1>3. t \in TxsOf[a] /\ out \in Outputs[t] /\ \A u \in TxsOf[a] : out \notin Inputs[u]
    BY <1>1, <1>2, CoinFacts, Zenon
  <1>4. out \in Coins[b]
    BY <1>1, <1>3, CoinFacts, Zenon
  <1>5. CoinsHeight[b][t] = CoinsHeight[a][t] /\ CoinsHeight[a][t] \in Nat
    <2>1. Chain[b] = Chain[a] \cup {b} /\ Chain[a] \in SUBSET Block
      BY <1>1, PoolAssumption, Zenon
    <2>2. t \notin Range(vtx[b])
      BY <1>1, <1>3, Zenon
    <2>3. MinedIn(b, t) = MinedIn(a, t)
      BY <2>1, <2>2, Zenon DEF MinedIn
    <2>4. /\ CoinsHeight[b][t] = nHeight[CHOOSE x \in MinedIn(b, t) : TRUE]
          /\ CoinsHeight[a][t] = nHeight[CHOOSE x \in MinedIn(a, t) : TRUE]
      BY <1>1, <1>3, Zenon DEF CoinsHeight
    <2>5. TxsOf[a] = UNION {Range(vtx[x]) : x \in Chain[a]}
      BY <1>1, Zenon DEF TxsOf
    <2>6. \E x \in MinedIn(a, t) : TRUE
      BY <1>3, <2>5, Zenon DEF MinedIn
    <2>7. (CHOOSE x \in MinedIn(a, t) : TRUE) \in MinedIn(a, t)
      BY <2>6, Zenon
    <2>8. MinedIn(a, t) \subseteq Block
      BY <2>1, Zenon DEF MinedIn
    <2>9. QED
      BY <2>3, <2>4, <2>7, <2>8, PoolAssumption, Zenon
  <1>6. ~Immature(b, t, nHeight[b] + 1)
    <2>1. COINBASE_MATURITY \in Nat
      BY PoolAssumption, Zenon
    <2> HIDE DEF a, t
    <2>2. (nHeight[a] + 1) - CoinsHeight[a][t] >= COINBASE_MATURITY
            => ~((nHeight[b] + 1) - CoinsHeight[b][t] < COINBASE_MATURITY)
      BY <1>1, <1>5, <2>1
    <2>3. t \in CoinBase \cup CoinStake => ~((nHeight[a] + 1) - CoinsHeight[a][t] < COINBASE_MATURITY)
      BY <1>2, <1>3, Zenon DEF Immature
    <2>4. ~((nHeight[a] + 1) - CoinsHeight[a][t] < COINBASE_MATURITY)
            => (nHeight[a] + 1) - CoinsHeight[a][t] >= COINBASE_MATURITY
      BY <1>1, <1>5, <2>1
    <2>5. QED
      BY <2>2, <2>3, <2>4, Zenon DEF Immature
  <1>7. QED
    BY <1>4, <1>6, Zenon DEF Mature

\* The pool after the first k transactions of the block.
ConnectInv(p, q, b, k) ==
  /\ q.tx \subseteq p.tx /\ Founded(q, ConnectFounds(b))
  /\ \A j \in 1 .. k : vtx[b][j] \notin q.tx /\ \A t \in q.tx : Inputs[t] \cap Inputs[vtx[b][j]] = {}
  /\ \A K \in SUBSET p.tx : Valid(K, b) /\ K \cap TxsOf[b] = {} => K \subseteq q.tx

\* One transaction of the block keeps the invariant of the loop.
LEMMA ConnectStep ==
  ASSUME NEW b \in Block, b # Genesis, NEW p, Consistent(p, pprev[b]), NEW k \in 1 .. Len(vtx[b]),
         NEW q \in PoolSet, ConnectInv(p, q, b, k - 1), NEW r, ForBlockEffect(q, vtx[b][k], r)
  PROVE  ConnectInv(p, r, b, k)
  <1> DEFINE t == vtx[b][k]
  <1>1. t \in Tx /\ t \in Range(vtx[b]) /\ t \in TxsOf[b] /\ Len(vtx[b]) \in Nat
    <2>1. /\ TxsOf[b] = TxsOf[pprev[b]] \cup Range(vtx[b]) /\ Len(vtx[b]) \in Nat
          /\ \A i \in 1 .. Len(vtx[b]) : vtx[b][i] \in Range(vtx[b]) /\ vtx[b][i] \in Tx
      BY BlockFacts, Zenon
    <2>2. QED
      BY <2>1, Zenon
  <1>2. /\ r.tx \subseteq q.tx /\ t \notin r.tx
        /\ \A u \in r.tx : Inputs[u] \cap Inputs[t] = {}
        /\ \A u \in r.tx : \A out \in Inputs[u] : out[1] \in q.tx => out[1] \in r.tx \/ out[1] = t
        /\ \A K \in SUBSET q.tx : Valid(K, b) /\ K \cap TxsOf[b] = {} => K \subseteq r.tx
    BY <1>1, Zenon DEF ForBlockEffect
  <1>3. /\ q.tx \subseteq p.tx /\ Founded(q, ConnectFounds(b))
        /\ \A j \in 1 .. k - 1 : vtx[b][j] \notin q.tx /\ \A u \in q.tx : Inputs[u] \cap Inputs[vtx[b][j]] = {}
        /\ \A K \in SUBSET p.tx : Valid(K, b) /\ K \cap TxsOf[b] = {} => K \subseteq q.tx
    BY Zenon DEF ConnectInv
  <1>4. \A j \in 1 .. k : j \in 1 .. k - 1 \/ j = k
    BY <1>1
  <1>5. p.tx \in SUBSET Tx /\ p.tx \cap (CoinBase \cup CoinStake) = {}
    BY IndexFacts, Zenon DEF Consistent
  <1>6. ASSUME NEW u \in r.tx, NEW out \in Inputs[u]
        PROVE  IF out[1] \in r.tx THEN out \in Outputs[out[1]] ELSE out \in ConnectFounds(b)
    <2>1. IF out[1] \in q.tx THEN out \in Outputs[out[1]] ELSE out \in ConnectFounds(b)
      BY <1>2, <1>3, Zenon DEF Founded
    <2>2. CASE out[1] \in q.tx /\ out[1] \notin r.tx
      <3>1. out[1] = t /\ out \in Outputs[t]
        BY <1>2, <2>1, <2>2, Zenon
      <3>2. t \notin CoinBase \cup CoinStake
        BY <1>3, <1>5, <2>2, <3>1, Zenon
      <3>3. out \in Tx \X Nat
        BY <1>2, <1>3, <1>5, InputFacts, Zenon
      <3>4. out \in ConnectFounds(b)
        BY <1>1, <3>1, <3>2, <3>3, Zenon DEF ConnectFounds
      <3>5. QED
        BY <2>2, <3>4, Zenon
    <2>3. CASE out[1] \in r.tx \/ out[1] \notin q.tx
      BY <1>2, <2>1, <2>3, Zenon
    <2>4. QED
      BY <2>2, <2>3, Zenon
  <1>7. Founded(r, ConnectFounds(b))
    BY <1>6, Zenon DEF Founded
  <1>8. \A K \in SUBSET p.tx : Valid(K, b) /\ K \cap TxsOf[b] = {} => K \subseteq r.tx
    BY <1>2, <1>3, Zenon
  <1>9. \A j \in 1 .. k : vtx[b][j] \notin r.tx /\ \A u \in r.tx : Inputs[u] \cap Inputs[vtx[b][j]] = {}
    BY <1>2, <1>3, <1>4, Zenon
  <1>10. r.tx \subseteq p.tx
    BY <1>2, <1>3, Zenon
  <1>11. QED
    BY <1>7, <1>8, <1>9, <1>10, Zenon DEF ConnectInv

\* After the block the pool is consistent with the new chain, and all that is valid
\* on it is still there.
LEMMA ConnectConsistent ==
  ASSUME NEW b \in Block, b # Genesis, NEW p, Consistent(p, pprev[b])
  PROVE  /\ Consistent(removeForBlock(p, vtx[b]), b)
         /\ removeForBlock(p, vtx[b]).tx \subseteq p.tx
         /\ \A K \in SUBSET p.tx :
              Valid(K, b) /\ K \cap TxsOf[b] = {} => K \subseteq removeForBlock(p, vtx[b]).tx
  <1> DEFINE n == Len(vtx[b])
             z == removeForBlock(p, vtx[b])
  <1>1. /\ p \in PoolSet /\ p.tx \in SUBSET Tx /\ Founded(p, Mature(pprev[b]))
        /\ p.tx \cap TxsOf[pprev[b]] = {} /\ p.tx \cap (CoinBase \cup CoinStake) = {}
    BY IndexFacts, Zenon DEF Consistent
  <1>2. vtx[b] \in Seq(Tx) /\ n \in Nat
    BY PoolAssumption
  <1>3. PICK w : ForBlockRun(w, p, vtx[b])
    BY <1>1, <1>2, ForBlockSteps, Zenon
  <1>4. /\ w \in [0 .. n -> PoolSet] /\ w[0] = p /\ w[n] = z
        /\ \A i \in 1 .. n : w[i] = removeConflicts(Erased(w[i - 1], {vtx[b][i]}), vtx[b][i])
    BY <1>3, Zenon DEF ForBlockRun
  <1> DEFINE T == {k \in 0 .. n : ConnectInv(p, w[k], b, k)}
  <1>5. 0 \in T
    <2>1. 1 .. 0 = {} /\ 0 \in 0 .. n
      BY <1>2
    <2>2. Founded(p, ConnectFounds(b))
      BY <1>1, Zenon DEF Founded, ConnectFounds
    <2>3. ConnectInv(p, w[0], b, 0)
      BY <1>4, <2>1, <2>2, Zenon DEF ConnectInv
    <2>4. QED
      BY <2>1, <2>3, Zenon
  <1>6. ASSUME NEW k \in 1 .. n, k - 1 \in T PROVE k \in T
    <2>1. k - 1 \in 0 .. n /\ k \in 0 .. n
      BY <1>2
    <2>2. w[k - 1] \in PoolSet /\ ConnectInv(p, w[k - 1], b, k - 1)
      BY <1>4, <1>6, <2>1, Zenon
    <2>3. ForBlockEffect(w[k - 1], vtx[b][k], w[k])
      <3>1. vtx[b][k] \in Tx
        BY BlockFacts, Zenon
      <3>2. w[k] = removeConflicts(Erased(w[k - 1], {vtx[b][k]}), vtx[b][k])
        BY <1>4, Zenon
      <3>3. ForBlockEffect(w[k - 1], vtx[b][k], removeConflicts(Erased(w[k - 1], {vtx[b][k]}), vtx[b][k]))
        BY <2>2, <3>1, ForBlockStep, Zenon
      <3>4. QED
        BY <3>2, <3>3, Zenon
    <2>4. ConnectInv(p, w[k], b, k)
      BY <2>2, <2>3, ConnectStep, Zenon
    <2>5. QED
      BY <2>1, <2>4, Zenon
  <1>7. n \in 0 .. n
    BY <1>2
  <1>8. ConnectInv(p, z, b, n) /\ z \in PoolSet
    <2> HIDE DEF T
    <2>1. n \in T
      BY <1>2, <1>5, <1>6, <1>7, IntervalInduction, Zenon
    <2>2. QED
      BY <1>4, <1>7, <2>1, Zenon DEF T
  <1> HIDE DEF z, T
  <1>9. /\ z.tx \subseteq p.tx /\ Founded(z, ConnectFounds(b))
        /\ \A j \in 1 .. n : vtx[b][j] \notin z.tx /\ \A t \in z.tx : Inputs[t] \cap Inputs[vtx[b][j]] = {}
        /\ \A K \in SUBSET p.tx : Valid(K, b) /\ K \cap TxsOf[b] = {} => K \subseteq z.tx
    BY <1>8, Zenon DEF ConnectInv
  <1>10. ASSUME NEW t \in Range(vtx[b])
         PROVE  t \notin z.tx /\ \A u \in z.tx : Inputs[u] \cap Inputs[t] = {}
    <2>1. PICK i \in 1 .. n : vtx[b][i] = t
      BY BlockFacts, Zenon
    <2>2. QED
      BY <1>9, <2>1, Zenon
  <1>11. /\ TxsOf[b] = TxsOf[pprev[b]] \cup Range(vtx[b]) /\ Range(vtx[b]) \cap TxsOf[pprev[b]] = {}
         /\ pprev[b] \in Block
    BY BlockFacts, Zenon
  <1>12. z.tx \cap TxsOf[b] = {} /\ z.tx \cap (CoinBase \cup CoinStake) = {}
    BY <1>1, <1>9, <1>10, <1>11, Zenon
  <1>13. ASSUME NEW u \in z.tx, NEW out \in Inputs[u], out \in ConnectFounds(b)
         PROVE  out \in Mature(b)
    <2>1. \A t \in Range(vtx[b]) : out \notin Inputs[t]
      BY <1>10, Zenon
    <2>2. CASE out \in Mature(pprev[b])
      BY <2>1, <2>2, MatureNext, Zenon
    <2>3. CASE \E t \in Range(vtx[b]) \ (CoinBase \cup CoinStake) : out \in Outputs[t]
      <3>1. PICK t \in Range(vtx[b]) \ (CoinBase \cup CoinStake) : out \in Outputs[t]
        BY <2>3, Zenon
      <3>2. t \in Tx /\ t \in TxsOf[b] /\ t \notin TxsOf[pprev[b]]
        BY <1>11, BlockFacts, Zenon
      <3>3. out[1] = t
        BY <3>1, <3>2, OutputFacts, Zenon
      <3>4. \A x \in TxsOf[pprev[b]] : out \notin Inputs[x]
        BY <1>11, <3>2, <3>3, ValidFacts, Zenon
      <3>5. \A x \in TxsOf[b] : out \notin Inputs[x]
        BY <1>11, <2>1, <3>4, Zenon
      <3>6. out \in Coins[b]
        BY <3>1, <3>2, <3>5, CoinFacts, Zenon
      <3>7. QED
        BY <3>1, <3>3, <3>6, Zenon DEF Mature, Immature
    <2>4. QED
      BY <1>13, <2>2, <2>3, Zenon DEF ConnectFounds
  <1>14. Founded(z, Mature(b))
    BY <1>9, <1>13, Zenon DEF Founded
  <1>15. Consistent(z, b)
    BY <1>8, <1>12, <1>14, Zenon DEF Consistent
  <1>16. QED
    BY <1>9, <1>15, Zenon DEF z

-----------------------------------------------------------------------------
(* DisconnectTip: the transactions of the block come back to the pool.     *)

\* Those that may come back.
Returning(b) ==
  {t \in Range(vtx[b]) \ (NonStandard \cup NonStandardInput) : ~NeverLoose(t, nHeight[b])}

\* The outputs that pool transactions spend after the first k of the block: of the
\* chain without them, and not spent on the chain to the previous block.
ResurrectFounds(b, k) ==
  {out \in Tx \X Nat : /\ out[1] \in TxsOf[b] /\ out \in Outputs[out[1]]
                       /\ \A j \in 1 .. k : out[1] # vtx[b][j]
                       /\ \A t \in TxsOf[pprev[b]] : out \notin Inputs[t]}

\* The pool q after the first k transactions of the block, from the pool p.
ResurrectInv(p, q, b, k) ==
  /\ q.tx \subseteq p.tx \cup Returning(b)
  /\ \A t \in q.tx : t \in p.tx \/ \E j \in 1 .. k : vtx[b][j] = t
  /\ Founded(q, ResurrectFounds(b, k))
  /\ \A K \in SUBSET (p.tx \cup Returning(b)) : Valid(K, pprev[b]) /\ K \cap TxsOf[pprev[b]] = {} =>
       \A t \in K : (t \in p.tx \/ \E j \in 1 .. k : vtx[b][j] = t) => t \in q.tx

\* A transaction of the block that is valid over the previous coins is accepted again.
LEMMA ReturnAccepted ==
  ASSUME NEW b \in Block, b # Genesis, NEW p, Consistent(p, b), NEW k \in 1 .. Len(vtx[b]),
         NEW q \in PoolSet, ResurrectInv(p, q, b, k - 1),
         NEW K \in SUBSET (p.tx \cup Returning(b)), Valid(K, pprev[b]), K \cap TxsOf[pprev[b]] = {},
         vtx[b][k] \in K
  PROVE  AcceptToMemoryPool(q, vtx[b][k], pprev[b], nHeight[b], {}) = "accepted"
  <1> DEFINE t == vtx[b][k]
             a == pprev[b]
  <1>1. /\ a \in Block /\ nHeight[a] \in Nat /\ nHeight[b] = nHeight[a] + 1
        /\ TxsOf[b] = TxsOf[a] \cup Range(vtx[b]) /\ Range(vtx[b]) \cap TxsOf[a] = {}
        /\ Len(vtx[b]) \in Nat /\ \A i \in 1 .. Len(vtx[b]) : vtx[b][i] \in Range(vtx[b]) /\ vtx[b][i] \in Tx
    BY BlockFacts, Zenon
  <1>2. t \in Range(vtx[b]) /\ t \in Tx /\ t \in TxsOf[b] /\ t \notin TxsOf[a]
    BY <1>1, Zenon
  <1>3. /\ p \in PoolSet /\ p.tx \cap TxsOf[b] = {} /\ Founded(p, Mature(b)) /\ p.tx \in SUBSET Tx
    BY IndexFacts, Zenon DEF Consistent
  <1>4. /\ \A u \in q.tx : u \in p.tx \/ \E j \in 1 .. k - 1 : vtx[b][j] = u
        /\ \A u \in K : (u \in p.tx \/ \E j \in 1 .. k - 1 : vtx[b][j] = u) => u \in q.tx
    BY Zenon DEF ResurrectInv
  <1>5. 1 .. k - 1 \subseteq 1 .. Len(vtx[b]) /\ k \notin 1 .. k - 1
    BY <1>1
  <1>6. /\ t \notin BadTx
        /\ \A out \in Inputs[t] : out[1] \in TxsOf[b] /\ out \in Outputs[out[1]]
        /\ \A u \in TxsOf[b] : u # t => Inputs[t] \cap Inputs[u] = {}
    BY <1>2, ValidFacts, Zenon
  <1>7. /\ \A i, j \in 1 .. Len(vtx[b]) : vtx[b][i] = vtx[b][j] => i = j
        /\ Parents[t] \subseteq TxsOf[a] \cup {vtx[b][j] : j \in 1 .. k - 1}
        /\ IsFinalTx(t, nHeight[b])
    <2>1. DOMAIN vtx[b] = 1 .. Len(vtx[b])
      BY PoolAssumption
    <2>2. QED
      BY <2>1, ChainAssumption, Zenon
  <1>8. t \in Returning(b)
    BY <1>2, <1>3, Zenon
  <1>9. ~NeverLoose(t, nHeight[b]) /\ t \notin NonStandard /\ t \notin NonStandardInput
    BY <1>8, Zenon DEF Returning
  <1>10. IsFinalTx(t, nHeight[b] + 1)
    <2>1. nLockTime[t] \in Nat /\ nHeight[b] \in Nat
      BY <1>2, PoolAssumption, Zenon
    <2>2. nLockTime[t] < nHeight[b] => nLockTime[t] < nHeight[b] + 1
      BY <2>1
    <2>3. QED
      BY <1>7, <2>2, Zenon DEF IsFinalTx
  <1>11. t \notin q.tx
    <2>1. t \notin p.tx
      BY <1>2, <1>3, Zenon
    <2>2. \A j \in 1 .. k - 1 : vtx[b][j] # t
      BY <1>5, <1>7, Zenon
    <2>3. QED
      BY <1>4, <2>1, <2>2, Zenon
  <1>12. ASSUME NEW out \in Inputs[t], out \in DOMAIN q.next PROVE FALSE
    <2>0. q.next[out] \in q.tx /\ out \in Inputs[q.next[out]]
      BY <1>12, IndexFacts, Zenon
    <2>1. PICK c \in q.tx : out \in Inputs[c]
      BY <2>0, Zenon
    <2>2. c # t
      BY <1>11, <2>1, Zenon
    <2>3. CASE c \in p.tx
      <3>1. out[1] \notin p.tx
        BY <1>3, <1>6, Zenon
      <3>2. out \in Mature(b)
        BY <1>3, <2>1, <2>3, <3>1, Zenon DEF Founded
      <3>3. QED
        BY <1>2, <3>2, CoinFacts, Zenon DEF Mature
    <2>4. CASE \E j \in 1 .. k - 1 : vtx[b][j] = c
      <3>1. c \in TxsOf[b]
        BY <1>1, <1>5, <2>4, Zenon
      <3>2. QED
        BY <1>6, <2>1, <2>2, <3>1, Zenon
    <2>5. QED
      BY <1>4, <2>3, <2>4, Zenon
  <1>13. ~HaveCoins(a, t)
    BY <1>1, <1>2, CoinFacts, Zenon
  <1>14. ASSUME NEW out \in Inputs[t]
         PROVE  out[1] \in q.tx \/ (out \in Coins[a] /\ HaveCoins(a, out[1]) /\ ~Immature(a, out[1], nHeight[a] + 1))
    <2>1. CASE out \in Mature(a)
      BY <1>1, <2>1, CoinFacts, Zenon DEF Mature
    <2>2. CASE out[1] \in K
      <3>1. out[1] \in Parents[t] /\ out[1] \notin TxsOf[a]
        BY <1>2, <2>2, InputFacts, Zenon
      <3>2. \E j \in 1 .. k - 1 : vtx[b][j] = out[1]
        BY <1>7, <3>1, Zenon
      <3>3. QED
        BY <1>4, <2>2, <3>2, Zenon
    <2>3. QED
      BY <2>1, <2>2, Zenon DEF Valid
  <1>15. ASSUME NEW u \in Parents[t], u \notin q.tx
         PROVE  HaveCoins(a, u) /\ ~Immature(a, u, nHeight[a] + 1)
    <2>1. PICK out \in Inputs[t] : out[1] = u
      BY <1>2, InputFacts, Zenon
    <2>2. QED
      BY <1>14, <1>15, <2>1, Zenon
  <1>16. Inputs[t] \subseteq Coins[a] \cup UNION {Outputs[u] : u \in q.tx}
    BY <1>6, <1>14, Zenon
  <1>17. Inputs[t] \cap DOMAIN q.next = {}
    BY <1>12, Zenon
  <1> HIDE DEF t, a
  <1>18. AcceptToMemoryPool(q, t, a, nHeight[b], {}) = "accepted"
    BY <1>6, <1>9, <1>10, <1>11, <1>13, <1>15, <1>16, <1>17, Zenon DEF AcceptToMemoryPool
  <1>19. QED
    BY <1>18, Zenon DEF t, a

\* What becomes of one transaction of the block.
ResurrectEffect(q, t, b, r) ==
  \/ /\ AcceptToMemoryPool(q, t, pprev[b], nHeight[b], {}) = "accepted"
     /\ r = addUnchecked(q, t)
  \/ /\ AcceptToMemoryPool(q, t, pprev[b], nHeight[b], {}) # "accepted"
     /\ r = removeRecursive(q, {t})

\* One transaction that comes back, or is removed, keeps the invariant of the loop.
LEMMA ResurrectStep ==
  ASSUME NEW b \in Block, b # Genesis, NEW p, Consistent(p, b), NEW k \in 1 .. Len(vtx[b]),
         NEW q \in PoolSet, ResurrectInv(p, q, b, k - 1), NEW r, ResurrectEffect(q, vtx[b][k], b, r)
  PROVE  ResurrectInv(p, r, b, k)
  <1> DEFINE t == vtx[b][k]
             a == pprev[b]
  <1>1. /\ a \in Block /\ TxsOf[b] = TxsOf[a] \cup Range(vtx[b]) /\ Range(vtx[b]) \cap TxsOf[a] = {}
        /\ Len(vtx[b]) \in Nat /\ \A i \in 1 .. Len(vtx[b]) : vtx[b][i] \in Range(vtx[b]) /\ vtx[b][i] \in Tx
    BY BlockFacts, Zenon
  <1>2. t \in Range(vtx[b]) /\ t \in Tx /\ t \in TxsOf[b] /\ t \notin TxsOf[a]
    BY <1>1, Zenon
  <1>3. p.tx \cap TxsOf[b] = {} /\ p.tx \in SUBSET Tx /\ q.tx \in SUBSET Tx
    BY IndexFacts, Zenon DEF Consistent
  <1>4. /\ q.tx \subseteq p.tx \cup Returning(b)
        /\ \A u \in q.tx : u \in p.tx \/ \E j \in 1 .. k - 1 : vtx[b][j] = u
        /\ Founded(q, ResurrectFounds(b, k - 1))
        /\ \A K \in SUBSET (p.tx \cup Returning(b)) : Valid(K, a) /\ K \cap TxsOf[a] = {} =>
             \A u \in K : (u \in p.tx \/ \E j \in 1 .. k - 1 : vtx[b][j] = u) => u \in q.tx
    BY Zenon DEF ResurrectInv
  <1>5. /\ \A j \in 1 .. k - 1 : j \in 1 .. k
        /\ \A j \in 1 .. k : (j \in 1 .. k - 1 \/ j = k) /\ j \in 1 .. Len(vtx[b])
        /\ k \in 1 .. k
    BY <1>1
  <1>6. ASSUME NEW out \in ResurrectFounds(b, k - 1)
        PROVE  out \in Outputs[out[1]] /\ (out[1] # t => out \in ResurrectFounds(b, k))
    BY <1>5, Zenon DEF ResurrectFounds
  <1>7. CASE AcceptToMemoryPool(q, t, a, nHeight[b], {}) = "accepted" /\ r = addUnchecked(q, t)
    <2>1. /\ ~NeverLoose(t, nHeight[b]) /\ t \notin NonStandard /\ t \notin NonStandardInput
          /\ Inputs[t] \cap DOMAIN q.next = {} /\ ~HaveCoins(a, t)
          /\ Inputs[t] \subseteq Coins[a] \cup UNION {Outputs[u] : u \in q.tx}
      BY <1>7, AcceptFacts, Zenon
    <2>2. r.tx = q.tx \cup {t}
      BY <1>2, <1>7, <2>1, AddedFacts, Zenon
    <2>3. r.tx \subseteq p.tx \cup Returning(b)
      BY <1>2, <1>4, <2>1, <2>2, Zenon DEF Returning
    <2>4. \A u \in r.tx : u \in p.tx \/ \E j \in 1 .. k : vtx[b][j] = u
      BY <1>4, <1>5, <2>2, Zenon
    <2>5. ASSUME NEW out \in Inputs[t]
          PROVE  IF out[1] \in r.tx THEN out \in Outputs[out[1]] ELSE out \in ResurrectFounds(b, k)
      <3>1. CASE \E u \in q.tx : out \in Outputs[u]
        BY <1>3, <2>2, <3>1, OutputFacts, Zenon
      <3>2. CASE out \in Coins[a]
        <4>1. /\ out[1] \in TxsOf[a] /\ out \in Outputs[out[1]]
              /\ \A u \in TxsOf[a] : out \notin Inputs[u]
          BY <1>1, <3>2, CoinFacts, Zenon
        <4>2. \A j \in 1 .. k : out[1] # vtx[b][j]
          BY <1>1, <1>5, <4>1, Zenon
        <4>3. out \in Tx \X Nat
          BY <1>2, InputFacts, Zenon
        <4>4. out \in ResurrectFounds(b, k)
          BY <1>1, <4>1, <4>2, <4>3, Zenon DEF ResurrectFounds
        <4>5. QED
          BY <4>1, <4>4, Zenon
      <3>3. QED
        BY <2>1, <3>1, <3>2, Zenon
    <2>6. ASSUME NEW u \in q.tx, NEW out \in Inputs[u]
          PROVE  IF out[1] \in r.tx THEN out \in Outputs[out[1]] ELSE out \in ResurrectFounds(b, k)
      <3>1. IF out[1] \in q.tx THEN out \in Outputs[out[1]] ELSE out \in ResurrectFounds(b, k - 1)
        BY <1>4, Zenon DEF Founded
      <3>2. QED
        BY <1>6, <2>2, <3>1, Zenon
    <2>7. Founded(r, ResurrectFounds(b, k))
      BY <2>2, <2>5, <2>6, Zenon DEF Founded
    <2>8. ASSUME NEW K \in SUBSET (p.tx \cup Returning(b)), Valid(K, a), K \cap TxsOf[a] = {},
                 NEW u \in K, u \in p.tx \/ \E j \in 1 .. k : vtx[b][j] = u
          PROVE  u \in r.tx
      BY <1>4, <1>5, <2>2, <2>8, Zenon
    <2>9. QED
      BY <2>3, <2>4, <2>7, <2>8, Zenon DEF ResurrectInv
  <1>8. CASE AcceptToMemoryPool(q, t, a, nHeight[b], {}) # "accepted" /\ r = removeRecursive(q, {t})
    <2>1. /\ r.tx \subseteq q.tx
          /\ \A u \in r.tx : \A out \in Inputs[u] : out[1] # t /\ (out[1] \in q.tx => out[1] \in r.tx)
      <3>1. /\ removeRecursive(q, {t}).tx \subseteq q.tx
            /\ \A u \in removeRecursive(q, {t}).tx : \A out \in Inputs[u] :
                 out[1] # t /\ (out[1] \in q.tx => out[1] \in removeRecursive(q, {t}).tx)
        BY RemoveOne, Zenon
      <3>2. QED
        BY <1>8, <3>1, Zenon
    <2>2. r.tx \subseteq p.tx \cup Returning(b)
      BY <1>4, <2>1, Zenon
    <2>3. \A u \in r.tx : u \in p.tx \/ \E j \in 1 .. k : vtx[b][j] = u
      BY <1>4, <1>5, <2>1, Zenon
    <2>4. ASSUME NEW u \in r.tx, NEW out \in Inputs[u]
          PROVE  IF out[1] \in r.tx THEN out \in Outputs[out[1]] ELSE out \in ResurrectFounds(b, k)
      <3>1. IF out[1] \in q.tx THEN out \in Outputs[out[1]] ELSE out \in ResurrectFounds(b, k - 1)
        BY <1>4, <2>1, Zenon DEF Founded
      <3>2. QED
        BY <1>6, <2>1, <3>1, Zenon
    <2>5. Founded(r, ResurrectFounds(b, k))
      BY <2>4, Zenon DEF Founded
    <2>6. ASSUME NEW K \in SUBSET (p.tx \cup Returning(b)), Valid(K, a), K \cap TxsOf[a] = {},
                 NEW u \in K, u \in p.tx \/ \E j \in 1 .. k : vtx[b][j] = u
          PROVE  u \in r.tx
      <3>1. t \notin K
        BY <1>8, <2>6, ReturnAccepted, Zenon
      <3>2. u \in q.tx
        BY <1>4, <1>5, <2>6, <3>1, Zenon
      <3>3. {t} \cap K = {} /\ {t} \cap TxsOf[a] = {}
        BY <1>2, <3>1, Zenon
      <3>4. K \cap q.tx \subseteq r.tx
        BY <1>1, <1>8, <2>6, <3>3, ValidStays, Zenon
      <3>5. QED
        BY <3>2, <3>4, Zenon
    <2>7. QED
      BY <2>2, <2>3, <2>5, <2>6, Zenon DEF ResurrectInv
  <1>9. QED
    BY <1>7, <1>8, Zenon DEF ResurrectEffect

\* The transactions are resurrected one after the other.
ResurrectRun(w, p, b) ==
  /\ w \in [0 .. Len(vtx[b]) -> PoolSet] /\ w[0] = p
  /\ \A i \in 1 .. Len(vtx[b]) : ResurrectEffect(w[i - 1], vtx[b][i], b, w[i])

\* Resurrected goes through such states.
LEMMA ResurrectSteps ==
  ASSUME tip \in Block, tip # Genesis, NEW p \in PoolSet
  PROVE  \E w : ResurrectRun(w, p, tip) /\ w[Len(vtx[tip])] = Resurrected(p, pprev[tip])
  <1> DEFINE txs == vtx[tip]
             n == Len(txs)
             b == pprev[tip]
             Step(q, i) == IF AcceptToMemoryPool(q, txs[i], b, nHeight[tip], {}) = "accepted"
                           THEN addUnchecked(q, txs[i]) ELSE removeRecursive(q, {txs[i]})
             G == [i \in 1 .. n |-> [q \in PoolSet |-> Step(q, i)]]
             Over(f) == [i \in 0 .. n |-> IF i = 0 THEN p ELSE Step(f[i - 1], i)]
             g == CHOOSE f : f = Over(f)
  <1>1. n \in Nat /\ \A i \in 1 .. n : txs[i] \in Tx
    BY BlockFacts, Zenon
  <1>2. Resurrected(p, b) = g[n]
    BY Zenon DEF Resurrected, ResurrectOrder
  <1>3. ASSUME NEW i \in 1 .. n, NEW q \in PoolSet PROVE Step(q, i) \in PoolSet
    <2>1. CASE AcceptToMemoryPool(q, txs[i], b, nHeight[tip], {}) = "accepted"
      <3>1. Inputs[txs[i]] \cap DOMAIN q.next = {}
        BY <2>1, AcceptFacts, Zenon
      <3>2. QED
        BY <1>1, <2>1, <3>1, AddedFacts, Zenon
    <2>2. CASE AcceptToMemoryPool(q, txs[i], b, nHeight[tip], {}) # "accepted"
      BY <2>2, RemoveOne, Zenon
    <2>3. QED
      BY <2>1, <2>2, Zenon
  <1>4. G \in [1 .. n -> [PoolSet -> PoolSet]]
    BY <1>3, Zenon
  <1>5. \A i \in 1 .. n, q \in PoolSet : G[i][q] = Step(q, i)
    BY Zenon
  <1>6. \A i \in 1 .. n, q \in PoolSet : ResurrectEffect(q, txs[i], tip, Step(q, i))
    BY Zenon DEF ResurrectEffect
  <1> HIDE DEF G, n, Step
  <1>7. \E f : f = Over(f)
    <2>1. PICK f : Iterates(f, PoolSet, p, n, G)
      BY <1>1, <1>4, Recursion, Zenon
    <2>2. f \in [0 .. n -> PoolSet] /\ f[0] = p /\ \A i \in 1 .. n : f[i] = G[i][f[i - 1]]
      BY <2>1, Zenon DEF Iterates
    <2>3. \A i \in 1 .. n : f[i] = Step(f[i - 1], i)
      BY <1>1, <1>5, <2>2
    <2>4. f = Over(f)
      BY <1>1, <2>2, <2>3
    <2>5. QED
      BY <2>4, Zenon
  <1>8. g = Over(g)
    BY <1>7, Zenon
  <1> HIDE DEF g
  <1>9. OnSteps(g, n) /\ g[0] = p /\ \A i \in 1 .. n : g[i] = Step(g[i - 1], i)
    <2> HIDE DEF txs, b
    <2>1. 0 \in 0 .. n /\ \A i \in 1 .. n : i \in 0 .. n /\ i # 0
      BY <1>1
    <2>2. QED
      BY <1>8, <2>1, Zenon DEF OnSteps
  <1>10. g \in [0 .. n -> PoolSet]
    <2>1. \A i \in 1 .. n : g[i - 1] \in PoolSet => g[i] = G[i][g[i - 1]]
      BY <1>5, <1>9, Zenon
    <2>2. Iterates(g, PoolSet, p, n, G)
      BY <1>1, <1>4, <1>9, <2>1, RunIterates, Zenon
    <2>3. QED
      BY <2>2, Zenon DEF Iterates
  <1>11. ASSUME NEW i \in 1 .. n PROVE ResurrectEffect(g[i - 1], txs[i], tip, g[i])
    <2>1. i - 1 \in 0 .. n
      BY <1>1
    <2>2. QED
      BY <1>6, <1>9, <1>10, <2>1, Zenon
  <1>12. ResurrectRun(g, p, tip)
    BY <1>9, <1>10, <1>11, Zenon DEF n, ResurrectRun
  <1>13. QED
    BY <1>2, <1>12, Zenon DEF n

\* After DisconnectTip the pool is consistent with the previous block, and all that is
\* valid there is in it.
LEMMA DisconnectConsistent ==
  ASSUME tip \in Block, tip # Genesis, NEW p, Consistent(p, tip), NEW z,
         z = removeCoinbaseSpends(Resurrected(p, pprev[tip]), pprev[tip], nHeight[tip])
  PROVE  /\ Consistent(z, pprev[tip]) /\ z.tx \subseteq p.tx \cup Returning(tip)
         /\ \A K \in SUBSET (p.tx \cup Returning(tip)) :
              Valid(K, pprev[tip]) /\ K \cap TxsOf[pprev[tip]] = {} => K \subseteq z.tx
  <1> DEFINE b == tip
             a == pprev[tip]
             n == Len(vtx[b])
             q == Resurrected(p, a)
  <1>1. /\ a \in Block /\ TxsOf[b] = TxsOf[a] \cup Range(vtx[b]) /\ Range(vtx[b]) \cap TxsOf[a] = {}
        /\ n \in Nat /\ nHeight[b] = nHeight[a] + 1
        /\ \A t \in Range(vtx[b]) : t \in Tx /\ \E i \in 1 .. n : vtx[b][i] = t
    BY BlockFacts, Zenon
  <1>2. /\ p \in PoolSet /\ p.tx \in SUBSET Tx /\ Founded(p, Mature(b))
        /\ p.tx \cap TxsOf[b] = {} /\ p.tx \cap (CoinBase \cup CoinStake) = {}
    BY IndexFacts, Zenon DEF Consistent
  <1>3. PICK w : ResurrectRun(w, p, b) /\ w[n] = q
    BY <1>2, ResurrectSteps, Zenon
  <1>4. /\ w \in [0 .. n -> PoolSet] /\ w[0] = p
        /\ \A i \in 1 .. n : ResurrectEffect(w[i - 1], vtx[b][i], b, w[i])
    BY <1>3, Zenon DEF ResurrectRun
  <1> DEFINE T == {k \in 0 .. n : ResurrectInv(p, w[k], b, k)}
  <1>5. 0 \in T
    <2>1. 1 .. 0 = {} /\ 0 \in 0 .. n
      BY <1>1
    <2>2. ASSUME NEW t \in p.tx, NEW out \in Inputs[t], out[1] \notin p.tx
          PROVE  out \in ResurrectFounds(b, 0)
      <3>1. out \in Coins[b]
        BY <1>2, <2>2, Zenon DEF Founded, Mature
      <3>2. out[1] \in TxsOf[b] /\ out \in Outputs[out[1]] /\ \A u \in TxsOf[a] : out \notin Inputs[u]
        BY <1>1, <3>1, CoinFacts, Zenon
      <3>3. out \in Tx \X Nat
        BY <1>2, InputFacts, Zenon
      <3>4. QED
        BY <2>1, <3>2, <3>3, Zenon DEF ResurrectFounds
    <2>3. Founded(p, ResurrectFounds(b, 0))
      BY <1>2, <2>2, Zenon DEF Founded
    <2>4. ResurrectInv(p, w[0], b, 0)
      BY <1>4, <2>1, <2>3, Zenon DEF ResurrectInv
    <2>5. QED
      BY <2>1, <2>4, Zenon
  <1>6. ASSUME NEW k \in 1 .. n, k - 1 \in T PROVE k \in T
    <2>1. k - 1 \in 0 .. n /\ k \in 0 .. n
      BY <1>1
    <2>2. w[k - 1] \in PoolSet /\ ResurrectInv(p, w[k - 1], b, k - 1)
      BY <1>4, <1>6, <2>1, Zenon
    <2>3. ResurrectEffect(w[k - 1], vtx[b][k], b, w[k])
      BY <1>4, Zenon
    <2>4. ResurrectInv(p, w[k], b, k)
      BY <2>2, <2>3, ResurrectStep, Zenon
    <2>5. QED
      BY <2>1, <2>4, Zenon
  <1>7. n \in 0 .. n
    BY <1>1
  <1>8. ResurrectInv(p, q, b, n) /\ q \in PoolSet
    <2> HIDE DEF T
    <2>1. n \in T
      BY <1>1, <1>5, <1>6, <1>7, IntervalInduction, Zenon
    <2>2. QED
      BY <1>3, <1>4, <1>7, <2>1, Zenon DEF T
  <1> HIDE DEF T, q
  <1>9. /\ q.tx \subseteq p.tx \cup Returning(b) /\ Founded(q, ResurrectFounds(b, n))
        /\ \A K \in SUBSET (p.tx \cup Returning(b)) : Valid(K, a) /\ K \cap TxsOf[a] = {} =>
             \A t \in K : (t \in p.tx \/ \E j \in 1 .. n : vtx[b][j] = t) => t \in q.tx
    BY <1>8, Zenon DEF ResurrectInv
  <1> DEFINE S == {t \in q.tx : \E out \in Inputs[t] : out[1] \notin q.tx /\ Immature(a, out[1], nHeight[b])}
  <1>10. z = removeRecursive(q, S)
    BY Zenon DEF removeCoinbaseSpends, q
  <1>11. \A t \in q.tx : t \in S <=> \E out \in Inputs[t] : out[1] \notin q.tx /\ Immature(a, out[1], nHeight[a] + 1)
    BY <1>1, Zenon
  <1>12. S \subseteq q.tx
    BY Zenon
  <1> HIDE DEF S
  <1>13. /\ z \in PoolSet /\ z.tx \subseteq q.tx /\ z.tx \cap S = {}
         /\ \A t \in z.tx : \A out \in Inputs[t] : out[1] \in q.tx => out[1] \in z.tx
    <2>1. /\ removeRecursive(q, S) \in PoolSet
          /\ removeRecursive(q, S).tx \subseteq q.tx /\ removeRecursive(q, S).tx \cap S = {}
          /\ \A u \in removeRecursive(q, S).tx : \A out \in Inputs[u] :
               out[1] \notin S /\ (out[1] \in q.tx => out[1] \in removeRecursive(q, S).tx)
      BY <1>8, RemoveFacts, Zenon
    <2>2. QED
      BY <1>10, <2>1, Zenon
  <1>14. ASSUME NEW out \in ResurrectFounds(b, n) PROVE out \in Coins[a]
    <2>1. /\ out[1] \in TxsOf[b] /\ out \in Outputs[out[1]] /\ \A j \in 1 .. n : out[1] # vtx[b][j]
          /\ \A t \in TxsOf[a] : out \notin Inputs[t]
      BY Zenon DEF ResurrectFounds
    <2>2. out[1] \in TxsOf[a]
      BY <1>1, <2>1, Zenon
    <2>3. QED
      BY <1>1, <2>1, <2>2, CoinFacts, Zenon
  <1>15. ASSUME NEW t \in z.tx, NEW out \in Inputs[t]
         PROVE  IF out[1] \in z.tx THEN out \in Outputs[out[1]] ELSE out \in Mature(a)
    <2>1. IF out[1] \in q.tx THEN out \in Outputs[out[1]] ELSE out \in ResurrectFounds(b, n)
      BY <1>9, <1>13, Zenon DEF Founded
    <2>2. CASE out[1] \in z.tx
      BY <1>13, <2>1, <2>2, Zenon
    <2>3. CASE out[1] \notin z.tx
      <3>1. out[1] \notin q.tx
        BY <1>13, <2>3, Zenon
      <3>2. ~Immature(a, out[1], nHeight[a] + 1)
        BY <1>11, <1>13, <3>1, Zenon
      <3>3. QED
        BY <1>14, <2>1, <2>3, <3>1, <3>2, Zenon DEF Mature
    <2>4. QED
      BY <2>2, <2>3, Zenon
  <1>16. Founded(z, Mature(a))
    BY <1>15, Zenon DEF Founded
  <1>17. Returning(b) \cap TxsOf[a] = {} /\ Returning(b) \cap (CoinBase \cup CoinStake) = {}
    BY <1>1, Zenon DEF Returning, NeverLoose
  <1>18. z.tx \subseteq p.tx \cup Returning(b) /\ z.tx \cap TxsOf[a] = {} /\ z.tx \cap (CoinBase \cup CoinStake) = {}
    BY <1>1, <1>2, <1>9, <1>13, <1>17, Zenon
  <1>19. Consistent(z, a)
    BY <1>13, <1>16, <1>18, Zenon DEF Consistent
  <1>20. ASSUME NEW K \in SUBSET (p.tx \cup Returning(b)), Valid(K, a), K \cap TxsOf[a] = {}
         PROVE  K \subseteq z.tx
    <2>1. \A t \in Returning(b) : \E j \in 1 .. n : vtx[b][j] = t
      BY <1>1, Zenon DEF Returning
    <2>2. K \subseteq q.tx
      BY <1>9, <1>20, <2>1, Zenon
    <2>3. ASSUME NEW t \in S, t \in K PROVE FALSE
      <3>1. PICK out \in Inputs[t] : out[1] \notin q.tx /\ Immature(a, out[1], nHeight[a] + 1)
        BY <1>11, <1>12, Zenon
      <3>2. out[1] \notin K /\ out \notin Mature(a)
        BY <2>2, <3>1, Zenon DEF Mature
      <3>3. QED
        BY <1>20, <2>3, <3>2, Zenon DEF Valid
    <2>4. S \cap K = {} /\ S \cap TxsOf[a] = {}
      BY <1>1, <1>2, <1>9, <1>12, <1>17, <2>3, Zenon
    <2>5. K \cap q.tx \subseteq z.tx
      <3>1. K \cap q.tx \subseteq removeRecursive(q, S).tx
        BY <1>1, <1>8, <1>20, <2>4, ValidStays, Zenon
      <3>2. QED
        BY <1>10, <3>1, Zenon
    <2>6. QED
      BY <2>2, <2>5, Zenon
  <1>21. QED
    BY <1>18, <1>19, <1>20, Zenon

-----------------------------------------------------------------------------
(* The "tx" message: the orphans of an accepted transaction.               *)

\* A sequence without repetitions, and its members.
Distinct(s) == \A i, j \in 1 .. Len(s) : s[i] = s[j] => i = j
Members(s) == {s[i] : i \in 1 .. Len(s)}

\* No such sequence of transactions is longer than Hashes.
LEMMA ShortSequence ==
  ASSUME NEW s \in Seq(Tx), Distinct(s)
  PROVE  Len(s) <= Len(Hashes)
  <1>1. /\ Len(s) \in Nat /\ s \in [1 .. Len(s) -> Tx]
        /\ Len(Hashes) \in Nat /\ Hashes \in [1 .. Len(Hashes) -> Tx] /\ Range(Hashes) = Tx
    BY PoolAssumption
  <1>2. \A t \in Tx : \E i \in 1 .. Len(Hashes) : Hashes[i] = t
    BY <1>1, Zenon DEF Range
  <1>3. Hashes \in Surjection(1 .. Len(Hashes), Tx)
    BY <1>1, <1>2, Zenon DEF Surjection
  <1>4. \A n \in Nat : IsFiniteSet(1 .. n) /\ Cardinality(1 .. n) = n
    BY FS_Interval
  <1>5. IsFiniteSet(Tx) /\ Cardinality(Tx) <= Len(Hashes)
    <2>1. PICK H : H = 1 .. Len(Hashes)
      BY Zenon
    <2>2. Hashes \in Surjection(H, Tx) /\ IsFiniteSet(H) /\ Cardinality(H) = Len(Hashes)
      BY <1>1, <1>3, <1>4, <2>1, Zenon
    <2>3. IsFiniteSet(Tx) /\ Cardinality(Tx) <= Cardinality(H)
      BY <2>2, FS_Surjection, Zenon
    <2>4. QED
      BY <2>2, <2>3, Zenon
  <1>6. Cardinality(Tx) \in Nat
    BY <1>5, FS_CardinalityType, Zenon
  <1>7. ASSUME Cardinality(Tx) < Len(s) PROVE FALSE
    <2>1. PICK D : D = 1 .. Len(s)
      BY Zenon
    <2>2. s \in [D -> Tx] /\ IsFiniteSet(D) /\ Cardinality(D) = Len(s)
      BY <1>1, <1>4, <2>1, Zenon
    <2>3. \E i, j \in D : i # j /\ s[i] = s[j]
      BY <1>5, <1>7, <2>2, FS_PigeonHole, Zenon
    <2>4. QED
      BY <2>1, <2>3, Zenon DEF Distinct
  <1>8. QED
    BY <1>1, <1>5, <1>6, <1>7

\* Appending a new member.
LEMMA AppendFacts ==
  ASSUME NEW s \in Seq(Tx), NEW e \in Tx
  PROVE  /\ Append(s, e) \in Seq(Tx) /\ Len(s) \in Nat /\ Len(Append(s, e)) = Len(s) + 1
         /\ \A i \in 1 .. Len(s) : Append(s, e)[i] = s[i] /\ i \in 1 .. Len(Append(s, e))
         /\ Append(s, e)[Len(s) + 1] = e /\ Len(s) + 1 \in 1 .. Len(Append(s, e))
         /\ Members(Append(s, e)) = Members(s) \cup {e}
         /\ Distinct(s) /\ e \notin Members(s) => Distinct(Append(s, e))
  <1> DEFINE a == Append(s, e)
             n == Len(s)
  <1>1. /\ a \in Seq(Tx) /\ n \in Nat /\ Len(a) = n + 1 /\ a[n + 1] = e
        /\ \A i \in 1 .. n : a[i] = s[i]
    OBVIOUS
  <1> HIDE DEF a, n
  <1>2. n + 1 \in 1 .. Len(a) /\ \A i \in 1 .. Len(a) : i \in 1 .. n \/ i = n + 1
    BY <1>1
  <1>3. \A i \in 1 .. n : i \in 1 .. Len(a) /\ i # n + 1
    BY <1>1
  <1>4. Members(a) = Members(s) \cup {e}
    BY <1>1, <1>2, <1>3, Zenon DEF Members, n
  <1>5. Distinct(s) /\ e \notin Members(s) => Distinct(a)
    BY <1>1, <1>2, <1>3, Zenon DEF Members, Distinct, n
  <1>6. QED
    BY <1>1, <1>2, <1>3, <1>4, <1>5, Zenon DEF a, n

\* The states of the work queue.
WorkSet == [pool : PoolSet, queue : Seq(Tx), erase : SUBSET Tx, misbehaving : SUBSET Peer]

\* What trying an orphan does.
TryEffect(w, o, x) ==
  /\ x \in WorkSet /\ x.erase = w.erase \cup {o}
  /\ \/ x.pool = w.pool /\ x.queue = w.queue
     \/ /\ \E refused : AcceptToMemoryPool(w.pool, o, tip, nHeight[tip], refused) = "accepted"
        /\ x.pool = addUnchecked(w.pool, o) /\ x.queue = Append(w.queue, o)

\* TryOrphan has that effect.
LEMMA TryOrphanStep ==
  ASSUME NEW w \in WorkSet, NEW o \in Tx, mapOrphanTransactions[o] \in Peer, NEW refused
  PROVE  TryEffect(w, o, TryOrphan(w, o, refused))
  <1> DEFINE x == TryOrphan(w, o, refused)
             peer == mapOrphanTransactions[o]
             verdict == AcceptToMemoryPool(w.pool, o, tip, nHeight[tip], refused)
             erased == [w EXCEPT !.erase = @ \cup {o}]
  <1>1. /\ w.pool \in PoolSet /\ w.queue \in Seq(Tx) /\ w.erase \in SUBSET Tx
        /\ w.misbehaving \in SUBSET Peer
        /\ w = [pool |-> w.pool, queue |-> w.queue, erase |-> w.erase, misbehaving |-> w.misbehaving]
    BY DEF WorkSet
  <1>2. erased = [pool |-> w.pool, queue |-> w.queue, erase |-> w.erase \cup {o}, misbehaving |-> w.misbehaving]
    <2>1. PICK a, b, c, d, e : /\ a = w.pool /\ b = w.queue /\ c = w.erase /\ d = w.misbehaving
                               /\ e = w.erase \cup {o}
      BY Zenon
    <2>2. w = [pool |-> a, queue |-> b, erase |-> c, misbehaving |-> d]
      BY <1>1, <2>1, Zenon
    <2>3. [w EXCEPT !.erase = e] = [pool |-> a, queue |-> b, erase |-> e, misbehaving |-> d]
      BY <2>2
    <2>4. QED
      BY <2>1, <2>3, Zenon
  <1>3. erased \in WorkSet /\ erased.erase = w.erase \cup {o} /\ erased.pool = w.pool /\ erased.queue = w.queue
    BY <1>1, <1>2 DEF WorkSet
  <1>4. TryEffect(w, o, erased)
    BY <1>3, Zenon DEF TryEffect
  <1>5. CASE verdict = "accepted" /\ x = [erased EXCEPT !.pool = addUnchecked(@, o), !.queue = Append(@, o)]
    <2>1. Inputs[o] \cap DOMAIN w.pool.next = {}
      BY <1>5, AcceptFacts, Zenon
    <2>2. addUnchecked(w.pool, o) \in PoolSet /\ Append(w.queue, o) \in Seq(Tx)
      BY <1>1, <2>1, AddedFacts, AppendFacts, Zenon
    <2>3. x = [pool |-> addUnchecked(w.pool, o), queue |-> Append(w.queue, o), erase |-> w.erase \cup {o},
               misbehaving |-> w.misbehaving]
      BY <1>2, <1>5, Zenon
    <2> HIDE DEF x
    <2>4. /\ x \in WorkSet /\ x.erase = w.erase \cup {o} /\ x.pool = addUnchecked(w.pool, o)
          /\ x.queue = Append(w.queue, o)
      BY <1>1, <2>2, <2>3 DEF WorkSet
    <2>5. QED
      BY <1>5, <2>4, Zenon DEF TryEffect, x
  <1>6. CASE x = [erased EXCEPT !.misbehaving = @ \cup {peer}]
    <2>1. x = [pool |-> w.pool, queue |-> w.queue, erase |-> w.erase \cup {o},
               misbehaving |-> w.misbehaving \cup {peer}]
      BY <1>2, <1>6, Zenon
    <2> HIDE DEF x
    <2>2. x \in WorkSet /\ x.erase = w.erase \cup {o} /\ x.pool = w.pool /\ x.queue = w.queue
      BY <1>1, <2>1 DEF WorkSet
    <2>3. QED
      BY <2>2, Zenon DEF TryEffect, x
  <1>7. CASE x = erased
    BY <1>4, <1>7, Zenon
  <1>8. \/ x = erased \/ x = [erased EXCEPT !.misbehaving = @ \cup {peer}]
        \/ verdict = "accepted" /\ x = [erased EXCEPT !.pool = addUnchecked(@, o), !.queue = Append(@, o)]
    <2>1. x = CASE peer \in w.misbehaving -> erased
                [] verdict = "accepted" -> [erased EXCEPT !.pool = addUnchecked(@, o), !.queue = Append(@, o)]
                [] verdict = "dos" -> [erased EXCEPT !.misbehaving = @ \cup {peer}]
                [] OTHER -> erased
      BY Zenon DEF TryOrphan
    <2> HIDE DEF x, peer, verdict, erased
    <2>2. QED
      BY <2>1
  <1>9. QED
    BY <1>5, <1>6, <1>7, <1>8, Zenon

\* The state of the work queue: everything in it has been put into the pool.
WorkInv(w) ==
  /\ w \in WorkSet /\ Consistent(w.pool, tip)
  /\ w.pool.tx = mapTx \cup Members(w.queue) /\ mapTx \cap Members(w.queue) = {} /\ Distinct(w.queue)

\* The queue and the erased orphans only grow.
Grows(w, x) ==
  /\ w.erase \subseteq x.erase
  /\ \A i \in 1 .. Len(w.queue) : i \in 1 .. Len(x.queue) /\ x.queue[i] = w.queue[i]

\* Trying an orphan keeps the invariant of the queue.
LEMMA TryKeeps ==
  ASSUME tip \in Block, NEW w, WorkInv(w), NEW o \in Tx, NEW x, TryEffect(w, o, x)
  PROVE  WorkInv(x) /\ Grows(w, x) /\ o \in x.erase
  <1>1. /\ x \in WorkSet /\ x.erase = w.erase \cup {o}
    BY Zenon DEF TryEffect
  <1>2. /\ w.queue \in Seq(Tx) /\ w.pool \in PoolSet /\ Consistent(w.pool, tip)
        /\ w.pool.tx = mapTx \cup Members(w.queue) /\ mapTx \cap Members(w.queue) = {} /\ Distinct(w.queue)
    BY Zenon DEF WorkInv, WorkSet
  <1>3. CASE x.pool = w.pool /\ x.queue = w.queue
    BY <1>1, <1>2, <1>3, Zenon DEF WorkInv, Grows
  <1>4. ASSUME NEW refused, AcceptToMemoryPool(w.pool, o, tip, nHeight[tip], refused) = "accepted",
               x.pool = addUnchecked(w.pool, o), x.queue = Append(w.queue, o)
        PROVE  WorkInv(x) /\ Grows(w, x) /\ o \in x.erase
    <2>1. Consistent(x.pool, tip) /\ x.pool.tx = w.pool.tx \cup {o}
      <3>1. Consistent(addUnchecked(w.pool, o), tip) /\ addUnchecked(w.pool, o).tx = w.pool.tx \cup {o}
        <4>1. PICK p, h : p = w.pool /\ h = nHeight[tip]
          BY Zenon
        <4>2. Consistent(p, tip) /\ AcceptToMemoryPool(p, o, tip, h, refused) = "accepted"
          BY <1>2, <1>4, <4>1, Zenon
        <4>3. Consistent(addUnchecked(p, o), tip) /\ addUnchecked(p, o).tx = p.tx \cup {o}
          BY <4>2, AcceptConsistent
        <4>4. QED
          BY <4>1, <4>3, Zenon
      <3>2. QED
        BY <1>4, <3>1, Zenon
    <2>2. o \notin w.pool.tx
      BY <1>4, AcceptFacts, Zenon
    <2>3. /\ \A i \in 1 .. Len(w.queue) : x.queue[i] = w.queue[i] /\ i \in 1 .. Len(x.queue)
          /\ Members(x.queue) = Members(w.queue) \cup {o}
          /\ Distinct(w.queue) /\ o \notin Members(w.queue) => Distinct(x.queue)
      <3>1. PICK s : s = w.queue
        BY Zenon
      <3>2. s \in Seq(Tx) /\ x.queue = Append(s, o)
        BY <1>2, <1>4, <3>1, Zenon
      <3>3. /\ \A i \in 1 .. Len(s) : Append(s, o)[i] = s[i] /\ i \in 1 .. Len(Append(s, o))
            /\ Members(Append(s, o)) = Members(s) \cup {o}
            /\ Distinct(s) /\ o \notin Members(s) => Distinct(Append(s, o))
        BY <3>2, AppendFacts, Zenon
      <3>4. QED
        BY <3>1, <3>2, <3>3, Zenon
    <2>4. /\ x.pool.tx = mapTx \cup Members(x.queue) /\ mapTx \cap Members(x.queue) = {}
          /\ Distinct(x.queue)
      BY <1>2, <2>1, <2>2, <2>3, Zenon
    <2>5. WorkInv(x)
      BY <1>1, <2>1, <2>4, Zenon DEF WorkInv
    <2>6. Grows(w, x) /\ o \in x.erase
      BY <1>1, <2>3, Zenon DEF Grows
    <2>7. QED
      BY <2>5, <2>6, Zenon
  <1>5. QED
    BY <1>3, <1>4, Zenon DEF TryEffect

\* The orphans are transactions, each from a peer, and the maps agree.
OrphansTyped ==
  /\ OrphanMapsAgree
  /\ \A o \in DOMAIN mapOrphanTransactions : o \in Tx /\ mapOrphanTransactions[o] \in Peer

\* The orphans of u are tried one after the other.
TryRun(f, w, u) ==
  /\ f \in [0 .. Len(Hashes) -> WorkSet] /\ f[0] = w
  /\ \A i \in 1 .. Len(Hashes) :
       IF Hashes[i] \in mapOrphanTransactionsByPrev[u] THEN TryEffect(f[i - 1], Hashes[i], f[i])
       ELSE f[i] = f[i - 1]

\* TryOrphans goes through such states.
LEMMA TrySteps ==
  ASSUME OrphansTyped, NEW w \in WorkSet, NEW u \in DOMAIN mapOrphanTransactionsByPrev, NEW refused
  PROVE  \E f : TryRun(f, w, u) /\ f[Len(Hashes)] = TryOrphans(w, u, refused)
  <1> DEFINE n == Len(Hashes)
             P == mapOrphanTransactionsByPrev[u]
             Step(q, i) == IF Hashes[i] \in P THEN TryOrphan(q, Hashes[i], refused) ELSE q
             G == [i \in 1 .. n |-> [q \in WorkSet |-> Step(q, i)]]
             Over(f) == [i \in 0 .. n |-> IF i = 0 THEN w ELSE Step(f[i - 1], i)]
             g == CHOOSE f : f = Over(f)
  <1>1. n \in Nat /\ \A o \in P : o \in Tx /\ mapOrphanTransactions[o] \in Peer
    <2>1. n \in Nat
      BY PoolAssumption
    <2>2. QED
      BY <2>1, Zenon DEF OrphansTyped, OrphanMapsAgree
  <1>2. TryOrphans(w, u, refused) = g[n]
    BY Zenon DEF TryOrphans
  <1>3. ASSUME NEW i \in 1 .. n, NEW q \in WorkSet
        PROVE  /\ Step(q, i) \in WorkSet
               /\ IF Hashes[i] \in P THEN TryEffect(q, Hashes[i], Step(q, i)) ELSE Step(q, i) = q
    <2>1. CASE Hashes[i] \in P
      <3>1. TryEffect(q, Hashes[i], TryOrphan(q, Hashes[i], refused))
        BY <1>1, <2>1, TryOrphanStep, Zenon
      <3>2. TryOrphan(q, Hashes[i], refused) \in WorkSet
        BY <3>1, Zenon DEF TryEffect
      <3>3. QED
        BY <2>1, <3>1, <3>2, Zenon
    <2>2. CASE Hashes[i] \notin P
      BY <2>2, Zenon
    <2>3. QED
      BY <2>1, <2>2, Zenon
  <1>4. G \in [1 .. n -> [WorkSet -> WorkSet]]
    BY <1>3, Zenon
  <1>5. \A i \in 1 .. n, q \in WorkSet : G[i][q] = Step(q, i)
    BY Zenon
  <1> HIDE DEF G, n, Step
  <1>6. \E f : f = Over(f)
    <2>1. PICK f : Iterates(f, WorkSet, w, n, G)
      BY <1>1, <1>4, Recursion, Zenon
    <2>2. f \in [0 .. n -> WorkSet] /\ f[0] = w /\ \A i \in 1 .. n : f[i] = G[i][f[i - 1]]
      BY <2>1, Zenon DEF Iterates
    <2>3. \A i \in 1 .. n : f[i] = Step(f[i - 1], i)
      BY <1>1, <1>5, <2>2
    <2>4. f = Over(f)
      BY <1>1, <2>2, <2>3
    <2>5. QED
      BY <2>4, Zenon
  <1>7. g = Over(g)
    BY <1>6, Zenon
  <1> HIDE DEF g
  <1>8. OnSteps(g, n) /\ g[0] = w /\ \A i \in 1 .. n : g[i] = Step(g[i - 1], i)
    <2>1. 0 \in 0 .. n /\ \A i \in 1 .. n : i \in 0 .. n /\ i # 0
      BY <1>1
    <2>2. QED
      BY <1>7, <2>1, Zenon DEF OnSteps
  <1>9. g \in [0 .. n -> WorkSet]
    <2>1. \A i \in 1 .. n : g[i - 1] \in WorkSet => g[i] = G[i][g[i - 1]]
      BY <1>5, <1>8, Zenon
    <2>2. Iterates(g, WorkSet, w, n, G)
      BY <1>1, <1>4, <1>8, <2>1, RunIterates, Zenon
    <2>3. QED
      BY <2>2, Zenon DEF Iterates
  <1>10. ASSUME NEW i \in 1 .. n
         PROVE  IF Hashes[i] \in P THEN TryEffect(g[i - 1], Hashes[i], g[i]) ELSE g[i] = g[i - 1]
    <2>1. i - 1 \in 0 .. n
      BY <1>1
    <2>2. PICK q \in WorkSet : q = g[i - 1]
      BY <1>9, <2>1, Zenon
    <2>3. g[i] = Step(q, i)
      BY <1>8, <2>2, Zenon
    <2>4. QED
      BY <1>3, <2>2, <2>3, Zenon
  <1>11. TryRun(g, w, u)
    BY <1>8, <1>9, <1>10, Zenon DEF n, TryRun
  <1>12. QED
    BY <1>2, <1>11, Zenon DEF n

\* What trying the orphans of u does: each of them will be erased.
TriedEffect(w, u, z) ==
  /\ z \in WorkSet
  /\ tip \in Block /\ WorkInv(w) => WorkInv(z) /\ Grows(w, z) /\ mapOrphanTransactionsByPrev[u] \subseteq z.erase

\* Growing is transitive.
LEMMA GrowsOn ==
  ASSUME NEW w, NEW x, NEW y, Grows(w, x), Grows(x, y)
  PROVE  Grows(w, y)
  BY Zenon DEF Grows

\* TryOrphans has that effect, by induction on the orphans tried.
LEMMA TryOrphansEffect ==
  ASSUME OrphansTyped, NEW w \in WorkSet, NEW u \in DOMAIN mapOrphanTransactionsByPrev, NEW refused
  PROVE  TriedEffect(w, u, TryOrphans(w, u, refused))
  <1> DEFINE n == Len(Hashes)
             P == mapOrphanTransactionsByPrev[u]
             z == TryOrphans(w, u, refused)
  <1>1. PICK f : TryRun(f, w, u) /\ f[n] = z
    BY TrySteps, Zenon
  <1>2. /\ f \in [0 .. n -> WorkSet] /\ f[0] = w
        /\ \A i \in 1 .. n : IF Hashes[i] \in P THEN TryEffect(f[i - 1], Hashes[i], f[i]) ELSE f[i] = f[i - 1]
    BY <1>1, Zenon DEF TryRun
  <1>3. n \in Nat /\ Hashes \in [1 .. n -> Tx] /\ Range(Hashes) = Tx /\ 1 .. 0 = {} /\ n \in 0 .. n /\ 0 \in 0 .. n
    BY PoolAssumption
  <1>4. z \in WorkSet
    BY <1>1, <1>2, <1>3, Zenon
  <1> HIDE DEF z
  <1>5. ASSUME tip \in Block, WorkInv(w)
        PROVE  WorkInv(z) /\ Grows(w, z) /\ P \subseteq z.erase
    <2> DEFINE Inv(k) == /\ WorkInv(f[k]) /\ Grows(w, f[k])
                         /\ \A j \in 1 .. k : Hashes[j] \in P => Hashes[j] \in f[k].erase
               T == {k \in 0 .. n : Inv(k)}
    <2>1. 0 \in T
      <3>1. Grows(w, w)
        BY Zenon DEF Grows
      <3>2. QED
        BY <1>2, <1>3, <1>5, <3>1, Zenon
    <2>2. ASSUME NEW k \in 1 .. n, k - 1 \in T PROVE k \in T
      <3>1. k - 1 \in 0 .. n /\ k \in 0 .. n /\ \A j \in 1 .. k : j = k \/ j \in 1 .. k - 1
        BY <1>3
      <3>2. Inv(k - 1)
        BY <2>2, Zenon
      <3>3. CASE Hashes[k] \in P
        <4>1. TryEffect(f[k - 1], Hashes[k], f[k]) /\ Hashes[k] \in Tx
          BY <1>2, <1>3, <3>3, Zenon
        <4>2. WorkInv(f[k]) /\ Grows(f[k - 1], f[k]) /\ Hashes[k] \in f[k].erase
          BY <1>5, <3>2, <4>1, TryKeeps, Zenon
        <4>3. Grows(w, f[k])
          BY <3>2, <4>2, GrowsOn, Zenon
        <4>4. f[k - 1].erase \subseteq f[k].erase
          BY <4>2, Zenon DEF Grows
        <4>5. QED
          BY <3>1, <3>2, <4>2, <4>3, <4>4, Zenon
      <3>4. CASE Hashes[k] \notin P
        <4>1. f[k] = f[k - 1]
          BY <1>2, <3>4, Zenon
        <4>2. QED
          BY <3>1, <3>2, <3>4, <4>1, Zenon
      <3>5. QED
        BY <3>3, <3>4, Zenon
    <2>3. Inv(n)
      <3> HIDE DEF T
      <3>1. n \in T
        BY <1>3, <2>1, <2>2, IntervalInduction, Zenon
      <3>2. QED
        BY <3>1, Zenon DEF T
    <2>4. \A o \in P : o \in Tx
      BY Zenon DEF OrphansTyped, OrphanMapsAgree
    <2>5. \A o \in Tx : \E j \in 1 .. n : Hashes[j] = o
      BY <1>3, Zenon DEF Range
    <2>6. QED
      BY <1>1, <2>3, <2>4, <2>5, Zenon
  <1>6. QED
    BY <1>4, <1>5, Zenon DEF TriedEffect, z

\* The queue is worked through from its first member on.
WorkStart(t) == [pool |-> addUnchecked(Pool, t), queue |-> <<t>>, erase |-> {t}, misbehaving |-> {}]

\* The states that the loop over the queue goes through.
WorkRun(f, t) ==
  /\ f \in [0 .. Len(Hashes) -> WorkSet] /\ f[0] = WorkStart(t)
  /\ \A i \in 1 .. Len(Hashes) :
       IF i > Len(f[i - 1].queue) \/ f[i - 1].queue[i] \notin DOMAIN mapOrphanTransactionsByPrev
       THEN f[i] = f[i - 1] ELSE TriedEffect(f[i - 1], f[i - 1].queue[i], f[i])

\* ResolveOrphans goes through such states.
LEMMA WorkSteps ==
  ASSUME OrphansTyped, NEW t, WorkStart(t) \in WorkSet, NEW refused
  PROVE  \E f : WorkRun(f, t) /\ f[Len(Hashes)] = ResolveOrphans(t, refused)
  <1> DEFINE n == Len(Hashes)
             s == WorkStart(t)
             Idle(q, i) == i > Len(q.queue) \/ q.queue[i] \notin DOMAIN mapOrphanTransactionsByPrev
             Step(q, i) == IF Idle(q, i) THEN q ELSE TryOrphans(q, q.queue[i], refused)
             G == [i \in 1 .. n |-> [q \in WorkSet |-> Step(q, i)]]
             Over(f) == [i \in 0 .. n |-> IF i = 0 THEN s ELSE Step(f[i - 1], i)]
             g == CHOOSE f : f = Over(f)
  <1>1. n \in Nat /\ s \in WorkSet
    BY PoolAssumption
  <1>2. ResolveOrphans(t, refused) = g[n]
    BY Zenon DEF ResolveOrphans, WorkStart
  <1> HIDE DEF s
  <1>3. ASSUME NEW i \in 1 .. n, NEW q \in WorkSet
        PROVE  /\ Step(q, i) \in WorkSet
               /\ IF Idle(q, i) THEN Step(q, i) = q ELSE TriedEffect(q, q.queue[i], Step(q, i))
    <2>1. CASE ~Idle(q, i)
      <3>1. TriedEffect(q, q.queue[i], TryOrphans(q, q.queue[i], refused))
        BY <2>1, TryOrphansEffect, Zenon
      <3>2. TryOrphans(q, q.queue[i], refused) \in WorkSet
        BY <3>1, Zenon DEF TriedEffect
      <3> HIDE DEF Idle
      <3>3. QED
        BY <2>1, <3>1, <3>2, Zenon
    <2> HIDE DEF Idle
    <2>2. CASE Idle(q, i)
      BY <2>2, Zenon
    <2>3. QED
      BY <2>1, <2>2, Zenon
  <1>4. G \in [1 .. n -> [WorkSet -> WorkSet]]
    BY <1>3, Zenon
  <1>5. \A i \in 1 .. n, q \in WorkSet : G[i][q] = Step(q, i)
    BY Zenon
  <1> HIDE DEF G, n, Step
  <1>6. \E f : f = Over(f)
    <2>1. PICK f : Iterates(f, WorkSet, s, n, G)
      BY <1>1, <1>4, Recursion, Zenon
    <2>2. f \in [0 .. n -> WorkSet] /\ f[0] = s /\ \A i \in 1 .. n : f[i] = G[i][f[i - 1]]
      BY <2>1, Zenon DEF Iterates
    <2>3. \A i \in 1 .. n : f[i] = Step(f[i - 1], i)
      BY <1>1, <1>5, <2>2
    <2>4. f = Over(f)
      BY <1>1, <2>2, <2>3
    <2>5. QED
      BY <2>4, Zenon
  <1>7. g = Over(g)
    BY <1>6, Zenon
  <1> HIDE DEF g
  <1>8. OnSteps(g, n) /\ g[0] = s /\ \A i \in 1 .. n : g[i] = Step(g[i - 1], i)
    <2>1. 0 \in 0 .. n /\ \A i \in 1 .. n : i \in 0 .. n /\ i # 0
      BY <1>1
    <2>2. QED
      BY <1>7, <2>1, Zenon DEF OnSteps
  <1>9. g \in [0 .. n -> WorkSet]
    <2>1. \A i \in 1 .. n : g[i - 1] \in WorkSet => g[i] = G[i][g[i - 1]]
      BY <1>5, <1>8, Zenon
    <2>2. Iterates(g, WorkSet, s, n, G)
      BY <1>1, <1>4, <1>8, <2>1, RunIterates, Zenon
    <2>3. QED
      BY <2>2, Zenon DEF Iterates
  <1>10. ASSUME NEW i \in 1 .. n
         PROVE  IF Idle(g[i - 1], i) THEN g[i] = g[i - 1] ELSE TriedEffect(g[i - 1], g[i - 1].queue[i], g[i])
    <2> HIDE DEF Idle
    <2>1. i - 1 \in 0 .. n
      BY <1>1
    <2>2. PICK q \in WorkSet : q = g[i - 1]
      BY <1>9, <2>1, Zenon
    <2>3. g[i] = Step(q, i)
      BY <1>8, <2>2, Zenon
    <2>4. QED
      BY <1>3, <2>2, <2>3, Zenon
  <1>11. WorkRun(g, t)
    BY <1>8, <1>9, <1>10, Zenon DEF n, s, WorkRun
  <1>12. QED
    BY <1>2, <1>11, Zenon DEF n

\* The orphans of the first i members of the queue have been tried.
QueueInv(w, i) ==
  /\ WorkInv(w)
  /\ \A k \in 1 .. i : k \in 1 .. Len(w.queue) /\ w.queue[k] \in DOMAIN mapOrphanTransactionsByPrev
       => mapOrphanTransactionsByPrev[w.queue[k]] \subseteq w.erase

\* What the "tx" message does to the pool: it stays consistent, and the orphans of
\* whatever is new in it are erased.
LEMMA ResolveFacts ==
  ASSUME OrphansTyped, tip \in Block, Consistent(Pool, tip), NEW t \in Tx, NEW refused,
         AcceptToMemoryPool(Pool, t, tip, nHeight[tip], refused) = "accepted"
  PROVE  LET z == ResolveOrphans(t, refused)
         IN /\ Consistent(z.pool, tip)
            /\ \A u \in z.pool.tx \ mapTx : u \in DOMAIN mapOrphanTransactionsByPrev =>
                 mapOrphanTransactionsByPrev[u] \subseteq z.erase
  <1> DEFINE n == Len(Hashes)
             s == WorkStart(t)
             z == ResolveOrphans(t, refused)
  <1>1. /\ s.pool = addUnchecked(Pool, t) /\ s.queue = <<t>> /\ Pool.tx = mapTx
        /\ s = [pool |-> addUnchecked(Pool, t), queue |-> <<t>>, erase |-> {t}, misbehaving |-> {}]
    BY Zenon DEF WorkStart, Pool
  <1>2. Consistent(addUnchecked(Pool, t), tip) /\ addUnchecked(Pool, t).tx = Pool.tx \cup {t}
    <2>1. PICK p, h : p = Pool /\ h = nHeight[tip]
      BY Zenon
    <2>2. Consistent(p, tip) /\ AcceptToMemoryPool(p, t, tip, h, refused) = "accepted"
      BY <2>1, Zenon
    <2>3. Consistent(addUnchecked(p, t), tip) /\ addUnchecked(p, t).tx = p.tx \cup {t}
      BY <2>2, AcceptConsistent
    <2>4. QED
      BY <2>1, <2>3, Zenon
  <1>3. t \notin mapTx
    BY <1>1, AcceptFacts, Zenon
  <1>4. <<t>> \in Seq(Tx) /\ Len(<<t>>) = 1 /\ <<t>>[1] = t /\ 1 .. 1 = {1}
    OBVIOUS
  <1>5. Members(<<t>>) = {t} /\ Distinct(<<t>>)
    BY <1>4, Zenon DEF Members, Distinct
  <1>6. s \in WorkSet
    <2>1. addUnchecked(Pool, t) \in PoolSet
      BY <1>2, Zenon DEF Consistent
    <2>2. QED
      BY <1>1, <1>4, <2>1 DEF WorkSet
  <1>7. WorkInv(s)
    <2>1. s.pool.tx = mapTx \cup {t} /\ Consistent(s.pool, tip)
      BY <1>1, <1>2, Zenon
    <2>2. QED
      BY <1>1, <1>3, <1>5, <1>6, <2>1, Zenon DEF WorkInv
  <1>8. PICK f : WorkRun(f, t) /\ f[n] = z
    BY <1>6, WorkSteps, Zenon
  <1>9. /\ f \in [0 .. n -> WorkSet] /\ f[0] = s
        /\ \A i \in 1 .. n :
             IF i > Len(f[i - 1].queue) \/ f[i - 1].queue[i] \notin DOMAIN mapOrphanTransactionsByPrev
             THEN f[i] = f[i - 1] ELSE TriedEffect(f[i - 1], f[i - 1].queue[i], f[i])
    BY <1>8, Zenon DEF WorkRun
  <1>10. n \in Nat /\ 1 .. 0 = {} /\ n \in 0 .. n /\ 0 \in 0 .. n
    BY PoolAssumption
  <1> HIDE DEF s, z
  <1> DEFINE T == {k \in 0 .. n : QueueInv(f[k], k)}
  <1>11. 0 \in T
    BY <1>7, <1>9, <1>10, Zenon DEF QueueInv
  <1>12. ASSUME NEW i \in 1 .. n, i - 1 \in T PROVE i \in T
    <2>1. i - 1 \in 0 .. n /\ i \in 0 .. n /\ i \in Nat /\ \A k \in 1 .. i : k = i \/ k \in 1 .. i - 1
      BY <1>10
    <2>2. PICK w \in WorkSet : w = f[i - 1]
      BY <1>9, <2>1, Zenon
    <2>3. PICK x : x = f[i]
      BY Zenon
    <2>4. QueueInv(w, i - 1)
      BY <1>12, <2>2, Zenon
    <2>5. Len(w.queue) \in Nat
      BY DEF WorkSet
    <2>6. IF i > Len(w.queue) \/ w.queue[i] \notin DOMAIN mapOrphanTransactionsByPrev
          THEN x = w ELSE TriedEffect(w, w.queue[i], x)
      BY <1>9, <2>2, <2>3, Zenon
    <2>7. CASE i > Len(w.queue) \/ w.queue[i] \notin DOMAIN mapOrphanTransactionsByPrev
      <3>1. x = w
        BY <2>6, <2>7, Zenon
      <3>2. i \in 1 .. Len(w.queue) => w.queue[i] \notin DOMAIN mapOrphanTransactionsByPrev
        BY <2>5, <2>7
      <3>3. QueueInv(x, i)
        BY <2>1, <2>4, <3>1, <3>2, Zenon DEF QueueInv
      <3>4. QED
        BY <2>1, <2>3, <3>3, Zenon
    <2>8. CASE ~(i > Len(w.queue) \/ w.queue[i] \notin DOMAIN mapOrphanTransactionsByPrev)
      <3>1. WorkInv(w)
        BY <2>4, Zenon DEF QueueInv
      <3>2. WorkInv(x) /\ Grows(w, x) /\ mapOrphanTransactionsByPrev[w.queue[i]] \subseteq x.erase
        BY <2>6, <2>8, <3>1, Zenon DEF TriedEffect
      <3>3. \A k \in 1 .. i : k \in 1 .. Len(w.queue)
        BY <2>1, <2>5, <2>8
      <3>4. w.erase \subseteq x.erase /\ \A k \in 1 .. i : x.queue[k] = w.queue[k]
        BY <3>2, <3>3, Zenon DEF Grows
      <3>5. QueueInv(x, i)
        BY <2>1, <2>4, <3>2, <3>3, <3>4, Zenon DEF QueueInv
      <3>6. QED
        BY <2>1, <2>3, <3>5, Zenon
    <2>9. QED
      BY <2>7, <2>8, Zenon
  <1>13. QueueInv(z, n)
    <2> HIDE DEF T
    <2>1. n \in T
      BY <1>10, <1>11, <1>12, IntervalInduction, Zenon
    <2>2. QED
      BY <1>8, <2>1, Zenon DEF T
  <1>14. /\ z \in WorkSet /\ Consistent(z.pool, tip) /\ z.pool.tx = mapTx \cup Members(z.queue)
         /\ Distinct(z.queue)
    BY <1>13, Zenon DEF QueueInv, WorkInv
  <1>15. z.queue \in Seq(Tx) /\ Len(z.queue) \in Nat
    BY <1>14 DEF WorkSet
  <1>16. Len(z.queue) <= n
    BY <1>14, <1>15, ShortSequence, Zenon
  <1>17. \A k \in 1 .. Len(z.queue) : k \in 1 .. n
    BY <1>10, <1>15, <1>16
  <1>18. ASSUME NEW u \in z.pool.tx, u \notin mapTx, u \in DOMAIN mapOrphanTransactionsByPrev
         PROVE  mapOrphanTransactionsByPrev[u] \subseteq z.erase
    <2>1. PICK k \in 1 .. Len(z.queue) : z.queue[k] = u
      BY <1>14, <1>18, Zenon DEF Members
    <2>2. QED
      BY <1>13, <1>17, <1>18, <2>1, Zenon DEF QueueInv
  <1>19. QED
    BY <1>14, <1>18, Zenon DEF z

-----------------------------------------------------------------------------
(* The orphans.                                                            *)

\* The maps [orphans, byPrev] agree and list transactions and peers.
Agree(w) ==
  /\ DOMAIN w.byPrev = UNION {Parents[o] : o \in DOMAIN w.orphans}
  /\ \A u \in DOMAIN w.byPrev : w.byPrev[u] = {o \in DOMAIN w.orphans : u \in Parents[o]}
  /\ \A o \in DOMAIN w.orphans : o \in Tx /\ w.orphans[o] \in Peer

\* The part of the inductive invariant that is about orphans.
OrphanInv == OrphansTyped /\ IsFiniteSet(DOMAIN mapOrphanTransactions) /\ OrphansBounded

\* EraseOrphanTx keeps the maps in agreement, whatever it erases.
LEMMA EraseFacts ==
  ASSUME NEW w, NEW S, Agree(w)
  PROVE  /\ Agree(EraseOrphanTx(w, S))
         /\ DOMAIN EraseOrphanTx(w, S).orphans = DOMAIN w.orphans \ S
  <1> DEFINE e == EraseOrphanTx(w, S)
             left == [u \in DOMAIN w.byPrev |-> w.byPrev[u] \ {o \in S : u \in Parents[o]}]
  <1>1. /\ e.orphans = Without(w.orphans, S)
        /\ e.byPrev = Without(left, {u \in DOMAIN left : left[u] = {}})
    BY Zenon DEF EraseOrphanTx
  <1>2. DOMAIN left = DOMAIN w.byPrev
    BY Zenon
  <1>3. \A u \in DOMAIN left : left[u] = {o \in DOMAIN w.orphans \ S : u \in Parents[o]}
    BY Zenon DEF Agree
  <1> HIDE DEF left, e
  <1>4. DOMAIN e.orphans = DOMAIN w.orphans \ S
    BY <1>1, Zenon DEF Without
  <1>5. DOMAIN e.byPrev = {u \in DOMAIN left : left[u] # {}}
    BY <1>1, Zenon DEF Without
  <1>6. \A u \in DOMAIN e.byPrev : e.byPrev[u] = left[u]
    BY <1>1, Zenon DEF Without
  <1>7. DOMAIN e.byPrev = UNION {Parents[o] : o \in DOMAIN w.orphans \ S}
    BY <1>2, <1>3, <1>5 DEF Agree
  <1>8. \A o \in DOMAIN e.orphans : o \in Tx /\ e.orphans[o] \in Peer
    BY <1>1, Zenon DEF Without, Agree
  <1>9. QED
    BY <1>3, <1>4, <1>5, <1>6, <1>7, <1>8, Zenon DEF Agree, e

\* AddOrphanTx keeps the maps in agreement and adds at most one orphan.
LEMMA AddFacts ==
  ASSUME OrphansTyped, NEW t \in Tx, NEW peer \in Peer
  PROVE  /\ Agree(AddOrphanTx(t, peer))
         /\ DOMAIN AddOrphanTx(t, peer).orphans \in
              {DOMAIN mapOrphanTransactions, DOMAIN mapOrphanTransactions \cup {t}}
  <1>1. Agree(Orphans) /\ Orphans.orphans = mapOrphanTransactions
    BY Zenon DEF OrphansTyped, OrphanMapsAgree, Orphans, Agree
  <1>2. CASE t \in DOMAIN mapOrphanTransactions \cup BigTx
    BY <1>1, <1>2, Zenon DEF AddOrphanTx
  <1>3. CASE t \notin DOMAIN mapOrphanTransactions \cup BigTx
    <2> DEFINE a == AddOrphanTx(t, peer)
    <2>1. /\ a.orphans = With(mapOrphanTransactions, t, peer)
          /\ a.byPrev = [u \in DOMAIN mapOrphanTransactionsByPrev \cup Parents[t] |->
                      {o \in DOMAIN mapOrphanTransactions :
                         u \in DOMAIN mapOrphanTransactionsByPrev /\ o \in mapOrphanTransactionsByPrev[u]}
                      \cup {o \in {t} : u \in Parents[o]}]
      BY <1>3, Zenon DEF AddOrphanTx
    <2> HIDE DEF a
    <2>2. DOMAIN a.orphans = DOMAIN mapOrphanTransactions \cup {t}
      BY <2>1, Zenon DEF With
    <2>3. DOMAIN a.byPrev = UNION {Parents[o] : o \in DOMAIN mapOrphanTransactions \cup {t}}
      BY <2>1 DEF OrphansTyped, OrphanMapsAgree
    <2>4. ASSUME NEW u \in DOMAIN a.byPrev
          PROVE  a.byPrev[u] = {o \in DOMAIN mapOrphanTransactions \cup {t} : u \in Parents[o]}
      BY <2>1 DEF OrphansTyped, OrphanMapsAgree
    <2>5. \A o \in DOMAIN a.orphans : o \in Tx /\ a.orphans[o] \in Peer
      BY <2>1, Zenon DEF With, OrphansTyped
    <2>6. QED
      BY <2>2, <2>3, <2>4, <2>5, Zenon DEF Agree, a
  <1>4. QED
    BY <1>2, <1>3, Zenon

\* LimitOrphanTxSize leaves no more orphans than allowed.
LEMMA LimitFacts ==
  ASSUME NEW w, Agree(w), IsFiniteSet(DOMAIN w.orphans), NEW x \in LimitOrphanTxSize(w)
  PROVE  /\ Agree(x) /\ IsFiniteSet(DOMAIN x.orphans)
         /\ Cardinality(DOMAIN x.orphans) <= nMaxOrphanTx
  <1> DEFINE D == DOMAIN w.orphans
             n == Cardinality(D)
  <1>1. PICK S \in SUBSET D :
          Cardinality(S) = (IF n > nMaxOrphanTx THEN n - nMaxOrphanTx ELSE 0) /\ x = EraseOrphanTx(w, S)
    BY Zenon DEF LimitOrphanTxSize
  <1>2. Agree(x) /\ DOMAIN x.orphans = D \ S
    BY <1>1, EraseFacts, Zenon
  <1>3. n \in Nat /\ nMaxOrphanTx \in Nat /\ IsFiniteSet(D \ S) /\ IsFiniteSet(S)
    BY FS_CardinalityType, FS_Difference, FS_Subset, PoolAssumption
  <1>4. Cardinality(D \ S) = n - Cardinality(D \cap S) /\ D \cap S = S
    BY <1>1, <1>3, FS_Difference, Zenon
  <1>5. Cardinality(D \ S) <= nMaxOrphanTx
    BY <1>1, <1>3, <1>4
  <1>6. QED
    BY <1>2, <1>3, <1>5, Zenon

\* The orphans that are not touched by a step, or erased in it.
LEMMA ErasedKeeps ==
  ASSUME OrphanInv, NEW S, SetOrphans(EraseOrphanTx(Orphans, S))
  PROVE  OrphanInv'
  <1>1. Agree(Orphans) /\ Orphans.orphans = mapOrphanTransactions
    BY Zenon DEF OrphanInv, OrphansTyped, OrphanMapsAgree, Orphans, Agree
  <1>2. /\ Agree(EraseOrphanTx(Orphans, S))
        /\ DOMAIN EraseOrphanTx(Orphans, S).orphans = DOMAIN mapOrphanTransactions \ S
    BY <1>1, EraseFacts, Zenon
  <1>3. /\ mapOrphanTransactions' = EraseOrphanTx(Orphans, S).orphans
        /\ mapOrphanTransactionsByPrev' = EraseOrphanTx(Orphans, S).byPrev
    BY Zenon DEF SetOrphans
  <1>4. OrphansTyped'
    BY <1>2, <1>3, Zenon DEF OrphansTyped, OrphanMapsAgree, Agree
  <1>5. /\ IsFiniteSet(DOMAIN mapOrphanTransactions \ S)
        /\ Cardinality(DOMAIN mapOrphanTransactions \ S) <= Cardinality(DOMAIN mapOrphanTransactions)
        /\ Cardinality(DOMAIN mapOrphanTransactions) \in Nat
        /\ Cardinality(DOMAIN mapOrphanTransactions \ S) \in Nat
    BY FS_Subset, FS_CardinalityType, Zenon DEF OrphanInv
  <1>6. OrphansBounded /\ nMaxOrphanTx \in Nat
    BY PoolAssumption, Zenon DEF OrphanInv
  <1>7. Cardinality(DOMAIN mapOrphanTransactions') <= nMaxOrphanTx
    BY <1>2, <1>3, <1>5, <1>6 DEF OrphansBounded
  <1>8. IsFiniteSet(DOMAIN mapOrphanTransactions')
    BY <1>2, <1>3, <1>5, Zenon
  <1>9. QED
    BY <1>4, <1>7, <1>8, Zenon DEF OrphanInv, OrphansBounded

\* The "tx" message: orphans are erased with a transaction that was accepted, or
\* the transaction becomes one itself.
LEMMA ReceiveTxOrphans ==
  ASSUME OrphanInv, NEW t \in Tx, NEW peer \in Peer, ReceiveTx(t, peer)
  PROVE  OrphanInv'
  <1>1. CASE \E S : SetOrphans(EraseOrphanTx(Orphans, S))
    BY <1>1, ErasedKeeps, Zenon
  <1>2. CASE \E x \in LimitOrphanTxSize(AddOrphanTx(t, peer)) : SetOrphans(x)
    <2>1. PICK x \in LimitOrphanTxSize(AddOrphanTx(t, peer)) : SetOrphans(x)
      BY <1>2, Zenon
    <2>2. /\ Agree(AddOrphanTx(t, peer))
          /\ DOMAIN AddOrphanTx(t, peer).orphans \in
               {DOMAIN mapOrphanTransactions, DOMAIN mapOrphanTransactions \cup {t}}
      BY AddFacts, Zenon DEF OrphanInv
    <2>3. IsFiniteSet(DOMAIN AddOrphanTx(t, peer).orphans)
      BY <2>2, FS_AddElement, Zenon DEF OrphanInv
    <2>4. /\ Agree(x) /\ IsFiniteSet(DOMAIN x.orphans)
          /\ Cardinality(DOMAIN x.orphans) <= nMaxOrphanTx
      BY <2>2, <2>3, LimitFacts
    <2>5. mapOrphanTransactions' = x.orphans /\ mapOrphanTransactionsByPrev' = x.byPrev
      BY <2>1, Zenon DEF SetOrphans
    <2>6. QED
      BY <2>4, <2>5, Zenon DEF OrphanInv, OrphansTyped, OrphanMapsAgree, Agree, OrphansBounded
  <1>3. QED
    BY <1>1, <1>2, Zenon DEF ReceiveTx

-----------------------------------------------------------------------------
(* The inductive invariant.                                                *)

\* The pool is consistent with the chain, the maps of orphans with each other.
IInv == tip \in Block /\ Consistent(Pool, tip) /\ OrphanInv

\* A pool is what its two fields are.
LEMMA SetFacts ==
  ASSUME NEW p \in PoolSet, SetPool(p)
  PROVE  Pool' = p /\ mapTx' = p.tx
  <1>1. p = [tx |-> p.tx, next |-> p.next]
    BY Zenon DEF PoolSet
  <1>2. mapTx' = p.tx /\ mapNextTx' = p.next
    BY Zenon DEF SetPool
  <1>3. QED
    BY <1>1, <1>2, Zenon DEF Pool

\* A step that sets the pool and the tip.
LEMMA SetConsistent ==
  ASSUME NEW p, NEW b \in Block, Consistent(p, b), SetPool(p), tip' = b
  PROVE  (tip \in Block /\ Consistent(Pool, tip))' /\ mapTx' = p.tx
  <1>1. p \in PoolSet
    BY Zenon DEF Consistent
  <1>2. Pool' = p /\ mapTx' = p.tx
    BY <1>1, SetFacts, Zenon
  <1>3. Consistent(Pool', tip')
    BY <1>2, Zenon
  <1>4. Consistent(Pool, tip)'
    BY <1>3, Zenon DEF Consistent, Founded, Mature, Immature
  <1>5. QED
    BY <1>2, <1>4, Zenon

\* SendTransaction
LEMMA SendKeeps ==
  ASSUME IInv, NEW t \in Tx, SendTransaction(t)
  PROVE  (tip \in Block /\ Consistent(Pool, tip))'
  <1>1. /\ tip \in Block /\ Consistent(Pool, tip) /\ SetPool(addUnchecked(Pool, t)) /\ tip' = tip
        /\ AcceptToMemoryPool(Pool, t, tip, nHeight[tip], {}) = "accepted"
    BY Zenon DEF IInv, SendTransaction
  <1>2. PICK p, h, b : p = Pool /\ h = nHeight[tip] /\ b = tip
    BY Zenon
  <1>3. Consistent(p, b) /\ AcceptToMemoryPool(p, t, b, h, {}) = "accepted" /\ b \in Block
    BY <1>1, <1>2, Zenon
  <1>4. Consistent(addUnchecked(p, t), b)
    BY <1>3, AcceptConsistent
  <1>5. PICK q : q = addUnchecked(p, t)
    BY Zenon
  <1>6. Consistent(q, b) /\ SetPool(q) /\ tip' = b
    BY <1>1, <1>2, <1>4, <1>5, Zenon
  <1>7. QED
    BY <1>3, <1>6, SetConsistent, Zenon

\* ReceiveTx: the pool, and the orphans of what is new in it.
LEMMA ReceiveKeeps ==
  ASSUME IInv, NEW t \in Tx, NEW peer \in Peer, ReceiveTx(t, peer)
  PROVE  /\ (tip \in Block /\ Consistent(Pool, tip))'
         /\ \A o \in DOMAIN mapOrphanTransactions' : Parents[o] \cap (mapTx' \ mapTx) = {}
  <1>1. tip \in Block /\ Consistent(Pool, tip) /\ OrphansTyped /\ tip' = tip
    BY Zenon DEF IInv, OrphanInv, ReceiveTx
  <1>2. CASE UNCHANGED poolVars
    <2>1. mapTx' = mapTx /\ mapNextTx' = mapNextTx
      BY <1>2, Zenon DEF poolVars
    <2>2. Pool' = Pool
      BY <2>1, Zenon DEF Pool
    <2>3. Consistent(Pool', tip')
      BY <1>1, <2>2, Zenon
    <2>4. Consistent(Pool, tip)'
      BY <2>3, Zenon DEF Consistent, Founded, Mature, Immature
    <2>5. QED
      BY <1>1, <2>1, <2>4, Zenon
  <1>3. ASSUME NEW refused, AcceptToMemoryPool(Pool, t, tip, nHeight[tip], refused) = "accepted",
               SetPool(ResolveOrphans(t, refused).pool),
               SetOrphans(EraseOrphanTx(Orphans, ResolveOrphans(t, refused).erase))
        PROVE  /\ (tip \in Block /\ Consistent(Pool, tip))'
               /\ \A o \in DOMAIN mapOrphanTransactions' : Parents[o] \cap (mapTx' \ mapTx) = {}
    <2>1. PICK z : z = ResolveOrphans(t, refused)
      BY Zenon
    <2>2. /\ Consistent(z.pool, tip)
          /\ \A u \in z.pool.tx \ mapTx : u \in DOMAIN mapOrphanTransactionsByPrev =>
               mapOrphanTransactionsByPrev[u] \subseteq z.erase
      BY <1>1, <1>3, <2>1, ResolveFacts, Zenon
    <2>3. PICK p, b : p = z.pool /\ b = tip
      BY Zenon
    <2>4. b \in Block /\ Consistent(p, b) /\ SetPool(p) /\ tip' = b
      BY <1>1, <1>3, <2>1, <2>2, <2>3, Zenon
    <2>5. (tip \in Block /\ Consistent(Pool, tip))' /\ mapTx' = p.tx
      BY <2>4, SetConsistent, Zenon
    <2>6. Agree(Orphans) /\ Orphans.orphans = mapOrphanTransactions
      BY <1>1, Zenon DEF OrphansTyped, OrphanMapsAgree, Orphans, Agree
    <2>7. mapOrphanTransactions' = EraseOrphanTx(Orphans, z.erase).orphans
      BY <1>3, <2>1, Zenon DEF SetOrphans
    <2>8. DOMAIN mapOrphanTransactions' = DOMAIN mapOrphanTransactions \ z.erase
      BY <2>6, <2>7, EraseFacts, Zenon
    <2>9. ASSUME NEW o \in DOMAIN mapOrphanTransactions', NEW u \in Parents[o], u \in mapTx', u \notin mapTx
          PROVE  FALSE
      <3>1. u \in DOMAIN mapOrphanTransactionsByPrev /\ o \in mapOrphanTransactionsByPrev[u]
        BY <1>1, <2>8, Zenon DEF OrphansTyped, OrphanMapsAgree
      <3>2. mapOrphanTransactionsByPrev[u] \subseteq z.erase
        BY <2>2, <2>3, <2>5, <2>9, <3>1, Zenon
      <3>3. QED
        BY <2>8, <3>1, <3>2, Zenon
    <2>10. QED
      BY <2>5, <2>9, Zenon
  <1>4. QED
    BY <1>2, <1>3, Zenon DEF ReceiveTx

\* A set of transactions is the valid part of S when it is valid itself and every
\* valid part of S is in it.
LEMMA ValidPartFacts ==
  ASSUME NEW b, NEW S, NEW K \in SUBSET S, Valid(K, b), \A L \in SUBSET S : Valid(L, b) => L \subseteq K
  PROVE  K = ValidPart(S, b)
  <1>1. ASSUME NEW L
        PROVE  Valid(L, b) <=> \A t \in L : \A out \in Inputs[t] :
                 out[1] \in L \/ (out \in Coins[b] /\ ~Immature(b, out[1], nHeight[b] + 1))
    BY Zenon DEF Valid, Mature
  <1>2. ValidPart(S, b) = UNION {L \in SUBSET S : Valid(L, b)}
    BY <1>1, Zenon DEF ValidPart
  <1>3. QED
    BY <1>2, Zenon

\* A consistent pool is valid.
LEMMA ConsistentValid ==
  ASSUME NEW p, NEW b, Consistent(p, b)
  PROVE  Valid(p.tx, b) /\ p.tx \cap TxsOf[b] = {}
  BY Zenon DEF Consistent, Founded, Valid

\* What PoolFollowsChain says of a step.
Follows ==
  tip' # tip =>
    LET loose == {t \in Range(vtx[tip]) \ (NonStandard \cup NonStandardInput) : ~NeverLoose(t, nHeight[tip])}
        back == IF tip # Genesis /\ tip' = pprev[tip] THEN loose ELSE {}
    IN mapTx' = ValidPart((mapTx \cup back) \ TxsOf[tip'], tip')

\* ConnectTip
LEMMA ConnectKeeps ==
  ASSUME IInv, NEW b \in Block, ConnectTip(b)
  PROVE  (tip \in Block /\ Consistent(Pool, tip))' /\ Follows
  <1>1. /\ tip \in Block /\ Consistent(Pool, tip) /\ b # Genesis /\ pprev[b] = tip
        /\ SetPool(removeForBlock(Pool, vtx[b])) /\ tip' = b
    BY Zenon DEF IInv, ConnectTip
  <1>2. PICK p, z : p = Pool /\ z = removeForBlock(p, vtx[b])
    BY Zenon
  <1>3. Consistent(p, pprev[b])
    BY <1>1, <1>2, Zenon
  <1>4. /\ Consistent(z, b) /\ z.tx \subseteq p.tx
        /\ \A K \in SUBSET p.tx : Valid(K, b) /\ K \cap TxsOf[b] = {} => K \subseteq z.tx
    BY <1>1, <1>2, <1>3, ConnectConsistent, Zenon
  <1>5. (tip \in Block /\ Consistent(Pool, tip))' /\ mapTx' = z.tx
    <2>1. SetPool(z)
      BY <1>1, <1>2, Zenon
    <2>2. QED
      BY <1>1, <1>4, <2>1, SetConsistent, Zenon
  <1>6. ~(tip # Genesis /\ tip' = pprev[tip])
    <2>1. /\ nHeight[b] = nHeight[pprev[b]] + 1 /\ nHeight[tip] \in Nat
          /\ tip # Genesis => nHeight[tip] = nHeight[pprev[tip]] + 1
      BY <1>1, PoolAssumption
    <2>2. QED
      BY <1>1, <2>1
  <1>7. Valid(z.tx, b) /\ z.tx \cap TxsOf[b] = {}
    BY <1>4, ConsistentValid, Zenon
  <1>8. PICK S : S = mapTx \ TxsOf[b]
    BY Zenon
  <1>9. p.tx = mapTx
    BY <1>2, Zenon DEF Pool
  <1>10. z.tx \in SUBSET S /\ \A L \in SUBSET S : Valid(L, b) => L \subseteq z.tx
    BY <1>4, <1>7, <1>8, <1>9, Zenon
  <1>11. z.tx = ValidPart(S, b)
    BY <1>7, <1>10, ValidPartFacts, Zenon
  <1>12. (mapTx \cup {}) \ TxsOf[b] = S
    BY <1>8, Zenon
  <1>13. QED
    BY <1>1, <1>5, <1>6, <1>11, <1>12, Zenon DEF Follows

\* DisconnectTip
LEMMA DisconnectKeeps ==
  ASSUME IInv, DisconnectTip
  PROVE  (tip \in Block /\ Consistent(Pool, tip))' /\ Follows
  <1>1. /\ tip \in Block /\ Consistent(Pool, tip) /\ tip # Genesis /\ tip' = pprev[tip]
        /\ SetPool(removeCoinbaseSpends(Resurrected(Pool, pprev[tip]), pprev[tip], nHeight[tip]))
    BY Zenon DEF IInv, DisconnectTip
  <1>2. pprev[tip] \in Block
    BY <1>1, PoolAssumption, Zenon
  <1>3. PICK p, a, z : /\ p = Pool /\ a = pprev[tip]
                       /\ z = removeCoinbaseSpends(Resurrected(p, pprev[tip]), pprev[tip], nHeight[tip])
    BY Zenon
  <1>4. Consistent(p, tip) /\ a \in Block
    BY <1>1, <1>2, <1>3, Zenon
  <1>5. /\ Consistent(z, a) /\ z.tx \subseteq p.tx \cup Returning(tip)
        /\ \A K \in SUBSET (p.tx \cup Returning(tip)) : Valid(K, a) /\ K \cap TxsOf[a] = {} => K \subseteq z.tx
    <2>1. /\ Consistent(z, pprev[tip]) /\ z.tx \subseteq p.tx \cup Returning(tip)
          /\ \A K \in SUBSET (p.tx \cup Returning(tip)) :
               Valid(K, pprev[tip]) /\ K \cap TxsOf[pprev[tip]] = {} => K \subseteq z.tx
      BY <1>1, <1>3, <1>4, DisconnectConsistent
    <2>2. QED
      BY <1>3, <2>1, Zenon
  <1>6. (tip \in Block /\ Consistent(Pool, tip))' /\ mapTx' = z.tx
    <2>1. SetPool(z) /\ tip' = a
      BY <1>1, <1>3, Zenon
    <2>2. QED
      BY <1>4, <1>5, <2>1, SetConsistent, Zenon
  <1>7. Valid(z.tx, a) /\ z.tx \cap TxsOf[a] = {}
    BY <1>5, ConsistentValid, Zenon
  <1>8. PICK S : S = (mapTx \cup Returning(tip)) \ TxsOf[a]
    BY Zenon
  <1>9. p.tx = mapTx
    BY <1>3, Zenon DEF Pool
  <1>10. z.tx \in SUBSET S /\ \A L \in SUBSET S : Valid(L, a) => L \subseteq z.tx
    BY <1>5, <1>7, <1>8, <1>9, Zenon
  <1>11. z.tx = ValidPart(S, a)
    BY <1>7, <1>10, ValidPartFacts, Zenon
  <1>12. tip' = a
    BY <1>1, <1>3, Zenon
  <1>13. mapTx' = ValidPart((mapTx \cup Returning(tip)) \ TxsOf[tip'], tip')
    BY <1>6, <1>8, <1>11, <1>12, Zenon
  <1>14. QED
    BY <1>1, <1>6, <1>13, Zenon DEF Follows, Returning

\* Every step keeps the invariant and lets the pool follow the chain.
LEMMA NextKeeps ==
  ASSUME IInv, [Next]_vars
  PROVE  /\ IInv' /\ Follows
         /\ (\E t \in Tx, peer \in Peer : ReceiveTx(t, peer)) =>
              \A o \in DOMAIN mapOrphanTransactions' : Parents[o] \cap (mapTx' \ mapTx) = {}
  <1> DEFINE PoolKept == (tip \in Block /\ Consistent(Pool, tip))'
  <1>0. OrphanInv /\ tip \in Block /\ Consistent(Pool, tip)
    BY Zenon DEF IInv
  <1>1. UNCHANGED orphanVars => OrphanInv'
    BY <1>0, Zenon DEF orphanVars, OrphanInv, OrphansTyped, OrphanMapsAgree, OrphansBounded
  <1>2. tip' = tip => Follows
    BY Zenon DEF Follows
  <1>3. UNCHANGED <<tip, poolVars>> => PoolKept
    <2> SUFFICES ASSUME UNCHANGED <<tip, poolVars>> PROVE PoolKept
      BY Zenon
    <2>1. tip' = tip /\ mapTx' = mapTx /\ mapNextTx' = mapNextTx
      BY Zenon DEF poolVars
    <2>2. Consistent(Pool', tip')
      BY <1>0, <2>1, Zenon DEF Pool
    <2>3. Consistent(Pool, tip)'
      BY <2>2, Zenon DEF Consistent, Founded, Mature, Immature
    <2>4. QED
      BY <1>0, <2>1, <2>3, Zenon
  <1> HIDE DEF PoolKept
  <1>4. ASSUME NEW t \in Tx, NEW peer \in Peer, ReceiveTx(t, peer)
        PROVE  OrphanInv' /\ PoolKept /\ Follows
    <2>1. PoolKept
      BY <1>4, ReceiveKeeps, Zenon DEF PoolKept
    <2>2. OrphanInv'
      BY <1>0, <1>4, ReceiveTxOrphans, Zenon
    <2>3. QED
      BY <1>2, <1>4, <2>1, <2>2, Zenon DEF ReceiveTx
  <1>5. ASSUME NEW peer \in Peer, FinalizeNode(peer) PROVE OrphanInv' /\ PoolKept /\ Follows
    <2>1. OrphanInv'
      BY <1>0, <1>5, ErasedKeeps, Zenon DEF FinalizeNode
    <2>2. QED
      BY <1>2, <1>3, <1>5, <2>1, Zenon DEF FinalizeNode
  <1>6. ASSUME NEW t \in Tx, SendTransaction(t) PROVE OrphanInv' /\ PoolKept /\ Follows
    <2>1. PoolKept
      BY <1>6, SendKeeps, Zenon DEF PoolKept
    <2>2. QED
      BY <1>1, <1>2, <1>6, <2>1, Zenon DEF SendTransaction
  <1>7. ASSUME NEW b \in Block, ConnectTip(b) PROVE OrphanInv' /\ PoolKept /\ Follows
    <2>1. PoolKept /\ Follows
      BY <1>7, ConnectKeeps, Zenon DEF PoolKept
    <2>2. QED
      BY <1>1, <1>7, <2>1, Zenon DEF ConnectTip
  <1>8. ASSUME DisconnectTip PROVE OrphanInv' /\ PoolKept /\ Follows
    <2>1. PoolKept /\ Follows
      BY <1>8, DisconnectKeeps, Zenon DEF PoolKept
    <2>2. QED
      BY <1>1, <1>8, <2>1, Zenon DEF DisconnectTip
  <1>9. ASSUME UNCHANGED vars PROVE OrphanInv' /\ PoolKept /\ Follows
    BY <1>1, <1>2, <1>3, <1>9, Zenon DEF vars
  <1>10. OrphanInv' /\ PoolKept /\ Follows
    BY <1>4, <1>5, <1>6, <1>7, <1>8, <1>9, Zenon DEF Next
  <1>11. IInv'
    BY <1>10, Zenon DEF IInv, PoolKept
  <1>12. ASSUME NEW t \in Tx, NEW peer \in Peer, ReceiveTx(t, peer)
         PROVE  \A o \in DOMAIN mapOrphanTransactions' : Parents[o] \cap (mapTx' \ mapTx) = {}
    BY <1>12, ReceiveKeeps, Zenon
  <1>13. QED
    BY <1>10, <1>11, <1>12, Zenon

\* At the start there are no transactions but the chain's.
LEMMA InitIInv == Init => IInv
  <1> SUFFICES ASSUME Init PROVE IInv
    BY Zenon
  <1>1. /\ DOMAIN mapOrphanTransactions = {} /\ DOMAIN mapOrphanTransactionsByPrev = {}
        /\ tip = Genesis /\ mapTx = {} /\ mapNextTx = EmptyMap /\ Genesis \in Block
    BY PoolAssumption, Zenon DEF Init, EmptyMap
  <1>2. IsFiniteSet({}) /\ Cardinality({}) = 0
    BY FS_EmptySet, Zenon
  <1>3. OrphansTyped
    BY <1>1, Zenon DEF OrphansTyped, OrphanMapsAgree
  <1>4. OrphanInv
    BY <1>1, <1>2, <1>3, PoolAssumption DEF OrphanInv, OrphansBounded
  <1>5. [tx |-> {}, next |-> EmptyMap] \in PoolSet
    <2>1. PICK f : f = EmptyMap
      BY Zenon
    <2>2. DOMAIN f = {} /\ f = [out \in DOMAIN f |-> f[out]]
      BY <2>1, Zenon DEF EmptyMap
    <2>3. PICK T : T = {}
      BY Zenon
    <2>4. T \in SUBSET Tx /\ DOMAIN f = UNION {Inputs[t] : t \in T} /\ \A t \in T : \A out \in Inputs[t] : f[out] = t
      BY <2>2, <2>3, Zenon
    <2>5. [tx |-> T, next |-> f] \in PoolSet
      BY <2>2, <2>4, MakePool, Zenon
    <2>6. QED
      BY <2>1, <2>3, <2>5, Zenon
  <1>6. Pool \in PoolSet /\ Pool.tx = {}
    BY <1>1, <1>5, Zenon DEF Pool
  <1>7. Consistent(Pool, tip)
    BY <1>6, Zenon DEF Consistent, Founded
  <1>8. QED
    BY <1>1, <1>4, <1>7, Zenon DEF IInv

\* The invariant holds in every reachable state.
LEMMA Inductive == Spec => []IInv
  <1>1. IInv /\ [Next]_vars => IInv'
    BY NextKeeps, Zenon
  <1>2. QED
    BY <1>1, InitIInv, PTL DEF Spec

-----------------------------------------------------------------------------
\* What CTxMemPool::check asserts holds after every step, for any tree of blocks,
\* transactions and peers: the index of spent outputs is exact, and every input is an
\* output of the pool or a mature coin of the chain, through reorganisations of any depth.
THEOREM PoolAlwaysConsistent == Spec => []PoolConsistent
  <1>1. IInv => PoolConsistent
    <2> SUFFICES ASSUME IInv PROVE PoolConsistent
      BY Zenon
    <2>1. tip \in Block /\ Consistent(Pool, tip) /\ OrphansTyped
      BY Zenon DEF IInv, OrphanInv
    <2>2. /\ Pool \in PoolSet /\ Founded(Pool, Mature(tip)) /\ Pool.tx \cap (CoinBase \cup CoinStake) = {}
          /\ Pool.tx = mapTx /\ Pool.next = mapNextTx
      BY <2>1, Zenon DEF Consistent, Pool
    <2>3. /\ mapTx \in SUBSET Tx /\ DOMAIN mapNextTx = UNION {Inputs[t] : t \in mapTx}
          /\ \A t \in mapTx : \A out \in Inputs[t] : mapNextTx[out] = t
          /\ \A out \in DOMAIN mapNextTx : mapNextTx[out] \in mapTx
      <3>1. PICK p : p = Pool
        BY Zenon
      <3>2. /\ p.tx \in SUBSET Tx /\ Indexed(p) /\ \A out \in DOMAIN p.next : p.next[out] \in p.tx
        BY <2>2, <3>1, IndexFacts, Zenon
      <3>3. p.tx = mapTx /\ p.next = mapNextTx
        BY <2>2, <3>1, Zenon
      <3>4. QED
        BY <3>2, <3>3, Zenon DEF Indexed
    <2>4. \A u \in DOMAIN mapOrphanTransactionsByPrev : mapOrphanTransactionsByPrev[u] \subseteq Tx
      BY <2>1, Zenon DEF OrphansTyped, OrphanMapsAgree
    <2>5. TypeOK
      BY <2>1, <2>2, <2>3, <2>4, Zenon DEF TypeOK, OrphansTyped
    <2>6. \A t \in mapTx : \A out \in Inputs[t] :
            IF out[1] \in mapTx THEN out \in Outputs[out[1]]
            ELSE out \in Coins[tip] /\ ~Immature(tip, out[1], nHeight[tip] + 1)
      BY <2>2, Zenon DEF Founded, Mature
    <2>7. QED
      BY <2>3, <2>5, <2>6, Zenon DEF PoolConsistent
  <1>2. QED
    BY <1>1, Inductive, PTL

\* No transaction is in the pool and in the chain at once.
THEOREM PoolNeverInChain == Spec => []PoolNotInChain
  <1>1. IInv => PoolNotInChain
    BY Zenon DEF IInv, Consistent, Pool, PoolNotInChain
  <1>2. QED
    BY <1>1, Inductive, PTL

\* ConnectTip and DisconnectTip leave in the pool exactly the largest set of its
\* transactions, and of those that come back from the block, that the new chain supports.
THEOREM PoolAlwaysFollowsChain == Spec => PoolFollowsChain
  <1>1. IInv /\ [Next]_vars =>
          [tip' # tip =>
             LET loose == {t \in Range(vtx[tip]) \ (NonStandard \cup NonStandardInput) :
                             ~NeverLoose(t, nHeight[tip])}
                 back == IF tip # Genesis /\ tip' = pprev[tip] THEN loose ELSE {}
             IN mapTx' = ValidPart((mapTx \cup back) \ TxsOf[tip'], tip')]_vars
    BY NextKeeps, Zenon DEF Follows
  <1>2. QED
    BY <1>1, Inductive, PTL DEF Spec, PoolFollowsChain

\* After a "tx" message no orphan is left that spends from a transaction it brought
\* into the pool, however long the chain of orphans is.
THEOREM OrphansAlwaysFollowParents == Spec => OrphansFollowParents
  <1>1. IInv /\ [Next]_vars =>
          [(\E t \in Tx, peer \in Peer : ReceiveTx(t, peer)) =>
             \A o \in DOMAIN mapOrphanTransactions' : Parents[o] \cap (mapTx' \ mapTx) = {}]_vars
    BY NextKeeps, Zenon
  <1>2. QED
    BY <1>1, Inductive, PTL DEF Spec, OrphansFollowParents

\* AddOrphanTx, EraseOrphanTx, EraseOrphansFor and LimitOrphanTxSize keep the two maps
\* of orphans in agreement, for any transactions and peers.
THEOREM OrphanMapsAlwaysAgree == Spec => []OrphanMapsAgree
  <1>1. IInv => OrphanMapsAgree
    BY Zenon DEF IInv, OrphanInv, OrphansTyped
  <1>2. QED
    BY <1>1, Inductive, PTL

\* After every message there are at most nMaxOrphanTx orphans, whatever the limit is.
THEOREM OrphansAlwaysBounded == Spec => []OrphansBounded
  <1>1. IInv => OrphansBounded
    BY Zenon DEF IInv, OrphanInv
  <1>2. QED
    BY <1>1, Inductive, PTL

-----------------------------------------------------------------------------
(* CreateNewBlock.                                                         *)

\* The heap gives one of its members.
LEMMA FirstFacts ==
  ASSUME NEW order \in Seq(Tx), Range(order) = Tx, NEW heap \in SUBSET Tx, heap # {}
  PROVE  First(order, heap) \in heap
  <1> DEFINE n == Len(order)
             U == {i \in 1 .. n : order[i] \in heap}
             R == OpToRel(<, Nat)
  <1>1. n \in Nat /\ DOMAIN order = 1 .. n
    OBVIOUS
  <1>2. \A t \in Tx : \E i \in 1 .. n : order[i] = t
    BY <1>1, Zenon DEF Range
  <1>3. U # {} /\ \A i \in U : i \in 1 .. n /\ order[i] \in heap
    BY <1>2, Zenon
  <1>4. U \subseteq Nat
    OBVIOUS
  <1>5. \A i \in 1 .. n : order[i] \in heap => i \in U
    BY Zenon
  <1> HIDE DEF U
  <1>6. \E x \in U : \A y \in U : ~(<<y, x>> \in R)
    BY <1>3, <1>4, NatLessThanWellFounded, WFMin, Zenon
  <1>7. \A x, y \in Nat : <<y, x>> \in R <=> y < x
    BY Zenon DEF OpToRel
  <1> HIDE DEF R, n
  <1>8. PICK x \in U : \A y \in U : ~(y < x)
    BY <1>4, <1>6, <1>7, Zenon
  <1>9. \A j \in 1 .. x - 1 : j \in 1 .. n /\ j < x
    BY <1>1, <1>3, <1>8
  <1>10. x \in DOMAIN order /\ order[x] \in heap /\ \A j \in 1 .. x - 1 : order[j] \notin heap
    BY <1>1, <1>3, <1>5, <1>8, <1>9, Zenon
  <1>11. QED
    BY <1>10, Zenon DEF First

\* What a transaction of the pool waits for, and the loop of CreateNewBlock.
Waits == [t \in Considered |-> {u \in Parents[t] : ~HaveCoins(tip, u)}]
TakeSet == [block : Seq(Tx), heap : SUBSET Tx]
Takable(w, t, skip) ==
  /\ t \notin skip /\ ~TooLate(t)
  /\ Inputs[t] \subseteq (Coins[tip] \cup UNION {Outputs[u] : u \in Range(w.block)})
                         \ (UNION {Inputs[u] : u \in Range(w.block)})

\* What one turn of the loop does.
TakeEffect(w, x, skip) ==
  /\ x \in TakeSet
  /\ \/ w.heap = {} /\ x = w
     \/ \E t \in w.heap :
          \/ /\ Takable(w, t, skip) /\ x.block = Append(w.block, t)
             /\ x.heap = (w.heap \ {t}) \cup Unblocked(w, t, Waits)
          \/ ~Takable(w, t, skip) /\ x.block = w.block /\ x.heap = w.heap \ {t}

\* One turn of the loop, as Collect has it.
TakeOne(w, order, skip) ==
  IF w.heap = {} THEN w
  ELSE LET t == First(order, w.heap)
       IN IF Takable(w, t, skip) THEN [block |-> Append(w.block, t), heap |-> (w.heap \ {t}) \cup Unblocked(w, t, Waits)]
          ELSE [w EXCEPT !.heap = @ \ {t}]

\* TakeOne has that effect.
LEMMA TakeStep ==
  ASSUME mapTx \in SUBSET Tx, NEW w \in TakeSet, NEW order \in Seq(Tx), Range(order) = Tx, NEW skip
  PROVE  TakeEffect(w, TakeOne(w, order, skip), skip)
  <1> DEFINE x == TakeOne(w, order, skip)
             t == First(order, w.heap)
  <1>1. w.block \in Seq(Tx) /\ w.heap \in SUBSET Tx /\ w = [block |-> w.block, heap |-> w.heap]
    BY DEF TakeSet
  <1>2. CASE w.heap = {}
    <2>1. x = w
      BY <1>2, Zenon DEF TakeOne
    <2>2. QED
      BY <1>2, <2>1, Zenon DEF TakeEffect
  <1>3. CASE w.heap # {}
    <2>1. t \in w.heap /\ t \in Tx
      BY <1>1, <1>3, FirstFacts, Zenon
    <2> HIDE DEF t
    <2>2. Unblocked(w, t, Waits) \in SUBSET Tx
      BY Zenon DEF Unblocked, Waits, Considered
    <2>3. CASE Takable(w, t, skip)
      <3>1. x = [block |-> Append(w.block, t), heap |-> (w.heap \ {t}) \cup Unblocked(w, t, Waits)]
        BY <1>3, <2>3, Zenon DEF TakeOne, t
      <3>2. Append(w.block, t) \in Seq(Tx) /\ (w.heap \ {t}) \cup Unblocked(w, t, Waits) \in SUBSET Tx
        BY <1>1, <2>1, <2>2, AppendFacts, Zenon
      <3> HIDE DEF x
      <3>3. x \in TakeSet /\ x.block = Append(w.block, t) /\ x.heap = (w.heap \ {t}) \cup Unblocked(w, t, Waits)
        BY <3>1, <3>2 DEF TakeSet
      <3>4. QED
        BY <2>1, <2>3, <3>3, Zenon DEF TakeEffect, x
    <2>4. CASE ~Takable(w, t, skip)
      <3>1. x = [w EXCEPT !.heap = w.heap \ {t}]
        BY <1>3, <2>4, Zenon DEF TakeOne, t
      <3> HIDE DEF x
      <3>2. PICK a, c, e : a = w.block /\ c = w.heap /\ e = w.heap \ {t}
        BY Zenon
      <3>3. w = [block |-> a, heap |-> c] /\ x = [w EXCEPT !.heap = e]
        BY <1>1, <3>1, <3>2, Zenon
      <3>4. x = [block |-> a, heap |-> e]
        BY <3>3
      <3>5. a \in Seq(Tx) /\ e \in SUBSET Tx
        BY <1>1, <3>2, Zenon
      <3>6. x \in TakeSet /\ x.block = a /\ x.heap = e
        BY <3>4, <3>5, Zenon DEF TakeSet
      <3>7. QED
        BY <2>1, <2>4, <3>2, <3>6, Zenon DEF TakeEffect, x
    <2>5. QED
      BY <2>3, <2>4, Zenon
  <1>4. QED
    BY <1>2, <1>3, Zenon

\* What the loop begins with.
TakeStart == [block |-> <<>>, heap |-> {t \in Considered : Waits[t] = {}}]

\* The states that the loop goes through.
TakeRun(f, skip) ==
  /\ f \in [0 .. Len(Hashes) -> TakeSet] /\ f[0] = TakeStart
  /\ \A i \in 1 .. Len(Hashes) : TakeEffect(f[i - 1], f[i], skip)

\* Collect goes through such states.
LEMMA TakeSteps ==
  ASSUME mapTx \in SUBSET Tx, NEW order \in Seq(Tx), Range(order) = Tx, NEW skip
  PROVE  \E f : TakeRun(f, skip) /\ f[Len(Hashes)].block = Collect(order, skip)
  <1> DEFINE n == Len(Hashes)
             s == TakeStart
             Step(q) == TakeOne(q, order, skip)
             G == [i \in 1 .. n |-> [q \in TakeSet |-> Step(q)]]
             Over(f) == [i \in 0 .. n |-> IF i = 0 THEN s ELSE Step(f[i - 1])]
             g == CHOOSE f : f = Over(f)
  <1>1. n \in Nat
    BY PoolAssumption
  <1>2. Collect(order, skip) = g[n].block
    BY Zenon DEF Collect, TakeStart, TakeOne, Waits, Takable
  <1>3. s \in TakeSet
    <2>1. <<>> \in Seq(Tx) /\ {t \in Considered : Waits[t] = {}} \in SUBSET Tx
      BY DEF Considered
    <2>2. QED
      BY <2>1, Zenon DEF TakeStart, TakeSet
  <1> HIDE DEF s
  <1>4. \A q \in TakeSet : TakeEffect(q, Step(q), skip)
    BY TakeStep, Zenon
  <1>5. \A q \in TakeSet : Step(q) \in TakeSet
    BY <1>4, Zenon DEF TakeEffect
  <1> HIDE DEF Step
  <1>6. G \in [1 .. n -> [TakeSet -> TakeSet]]
    BY <1>5, Zenon
  <1>7. \A i \in 1 .. n, q \in TakeSet : G[i][q] = Step(q)
    BY Zenon
  <1> HIDE DEF G, n
  <1>8. \E f : f = Over(f)
    <2>1. PICK f : Iterates(f, TakeSet, s, n, G)
      BY <1>1, <1>3, <1>6, Recursion, Zenon
    <2>2. f \in [0 .. n -> TakeSet] /\ f[0] = s /\ \A i \in 1 .. n : f[i] = G[i][f[i - 1]]
      BY <2>1, Zenon DEF Iterates
    <2>3. \A i \in 1 .. n : f[i] = Step(f[i - 1])
      BY <1>1, <1>7, <2>2
    <2>4. f = Over(f)
      BY <1>1, <2>2, <2>3
    <2>5. QED
      BY <2>4, Zenon
  <1>9. g = Over(g)
    BY <1>8, Zenon
  <1> HIDE DEF g
  <1>10. OnSteps(g, n) /\ g[0] = s /\ \A i \in 1 .. n : g[i] = Step(g[i - 1])
    <2>1. 0 \in 0 .. n /\ \A i \in 1 .. n : i \in 0 .. n /\ i # 0
      BY <1>1
    <2>2. QED
      BY <1>9, <2>1, Zenon DEF OnSteps
  <1>11. g \in [0 .. n -> TakeSet]
    <2>1. \A i \in 1 .. n : g[i - 1] \in TakeSet => g[i] = G[i][g[i - 1]]
      BY <1>7, <1>10, Zenon
    <2>2. Iterates(g, TakeSet, s, n, G)
      BY <1>1, <1>3, <1>6, <1>10, <2>1, RunIterates, Zenon
    <2>3. QED
      BY <2>2, Zenon DEF Iterates
  <1>12. ASSUME NEW i \in 1 .. n PROVE TakeEffect(g[i - 1], g[i], skip)
    <2>1. i - 1 \in 0 .. n
      BY <1>1
    <2>2. QED
      BY <1>4, <1>10, <1>11, <2>1, Zenon
  <1>13. TakeRun(g, skip)
    BY <1>10, <1>11, <1>12, Zenon DEF n, s, TakeRun
  <1>14. QED
    BY <1>2, <1>13, Zenon DEF n

\* A pool transaction waits for its parents in the pool.
LEMMA WaitsFacts ==
  ASSUME IInv
  PROVE  /\ mapTx \in SUBSET Tx /\ Considered \subseteq mapTx /\ DOMAIN Waits = Considered
         /\ \A t \in Considered : Waits[t] = Parents[t] \cap mapTx
         /\ \A t \in mapTx : \A out \in Inputs[t] :
              out[1] \in Parents[t] /\ IF out[1] \in mapTx THEN out \in Outputs[out[1]] ELSE out \in Coins[tip]
         /\ \A t, u \in mapTx : t # u => Inputs[t] \cap Inputs[u] = {}
  <1>1. tip \in Block /\ Consistent(Pool, tip)
    BY Zenon DEF IInv
  <1>2. /\ Pool \in PoolSet /\ Founded(Pool, Mature(tip)) /\ mapTx \cap TxsOf[tip] = {} /\ Pool.tx = mapTx
    BY <1>1, Zenon DEF Consistent, Pool
  <1>3. PICK p : p = Pool
    BY Zenon
  <1>4. p.tx \in SUBSET Tx /\ (\A t, u \in p.tx : t # u => Inputs[t] \cap Inputs[u] = {}) /\ p.tx = mapTx
    BY <1>2, <1>3, IndexFacts, Zenon
  <1>5. \A t \in mapTx : \A out \in Inputs[t] :
          IF out[1] \in mapTx THEN out \in Outputs[out[1]] ELSE out \in Coins[tip]
    BY <1>2, Zenon DEF Founded, Mature
  <1>6. Considered \subseteq mapTx /\ DOMAIN Waits = Considered
        /\ \A t \in Considered : Waits[t] = {u \in Parents[t] : ~HaveCoins(tip, u)}
    BY Zenon DEF Considered, Waits
  <1>7. \A t \in Tx : /\ \A out \in Inputs[t] : out[1] \in Parents[t]
                      /\ \A u \in Parents[t] : \E out \in Inputs[t] : out[1] = u
    BY InputFacts, Zenon
  <1>8. ASSUME NEW t \in Considered, NEW u \in Parents[t]
        PROVE  ~HaveCoins(tip, u) <=> u \in mapTx
    <2>1. CASE u \in mapTx
      BY <1>1, <1>2, <2>1, CoinFacts, Zenon
    <2>2. CASE u \notin mapTx
      <3>1. PICK out \in Inputs[t] : out[1] = u
        BY <1>4, <1>6, <1>7, Zenon
      <3>2. out \in Coins[tip]
        BY <1>5, <1>6, <2>2, <3>1, Zenon
      <3>3. QED
        BY <2>2, <3>1, <3>2, Zenon DEF HaveCoins
    <2>3. QED
      BY <2>1, <2>2, Zenon
  <1>9. \A t \in Considered : Waits[t] = Parents[t] \cap mapTx
    BY <1>6, <1>8, Zenon
  <1>10. QED
    BY <1>4, <1>5, <1>6, <1>7, <1>9, Zenon

\* q is what has come from the heap in i turns, each transaction once; nothing has come
\* before what it waits for was in the block.
Popped(q, w, i) ==
  /\ q \in Seq(Tx) /\ Distinct(q) /\ Members(w.block) \subseteq Members(q)
  /\ w.heap \cap Members(q) = {} /\ (w.heap = {} \/ Len(q) = i)
  /\ \A c \in Members(q) : Waits[c] \subseteq Members(w.block)

\* The state of the loop: everything waits for what comes before it.  Without proof of
\* stake only the limits leave anything out.
TakeInv(w, i, skip) ==
  /\ w \in TakeSet /\ w.heap \cup Members(w.block) \subseteq Considered
  /\ \A k \in 1 .. Len(w.block) : \A u \in Waits[w.block[k]] : \E j \in 1 .. k - 1 : w.block[j] = u
  /\ \A t \in w.heap : Waits[t] \subseteq Members(w.block)
  /\ \E q : Popped(q, w, i)
  /\ ~fProofOfStake => \A c \in Considered \ skip :
       Waits[c] \subseteq Members(w.block) => c \in w.heap \cup Members(w.block)

\* Without proof of stake what comes from the heap goes into the block, unless a limit
\* leaves it out.
LEMMA AlwaysTakable ==
  ASSUME IInv, ~fProofOfStake, NEW skip, NEW w, NEW i, TakeInv(w, i, skip), NEW t \in w.heap, t \notin skip
  PROVE  Takable(w, t, skip)
  <1>1. /\ t \in Considered /\ Members(w.block) \subseteq Considered /\ t \notin Members(w.block)
        /\ Waits[t] \subseteq Members(w.block) /\ w.block \in Seq(Tx)
    <2>1. PICK q : Popped(q, w, i)
      BY Zenon DEF TakeInv
    <2>2. t \notin Members(w.block)
      BY <2>1, Zenon DEF Popped
    <2>3. QED
      BY <2>2, Zenon DEF TakeInv, TakeSet
  <1>2. Range(w.block) = Members(w.block)
    <2>1. DOMAIN w.block = 1 .. Len(w.block)
      BY <1>1
    <2>2. QED
      BY <2>1, Zenon DEF Range, Members
  <1>3. ~TooLate(t)
    BY Zenon DEF TooLate
  <1>4. ASSUME NEW out \in Inputs[t]
        PROVE  /\ out \in Coins[tip] \/ \E u \in Range(w.block) : out \in Outputs[u]
               /\ \A u \in Range(w.block) : out \notin Inputs[u]
    <2>1. out[1] \in Parents[t] /\ IF out[1] \in mapTx THEN out \in Outputs[out[1]] ELSE out \in Coins[tip]
      BY <1>1, WaitsFacts, Zenon
    <2>2. out[1] \in mapTx => out[1] \in Members(w.block)
      <3>1. Waits[t] = Parents[t] \cap mapTx
        BY <1>1, WaitsFacts, Zenon
      <3>2. QED
        BY <1>1, <2>1, <3>1, Zenon
    <2>3. \A u \in Members(w.block) : u \in mapTx /\ u # t /\ t \in mapTx
      BY <1>1, WaitsFacts, Zenon
    <2>4. \A u \in Members(w.block) : out \notin Inputs[u]
      BY <2>3, WaitsFacts, Zenon
    <2>5. QED
      BY <1>2, <2>1, <2>2, <2>4, Zenon
  <1>5. Inputs[t] \subseteq (Coins[tip] \cup UNION {Outputs[u] : u \in Range(w.block)})
                            \ (UNION {Inputs[u] : u \in Range(w.block)})
    <2>1. ASSUME NEW out \in Inputs[t]
          PROVE  /\ out \in Coins[tip] \cup UNION {Outputs[u] : u \in Range(w.block)}
                 /\ out \notin UNION {Inputs[u] : u \in Range(w.block)}
      BY <1>4, Zenon
    <2>2. QED
      BY <2>1, Zenon
  <1>6. QED
    BY <1>3, <1>5, Zenon DEF Takable

\* Taking a transaction from the heap keeps the invariant of the loop.
LEMMA TakeKeeps ==
  ASSUME IInv, NEW skip, NEW w, NEW i \in Nat, TakeInv(w, i - 1, skip), NEW x, TakeEffect(w, x, skip)
  PROVE  TakeInv(x, i, skip)
  <1>1. x \in TakeSet
    BY Zenon DEF TakeEffect
  <1>2. /\ w \in TakeSet /\ w.heap \cup Members(w.block) \subseteq Considered
        /\ \A k \in 1 .. Len(w.block) : \A u \in Waits[w.block[k]] : \E j \in 1 .. k - 1 : w.block[j] = u
        /\ \A t \in w.heap : Waits[t] \subseteq Members(w.block)
        /\ ~fProofOfStake => \A c \in Considered \ skip :
             Waits[c] \subseteq Members(w.block) => c \in w.heap \cup Members(w.block)
    BY Zenon DEF TakeInv
  <1>3. w.block \in Seq(Tx) /\ w.heap \in SUBSET Tx
    BY <1>2, Zenon DEF TakeSet
  <1>q. PICK q : Popped(q, w, i - 1)
    BY Zenon DEF TakeInv
  <1>p. /\ q \in Seq(Tx) /\ Distinct(q) /\ Members(w.block) \subseteq Members(q)
        /\ w.heap \cap Members(q) = {} /\ (w.heap = {} \/ Len(q) = i - 1)
        /\ \A c \in Members(q) : Waits[c] \subseteq Members(w.block)
    BY <1>q, Zenon DEF Popped
  <1>a. ASSUME NEW t \in w.heap
        PROVE  /\ Append(q, t) \in Seq(Tx) /\ Distinct(Append(q, t)) /\ Len(Append(q, t)) = i
               /\ Members(Append(q, t)) = Members(q) \cup {t}
    <2>1. t \in Tx /\ t \notin Members(q) /\ Len(q) = i - 1
      BY <1>3, <1>p, <1>a, Zenon
    <2>2. /\ Append(q, t) \in Seq(Tx) /\ Distinct(Append(q, t)) /\ Len(Append(q, t)) = Len(q) + 1
          /\ Members(Append(q, t)) = Members(q) \cup {t}
      BY <1>p, <2>1, AppendFacts, Zenon
    <2>3. Len(q) + 1 = i
      BY <2>1
    <2>4. QED
      BY <2>2, <2>3, Zenon
  <1>4. CASE w.heap = {} /\ x = w
    <2>1. Popped(q, w, i)
      BY <1>p, <1>4, Zenon DEF Popped
    <2>2. TakeInv(w, i, skip)
      BY <1>2, <2>1, Zenon DEF TakeInv
    <2>3. QED
      BY <1>4, <2>2, Zenon
  <1>5. ASSUME NEW t \in w.heap, ~Takable(w, t, skip), x.block = w.block, x.heap = w.heap \ {t}
        PROVE  TakeInv(x, i, skip)
    <2>1. fProofOfStake \/ t \in skip
      BY <1>5, AlwaysTakable, Zenon
    <2>2. x.heap \subseteq w.heap /\ x.heap \cup Members(x.block) \subseteq Considered
      BY <1>2, <1>5, Zenon
    <2>3. \A k \in 1 .. Len(x.block) : \A u \in Waits[x.block[k]] : \E j \in 1 .. k - 1 : x.block[j] = u
      <3>1. PICK s : s = w.block
        BY Zenon
      <3>2. \A k \in 1 .. Len(s) : \A u \in Waits[s[k]] : \E j \in 1 .. k - 1 : s[j] = u
        BY <1>2, <3>1, Zenon
      <3>3. s = x.block
        BY <1>5, <3>1, Zenon
      <3>4. QED
        BY <3>2, <3>3, Zenon
    <2>4. \A c \in x.heap : Waits[c] \subseteq Members(x.block)
      BY <1>2, <1>5, <2>2, Zenon
    <2>5. Popped(Append(q, t), x, i)
      <3>1. Members(x.block) = Members(w.block)
        BY <1>5, Zenon
      <3>2. \A c \in Members(q) \cup {t} : Waits[c] \subseteq Members(x.block)
        BY <1>2, <1>p, <1>5, <3>1, Zenon
      <3>3. x.heap \cap (Members(q) \cup {t}) = {} /\ Members(x.block) \subseteq Members(q) \cup {t}
        BY <1>p, <1>5, <3>1, Zenon
      <3>4. QED
        BY <1>a, <3>2, <3>3, Zenon DEF Popped
    <2>6. ASSUME ~fProofOfStake, NEW c \in Considered \ skip, Waits[c] \subseteq Members(x.block)
          PROVE  c \in x.heap \cup Members(x.block)
      <3>1. c # t
        BY <2>1, <2>6, Zenon
      <3>2. c \in w.heap \cup Members(w.block)
        BY <1>2, <1>5, <2>6, Zenon
      <3>3. QED
        BY <1>5, <3>1, <3>2, Zenon
    <2>7. QED
      BY <1>1, <2>2, <2>3, <2>4, <2>5, <2>6, Zenon DEF TakeInv
  <1>6. ASSUME NEW t \in w.heap, Takable(w, t, skip), x.block = Append(w.block, t),
               x.heap = (w.heap \ {t}) \cup Unblocked(w, t, Waits)
        PROVE  TakeInv(x, i, skip)
    <2>1. PICK s, U : s = w.block /\ U = Unblocked(w, t, Waits)
      BY Zenon
    <2>2. Range(s) = Members(s) /\ s \in Seq(Tx) /\ t \in Tx
      <3>1. DOMAIN w.block = 1 .. Len(w.block)
        BY <1>3
      <3>2. QED
        BY <1>3, <2>1, <3>1, Zenon DEF Range, Members
    <2>3. \A c : c \in U <=> c \in Considered /\ t \in Waits[c] /\ Waits[c] \subseteq Members(s) \cup {t}
      BY <2>1, <2>2, WaitsFacts, Zenon DEF Unblocked
    <2>4. /\ Len(s) \in Nat /\ Len(Append(s, t)) = Len(s) + 1
          /\ \A k \in 1 .. Len(s) : Append(s, t)[k] = s[k] /\ k \in 1 .. Len(Append(s, t))
          /\ Append(s, t)[Len(s) + 1] = t
          /\ Members(Append(s, t)) = Members(s) \cup {t}
      BY <2>2, AppendFacts, Zenon
    <2>5. /\ Len(s) \in Nat /\ Len(x.block) = Len(s) + 1 /\ x.block[Len(s) + 1] = t
          /\ \A k \in 1 .. Len(s) : x.block[k] = s[k]
          /\ Members(x.block) = Members(s) \cup {t}
      BY <1>6, <2>1, <2>4, Zenon
    <2>6. x.heap \cup Members(x.block) \subseteq Considered
      <3>1. Members(s) \subseteq Considered /\ t \in Considered
        BY <1>2, <2>1, Zenon
      <3>2. x.heap \subseteq w.heap \cup U
        BY <1>6, <2>1, Zenon
      <3>3. x.heap \subseteq Considered
        BY <1>2, <2>3, <3>2, Zenon
      <3>4. Members(x.block) \subseteq Considered
        BY <2>5, <3>1, Zenon
      <3>5. QED
        BY <3>3, <3>4, Zenon
    <2>7. Popped(Append(q, t), x, i)
      <3>1. t \notin Members(s) /\ t \notin Waits[t]
        BY <1>2, <1>p, <2>1, Zenon
      <3>2. \A c \in U : c \notin Members(q) /\ c # t
        BY <1>p, <2>1, <2>3, <3>1, Zenon
      <3>3. x.heap \cap (Members(q) \cup {t}) = {}
        BY <1>p, <1>6, <2>1, <3>2, Zenon
      <3>4. Members(x.block) \subseteq Members(q) \cup {t}
        BY <1>p, <2>1, <2>5, Zenon
      <3>5. \A c \in Members(q) \cup {t} : Waits[c] \subseteq Members(x.block)
        BY <1>2, <1>p, <2>1, <2>5, Zenon
      <3>6. QED
        BY <1>a, <3>3, <3>4, <3>5, Zenon DEF Popped
    <2>8. ASSUME NEW k \in 1 .. Len(x.block), NEW u \in Waits[x.block[k]]
          PROVE  \E j \in 1 .. k - 1 : x.block[j] = u
      <3>1. CASE k \in 1 .. Len(s)
        <4>0. u \in Waits[s[k]] /\ \A v \in Waits[s[k]] : \E j \in 1 .. k - 1 : s[j] = v
          <5>1. x.block[k] = s[k]
            BY <2>5, <3>1, Zenon
          <5>2. u \in Waits[s[k]]
            BY <2>8, <5>1, Zenon
          <5>3. QED
            BY <1>2, <2>1, <3>1, <5>2, Zenon
        <4>1. PICK j \in 1 .. k - 1 : s[j] = u
          BY <4>0, Zenon
        <4>2. j \in 1 .. Len(s)
          BY <2>5, <3>1
        <4>3. QED
          BY <2>5, <4>1, <4>2, Zenon
      <3>2. CASE k = Len(s) + 1
        <4>1. u \in Members(s)
          BY <1>2, <2>1, <2>5, <2>8, <3>2, Zenon
        <4>2. PICK j \in 1 .. Len(s) : s[j] = u
          BY <4>1, Zenon DEF Members
        <4>3. j \in 1 .. k - 1
          BY <2>5, <3>2
        <4>4. QED
          BY <2>5, <4>2, <4>3, Zenon
      <3>3. k \in 1 .. Len(s) \/ k = Len(s) + 1
        BY <2>5
      <3>4. QED
        BY <3>1, <3>2, <3>3, Zenon
    <2>9. ASSUME NEW c \in x.heap PROVE Waits[c] \subseteq Members(x.block)
      BY <1>2, <1>6, <2>1, <2>3, <2>5, Zenon
    <2>10. ASSUME ~fProofOfStake, NEW c \in Considered \ skip, Waits[c] \subseteq Members(x.block)
           PROVE  c \in x.heap \cup Members(x.block)
      <3>1. CASE t \in Waits[c]
        BY <1>6, <2>1, <2>3, <2>5, <2>10, <3>1, Zenon
      <3>2. CASE t \notin Waits[c]
        <4>1. Waits[c] \subseteq Members(s)
          BY <2>5, <2>10, <3>2, Zenon
        <4>2. c \in w.heap \cup Members(s)
          BY <1>2, <2>1, <2>10, <4>1, Zenon
        <4>3. QED
          BY <1>6, <2>5, <4>2, Zenon
      <3>3. QED
        BY <3>1, <3>2, Zenon
    <2>11. QED
      BY <1>1, <2>6, <2>7, <2>8, <2>9, <2>10, Zenon DEF TakeInv
  <1>7. QED
    BY <1>4, <1>5, <1>6, Zenon DEF TakeEffect

\* The block that CreateNewBlock collects, in whatever order the heap gives the
\* transactions and whatever the limits leave out: parents come first, and the heap is
\* empty in the end.
LEMMA CollectFacts ==
  ASSUME IInv, NEW order \in Priorities, NEW skip
  PROVE  \E w : TakeInv(w, Len(Hashes), skip) /\ w.block = Collect(order, skip) /\ w.heap = {}
  <1> DEFINE n == Len(Hashes)
  <1>1. order \in Seq(Tx) /\ Range(order) = Tx
    BY PoolAssumption, Zenon
  <1>2. PICK f : TakeRun(f, skip) /\ f[n].block = Collect(order, skip)
    BY <1>1, WaitsFacts, TakeSteps, Zenon
  <1>3. f \in [0 .. n -> TakeSet] /\ f[0] = TakeStart /\ \A i \in 1 .. n : TakeEffect(f[i - 1], f[i], skip)
    BY <1>2, Zenon DEF TakeRun
  <1>4. n \in Nat /\ 1 .. 0 = {} /\ n \in 0 .. n /\ 0 \in 0 .. n /\ Len(<<>>) = 0
    BY PoolAssumption
  <1> DEFINE T == {k \in 0 .. n : TakeInv(f[k], k, skip)}
  <1>5. 0 \in T
    <2>1. /\ TakeStart.block = <<>> /\ TakeStart.heap = {t \in Considered : Waits[t] = {}}
      BY Zenon DEF TakeStart
    <2>2. PICK w : w = f[0]
      BY Zenon
    <2>3. w \in TakeSet /\ w.block = <<>> /\ Len(w.block) = 0 /\ w.heap = {t \in Considered : Waits[t] = {}}
      BY <1>3, <1>4, <2>1, <2>2, Zenon
    <2>4. Members(w.block) = {} /\ Distinct(w.block)
      BY <1>4, <2>3, Zenon DEF Members, Distinct
    <2>5. Popped(<<>>, w, 0)
      <3>1. <<>> \in Seq(Tx)
        OBVIOUS
      <3>2. QED
        BY <1>4, <2>3, <2>4, <3>1, Zenon DEF Popped
    <2>6. TakeInv(w, 0, skip)
      BY <1>4, <2>3, <2>4, <2>5, Zenon DEF TakeInv
    <2>7. QED
      BY <1>4, <2>2, <2>6, Zenon
  <1>6. ASSUME NEW i \in 1 .. n, i - 1 \in T PROVE i \in T
    <2>1. i \in 0 .. n /\ i \in Nat
      BY <1>4
    <2>2. TakeInv(f[i - 1], i - 1, skip) /\ TakeEffect(f[i - 1], f[i], skip)
      BY <1>3, <1>6, Zenon
    <2>3. TakeInv(f[i], i, skip)
      BY <2>1, <2>2, TakeKeeps, Zenon
    <2>4. QED
      BY <2>1, <2>3, Zenon
  <1>7. PICK w : w = f[n]
    BY Zenon
  <1>8. TakeInv(w, n, skip) /\ w.block = Collect(order, skip)
    <2> HIDE DEF T
    <2>1. n \in T
      BY <1>4, <1>5, <1>6, IntervalInduction, Zenon
    <2>2. QED
      BY <1>2, <1>7, <2>1, Zenon DEF T
  <1>9. ASSUME NEW t \in w.heap PROVE FALSE
    <2>1. PICK q : Popped(q, w, n)
      BY <1>8, Zenon DEF TakeInv
    <2>2. q \in Seq(Tx) /\ t \in Tx /\ Distinct(q) /\ t \notin Members(q) /\ Len(q) = n
      BY <1>8, <1>9, <2>1, Zenon DEF TakeInv, TakeSet, Popped
    <2>3. Append(q, t) \in Seq(Tx) /\ Distinct(Append(q, t)) /\ Len(Append(q, t)) = n + 1
      BY <2>2, AppendFacts, Zenon
    <2>4. Len(Append(q, t)) <= n
      BY <2>3, ShortSequence, Zenon
    <2>5. QED
      BY <1>4, <2>3, <2>4
  <1>10. QED
    BY <1>8, <1>9, Zenon

\* What TemplateComplete says, of one order and one outcome of the limits.
LEMMA TemplateFacts ==
  ASSUME IInv, NEW order \in Priorities, NEW skip, NEW s, s = Collect(order, skip)
  PROVE  /\ \A k \in DOMAIN s : \A u \in Parents[s[k]] \cap mapTx : \E j \in 1 .. k - 1 : s[j] = u
         /\ ~fProofOfStake => \A t \in (mapTx \cap OldVersion) \ skip :
              IsFinalTx(t, nHeight[tip] + 1) /\ Parents[t] \cap mapTx \subseteq Range(s) => t \in Range(s)
  <1>1. PICK w : TakeInv(w, Len(Hashes), skip) /\ w.block = Collect(order, skip) /\ w.heap = {}
    BY CollectFacts, Zenon
  <1>2. /\ w.block \in Seq(Tx) /\ Members(w.block) \subseteq Considered
        /\ \A k \in 1 .. Len(w.block) : \A u \in Waits[w.block[k]] : \E j \in 1 .. k - 1 : w.block[j] = u
        /\ ~fProofOfStake =>
             \A c \in Considered \ skip : Waits[c] \subseteq Members(w.block) => c \in w.heap \cup Members(w.block)
    BY <1>1, Zenon DEF TakeInv, TakeSet
  <1>3. w.block = s
    BY <1>1, Zenon
  <1>4. /\ s \in Seq(Tx) /\ Members(s) \subseteq Considered
        /\ \A k \in 1 .. Len(s) : \A u \in Waits[s[k]] : \E j \in 1 .. k - 1 : s[j] = u
    BY <1>2, <1>3, Zenon
  <1>5. ASSUME ~fProofOfStake, NEW c \in Considered \ skip, Waits[c] \subseteq Members(s) PROVE c \in Members(s)
    BY <1>1, <1>2, <1>3, <1>5, Zenon
  <1>6. DOMAIN s = 1 .. Len(s)
    BY <1>4
  <1>7. Range(s) = Members(s) /\ \A k \in DOMAIN s : s[k] \in Members(s)
    BY <1>6, Zenon DEF Range, Members
  <1>8. \A t \in Considered : Waits[t] = Parents[t] \cap mapTx
    BY WaitsFacts, Zenon
  <1>9. ASSUME NEW k \in DOMAIN s, NEW u \in Parents[s[k]] \cap mapTx PROVE \E j \in 1 .. k - 1 : s[j] = u
    <2>1. s[k] \in Considered /\ k \in 1 .. Len(s)
      BY <1>4, <1>6, <1>7, Zenon
    <2>2. u \in Waits[s[k]]
      BY <1>8, <2>1, Zenon
    <2>3. QED
      BY <1>4, <2>1, <2>2, Zenon
  <1>10. ASSUME ~fProofOfStake, NEW t \in (mapTx \cap OldVersion) \ skip, IsFinalTx(t, nHeight[tip] + 1),
                Parents[t] \cap mapTx \subseteq Range(s)
         PROVE  t \in Range(s)
    <2>1. t \in Considered \ skip
      BY <1>10, Zenon DEF Considered
    <2>2. Waits[t] = Parents[t] \cap mapTx
      BY <1>8, <2>1, Zenon
    <2>3. Waits[t] \subseteq Members(s)
      BY <1>7, <1>10, <2>2, Zenon
    <2>4. QED
      BY <1>5, <1>7, <1>10, <2>1, <2>3, Zenon
  <1>11. QED
    BY <1>9, <1>10, Zenon

\* CreateNewBlock's block has every transaction after its parents in the pool, and before
\* proof of stake it leaves out none that is final, whose parents are in it and that no
\* limit on size, signature operations or free transactions leaves out: for any pool
\* that can be reached, any order of priorities and any outcome of the limits.
THEOREM TemplateAlwaysComplete == Spec => []TemplateComplete
  <1>1. IInv => TemplateComplete
    <2> SUFFICES ASSUME IInv PROVE TemplateComplete
      BY Zenon
    <2>1. QED
      BY TemplateFacts, Zenon DEF TemplateComplete
  <1>2. QED
    BY <1>1, Inductive, PTL

=============================================================================
