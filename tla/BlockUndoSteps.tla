--------------------------- MODULE BlockUndoSteps ---------------------------
(***************************************************************************)
(* The loops of BlockUndo, for every tree of blocks that its assumptions   *)
(* describe.  What the chain to a block determines is written down without *)
(* any coins: Made are the transactions connected, Gone the outputs spent, *)
(* HeightIn the heights.  State says which coins that is, UndoEntry which  *)
(* undo data.  The four loops (inputs spent, transactions connected,       *)
(* inputs restored, transactions undone) are recursive functions on the    *)
(* number of steps; the first part shows that they are sequences of        *)
(* states, so that each loop is followed by induction on its steps.        *)
(***************************************************************************)
EXTENDS BlockUndo, TLAPS, WellFoundedInduction, NaturalsInduction

\* Induction on an interval, for a set of numbers.
LEMMA IntervalInduction ==
  ASSUME NEW n \in Nat, NEW T, 0 \in T, \A i \in 1 .. n : i - 1 \in T => i \in T
  PROVE  \A i \in 0 .. n : i \in T
  <1> DEFINE U == (0 .. n) \ T
             R == OpToRel(<, Nat)
  <1>1. SUFFICES ASSUME U # {} PROVE FALSE
    BY Zenon
  <1>2. U \subseteq Nat
    OBVIOUS
  <1>3. \E x \in U : \A y \in U : ~(<<y, x>> \in R)
    <2> HIDE DEF U
    <2> QED
      BY <1>1, <1>2, NatLessThanWellFounded, WFMin, Zenon
  <1>4. \A x, y \in Nat : <<y, x>> \in R <=> y < x
    BY Zenon DEF OpToRel
  <1> HIDE DEF R
  <1>5. PICK x \in U : \A y \in U : ~(y < x)
    BY <1>2, <1>3, <1>4, Zenon
  <1>6. x \in 1 .. n /\ x \notin T
    BY <1>5
  <1>7. x - 1 \notin T
    BY <1>6, Zenon
  <1>8. x - 1 \in U
    BY <1>6, <1>7
  <1>9. QED
    BY <1>5, <1>6, <1>8

\* f is the sequence of states from s0 through the first n steps of G.
Iterates(f, S, s0, n, G) ==
  f \in [0 .. n -> S] /\ f[0] = s0 /\ \A i \in 1 .. n : f[i] = G[i][f[i - 1]]

\* A step function can be iterated along an interval.
LEMMA Recursion ==
  ASSUME NEW S, NEW s0 \in S, NEW n \in Nat, NEW G \in [1 .. n -> [S -> S]]
  PROVE  \E f : Iterates(f, S, s0, n, G)
  <1> DEFINE Upto(k) == \E f \in [0 .. k -> S] : f[0] = s0 /\ \A i \in 1 .. k : f[i] = G[i][f[i - 1]]
             T == {k \in 0 .. n : Upto(k)}
  <1>1. 0 \in T
    <2> DEFINE g == [i \in 0 .. 0 |-> s0]
    <2>1. g \in [0 .. 0 -> S] /\ g[0] = s0 /\ (1 .. 0) = {}
      OBVIOUS
    <2> HIDE DEF g
    <2>2. Upto(0)
      BY <2>1, Zenon
    <2>3. QED
      BY <2>2
  <1>2. ASSUME NEW k \in 1 .. n, k - 1 \in T
        PROVE  k \in T
    <2>1. PICK f \in [0 .. k - 1 -> S] : f[0] = s0 /\ \A i \in 1 .. k - 1 : f[i] = G[i][f[i - 1]]
      BY <1>2, Zenon
    <2> DEFINE g == [i \in 0 .. k |-> IF i = k THEN G[k][f[k - 1]] ELSE f[i]]
    <2>2. f[k - 1] \in S
      OBVIOUS
    <2>3. G[k][f[k - 1]] \in S
      BY <2>2, Zenon
    <2>4. g \in [0 .. k -> S]
      BY <2>3
    <2>5. g[0] = s0
      BY <2>1
    <2>6. \A i \in 1 .. k : g[i] = G[i][g[i - 1]]
      <3> TAKE i \in 1 .. k
      <3>1. CASE i = k
        <4>1. g[k - 1] = f[k - 1]
          OBVIOUS
        <4>2. QED
          BY <3>1, <4>1
      <3>2. CASE i # k
        <4>1. i \in 1 .. k - 1 /\ g[i] = f[i] /\ g[i - 1] = f[i - 1]
          BY <3>2
        <4>2. QED
          BY <4>1, <2>1, Zenon
      <3>3. QED
        BY <3>1, <3>2, Zenon
    <2> HIDE DEF g
    <2>7. Upto(k)
      BY <2>4, <2>5, <2>6, Zenon
    <2> HIDE DEF Upto
    <2>8. QED
      BY <2>7
  <1>3. n \in T
    <2> HIDE DEF T
    <2>1. \A i \in 0 .. n : i \in T
      BY <1>1, <1>2, IntervalInduction, Zenon
    <2>2. QED
      BY <2>1
  <1>4. PICK f \in [0 .. n -> S] : f[0] = s0 /\ \A i \in 1 .. n : f[i] = G[i][f[i - 1]]
    BY <1>3, Zenon
  <1>5. Iterates(f, S, s0, n, G)
    BY <1>4, Zenon DEF Iterates
  <1>6. QED
    BY <1>5, Zenon

\* A function on 0 .. n.
OnSteps(g, n) == g = [i \in 0 .. n |-> g[i]]

\* A function that obeys the same recursion, where it stays in S, iterates the steps.
LEMMA RunIterates ==
  ASSUME NEW S, NEW s0 \in S, NEW n \in Nat, NEW G \in [1 .. n -> [S -> S]],
         NEW g, OnSteps(g, n), g[0] = s0,
         \A i \in 1 .. n : g[i - 1] \in S => g[i] = G[i][g[i - 1]]
  PROVE  Iterates(g, S, s0, n, G)
  <1> DEFINE T == {i \in 0 .. n : g[i] \in S}
  <1>1. 0 \in T
    OBVIOUS
  <1>2. ASSUME NEW i \in 1 .. n, i - 1 \in T
        PROVE  i \in T
    <2>1. g[i - 1] \in S /\ G[i] \in [S -> S]
      BY <1>2, Zenon
    <2>2. QED
      BY <2>1
  <1>3. \A i \in 0 .. n : g[i] \in S
    <2> HIDE DEF T
    <2>1. \A i \in 0 .. n : i \in T
      BY <1>1, <1>2, IntervalInduction, Zenon
    <2>2. QED
      BY <2>1, Zenon DEF T
  <1>4. g \in [0 .. n -> S]
    BY <1>3, Zenon DEF OnSteps
  <1>5. ASSUME NEW i \in 1 .. n
        PROVE  g[i] = G[i][g[i - 1]]
    <2>1. i - 1 \in 0 .. n
      OBVIOUS
    <2>2. QED
      BY <1>3, <2>1, Zenon
  <1>6. QED
    BY <1>4, <1>5, Zenon DEF Iterates

-----------------------------------------------------------------------------
\* The states of the four loops.
SpendStates == [coins : [Tx -> CCoins], vprevout : Seq(CTxInUndo)]
ConnectStates == [ok : BOOLEAN, coins : [Tx -> CCoins], vtxundo : Seq(Seq(CTxInUndo))]
UndoStates == [clean : BOOLEAN, coins : [Tx -> CCoins]]

\* The empty entry is a CCoins.
LEMMA NullTyped ==
  Null \in CCoins
  BY Zenon DEF Null, CCoins

\* Spending an input keeps the types.
LEMMA SpendInputTyped ==
  ASSUME NEW w \in SpendStates, NEW out \in Tx \X Nat
  PROVE  SpendInput(w, out) \in SpendStates
  <1>1. w.coins \in [Tx -> CCoins] /\ w.vprevout \in Seq(CTxInUndo) /\ out[1] \in Tx /\ out[2] \in Nat
    BY Zenon DEF SpendStates
  <1>2. \A c \in CCoins, n \in Nat : Spend(c, n) \in CCoins /\ SpendUndo(c, n) \in CTxInUndo
    BY Zenon DEF Spend, SpendUndo, CCoins, CTxInUndo, Null
  <1>3. Spend(w.coins[out[1]], out[2]) \in CCoins /\ SpendUndo(w.coins[out[1]], out[2]) \in CTxInUndo
    BY <1>1, <1>2, Zenon
  <1>4. QED
    BY <1>1, <1>3 DEF SpendInput, SpendStates

\* The inputs of a transaction are spent one after the other.
SpendRun(w, m, t) ==
  /\ w \in [0 .. Len(vin[t]) -> SpendStates]
  /\ w[0] = [coins |-> m, vprevout |-> <<>>]
  /\ \A i \in 1 .. Len(vin[t]) : w[i] = SpendInput(w[i - 1], vin[t][i])
  /\ w[Len(vin[t])] = SpendInputs(m, t)

\* SpendInputs is such a run.
LEMMA SpendSteps ==
  ASSUME NEW m \in [Tx -> CCoins], NEW t \in Tx \ CoinBase
  PROVE  \E w : SpendRun(w, m, t)
  <1> DEFINE n == Len(vin[t])
             s0 == [coins |-> m, vprevout |-> <<>>]
             G == [i \in 1 .. n |-> [w \in SpendStates |-> SpendInput(w, vin[t][i])]]
             Over(f) == [i \in 0 .. n |->
                           IF i = 0 THEN s0 ELSE SpendInput(f[i - 1], vin[t][i])]
             g == CHOOSE f : f = Over(f)
  <1>1. n \in Nat /\ DOMAIN vin[t] = 1 .. n /\ \A i \in 1 .. n : vin[t][i] \in Tx \X Nat
    BY BlockAssumption
  <1>2. SpendInputs(m, t) = g[n]
    BY <1>1, Zenon DEF SpendInputs
  <1>3. s0 \in SpendStates
    BY DEF SpendStates
  <1>4. G \in [1 .. n -> [SpendStates -> SpendStates]]
    BY <1>1, SpendInputTyped, Zenon
  <1>5. \A i \in 1 .. n, w \in SpendStates : G[i][w] = SpendInput(w, vin[t][i])
    BY Zenon
  <1> HIDE DEF G, s0, n
  <1>6. \E f : f = Over(f)
    <2>1. PICK f : Iterates(f, SpendStates, s0, n, G)
      BY <1>1, <1>3, <1>4, Recursion, Zenon
    <2>2. f \in [0 .. n -> SpendStates] /\ f[0] = s0 /\ \A i \in 1 .. n : f[i] = G[i][f[i - 1]]
      BY <2>1, Zenon DEF Iterates
    <2>3. \A i \in 1 .. n : f[i] = SpendInput(f[i - 1], vin[t][i])
      BY <1>1, <1>5, <2>2
    <2>4. f = Over(f)
      BY <1>1, <2>2, <2>3
    <2>5. QED
      BY <2>4, Zenon
  <1>7. g = Over(g)
    BY <1>6, Zenon
  <1> HIDE DEF g
  <1>8. OnSteps(g, n) /\ g[0] = s0
    BY <1>1, <1>7 DEF OnSteps
  <1>9. \A i \in 1 .. n : g[i] = SpendInput(g[i - 1], vin[t][i])
    BY <1>1, <1>7
  <1>10. g \in [0 .. n -> SpendStates]
    <2>1. \A i \in 1 .. n : g[i - 1] \in SpendStates => g[i] = G[i][g[i - 1]]
      BY <1>5, <1>9, Zenon
    <2>2. Iterates(g, SpendStates, s0, n, G)
      BY <1>1, <1>3, <1>4, <1>8, <2>1, RunIterates, Zenon
    <2>3. QED
      BY <2>2, Zenon DEF Iterates
  <1>11. SpendRun(g, m, t)
    BY <1>2, <1>8, <1>9, <1>10, Zenon DEF n, s0, SpendRun
  <1>12. QED
    BY <1>11, Zenon

\* SpendInputs keeps the types.
LEMMA SpendInputsTyped ==
  ASSUME NEW m \in [Tx -> CCoins], NEW t \in Tx
  PROVE  SpendInputs(m, t) \in SpendStates
  <1>1. CASE t \in CoinBase
    BY <1>1 DEF SpendInputs, SpendStates
  <1>2. CASE t \notin CoinBase
    <2>1. Len(vin[t]) \in 0 .. Len(vin[t])
      BY BlockAssumption
    <2>2. PICK w : SpendRun(w, m, t)
      BY <1>2, SpendSteps, Zenon
    <2>3. QED
      BY <2>1, <2>2, Zenon DEF SpendRun
  <1>3. QED
    BY <1>1, <1>2, Zenon

\* Connecting a transaction keeps the types, whether or not it passes.
LEMMA ConnectTxTyped ==
  ASSUME NEW w \in ConnectStates, NEW t \in Tx, NEW h \in Nat
  PROVE  ConnectTx(w, t, h) \in ConnectStates
  <1> DEFINE s == SpendInputs(w.coins, t)
  <1>1. w.ok \in BOOLEAN /\ w.coins \in [Tx -> CCoins] /\ w.vtxundo \in Seq(Seq(CTxInUndo))
    BY Zenon DEF ConnectStates
  <1>2. s.coins \in [Tx -> CCoins] /\ s.vprevout \in Seq(CTxInUndo)
    BY <1>1, SpendInputsTyped, Zenon DEF SpendStates
  <1>3. FromTx(t, h) \in CCoins
    BY BlockAssumption DEF FromTx, Null, CCoins
  <1> HIDE DEF s
  <1>4. TxUndoAdded(w.vtxundo, t, s.vprevout) \in Seq(Seq(CTxInUndo))
    BY <1>1, <1>2 DEF TxUndoAdded
  <1>5. [s.coins EXCEPT ![t] = FromTx(t, h)] \in [Tx -> CCoins]
    BY <1>2, <1>3, Zenon
  <1>6. [ok |-> TRUE, coins |-> [s.coins EXCEPT ![t] = FromTx(t, h)],
         vtxundo |-> TxUndoAdded(w.vtxundo, t, s.vprevout)] \in ConnectStates
    BY <1>4, <1>5, Zenon DEF ConnectStates
  <1>7. [w EXCEPT !.ok = FALSE] \in ConnectStates
    BY Zenon DEF ConnectStates
  <1>8. QED
    BY <1>6, <1>7, Zenon DEF ConnectTx, s

\* ConnectBlock goes through the transactions of the block.
ConnectRun(w, m, b) ==
  /\ w \in [0 .. Len(vtx[b]) -> ConnectStates]
  /\ w[0] = [ok |-> TRUE, coins |-> m, vtxundo |-> <<>>]
  /\ \A i \in 1 .. Len(vtx[b]) : w[i] = ConnectTx(w[i - 1], vtx[b][i], nHeight[b])
  /\ ConnectBlock(m, b) = [w[Len(vtx[b])] EXCEPT !.ok = @ /\ b \notin BadBlock]

\* ConnectBlock is such a run.
LEMMA ConnectSteps ==
  ASSUME NEW m \in [Tx -> CCoins], NEW b \in Block
  PROVE  \E w : ConnectRun(w, m, b)
  <1> DEFINE n == Len(vtx[b])
             s0 == [ok |-> TRUE, coins |-> m, vtxundo |-> <<>>]
             G == [i \in 1 .. n |-> [w \in ConnectStates |-> ConnectTx(w, vtx[b][i], nHeight[b])]]
             Over(f) == [i \in 0 .. n |->
                           IF i = 0 THEN s0 ELSE ConnectTx(f[i - 1], vtx[b][i], nHeight[b])]
             g == CHOOSE f : f = Over(f)
  <1>1. n \in Nat /\ DOMAIN vtx[b] = 1 .. n /\ nHeight[b] \in Nat /\ \A i \in 1 .. n : vtx[b][i] \in Tx
    BY BlockAssumption, UndoAssumption
  <1>2. ConnectBlock(m, b) = [g[n] EXCEPT !.ok = @ /\ b \notin BadBlock]
    BY <1>1, Zenon DEF ConnectBlock
  <1>3. s0 \in ConnectStates
    BY DEF ConnectStates
  <1>4. G \in [1 .. n -> [ConnectStates -> ConnectStates]]
    BY <1>1, ConnectTxTyped, Zenon
  <1>5. \A i \in 1 .. n, w \in ConnectStates : G[i][w] = ConnectTx(w, vtx[b][i], nHeight[b])
    BY Zenon
  <1> HIDE DEF G, s0, n
  <1>6. \E f : f = Over(f)
    <2>1. PICK f : Iterates(f, ConnectStates, s0, n, G)
      BY <1>1, <1>3, <1>4, Recursion, Zenon
    <2>2. f \in [0 .. n -> ConnectStates] /\ f[0] = s0 /\ \A i \in 1 .. n : f[i] = G[i][f[i - 1]]
      BY <2>1, Zenon DEF Iterates
    <2>3. \A i \in 1 .. n : f[i] = ConnectTx(f[i - 1], vtx[b][i], nHeight[b])
      BY <1>1, <1>5, <2>2
    <2>4. f = Over(f)
      BY <1>1, <2>2, <2>3
    <2>5. QED
      BY <2>4, Zenon
  <1>7. g = Over(g)
    BY <1>6, Zenon
  <1> HIDE DEF g
  <1>8. OnSteps(g, n) /\ g[0] = s0
    BY <1>1, <1>7 DEF OnSteps
  <1>9. \A i \in 1 .. n : g[i] = ConnectTx(g[i - 1], vtx[b][i], nHeight[b])
    BY <1>1, <1>7
  <1>10. g \in [0 .. n -> ConnectStates]
    <2>1. \A i \in 1 .. n : g[i - 1] \in ConnectStates => g[i] = G[i][g[i - 1]]
      BY <1>5, <1>9
    <2>2. Iterates(g, ConnectStates, s0, n, G)
      BY <1>1, <1>3, <1>4, <1>8, <2>1, RunIterates, Zenon
    <2>3. QED
      BY <2>2, Zenon DEF Iterates
  <1>11. ConnectRun(g, m, b)
    BY <1>2, <1>8, <1>9, <1>10, Zenon DEF n, s0, ConnectRun
  <1>12. QED
    BY <1>11, Zenon

\* Restoring an input keeps the types.
LEMMA RestoreInputTyped ==
  ASSUME NEW w \in UndoStates, NEW out \in Tx \X Nat, NEW u \in CTxInUndo, NEW kept
  PROVE  RestoreInput(w, out, u, kept) \in UndoStates
  <1> DEFINE c == w.coins[out[1]]
             time == IF c = Null /\ out[1] \in kept THEN nTime[out[1]] ELSE c.nTime
             cleared == [Null EXCEPT !.fCoinBase = u.fCoinBase, !.nHeight = u.nHeight, !.nTime = time]
             base == IF u.nHeight # 0 THEN cleared ELSE c
             all == [base EXCEPT !.vout = @ \cup {out[2]}]
  <1>1. w.clean \in BOOLEAN /\ w.coins \in [Tx -> CCoins] /\ out[1] \in Tx /\ out[2] \in Nat
    BY Zenon DEF UndoStates
  <1>2. c \in CCoins /\ u.nHeight \in Nat /\ u.fCoinBase \in BOOLEAN
    BY <1>1, Zenon DEF CTxInUndo
  <1>3. time \in Nat
    BY <1>1, <1>2, BlockAssumption, Zenon DEF CCoins
  <1> HIDE DEF time, c
  <1>4. cleared \in CCoins
    BY <1>2, <1>3, Zenon DEF CCoins, Null
  <1>5. base \in CCoins
    BY <1>2, <1>4, Zenon
  <1> HIDE DEF base
  <1>6. all \in CCoins
    BY <1>1, <1>5, Zenon DEF CCoins
  <1> HIDE DEF all
  <1>7. [w.coins EXCEPT ![out[1]] = all] \in [Tx -> CCoins]
    BY <1>1, <1>6, Zenon
  <1>8. RestoreInput(w, out, u, kept)
          = [clean |-> w.clean /\ (u.nHeight # 0 <=> c = Null) /\ out[2] \notin base.vout,
             coins |-> [w.coins EXCEPT ![out[1]] = all]]
    BY Zenon DEF RestoreInput, all, base, c, time
  <1>9. QED
    BY <1>7, <1>8 DEF UndoStates

\* Undo data that fits block b.
UndoFits(u, b) ==
  \A i \in 2 .. Len(vtx[b]) : \A j \in 1 .. Len(vin[vtx[b][i]]) : u[i - 1][j] \in CTxInUndo

\* The outputs of transaction i of block b are removed; its input j is restored.
Removed(w, b, i) ==
  [clean |-> w.clean /\ Matches(w.coins[vtx[b][i]], vtx[b][i], nHeight[b]),
   coins |-> [w.coins EXCEPT ![vtx[b][i]] = Null]]
RestoreNth(w, b, i, j, kept) == RestoreInput(w, vin[vtx[b][i]][j], undo[b][i - 1][j], kept)

\* The order in which the inputs are restored.
Backward(b, i) == [k \in 1 .. Len(vin[vtx[b][i]]) |-> Len(vin[vtx[b][i]]) - k + 1]

\* The inputs of a transaction and the order in which they are restored.
LEMMA BackwardFacts ==
  ASSUME NEW b \in Block, NEW i \in 2 .. Len(vtx[b])
  PROVE  /\ Len(vin[vtx[b][i]]) \in Nat /\ vtx[b][i] \in Tx
         /\ \A j \in 1 .. Len(vin[vtx[b][i]]) : vin[vtx[b][i]][j] \in Tx \X Nat
         /\ DOMAIN Backward(b, i) = 1 .. Len(vin[vtx[b][i]])
         /\ \A k \in 1 .. Len(vin[vtx[b][i]]) : Backward(b, i)[k] = Len(vin[vtx[b][i]]) - k + 1
  <1>1. vtx[b] \in Seq(Tx) /\ Len(vtx[b]) \in Nat
    BY BlockAssumption
  <1>2. vtx[b][i] \in Tx
    BY <1>1
  <1>3. PICK v \in Seq(Tx \X Nat) : v = vin[vtx[b][i]]
    BY <1>2, BlockAssumption, Zenon
  <1>4. Len(v) \in Nat /\ \A j \in 1 .. Len(v) : v[j] \in Tx \X Nat
    OBVIOUS
  <1>5. Backward(b, i) = [k \in 1 .. Len(v) |-> Len(v) - k + 1]
    BY <1>3, Zenon DEF Backward
  <1>6. QED
    BY <1>2, <1>3, <1>4, <1>5, Zenon

\* The inputs of a transaction are restored from the last to the first.
RestoreRun(w, x, b, i, kept) ==
  /\ w \in [0 .. Len(vin[vtx[b][i]]) -> UndoStates]
  /\ w[0] = Removed(x, b, i)
  /\ \A k \in 1 .. Len(vin[vtx[b][i]]) : w[k] = RestoreNth(w[k - 1], b, i, Backward(b, i)[k], kept)
  /\ w[Len(vin[vtx[b][i]])] = DisconnectTx(x, b, i, kept)

\* DisconnectTx is such a run.
LEMMA RestoreSteps ==
  ASSUME NEW b \in Block, NEW i \in 2 .. Len(vtx[b]), UndoFits(undo[b], b), NEW x \in UndoStates, NEW kept
  PROVE  \E w : RestoreRun(w, x, b, i, kept)
  <1> DEFINE n == Len(vin[vtx[b][i]])
             s0 == Removed(x, b, i)
             G == [k \in 1 .. n |-> [w \in UndoStates |-> RestoreNth(w, b, i, Backward(b, i)[k], kept)]]
             Over(f) == [k \in 0 .. n |->
                           IF k = 0 THEN s0 ELSE RestoreNth(f[k - 1], b, i, Backward(b, i)[k], kept)]
             g == CHOOSE f : f = Over(f)
  <1>1. /\ n \in Nat /\ vtx[b][i] \in Tx /\ DOMAIN Backward(b, i) = 1 .. n /\ i # 1
        /\ \A k \in 1 .. n : Backward(b, i)[k] \in 1 .. n
        /\ \A j \in 1 .. n : vin[vtx[b][i]][j] \in Tx \X Nat
    <2>1. \A k \in 1 .. n : Backward(b, i)[k] = n - k + 1
      BY BackwardFacts, Zenon
    <2>2. n \in Nat /\ vtx[b][i] \in Tx /\ DOMAIN Backward(b, i) = 1 .. n
      BY BackwardFacts, Zenon
    <2>3. \A j \in 1 .. n : vin[vtx[b][i]][j] \in Tx \X Nat
      BY BackwardFacts, Zenon
    <2> HIDE DEF n
    <2>4. \A k \in 1 .. n : Backward(b, i)[k] \in 1 .. n
      BY <2>1, <2>2
    <2>5. i # 1
      OBVIOUS
    <2>6. QED
      BY <2>2, <2>3, <2>4, <2>5, Zenon
  <1>2. DisconnectTx(x, b, i, kept) = g[n]
    BY <1>1, Zenon DEF DisconnectTx, Removed, RestoreNth, Backward
  <1>3. s0 \in UndoStates
    BY <1>1, NullTyped, Zenon DEF UndoStates, Removed
  <1>4. G \in [1 .. n -> [UndoStates -> UndoStates]]
    <2>1. \A k \in 1 .. n : vin[vtx[b][i]][Backward(b, i)[k]] \in Tx \X Nat /\ undo[b][i - 1][Backward(b, i)[k]] \in CTxInUndo
      BY <1>1, Zenon DEF UndoFits
    <2>2. QED
      BY <2>1, RestoreInputTyped, Zenon DEF RestoreNth
  <1>5. \A k \in 1 .. n, w \in UndoStates : G[k][w] = RestoreNth(w, b, i, Backward(b, i)[k], kept)
    BY Zenon
  <1> HIDE DEF G, s0, n
  <1>6. \E f : f = Over(f)
    <2>1. PICK f : Iterates(f, UndoStates, s0, n, G)
      BY <1>1, <1>3, <1>4, Recursion, Zenon
    <2>2. f \in [0 .. n -> UndoStates] /\ f[0] = s0 /\ \A k \in 1 .. n : f[k] = G[k][f[k - 1]]
      BY <2>1, Zenon DEF Iterates
    <2>3. \A k \in 1 .. n : f[k] = RestoreNth(f[k - 1], b, i, Backward(b, i)[k], kept)
      <3> TAKE k \in 1 .. n
      <3>1. n \in Nat
        BY <1>1, Zenon
      <3>2. f[k - 1] \in UndoStates /\ f[k] = G[k][f[k - 1]]
        BY <2>2, <3>1
      <3>3. QED
        BY <1>5, <3>2, Zenon
    <2>4. f = Over(f)
      BY <1>1, <2>2, <2>3
    <2>5. QED
      BY <2>4, Zenon
  <1>7. g = Over(g)
    BY <1>6, Zenon
  <1> HIDE DEF g
  <1>8. OnSteps(g, n) /\ g[0] = s0
    BY <1>1, <1>7 DEF OnSteps
  <1>9. \A k \in 1 .. n : g[k] = RestoreNth(g[k - 1], b, i, Backward(b, i)[k], kept)
    <2> TAKE k \in 1 .. n
    <2>1. k \in 0 .. n /\ k # 0
      OBVIOUS
    <2>2. QED
      BY <1>7, <2>1, Zenon
  <1>10. g \in [0 .. n -> UndoStates]
    <2>1. \A k \in 1 .. n : g[k - 1] \in UndoStates => g[k] = G[k][g[k - 1]]
      BY <1>5, <1>9, Zenon
    <2>2. Iterates(g, UndoStates, s0, n, G)
      BY <1>1, <1>3, <1>4, <1>8, <2>1, RunIterates, Zenon
    <2>3. QED
      BY <2>2, Zenon DEF Iterates
  <1>11. RestoreRun(g, x, b, i, kept)
    BY <1>2, <1>8, <1>9, <1>10, Zenon DEF n, s0, RestoreRun
  <1>12. QED
    BY <1>11, Zenon

\* Undoing a transaction keeps the types.
LEMMA DisconnectTxTyped ==
  ASSUME NEW b \in Block, NEW i \in 1 .. Len(vtx[b]), UndoFits(undo[b], b), NEW x \in UndoStates, NEW kept
  PROVE  DisconnectTx(x, b, i, kept) \in UndoStates
  <1>1. CASE i = 1
    <2>1. DisconnectTx(x, b, i, kept) = Removed(x, b, i)
      BY <1>1, Zenon DEF DisconnectTx, Removed
    <2>2. x.clean \in BOOLEAN /\ x.coins \in [Tx -> CCoins] /\ vtx[b][i] \in Tx
      BY BlockAssumption DEF UndoStates
    <2>3. QED
      BY <2>1, <2>2, NullTyped DEF Removed, UndoStates
  <1>2. CASE i # 1
    <2>1. i \in 2 .. Len(vtx[b])
      BY <1>2
    <2>2. Len(vin[vtx[b][i]]) \in 0 .. Len(vin[vtx[b][i]])
      BY <2>1, BackwardFacts
    <2>3. PICK w : RestoreRun(w, x, b, i, kept)
      BY <2>1, RestoreSteps, Zenon
    <2>4. QED
      BY <2>2, <2>3, Zenon DEF RestoreRun
  <1>3. QED
    BY <1>1, <1>2, Zenon

\* The first transaction DisconnectBlock undoes in the order of the block, and the
\* order in which it goes through them.
First(b) == IF IsProofOfStake(b) THEN 2 ELSE 1
Undone(b) == Len(vtx[b]) - First(b) + 1

\* UndoOrder goes from the last transaction to the first one that is undone.
LEMMA UndoOrderFacts ==
  ASSUME NEW b \in Block \ {Genesis}
  PROVE  /\ Undone(b) \in Nat /\ First(b) \in 1 .. Len(vtx[b]) /\ Len(vtx[b]) \in Nat
         /\ DOMAIN UndoOrder(b) = 1 .. Undone(b) /\ Len(UndoOrder(b)) = Undone(b)
         /\ \A k \in 1 .. Undone(b) : UndoOrder(b)[k] = Len(vtx[b]) - k + 1
  <1>1. Len(vtx[b]) \in Nat /\ Len(vtx[b]) >= 1
    <2>1. vtx[b] \in Seq(Tx) /\ vtx[b] # <<>>
      BY BlockAssumption, Zenon
    <2>2. QED
      BY <2>1
  <1>2. First(b) \in 1 .. Len(vtx[b]) /\ Undone(b) \in Nat
    BY <1>1 DEF First, Undone, IsProofOfStake
  <1>3. UndoOrder(b) = [k \in 1 .. Undone(b) |-> Len(vtx[b]) - k + 1]
    BY Zenon DEF UndoOrder, First, Undone
  <1>4. UndoOrder(b) \in Seq(Int) /\ Len(UndoOrder(b)) = Undone(b)
    BY <1>1, <1>2, <1>3
  <1>5. QED
    BY <1>1, <1>2, <1>3, <1>4, Zenon

\* DisconnectBlock goes through the transactions from the last to the first.
DisconnectRun(w, m, b, kept) ==
  /\ w \in [0 .. Undone(b) -> UndoStates]
  /\ w[0] = [clean |-> TRUE, coins |-> m]
  /\ \A k \in 1 .. Undone(b) : w[k] = DisconnectTx(w[k - 1], b, UndoOrder(b)[k], kept)
  /\ w[Undone(b)] = DisconnectBlock(m, b, kept)

\* DisconnectBlock is such a run.
LEMMA DisconnectSteps ==
  ASSUME NEW b \in Block \ {Genesis}, UndoFits(undo[b], b), NEW m \in [Tx -> CCoins], NEW kept
  PROVE  \E w : DisconnectRun(w, m, b, kept)
  <1> DEFINE n == Undone(b)
             s0 == [clean |-> TRUE, coins |-> m]
             G == [k \in 1 .. n |-> [w \in UndoStates |-> DisconnectTx(w, b, UndoOrder(b)[k], kept)]]
             Over(f) == [k \in 0 .. n |->
                           IF k = 0 THEN s0 ELSE DisconnectTx(f[k - 1], b, UndoOrder(b)[k], kept)]
             g == CHOOSE f : f = Over(f)
  <1>1. n \in Nat /\ Len(UndoOrder(b)) = n /\ \A k \in 1 .. n : UndoOrder(b)[k] \in 1 .. Len(vtx[b])
    BY UndoOrderFacts DEF Undone
  <1>2. DisconnectBlock(m, b, kept) = g[n]
    BY <1>1, Zenon DEF DisconnectBlock
  <1>3. s0 \in UndoStates
    BY Zenon DEF UndoStates
  <1>4. G \in [1 .. n -> [UndoStates -> UndoStates]]
    BY <1>1, DisconnectTxTyped, Zenon
  <1>5. \A k \in 1 .. n, w \in UndoStates : G[k][w] = DisconnectTx(w, b, UndoOrder(b)[k], kept)
    BY Zenon
  <1> HIDE DEF G, s0, n
  <1>6. \E f : f = Over(f)
    <2>1. PICK f : Iterates(f, UndoStates, s0, n, G)
      BY <1>1, <1>3, <1>4, Recursion, Zenon
    <2>2. f \in [0 .. n -> UndoStates] /\ f[0] = s0 /\ \A k \in 1 .. n : f[k] = G[k][f[k - 1]]
      BY <2>1, Zenon DEF Iterates
    <2>3. \A k \in 1 .. n : f[k] = DisconnectTx(f[k - 1], b, UndoOrder(b)[k], kept)
      BY <1>1, <1>5, <2>2
    <2>4. f = Over(f)
      BY <1>1, <2>2, <2>3
    <2>5. QED
      BY <2>4, Zenon
  <1>7. g = Over(g)
    BY <1>6, Zenon
  <1> HIDE DEF g
  <1>8. OnSteps(g, n) /\ g[0] = s0
    BY <1>1, <1>7 DEF OnSteps
  <1>9. \A k \in 1 .. n : g[k] = DisconnectTx(g[k - 1], b, UndoOrder(b)[k], kept)
    BY <1>1, <1>7
  <1>10. g \in [0 .. n -> UndoStates]
    <2>1. \A k \in 1 .. n : g[k - 1] \in UndoStates => g[k] = G[k][g[k - 1]]
      BY <1>5, <1>9, Zenon
    <2>2. Iterates(g, UndoStates, s0, n, G)
      BY <1>1, <1>3, <1>4, <1>8, <2>1, RunIterates, Zenon
    <2>3. QED
      BY <2>2, Zenon DEF Iterates
  <1>11. DisconnectRun(g, m, b, kept)
    BY <1>2, <1>8, <1>9, <1>10, Zenon DEF n, s0, DisconnectRun
  <1>12. QED
    BY <1>11, Zenon

-----------------------------------------------------------------------------
\* What is left of transaction t when those in C were connected and the outputs in X spent.
Left(C, X, t) == IF t \in C THEN {n \in vout[t] : <<t, n>> \notin X} ELSE {}

\* c is the entry of t, connected at height h.  Undoing may have lost its timestamp.
Entry(c, t, left, h) ==
  IF left = {} THEN c = Null
  ELSE /\ c.vout = left /\ c.nHeight = h /\ c.nTime \in {0, nTime[t]}
       /\ c.fCoinBase = (t \in CoinBase) /\ c.fCoinStake = (t \in CoinStake)

\* The coins m when the transactions in C were connected at the heights H and the outputs
\* in X spent.  An undone coinbase of a proof-of-stake block may have left its entry.
State(m, C, X, H) ==
  /\ \A t \in Tx : IF t \in StakeCoinBase \ C THEN m[t].vout \subseteq vout[t]
                   ELSE Entry(m[t], t, Left(C, X, t), H[t])
  /\ \A out \in X : out[1] \in C /\ out \notin EmptyOutput

\* The undo data of the next output to be spent.
UndoEntry(C, X, out, H) ==
  IF Left(C, X, out[1]) = {out[2]} THEN [nHeight |-> H[out[1]], fCoinBase |-> out[1] \in CoinBase]
  ELSE [nHeight |-> 0, fCoinBase |-> FALSE]

\* out may be spent next.
Usable(C, X, out) ==
  out \in Tx \X Nat /\ out[1] \in C /\ out[2] \in vout[out[1]] /\ out \notin X /\ out \notin EmptyOutput

\* The empty outputs of coinstakes and of proof-of-stake coinbases.
LEMMA EmptyNotSpent ==
  ASSUME NEW t \in CoinStake \cup StakeCoinBase
  PROVE  <<t, 0>> \in EmptyOutput
  BY Zenon DEF EmptyOutput

\* out is the only output that spending it takes.
LeftLess(C, X, out, t) ==
  /\ t = out[1] => Left(C, X \cup {out}, t) = Left(C, X, t) \ {out[2]}
  /\ t # out[1] => Left(C, X \cup {out}, t) = Left(C, X, t)

\* Spending an output leaves one less, of its transaction only.
LEMMA LeftSpent ==
  ASSUME NEW C, NEW X, NEW out, Usable(C, X, out), NEW t \in Tx
  PROVE  LeftLess(C, X, out, t)
  <1>1. PICK s \in Tx, n \in Nat : out = <<s, n>>
    BY DEF Usable
  <1>2. out[1] = s /\ out[2] = n
    BY <1>1, Zenon
  <1>3. \A k \in vout[t] : <<t, k>> \in X \cup {out} <=> <<t, k>> \in X \/ (t = s /\ k = n)
    BY <1>1, Zenon
  <1>4. QED
    BY <1>2, <1>3, Zenon DEF Left, LeftLess

\* A transaction of which an output may be spent has an exact entry.
LEMMA UsableEntry ==
  ASSUME NEW m \in [Tx -> CCoins], NEW C, NEW X, NEW H, State(m, C, X, H),
         NEW out, Usable(C, X, out)
  PROVE  /\ out[1] \in Tx /\ out[2] \in Left(C, X, out[1])
         /\ Entry(m[out[1]], out[1], Left(C, X, out[1]), H[out[1]])
  <1>1. PICK s \in Tx, n \in Nat : out = <<s, n>>
    BY DEF Usable
  <1>2. out[1] = s /\ out[2] = n
    BY <1>1, Zenon
  <1>3. n \in Left(C, X, s)
    BY <1>1, <1>2, Zenon DEF Usable, Left
  <1>4. QED
    BY <1>2, <1>3, Zenon DEF Usable, State

SpendsTo(w, C, X, H, out) ==
  /\ State(SpendInput(w, out).coins, C, X \cup {out}, H)
  /\ SpendInput(w, out).vprevout = Append(w.vprevout, UndoEntry(C, X, out, H))

\* One input of a transaction spent, and the undo entry for it.
LEMMA SpendOne ==
  ASSUME NEW w \in SpendStates, NEW C, NEW X, NEW H, State(w.coins, C, X, H),
         NEW out, Usable(C, X, out)
  PROVE  SpendsTo(w, C, X, H, out)
  <1> DEFINE m == w.coins
             s == out[1]
             n == out[2]
             c == m[s]
             left == Left(C, X, s)
             k == [m EXCEPT ![s] = Spend(@, n)]
  <1>0. m \in [Tx -> CCoins]
    BY Zenon DEF SpendStates
  <1>1. s \in Tx /\ n \in left /\ Entry(c, s, left, H[s]) /\ c \in CCoins
    BY <1>0, UsableEntry, Zenon
  <1>2. c.vout = left /\ c.nHeight = H[s] /\ c.fCoinBase = (s \in CoinBase)
    BY <1>1, Zenon DEF Entry
  <1>3. SpendUndo(c, n) = UndoEntry(C, X, out, H)
    BY <1>2, Zenon DEF SpendUndo, UndoEntry
  <1>4. Entry(Spend(c, n), s, left \ {n}, H[s])
    <2>1. CASE left = {n}
      BY <2>1, <1>2, Zenon DEF Entry, Spend
    <2>2. CASE left # {n}
      <3>1. left \ {n} # {}
        BY <1>1, <2>2, Zenon
      <3>2. Spend(c, n) = [c EXCEPT !.vout = left \ {n}]
        BY <1>2, <2>2, Zenon DEF Spend
      <3> HIDE DEF left, c, n, s
      <3>3. QED
        BY <1>1, <3>1, <3>2, Zenon DEF Entry, CCoins
    <2>3. QED
      BY <2>1, <2>2, Zenon
  <1>5. \A t \in Tx : Left(C, X \cup {out}, t) = IF t = s THEN left \ {n} ELSE Left(C, X, t)
    <2> TAKE t \in Tx
    <2>1. LeftLess(C, X, out, t)
      BY LeftSpent, Zenon
    <2>2. QED
      BY <2>1, Zenon DEF LeftLess
  <1>6. s \in C /\ out \notin EmptyOutput
    BY Zenon DEF Usable
  <1>7. k[s] = Spend(c, n) /\ \A t \in Tx \ {s} : k[t] = m[t]
    BY <1>0, <1>1, Zenon
  <1> HIDE DEF k, s, n, c, left
  <1>8. State(k, C, X \cup {out}, H)
    <2>1. ASSUME NEW t \in Tx
          PROVE  IF t \in StakeCoinBase \ C THEN k[t].vout \subseteq vout[t]
                 ELSE Entry(k[t], t, Left(C, X \cup {out}, t), H[t])
      <3>1. CASE t = s
        BY <3>1, <1>4, <1>5, <1>6, <1>7, Zenon
      <3>2. CASE t # s
        <4>1. Left(C, X \cup {out}, t) = Left(C, X, t) /\ k[t] = m[t]
          BY <3>2, <1>5, <1>7, Zenon
        <4>2. IF t \in StakeCoinBase \ C THEN m[t].vout \subseteq vout[t]
              ELSE Entry(m[t], t, Left(C, X, t), H[t])
          BY Zenon DEF State
        <4>3. QED
          BY <4>1, <4>2, Zenon
      <3>3. QED
        BY <3>1, <3>2, Zenon
    <2>2. \A o \in X \cup {out} : o[1] \in C /\ o \notin EmptyOutput
      BY <1>6, Zenon DEF State, s
    <2>3. QED
      BY <2>1, <2>2, Zenon DEF State
  <1>9. SpendInput(w, out) = [coins |-> k, vprevout |-> Append(w.vprevout, SpendUndo(c, n))]
    BY Zenon DEF SpendInput, k, s, n, c
  <1>10. QED
    BY <1>3, <1>8, <1>9 DEF SpendsTo

\* RestoreInput finds what it expects and leaves the coins as they were before out was spent.
Restores(w, out, C, X, H, kept) ==
  LET r == RestoreInput(w, out, UndoEntry(C, X, out, H), kept)
  IN r.clean = w.clean /\ State(r.coins, C, X, H)

\* An input restored from its undo entry, after the output was spent.
LEMMA RestoreOne ==
  ASSUME NEW w \in UndoStates, NEW C, NEW X, NEW H, NEW out, Usable(C, X, out), NEW Y, Y = X \cup {out},
         State(w.coins, C, Y, H), H[out[1]] \in Nat \ {0}, NEW kept
  PROVE  Restores(w, out, C, X, H, kept)
  <1> DEFINE u == UndoEntry(C, X, out, H)
             r == RestoreInput(w, out, u, kept)
             s == out[1]
             n == out[2]
             c == w.coins[s]
             left == Left(C, X, s)
             time == IF c = Null /\ s \in kept THEN nTime[s] ELSE c.nTime
             cleared == [Null EXCEPT !.fCoinBase = u.fCoinBase, !.nHeight = u.nHeight, !.nTime = time]
             base == IF u.nHeight # 0 THEN cleared ELSE c
             all == [base EXCEPT !.vout = @ \cup {n}]
  <1>1. w.clean \in BOOLEAN /\ w.coins \in [Tx -> CCoins]
    BY Zenon DEF UndoStates
  <1>2. s \in Tx /\ n \in Nat /\ s \in C /\ n \in left /\ n \in vout[s] /\ c \in CCoins
    <2>1. PICK a \in Tx, k \in Nat : out = <<a, k>>
      BY DEF Usable
    <2>2. out[1] = a /\ out[2] = k
      BY <2>1, Zenon
    <2>3. k \in Left(C, X, a)
      BY <2>1, <2>2, Zenon DEF Usable, Left
    <2>4. QED
      BY <1>1, <2>2, <2>3, Zenon DEF Usable
  <1>3. \A t \in Tx : Left(C, X \cup {out}, t) = IF t = s THEN left \ {n} ELSE Left(C, X, t)
    <2> TAKE t \in Tx
    <2>1. LeftLess(C, X, out, t)
      BY LeftSpent, Zenon
    <2>2. QED
      BY <2>1, Zenon DEF LeftLess
  <1>4. Entry(c, s, left \ {n}, H[s])
    BY <1>2, <1>3, Zenon DEF State
  <1>5. r = [clean |-> w.clean /\ (u.nHeight # 0 <=> c = Null) /\ n \notin base.vout,
             coins |-> [w.coins EXCEPT ![s] = all]]
    BY Zenon DEF RestoreInput
  <1>6. (u.nHeight # 0 <=> c = Null) /\ n \notin base.vout /\ Entry(all, s, left, H[s])
    <2>1. CASE left = {n}
      <3>1. c = Null
        BY <2>1, <1>4, Zenon DEF Entry
      <3>2. u.nHeight = H[s] /\ u.fCoinBase = (s \in CoinBase)
        BY <2>1, Zenon DEF UndoEntry
      <3>3. s \notin CoinStake
        <4>1. SUFFICES ASSUME s \in CoinStake PROVE FALSE
          BY Zenon
        <4>2. 0 \in vout[s] /\ <<s, 0>> \in EmptyOutput
          BY <4>1, EmptyAssumption, EmptyNotSpent, Zenon
        <4>3. <<s, 0>> \notin X
          BY <4>2, Zenon DEF State
        <4>4. 0 \in left
          BY <1>2, <4>2, <4>3, Zenon DEF Left
        <4>5. n = 0
          BY <2>1, <4>4, Zenon
        <4>6. out = <<s, n>>
          BY DEF Usable
        <4>7. QED
          BY <4>2, <4>5, <4>6, Zenon DEF Usable
      <3>4. time \in {0, nTime[s]}
        BY <3>1 DEF Null
      <3> HIDE DEF u, time, s, n, left, c
      <3> DEFINE f == s \in CoinBase
      <3>5. f \in BOOLEAN /\ u.fCoinBase = f
        BY <3>2
      <3> HIDE DEF f
      <3>6. base = [fCoinBase |-> f, fCoinStake |-> FALSE, nTime |-> time, nHeight |-> H[s], vout |-> {}]
        BY <3>2, <3>5, Zenon DEF Null, s
      <3> HIDE DEF base
      <3>7. /\ all.vout = {n} /\ all.nHeight = H[s] /\ all.nTime = time
            /\ all.fCoinBase = f /\ all.fCoinStake = FALSE
        BY <3>6, Zenon
      <3> HIDE DEF all
      <3>8. Entry(all, s, left, H[s])
        <4>1. left # {} /\ (s \in CoinStake) = FALSE
          BY <2>1, <3>3
        <4>2. QED
          BY <2>1, <3>4, <3>7, <4>1, Zenon DEF Entry, f
      <3>9. u.nHeight # 0
        BY <3>2, Zenon DEF s
      <3>10. QED
        BY <3>1, <3>6, <3>8, <3>9, Zenon
    <2>2. CASE left # {n}
      <3>1. left \ {n} # {}
        BY <1>2, <2>2, Zenon
      <3>2. u.nHeight = 0
        BY <2>2, Zenon DEF UndoEntry
      <3>3. base = c
        BY <3>2, Zenon
      <3> HIDE DEF base, u, c, left, n, s
      <3>4. /\ c.vout = left \ {n} /\ c.nHeight = H[s] /\ c.nTime \in {0, nTime[s]}
            /\ c.fCoinBase = (s \in CoinBase) /\ c.fCoinStake = (s \in CoinStake)
        BY <1>4, <3>1, Zenon DEF Entry
      <3>5. c # Null
        BY <3>1, <3>4 DEF Null
      <3>6. all.vout = left /\ all = [c EXCEPT !.vout = left]
        BY <1>2, <3>3, <3>4, Zenon DEF CCoins
      <3>7. Entry(all, s, left, H[s])
        BY <1>2, <3>4, <3>6, Zenon DEF Entry, CCoins
      <3>8. QED
        BY <3>2, <3>3, <3>4, <3>5, <3>7, Zenon
    <2>3. QED
      BY <2>1, <2>2, Zenon
  <1> HIDE DEF u, all, base, c
  <1>7. r.clean = w.clean
    BY <1>1, <1>5, <1>6
  <1>8. r.coins[s] = all /\ \A t \in Tx \ {s} : r.coins[t] = w.coins[t]
    BY <1>1, <1>2, <1>5
  <1> HIDE DEF r, s, n, left
  <1>9. State(r.coins, C, X, H)
    <2>1. ASSUME NEW t \in Tx
          PROVE  IF t \in StakeCoinBase \ C THEN r.coins[t].vout \subseteq vout[t]
                 ELSE Entry(r.coins[t], t, Left(C, X, t), H[t])
      <3>1. CASE t = s
        BY <3>1, <1>2, <1>6, <1>8, Zenon DEF left
      <3>2. CASE t # s
        <4>1. Left(C, X \cup {out}, t) = Left(C, X, t) /\ r.coins[t] = w.coins[t]
          BY <3>2, <1>3, <1>8, Zenon
        <4>2. IF t \in StakeCoinBase \ C THEN w.coins[t].vout \subseteq vout[t]
              ELSE Entry(w.coins[t], t, Left(C, X \cup {out}, t), H[t])
          BY Zenon DEF State
        <4>3. QED
          BY <4>1, <4>2, Zenon
      <3>3. QED
        BY <3>1, <3>2, Zenon
    <2>2. QED
      BY <2>1, Zenon DEF State
  <1>10. QED
    BY <1>7, <1>9, Zenon DEF r, u, Restores

\* All outputs of a new transaction are left.
LEMMA LeftCreated ==
  ASSUME NEW C, NEW X, \A out \in X : out[1] \in C, NEW s \in Tx \ C
  PROVE  /\ Left(C \cup {s}, X, s) = vout[s]
         /\ \A t \in Tx \ {s} : Left(C \cup {s}, X, t) = Left(C, X, t)
  <1>1. \A n \in vout[s] : <<s, n>> \notin X
    BY Zenon
  <1>2. QED
    BY <1>1, Zenon DEF Left

Creates(m, s, D, X, H) == State([m EXCEPT ![s] = FromTx(s, H[s])], D, X, H)

\* A transaction new to the chain gets its entry, over whatever was there.
LEMMA CreateOne ==
  ASSUME NEW m \in [Tx -> CCoins], NEW C, NEW X, NEW H, State(m, C, X, H), NEW s \in Tx \ C,
         NEW D, D = C \cup {s}
  PROVE  Creates(m, s, D, X, H)
  <1> DEFINE k == [m EXCEPT ![s] = FromTx(s, H[s])]
  <1>1. k[s] = FromTx(s, H[s]) /\ \A t \in Tx \ {s} : k[t] = m[t]
    BY Zenon
  <1> HIDE DEF k
  <1>2. \A out \in X : out[1] \in C /\ out \notin EmptyOutput
    BY Zenon DEF State
  <1>0. /\ Left(C \cup {s}, X, s) = vout[s]
        /\ \A t \in Tx \ {s} : Left(C \cup {s}, X, t) = Left(C, X, t)
    <2>1. \A out \in X : out[1] \in C
      BY <1>2, Zenon
    <2>2. QED
      BY <2>1, LeftCreated
  <1>3. ASSUME NEW t \in Tx
        PROVE  IF t \in StakeCoinBase \ (C \cup {s}) THEN k[t].vout \subseteq vout[t]
               ELSE Entry(k[t], t, Left(C \cup {s}, X, t), H[t])
    <2>1. CASE t = s
      <3>1. Left(C \cup {s}, X, s) = vout[s]
        BY <1>0, Zenon
      <3>2. Entry(k[s], s, vout[s], H[s])
        BY <1>1 DEF Entry, FromTx
      <3>3. QED
        BY <2>1, <3>1, <3>2, Zenon
    <2>2. CASE t # s
      <3>1. Left(C \cup {s}, X, t) = Left(C, X, t) /\ k[t] = m[t]
        BY <2>2, <1>1, <1>0, Zenon
      <3>2. IF t \in StakeCoinBase \ C THEN m[t].vout \subseteq vout[t]
            ELSE Entry(m[t], t, Left(C, X, t), H[t])
        BY Zenon DEF State
      <3>3. QED
        BY <2>2, <3>1, <3>2, Zenon
    <2>3. QED
      BY <2>1, <2>2, Zenon
  <1>4. QED
    BY <1>2, <1>3, Zenon DEF State, k, Creates

Uncreates(m, s, C, X, H) == Matches(m[s], s, H[s]) /\ State([m EXCEPT ![s] = Null], C, X, H)

\* A transaction of which nothing was spent matches its entry, and loses it.
LEMMA UncreateOne ==
  ASSUME NEW m \in [Tx -> CCoins], NEW C, NEW X, NEW H, NEW s \in Tx \ C, NEW D, D = C \cup {s},
         State(m, D, X, H), \A out \in X : out[1] \in C
  PROVE  Uncreates(m, s, C, X, H)
  <1> DEFINE k == [m EXCEPT ![s] = Null]
             c == m[s]
  <1>1. k[s] = Null /\ c \in CCoins /\ \A t \in Tx \ {s} : k[t] = m[t]
    BY Zenon
  <1> HIDE DEF k
  <1>2. /\ Left(C \cup {s}, X, s) = vout[s]
        /\ \A t \in Tx \ {s} : Left(C \cup {s}, X, t) = Left(C, X, t)
    BY LeftCreated
  <1>3. Entry(c, s, vout[s], H[s])
    BY <1>2, Zenon DEF State
  <1>4. Matches(c, s, H[s])
    <2>1. CASE vout[s] = {}
      BY <2>1, <1>3, Zenon DEF Entry, Matches, FromTx
    <2>2. CASE vout[s] # {}
      <3>1. /\ c.vout = vout[s] /\ c.nHeight = H[s] /\ c.nTime \in {0, nTime[s]}
            /\ c.fCoinBase = (s \in CoinBase) /\ c.fCoinStake = (s \in CoinStake)
        BY <2>2, <1>3, Zenon DEF Entry
      <3>2. c # Null
        BY <2>2, <3>1 DEF Null
      <3> DEFINE fixed == IF c.nTime = 0 /\ c # Null THEN [c EXCEPT !.nTime = nTime[s]] ELSE c
      <3> HIDE DEF c
      <3>3. fixed = [fCoinBase |-> c.fCoinBase, fCoinStake |-> c.fCoinStake,
                     nTime |-> nTime[s], nHeight |-> c.nHeight, vout |-> c.vout]
        BY <1>1, <3>1, <3>2, Zenon DEF CCoins
      <3> HIDE DEF fixed
      <3>4. fixed = FromTx(s, H[s])
        BY <2>2, <3>1, <3>3, Zenon DEF FromTx
      <3>5. QED
        BY <3>4, Zenon DEF Matches, fixed
    <2>3. QED
      BY <2>1, <2>2, Zenon
  <1>5. ASSUME NEW t \in Tx
        PROVE  IF t \in StakeCoinBase \ C THEN k[t].vout \subseteq vout[t]
               ELSE Entry(k[t], t, Left(C, X, t), H[t])
    <2>1. CASE t = s
      <3>1. Left(C, X, s) = {}
        BY Zenon DEF Left
      <3>2. QED
        BY <2>1, <3>1, <1>1 DEF Entry, Null
    <2>2. CASE t # s
      <3>1. Left(C \cup {s}, X, t) = Left(C, X, t) /\ k[t] = m[t]
        BY <2>2, <1>1, <1>2, Zenon
      <3>2. IF t \in StakeCoinBase \ (C \cup {s}) THEN m[t].vout \subseteq vout[t]
            ELSE Entry(m[t], t, Left(C \cup {s}, X, t), H[t])
        BY Zenon DEF State
      <3>3. QED
        BY <2>2, <3>1, <3>2, Zenon
    <2>3. QED
      BY <2>1, <2>2, Zenon
  <1>6. QED
    BY <1>4, <1>5, Zenon DEF State, k, Uncreates

\* The coinbase of a proof-of-stake block may keep its entry when the block is undone.
LEMMA PassOver ==
  ASSUME NEW m, NEW C, NEW X, NEW H, NEW s \in (Tx \cap StakeCoinBase) \ C, NEW D, D = C \cup {s},
         State(m, D, X, H), \A out \in X : out[1] \in C
  PROVE  State(m, C, X, H)
  <1>0. /\ Left(C \cup {s}, X, s) = vout[s]
        /\ \A t \in Tx \ {s} : Left(C \cup {s}, X, t) = Left(C, X, t)
    <2>1. s \in Tx \ C
      BY Zenon
    <2>2. QED
      BY <2>1, LeftCreated
  <1>1. m[s].vout \subseteq vout[s]
    <2>1. Entry(m[s], s, vout[s], H[s])
      BY <1>0, Zenon DEF State
    <2>2. QED
      BY <2>1 DEF Entry, Null
  <1>2. ASSUME NEW t \in Tx
        PROVE  IF t \in StakeCoinBase \ C THEN m[t].vout \subseteq vout[t]
               ELSE Entry(m[t], t, Left(C, X, t), H[t])
    <2>1. CASE t = s
      BY <2>1, <1>1, Zenon
    <2>2. CASE t # s
      <3>1. Left(C \cup {s}, X, t) = Left(C, X, t)
        BY <2>2, <1>0, Zenon
      <3>2. IF t \in StakeCoinBase \ (C \cup {s}) THEN m[t].vout \subseteq vout[t]
            ELSE Entry(m[t], t, Left(C \cup {s}, X, t), H[t])
        BY Zenon DEF State
      <3>3. QED
        BY <2>2, <3>1, <3>2, Zenon
    <2>3. QED
      BY <2>1, <2>2, Zenon
  <1>3. QED
    BY <1>2, Zenon DEF State

\* Only the heights of connected transactions matter.
LEMMA SameHeights ==
  ASSUME NEW m, NEW C, NEW X, NEW H, NEW K, State(m, C, X, H), \A t \in C : H[t] = K[t]
  PROVE  State(m, C, X, K)
  <1>1. ASSUME NEW t \in Tx
        PROVE  IF t \in StakeCoinBase \ C THEN m[t].vout \subseteq vout[t]
               ELSE Entry(m[t], t, Left(C, X, t), K[t])
    <2>1. CASE t \in C
      BY <2>1, Zenon DEF State
    <2>2. CASE t \notin C
      <3>1. Left(C, X, t) = {}
        BY <2>2, Zenon DEF Left
      <3>2. IF t \in StakeCoinBase \ C THEN m[t].vout \subseteq vout[t]
            ELSE Entry(m[t], t, Left(C, X, t), H[t])
        BY Zenon DEF State
      <3>3. QED
        BY <3>1, <3>2, Zenon DEF Entry
    <2>3. QED
      BY <2>1, <2>2, Zenon
  <1>2. QED
    BY <1>1, Zenon DEF State

-----------------------------------------------------------------------------
\* The transactions connected, and the outputs spent, after the first i transactions of
\* block b; and after j inputs of transaction i.
Made(b, i) == TxsOf[pprev[b]] \cup {vtx[b][j] : j \in 1 .. i}
Gone(b, i) == Spent[pprev[b]] \cup UNION {Range(vin[vtx[b][j]]) : j \in 2 .. i}
GoneIn(b, i, j) == Gone(b, i - 1) \cup {vin[vtx[b][i]][k] : k \in 1 .. j}

\* The coins m are the state after block b.
StateAt(m, b) == State(m, TxsOf[b], Spent[b], HeightIn[b])

\* The chain to b spends outputs of its own transactions.
Closed(b) == \A out \in Spent[b] : out[1] \in TxsOf[b]

\* u is the undo data of block b that its chain determines.
UndoRight(u, b) ==
  \A i \in 2 .. Len(vtx[b]) : \A j \in 1 .. Len(vin[vtx[b][i]]) :
    u[i - 1][j] = UndoEntry(Made(b, i - 1), GoneIn(b, i, j - 1), vin[vtx[b][i]][j], HeightIn[b])

\* What is assumed of a block and its transactions.
LEMMA BlockFacts ==
  ASSUME NEW b \in Block \ {Genesis}
  PROVE  /\ pprev[b] \in Block /\ nHeight[b] \in Nat \ {0}
         /\ Len(vtx[b]) \in Nat \ {0} /\ DOMAIN vtx[b] = 1 .. Len(vtx[b])
         /\ \A i \in 1 .. Len(vtx[b]) : vtx[b][i] \in Tx /\ (vtx[b][i] \in CoinBase <=> i = 1)
         /\ \A i, j \in 1 .. Len(vtx[b]) : vtx[b][i] = vtx[b][j] => i = j
  <1>1. b \in Block /\ b # Genesis
    BY Zenon
  <1>2. pprev[b] \in Block /\ nHeight[b] = nHeight[pprev[b]] + 1 /\ nHeight[pprev[b]] \in Nat
    BY <1>1, UndoAssumption, Zenon
  <1>3. vtx[b] \in Seq(Tx) /\ vtx[b] # <<>>
    BY <1>1, BlockAssumption, Zenon
  <1>4. Len(vtx[b]) \in Nat \ {0} /\ DOMAIN vtx[b] = 1 .. Len(vtx[b])
    BY <1>3
  <1>5. \A i \in 1 .. Len(vtx[b]) : vtx[b][i] \in Tx
    BY <1>3
  <1>6. \A i \in DOMAIN vtx[b] : (vtx[b][i] \in CoinBase) <=> (i = 1)
    BY <1>1, BlockAssumption, Zenon
  <1>7. \A i, j \in DOMAIN vtx[b] : vtx[b][i] = vtx[b][j] => i = j
    BY <1>1, BlockAssumption, Zenon
  <1>8. \A i \in 1 .. Len(vtx[b]) : vtx[b][i] \in Tx /\ (vtx[b][i] \in CoinBase <=> i = 1)
    BY <1>4, <1>5, <1>6, Zenon
  <1>9. \A i, j \in 1 .. Len(vtx[b]) : vtx[b][i] = vtx[b][j] => i = j
    BY <1>4, <1>7, Zenon
  <1>10. nHeight[b] \in Nat \ {0}
    BY <1>2
  <1>11. QED
    BY <1>2, <1>4, <1>8, <1>9, <1>10, Zenon

\* What is assumed of the inputs of a transaction.
LEMMA InputFacts ==
  ASSUME NEW t \in Tx
  PROVE  /\ Len(vin[t]) \in Nat /\ DOMAIN vin[t] = 1 .. Len(vin[t])
         /\ \A j \in 1 .. Len(vin[t]) : vin[t][j] \in Tx \X Nat
         /\ \A i, j \in 1 .. Len(vin[t]) : vin[t][i] = vin[t][j] => i = j
         /\ Range(vin[t]) = {vin[t][j] : j \in 1 .. Len(vin[t])}
  <1>1. vin[t] \in Seq(Tx \X Nat)
    BY BlockAssumption, Zenon
  <1>2. Len(vin[t]) \in Nat /\ DOMAIN vin[t] = 1 .. Len(vin[t])
    BY <1>1
  <1>3. \A j \in 1 .. Len(vin[t]) : vin[t][j] \in Tx \X Nat
    BY <1>1
  <1>4. Range(vin[t]) = {vin[t][j] : j \in 1 .. Len(vin[t])}
    BY <1>2, Zenon DEF Range
  <1>5. \A i, j \in DOMAIN vin[t] : vin[t][i] = vin[t][j] => i = j
    BY BlockAssumption, Zenon
  <1>6. QED
    BY <1>2, <1>3, <1>4, <1>5, Zenon

\* The transactions connected, one by one.
LEMMA MadeFacts ==
  ASSUME NEW b \in Block \ {Genesis}
  PROVE  /\ Made(b, 0) = TxsOf[pprev[b]] /\ Made(b, Len(vtx[b])) = TxsOf[b]
         /\ \A i \in 1 .. Len(vtx[b]) : Made(b, i) = Made(b, i - 1) \cup {vtx[b][i]}
  <1>1. Len(vtx[b]) \in Nat \ {0} /\ DOMAIN vtx[b] = 1 .. Len(vtx[b]) /\ pprev[b] \in Block
    BY BlockFacts, Zenon
  <1>2. Made(b, 0) = TxsOf[pprev[b]]
    BY DEF Made
  <1>3. TxsOf[b] = TxsOf[pprev[b]] \cup Range(vtx[b])
    <2>1. Chain[b] \ {Genesis} = (Chain[pprev[b]] \ {Genesis}) \cup {b}
      BY UndoAssumption, Zenon
    <2>2. TxsOf[b] = UNION {Range(vtx[x]) : x \in Chain[b] \ {Genesis}}
      BY Zenon DEF TxsOf
    <2>3. TxsOf[pprev[b]] = UNION {Range(vtx[x]) : x \in Chain[pprev[b]] \ {Genesis}}
      BY <1>1, Zenon DEF TxsOf
    <2>4. QED
      BY <2>1, <2>2, <2>3, Zenon
  <1>4. Made(b, Len(vtx[b])) = TxsOf[b]
    BY <1>1, <1>3, Zenon DEF Made, Range
  <1>5. ASSUME NEW i \in 1 .. Len(vtx[b])
        PROVE  Made(b, i) = Made(b, i - 1) \cup {vtx[b][i]}
    <2>1. 1 .. i = (1 .. i - 1) \cup {i}
      BY <1>1
    <2>2. QED
      BY <2>1, Zenon DEF Made
  <1>6. QED
    BY <1>2, <1>4, <1>5, Zenon

\* No transaction of an ordinary block is there before, and none of its inputs is empty.
LEMMA OrdinaryFacts ==
  ASSUME NEW b \in Block \ {Genesis}, b \in Ordinary
  PROVE  /\ \A i \in 1 .. Len(vtx[b]) : vtx[b][i] \notin Made(b, i - 1)
         /\ \A i \in 2 .. Len(vtx[b]) : \A j \in 1 .. Len(vin[vtx[b][i]]) :
              vin[vtx[b][i]][j] \notin EmptyOutput
  <1>1. /\ Len(vtx[b]) \in Nat \ {0} /\ DOMAIN vtx[b] = 1 .. Len(vtx[b]) /\ pprev[b] \in Block
        /\ \A i \in 1 .. Len(vtx[b]) : vtx[b][i] \in Tx /\ (vtx[b][i] \in CoinBase <=> i = 1)
    BY BlockFacts, Zenon
  <1>2. ASSUME NEW i \in 1 .. Len(vtx[b])
        PROVE  vtx[b][i] \notin Made(b, i - 1)
    <2>1. i \notin 1 .. i - 1 /\ 1 .. i - 1 \subseteq 1 .. Len(vtx[b])
      BY <1>1
    <2>2. vtx[b][i] \notin TxsOf[pprev[b]]
      <3>1. vtx[b][i] \in Range(vtx[b])
        BY <1>1, Zenon DEF Range
      <3>2. \A x \in Chain[pprev[b]] : Range(vtx[b]) \cap Range(vtx[x]) = {}
        BY Zenon DEF Ordinary
      <3>3. QED
        BY <1>1, <3>1, <3>2, Zenon DEF TxsOf
    <2>3. \A j \in 1 .. i - 1 : vtx[b][j] # vtx[b][i]
      BY <2>1, BlockFacts, Zenon
    <2>4. QED
      BY <2>2, <2>3, Zenon DEF Made
  <1>3. ASSUME NEW i \in 2 .. Len(vtx[b]), NEW j \in 1 .. Len(vin[vtx[b][i]])
        PROVE  vin[vtx[b][i]][j] \notin EmptyOutput
    <2>1. i \in 1 .. Len(vtx[b]) /\ i # 1
      BY <1>1
    <2>2. vtx[b][i] \in Tx /\ vtx[b][i] \in Range(vtx[b]) \ CoinBase
      BY <1>1, <2>1, Zenon DEF Range
    <2>3. PICK t : t = vtx[b][i]
      BY Zenon
    <2>4. Range(vin[t]) = {vin[t][k] : k \in 1 .. Len(vin[t])} /\ j \in 1 .. Len(vin[t])
      <3>1. t \in Tx
        BY <2>2, <2>3, Zenon
      <3>2. Range(vin[t]) = {vin[t][k] : k \in 1 .. Len(vin[t])}
        BY <3>1, InputFacts, Zenon
      <3>3. QED
        BY <2>3, <3>2, Zenon
    <2>5. vin[t][j] \in Inputs[b]
      BY <2>2, <2>3, <2>4, Zenon DEF Inputs
    <2>6. QED
      BY <2>3, <2>5, Zenon DEF Ordinary
  <1>4. QED
    BY <1>2, <1>3, Zenon

\* The outputs spent, transaction by transaction and input by input.
LEMMA GoneFacts ==
  ASSUME NEW b \in Block \ {Genesis}
  PROVE  /\ Gone(b, 0) = Spent[pprev[b]] /\ Gone(b, 1) = Spent[pprev[b]] /\ Gone(b, Len(vtx[b])) = Spent[b]
         /\ \A i \in 2 .. Len(vtx[b]) :
              /\ Gone(b, i) = Gone(b, i - 1) \cup Range(vin[vtx[b][i]])
              /\ GoneIn(b, i, 0) = Gone(b, i - 1)
              /\ GoneIn(b, i, Len(vin[vtx[b][i]])) = Gone(b, i)
              /\ \A j \in 1 .. Len(vin[vtx[b][i]]) :
                   GoneIn(b, i, j) = GoneIn(b, i, j - 1) \cup {vin[vtx[b][i]][j]}
  <1>1. /\ Len(vtx[b]) \in Nat \ {0} /\ DOMAIN vtx[b] = 1 .. Len(vtx[b]) /\ pprev[b] \in Block
        /\ \A i \in 1 .. Len(vtx[b]) : vtx[b][i] \in Tx /\ (vtx[b][i] \in CoinBase <=> i = 1)
    BY BlockFacts, Zenon
  <1>2. Gone(b, 0) = Spent[pprev[b]] /\ Gone(b, 1) = Spent[pprev[b]]
    BY DEF Gone
  <1>3. Spent[b] = Spent[pprev[b]] \cup Inputs[b]
    <2>1. Chain[b] \ {Genesis} = (Chain[pprev[b]] \ {Genesis}) \cup {b}
      BY UndoAssumption, Zenon
    <2>2. Spent[b] = UNION {Inputs[x] : x \in Chain[b] \ {Genesis}}
      BY Zenon DEF Spent
    <2>3. Spent[pprev[b]] = UNION {Inputs[x] : x \in Chain[pprev[b]] \ {Genesis}}
      BY <1>1, Zenon DEF Spent
    <2>4. QED
      BY <2>1, <2>2, <2>3, Zenon
  <1>4. Inputs[b] = UNION {Range(vin[vtx[b][j]]) : j \in 2 .. Len(vtx[b])}
    <2>1. Range(vtx[b]) \ CoinBase = {vtx[b][j] : j \in 2 .. Len(vtx[b])}
      BY <1>1 DEF Range
    <2>2. Inputs[b] = UNION {Range(vin[t]) : t \in Range(vtx[b]) \ CoinBase}
      BY Zenon DEF Inputs
    <2>3. QED
      BY <2>1, <2>2
  <1>5. Gone(b, Len(vtx[b])) = Spent[b]
    BY <1>3, <1>4, Zenon DEF Gone
  <1>6. ASSUME NEW i \in 2 .. Len(vtx[b])
        PROVE  /\ Gone(b, i) = Gone(b, i - 1) \cup Range(vin[vtx[b][i]])
               /\ GoneIn(b, i, 0) = Gone(b, i - 1)
               /\ GoneIn(b, i, Len(vin[vtx[b][i]])) = Gone(b, i)
               /\ \A j \in 1 .. Len(vin[vtx[b][i]]) :
                    GoneIn(b, i, j) = GoneIn(b, i, j - 1) \cup {vin[vtx[b][i]][j]}
    <2>1. 2 .. i = (2 .. i - 1) \cup {i} /\ i \in 1 .. Len(vtx[b])
      BY <1>1
    <2>2. Gone(b, i) = Gone(b, i - 1) \cup Range(vin[vtx[b][i]])
      BY <2>1, Zenon DEF Gone
    <2>3. /\ Range(vin[vtx[b][i]]) = {vin[vtx[b][i]][j] : j \in 1 .. Len(vin[vtx[b][i]])}
          /\ Len(vin[vtx[b][i]]) \in Nat
      <3>1. vtx[b][i] \in Tx
        BY <1>1, <2>1, Zenon
      <3>2. QED
        BY <3>1, InputFacts, Zenon
    <2>4. GoneIn(b, i, 0) = Gone(b, i - 1) /\ GoneIn(b, i, Len(vin[vtx[b][i]])) = Gone(b, i)
      BY <2>2, <2>3 DEF GoneIn
    <2>5. ASSUME NEW j \in 1 .. Len(vin[vtx[b][i]])
          PROVE  GoneIn(b, i, j) = GoneIn(b, i, j - 1) \cup {vin[vtx[b][i]][j]}
      <3>1. 1 .. j = (1 .. j - 1) \cup {j}
        BY <2>3
      <3>2. QED
        BY <3>1, Zenon DEF GoneIn
    <2>6. QED
      BY <2>2, <2>4, <2>5, Zenon
  <1>7. QED
    BY <1>2, <1>5, <1>6, Zenon

\* The heights of the transactions of a chain and of its last block, an ordinary one.
LEMMA HeightFacts ==
  ASSUME NEW b \in Block \ {Genesis}, b \in Ordinary
  PROVE  /\ \A t \in TxsOf[pprev[b]] : HeightIn[b][t] = HeightIn[pprev[b]][t]
         /\ \A i \in 1 .. Len(vtx[b]) : HeightIn[b][vtx[b][i]] = nHeight[b]
  <1>1. /\ b \in Block /\ pprev[b] \in Block /\ DOMAIN vtx[b] = 1 .. Len(vtx[b])
        /\ Chain[b] = Chain[pprev[b]] \cup {b}
        /\ \A x \in Chain[pprev[b]] : Range(vtx[b]) \cap Range(vtx[x]) = {}
    <2>1. \A x \in Chain[pprev[b]] : Range(vtx[b]) \cap Range(vtx[x]) = {}
      BY Zenon DEF Ordinary
    <2>2. QED
      BY <2>1, BlockFacts, UndoAssumption, Zenon
  <1>2. \A c \in Block : \A t \in TxsOf[c] :
          HeightIn[c][t] = nHeight[CHOOSE x \in Chain[c] : t \in Range(vtx[x])]
    BY Zenon DEF HeightIn
  <1>3. TxsOf[pprev[b]] \subseteq TxsOf[b] /\ \A i \in 1 .. Len(vtx[b]) : vtx[b][i] \in TxsOf[b]
    <2>1. TxsOf[b] = TxsOf[pprev[b]] \cup {vtx[b][j] : j \in 1 .. Len(vtx[b])}
      BY MadeFacts, Zenon DEF Made
    <2>2. QED
      BY <2>1, Zenon
  <1>4. ASSUME NEW t \in TxsOf[pprev[b]]
        PROVE  HeightIn[b][t] = HeightIn[pprev[b]][t]
    <2>1. t \notin Range(vtx[b])
      BY <1>1 DEF TxsOf
    <2>2. \A x : (x \in Chain[b] /\ t \in Range(vtx[x])) <=> (x \in Chain[pprev[b]] /\ t \in Range(vtx[x]))
      BY <1>1, <2>1, Zenon
    <2>3. (CHOOSE x \in Chain[b] : t \in Range(vtx[x])) = (CHOOSE x \in Chain[pprev[b]] : t \in Range(vtx[x]))
      BY <2>2, Zenon
    <2>4. HeightIn[b][t] = nHeight[CHOOSE x \in Chain[b] : t \in Range(vtx[x])]
      BY <1>1, <1>2, <1>3, Zenon
    <2>5. HeightIn[pprev[b]][t] = nHeight[CHOOSE x \in Chain[pprev[b]] : t \in Range(vtx[x])]
      BY <1>1, <1>2, Zenon
    <2>6. QED
      BY <2>3, <2>4, <2>5, Zenon
  <1>5. ASSUME NEW i \in 1 .. Len(vtx[b])
        PROVE  HeightIn[b][vtx[b][i]] = nHeight[b]
    <2>1. vtx[b][i] \in Range(vtx[b])
      BY <1>1, Zenon DEF Range
    <2>2. \A x \in Chain[b] : vtx[b][i] \in Range(vtx[x]) <=> x = b
      BY <1>1, <2>1, Zenon
    <2>3. (CHOOSE x \in Chain[b] : vtx[b][i] \in Range(vtx[x])) = b
      BY <1>1, <2>2, Zenon
    <2>4. HeightIn[b][vtx[b][i]] = nHeight[CHOOSE x \in Chain[b] : vtx[b][i] \in Range(vtx[x])]
      BY <1>1, <1>2, <1>3, Zenon
    <2>5. QED
      BY <2>3, <2>4, Zenon
  <1>6. QED
    BY <1>4, <1>5, Zenon

\* No transaction is connected at height 0, which marks a partly spent one in undo data.
LEMMA HeightPositive ==
  ASSUME NEW b \in Block, NEW t \in TxsOf[b]
  PROVE  HeightIn[b][t] \in Nat \ {0}
  <1> DEFINE x == CHOOSE x \in Chain[b] : t \in Range(vtx[x])
  <1>1. Chain[b] \subseteq Block
    BY UndoAssumption, Zenon
  <1>2. \E y \in Chain[b] : t \in Range(vtx[y])
    BY Zenon DEF TxsOf
  <1>3. x \in Chain[b] /\ t \in Range(vtx[x])
    BY <1>2, Zenon
  <1>4. HeightIn[b][t] = nHeight[x]
    BY Zenon DEF HeightIn
  <1> HIDE DEF x
  <1>5. x # Genesis
    <2>1. Range(vtx[Genesis]) = {}
      BY BlockAssumption DEF Range
    <2>2. QED
      BY <1>3, <2>1, Zenon
  <1>6. QED
    BY <1>1, <1>3, <1>4, <1>5, BlockFacts, Zenon

-----------------------------------------------------------------------------
\* An input is available exactly when it may be spent.
LEMMA AvailableIsUsable ==
  ASSUME NEW m \in [Tx -> CCoins], NEW C, NEW X, NEW H, State(m, C, X, H),
         NEW out \in Tx \X Nat, out \notin EmptyOutput
  PROVE  out[2] \in m[out[1]].vout <=> Usable(C, X, out)
  <1>1. PICK s \in Tx, n \in Nat : out = <<s, n>> /\ out[1] = s /\ out[2] = n
    OBVIOUS
  <1>2. ASSUME n \in m[s].vout
        PROVE  Usable(C, X, out)
    <2>1. CASE s \in StakeCoinBase \ C
      <3>1. m[s].vout \subseteq vout[s] /\ vout[s] = {0}
        BY <2>1, EmptyAssumption, Zenon DEF State
      <3>2. n = 0 /\ <<s, 0>> \in EmptyOutput
        BY <1>2, <2>1, <3>1, EmptyNotSpent, Zenon
      <3>3. QED
        BY <1>1, <3>2, Zenon
    <2>2. CASE s \notin StakeCoinBase \ C
      <3>1. Entry(m[s], s, Left(C, X, s), H[s])
        BY <2>2, Zenon DEF State
      <3>2. n \in Left(C, X, s)
        BY <1>2, <3>1 DEF Entry, Null
      <3>3. s \in C /\ n \in vout[s] /\ <<s, n>> \notin X
        BY <3>2, Zenon DEF Left
      <3>4. QED
        BY <1>1, <3>3, Zenon DEF Usable
    <2>3. QED
      BY <2>1, <2>2, Zenon
  <1>3. ASSUME Usable(C, X, out)
        PROVE  n \in m[s].vout
    <2>1. n \in Left(C, X, s) /\ Entry(m[s], s, Left(C, X, s), H[s])
      BY <1>1, <1>3, UsableEntry, Zenon
    <2>2. QED
      BY <2>1, Zenon DEF Entry
  <1>4. QED
    BY <1>1, <1>2, <1>3, Zenon

\* UpdateCoins leaves an undo entry for every input, whatever the coins.
LEMMA SpendLength ==
  ASSUME NEW m \in [Tx -> CCoins], NEW t \in Tx \ CoinBase
  PROVE  Len(SpendInputs(m, t).vprevout) = Len(vin[t])
  <1> DEFINE n == Len(vin[t])
  <1>1. n \in Nat
    BY InputFacts, Zenon
  <1>2. PICK w : SpendRun(w, m, t)
    BY SpendSteps, Zenon
  <1>3. w[0] = [coins |-> m, vprevout |-> <<>>] /\ w[n] = SpendInputs(m, t)
    BY <1>2, Zenon DEF SpendRun
  <1>4. ASSUME NEW i \in 1 .. n
        PROVE  /\ w[i - 1].vprevout \in Seq(CTxInUndo)
               /\ \E u : w[i].vprevout = Append(w[i - 1].vprevout, u)
    <2>1. w[i - 1] \in SpendStates /\ w[i] = SpendInput(w[i - 1], vin[t][i])
      BY <1>1, <1>2 DEF SpendRun
    <2>2. w[i].vprevout = Append(w[i - 1].vprevout,
                                 SpendUndo(w[i - 1].coins[vin[t][i][1]], vin[t][i][2]))
      <3>1. \A x, out : SpendInput(x, out).vprevout = Append(x.vprevout, SpendUndo(x.coins[out[1]], out[2]))
        BY Zenon DEF SpendInput
      <3>2. QED
        BY <2>1, <3>1, Zenon
    <2>3. w[i - 1].vprevout \in Seq(CTxInUndo)
      BY <2>1, Zenon DEF SpendStates
    <2>4. QED
      BY <2>2, <2>3, Zenon
  <1> DEFINE T == {i \in 0 .. n : Len(w[i].vprevout) = i}
  <1> HIDE DEF n
  <1>5. 0 \in T
    BY <1>1, <1>3
  <1>6. ASSUME NEW i \in 1 .. n, i - 1 \in T
        PROVE  i \in T
    BY <1>1, <1>4, <1>6
  <1>7. \A i \in 0 .. n : i \in T
    <2> HIDE DEF T
    <2> QED
      BY <1>1, <1>5, <1>6, IntervalInduction, Zenon
  <1>8. QED
    BY <1>1, <1>3, <1>7 DEF n

SpendsAll(s, t, C, X, H) ==
  /\ State(s.coins, C, X \cup Range(vin[t]), H)
  /\ \A k \in 1 .. Len(vin[t]) :
       s.vprevout[k] = UndoEntry(C, X \cup {vin[t][l] : l \in 1 .. (k - 1)}, vin[t][k], H)

\* All inputs of a transaction spent, one after the other.
LEMMA SpendAll ==
  ASSUME NEW m \in [Tx -> CCoins], NEW t \in Tx \ CoinBase, NEW C, NEW X, NEW H, State(m, C, X, H),
         \A j \in 1 .. Len(vin[t]) : Usable(C, X, vin[t][j])
  PROVE  SpendsAll(SpendInputs(m, t), t, C, X, H)
  <1> DEFINE n == Len(vin[t])
             Upto(j) == X \cup {vin[t][l] : l \in 1 .. j}
  <1>1. /\ n \in Nat /\ Range(vin[t]) = {vin[t][j] : j \in 1 .. n}
        /\ \A i, j \in 1 .. n : vin[t][i] = vin[t][j] => i = j
    BY InputFacts, Zenon
  <1>2. PICK w : SpendRun(w, m, t)
    BY SpendSteps, Zenon
  <1>3. w[0] = [coins |-> m, vprevout |-> <<>>] /\ w[n] = SpendInputs(m, t)
    BY <1>2, Zenon DEF SpendRun
  <1>4. ASSUME NEW i \in 1 .. n
        PROVE  /\ w[i - 1] \in SpendStates /\ w[i - 1].vprevout \in Seq(CTxInUndo)
               /\ w[i] = SpendInput(w[i - 1], vin[t][i])
    <2>1. w[i - 1] \in SpendStates /\ w[i] = SpendInput(w[i - 1], vin[t][i])
      BY <1>1, <1>2 DEF SpendRun
    <2>2. QED
      BY <2>1, Zenon DEF SpendStates
  <1>5. Upto(0) = X /\ \A i \in 1 .. n : /\ Upto(i) = Upto(i - 1) \cup {vin[t][i]}
                                         /\ Usable(C, Upto(i - 1), vin[t][i])
    <2>1. Upto(0) = X
      OBVIOUS
    <2>2. ASSUME NEW i \in 1 .. n
          PROVE  Upto(i) = Upto(i - 1) \cup {vin[t][i]} /\ Usable(C, Upto(i - 1), vin[t][i])
      <3>1. 1 .. i = (1 .. i - 1) \cup {i} /\ i \notin 1 .. i - 1 /\ 1 .. i - 1 \subseteq 1 .. n
        BY <1>1
      <3>2. Upto(i) = Upto(i - 1) \cup {vin[t][i]}
        BY <3>1, Zenon
      <3>3. \A l \in 1 .. i - 1 : vin[t][l] # vin[t][i]
        BY <1>1, <3>1, Zenon
      <3>4. Usable(C, X, vin[t][i])
        BY Zenon
      <3>5. QED
        BY <3>2, <3>3, <3>4, Zenon DEF Usable
    <2>3. QED
      BY <2>1, <2>2, Zenon
  <1> DEFINE P(i) == /\ State(w[i].coins, C, Upto(i), H)
                     /\ Len(w[i].vprevout) = i
                     /\ \A k \in 1 .. i : w[i].vprevout[k] = UndoEntry(C, Upto(k - 1), vin[t][k], H)
             T == {i \in 0 .. n : P(i)}
  <1>6. Upto(n) = X \cup Range(vin[t])
    BY <1>1, Zenon
  <1> HIDE DEF n, Upto
  <1>7. 0 \in T
    BY <1>1, <1>3, <1>5
  <1>8. ASSUME NEW i \in 1 .. n, i - 1 \in T
        PROVE  i \in T
    <2> DEFINE v == w[i - 1]
               out == vin[t][i]
               u == UndoEntry(C, Upto(i - 1), out, H)
    <2>1. P(i - 1)
      BY <1>8, Zenon
    <2>2. v \in SpendStates /\ v.vprevout \in Seq(CTxInUndo) /\ Usable(C, Upto(i - 1), out)
      BY <1>4, <1>5, Zenon
    <2>3. State(v.coins, C, Upto(i - 1), H) /\ w[i] = SpendInput(v, out)
      BY <2>1, <1>4, Zenon
    <2>4. State(w[i].coins, C, Upto(i - 1) \cup {out}, H) /\ w[i].vprevout = Append(v.vprevout, u)
      <3> HIDE DEF v, out
      <3>1. SpendsTo(v, C, Upto(i - 1), H, out)
        BY <2>2, <2>3, SpendOne, Zenon
      <3> QED
        BY <3>1, <2>3, Zenon DEF SpendsTo
    <2>6. State(w[i].coins, C, Upto(i), H)
      BY <2>4, <1>5, Zenon
    <2>7. Len(v.vprevout) = i - 1 /\ \A k \in 1 .. i - 1 : v.vprevout[k] = UndoEntry(C, Upto(k - 1), vin[t][k], H)
      BY <2>1, Zenon
    <2> HIDE DEF u, v, P
    <2>8. Len(w[i].vprevout) = i /\ w[i].vprevout[i] = u
      BY <2>2, <2>4, <2>7
    <2>9. \A k \in 1 .. i - 1 : w[i].vprevout[k] = v.vprevout[k]
      BY <2>2, <2>4, <2>7
    <2>10. ASSUME NEW k \in 1 .. i
           PROVE  w[i].vprevout[k] = UndoEntry(C, Upto(k - 1), vin[t][k], H)
      <3>1. CASE k = i
        BY <3>1, <2>8, Zenon DEF u
      <3>2. CASE k # i
        <4>1. k \in 1 .. i - 1
          BY <3>2
        <4>2. QED
          BY <4>1, <2>7, <2>9, Zenon
      <3>3. QED
        BY <3>1, <3>2, Zenon
    <2>11. P(i)
      BY <2>6, <2>8, <2>10, Zenon DEF P
    <2>12. QED
      BY <2>11
  <1>9. n \in T
    <2> HIDE DEF T
    <2>1. \A i \in 0 .. n : i \in T
      BY <1>1, <1>7, <1>8, IntervalInduction, Zenon
    <2>2. QED
      BY <1>1, <2>1
  <1>10. P(n)
    BY <1>9, Zenon
  <1>11. QED
    BY <1>3, <1>6, <1>10, Zenon DEF n, Upto, SpendsAll
=============================================================================
