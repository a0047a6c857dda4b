-------------------------- MODULE BlockUndoProofs ---------------------------
(***************************************************************************)
(* The invariants of BlockUndo, for every tree of blocks that its          *)
(* assumptions describe.  From the steps of the loops (BlockUndoSteps)     *)
(* follow ConnectPasses and DisconnectAll: connecting leads from the state *)
(* before a block to the state after it, undoing leads back.  IInv carries *)
(* that through flushes, refused flushes and restarts.                     *)
(***************************************************************************)
EXTENDS BlockUndoSteps

-----------------------------------------------------------------------------
\* Input out of transaction i of block b is unspent and mature, and not from the future.
Meets(b, i, out, timely) ==
  /\ Usable(Made(b, i - 1), Gone(b, i - 1), out)
  /\ out[1] \in CoinBase \cup CoinStake => nHeight[b] - HeightIn[b][out[1]] >= COINBASE_MATURITY
  /\ timely => nTime[out[1]] <= nTime[vtx[b][i]]
TxMeets(b, i, timely) ==
  \A j \in 1 .. Len(vin[vtx[b][i]]) : Meets(b, i, vin[vtx[b][i]][j], timely)

\* What the chain allows is what the coins it leaves allow.
LEMMA SpendableMeets ==
  ASSUME NEW b \in Block \ {Genesis}, b \in Ordinary, Closed(pprev[b]), NEW i \in 2 .. Len(vtx[b]),
         NEW out \in Tx \X Nat, out \notin EmptyOutput, NEW timely \in BOOLEAN
  PROVE  Spendable(b, i, out, timely) <=> Meets(b, i, out, timely)
  <1> DEFINE p == pprev[b]
             before == {vtx[b][j] : j \in 1 .. i - 1}
             spent == UNION {Range(vin[t]) : t \in before \ CoinBase}
  <1>1. /\ p \in Block /\ Len(vtx[b]) \in Nat
        /\ \A j \in 1 .. Len(vtx[b]) : vtx[b][j] \in Tx /\ (vtx[b][j] \in CoinBase <=> j = 1)
    BY BlockFacts, Zenon
  <1>2. PICK s \in Tx, n \in Nat : out = <<s, n>> /\ out[1] = s /\ out[2] = n
    OBVIOUS
  <1>3. out \in Outputs <=> n \in vout[s]
    BY <1>2 DEF Outputs
  <1>4. spent = UNION {Range(vin[vtx[b][j]]) : j \in 2 .. i - 1}
    <2>1. before \ CoinBase = {vtx[b][j] : j \in 2 .. i - 1}
      BY <1>1
    <2>2. QED
      BY <2>1
  <1>5. Made(b, i - 1) = TxsOf[p] \cup before /\ Gone(b, i - 1) = Spent[p] \cup spent
    BY <1>4, Zenon DEF Made, Gone
  <1>6. \A t \in before : t \notin TxsOf[p]
    <2>1. ASSUME NEW j \in 1 .. i - 1
          PROVE  vtx[b][j] \notin TxsOf[p]
      <3>1. j \in 1 .. Len(vtx[b])
        BY <1>1
      <3>2. vtx[b][j] \notin Made(b, j - 1)
        BY <3>1, OrdinaryFacts, Zenon
      <3>3. QED
        BY <3>2, Zenon DEF Made
    <2>2. QED
      BY <2>1, Zenon
  <1>7. \A o \in Spent[p] : o[1] \in TxsOf[p]
    BY Zenon DEF Closed
  <1>8. Unspent[p] = {o \in Outputs : o[1] \in TxsOf[p]} \ Spent[p]
    BY <1>1, Zenon DEF Unspent
  <1> HIDE DEF p, before, spent
  <1>9. /\ out \in Unspent[p] \cup {new \in Outputs : new[1] \in before}
        /\ out \notin spent
        <=> Usable(Made(b, i - 1), Gone(b, i - 1), out)
    BY <1>2, <1>3, <1>5, <1>6, <1>7, <1>8, Zenon DEF Usable
  <1>10. Spendable(b, i, out, timely) <=>
           /\ out \in Unspent[p] \cup {new \in Outputs : new[1] \in before}
           /\ out \notin spent
           /\ out[1] \in CoinBase \cup CoinStake => nHeight[b] - HeightIn[b][out[1]] >= COINBASE_MATURITY
           /\ timely => nTime[out[1]] <= nTime[vtx[b][i]]
    BY Zenon DEF Spendable, p, before, spent
  <1>11. QED
    BY <1>9, <1>10, Zenon DEF Meets

\* The same for all inputs of a block.
LEMMA AcceptableMeets ==
  ASSUME NEW b \in Block \ {Genesis}, b \in Ordinary, Closed(pprev[b]), NEW timely \in BOOLEAN
  PROVE  Acceptable[timely][b] <=> b \notin BadBlock /\ \A i \in 2 .. Len(vtx[b]) : TxMeets(b, i, timely)
  <1>1. /\ Len(vtx[b]) \in Nat /\ DOMAIN vtx[b] = 1 .. Len(vtx[b])
        /\ \A i \in 1 .. Len(vtx[b]) : vtx[b][i] \in Tx /\ (vtx[b][i] \in CoinBase <=> i = 1)
    BY BlockFacts, Zenon
  <1>2. Acceptable[timely][b] <=>
          /\ b \notin BadBlock
          /\ \A i \in DOMAIN vtx[b] : vtx[b][i] \in CoinBase \/
               \A out \in Range(vin[vtx[b][i]]) : Spendable(b, i, out, timely)
    <2> DEFINE A(x, y) == /\ x \notin BadBlock
                          /\ \A i \in DOMAIN vtx[x] : vtx[x][i] \in CoinBase \/
                               \A out \in Range(vin[vtx[x][i]]) : Spendable(x, i, out, y)
    <2>1. Acceptable = [y \in BOOLEAN |-> [x \in Block \ {Genesis} |-> A(x, y)]]
      BY Zenon DEF Acceptable
    <2> HIDE DEF A
    <2>2. Acceptable[timely][b] = A(b, timely)
      BY <2>1, Zenon
    <2>3. QED
      BY <2>2, Zenon DEF A
  <1>3. ASSUME NEW i \in 2 .. Len(vtx[b])
        PROVE  (\A out \in Range(vin[vtx[b][i]]) : Spendable(b, i, out, timely)) <=> TxMeets(b, i, timely)
    <2> DEFINE t == vtx[b][i]
    <2>1. t \in Tx
      BY <1>1
    <2> HIDE DEF t
    <2>2. /\ Range(vin[t]) = {vin[t][j] : j \in 1 .. Len(vin[t])}
          /\ \A j \in 1 .. Len(vin[t]) : vin[t][j] \in Tx \X Nat /\ vin[t][j] \notin EmptyOutput
      BY <2>1, InputFacts, OrdinaryFacts, Zenon DEF t
    <2>3. \A out \in Range(vin[t]) : Spendable(b, i, out, timely) <=> Meets(b, i, out, timely)
      BY <2>2, SpendableMeets, Zenon
    <2>4. TxMeets(b, i, timely) <=> \A j \in 1 .. Len(vin[t]) : Meets(b, i, vin[t][j], timely)
      BY Zenon DEF TxMeets, t
    <2>5. QED
      BY <2>2, <2>3, <2>4, Zenon DEF t
  <1>4. (\A i \in DOMAIN vtx[b] : vtx[b][i] \in CoinBase \/
               \A out \in Range(vin[vtx[b][i]]) : Spendable(b, i, out, timely))
        <=> \A i \in 2 .. Len(vtx[b]) : \A out \in Range(vin[vtx[b][i]]) : Spendable(b, i, out, timely)
    BY <1>1
  <1>5. QED
    BY <1>2, <1>3, <1>4, Zenon

\* The checks ConnectBlock makes on transaction i of block b.
Checks(m, b, i) == HaveInputs(m, vtx[b][i]) /\ CheckInputs(m, vtx[b][i], nHeight[b])

\* They pass only what the chain allows, and fail only what it forbids.
LEMMA ChecksMeet ==
  ASSUME NEW b \in Block \ {Genesis}, b \in Ordinary, NEW i \in 2 .. Len(vtx[b]), NEW m \in [Tx -> CCoins],
         State(m, Made(b, i - 1), Gone(b, i - 1), HeightIn[b])
  PROVE  (Checks(m, b, i) => TxMeets(b, i, FALSE)) /\ (TxMeets(b, i, TRUE) => Checks(m, b, i))
  <1> DEFINE t == vtx[b][i]
             C == Made(b, i - 1)
             X == Gone(b, i - 1)
             H == HeightIn[b]
  <1>1. t \in Tx /\ nTime[t] \in Nat /\ nHeight[b] \in Nat
    <2>1. i \in 1 .. Len(vtx[b])
      OBVIOUS
    <2>2. t \in Tx /\ nHeight[b] \in Nat
      BY <2>1, BlockFacts, Zenon
    <2>3. QED
      BY <2>2, BlockAssumption, Zenon
  <1> HIDE DEF t
  <1>2. /\ Range(vin[t]) = {vin[t][j] : j \in 1 .. Len(vin[t])}
        /\ \A j \in 1 .. Len(vin[t]) : vin[t][j] \in Tx \X Nat /\ vin[t][j] \notin EmptyOutput
    BY <1>1, InputFacts, OrdinaryFacts, Zenon DEF t
  <1>3. \A out \in Range(vin[t]) : out \in Tx \X Nat /\ out \notin EmptyOutput
    BY <1>2, Zenon
  <1>4. \A out \in Range(vin[t]) : out[2] \in m[out[1]].vout <=> Usable(C, X, out)
    BY <1>3, AvailableIsUsable, Zenon
  <1>5. ASSUME NEW out \in Range(vin[t]), Usable(C, X, out)
        PROVE  /\ m[out[1]].fCoinBase \/ m[out[1]].fCoinStake <=> out[1] \in CoinBase \cup CoinStake
               /\ m[out[1]].nHeight = H[out[1]]
               /\ m[out[1]].nTime \in {0, nTime[out[1]]}
    <2>1. out[2] \in Left(C, X, out[1]) /\ Entry(m[out[1]], out[1], Left(C, X, out[1]), H[out[1]])
      BY <1>5, UsableEntry, Zenon
    <2>2. QED
      BY <2>1, Zenon DEF Entry
  <1>6. Checks(m, b, i) <=>
          \A out \in Range(vin[t]) :
            /\ out[2] \in m[out[1]].vout
            /\ m[out[1]].fCoinBase \/ m[out[1]].fCoinStake => nHeight[b] - m[out[1]].nHeight >= COINBASE_MATURITY
            /\ m[out[1]].nTime <= nTime[t]
    BY Zenon DEF Checks, HaveInputs, CheckInputs, t
  <1>7. \A timely \in BOOLEAN : TxMeets(b, i, timely) <=> \A out \in Range(vin[t]) : Meets(b, i, out, timely)
    BY <1>2, Zenon DEF TxMeets, t
  <1>8. \A timely \in BOOLEAN : \A out : Meets(b, i, out, timely) <=>
          /\ Usable(C, X, out)
          /\ out[1] \in CoinBase \cup CoinStake => nHeight[b] - H[out[1]] >= COINBASE_MATURITY
          /\ timely => nTime[out[1]] <= nTime[t]
    BY Zenon DEF Meets, t
  <1> HIDE DEF C, X, H
  <1>9. ASSUME Checks(m, b, i), NEW out \in Range(vin[t])
        PROVE  Meets(b, i, out, FALSE)
    <2>1. /\ out[2] \in m[out[1]].vout
          /\ m[out[1]].fCoinBase \/ m[out[1]].fCoinStake => nHeight[b] - m[out[1]].nHeight >= COINBASE_MATURITY
      BY <1>6, <1>9, Zenon
    <2>2. Usable(C, X, out)
      BY <1>4, <2>1, Zenon
    <2>3. out[1] \in CoinBase \cup CoinStake => nHeight[b] - H[out[1]] >= COINBASE_MATURITY
      BY <1>5, <2>1, <2>2, Zenon
    <2>4. QED
      BY <1>8, <2>2, <2>3, Zenon
  <1>10. ASSUME TxMeets(b, i, TRUE), NEW out \in Range(vin[t])
         PROVE  /\ out[2] \in m[out[1]].vout
                /\ m[out[1]].fCoinBase \/ m[out[1]].fCoinStake => nHeight[b] - m[out[1]].nHeight >= COINBASE_MATURITY
                /\ m[out[1]].nTime <= nTime[t]
    <2>1. /\ Usable(C, X, out)
          /\ out[1] \in CoinBase \cup CoinStake => nHeight[b] - H[out[1]] >= COINBASE_MATURITY
          /\ nTime[out[1]] <= nTime[t]
      BY <1>7, <1>8, <1>10, Zenon
    <2>2. out[2] \in m[out[1]].vout
      BY <1>4, <2>1, Zenon
    <2>3. m[out[1]].fCoinBase \/ m[out[1]].fCoinStake => nHeight[b] - m[out[1]].nHeight >= COINBASE_MATURITY
      BY <1>5, <2>1, Zenon
    <2>4. m[out[1]].nTime <= nTime[t]
      BY <1>1, <1>5, <2>1
    <2>5. QED
      BY <2>2, <2>3, <2>4, Zenon
  <1>11. QED
    BY <1>6, <1>7, <1>9, <1>10, Zenon

-----------------------------------------------------------------------------
\* The undo data vprevout of transaction i of block b is the one its chain determines.
TxUndoRight(vprevout, b, i) ==
  \A j \in 1 .. Len(vin[vtx[b][i]]) :
    vprevout[j] = UndoEntry(Made(b, i - 1), GoneIn(b, i, j - 1), vin[vtx[b][i]][j], HeightIn[b])

\* The coins m are those after the first i transactions of block b.
StateIn(m, b, i) == State(m, Made(b, i), Gone(b, i), HeightIn[b])

\* The undo data of transaction i of block b, with coins m before it.
TxUndo(m, b, i) == SpendInputs(m, vtx[b][i]).vprevout

\* One transaction of ConnectBlock that passes, whatever the coins.
Passes(w, r, b, i) ==
  /\ w.ok /\ r.ok
  /\ r.coins = [SpendInputs(w.coins, vtx[b][i]).coins EXCEPT ![vtx[b][i]] = FromTx(vtx[b][i], nHeight[b])]
  /\ i = 1 => r.vtxundo = w.vtxundo
  /\ i # 1 => /\ Checks(w.coins, b, i)
              /\ r.vtxundo = Append(w.vtxundo, TxUndo(w.coins, b, i))
              /\ Len(TxUndo(w.coins, b, i)) = Len(vin[vtx[b][i]])

\* ConnectTx passes exactly when nothing failed before and the checks pass.
LEMMA ConnectTxPasses ==
  ASSUME NEW b \in Block \ {Genesis}, NEW i \in 1 .. Len(vtx[b]), NEW w \in ConnectStates
  PROVE  LET r == ConnectTx(w, vtx[b][i], nHeight[b])
         IN /\ r.ok => Passes(w, r, b, i)
            /\ w.ok /\ (i # 1 => Checks(w.coins, b, i)) => r.ok
  <1> DEFINE t == vtx[b][i]
             h == nHeight[b]
             r == ConnectTx(w, t, h)
             s == SpendInputs(w.coins, t)
  <1>1. t \in Tx /\ (t \in CoinBase <=> i = 1)
    BY BlockFacts, Zenon
  <1>2. w.ok \in BOOLEAN /\ w.coins \in [Tx -> CCoins]
    BY Zenon DEF ConnectStates
  <1>3. Checks(w.coins, b, i) <=> HaveInputs(w.coins, t) /\ CheckInputs(w.coins, t, h)
    BY Zenon DEF Checks
  <1>4. i # 1 => Len(TxUndo(w.coins, b, i)) = Len(vin[t]) /\ TxUndo(w.coins, b, i) = s.vprevout
    BY <1>1, <1>2, SpendLength, Zenon DEF TxUndo
  <1> HIDE DEF s, h, t
  <1>5. CASE ~w.ok \/ (i # 1 /\ ~Checks(w.coins, b, i))
    <2>1. r = [w EXCEPT !.ok = FALSE]
      BY <1>1, <1>3, <1>5, Zenon DEF ConnectTx
    <2>2. ~r.ok
      BY <2>1, Zenon DEF ConnectStates
    <2>3. QED
      BY <1>5, <2>2, Zenon DEF t, h
  <1>6. CASE w.ok /\ (i # 1 => Checks(w.coins, b, i))
    <2>1. r = [ok |-> TRUE, coins |-> [s.coins EXCEPT ![t] = FromTx(t, h)],
               vtxundo |-> TxUndoAdded(w.vtxundo, t, s.vprevout)]
      BY <1>1, <1>3, <1>6, Zenon DEF ConnectTx, s
    <2>2. r.ok /\ r.coins = [s.coins EXCEPT ![t] = FromTx(t, h)] /\ r.vtxundo = TxUndoAdded(w.vtxundo, t, s.vprevout)
      BY <2>1
    <2> HIDE DEF r
    <2>3. i = 1 => r.vtxundo = w.vtxundo
      BY <1>1, <2>2, Zenon DEF TxUndoAdded
    <2>4. i # 1 => r.vtxundo = Append(w.vtxundo, TxUndo(w.coins, b, i))
      BY <1>1, <1>4, <2>2, Zenon DEF TxUndoAdded
    <2>5. Passes(w, r, b, i)
      BY <1>4, <1>6, <2>2, <2>3, <2>4, Zenon DEF Passes, s, t, h
    <2>6. QED
      BY <2>2, <2>5, Zenon DEF r, t, h
  <1>7. QED
    BY <1>5, <1>6, <1>2, Zenon

\* One transaction connected to the coins it finds.
Connects(w, r, b, i) == StateIn(r.coins, b, i) /\ (i # 1 => TxUndoRight(TxUndo(w.coins, b, i), b, i))

\* It leads from the coins before the transaction to the coins after it.
LEMMA ConnectOne ==
  ASSUME NEW b \in Block \ {Genesis}, b \in Ordinary, NEW i \in 1 .. Len(vtx[b]), NEW w \in ConnectStates,
         StateIn(w.coins, b, i - 1), NEW r, Passes(w, r, b, i)
  PROVE  Connects(w, r, b, i)
  <1> DEFINE t == vtx[b][i]
             s == SpendInputs(w.coins, t)
             C == Made(b, i - 1)
             X == Gone(b, i - 1)
             H == HeightIn[b]
  <1>1. t \in Tx /\ (t \in CoinBase <=> i = 1)
    BY BlockFacts, Zenon
  <1>2. w.coins \in [Tx -> CCoins] /\ State(w.coins, C, X, H)
    BY Zenon DEF ConnectStates, StateIn
  <1>3. Made(b, i) = C \cup {t} /\ t \notin C /\ H[t] = nHeight[b]
    BY MadeFacts, OrdinaryFacts, HeightFacts, Zenon
  <1>4. s \in SpendStates
    BY <1>1, <1>2, SpendInputsTyped, Zenon
  <1>5. r.coins = [s.coins EXCEPT ![t] = FromTx(t, H[t])]
    BY <1>3, Zenon DEF Passes
  <1> HIDE DEF s, C, X, H, t
  <1>6. s.coins \in [Tx -> CCoins]
    BY <1>4, Zenon DEF SpendStates
  <1>7. CASE i = 1
    <2>1. s.coins = w.coins
      BY <1>1, <1>7, Zenon DEF SpendInputs, s
    <2>2. Gone(b, i) = X
      BY <1>7, GoneFacts DEF X
    <2>3. Creates(s.coins, t, Made(b, i), X, H)
      BY <1>1, <1>2, <1>3, <1>6, <2>1, CreateOne, Zenon
    <2>4. State(r.coins, Made(b, i), X, H)
      BY <1>5, <2>3, Zenon DEF Creates
    <2>5. QED
      BY <1>7, <2>2, <2>4, Zenon DEF StateIn, H, Connects
  <1>8. CASE i # 1
    <2>1. i \in 2 .. Len(vtx[b])
      BY <1>8
    <2>2. Checks(w.coins, b, i)
      BY <1>8, Zenon DEF Passes
    <2>3. TxMeets(b, i, FALSE)
      BY <1>2, <2>1, <2>2, ChecksMeet, Zenon DEF C, X, H
    <2>4. \A j \in 1 .. Len(vin[t]) : Usable(C, X, vin[t][j])
      BY <2>3, Zenon DEF TxMeets, Meets, C, X, t
    <2>5. SpendsAll(s, t, C, X, H)
      BY <1>1, <1>2, <1>8, <2>4, SpendAll, Zenon DEF s
    <2>6. Gone(b, i) = X \cup Range(vin[t])
      BY <2>1, GoneFacts, Zenon DEF X, t
    <2>7. State(s.coins, C, Gone(b, i), H)
      BY <2>5, <2>6, Zenon DEF SpendsAll
    <2>8. Creates(s.coins, t, Made(b, i), Gone(b, i), H)
      BY <1>1, <1>3, <1>6, <2>7, CreateOne, Zenon
    <2>9. State(r.coins, Made(b, i), Gone(b, i), H)
      BY <1>5, <2>8, Zenon DEF Creates
    <2>10. \A j \in 1 .. Len(vin[t]) : GoneIn(b, i, j - 1) = X \cup {vin[t][l] : l \in 1 .. (j - 1)}
      BY Zenon DEF GoneIn, X, t
    <2>11. TxUndoRight(s.vprevout, b, i)
      <3>1. \A j \in 1 .. Len(vin[t]) : s.vprevout[j] = UndoEntry(C, GoneIn(b, i, j - 1), vin[t][j], H)
        BY <2>5, <2>10, Zenon DEF SpendsAll
      <3>2. QED
        BY <3>1, Zenon DEF TxUndoRight, C, H, t
    <2>12. QED
      BY <2>9, <2>11, Zenon DEF StateIn, H, Connects, TxUndo, s, t
  <1>9. QED
    BY <1>7, <1>8, Zenon

-----------------------------------------------------------------------------
\* The coins before a block, seen from inside it.
LEMMA StateBefore ==
  ASSUME NEW b \in Block \ {Genesis}, b \in Ordinary, NEW m
  PROVE  StateAt(m, pprev[b]) <=> StateIn(m, b, 0)
  <1>1. Made(b, 0) = TxsOf[pprev[b]] /\ Gone(b, 0) = Spent[pprev[b]]
    BY MadeFacts, GoneFacts, Zenon
  <1>2. \A t \in TxsOf[pprev[b]] : HeightIn[b][t] = HeightIn[pprev[b]][t]
    BY HeightFacts, Zenon
  <1>3. ASSUME NEW H, NEW K, \A t \in TxsOf[pprev[b]] : H[t] = K[t],
               State(m, TxsOf[pprev[b]], Spent[pprev[b]], H)
        PROVE  State(m, TxsOf[pprev[b]], Spent[pprev[b]], K)
    BY <1>3, SameHeights, Zenon
  <1>4. QED
    BY <1>1, <1>2, <1>3, Zenon DEF StateAt, StateIn

\* The coins after a block, seen from inside it.
LEMMA StateAfter ==
  ASSUME NEW b \in Block \ {Genesis}, NEW m
  PROVE  StateAt(m, b) <=> StateIn(m, b, Len(vtx[b]))
  BY MadeFacts, GoneFacts, Zenon DEF StateAt, StateIn

\* ConnectBlock, transaction by transaction.
LEMMA ConnectRunFacts ==
  ASSUME NEW b \in Block \ {Genesis}, NEW m, NEW w, ConnectRun(w, m, b)
  PROVE  /\ w[0].ok /\ w[0].coins = m /\ w[0].vtxundo = <<>>
         /\ \A i \in 0 .. Len(vtx[b]) : w[i] \in ConnectStates
         /\ \A i \in 1 .. Len(vtx[b]) :
              /\ w[i].ok => Passes(w[i - 1], w[i], b, i)
              /\ w[i - 1].ok /\ (i # 1 => Checks(w[i - 1].coins, b, i)) => w[i].ok
         /\ ConnectBlock(m, b).ok <=> w[Len(vtx[b])].ok /\ b \notin BadBlock
         /\ ConnectBlock(m, b).coins = w[Len(vtx[b])].coins
         /\ ConnectBlock(m, b).vtxundo = w[Len(vtx[b])].vtxundo
  <1>1. Len(vtx[b]) \in Nat \ {0}
    BY BlockFacts, Zenon
  <1>2. w[0] = [ok |-> TRUE, coins |-> m, vtxundo |-> <<>>]
    BY Zenon DEF ConnectRun
  <1>3. \A i \in 0 .. Len(vtx[b]) : w[i] \in ConnectStates
    BY Zenon DEF ConnectRun
  <1>4. ASSUME NEW i \in 1 .. Len(vtx[b])
        PROVE  /\ w[i].ok => Passes(w[i - 1], w[i], b, i)
               /\ w[i - 1].ok /\ (i # 1 => Checks(w[i - 1].coins, b, i)) => w[i].ok
    <2>1. w[i - 1] \in ConnectStates /\ w[i] = ConnectTx(w[i - 1], vtx[b][i], nHeight[b])
      BY <1>1, <1>3 DEF ConnectRun
    <2>2. PICK v : v = w[i - 1]
      BY Zenon
    <2>3. LET r == ConnectTx(v, vtx[b][i], nHeight[b])
          IN /\ r.ok => Passes(v, r, b, i)
             /\ v.ok /\ (i # 1 => Checks(v.coins, b, i)) => r.ok
      BY <2>1, <2>2, ConnectTxPasses, Zenon
    <2>4. QED
      BY <2>1, <2>2, <2>3, Zenon
  <1>5. PICK v : v = w[Len(vtx[b])]
    BY Zenon
  <1>6. v \in ConnectStates
    BY <1>1, <1>3, <1>5
  <1>7. ConnectBlock(m, b) = [v EXCEPT !.ok = @ /\ b \notin BadBlock]
    BY <1>5, Zenon DEF ConnectRun
  <1>8. ConnectBlock(m, b).ok = (v.ok /\ b \notin BadBlock) /\ ConnectBlock(m, b).coins = v.coins
        /\ ConnectBlock(m, b).vtxundo = v.vtxundo
    BY <1>6, <1>7, Zenon DEF ConnectStates
  <1>9. w[0].ok /\ w[0].coins = m /\ w[0].vtxundo = <<>>
    BY <1>2
  <1>10. /\ ConnectBlock(m, b).ok <=> w[Len(vtx[b])].ok /\ b \notin BadBlock
         /\ ConnectBlock(m, b).coins = w[Len(vtx[b])].coins
         /\ ConnectBlock(m, b).vtxundo = w[Len(vtx[b])].vtxundo
    <2>1. v.ok \in BOOLEAN
      BY <1>6, Zenon DEF ConnectStates
    <2>2. QED
      BY <2>1, <1>5, <1>8, Zenon
  <1>11. QED
    BY <1>3, <1>4, <1>9, <1>10, Zenon

\* After i transactions of block b: the shape of the undo data and, where the coins were
\* those before the block (exact), what the coins and the undo data are.
ConnectedTo(v, b, i, exact) ==
  /\ Len(v.vtxundo) = IF i = 0 THEN 0 ELSE i - 1
  /\ exact => StateIn(v.coins, b, i)
  /\ \A k \in 2 .. i : /\ Len(v.vtxundo[k - 1]) = Len(vin[vtx[b][k]])
                       /\ exact => TxMeets(b, k, FALSE) /\ TxUndoRight(v.vtxundo[k - 1], b, k)

\* One more transaction.
LEMMA ConnectedOneMore ==
  ASSUME NEW b \in Block \ {Genesis}, NEW i \in 1 .. Len(vtx[b]), NEW v \in ConnectStates, NEW r, NEW exact \in BOOLEAN,
         exact => b \in Ordinary, Passes(v, r, b, i), ConnectedTo(v, b, i - 1, exact)
  PROVE  ConnectedTo(r, b, i, exact)
  <1>1. v.vtxundo \in Seq(Seq(CTxInUndo)) /\ v.coins \in [Tx -> CCoins] /\ Len(vtx[b]) \in Nat
    BY BlockFacts, Zenon DEF ConnectStates
  <1>2. exact => Connects(v, r, b, i)
    BY ConnectOne, Zenon DEF ConnectedTo
  <1>3. exact => StateIn(r.coins, b, i)
    BY <1>2, Zenon DEF Connects
  <1>4. CASE i = 1
    <2>1. r.vtxundo = v.vtxundo /\ Len(v.vtxundo) = 0
      BY <1>4 DEF Passes, ConnectedTo
    <2>2. QED
      BY <1>3, <1>4, <2>1 DEF ConnectedTo
  <1>5. CASE i # 1
    <2> DEFINE u == TxUndo(v.coins, b, i)
    <2>1. i \in 2 .. Len(vtx[b]) /\ Len(v.vtxundo) = i - 2
      BY <1>1, <1>5 DEF ConnectedTo
    <2>2. r.vtxundo = Append(v.vtxundo, u) /\ Len(u) = Len(vin[vtx[b][i]]) /\ Checks(v.coins, b, i)
      BY <1>5, Zenon DEF Passes
    <2>3. exact => TxUndoRight(u, b, i)
      BY <1>2, <1>5, Zenon DEF Connects
    <2>4. exact => TxMeets(b, i, FALSE)
      BY <1>1, <2>1, <2>2, ChecksMeet, Zenon DEF ConnectedTo, StateIn
    <2> HIDE DEF u
    <2>5. Len(r.vtxundo) = i - 1 /\ r.vtxundo[i - 1] = u
      BY <1>1, <2>1, <2>2
    <2>6. \A k \in 2 .. i - 1 : r.vtxundo[k - 1] = v.vtxundo[k - 1]
      BY <1>1, <2>1, <2>2
    <2>7. ASSUME NEW k \in 2 .. i
          PROVE  /\ Len(r.vtxundo[k - 1]) = Len(vin[vtx[b][k]])
                 /\ exact => TxMeets(b, k, FALSE) /\ TxUndoRight(r.vtxundo[k - 1], b, k)
      <3>1. CASE k = i
        BY <3>1, <2>2, <2>3, <2>4, <2>5, Zenon
      <3>2. CASE k # i
        <4>1. k \in 2 .. i - 1
          BY <3>2
        <4>2. /\ Len(v.vtxundo[k - 1]) = Len(vin[vtx[b][k]])
              /\ exact => TxMeets(b, k, FALSE) /\ TxUndoRight(v.vtxundo[k - 1], b, k)
          BY <4>1, Zenon DEF ConnectedTo
        <4>3. QED
          BY <4>1, <4>2, <2>6, Zenon
      <3>3. QED
        BY <3>1, <3>2, Zenon
    <2>8. i # 0
      OBVIOUS
    <2>9. QED
      BY <1>3, <2>5, <2>7, <2>8, Zenon DEF ConnectedTo
  <1>6. QED
    BY <1>4, <1>5, Zenon

\* A block that passes: the shape of its undo data, whatever the coins; and, for an ordinary
\* block connected to the coins before it, the coins after it, its undo data, and that its chain allows it.
LEMMA ConnectPasses ==
  ASSUME NEW b \in Block \ {Genesis}, NEW m \in [Tx -> CCoins], ConnectBlock(m, b).ok, NEW exact \in BOOLEAN,
         exact => b \in Ordinary /\ StateAt(m, pprev[b])
  PROVE  ConnectedTo(ConnectBlock(m, b), b, Len(vtx[b]), exact) /\ b \notin BadBlock
  <1> DEFINE n == Len(vtx[b])
  <1>1. n \in Nat \ {0}
    BY BlockFacts, Zenon
  <1>2. PICK w : ConnectRun(w, m, b)
    BY ConnectSteps, Zenon
  <1>3. /\ w[0].ok /\ w[0].coins = m /\ w[0].vtxundo = <<>>
        /\ \A i \in 0 .. n : w[i] \in ConnectStates
        /\ \A i \in 1 .. n : w[i].ok => Passes(w[i - 1], w[i], b, i)
        /\ ConnectBlock(m, b).ok <=> w[n].ok /\ b \notin BadBlock
        /\ ConnectBlock(m, b).coins = w[n].coins
        /\ ConnectBlock(m, b).vtxundo = w[n].vtxundo
    BY <1>2, ConnectRunFacts
  <1> DEFINE P(i) == w[i].ok => ConnectedTo(w[i], b, i, exact)
             T == {i \in 0 .. n : P(i)}
  <1> HIDE DEF n
  <1>4. 0 \in T
    <2>1. exact => StateIn(m, b, 0)
      BY StateBefore, Zenon
    <2>2. P(0)
      BY <1>3, <2>1 DEF ConnectedTo
    <2>3. QED
      BY <1>1, <2>2
  <1>5. ASSUME NEW i \in 1 .. n, i - 1 \in T
        PROVE  i \in T
    <2>1. SUFFICES ASSUME w[i].ok PROVE ConnectedTo(w[i], b, i, exact)
      OBVIOUS
    <2>2. Passes(w[i - 1], w[i], b, i) /\ w[i - 1] \in ConnectStates
      BY <1>1, <1>3, <2>1
    <2>3. ConnectedTo(w[i - 1], b, i - 1, exact)
      BY <1>5, <2>2, Zenon DEF Passes
    <2>4. PICK v, r : v = w[i - 1] /\ r = w[i]
      BY Zenon
    <2>5. ConnectedTo(r, b, i, exact)
      BY <2>2, <2>3, <2>4, ConnectedOneMore, Zenon DEF n
    <2>6. QED
      BY <2>4, <2>5, Zenon
  <1>6. n \in T
    <2> HIDE DEF T
    <2>1. n \in Nat
      BY <1>1, Zenon
    <2>2. \A i \in 0 .. n : i \in T
      BY <2>1, <1>4, <1>5, IntervalInduction, Zenon
    <2>3. QED
      BY <2>1, <2>2
  <1>7. ConnectedTo(w[n], b, n, exact) /\ b \notin BadBlock
    BY <1>3, <1>6, Zenon
  <1>8. QED
    BY <1>3, <1>7, Zenon DEF ConnectedTo, n

\* An ordinary block that its chain allows passes when it is connected to the coins before it.
LEMMA ConnectVerdict ==
  ASSUME NEW b \in Block \ {Genesis}, b \in Ordinary, NEW m \in [Tx -> CCoins], StateAt(m, pprev[b]),
         b \notin BadBlock, \A i \in 2 .. Len(vtx[b]) : TxMeets(b, i, TRUE)
  PROVE  ConnectBlock(m, b).ok
  <1> DEFINE n == Len(vtx[b])
  <1>1. n \in Nat \ {0}
    BY BlockFacts, Zenon
  <1>2. PICK w : ConnectRun(w, m, b)
    BY ConnectSteps, Zenon
  <1>3. /\ w[0].ok /\ w[0].coins = m
        /\ \A i \in 0 .. n : w[i] \in ConnectStates
        /\ \A i \in 1 .. n :
              /\ w[i].ok => Passes(w[i - 1], w[i], b, i)
              /\ w[i - 1].ok /\ (i # 1 => Checks(w[i - 1].coins, b, i)) => w[i].ok
        /\ ConnectBlock(m, b).ok <=> w[n].ok /\ b \notin BadBlock
    BY <1>2, ConnectRunFacts
  <1> DEFINE P(i) == w[i].ok /\ StateIn(w[i].coins, b, i)
             T == {i \in 0 .. n : P(i)}
  <1>4. \A i \in 2 .. n : TxMeets(b, i, TRUE)
    BY Zenon
  <1> HIDE DEF n
  <1>5. 0 \in T
    <2>1. StateIn(m, b, 0)
      BY StateBefore, Zenon
    <2>2. QED
      BY <1>1, <1>3, <2>1
  <1>6. ASSUME NEW i \in 1 .. n, i - 1 \in T
        PROVE  i \in T
    <2>1. PICK v, r : v = w[i - 1] /\ r = w[i]
      BY Zenon
    <2>2. /\ v \in ConnectStates /\ v.ok /\ StateIn(v.coins, b, i - 1)
          /\ r.ok => Passes(v, r, b, i)
          /\ (i # 1 => Checks(v.coins, b, i)) => r.ok
      BY <1>1, <1>3, <1>6, <2>1, Zenon
    <2>3. v.coins \in [Tx -> CCoins]
      BY <2>2, Zenon DEF ConnectStates
    <2>4. ASSUME i # 1 PROVE Checks(v.coins, b, i)
      <3>1. i \in 2 .. n
        BY <1>1, <2>4
      <3>2. i \in 2 .. Len(vtx[b]) /\ TxMeets(b, i, TRUE)
        BY <1>4, <3>1, Zenon DEF n
      <3>3. QED
        BY <2>2, <2>3, <3>2, ChecksMeet, Zenon DEF StateIn
    <2>5. Passes(v, r, b, i) /\ r.ok
      BY <2>2, <2>4, Zenon
    <2>6. Connects(v, r, b, i)
      BY <2>2, <2>5, ConnectOne, Zenon DEF n
    <2>7. QED
      BY <2>1, <2>5, <2>6 DEF Connects
  <1>7. n \in T
    <2> HIDE DEF T
    <2>1. n \in Nat
      BY <1>1, Zenon
    <2>2. \A i \in 0 .. n : i \in T
      BY <2>1, <1>5, <1>6, IntervalInduction, Zenon
    <2>3. QED
      BY <2>1, <2>2
  <1>8. QED
    BY <1>3, <1>7, Zenon

-----------------------------------------------------------------------------
\* The chain allows block b, the timestamps of its inputs apart.
Allowed(b) == Closed(pprev[b]) /\ \A i \in 2 .. Len(vtx[b]) : TxMeets(b, i, FALSE)

\* What the first i transactions spend was there before transaction i.
LEMMA GoneMade ==
  ASSUME NEW b \in Block \ {Genesis}, Allowed(b), NEW i \in 1 .. Len(vtx[b])
  PROVE  \A out \in Gone(b, i) : out[1] \in Made(b, i - 1)
  <1>1. /\ Len(vtx[b]) \in Nat
        /\ \A j \in 1 .. Len(vtx[b]) : vtx[b][j] \in Tx
    BY BlockFacts, Zenon
  <1> TAKE out \in Gone(b, i)
  <1>2. CASE out \in Spent[pprev[b]]
    <2>1. out[1] \in TxsOf[pprev[b]]
      BY <1>2, Zenon DEF Allowed, Closed
    <2>2. QED
      BY <2>1, Zenon DEF Made
  <1>3. CASE out \notin Spent[pprev[b]]
    <2>1. PICK j \in 2 .. i : out \in Range(vin[vtx[b][j]])
      BY <1>3, Zenon DEF Gone
    <2>2. j \in 2 .. Len(vtx[b]) /\ vtx[b][j] \in Tx
      BY <1>1
    <2>3. PICK t : t = vtx[b][j]
      BY Zenon
    <2>4. PICK l \in 1 .. Len(vin[t]) : out = vin[t][l]
      <3>1. t \in Tx /\ out \in Range(vin[t])
        BY <2>1, <2>2, <2>3, Zenon
      <3>2. Range(vin[t]) = {vin[t][l] : l \in 1 .. Len(vin[t])}
        BY <3>1, InputFacts, Zenon
      <3>3. QED
        BY <3>1, <3>2, Zenon
    <2>5. Usable(Made(b, j - 1), Gone(b, j - 1), out)
      BY <2>2, <2>3, <2>4, Zenon DEF Allowed, TxMeets, Meets
    <2>6. out[1] \in Made(b, j - 1)
      BY <2>5, Zenon DEF Usable
    <2>7. 1 .. j - 1 \subseteq 1 .. i - 1
      BY <1>1
    <2>8. QED
      BY <2>6, <2>7, Zenon DEF Made
  <1>4. QED
    BY <1>2, <1>3, Zenon

\* The outputs of transaction i are found as the block made them, and removed.
Removes(r, b, i) == r.clean /\ State(r.coins, Made(b, i - 1), Gone(b, i), HeightIn[b])

\* Matches holds and the transaction is as if never connected.
LEMMA RemoveOne ==
  ASSUME NEW b \in Block \ {Genesis}, b \in Ordinary, Allowed(b), NEW i \in 1 .. Len(vtx[b]),
         NEW x \in UndoStates, x.clean, StateIn(x.coins, b, i)
  PROVE  Removes(Removed(x, b, i), b, i)
  <1> DEFINE t == vtx[b][i]
             H == HeightIn[b]
             C == Made(b, i - 1)
             X == Gone(b, i)
  <1>1. t \in Tx /\ Made(b, i) = C \cup {t} /\ t \notin C /\ H[t] = nHeight[b]
    BY BlockFacts, MadeFacts, OrdinaryFacts, HeightFacts, Zenon
  <1>2. \A out \in X : out[1] \in C
    BY GoneMade, Zenon
  <1>3. x.coins \in [Tx -> CCoins] /\ State(x.coins, Made(b, i), X, H)
    BY Zenon DEF UndoStates, StateIn
  <1>4. Removed(x, b, i) = [clean |-> x.clean /\ Matches(x.coins[t], t, H[t]), coins |-> [x.coins EXCEPT ![t] = Null]]
    BY <1>1, Zenon DEF Removed
  <1> HIDE DEF t, H, C, X
  <1>5. Uncreates(x.coins, t, C, X, H)
    BY <1>1, <1>2, <1>3, UncreateOne, Zenon
  <1>6. Removed(x, b, i).clean /\ State(Removed(x, b, i).coins, C, X, H)
    <2>1. Matches(x.coins[t], t, H[t]) /\ State([x.coins EXCEPT ![t] = Null], C, X, H)
      BY <1>5, Zenon DEF Uncreates
    <2>2. PICK k : k = [x.coins EXCEPT ![t] = Null]
      BY Zenon
    <2>3. Removed(x, b, i) = [clean |-> TRUE, coins |-> k]
      BY <1>4, <2>1, <2>2, Zenon
    <2>4. State(k, C, X, H)
      BY <2>1, <2>2, Zenon
    <2>5. QED
      BY <2>3, <2>4
  <1>7. QED
    BY <1>6, Zenon DEF Removes, C, X, H

\* The inputs of transaction i are restored, the last one first.
LEMMA DisconnectOne ==
  ASSUME NEW b \in Block \ {Genesis}, b \in Ordinary, Allowed(b), UndoFits(undo[b], b), UndoRight(undo[b], b),
         NEW i \in 1 .. Len(vtx[b]), NEW x \in UndoStates, x.clean, StateIn(x.coins, b, i), NEW kept
  PROVE  DisconnectTx(x, b, i, kept).clean /\ StateIn(DisconnectTx(x, b, i, kept).coins, b, i - 1)
  <1>0. Removes(Removed(x, b, i), b, i)
    BY RemoveOne, Zenon
  <1>1. CASE i = 1
    <2>1. DisconnectTx(x, b, i, kept) = Removed(x, b, i)
      BY <1>1, Zenon DEF DisconnectTx, Removed
    <2>2. Gone(b, i) = Gone(b, i - 1)
      BY <1>1, GoneFacts
    <2>3. QED
      BY <1>0, <2>1, <2>2, Zenon DEF Removes, StateIn
  <1>2. CASE i # 1
    <2> DEFINE t == vtx[b][i]
               n == Len(vin[t])
               H == HeightIn[b]
               C == Made(b, i - 1)
               D == [j \in 0 .. n |-> GoneIn(b, i, j)]
    <2>1. i \in 2 .. Len(vtx[b]) /\ b \in Block
      BY <1>2
    <2>2. /\ n \in Nat /\ t \in Tx
          /\ \A k \in 1 .. n : Backward(b, i)[k] = n - k + 1
      BY <2>1, BackwardFacts, Zenon
    <2>3. PICK w : RestoreRun(w, x, b, i, kept)
      BY <2>1, RestoreSteps, Zenon
    <2>4. w[0] = Removed(x, b, i) /\ w[n] = DisconnectTx(x, b, i, kept)
      BY <2>3, Zenon DEF RestoreRun
    <2>5. \A k \in 0 .. n : w[k] \in UndoStates
      BY <2>3, Zenon DEF RestoreRun
    <2>6. \A k \in 1 .. n : w[k] = RestoreInput(w[k - 1], vin[t][n - k + 1], undo[b][i - 1][n - k + 1], kept)
      BY <2>2, <2>3, Zenon DEF RestoreRun, RestoreNth
    <2>7. /\ D[0] = Gone(b, i - 1) /\ D[n] = Gone(b, i)
          /\ \A j \in 1 .. n : D[j] = D[j - 1] \cup {vin[t][j]}
      BY <2>1, <2>2, GoneFacts
    <2>8. \A j \in 1 .. n : undo[b][i - 1][j] = UndoEntry(C, D[j - 1], vin[t][j], H)
      BY <2>1, <2>2 DEF UndoRight
    <2>9. \A j \in 1 .. n : Usable(C, D[j - 1], vin[t][j]) /\ H[vin[t][j][1]] \in Nat \ {0}
      <3>1. /\ \A j, l \in 1 .. n : vin[t][j] = vin[t][l] => j = l
        BY <2>2, InputFacts, Zenon
      <3>2. \A j \in 1 .. n : Usable(C, Gone(b, i - 1), vin[t][j])
        BY <2>1, Zenon DEF Allowed, TxMeets, Meets
      <3>3. C \subseteq TxsOf[b]
        <4>1. Made(b, Len(vtx[b])) = TxsOf[b] /\ 1 .. i - 1 \subseteq 1 .. Len(vtx[b])
          BY MadeFacts, BlockFacts, SMTT(30)
        <4>2. QED
          BY <4>1, Zenon DEF Made
      <3> TAKE j \in 1 .. n
      <3>4. D[j - 1] = Gone(b, i - 1) \cup {vin[t][k] : k \in 1 .. j - 1}
        BY <2>2 DEF GoneIn
      <3>5. \A k \in 1 .. j - 1 : vin[t][k] # vin[t][j]
        BY <2>2, <3>1
      <3> HIDE DEF D, C, n, t, H
      <3>6. Usable(C, D[j - 1], vin[t][j])
        BY <3>2, <3>4, <3>5, Zenon DEF Usable
      <3>7. vin[t][j][1] \in TxsOf[b]
        BY <3>3, <3>6, Zenon DEF Usable
      <3>8. H[vin[t][j][1]] \in Nat \ {0}
        BY <2>1, <3>7, HeightPositive, Zenon DEF H
      <3>9. QED
        BY <3>6, <3>8, Zenon
    <2> DEFINE P(k) == w[k].clean /\ State(w[k].coins, C, D[n - k], H)
               T == {k \in 0 .. n : P(k)}
    <2> HIDE DEF D, n, t, C, H
    <2>10. 0 \in T
      <3>1. w[0].clean /\ State(w[0].coins, C, D[n], H)
        BY <1>0, <2>4, <2>7, Zenon DEF Removes, C, H
      <3>2. n - 0 = n
        BY <2>2
      <3>3. QED
        BY <2>2, <3>1, <3>2
    <2>11. ASSUME NEW k \in 1 .. n, k - 1 \in T
           PROVE  k \in T
      <3>1. PICK j \in 1 .. n : j = n - k + 1
        BY <2>2
      <3>2. n - (k - 1) = j /\ n - k = j - 1
        BY <2>2, <3>1
      <3>3. PICK v, r, out, X, Y : v = w[k - 1] /\ r = w[k] /\ out = vin[t][j] /\ X = D[j - 1] /\ Y = D[j]
        BY Zenon
      <3>4. v \in UndoStates /\ v.clean /\ State(v.coins, C, Y, H) /\ Y = X \cup {out}
        BY <2>2, <2>5, <2>7, <2>11, <3>2, <3>3, Zenon
      <3>5. Usable(C, X, out) /\ H[out[1]] \in Nat \ {0}
        BY <2>9, <3>3, Zenon
      <3>6. r = RestoreInput(v, out, UndoEntry(C, X, out, H), kept)
        BY <2>6, <2>8, <3>1, <3>3, Zenon
      <3>7. Restores(v, out, C, X, H, kept)
        BY <3>4, <3>5, RestoreOne, Zenon
      <3>8. r.clean /\ State(r.coins, C, X, H)
        BY <3>4, <3>6, <3>7, Zenon DEF Restores
      <3>9. QED
        BY <3>2, <3>3, <3>8
    <2>12. n \in T
      <3> HIDE DEF T
      <3>1. \A k \in 0 .. n : k \in T
        BY <2>2, <2>10, <2>11, IntervalInduction, Zenon
      <3>2. QED
        BY <2>2, <3>1
    <2>13. w[n].clean /\ State(w[n].coins, C, D[0], H)
      <3>1. n - n = 0
        BY <2>2
      <3>2. QED
        BY <2>12, <3>1, Zenon
    <2>14. QED
      BY <2>4, <2>7, <2>13, Zenon DEF StateIn, C, H
  <1>3. QED
    BY <1>1, <1>2, Zenon

\* An ordinary block that its chain allows is undone without a mismatch, from the coins after it to
\* the coins before it.
LEMMA DisconnectAll ==
  ASSUME NEW b \in Block \ {Genesis}, b \in Ordinary, Allowed(b), UndoFits(undo[b], b), UndoRight(undo[b], b),
         NEW m \in [Tx -> CCoins], StateAt(m, b), NEW kept
  PROVE  DisconnectBlock(m, b, kept).clean /\ StateAt(DisconnectBlock(m, b, kept).coins, pprev[b])
  <1> DEFINE n == Len(vtx[b])
             u == Undone(b)
  <1>1. /\ n \in Nat \ {0} /\ u \in Nat /\ u <= n
        /\ \A k \in 1 .. u : UndoOrder(b)[k] = n - k + 1
    BY UndoOrderFacts, BlockFacts DEF Undone
  <1>2. PICK w : DisconnectRun(w, m, b, kept)
    BY DisconnectSteps, Zenon
  <1>3. /\ w[0] = [clean |-> TRUE, coins |-> m] /\ w[u] = DisconnectBlock(m, b, kept)
        /\ \A k \in 0 .. u : w[k] \in UndoStates
        /\ \A k \in 1 .. u : w[k] = DisconnectTx(w[k - 1], b, n - k + 1, kept)
    BY <1>1, <1>2, Zenon DEF DisconnectRun
  <1> DEFINE P(k) == w[k].clean /\ StateIn(w[k].coins, b, n - k)
             T == {k \in 0 .. u : P(k)}
  <1>4. StateIn(m, b, n)
    BY StateAfter, Zenon
  <1> HIDE DEF n, u
  <1>5. 0 \in T
    <2>1. n - 0 = n
      BY <1>1
    <2>2. QED
      BY <1>1, <1>3, <1>4, <2>1
  <1>6. ASSUME NEW k \in 1 .. u, k - 1 \in T
        PROVE  k \in T
    <2>1. PICK i \in 1 .. n : i = n - k + 1
      BY <1>1
    <2>2. n - (k - 1) = i /\ n - k = i - 1
      BY <1>1, <2>1
    <2>3. PICK v, r : v = w[k - 1] /\ r = w[k]
      BY Zenon
    <2>4. v \in UndoStates /\ v.clean /\ StateIn(v.coins, b, i) /\ r = DisconnectTx(v, b, i, kept)
      BY <1>1, <1>3, <1>6, <2>1, <2>2, <2>3, Zenon
    <2>5. r.clean /\ StateIn(r.coins, b, i - 1)
      BY <2>4, DisconnectOne, Zenon DEF n
    <2>6. QED
      BY <2>2, <2>3, <2>5
  <1>7. u \in T
    <2> HIDE DEF T
    <2>1. \A k \in 0 .. u : k \in T
      BY <1>1, <1>5, <1>6, IntervalInduction, Zenon
    <2>2. QED
      BY <1>1, <2>1
  <1>8. PICK r : r = DisconnectBlock(m, b, kept)
    BY Zenon
  <1>9. r.clean /\ StateIn(r.coins, b, n - u)
    BY <1>3, <1>7, <1>8, Zenon
  <1>10. StateIn(r.coins, b, 0)
    <2>1. CASE IsProofOfStake(b)
      <3>1. n - u = 1
        BY <1>1, <2>1 DEF n, u, Undone, First
      <3>2. 1 \in 1 .. Len(vtx[b])
        BY <1>1 DEF n
      <3>3. PICK s : s = vtx[b][1]
        BY Zenon
      <3>4. s \in StakeCoinBase /\ s \in Tx
        BY <2>1, <3>2, <3>3, BlockFacts, Zenon DEF StakeCoinBase
      <3>5. Made(b, 1) = Made(b, 0) \cup {s} /\ s \notin Made(b, 0)
        <4>1. Made(b, 1) = Made(b, 1 - 1) \cup {s} /\ s \notin Made(b, 1 - 1)
          BY <3>2, <3>3, MadeFacts, OrdinaryFacts, Zenon
        <4>2. 1 - 1 = 0
          OBVIOUS
        <4>3. QED
          BY <4>1, <4>2, Zenon
      <3>6. \A out \in Gone(b, 1) : out[1] \in Made(b, 0)
        BY <3>2, GoneMade
      <3>7. Gone(b, 0) = Gone(b, 1)
        BY GoneFacts, Zenon
      <3>8. State(r.coins, Made(b, 1), Gone(b, 1), HeightIn[b])
        BY <1>9, <3>1, Zenon DEF StateIn
      <3>9. State(r.coins, Made(b, 0), Gone(b, 1), HeightIn[b])
        BY <3>4, <3>5, <3>6, <3>8, PassOver, Zenon
      <3>10. QED
        BY <3>7, <3>9, Zenon DEF StateIn
    <2>2. CASE ~IsProofOfStake(b)
      <3>1. n - u = 0
        BY <1>1, <2>2 DEF n, u, Undone, First
      <3>2. QED
        BY <1>9, <3>1, Zenon
    <2>3. QED
      BY <2>1, <2>2, Zenon
  <1>11. QED
    BY <1>8, <1>9, <1>10, StateBefore, Zenon

-----------------------------------------------------------------------------
\* Every block of the chains of tip, of pcoinsTip and of the coin database has its undo data.
Kept ==
  /\ \A b \in (Chain[tip] \cup Chain[best]) \ {Genesis} : undo[b] # NoUndo
  /\ \A b \in Chain[diskBest] \ {Genesis} : undoDisk[b] # NoUndo

\* The undo data of b is the one the chain determines, and the chain allowed b.
Exact(u, b) == UndoRight(u, b) /\ Allowed(b) /\ b \notin BadBlock /\ b \in Ordinary
Right == {"undo", "odd"} \cap lost = {} => \A b \in Block : undo[b] # NoUndo => Exact(undo[b], b)

\* The coins, in memory and on disk, are those after their best block.
MemoryRight == {"memory", "undo", "odd"} \cap lost = {} => StateAt(coins, best)
DiskRight == {"disk", "undo", "odd"} \cap lost = {} => StateAt(disk, diskBest)

Verdicts ==
  /\ "memory" \in lost \/ "disk" \in lost \/ "undo" \in lost => "ever" \in lost
  /\ {"ever", "odd"} \cap lost = {} => \A b \in failed \cap Ordinary : ~Acceptable[TRUE][b]

IInv == TypeOK /\ Kept /\ Right /\ MemoryRight /\ DiskRight /\ Verdicts /\ StakeSpentSound

\* What is assumed of the tree of blocks.
LEMMA TreeFacts ==
  ASSUME NEW b \in Block
  PROVE  /\ Chain[b] \subseteq Block /\ b \in Chain[b] /\ nHeight[b] \in Nat
         /\ b # Genesis => pprev[b] \in Block /\ Chain[b] = Chain[pprev[b]] \cup {b}
  BY UndoAssumption, Zenon

\* ConnectBlock keeps the types.
LEMMA ConnectBlockTyped ==
  ASSUME NEW b \in Block \ {Genesis}, NEW m \in [Tx -> CCoins]
  PROVE  ConnectBlock(m, b) \in ConnectStates
  <1>1. PICK w : ConnectRun(w, m, b)
    BY ConnectSteps, Zenon
  <1>2. PICK v : v = w[Len(vtx[b])]
    BY Zenon
  <1>3. v \in ConnectStates
    <2>1. Len(vtx[b]) \in 0 .. Len(vtx[b]) /\ w \in [0 .. Len(vtx[b]) -> ConnectStates]
      BY <1>1, BlockFacts DEF ConnectRun
    <2>2. QED
      BY <1>2, <2>1, Zenon
  <1>4. ConnectBlock(m, b) = [v EXCEPT !.ok = @ /\ b \notin BadBlock]
    BY <1>1, <1>2, Zenon DEF ConnectRun
  <1>5. QED
    BY <1>3, <1>4, Zenon DEF ConnectStates

\* What connecting block b, which passes, to the coins m leaves.
ConnectLeaves(w, m, b) ==
  /\ w.coins \in [Tx -> CCoins] /\ w.vtxundo \in Seq(Seq(CTxInUndo))
  /\ Len(w.vtxundo) = Len(vtx[b]) - 1
  /\ \A i \in 2 .. Len(vtx[b]) : Len(w.vtxundo[i - 1]) = Len(vin[vtx[b][i]])
  /\ b \in Ordinary /\ StateAt(m, pprev[b]) => StateAt(w.coins, b) /\ Exact(w.vtxundo, b)

\* ConnectBlock leaves that.
LEMMA ConnectFacts ==
  ASSUME NEW b \in Block \ {Genesis}, NEW m \in [Tx -> CCoins], ConnectBlock(m, b).ok
  PROVE  ConnectLeaves(ConnectBlock(m, b), m, b)
  <1>1. PICK w : w = ConnectBlock(m, b)
    BY Zenon
  <1>2. w.coins \in [Tx -> CCoins] /\ w.vtxundo \in Seq(Seq(CTxInUndo)) /\ Len(vtx[b]) \in Nat \ {0}
    BY <1>1, ConnectBlockTyped, BlockFacts, Zenon DEF ConnectStates
  <1>3. ASSUME NEW exact \in BOOLEAN, exact => b \in Ordinary /\ StateAt(m, pprev[b])
        PROVE  ConnectedTo(w, b, Len(vtx[b]), exact) /\ b \notin BadBlock
    BY <1>1, <1>3, ConnectPasses, Zenon
  <1>4. /\ Len(w.vtxundo) = Len(vtx[b]) - 1
        /\ \A i \in 2 .. Len(vtx[b]) : Len(w.vtxundo[i - 1]) = Len(vin[vtx[b][i]])
    <2>1. ConnectedTo(w, b, Len(vtx[b]), FALSE)
      BY <1>3, Zenon
    <2>2. QED
      BY <1>2, <2>1, Zenon DEF ConnectedTo
  <1>5. ASSUME b \in Ordinary, StateAt(m, pprev[b])
        PROVE  StateAt(w.coins, b) /\ Exact(w.vtxundo, b)
    <2>1. ConnectedTo(w, b, Len(vtx[b]), TRUE) /\ b \notin BadBlock
      BY <1>3, <1>5, Zenon
    <2>2. StateIn(w.coins, b, Len(vtx[b]))
      BY <2>1, Zenon DEF ConnectedTo
    <2>3. \A i \in 2 .. Len(vtx[b]) : TxMeets(b, i, FALSE) /\ TxUndoRight(w.vtxundo[i - 1], b, i)
      BY <2>1, Zenon DEF ConnectedTo
    <2>4. Closed(pprev[b])
      BY <1>5, Zenon DEF StateAt, State, Closed
    <2>5. StateAt(w.coins, b)
      BY <2>2, StateAfter, Zenon
    <2>6. UndoRight(w.vtxundo, b)
      BY <2>3, Zenon DEF UndoRight, TxUndoRight
    <2>7. QED
      BY <1>5, <2>1, <2>3, <2>4, <2>5, <2>6, Zenon DEF Allowed, Exact
  <1>6. QED
    BY <1>1, <1>2, <1>4, <1>5, Zenon DEF ConnectLeaves

\* mapStakeSpent after ConnectBlock names what the chain to b spends.
LEMMA StakeConnected ==
  ASSUME NEW b \in Block \ {Genesis}, NEW s \in StakeSpentConnected(b),
         \A p \in mapStakeSpent : \E x \in Chain[pprev[b]] : nHeight[x] = p[2] /\ p[1] \in Inputs[x]
  PROVE  \A p \in s : \E x \in Chain[b] : nHeight[x] = p[2] /\ p[1] \in Inputs[x]
  <1>1. b \in Chain[b] /\ Chain[pprev[b]] \subseteq Chain[b]
    BY TreeFacts, Zenon
  <1>2. ASSUME NEW p \in s
        PROVE  p \in mapStakeSpent \/ \E out \in Inputs[b] : p = <<out, nHeight[b]>>
    BY <1>2, Zenon DEF StakeSpentConnected
  <1>3. QED
    BY <1>1, <1>2

\* ConnectTip keeps the invariant, with a flush, without one and with a refused one.
LEMMA ConnectTipKeeps ==
  ASSUME IInv, NEW b \in Block, ConnectTip(b)
  PROVE  IInv'
  <1> DEFINE missing == lost \cup (IF "memory" \in lost THEN {"undo"} ELSE {})
                             \cup (IF b \in Ordinary THEN {} ELSE {"odd"})
  <1>1. /\ b \in Block \ {Genesis} /\ pprev[b] = tip /\ best = tip /\ tip \in Block
        /\ coins \in [Tx -> CCoins] /\ disk \in [Tx -> CCoins] /\ failed' = failed
    BY Zenon DEF ConnectTip, IInv, TypeOK
  <1>2. PICK w :
          /\ w = ConnectBlock(coins, b) /\ w.ok
          /\ undo' = [undo EXCEPT ![b] = IF @ = NoUndo THEN w.vtxundo ELSE @]
          /\ \/ /\ FlushStateToDisk(w.coins, b, undo', missing) \/ Unflushed(w.coins, b, missing)
                /\ tip' = b
             \/ FlushFails(b, undo', missing) /\ UNCHANGED tip
    BY Zenon DEF ConnectTip
  <1>3. ConnectLeaves(w, coins, b)
    BY <1>1, <1>2, ConnectFacts, Zenon
  <1>4. lost \subseteq missing /\ ("undo" \in missing <=> "undo" \in lost \/ "memory" \in lost)
        /\ ("memory" \in missing <=> "memory" \in lost) /\ ("disk" \in missing <=> "disk" \in lost)
        /\ ("ever" \in missing <=> "ever" \in lost) /\ ("odd" \in missing <=> "odd" \in lost \/ b \notin Ordinary)
        /\ ("memory" \in missing \/ "disk" \in missing \/ "undo" \in missing => "ever" \in missing)
        /\ missing \subseteq {"memory", "disk", "undo", "ever", "odd"}
    BY Zenon DEF IInv, Verdicts, TypeOK
  <1>5. w.vtxundo # NoUndo /\ w.vtxundo \in Seq(Seq(CTxInUndo))
    BY <1>3, BlockAssumption, Zenon DEF ConnectLeaves
  <1>6. /\ undo \in [Block -> {NoUndo} \cup Seq(Seq(CTxInUndo))]
        /\ undo' \in [Block -> {NoUndo} \cup Seq(Seq(CTxInUndo))]
        /\ undo'[b] = IF undo[b] = NoUndo THEN w.vtxundo ELSE undo[b]
        /\ \A x \in Block \ {b} : undo'[x] = undo[x]
    BY <1>1, <1>2, <1>5, Zenon DEF IInv, TypeOK
  <1>7. undo'[b] # NoUndo /\ \A x \in Block : undo[x] # NoUndo => undo'[x] = undo[x]
    BY <1>5, <1>6, Zenon
  <1> HIDE DEF missing
  <1>8. UNCHANGED undoDisk \/ undoDisk' = undo'
    BY <1>2, Zenon DEF FlushStateToDisk, Unflushed, FlushFails
  <1>9. /\ undoDisk' \in [Block -> {NoUndo} \cup Seq(Seq(CTxInUndo))]
        /\ \A x \in Block : undoDisk'[x] \in {NoUndo, undo'[x]}
        /\ \A x \in Block : undoDisk[x] # NoUndo => undoDisk'[x] # NoUndo
    <2>1. /\ undoDisk \in [Block -> {NoUndo} \cup Seq(Seq(CTxInUndo))]
          /\ \A x \in Block : undoDisk[x] \in {NoUndo, undo[x]}
      BY Zenon DEF IInv, TypeOK
    <2>2. QED
      BY <1>6, <1>7, <1>8, <2>1, Zenon
  <1>10. /\ best' = b /\ tip' \in {b, tip}
         /\ coins' \in {w.coins, disk} /\ disk' \in {w.coins, disk}
         /\ diskBest' \in {b, diskBest} /\ lost' \subseteq {"memory", "disk", "undo", "ever", "odd"}
    BY <1>2, <1>4, Zenon DEF FlushStateToDisk, Unflushed, FlushFails
  <1>11. TypeOK'
    <2>1. tip' \in Block /\ best' \in Block /\ diskBest' \in Block
      BY <1>1, <1>10, Zenon DEF IInv, TypeOK
    <2>2. coins' \in [Tx -> CCoins] /\ disk' \in [Tx -> CCoins]
      BY <1>1, <1>3, <1>10, Zenon DEF ConnectLeaves
    <2>3. ASSUME NEW x \in Block, undo'[x] # NoUndo
          PROVE  /\ x # Genesis /\ Len(undo'[x]) = Len(vtx[x]) - 1
                 /\ \A i \in 2 .. Len(vtx[x]) : Len(undo'[x][i - 1]) = Len(vin[vtx[x][i]])
      <3>1. CASE undo[x] # NoUndo
        <4>1. /\ x # Genesis /\ Len(undo[x]) = Len(vtx[x]) - 1
              /\ \A i \in 2 .. Len(vtx[x]) : Len(undo[x][i - 1]) = Len(vin[vtx[x][i]])
          BY <3>1, Zenon DEF IInv, TypeOK
        <4>2. undo'[x] = undo[x]
          BY <3>1, <1>7, Zenon
        <4>3. QED
          BY <4>1, <4>2, Zenon
      <3>2. CASE undo[x] = NoUndo
        <4>1. x = b /\ undo'[x] = w.vtxundo
          BY <2>3, <3>2, <1>6, Zenon
        <4>2. QED
          BY <4>1, <1>1, <1>3, Zenon DEF ConnectLeaves
      <3>3. QED
        BY <3>1, <3>2, Zenon
    <2>4. failed' \subseteq Block \ {Genesis}
      BY <1>1, Zenon DEF IInv, TypeOK
    <2>5. QED
      BY <1>6, <1>9, <1>10, <2>1, <2>2, <2>3, <2>4, Zenon DEF TypeOK
  <1>12. Kept'
    <2>1. Chain[b] = Chain[tip] \cup {b} /\ Chain[tip] \subseteq Block /\ Chain[diskBest] \subseteq Block
      BY <1>1, TreeFacts, Zenon DEF IInv, TypeOK
    <2>2. \A x \in Chain[b] \ {Genesis} : undo'[x] # NoUndo
      BY <2>1, <1>7, Zenon DEF IInv, Kept
    <2>3. \A x \in (Chain[tip'] \cup Chain[best']) \ {Genesis} : undo'[x] # NoUndo
      BY <1>10, <2>1, <2>2, Zenon
    <2>4. ASSUME NEW x \in Chain[diskBest'] \ {Genesis}
          PROVE  undoDisk'[x] # NoUndo
      <3>1. CASE UNCHANGED diskBest
        BY <3>1, <1>9, <2>1, Zenon DEF IInv, Kept
      <3>2. CASE diskBest' # diskBest
        <4>1. diskBest' = b /\ undoDisk' = undo'
          BY <3>2, <1>2, Zenon DEF FlushStateToDisk, Unflushed, FlushFails
        <4>2. QED
          BY <4>1, <2>2, Zenon
      <3>3. QED
        BY <3>1, <3>2, Zenon
    <2>5. QED
      BY <2>3, <2>4, Zenon DEF Kept
  <1>13. {"memory", "undo", "odd"} \cap lost = {} /\ b \in Ordinary =>
           StateAt(w.coins, b) /\ Exact(w.vtxundo, b)
    BY <1>1, <1>3, Zenon DEF IInv, MemoryRight, ConnectLeaves
  <1>14. missing \subseteq lost'
    BY <1>2, Zenon DEF FlushStateToDisk, Unflushed, FlushFails
  <1>15. {"undo", "odd"} \cap lost' = {} => {"memory", "undo", "odd"} \cap lost = {} /\ b \in Ordinary
    BY <1>4, <1>14, Zenon
  <1>16. Right'
    <2>1. SUFFICES ASSUME {"undo", "odd"} \cap lost' = {}, NEW x \in Block, undo'[x] # NoUndo
                   PROVE  Exact(undo'[x], x)
      BY Zenon DEF Right, Exact
    <2>2. CASE undo[x] # NoUndo
      BY <2>1, <2>2, <1>7, <1>15, Zenon DEF IInv, Right
    <2>3. CASE undo[x] = NoUndo
      <3>1. x = b /\ undo'[x] = w.vtxundo
        BY <2>1, <2>3, <1>6, Zenon
      <3>2. Exact(w.vtxundo, b)
        BY <2>1, <1>13, <1>15, Zenon
      <3>3. QED
        BY <3>1, <3>2, Zenon
    <2>4. QED
      BY <2>2, <2>3, Zenon
  <1>17. MemoryRight'
    <2>1. SUFFICES ASSUME {"memory", "undo", "odd"} \cap lost' = {}
                   PROVE  StateAt(coins', best')
      BY Zenon DEF MemoryRight
    <2>2. coins' = w.coins /\ best' = b
      BY <2>1, <1>2, Zenon DEF FlushStateToDisk, Unflushed, FlushFails
    <2>3. StateAt(w.coins, b)
      BY <2>1, <1>13, <1>15, Zenon
    <2>4. QED
      BY <2>2, <2>3, Zenon
  <1>18. DiskRight'
    <2>1. SUFFICES ASSUME {"disk", "undo", "odd"} \cap lost' = {}
                   PROVE  StateAt(disk', diskBest')
      BY Zenon DEF DiskRight
    <2>2. {"disk", "undo", "odd"} \cap lost = {} /\ StateAt(w.coins, b)
      BY <2>1, <1>4, <1>13, <1>14, <1>15, Zenon
    <2>3. CASE disk' = w.coins /\ diskBest' = b
      BY <2>2, <2>3, Zenon
    <2>4. CASE UNCHANGED <<disk, diskBest>>
      BY <2>2, <2>4, Zenon DEF IInv, DiskRight
    <2>5. QED
      BY <2>3, <2>4, <1>2, Zenon DEF FlushStateToDisk, Unflushed, FlushFails
  <1>19. Verdicts'
    <2>1. "memory" \in lost' \/ "disk" \in lost' \/ "undo" \in lost' => "ever" \in lost'
      BY <1>2, <1>4, Zenon DEF FlushStateToDisk, Unflushed, FlushFails
    <2>2. {"ever", "odd"} \cap lost' = {} => {"ever", "odd"} \cap lost = {}
      BY <1>4, <1>14, Zenon
    <2>3. QED
      BY <1>1, <2>1, <2>2, Zenon DEF IInv, Verdicts
  <1>20. StakeSpentSound'
    <2>1. SUFFICES ASSUME "ever" \notin lost'
                   PROVE  \A p \in mapStakeSpent' : \E x \in Chain[tip'] : nHeight[x] = p[2] /\ p[1] \in Inputs[x]
      BY Zenon DEF StakeSpentSound
    <2>2. tip' = b /\ "ever" \notin lost
      BY <2>1, <1>2, <1>4, <1>14, Zenon DEF FlushFails
    <2>3. \A p \in mapStakeSpent : \E x \in Chain[pprev[b]] : nHeight[x] = p[2] /\ p[1] \in Inputs[x]
      BY <1>1, <2>2, Zenon DEF IInv, StakeSpentSound
    <2>4. mapStakeSpent' \in StakeSpentConnected(b)
      BY Zenon DEF ConnectTip
    <2>5. QED
      BY <1>1, <2>2, <2>3, <2>4, StakeConnected, Zenon
  <1>21. QED
    BY <1>11, <1>12, <1>16, <1>17, <1>18, <1>19, <1>20, Zenon DEF IInv

\* It holds at first, with no block but the genesis block.
LEMMA InitKeeps ==
  Init => IInv
  <1> SUFFICES ASSUME Init PROVE IInv
    BY Zenon
  <1>1. Genesis \in Block /\ Chain[Genesis] = {Genesis}
    BY UndoAssumption, Zenon
  <1>2. TypeOK
    BY <1>1, NullTyped, Zenon DEF Init, TypeOK
  <1>3. Kept /\ Right /\ Verdicts /\ StakeSpentSound
    BY <1>1, Zenon DEF Init, Kept, Right, Verdicts, StakeSpentSound
  <1>4. TxsOf[Genesis] = {} /\ Spent[Genesis] = {}
    BY <1>1, Zenon DEF TxsOf, Spent
  <1>5. ASSUME NEW m, m = [t \in Tx |-> Null]
        PROVE  StateAt(m, Genesis)
    <2>1. \A t \in Tx : m[t] = Null /\ m[t].vout = {}
      BY <1>5, Zenon DEF Null
    <2>2. \A t \in Tx : Left({}, {}, t) = {}
      BY Zenon DEF Left
    <2>3. State(m, {}, {}, HeightIn[Genesis])
      BY <2>1, <2>2, Zenon DEF State, Entry
    <2>4. QED
      BY <1>4, <2>3, Zenon DEF StateAt
  <1>6. MemoryRight /\ DiskRight
    BY <1>5, Zenon DEF Init, MemoryRight, DiskRight
  <1>7. QED
    BY <1>2, <1>3, <1>6, Zenon DEF IInv

\* An ordinary block is marked as failed only when its chain forbids it.
LEMMA ConnectTipInvalidKeeps ==
  ASSUME IInv, NEW b \in Block, ConnectTipInvalid(b)
  PROVE  IInv'
  <1>1. /\ b \in Block \ {Genesis} /\ pprev[b] = best /\ coins \in [Tx -> CCoins]
        /\ ~ConnectBlock(coins, b).ok
    BY Zenon DEF ConnectTipInvalid, IInv, TypeOK
  <1>2. ASSUME {"ever", "odd"} \cap lost = {}, b \in Ordinary
        PROVE  ~Acceptable[TRUE][b]
    <2>1. SUFFICES ASSUME Acceptable[TRUE][b] PROVE FALSE
      BY Zenon
    <2>2. StateAt(coins, pprev[b])
      BY <1>1, <1>2, Zenon DEF IInv, Verdicts, MemoryRight
    <2>3. Closed(pprev[b])
      BY <2>2, Zenon DEF StateAt, State, Closed
    <2>4. b \notin BadBlock /\ \A i \in 2 .. Len(vtx[b]) : TxMeets(b, i, TRUE)
      BY <1>1, <1>2, <2>1, <2>3, AcceptableMeets, Zenon
    <2>5. ConnectBlock(coins, b).ok
      BY <1>1, <1>2, <2>2, <2>4, ConnectVerdict, Zenon
    <2>6. QED
      BY <1>1, <2>5, Zenon
  <1>3. UNCHANGED <<tip, coins, best, disk, diskBest, undo, undoDisk, mapStakeSpent, lost>>
    BY Zenon DEF ConnectTipInvalid
  <1>4. Verdicts'
    BY <1>2, <1>3, Zenon DEF ConnectTipInvalid, IInv, Verdicts
  <1>5. TypeOK'
    <2>1. failed' \subseteq Block \ {Genesis}
      BY <1>1, Zenon DEF ConnectTipInvalid, IInv, TypeOK
    <2>2. QED
      BY <1>3, <2>1, Zenon DEF IInv, TypeOK
  <1>6. Kept' /\ Right' /\ MemoryRight' /\ DiskRight' /\ StakeSpentSound'
    BY <1>3, Zenon DEF IInv, Kept, Right, MemoryRight, DiskRight, StakeSpentSound
  <1>7. QED
    BY <1>4, <1>5, <1>6, Zenon DEF IInv

\* The undo data of a block has the entries its inputs need.
LEMMA TypedUndoFits ==
  ASSUME TypeOK, NEW b \in Block, undo[b] # NoUndo
  PROVE  UndoFits(undo[b], b) /\ b # Genesis
  <1>1. /\ undo[b] \in Seq(Seq(CTxInUndo)) /\ b # Genesis /\ Len(undo[b]) = Len(vtx[b]) - 1
        /\ \A i \in 2 .. Len(vtx[b]) : Len(undo[b][i - 1]) = Len(vin[vtx[b][i]])
    BY Zenon DEF TypeOK
  <1>2. Len(vtx[b]) \in Nat
    BY <1>1, BlockFacts, Zenon
  <1>3. ASSUME NEW i \in 2 .. Len(vtx[b])
        PROVE  undo[b][i - 1] \in Seq(CTxInUndo)
    BY <1>1, <1>2
  <1>4. ASSUME NEW i \in 2 .. Len(vtx[b]), NEW j \in 1 .. Len(vin[vtx[b][i]])
        PROVE  undo[b][i - 1][j] \in CTxInUndo
    <2>1. PICK u : u = undo[b][i - 1]
      BY Zenon
    <2>2. u \in Seq(CTxInUndo) /\ j \in 1 .. Len(u)
      BY <1>1, <1>3, <2>1, Zenon
    <2>3. QED
      BY <2>1, <2>2
  <1>5. QED
    BY <1>1, <1>4, Zenon DEF UndoFits

\* DisconnectBlock keeps the types.
LEMMA DisconnectBlockTyped ==
  ASSUME NEW b \in Block \ {Genesis}, UndoFits(undo[b], b), NEW m \in [Tx -> CCoins], NEW kept
  PROVE  DisconnectBlock(m, b, kept).coins \in [Tx -> CCoins]
  <1>1. PICK w : DisconnectRun(w, m, b, kept)
    BY DisconnectSteps, Zenon
  <1>2. w \in [0 .. Undone(b) -> UndoStates] /\ Undone(b) \in 0 .. Undone(b)
    BY <1>1, UndoOrderFacts DEF DisconnectRun
  <1>3. DisconnectBlock(m, b, kept) \in UndoStates
    BY <1>1, <1>2, Zenon DEF DisconnectRun
  <1>4. QED
    BY <1>3, Zenon DEF UndoStates

\* What undoing the tip leaves.
LEMMA DisconnectFacts ==
  ASSUME IInv, best = tip, tip # Genesis, NEW kept
  PROVE  /\ DisconnectBlock(coins, tip, kept).coins \in [Tx -> CCoins]
         /\ {"memory", "undo", "odd"} \cap lost = {} =>
              /\ DisconnectBlock(coins, tip, kept).clean
              /\ StateAt(DisconnectBlock(coins, tip, kept).coins, pprev[tip])
  <1>1. tip \in Block \ {Genesis} /\ coins \in [Tx -> CCoins]
    BY Zenon DEF IInv, TypeOK
  <1>2. undo[tip] # NoUndo
    BY <1>1, TreeFacts, Zenon DEF IInv, Kept
  <1>3. UndoFits(undo[tip], tip)
    BY <1>1, <1>2, TypedUndoFits, Zenon DEF IInv
  <1>4. DisconnectBlock(coins, tip, kept).coins \in [Tx -> CCoins]
    BY <1>1, <1>3, DisconnectBlockTyped, Zenon
  <1>5. ASSUME {"memory", "undo", "odd"} \cap lost = {}
        PROVE  /\ DisconnectBlock(coins, tip, kept).clean
               /\ StateAt(DisconnectBlock(coins, tip, kept).coins, pprev[tip])
    <2>1. StateAt(coins, tip)
      BY <1>5, Zenon DEF IInv, MemoryRight
    <2>2. UndoRight(undo[tip], tip) /\ Allowed(tip) /\ tip \in Ordinary
      BY <1>1, <1>2, <1>5, Zenon DEF IInv, Right, Exact
    <2>3. QED
      BY <1>1, <1>3, <2>1, <2>2, DisconnectAll, Zenon
  <1>6. QED
    BY <1>4, <1>5, Zenon

\* DisconnectTip keeps the invariant, also when the view is dropped or the flush refused.
LEMMA DisconnectTipKeeps ==
  ASSUME IInv, DisconnectTip
  PROVE  IInv'
  <1>1. /\ tip \in Block \ {Genesis} /\ best = tip /\ tip # Genesis /\ UNCHANGED <<undo, failed>>
        /\ mapStakeSpent' = StakeSpentDisconnected(tip) /\ disk \in [Tx -> CCoins]
    BY Zenon DEF DisconnectTip, IInv, TypeOK
  <1>2. PICK kept, w :
          /\ w = DisconnectBlock(coins, tip, kept)
          /\ \/ /\ w.clean
                /\ \/ /\ \/ FlushStateToDisk(w.coins, pprev[tip], undo, lost)
                         \/ Unflushed(w.coins, pprev[tip], lost)
                      /\ tip' = pprev[tip]
                   \/ FlushFails(pprev[tip], undo, lost) /\ UNCHANGED tip
             \/ /\ ~w.clean
                /\ UNCHANGED <<tip, coins, best, disk, diskBest, undoDisk, lost>>
    BY Zenon DEF DisconnectTip
  <1>3. /\ w.coins \in [Tx -> CCoins]
        /\ {"memory", "undo", "odd"} \cap lost = {} => StateAt(w.coins, pprev[tip])
    BY <1>1, <1>2, DisconnectFacts, Zenon
  <1>4. pprev[tip] \in Block /\ Chain[tip] = Chain[pprev[tip]] \cup {tip} /\ Chain[tip] \subseteq Block
    BY <1>1, TreeFacts, Zenon
  <1>5. CASE UNCHANGED <<tip, coins, best, disk, diskBest, undoDisk, lost>>
    <2>1. TypeOK'
      BY <1>1, <1>5, Zenon DEF IInv, TypeOK
    <2>2. Kept' /\ Right' /\ MemoryRight' /\ DiskRight' /\ Verdicts'
      BY <1>1, <1>5, Zenon DEF IInv, Kept, Right, MemoryRight, DiskRight, Verdicts
    <2>3. StakeSpentSound'
      BY <1>1, <1>5, Zenon DEF IInv, StakeSpentSound, StakeSpentDisconnected
    <2>4. QED
      BY <2>1, <2>2, <2>3, Zenon DEF IInv
  <1>6. CASE /\ \/ FlushStateToDisk(w.coins, pprev[tip], undo, lost)
                \/ Unflushed(w.coins, pprev[tip], lost)
             /\ tip' = pprev[tip]
    <2>1. /\ coins' = w.coins /\ best' = pprev[tip] /\ tip' = pprev[tip]
          /\ \/ disk' = w.coins /\ diskBest' = pprev[tip] /\ undoDisk' = undo
             \/ UNCHANGED <<disk, diskBest, undoDisk>>
      BY <1>6, Zenon DEF FlushStateToDisk, Unflushed
    <2>2. TypeOK'
      <3>1. lost' \subseteq {"memory", "disk", "undo", "ever", "odd"}
        BY <1>6, Zenon DEF FlushStateToDisk, Unflushed, IInv, TypeOK
      <3>2. QED
        BY <1>1, <1>3, <1>4, <2>1, <3>1 DEF IInv, TypeOK
    <2>3. Kept'
      BY <1>1, <1>4, <2>1, Zenon DEF IInv, Kept
    <2>4. Right'
      BY <1>1, <1>6, Zenon DEF FlushStateToDisk, Unflushed, IInv, Right
    <2>5. MemoryRight'
      BY <1>3, <1>6, Zenon DEF FlushStateToDisk, Unflushed, MemoryRight
    <2>6. DiskRight'
      BY <1>3, <1>6, Zenon DEF FlushStateToDisk, Unflushed, IInv, DiskRight
    <2>7. Verdicts'
      BY <1>1, <1>6, Zenon DEF FlushStateToDisk, Unflushed, IInv, Verdicts
    <2>8. StakeSpentSound'
      <3>1. SUFFICES ASSUME "ever" \notin lost', NEW p \in mapStakeSpent'
                     PROVE  \E x \in Chain[tip'] : nHeight[x] = p[2] /\ p[1] \in Inputs[x]
        BY Zenon DEF StakeSpentSound
      <3>2. "ever" \notin lost
        BY <1>6, <3>1, Zenon DEF FlushStateToDisk, Unflushed
      <3>3. p \in mapStakeSpent /\ p[1] \notin Inputs[tip]
        BY <1>1, Zenon DEF StakeSpentDisconnected
      <3>4. QED
        BY <1>4, <2>1, <3>2, <3>3, Zenon DEF IInv, StakeSpentSound
    <2>9. QED
      BY <2>2, <2>3, <2>4, <2>5, <2>6, <2>7, <2>8 DEF IInv
  <1>7. CASE FlushFails(pprev[tip], undo, lost) /\ UNCHANGED tip
    <2>1. /\ coins' = disk /\ best' = pprev[tip] /\ undoDisk' = undo /\ UNCHANGED <<disk, diskBest, tip>>
          /\ lost' = lost \cup {"memory", "ever"}
      BY <1>7, Zenon DEF FlushFails
    <2>2. TypeOK'
      BY <1>1, <1>4, <2>1 DEF IInv, TypeOK
    <2>3. Kept'
      <3>1. \A x \in Block : undoDisk[x] # NoUndo => undo[x] # NoUndo
        BY Zenon DEF IInv, TypeOK
      <3>2. Chain[diskBest] \subseteq Block
        BY TreeFacts, Zenon DEF IInv, TypeOK
      <3>3. QED
        BY <1>1, <1>4, <2>1, <3>1, <3>2, Zenon DEF IInv, Kept
    <2>4. Right' /\ MemoryRight' /\ DiskRight' /\ Verdicts' /\ StakeSpentSound'
      BY <1>1, <2>1, Zenon DEF IInv, Right, MemoryRight, DiskRight, Verdicts, StakeSpentSound
    <2>5. QED
      BY <2>2, <2>3, <2>4, Zenon DEF IInv
  <1>8. QED
    BY <1>2, <1>5, <1>6, <1>7, Zenon

\* A flush keeps the invariant, also a refused one.
LEMMA FlushKeeps ==
  ASSUME IInv, Flush
  PROVE  IInv'
  <1>1. UNCHANGED <<tip, undo, failed, mapStakeSpent>> /\ best' = best
    BY Zenon DEF Flush, FlushStateToDisk, FlushFails
  <1>2. CASE FlushStateToDisk(coins, best, undo, lost)
    <2>1. /\ coins' = coins /\ disk' = coins /\ diskBest' = best /\ undoDisk' = undo
          /\ lost' = IF "memory" \in lost THEN lost \cup {"disk"} ELSE lost
      BY <1>2, Zenon DEF FlushStateToDisk
    <2>2. TypeOK'
      BY <1>1, <2>1, Zenon DEF IInv, TypeOK
    <2>3. Kept' /\ Right' /\ MemoryRight' /\ DiskRight' /\ Verdicts' /\ StakeSpentSound'
      BY <1>1, <2>1, Zenon DEF IInv, Kept, Right, MemoryRight, DiskRight, Verdicts, StakeSpentSound
    <2>4. QED
      BY <2>2, <2>3, Zenon DEF IInv
  <1>3. CASE FlushFails(best, undo, lost)
    <2>1. /\ coins' = disk /\ undoDisk' = undo /\ UNCHANGED <<disk, diskBest>>
          /\ lost' = lost \cup {"memory", "ever"}
      BY <1>3, Zenon DEF FlushFails
    <2>2. TypeOK'
      BY <1>1, <2>1, Zenon DEF IInv, TypeOK
    <2>3. Kept'
      <3>1. \A x \in Block : undoDisk[x] # NoUndo => undo[x] # NoUndo
        BY Zenon DEF IInv, TypeOK
      <3>2. Chain[diskBest] \subseteq Block
        BY TreeFacts, Zenon DEF IInv, TypeOK
      <3>3. QED
        BY <1>1, <2>1, <3>1, <3>2 DEF IInv, Kept
    <2>4. Right' /\ MemoryRight' /\ DiskRight' /\ Verdicts' /\ StakeSpentSound'
      BY <1>1, <2>1, Zenon DEF IInv, Right, MemoryRight, DiskRight, Verdicts, StakeSpentSound
    <2>5. QED
      BY <2>2, <2>3, <2>4, Zenon DEF IInv
  <1>4. QED
    BY <1>2, <1>3, Zenon DEF Flush

\* verifychain keeps the invariant.
LEMMA VerifyDBKeeps ==
  ASSUME IInv, NEW n \in VerifyDepths, VerifyDB(n)
  PROVE  IInv'
  <1>1. UNCHANGED <<tip, coins, best, disk, diskBest, undo, undoDisk, failed, lost>>
    BY Zenon DEF VerifyDB
  <1>2. TypeOK' /\ Kept' /\ Right' /\ MemoryRight' /\ DiskRight' /\ Verdicts'
    BY <1>1, Zenon DEF IInv, TypeOK, Kept, Right, MemoryRight, DiskRight, Verdicts
  <1>3. ASSUME NEW p \in mapStakeSpent'
        PROVE  p \in mapStakeSpent \/ \E b \in Chain[tip] : nHeight[b] = p[2] /\ p[1] \in Inputs[b]
    BY <1>3 DEF VerifyDB
  <1>4. StakeSpentSound'
    BY <1>1, <1>3, Zenon DEF IInv, StakeSpentSound
  <1>5. QED
    BY <1>2, <1>4, Zenon DEF IInv

\* A restart keeps the invariant, whatever part of the block index was written.
LEMMA RestartKeeps ==
  ASSUME IInv, Restart
  PROVE  IInv'
  <1>1. PICK written :
          undoDisk' = [b \in Block |-> IF b \in written THEN undo[b] ELSE undoDisk[b]]
    BY Zenon DEF Restart
  <1>2. /\ undo' = undoDisk' /\ coins' = disk /\ best' = diskBest /\ tip' = diskBest
        /\ failed' \in {failed, {}} /\ mapStakeSpent' = {} /\ UNCHANGED <<disk, diskBest>>
        /\ lost' = IF "disk" \in lost THEN lost \cup {"memory"} ELSE lost \ {"memory"}
    BY Zenon DEF Restart
  <1>3. /\ undo \in [Block -> {NoUndo} \cup Seq(Seq(CTxInUndo))]
        /\ undoDisk \in [Block -> {NoUndo} \cup Seq(Seq(CTxInUndo))]
        /\ \A b \in Block : undoDisk[b] \in {NoUndo, undo[b]}
    BY Zenon DEF IInv, TypeOK
  <1>4. /\ undo' \in [Block -> {NoUndo} \cup Seq(Seq(CTxInUndo))]
        /\ \A b \in Block : undo'[b] # NoUndo => undo'[b] = undo[b]
        /\ \A b \in Block : undoDisk[b] # NoUndo => undo'[b] # NoUndo
    BY <1>1, <1>2, <1>3, Zenon
  <1>5. TypeOK'
    <2>1. ASSUME NEW b \in Block, undo'[b] # NoUndo
          PROVE  /\ b # Genesis /\ Len(undo'[b]) = Len(vtx[b]) - 1
                 /\ \A i \in 2 .. Len(vtx[b]) : Len(undo'[b][i - 1]) = Len(vin[vtx[b][i]])
      <3>1. undo'[b] = undo[b] /\ undo[b] # NoUndo
        BY <2>1, <1>4, Zenon
      <3>2. /\ b # Genesis /\ Len(undo[b]) = Len(vtx[b]) - 1
            /\ \A i \in 2 .. Len(vtx[b]) : Len(undo[b][i - 1]) = Len(vin[vtx[b][i]])
        BY <3>1, Zenon DEF IInv, TypeOK
      <3>3. QED
        BY <3>1, <3>2, Zenon
    <2>2. /\ tip' \in Block /\ best' \in Block /\ diskBest' \in Block
          /\ coins' \in [Tx -> CCoins] /\ disk' \in [Tx -> CCoins]
          /\ failed' \subseteq Block \ {Genesis} /\ lost' \subseteq {"memory", "disk", "undo", "ever", "odd"}
      BY <1>2, Zenon DEF IInv, TypeOK
    <2>3. QED
      BY <1>2, <1>4, <2>1, <2>2, Zenon DEF TypeOK
  <1>6. Kept'
    <2>1. Chain[diskBest] \subseteq Block
      BY TreeFacts, Zenon DEF IInv, TypeOK
    <2>2. QED
      BY <1>2, <1>4, <2>1, Zenon DEF IInv, Kept
  <1>7. Right'
    BY <1>2, <1>4, Zenon DEF IInv, Right
  <1>8. MemoryRight' /\ DiskRight' /\ Verdicts' /\ StakeSpentSound'
    BY <1>2, Zenon DEF IInv, MemoryRight, DiskRight, Verdicts, StakeSpentSound
  <1>9. QED
    BY <1>5, <1>6, <1>7, <1>8, Zenon DEF IInv

\* The invariant that carries the others: the coins in memory and on disk are those their
\* best block determines, and so is the undo data that any step may come to use.
THEOREM Invariance ==
  Spec => []IInv
  <1>1. IInv /\ [Next]_vars => IInv'
    <2> SUFFICES ASSUME IInv, [Next]_vars PROVE IInv'
      BY Zenon
    <2>1. ASSUME NEW b \in Block, ConnectTip(b) PROVE IInv'
      BY <2>1, ConnectTipKeeps, Zenon
    <2>2. ASSUME NEW b \in Block, ConnectTipInvalid(b) PROVE IInv'
      BY <2>2, ConnectTipInvalidKeeps, Zenon
    <2>3. CASE DisconnectTip
      BY <2>3, DisconnectTipKeeps, Zenon
    <2>4. CASE Flush
      BY <2>4, FlushKeeps, Zenon
    <2>5. CASE Restart
      BY <2>5, RestartKeeps, Zenon
    <2>6. ASSUME NEW n \in VerifyDepths, VerifyDB(n) PROVE IInv'
      BY <2>6, VerifyDBKeeps, Zenon
    <2>7. CASE UNCHANGED vars
      <3>1. UNCHANGED <<tip, coins, best, disk, diskBest, undo, undoDisk, failed, mapStakeSpent, lost>>
        BY <2>7, Zenon DEF vars
      <3>2. TypeOK' /\ Kept' /\ Right' /\ MemoryRight'
        BY <3>1, Zenon DEF IInv, TypeOK, Kept, Right, MemoryRight
      <3>3. DiskRight' /\ Verdicts' /\ StakeSpentSound'
        BY <3>1, Zenon DEF IInv, DiskRight, Verdicts, StakeSpentSound
      <3>4. QED
        BY <3>2, <3>3, Zenon DEF IInv
    <2>8. QED
      BY <2>1, <2>2, <2>3, <2>4, <2>5, <2>6, <2>7, Zenon DEF Next
  <1>2. QED
    BY <1>1, InitKeeps, PTL DEF Spec

\* The coins after a block are what its chain leaves unspent.
LEMMA StateIsState ==
  ASSUME NEW b \in Block, NEW m, StateAt(m, b)
  PROVE  IsStateOf(m, b)
  <1>1. ASSUME NEW t \in Tx \ StakeCoinBase
        PROVE  /\ m[t].vout = {n \in vout[t] : <<t, n>> \in Unspent[b]}
               /\ m[t] # Null => /\ m[t].nHeight = HeightIn[b][t]
                                 /\ m[t].fCoinBase = (t \in CoinBase) /\ m[t].fCoinStake = (t \in CoinStake)
    <2> DEFINE left == Left(TxsOf[b], Spent[b], t)
    <2>1. Entry(m[t], t, left, HeightIn[b][t])
      BY Zenon DEF StateAt, State
    <2>2. \A n \in vout[t] : <<t, n>> \in Unspent[b] <=> t \in TxsOf[b] /\ <<t, n>> \notin Spent[b]
      <3>1. \A n \in vout[t] : <<t, n>> \in Outputs
        BY DEF Outputs
      <3>2. QED
        BY <3>1, Zenon DEF Unspent
    <2>3. left = {n \in vout[t] : <<t, n>> \in Unspent[b]}
      BY <2>2, Zenon DEF Left
    <2> HIDE DEF left
    <2>4. m[t].vout = left
      BY <2>1 DEF Entry, Null
    <2>5. m[t] # Null => /\ m[t].nHeight = HeightIn[b][t]
                         /\ m[t].fCoinBase = (t \in CoinBase) /\ m[t].fCoinStake = (t \in CoinStake)
      BY <2>1, Zenon DEF Entry
    <2>6. QED
      BY <2>3, <2>4, <2>5, Zenon
  <1>2. QED
    BY <1>1, Zenon DEF IsStateOf

\* GetBestBlock always names the block whose state the coins are, in memory and on disk,
\* unless the changes of a refused batch are missing: ConnectBlock, DisconnectBlock,
\* FlushStateToDisk and a restart at any point keep it, for every tree of blocks, until a
\* block is connected that repeats a transaction or spends an empty output.
THEOREM BestIsAlwaysState ==
  Spec => []BestIsState
  <1>1. IInv => BestIsState
    <2> SUFFICES ASSUME IInv PROVE BestIsState
      BY Zenon
    <2>1. TypeOK /\ best \in Block /\ diskBest \in Block
      BY Zenon DEF IInv, TypeOK
    <2>2. {"memory", "undo", "odd"} \cap lost = {} => IsStateOf(coins, best)
      BY <2>1, StateIsState, Zenon DEF IInv, MemoryRight
    <2>3. {"disk", "undo", "odd"} \cap lost = {} => IsStateOf(disk, diskBest)
      BY <2>1, StateIsState, Zenon DEF IInv, DiskRight
    <2>4. QED
      BY <2>1, <2>2, <2>3, Zenon DEF BestIsState
  <1>2. QED
    BY <1>1, Invariance, PTL

\* The undo data of every block of the active chain, and of the chain a restart would
\* come back to, is always there, whatever a refused flush or a crash left half written.
THEOREM UndoIsKept ==
  Spec => []UndoKept
  <1>1. IInv => UndoKept
    BY Zenon DEF IInv, Kept, UndoKept
  <1>2. QED
    BY <1>1, Invariance, PTL

\* DisconnectBlock of the tip never finds a mismatch, whatever spent entries the caches
\* still hold: any block that was connected can be undone.  Excepted are the times when the
\* changes of a refused batch are missing, or after a block that repeats a transaction or
\* spends an empty output.
THEOREM UndoIsAlwaysClean ==
  Spec => []UndoClean
  <1>1. IInv => UndoClean
    <2> SUFFICES ASSUME IInv, tip # Genesis, best = tip, {"memory", "undo", "odd"} \cap lost = {}, NEW kept
                 PROVE  DisconnectBlock(coins, tip, kept).clean
      BY Zenon DEF UndoClean
    <2> QED
      BY DisconnectFacts, Zenon
  <1>2. QED
    BY <1>1, Invariance, PTL

\* ConnectBlock's verdict follows from the chain of the block: one that is connected is
\* allowed by its chain, one marked failed is not.  The two differ by the rule that inputs
\* are not younger than the transaction: undoing may lose the timestamp of an input, and
\* then a younger one passes.  No batch was refused so far, and no block connected that
\* repeats a transaction or spends an empty output.
THEOREM VerdictIsFromChain ==
  Spec => []VerdictFromChain
  <1>1. IInv => VerdictFromChain
    <2> SUFFICES ASSUME IInv, {"ever", "odd"} \cap lost = {} PROVE VerdictFromChain
      BY Zenon DEF VerdictFromChain
    <2>1. {"undo", "odd"} \cap lost = {}
      BY Zenon DEF IInv, Verdicts
    <2>2. ASSUME NEW b \in Chain[tip] \ {Genesis}
          PROVE  Acceptable[FALSE][b]
      <3>1. b \in Block \ {Genesis}
        BY TreeFacts, Zenon DEF IInv, TypeOK
      <3>2. Allowed(b) /\ b \notin BadBlock /\ b \in Ordinary
        BY <2>1, <3>1, Zenon DEF IInv, Kept, Right, Exact
      <3>3. QED
        BY <3>1, <3>2, AcceptableMeets, Zenon DEF Allowed
    <2>3. QED
      BY <2>2, Zenon DEF IInv, Verdicts, VerdictFromChain
  <1>2. QED
    BY <1>1, Invariance, PTL

\* mapStakeSpent never names an output the active chain has not spent at that height,
\* whichever entries the loop that deletes old ones reaches.
THEOREM StakeSpentIsSound ==
  Spec => []StakeSpentSound
  <1>1. IInv => StakeSpentSound
    BY Zenon DEF IInv
  <1>2. QED
    BY <1>1, Invariance, PTL
=============================================================================
