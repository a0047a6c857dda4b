----------------------------- MODULE BlockUndo ------------------------------
(***************************************************************************)
(* ConnectBlock and DisconnectBlock on the unspent outputs: what UpdateCoins *)
(* spends and creates, the undo data it leaves, what undoing restores, the *)
(* flush of pcoinsTip and of the block index, refused flushes, crashes and *)
(* restarts.  Which block comes next is left to chance here (ChainState    *)
(* decides it); the coin views are the plain maps that CoinsCache shows    *)
(* them to be.                                                             *)
(*                                                                         *)
(* An outpoint is <<transaction, position>>.  Values, scripts and versions *)
(* are left out: a block they reject is in BadBlock.  The outputs of a     *)
(* transaction are the set of its spendable positions, so Cleanup has      *)
(* nothing to do, and every fully spent CCoins is Null.                    *)
(***************************************************************************)
EXTENDS Integers, Sequences, Functions

CONSTANTS
  Block, Genesis,
  pprev,              \* the predecessor of each block but Genesis
  nHeight,            \* the height of each block
  Chain,              \* the block and its ancestors
  vtx,                \* the transactions of each block, in order
  Tx, vin, vout, nTime,
  CoinBase, CoinStake,
  BadBlock,           \* blocks rejected for their scripts or amounts
  COINBASE_MATURITY,
  MaxReorganizationDepth,
  NoUndo,             \* no undo data on disk
  RefusedBlock        \* bound: best blocks at which the coin database may refuse a batch

ASSUME UndoAssumption ==
  /\ Genesis \in Block
  /\ pprev \in [Block \ {Genesis} -> Block]
  /\ nHeight \in [Block -> Nat] /\ Chain \in [Block -> SUBSET Block] /\ Chain[Genesis] = {Genesis}
  /\ \A b \in Block \ {Genesis} :
       /\ nHeight[b] = nHeight[pprev[b]] + 1
       /\ Chain[b] = Chain[pprev[b]] \cup {b}
       /\ \A x \in Chain[pprev[b]] : nHeight[x] < nHeight[b]
  /\ BadBlock \subseteq Block
  /\ CoinBase \cup CoinStake \subseteq Tx /\ CoinBase \cap CoinStake = {}
  /\ COINBASE_MATURITY \in Nat /\ MaxReorganizationDepth \in Nat
  /\ RefusedBlock \subseteq Block

\* The data of a CTxInUndo that is modelled, and of a CCoins.
CTxInUndo == [nHeight : Nat, fCoinBase : BOOLEAN]
CCoins == [fCoinBase : BOOLEAN, fCoinStake : BOOLEAN, nTime : Nat, nHeight : Nat, vout : SUBSET Nat]

\* CheckTransaction and CheckBlock: no transaction has an input twice, a block has no
\* transaction twice, and its first one, and no other, is a coinbase.  A transaction is
\* identified by its hash; that of the genesis block is never connected.
ASSUME BlockAssumption ==
  /\ vtx \in [Block -> Seq(Tx)] /\ vin \in [Tx -> Seq(Tx \X Nat)]
  /\ vout \in [Tx -> SUBSET Nat] /\ nTime \in [Tx -> Nat]
  /\ \A t \in Tx : \A i, j \in DOMAIN vin[t] : vin[t][i] = vin[t][j] => i = j
  /\ vtx[Genesis] = <<>>
  /\ \A b \in Block \ {Genesis} :
       /\ vtx[b] # <<>>
       /\ \A i \in DOMAIN vtx[b] : (vtx[b][i] \in CoinBase) <=> (i = 1)
       /\ \A i, j \in DOMAIN vtx[b] : vtx[b][i] = vtx[b][j] => i = j
  /\ NoUndo \notin Seq(Seq(CTxInUndo))

VARIABLES
  tip,            \* chainActive.Tip()
  coins, best,    \* pcoinsTip: its coins and its best block
  disk, diskBest, \* CCoinsViewDB
  undo,           \* the undo data that nUndoPos of each block points to
  undoDisk,       \* the same for the block index on disk
  failed,         \* blocks marked BLOCK_FAILED_VALID
  mapStakeSpent,  \* pairs of a spent outpoint and the height it was spent at
  lost            \* history: where the changes of a refused batch are missing, "memory"
                  \* and "disk"; "undo" when a block was connected to such coins; "ever";
                  \* "odd" when a block that is not Ordinary was connected

vars == <<tip, coins, best, disk, diskBest, undo, undoDisk, failed, mapStakeSpent, lost>>

IsProofOfStake(b) == Len(vtx[b]) > 1 /\ vtx[b][2] \in CoinStake
Inputs == [b \in Block |-> UNION {Range(vin[t]) : t \in Range(vtx[b]) \ CoinBase}]

\* The first output of a coinstake and the only one of the coinbase of a proof-of-stake
\* block are empty (IsCoinStake, CheckBlock).  They can be spent all the same.
StakeCoinBase == {vtx[b][1] : b \in {x \in Block \ {Genesis} : IsProofOfStake(x)}}
EmptyOutput == {<<t, 0>> : t \in CoinStake \cup StakeCoinBase}
ASSUME EmptyAssumption ==
  /\ \A t \in CoinStake : 0 \in vout[t]
  /\ \A t \in StakeCoinBase : vout[t] = {0}

\* Blocks with no transaction that their chain has already, and that spend no empty
\* output.  ConnectBlock demands neither: it looks for repeated transactions only in
\* the blocks of CreateNewBlock, nothing makes a coinbase contain its height, and an
\* empty output is available.  Undoing other blocks takes the older transaction away,
\* does not bring fCoinStake back, and leaves the coinbase of a proof-of-stake block.
Ordinary ==
  {b \in Block \ {Genesis} :
     /\ \A x \in Chain[pprev[b]] : Range(vtx[b]) \cap Range(vtx[x]) = {}
     /\ Inputs[b] \cap EmptyOutput = {}}

Null == [fCoinBase |-> FALSE, fCoinStake |-> FALSE, nTime |-> 0, nHeight |-> 0, vout |-> {}]

\* CCoins::FromTx
FromTx(t, h) ==
  IF vout[t] = {} THEN Null
  ELSE [fCoinBase |-> t \in CoinBase, fCoinStake |-> t \in CoinStake,
        nTime |-> nTime[t], nHeight |-> h, vout |-> vout[t]]

-----------------------------------------------------------------------------
\* CCoins::Spend of output n, and the CTxInUndo it fills.
Spend(c, n) == IF c.vout = {n} THEN Null ELSE [c EXCEPT !.vout = @ \ {n}]
SpendUndo(c, n) ==
  IF c.vout = {n} THEN [nHeight |-> c.nHeight, fCoinBase |-> c.fCoinBase]
  ELSE [nHeight |-> 0, fCoinBase |-> FALSE]

SpendInput(w, out) ==
  [coins |-> [w.coins EXCEPT ![out[1]] = Spend(@, out[2])],
   vprevout |-> Append(w.vprevout, SpendUndo(w.coins[out[1]], out[2]))]

\* The inputs of a transaction, spent one after the other.
SpendInputs(m, t) ==
  LET none == [coins |-> m, vprevout |-> <<>>]
      After[i \in 0 .. Len(vin[t])] ==
        IF i = 0 THEN none ELSE SpendInput(After[i - 1], vin[t][i])
  IN IF t \in CoinBase THEN none ELSE After[Len(vin[t])]

\* Mutant of HaveInputs: only the transaction of an input must be known.
HaveInputsCoarse(m, t) == \A out \in Range(vin[t]) : m[out[1]] # Null

HaveInputs(m, t) == \A out \in Range(vin[t]) : out[2] \in m[out[1]].vout

\* CheckInputs, in the block at height h, but for values and scripts.
CheckInputs(m, t, h) ==
  \A out \in Range(vin[t]) :
    LET c == m[out[1]]
    IN /\ c.fCoinBase \/ c.fCoinStake => h - c.nHeight >= COINBASE_MATURITY
       /\ c.nTime <= nTime[t]

TxUndoAdded(vtxundo, t, vprevout) ==
  IF t \in CoinBase THEN vtxundo ELSE Append(vtxundo, vprevout)

\* One transaction of ConnectBlock, with the check that guards it.
ConnectTx(w, t, h) ==
  IF ~w.ok \/ (t \notin CoinBase /\ ~(HaveInputs(w.coins, t) /\ CheckInputs(w.coins, t, h)))
  THEN [w EXCEPT !.ok = FALSE]
  ELSE LET s == SpendInputs(w.coins, t)
       IN [ok |-> TRUE,
           coins |-> [s.coins EXCEPT ![t] = FromTx(t, h)],
           vtxundo |-> TxUndoAdded(w.vtxundo, t, s.vprevout)]

\* ConnectBlock on a view over m: whether it succeeds, and what it leaves there.
ConnectBlock(m, b) ==
  LET After[i \in 0 .. Len(vtx[b])] ==
        IF i = 0 THEN [ok |-> TRUE, coins |-> m, vtxundo |-> <<>>]
        ELSE ConnectTx(After[i - 1], vtx[b][i], nHeight[b])
  IN [After[Len(vtx[b])] EXCEPT !.ok = @ /\ b \notin BadBlock]

\* mapStakeSpent after ConnectBlock.  The loop that deletes old entries goes on
\* from an iterator it has erased: which of the others it reaches is undefined.
StakeSpentConnected(b) ==
  LET inserted == mapStakeSpent \cup
                    {<<out, nHeight[b]>> : out \in Inputs[b] \ {p[1] : p \in mapStakeSpent}}
      old == {p \in inserted : p[2] < nHeight[b] - MaxReorganizationDepth}
  IN {inserted \ gone : gone \in {s \in SUBSET old : s = {} => old = {}}}

-----------------------------------------------------------------------------
\* Mutant of RestoreInput: the metadata of a fully spent transaction is not
\* brought back.
RestoreInputBare(w, out, u, kept) ==
  LET c == w.coins[out[1]]
  IN [clean |-> w.clean, coins |-> [w.coins EXCEPT ![out[1]] = [c EXCEPT !.vout = @ \cup {out[2]}]]]

\* One input restored from its undo data.  Clear does not reset nTime, so it
\* survives where pcoinsTip still has the spent entry (kept).
RestoreInput(w, out, u, kept) ==
  LET c == w.coins[out[1]]
      cleared == [Null EXCEPT !.fCoinBase = u.fCoinBase, !.nHeight = u.nHeight,
                    !.nTime = IF c = Null /\ out[1] \in kept THEN nTime[out[1]] ELSE c.nTime]
      base == IF u.nHeight # 0 THEN cleared ELSE c
  IN [clean |-> w.clean /\ (u.nHeight # 0 <=> c = Null) /\ out[2] \notin base.vout,
      coins |-> [w.coins EXCEPT ![out[1]] = [base EXCEPT !.vout = @ \cup {out[2]}]]]

\* The outputs of a transaction are as the block made them.
Matches(c, t, h) ==
  LET fixed == IF c.nTime = 0 /\ c # Null THEN [c EXCEPT !.nTime = nTime[t]] ELSE c
  IN fixed = FromTx(t, h)

\* Transaction i of the block is undone: its outputs go, its inputs come back in
\* reverse order.
DisconnectTx(w, b, i, kept) ==
  LET t == vtx[b][i]
      removed == [clean |-> w.clean /\ Matches(w.coins[t], t, nHeight[b]),
                  coins |-> [w.coins EXCEPT ![t] = Null]]
      Backward == [k \in 1 .. Len(vin[t]) |-> Len(vin[t]) - k + 1]
      After[k \in 0 .. Len(vin[t])] ==
        IF k = 0 THEN removed
        ELSE RestoreInput(After[k - 1], vin[t][Backward[k]], undo[b][i - 1][Backward[k]], kept)
  IN IF i = 1 THEN removed ELSE After[Len(vin[t])]

\* Mutant of UndoOrder: the transactions are undone in the order of the block.
UndoForward(b) ==
  LET first == IF IsProofOfStake(b) THEN 2 ELSE 1
  IN [k \in 1 .. Len(vtx[b]) - first + 1 |-> first + k - 1]

\* In reverse; the coinbase of a proof-of-stake block is passed over.
UndoOrder(b) ==
  LET first == IF IsProofOfStake(b) THEN 2 ELSE 1
  IN [k \in 1 .. Len(vtx[b]) - first + 1 |-> Len(vtx[b]) - k + 1]

DisconnectBlock(m, b, kept) ==
  LET After[k \in 0 .. Len(UndoOrder(b))] ==
        IF k = 0 THEN [clean |-> TRUE, coins |-> m]
        ELSE DisconnectTx(After[k - 1], b, UndoOrder(b)[k], kept)
  IN After[Len(UndoOrder(b))]

\* Mutant of StakeSpentDisconnected: disconnected blocks still count.
StakeSpentKept(b) == mapStakeSpent

StakeSpentDisconnected(b) == {p \in mapStakeSpent : p[1] \notin Inputs[b]}

-----------------------------------------------------------------------------
Init ==
  /\ tip = Genesis /\ best = Genesis /\ diskBest = Genesis
  /\ coins = [t \in Tx |-> Null] /\ disk = coins
  /\ undo = [b \in Block |-> NoUndo] /\ undoDisk = undo
  /\ failed = {} /\ mapStakeSpent = {} /\ lost = {}

\* Mutant of FlushStateToDisk: the block index is not written.
FlushStateCoinsOnly(m, b, u, missing) ==
  /\ coins' = m /\ best' = b
  /\ disk' = m /\ diskBest' = b /\ lost' = missing /\ UNCHANGED undoDisk

\* FlushStateToDisk of the coins m, the best block b and the undo data u, all of
\* which the caller has just put into memory, where the given changes are missing.
FlushStateToDisk(m, b, u, missing) ==
  /\ coins' = m /\ best' = b
  /\ disk' = m /\ diskBest' = b /\ undoDisk' = u
  /\ lost' = IF "memory" \in missing THEN missing \cup {"disk"} ELSE missing

\* The coins were not too many to keep: nothing is written.
Unflushed(m, b, missing) ==
  /\ coins' = m /\ best' = b /\ lost' = missing
  /\ UNCHANGED <<disk, diskBest, undoDisk>>

\* The block index is written, then the database refuses the coins: the cache has
\* already been emptied, and the exception ends the caller.
FlushFails(b, u, missing) ==
  /\ b \in RefusedBlock
  /\ coins' = disk /\ best' = b
  /\ undoDisk' = u /\ UNCHANGED <<disk, diskBest>>
  /\ lost' = missing \cup {"memory", "ever"}

\* ConnectTip with a block that passes.
ConnectTip(b) ==
  /\ b # Genesis /\ b \notin failed /\ pprev[b] = tip
  /\ best = tip
  /\ \E w \in {ConnectBlock(coins, b)} :
       /\ w.ok
       /\ undo' = [undo EXCEPT ![b] = IF @ = NoUndo THEN w.vtxundo ELSE @]
       /\ LET missing == lost \cup (IF "memory" \in lost THEN {"undo"} ELSE {})
                             \cup (IF b \in Ordinary THEN {} ELSE {"odd"})
          IN \/ /\ FlushStateToDisk(w.coins, b, undo', missing) \/ Unflushed(w.coins, b, missing)
                /\ tip' = b
             \/ FlushFails(b, undo', missing) /\ UNCHANGED tip
  /\ \E s \in StakeSpentConnected(b) : mapStakeSpent' = s
  /\ UNCHANGED failed

\* ConnectTip with a block that fails: the view is dropped, InvalidBlockFound.
ConnectTipInvalid(b) ==
  /\ b # Genesis /\ b \notin failed /\ pprev[b] = tip
  /\ best = tip
  /\ ~ConnectBlock(coins, b).ok
  /\ failed' = failed \cup {b}
  /\ UNCHANGED <<tip, coins, best, disk, diskBest, undo, undoDisk, mapStakeSpent, lost>>

\* DisconnectTip.  When the undo data does not match, it fails and the view is
\* dropped; mapStakeSpent has been changed all the same.
DisconnectTip ==
  /\ tip # Genesis /\ undo[tip] # NoUndo
  /\ best = tip
  /\ \E kept \in SUBSET {out[1] : out \in Inputs[tip]} :
     \E w \in {DisconnectBlock(coins, tip, kept)} :
       \/ /\ w.clean
          /\ \/ /\ \/ FlushStateToDisk(w.coins, pprev[tip], undo, lost)
                   \/ Unflushed(w.coins, pprev[tip], lost)
                /\ tip' = pprev[tip]
             \/ FlushFails(pprev[tip], undo, lost) /\ UNCHANGED tip
       \/ /\ ~w.clean
          /\ UNCHANGED <<tip, coins, best, disk, diskBest, undoDisk, lost>>
  /\ mapStakeSpent' = StakeSpentDisconnected(tip)
  /\ UNCHANGED <<undo, failed>>

\* The flush at shutdown, of gettxoutsetinfo, or the periodic one.
Flush ==
  /\ FlushStateToDisk(coins, best, undo, lost) \/ FlushFails(best, undo, lost)
  /\ UNCHANGED <<tip, undo, failed, mapStakeSpent>>

\* verifychain: the last n blocks are undone in a view that is then dropped, and
\* at level 4 connected to it again.
VerifyDB(n) ==
  LET undone == {b \in Chain[tip] \ {Genesis} : nHeight[b] > nHeight[tip] - n}
      erased == {p \in mapStakeSpent : \A b \in undone : p[1] \notin Inputs[b]}
      added == UNION {{<<out, nHeight[b]>> : out \in Inputs[b]} : b \in undone}
      old == {p \in erased \cup added : p[2] < nHeight[tip] - MaxReorganizationDepth}
  IN /\ best = tip
     /\ \/ mapStakeSpent' = erased
        \/ \E gone \in SUBSET old :
             (gone = {} => old = {}) /\ mapStakeSpent' = (erased \cup added) \ gone
     /\ UNCHANGED <<tip, coins, best, disk, diskBest, undo, undoDisk, failed, lost>>

\* The process ends, perhaps in the middle of writing the block index, and starts
\* again from what is on disk.  The failures may not have been written.
Restart ==
  /\ \E written \in {{}, Block} \cup {{b} : b \in Block} :
       undoDisk' = [b \in Block |-> IF b \in written THEN undo[b] ELSE undoDisk[b]]
  /\ undo' = undoDisk'
  /\ coins' = disk /\ best' = diskBest /\ tip' = diskBest
  /\ failed' \in {failed, {}}
  /\ mapStakeSpent' = {}
  /\ lost' = IF "disk" \in lost THEN lost \cup {"memory"} ELSE lost \ {"memory"}
  /\ UNCHANGED <<disk, diskBest>>

\* The depths verifychain is asked for, bounded.
VerifyDepths == 1 .. 2

Next ==
  \/ \E b \in Block : ConnectTip(b) \/ ConnectTipInvalid(b)
  \/ DisconnectTip \/ Flush \/ Restart
  \/ \E n \in VerifyDepths : VerifyDB(n)

Spec == Init /\ [][Next]_vars

-----------------------------------------------------------------------------
\* What the chain up to block b leaves unspent, without looking at any coins.
TxsOf == [b \in Block |-> UNION {Range(vtx[x]) : x \in Chain[b] \ {Genesis}}]
Outputs == UNION {{<<t, n>> : n \in vout[t]} : t \in Tx}
Spent == [b \in Block |-> UNION {Inputs[x] : x \in Chain[b] \ {Genesis}}]
Unspent == [b \in Block |-> {out \in Outputs : out[1] \in TxsOf[b]} \ Spent[b]]
HeightIn == [b \in Block |-> [t \in TxsOf[b] |-> nHeight[CHOOSE x \in Chain[b] : t \in Range(vtx[x])]]]

\* Whether b may follow its predecessor, from the chain alone; with or without
\* the rule on timestamps.
Spendable(b, i, out, timely) ==
  LET before == {vtx[b][j] : j \in 1 .. i - 1}
      spent == UNION {Range(vin[t]) : t \in before \ CoinBase}
  IN /\ out \in Unspent[pprev[b]] \cup {new \in Outputs : new[1] \in before}
     /\ out \notin spent
     /\ out[1] \in CoinBase \cup CoinStake => nHeight[b] - HeightIn[b][out[1]] >= COINBASE_MATURITY
     /\ timely => nTime[out[1]] <= nTime[vtx[b][i]]
Acceptable ==
  [timely \in BOOLEAN |-> [b \in Block \ {Genesis} |->
     /\ b \notin BadBlock
     /\ \A i \in DOMAIN vtx[b] : vtx[b][i] \in CoinBase \/
          \A out \in Range(vin[vtx[b][i]]) : Spendable(b, i, out, timely)]]

\* The state has the types the code gives it; the undo data of a block has an entry
\* for every input of every transaction but the coinbase.
TypeOK ==
  /\ tip \in Block /\ best \in Block /\ diskBest \in Block
  /\ coins \in [Tx -> CCoins] /\ disk \in [Tx -> CCoins]
  /\ undo \in [Block -> {NoUndo} \cup Seq(Seq(CTxInUndo))]
  /\ \A b \in Block : undo[b] # NoUndo =>
       /\ b # Genesis /\ Len(undo[b]) = Len(vtx[b]) - 1
       /\ \A i \in 2 .. Len(vtx[b]) : Len(undo[b][i - 1]) = Len(vin[vtx[b][i]])
  /\ undoDisk \in [Block -> {NoUndo} \cup Seq(Seq(CTxInUndo))]
  /\ \A b \in Block : undoDisk[b] \in {NoUndo, undo[b]}
  /\ failed \subseteq Block \ {Genesis}
  /\ lost \subseteq {"memory", "disk", "undo", "ever", "odd"}

\* A map of coins is the state after block b: exactly the outputs the chain to b
\* leaves unspent, with the height and kind of their transaction.  The empty
\* coinbases of proof-of-stake blocks are not compared.
IsStateOf(m, b) ==
  \A t \in Tx \ StakeCoinBase :
    /\ m[t].vout = {n \in vout[t] : <<t, n>> \in Unspent[b]}
    /\ m[t] # Null => /\ m[t].nHeight = HeightIn[b][t]
                      /\ m[t].fCoinBase = (t \in CoinBase) /\ m[t].fCoinStake = (t \in CoinStake)

\* GetBestBlock is "the block hash whose state this CCoinsView currently
\* represents", in memory and on disk, through any reorganisation and restart.  A
\* refused batch breaks this in memory; the disk stays right until the node
\* flushes again, and a restart before that repairs the memory, unless a block was
\* connected in between, whose undo data may stay.  It holds until a block is
\* connected that repeats a transaction or spends an empty output (Ordinary).  The
\* state keeps its types in any case.
BestIsState ==
  /\ TypeOK
  /\ {"memory", "undo", "odd"} \cap lost = {} => IsStateOf(coins, best)
  /\ {"disk", "undo", "odd"} \cap lost = {} => IsStateOf(disk, diskBest)

\* Every block of the active chain has its undo data (DisconnectBlock gives up
\* without), also after a restart from what is on disk, whatever a refused flush
\* or a crash left half written.
UndoKept ==
  /\ \A b \in Chain[tip] \ {Genesis} : undo[b] # NoUndo
  /\ \A b \in Chain[diskBest] \ {Genesis} : undoDisk[b] # NoUndo

\* Unless the changes of a refused batch are missing, or a block was connected that
\* repeats a transaction or spends an empty output, the tip is undone without a
\* mismatch, whatever the caches still hold: a reorganisation never stops at "added
\* transaction mismatch".
UndoClean ==
  tip # Genesis /\ best = tip /\ {"memory", "undo", "odd"} \cap lost = {} =>
    \A kept \in {{}, Tx} : DisconnectBlock(coins, tip, kept).clean

\* A block is accepted only when its chain allows it, the timestamps of its
\* inputs apart, and rejected only when its chain forbids it: the verdict does
\* not depend on what was connected and undone before.  Timestamps are apart because
\* undoing may lose that of an input.  No batch is refused, and no block connected
\* that repeats a transaction or spends an empty output.
VerdictFromChain ==
  {"ever", "odd"} \cap lost = {} =>
  /\ \A b \in Chain[tip] \ {Genesis} : Acceptable[FALSE][b]
  /\ \A b \in failed \cap Ordinary : ~Acceptable[TRUE][b]

\* mapStakeSpent never names an output that the active chain has not spent, nor a
\* wrong height (no batch being refused), whatever blocks are connected.
StakeSpentSound ==
  "ever" \notin lost =>
  \A p \in mapStakeSpent : \E b \in Chain[tip] : nHeight[b] = p[2] /\ p[1] \in Inputs[b]
=============================================================================
