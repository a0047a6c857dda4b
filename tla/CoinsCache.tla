----------------------------- MODULE CoinsCache -----------------------------
(***************************************************************************)
(* The stack of coin views of coins.cpp and txdb.cpp as the node uses it:  *)
(* CCoinsViewDB on disk, the long-lived cache pcoinsTip over it, and over  *)
(* that the short-lived CCoinsViewCache in which ConnectTip, DisconnectTip *)
(* or a check works and which is flushed or destroyed.  cs_main serialises *)
(* them, so there is at most one such view.                                *)
(*                                                                         *)
(* Coins is a set of values CCoins can have, of which Pruned stands for    *)
(* all the fully spent ones (operator== makes them equal).  An entry of a  *)
(* cache that is absent is NoEntry; the database stores no pruned coins,   *)
(* so Pruned there means that the key is absent.                           *)
(***************************************************************************)
CONSTANTS Txid, Coins, Pruned, Block, NoBlock, NoEntry, NoDraft

ASSUME CoinsAssumption ==
  /\ Pruned \in Coins
  /\ NoBlock \notin Block
  /\ NoEntry \notin [coins : Coins, dirty : BOOLEAN, fresh : BOOLEAN]
  /\ NoDraft \notin [coins : [Txid -> Coins], best : Block]

VARIABLES
  db,        \* the coins of CCoinsViewDB
  dbBest,    \* its best block
  tip,       \* pcoinsTip->cacheCoins
  tipBest,   \* pcoinsTip->hashBlock, NoBlock while it is uint256(0)
  view,      \* cacheCoins of the view over pcoinsTip
  viewBest,  \* its hashBlock
  open       \* whether that view exists

vars == <<db, dbBest, tip, tipBest, view, viewBest, open>>

Entry == [coins : Coins, dirty : BOOLEAN, fresh : BOOLEAN]
Empty == [t \in Txid |-> NoEntry]

Init ==
  /\ db \in [Txid -> Coins]
  /\ dbBest \in Block
  /\ tip = Empty /\ tipBest = NoBlock
  /\ view = Empty /\ viewBest = NoBlock /\ open = FALSE

-----------------------------------------------------------------------------
\* The entry that a cache without one gets for coins found in its base.
Fetched(c) == [coins |-> c, dirty |-> FALSE, fresh |-> c = Pruned]

\* pcoinsTip after FetchCoins: what the database has is pulled in.
TipFetched(t) ==
  IF tip[t] = NoEntry /\ db[t] # Pruned THEN [tip EXCEPT ![t] = Fetched(db[t])] ELSE tip

\* A read through pcoinsTip (HaveCoins, GetCoins, AccessCoins).
AccessTip(t) ==
  /\ ~open
  /\ tip' = TipFetched(t)
  /\ UNCHANGED <<db, dbBest, tipBest, view, viewBest, open>>

\* A read through the view, which reads pcoinsTip when it has no entry.
AccessCoins(t) ==
  /\ open /\ view[t] = NoEntry
  /\ tip' = TipFetched(t)
  /\ view' = IF TipFetched(t)[t] = NoEntry THEN view
             ELSE [view EXCEPT ![t] = Fetched(TipFetched(t)[t].coins)]
  /\ UNCHANGED <<db, dbBest, tipBest, viewBest, open>>

\* CCoinsViewCache(pcoinsTip)
Open ==
  /\ ~open
  /\ open' = TRUE /\ view' = Empty /\ viewBest' = NoBlock
  /\ UNCHANGED <<db, dbBest, tip, tipBest>>

\* Mutant of FreshFor: any entry that is new to the view is fresh.
FreshForNew(t) == view[t] = NoEntry \/ view[t].fresh

\* Whether the entry ModifyCoins returns is marked FRESH.
FreshFor(t) ==
  IF view[t] = NoEntry
  THEN TipFetched(t)[t] = NoEntry \/ TipFetched(t)[t].coins = Pruned
  ELSE view[t].fresh

\* Mutant of ModifyCoins: pcoinsTip is read without caching what it read.
ModifyCoinsThrough(t, c) ==
  /\ open
  /\ view' = [view EXCEPT ![t] =
       IF FreshFor(t) /\ c = Pruned THEN NoEntry
       ELSE [coins |-> c, dirty |-> TRUE, fresh |-> FreshFor(t)]]
  /\ UNCHANGED <<db, dbBest, tip, tipBest, viewBest, open>>

\* ModifyCoins, an assignment of c through the modifier, and its destructor.
ModifyCoins(t, c) ==
  /\ open
  /\ tip' = IF view[t] = NoEntry THEN TipFetched(t) ELSE tip
  /\ view' = [view EXCEPT ![t] =
       IF FreshFor(t) /\ c = Pruned THEN NoEntry
       ELSE [coins |-> c, dirty |-> TRUE, fresh |-> FreshFor(t)]]
  /\ UNCHANGED <<db, dbBest, tipBest, viewBest, open>>

\* GetBestBlock of the view: it caches its base's answer, which does the same.
GetBestBlock ==
  /\ open /\ viewBest = NoBlock
  /\ tipBest' = IF tipBest = NoBlock THEN dbBest ELSE tipBest
  /\ viewBest' = tipBest'
  /\ UNCHANGED <<db, dbBest, tip, view, open>>

SetBestBlock(b) ==
  /\ open
  /\ viewBest' = b
  /\ UNCHANGED <<db, dbBest, tip, tipBest, view, open>>

-----------------------------------------------------------------------------
\* Mutant of Written: a pruned child entry always deletes the parent's.
WrittenErase(us, e) ==
  IF e = NoEntry \/ ~e.dirty THEN us
  ELSE IF e.coins = Pruned THEN NoEntry
  ELSE IF us = NoEntry THEN [coins |-> e.coins, dirty |-> TRUE, fresh |-> TRUE]
  ELSE [us EXCEPT !.coins = e.coins, !.dirty = TRUE]

\* CCoinsViewCache::BatchWrite of one entry e of the child over the entry us.
Written(us, e) ==
  IF e = NoEntry \/ ~e.dirty THEN us
  ELSE IF us = NoEntry
       THEN IF e.coins = Pruned THEN NoEntry
            ELSE [coins |-> e.coins, dirty |-> TRUE, fresh |-> TRUE]
  ELSE IF us.fresh /\ e.coins = Pruned THEN NoEntry
  ELSE [us EXCEPT !.coins = e.coins, !.dirty = TRUE]

\* view.Flush() and the end of its scope.  ConnectBlock and DisconnectBlock set
\* the best block on every path that reaches it.
FlushView ==
  /\ open /\ viewBest # NoBlock
  /\ tip' = [t \in Txid |-> Written(tip[t], view[t])]
  /\ tipBest' = viewBest
  /\ open' = FALSE /\ view' = Empty /\ viewBest' = NoBlock
  /\ UNCHANGED <<db, dbBest>>

\* The view is destroyed without a flush: the block failed, or was only checked.
DestroyView ==
  /\ open
  /\ open' = FALSE /\ view' = Empty /\ viewBest' = NoBlock
  /\ UNCHANGED <<db, dbBest, tip, tipBest>>

\* pcoinsTip->Flush(): CCoinsViewDB::BatchWrite in one database batch.
FlushTip ==
  /\ ~open
  /\ db' = [t \in Txid |-> IF tip[t] # NoEntry /\ tip[t].dirty THEN tip[t].coins ELSE db[t]]
  /\ dbBest' = IF tipBest = NoBlock THEN dbBest ELSE tipBest
  /\ tip' = Empty
  /\ UNCHANGED <<tipBest, view, viewBest, open>>

\* The database refuses the batch and WriteBatch throws, after BatchWrite has
\* erased the entries of the cache.
FlushTipFails ==
  /\ ~open
  /\ tip' = Empty
  /\ UNCHANGED <<db, dbBest, tipBest, view, viewBest, open>>

\* The process ends and starts again with an empty pcoinsTip.
Restart ==
  /\ tip' = Empty /\ tipBest' = NoBlock
  /\ open' = FALSE /\ view' = Empty /\ viewBest' = NoBlock
  /\ UNCHANGED <<db, dbBest>>

Next ==
  \/ Open \/ GetBestBlock \/ FlushView \/ DestroyView \/ FlushTip \/ FlushTipFails \/ Restart
  \/ \E t \in Txid : AccessTip(t) \/ AccessCoins(t)
  \/ \E t \in Txid, c \in Coins : ModifyCoins(t, c)
  \/ \E b \in Block : SetBestBlock(b)

Spec == Init /\ [][Next]_vars

-----------------------------------------------------------------------------
\* What GetCoins returns at each level, and GetBestBlock.
TipCoins(t) == IF tip[t] # NoEntry THEN tip[t].coins ELSE db[t]
ViewCoins(t) == IF view[t] # NoEntry THEN view[t].coins ELSE TipCoins(t)
TipBestBlock == IF tipBest = NoBlock THEN dbBest ELSE tipBest
ViewBestBlock == IF viewBest = NoBlock THEN TipBestBlock ELSE viewBest

\* The views have the types the code gives them; a closed view is empty.
TypeOK ==
  /\ db \in [Txid -> Coins] /\ dbBest \in Block
  /\ tip \in [Txid -> Entry \cup {NoEntry}] /\ tipBest \in Block \cup {NoBlock}
  /\ view \in [Txid -> Entry \cup {NoEntry}] /\ viewBest \in Block \cup {NoBlock}
  /\ open \in BOOLEAN
  /\ ~open => view = Empty /\ viewBest = NoBlock

\* The flags mean what CCoinsCacheEntry says: an entry without DIRTY is what the
\* parent has, and one with FRESH is one the parent does not have, or has pruned.
FlagsSound ==
  \A t \in Txid :
    /\ tip[t] # NoEntry => /\ ~tip[t].dirty => tip[t].coins = db[t]
                           /\ tip[t].fresh => db[t] = Pruned
    /\ view[t] # NoEntry => /\ ~view[t].dirty => view[t].coins = TipCoins(t)
                            /\ view[t].fresh => TipCoins(t) = Pruned

\* The assertion of BatchWrite: when the parent has no entry, a dirty entry of
\* the child with unspent outputs is fresh, "if the grandparent did have it, we
\* would have pulled it in at first GetCoins".
BatchWriteAssert ==
  \A t \in Txid :
    view[t] # NoEntry /\ view[t].dirty /\ view[t].coins # Pruned /\ tip[t] = NoEntry
      => view[t].fresh

\* The stack of caches implements three plain maps: flushing a view commits
\* exactly its changes, flushing pcoinsTip stores exactly the current coins, and
\* reading never changes anything.
Map == INSTANCE CoinsMap WITH
  committed <- [coins |-> db, best |-> dbBest],
  current <- [coins |-> [t \in Txid |-> TipCoins(t)], best |-> TipBestBlock],
  draft <- IF open THEN [coins |-> [t \in Txid |-> ViewCoins(t)], best |-> ViewBestBlock]
           ELSE NoDraft
Implements == Map!Spec
=============================================================================
