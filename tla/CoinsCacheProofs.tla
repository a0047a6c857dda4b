-------------------------- MODULE CoinsCacheProofs --------------------------
(***************************************************************************)
(* For any set of transactions, coins and blocks: the flags of the caches  *)
(* are sound, the assertion of BatchWrite holds, and the stack of caches   *)
(* implements the three plain maps of CoinsMap.                            *)
(***************************************************************************)
EXTENDS CoinsCache, TLAPS

\* An entry of the view whose transaction pcoinsTip does not hold is fresh: had
\* the database known it, reading it would have pulled it into pcoinsTip.
Pulled == \A t \in Txid : view[t] # NoEntry /\ tip[t] = NoEntry => view[t].fresh

\* The inductive invariant.
IInv == TypeOK /\ FlagsSound /\ Pulled

\* Every state satisfying the inductive invariant meets the assertion.
LEMMA PulledAssert == IInv => BatchWriteAssert
  BY Zenon DEF IInv, Pulled, BatchWriteAssert

\* The empty cache, and what an entry is made of.
LEMMA EntryFacts ==
  /\ Empty \in [Txid -> Entry \cup {NoEntry}]
  /\ \A t \in Txid : Empty[t] = NoEntry
  /\ NoEntry \notin Entry
  /\ \A c \in Coins : Fetched(c) \in Entry
  /\ \A c \in Coins, d, f \in BOOLEAN : [coins |-> c, dirty |-> d, fresh |-> f] \in Entry
  BY CoinsAssumption, Zenon DEF Empty, Entry, Fetched

\* Reading through pcoinsTip changes no coins and keeps its flags sound.
LEMMA TipFetchedFacts ==
  ASSUME IInv, NEW t \in Txid
  PROVE  /\ TipFetched(t) \in [Txid -> Entry \cup {NoEntry}]
         /\ \A u \in Txid :
              /\ (IF TipFetched(t)[u] # NoEntry THEN TipFetched(t)[u].coins ELSE db[u]) = TipCoins(u)
              /\ TipFetched(t)[u] # NoEntry =>
                   /\ ~TipFetched(t)[u].dirty => TipFetched(t)[u].coins = db[u]
                   /\ TipFetched(t)[u].fresh => db[u] = Pruned
              /\ TipFetched(t)[u] = NoEntry => tip[u] = NoEntry
         /\ TipFetched(t)[t] = NoEntry => TipCoins(t) = Pruned
  <1>1. CASE tip[t] = NoEntry /\ db[t] # Pruned
    <2>1. TipFetched(t) = [tip EXCEPT ![t] = Fetched(db[t])]
      BY <1>1, Zenon DEF TipFetched
    <2>2. Fetched(db[t]) \in Entry /\ Fetched(db[t]) # NoEntry
      BY EntryFacts, Zenon DEF IInv, TypeOK
    <2>3. /\ Fetched(db[t]).coins = db[t] /\ ~Fetched(db[t]).dirty
          /\ Fetched(db[t]).fresh = (db[t] = Pruned)
      BY Zenon DEF Fetched
    <2>4. QED
      BY <1>1, <2>1, <2>2, <2>3, ZenonT(30) DEF IInv, TypeOK, FlagsSound, TipCoins
  <1>2. CASE ~(tip[t] = NoEntry /\ db[t] # Pruned)
    BY <1>2, Zenon DEF TipFetched, IInv, TypeOK, FlagsSound, TipCoins
  <1>3. QED
    BY <1>1, <1>2, Zenon

\* The initial state satisfies the inductive invariant.
LEMMA InitIInv == Init => IInv
  BY EntryFacts, CoinsAssumption, Zenon DEF Init, IInv, TypeOK, FlagsSound, Pulled

\* Reads preserve it.
LEMMA AccessIInv ==
  ASSUME IInv, NEW t \in Txid, AccessTip(t) \/ AccessCoins(t)
  PROVE  IInv' /\ \A u \in Txid : TipCoins(u)' = TipCoins(u) /\ ViewCoins(u)' = ViewCoins(u)
  <1>1. /\ tip' = TipFetched(t)
        /\ UNCHANGED <<db, dbBest, tipBest, viewBest, open>>
    BY Zenon DEF AccessTip, AccessCoins
  <1>2. \A u \in Txid : TipCoins(u)' = TipCoins(u)
    BY <1>1, TipFetchedFacts, Zenon DEF TipCoins
  <1>3. CASE view' = view
    <2>1. TypeOK'
      BY <1>1, <1>3, TipFetchedFacts, Zenon DEF IInv, TypeOK
    <2>2. FlagsSound'
      BY <1>1, <1>2, <1>3, TipFetchedFacts DEF IInv, FlagsSound
    <2>3. Pulled'
      BY <1>1, <1>3, TipFetchedFacts, Zenon DEF IInv, Pulled
    <2>4. QED
      BY <1>2, <1>3, <2>1, <2>2, <2>3, Zenon DEF IInv, ViewCoins
  <1>4. CASE view' # view
    <2>1. /\ open /\ view[t] = NoEntry /\ TipFetched(t)[t] # NoEntry
          /\ view' = [view EXCEPT ![t] = Fetched(TipFetched(t)[t].coins)]
      BY <1>4, Zenon DEF AccessTip, AccessCoins
    <2>2. TipFetched(t)[t].coins \in Coins /\ TipFetched(t)[t].coins = TipCoins(t)
      BY <2>1, TipFetchedFacts, Zenon DEF Entry
    <2>3. /\ Fetched(TipCoins(t)) \in Entry /\ Fetched(TipCoins(t)) # NoEntry
          /\ Fetched(TipCoins(t)).coins = TipCoins(t) /\ ~Fetched(TipCoins(t)).dirty
          /\ Fetched(TipCoins(t)).fresh = (TipCoins(t) = Pruned)
      BY <2>2, EntryFacts, Zenon DEF Fetched
    <2>4. TypeOK'
      BY <1>1, <2>1, <2>2, <2>3, TipFetchedFacts, Zenon DEF IInv, TypeOK
    <2>5. FlagsSound'
      <3> SUFFICES ASSUME NEW u \in Txid
                   PROVE  /\ tip'[u] # NoEntry => /\ ~tip'[u].dirty => tip'[u].coins = db'[u]
                                                  /\ tip'[u].fresh => db'[u] = Pruned
                          /\ view'[u] # NoEntry => /\ ~view'[u].dirty => view'[u].coins = TipCoins(u)'
                                                   /\ view'[u].fresh => TipCoins(u)' = Pruned
        BY Zenon DEF FlagsSound
      <3>1. tip'[u] # NoEntry => /\ ~tip'[u].dirty => tip'[u].coins = db'[u]
                                 /\ tip'[u].fresh => db'[u] = Pruned
        BY <1>1, TipFetchedFacts, Zenon
      <3>2. view'[u] = IF u = t THEN Fetched(TipCoins(t)) ELSE view[u]
        BY <2>1, <2>2, Zenon DEF IInv, TypeOK
      <3>3. QED
        BY <1>2, <2>3, <3>1, <3>2, Zenon DEF IInv, FlagsSound
    <2>6. Pulled'
      BY <1>1, <2>1, <2>2, <2>3, TipFetchedFacts, Zenon DEF IInv, TypeOK, Pulled
    <2>7. \A u \in Txid : ViewCoins(u)' = ViewCoins(u)
      BY <1>2, <2>1, <2>2, <2>3, Zenon DEF IInv, TypeOK, ViewCoins
    <2>8. QED
      BY <1>2, <2>4, <2>5, <2>6, <2>7, Zenon DEF IInv
  <1>5. QED
    BY <1>3, <1>4, Zenon

\* A modification through the view changes the coins of one transaction there,
\* and nothing below.
LEMMA ModifyIInv ==
  ASSUME IInv, NEW t \in Txid, NEW c \in Coins, ModifyCoins(t, c)
  PROVE  /\ IInv'
         /\ \A u \in Txid : TipCoins(u)' = TipCoins(u)
         /\ \A u \in Txid : ViewCoins(u)' = IF u = t THEN c ELSE ViewCoins(u)
  <1> DEFINE e == IF FreshFor(t) /\ c = Pruned THEN NoEntry
                  ELSE [coins |-> c, dirty |-> TRUE, fresh |-> FreshFor(t)]
  <1>1. /\ open /\ view' = [view EXCEPT ![t] = e]
        /\ tip' = IF view[t] = NoEntry THEN TipFetched(t) ELSE tip
        /\ UNCHANGED <<db, dbBest, tipBest, viewBest, open>>
    BY Zenon DEF ModifyCoins
  <1>2. /\ tip' \in [Txid -> Entry \cup {NoEntry}]
        /\ \A u \in Txid :
             /\ TipCoins(u)' = TipCoins(u)
             /\ tip'[u] # NoEntry => /\ ~tip'[u].dirty => tip'[u].coins = db[u]
                                     /\ tip'[u].fresh => db[u] = Pruned
             /\ tip'[u] = NoEntry => tip[u] = NoEntry
    <2>1. CASE view[t] = NoEntry
      BY <1>1, <2>1, TipFetchedFacts, Zenon DEF TipCoins
    <2>2. CASE view[t] # NoEntry
      BY <1>1, <2>2, Zenon DEF IInv, TypeOK, FlagsSound, TipCoins
    <2>3. QED
      BY <2>1, <2>2, Zenon
  <1>3. /\ FreshFor(t) \in BOOLEAN
        /\ FreshFor(t) => TipCoins(t) = Pruned
        /\ tip'[t] = NoEntry => FreshFor(t)
    <2>1. CASE view[t] = NoEntry
      <3>1. FreshFor(t) = (TipFetched(t)[t] = NoEntry \/ TipFetched(t)[t].coins = Pruned)
        BY <2>1, Zenon DEF FreshFor
      <3>2. tip' = TipFetched(t)
        BY <1>1, <2>1, Zenon
      <3>3. QED
        BY <3>1, <3>2, TipFetchedFacts, Zenon
    <2>2. CASE view[t] # NoEntry
      BY <1>1, <2>2, EntryFacts, Zenon DEF FreshFor, IInv, TypeOK, FlagsSound, Pulled, Entry
    <2>3. QED
      BY <2>1, <2>2, Zenon
  <1>4. /\ e \in Entry \cup {NoEntry}
        /\ e = NoEntry => c = Pruned /\ TipCoins(t) = Pruned
        /\ e # NoEntry => e.coins = c /\ e.dirty /\ e.fresh = FreshFor(t)
    BY <1>3, EntryFacts, Zenon
  <1>5. /\ view'[t] = e
        /\ \A u \in Txid : u # t => view'[u] = view[u]
        /\ view' \in [Txid -> Entry \cup {NoEntry}]
    BY <1>1, <1>4, Zenon DEF IInv, TypeOK
  <1> HIDE DEF e
  <1>6. TypeOK'
    BY <1>1, <1>2, <1>5, Zenon DEF IInv, TypeOK
  <1>7. FlagsSound'
    <2> SUFFICES ASSUME NEW u \in Txid
                 PROVE  /\ tip'[u] # NoEntry => /\ ~tip'[u].dirty => tip'[u].coins = db'[u]
                                                /\ tip'[u].fresh => db'[u] = Pruned
                        /\ view'[u] # NoEntry => /\ ~view'[u].dirty => view'[u].coins = TipCoins(u)'
                                                 /\ view'[u].fresh => TipCoins(u)' = Pruned
      BY Zenon DEF FlagsSound
    <2>1. CASE u = t
      BY <1>1, <1>2, <1>3, <1>4, <1>5, <2>1, Zenon
    <2>2. CASE u # t
      BY <1>1, <1>2, <1>5, <2>2 DEF IInv, FlagsSound
    <2>3. QED
      BY <2>1, <2>2, Zenon
  <1>8. Pulled'
    <2> SUFFICES ASSUME NEW u \in Txid, view'[u] # NoEntry, tip'[u] = NoEntry
                 PROVE  view'[u].fresh
      BY Zenon DEF Pulled
    <2>1. CASE u = t
      BY <1>3, <1>4, <1>5, <2>1, Zenon
    <2>2. CASE u # t
      BY <1>2, <1>5, <2>2, Zenon DEF IInv, Pulled
    <2>3. QED
      BY <2>1, <2>2, Zenon
  <1>9. \A u \in Txid : ViewCoins(u)' = IF u = t THEN c ELSE ViewCoins(u)
    <2> SUFFICES ASSUME NEW u \in Txid
                 PROVE  ViewCoins(u)' = IF u = t THEN c ELSE ViewCoins(u)
      BY Zenon
    <2>1. ViewCoins(u)' = IF view'[u] # NoEntry THEN view'[u].coins ELSE TipCoins(u)'
      BY Zenon DEF ViewCoins
    <2>2. CASE u = t
      BY <1>2, <1>4, <1>5, <2>1, <2>2, Zenon
    <2>3. CASE u # t
      BY <1>2, <1>5, <2>1, <2>3, Zenon DEF ViewCoins
    <2>4. QED
      BY <2>2, <2>3, Zenon
  <1>10. QED
    BY <1>2, <1>6, <1>7, <1>8, <1>9, Zenon DEF IInv
\* Writing one entry of the view over one of pcoinsTip leaves there what the
\* view showed, with sound flags.
LEMMA WrittenFacts ==
  ASSUME IInv, NEW t \in Txid
  PROVE  LET w == Written(tip[t], view[t])
         IN /\ w \in Entry \cup {NoEntry}
            /\ (IF w # NoEntry THEN w.coins ELSE db[t]) = ViewCoins(t)
            /\ w # NoEntry => /\ ~w.dirty => w.coins = db[t]
                              /\ w.fresh => db[t] = Pruned
  <1> DEFINE us == tip[t]
             e == view[t]
             w == Written(us, e)
  <1>1. us \in Entry \cup {NoEntry} /\ e \in Entry \cup {NoEntry}
    BY Zenon DEF IInv, TypeOK
  <1>2. /\ us # NoEntry => /\ ~us.dirty => us.coins = db[t]
                           /\ us.fresh => db[t] = Pruned
        /\ e # NoEntry => /\ ~e.dirty => e.coins = TipCoins(t)
                          /\ e.fresh => TipCoins(t) = Pruned
        /\ e # NoEntry /\ us = NoEntry => e.fresh
    BY Zenon DEF IInv, FlagsSound, Pulled
  <1>3. TipCoins(t) = IF us # NoEntry THEN us.coins ELSE db[t]
    BY Zenon DEF TipCoins
  <1>4. ViewCoins(t) = IF e # NoEntry THEN e.coins ELSE TipCoins(t)
    BY Zenon DEF ViewCoins
  <1> SUFFICES /\ w \in Entry \cup {NoEntry}
               /\ (IF w # NoEntry THEN w.coins ELSE db[t]) = ViewCoins(t)
               /\ w # NoEntry => /\ ~w.dirty => w.coins = db[t]
                                 /\ w.fresh => db[t] = Pruned
    BY Zenon
  <1> HIDE DEF us, e
  <1>5. CASE e = NoEntry \/ ~e.dirty
    <2>1. w = us
      BY <1>5, Zenon DEF Written
    <2>2. QED
      BY <1>1, <1>2, <1>3, <1>4, <1>5, <2>1, Zenon
  <1>6. CASE e # NoEntry /\ e.dirty /\ us = NoEntry /\ e.coins = Pruned
    <2>1. w = NoEntry
      BY <1>6, Zenon DEF Written
    <2>2. QED
      BY <1>2, <1>3, <1>4, <1>6, <2>1, Zenon
  <1>7. CASE e # NoEntry /\ e.dirty /\ us = NoEntry /\ e.coins # Pruned
    <2>1. w = [coins |-> e.coins, dirty |-> TRUE, fresh |-> TRUE]
      BY <1>7, Zenon DEF Written
    <2>2. e.coins \in Coins
      BY <1>1, <1>7, Zenon DEF Entry
    <2>3. w \in Entry /\ w # NoEntry
      BY <2>1, <2>2, EntryFacts, Zenon
    <2>4. w.coins = e.coins /\ w.dirty
      BY <2>1
    <2>5. QED
      BY <1>2, <1>3, <1>4, <1>7, <2>3, <2>4, Zenon
  <1>8. CASE e # NoEntry /\ e.dirty /\ us # NoEntry /\ us.fresh /\ e.coins = Pruned
    <2>1. w = NoEntry
      BY <1>8, Zenon DEF Written
    <2>2. QED
      BY <1>2, <1>4, <1>8, <2>1, Zenon
  <1>9. CASE e # NoEntry /\ e.dirty /\ us # NoEntry /\ ~(us.fresh /\ e.coins = Pruned)
    <2>1. w = [us EXCEPT !.coins = e.coins, !.dirty = TRUE]
      BY <1>9, Zenon DEF Written
    <2>2. us \in Entry /\ e \in Entry
      BY <1>1, <1>9, Zenon
    <2>3. w \in Entry /\ w.coins = e.coins /\ w.dirty /\ w.fresh = us.fresh
      BY <2>1, <2>2, Zenon DEF Entry
    <2>4. w # NoEntry
      BY <2>3, EntryFacts, Zenon
    <2>5. QED
      BY <1>2, <1>4, <1>9, <2>3, <2>4, Zenon
  <1>10. QED
    BY <1>1, <1>5, <1>6, <1>7, <1>8, <1>9, Zenon DEF Entry

\* Flushing the view makes its coins the current ones.
LEMMA FlushViewIInv ==
  ASSUME IInv, FlushView
  PROVE  IInv' /\ \A u \in Txid : TipCoins(u)' = ViewCoins(u)
  <1>1. /\ tip' = [t \in Txid |-> Written(tip[t], view[t])]
        /\ tipBest' = viewBest /\ viewBest \in Block
        /\ open' = FALSE /\ view' = Empty /\ viewBest' = NoBlock
        /\ UNCHANGED <<db, dbBest>>
    BY Zenon DEF FlushView, IInv, TypeOK
  <1>2. \A u \in Txid :
          /\ tip'[u] \in Entry \cup {NoEntry}
          /\ (IF tip'[u] # NoEntry THEN tip'[u].coins ELSE db[u]) = ViewCoins(u)
          /\ tip'[u] # NoEntry => /\ ~tip'[u].dirty => tip'[u].coins = db[u]
                                  /\ tip'[u].fresh => db[u] = Pruned
    BY <1>1, WrittenFacts, Zenon
  <1>3. tip' \in [Txid -> Entry \cup {NoEntry}]
    BY <1>1, <1>2, Zenon
  <1>4. TypeOK'
    BY <1>1, <1>3, EntryFacts, Zenon DEF IInv, TypeOK
  <1>5. FlagsSound' /\ Pulled'
    BY <1>1, <1>2, EntryFacts, Zenon DEF FlagsSound, Pulled
  <1>6. QED
    BY <1>1, <1>2, <1>4, <1>5, Zenon DEF IInv, TipCoins

\* Flushing pcoinsTip stores the current coins.
LEMMA FlushTipIInv ==
  ASSUME IInv, FlushTip
  PROVE  IInv' /\ \A u \in Txid : TipCoins(u)' = TipCoins(u) /\ db'[u] = TipCoins(u)
  <1>1. /\ db' = [t \in Txid |-> IF tip[t] # NoEntry /\ tip[t].dirty THEN tip[t].coins ELSE db[t]]
        /\ dbBest' \in Block /\ tip' = Empty
        /\ UNCHANGED <<tipBest, view, viewBest, open>> /\ ~open
    BY Zenon DEF FlushTip, IInv, TypeOK
  <1>2. \A u \in Txid : db'[u] \in Coins /\ db'[u] = TipCoins(u)
    BY <1>1, Zenon DEF IInv, TypeOK, FlagsSound, TipCoins, Entry
  <1>3. view' = Empty
    BY <1>1, Zenon DEF IInv, TypeOK
  <1>4. TypeOK'
    BY <1>1, <1>2, EntryFacts, Zenon DEF IInv, TypeOK
  <1>5. FlagsSound' /\ Pulled'
    BY <1>1, <1>3, EntryFacts, Zenon DEF FlagsSound, Pulled
  <1>6. QED
    BY <1>1, <1>2, <1>4, <1>5, EntryFacts, Zenon DEF IInv, TipCoins

\* The steps that open, close or forget caches, and the best block.
LEMMA OtherIInv ==
  ASSUME IInv,
         \/ Open \/ GetBestBlock \/ DestroyView \/ FlushTipFails \/ Restart
         \/ \E b \in Block : SetBestBlock(b)
  PROVE  IInv'
  <1>1. CASE Open \/ DestroyView
    BY <1>1, EntryFacts, Zenon DEF Open, DestroyView, IInv, TypeOK, FlagsSound, Pulled, TipCoins
  <1>2. CASE GetBestBlock \/ \E b \in Block : SetBestBlock(b)
    BY <1>2, Zenon DEF GetBestBlock, SetBestBlock, IInv, TypeOK, FlagsSound, Pulled, TipCoins
  <1>3. CASE FlushTipFails
    <2>1. view' = Empty
      BY <1>3, Zenon DEF FlushTipFails, IInv, TypeOK
    <2>2. QED
      BY <1>3, <2>1, EntryFacts, Zenon DEF FlushTipFails, IInv, TypeOK, FlagsSound, Pulled
  <1>4. CASE Restart
    BY <1>4, EntryFacts, Zenon DEF Restart, IInv, TypeOK, FlagsSound, Pulled
  <1>5. QED
    BY <1>1, <1>2, <1>3, <1>4, Zenon

\* The invariant is inductive.
LEMMA NextIInv == IInv /\ [Next]_vars => IInv'
  <1> SUFFICES ASSUME IInv, [Next]_vars PROVE IInv'
    BY Zenon
  <1>1. CASE UNCHANGED vars
    BY <1>1, Zenon DEF vars, IInv, TypeOK, FlagsSound, Pulled, TipCoins
  <1>2. CASE Next
    BY <1>2, AccessIInv, ModifyIInv, FlushViewIInv, FlushTipIInv, OtherIInv, Zenon DEF Next
  <1>3. QED
    BY <1>1, <1>2, Zenon

\* The inductive invariant always holds.
THEOREM Invariance == Spec => []IInv
  BY InitIInv, NextIInv, PTL DEF Spec

\* Entries, best blocks and the open view keep their types: an entry that is not
\* in a cache has no flags.
THEOREM TypeCorrect == Spec => []TypeOK
  <1>1. IInv => TypeOK
    BY Zenon DEF IInv
  <1>2. QED
    BY <1>1, Invariance, PTL

\* DIRTY and FRESH mean what CCoinsCacheEntry says, whatever is read, modified,
\* flushed or lost.
THEOREM FlagsAreSound == Spec => []FlagsSound
  <1>1. IInv => FlagsSound
    BY Zenon DEF IInv
  <1>2. QED
    BY <1>1, Invariance, PTL

\* The assertion in CCoinsViewCache::BatchWrite never fails.
THEOREM AssertHolds == Spec => []BatchWriteAssert
  BY PulledAssert, Invariance, PTL
-----------------------------------------------------------------------------
\* The three versions, as CoinsMap names them.
committedBar == [coins |-> db, best |-> dbBest]
currentBar == [coins |-> [t \in Txid |-> TipCoins(t)], best |-> TipBestBlock]
draftBar == IF open THEN [coins |-> [t \in Txid |-> ViewCoins(t)], best |-> ViewBestBlock]
            ELSE NoDraft

\* A draft that exists is not the mark for one that does not.
LEMMA DraftFacts ==
  ASSUME IInv
  PROVE  /\ currentBar \in [coins : [Txid -> Coins], best : Block]
         /\ [coins |-> [t \in Txid |-> ViewCoins(t)], best |-> ViewBestBlock] # NoDraft
  <1>1. \A t \in Txid : TipCoins(t) \in Coins /\ ViewCoins(t) \in Coins
    BY Zenon DEF IInv, TypeOK, TipCoins, ViewCoins, Entry
  <1>2. TipBestBlock \in Block /\ ViewBestBlock \in Block
    BY Zenon DEF IInv, TypeOK, TipBestBlock, ViewBestBlock
  <1>3. QED
    BY <1>1, <1>2, CoinsAssumption DEF currentBar

\* Every step of the caches is a step of the maps, or changes none of them.
LEMMA StepRefines ==
  ASSUME IInv, IInv', [Next]_vars
  PROVE  [Map!Next]_(Map!vars)
  <1> USE DEF committedBar, currentBar, draftBar
  <1>0. /\ open => draftBar # NoDraft
        /\ ~open => draftBar = NoDraft
    BY DraftFacts, Zenon
  <1>1. CASE UNCHANGED vars
    BY <1>1, Zenon DEF vars, Map!vars, TipCoins, ViewCoins, TipBestBlock, ViewBestBlock
  <1>2. ASSUME NEW t \in Txid, AccessTip(t) \/ AccessCoins(t)
        PROVE  UNCHANGED Map!vars
    <2>1. \A u \in Txid : TipCoins(u)' = TipCoins(u) /\ ViewCoins(u)' = ViewCoins(u)
      BY <1>2, AccessIInv, Zenon
    <2>2. UNCHANGED <<db, dbBest, tipBest, viewBest, open>>
      BY <1>2, Zenon DEF AccessTip, AccessCoins
    <2>3. TipBestBlock' = TipBestBlock /\ ViewBestBlock' = ViewBestBlock
      BY <2>2, Zenon DEF TipBestBlock, ViewBestBlock
    <2>4. QED
      BY <2>1, <2>2, <2>3, Zenon DEF Map!vars
  <1>3. ASSUME NEW t \in Txid, NEW c \in Coins, ModifyCoins(t, c)
        PROVE  Map!Update(t, c)
    <2>1. /\ \A u \in Txid : TipCoins(u)' = TipCoins(u)
          /\ \A u \in Txid : ViewCoins(u)' = IF u = t THEN c ELSE ViewCoins(u)
      BY <1>3, ModifyIInv, Zenon
    <2>2. open /\ UNCHANGED <<db, dbBest, tipBest, viewBest, open>>
      BY <1>3, Zenon DEF ModifyCoins
    <2>3. TipBestBlock' = TipBestBlock /\ ViewBestBlock' = ViewBestBlock
      BY <2>2, Zenon DEF TipBestBlock, ViewBestBlock
    <2>4. /\ draftBar.coins = [u \in Txid |-> ViewCoins(u)] /\ draftBar.best = ViewBestBlock
          /\ draftBar' = [coins |-> [draftBar.coins EXCEPT ![t] = c], best |-> draftBar.best]
      BY <2>1, <2>2, <2>3, Zenon
    <2>5. QED
      BY <1>0, <2>1, <2>2, <2>3, <2>4, Zenon DEF Map!Update
  <1>4. ASSUME NEW b \in Block, SetBestBlock(b) PROVE Map!SetBest(b)
    <2>1. open /\ viewBest' = b /\ UNCHANGED <<db, dbBest, tip, tipBest, view, open>>
      BY <1>4, Zenon DEF SetBestBlock
    <2>2. /\ \A u \in Txid : TipCoins(u)' = TipCoins(u) /\ ViewCoins(u)' = ViewCoins(u)
          /\ TipBestBlock' = TipBestBlock /\ ViewBestBlock' = b
      BY <2>1, CoinsAssumption, Zenon DEF TipCoins, ViewCoins, TipBestBlock, ViewBestBlock
    <2>3. QED
      BY <1>0, <2>1, <2>2, Zenon DEF Map!SetBest
  <1>5. CASE GetBestBlock
    <2>1. /\ \A u \in Txid : TipCoins(u)' = TipCoins(u) /\ ViewCoins(u)' = ViewCoins(u)
          /\ TipBestBlock' = TipBestBlock /\ ViewBestBlock' = ViewBestBlock
          /\ UNCHANGED <<db, dbBest, open>>
      BY <1>5, CoinsAssumption, Zenon
      DEF GetBestBlock, TipCoins, ViewCoins, TipBestBlock, ViewBestBlock, IInv, TypeOK
    <2>2. QED
      BY <2>1, Zenon DEF Map!vars
  <1>6. CASE Open
    <2>1. /\ ~open /\ open' /\ view' = Empty /\ viewBest' = NoBlock
          /\ UNCHANGED <<db, dbBest, tip, tipBest>>
      BY <1>6, Zenon DEF Open
    <2>2. \A u \in Txid : TipCoins(u)' = TipCoins(u) /\ ViewCoins(u)' = TipCoins(u)
      BY <2>1, EntryFacts, Zenon DEF TipCoins, ViewCoins
    <2>3. TipBestBlock' = TipBestBlock /\ ViewBestBlock' = TipBestBlock
      BY <2>1, Zenon DEF TipBestBlock, ViewBestBlock
    <2>4. Map!Open
      BY <1>0, <2>1, <2>2, <2>3, Zenon DEF Map!Open
    <2>5. QED
      BY <2>4, Zenon DEF Map!Next
  <1>7. CASE DestroyView
    <2>1. open /\ ~open' /\ UNCHANGED <<db, dbBest, tip, tipBest>>
      BY <1>7, Zenon DEF DestroyView
    <2>2. /\ \A u \in Txid : TipCoins(u)' = TipCoins(u)
          /\ TipBestBlock' = TipBestBlock
      BY <2>1, Zenon DEF TipCoins, TipBestBlock
    <2>3. Map!Abandon
      BY <1>0, <2>1, <2>2, Zenon DEF Map!Abandon
    <2>4. QED
      BY <2>3, Zenon DEF Map!Next
  <1>8. CASE FlushView
    <2>1. open /\ ~open' /\ tipBest' = viewBest /\ viewBest \in Block /\ UNCHANGED <<db, dbBest>>
      BY <1>8, Zenon DEF FlushView, IInv, TypeOK
    <2>2. \A u \in Txid : TipCoins(u)' = ViewCoins(u)
      BY <1>8, FlushViewIInv, Zenon
    <2>3. TipBestBlock' = ViewBestBlock
      BY <2>1, CoinsAssumption, Zenon DEF TipBestBlock, ViewBestBlock
    <2>4. Map!Commit
      BY <1>0, <2>1, <2>2, <2>3, Zenon DEF Map!Commit
    <2>5. QED
      BY <2>4, Zenon DEF Map!Next
  <1>9. CASE FlushTip
    <2>1. ~open /\ ~open' /\ dbBest' = TipBestBlock /\ tipBest' = tipBest
      BY <1>9, Zenon DEF FlushTip, TipBestBlock
    <2>2. \A u \in Txid : TipCoins(u)' = TipCoins(u) /\ db'[u] = TipCoins(u)
      BY <1>9, FlushTipIInv, Zenon
    <2>3. TipBestBlock' = TipBestBlock
      BY <2>1, Zenon DEF TipBestBlock
    <2>4. db' = [u \in Txid |-> TipCoins(u)]
      BY <2>2, Zenon DEF IInv, TypeOK
    <2>5. Map!Sync
      BY <1>0, <2>1, <2>2, <2>3, <2>4, Zenon DEF Map!Sync
    <2>6. QED
      BY <2>5, Zenon DEF Map!Next
  <1>10. CASE FlushTipFails
    <2>1. ~open /\ ~open' /\ tip' = Empty /\ UNCHANGED <<db, dbBest, tipBest>>
      BY <1>10, Zenon DEF FlushTipFails
    <2>2. \A u \in Txid : TipCoins(u)' = db[u]
      BY <2>1, EntryFacts, Zenon DEF TipCoins
    <2>3. TipBestBlock' = TipBestBlock
      BY <2>1, Zenon DEF TipBestBlock
    <2>4. db = [u \in Txid |-> db[u]]
      BY Zenon DEF IInv, TypeOK
    <2>5. Map!SyncFails
      BY <1>0, <2>1, <2>2, <2>3, <2>4, Zenon DEF Map!SyncFails
    <2>6. QED
      BY <2>5, Zenon DEF Map!Next
  <1>11. CASE Restart
    <2>1. ~open' /\ tip' = Empty /\ tipBest' = NoBlock /\ UNCHANGED <<db, dbBest>>
      BY <1>11, Zenon DEF Restart
    <2>2. \A u \in Txid : TipCoins(u)' = db[u]
      BY <2>1, EntryFacts, Zenon DEF TipCoins
    <2>3. TipBestBlock' = dbBest
      BY <2>1, Zenon DEF TipBestBlock
    <2>4. db = [u \in Txid |-> db[u]]
      BY Zenon DEF IInv, TypeOK
    <2>5. Map!Restart
      BY <2>1, <2>2, <2>3, <2>4, Zenon DEF Map!Restart
    <2>6. QED
      BY <2>5, Zenon DEF Map!Next
  <1>12. QED
    BY <1>1, <1>2, <1>3, <1>4, <1>5, <1>6, <1>7, <1>8, <1>9, <1>10, <1>11, Zenon DEF Next, Map!Next

\* The stack of coin views implements three plain maps, for any transactions and
\* coins: the caches lose nothing, invent nothing and keep commits atomic.
THEOREM CachesRefine == Spec => Implements
  <1>1. Init => Map!Init
    <2> SUFFICES ASSUME Init PROVE Map!Init
      BY Zenon
    <2>1. \A t \in Txid : TipCoins(t) = db[t]
      BY EntryFacts, Zenon DEF Init, TipCoins
    <2>2. TipBestBlock = dbBest /\ ~open
      BY Zenon DEF Init, TipBestBlock
    <2>3. [t \in Txid |-> TipCoins(t)] = db /\ db \in [Txid -> Coins] /\ dbBest \in Block
      BY <2>1, Zenon DEF Init
    <2>4. QED
      BY <2>2, <2>3, Zenon DEF Map!Init, Map!Version
  <1>2. QED
    BY <1>1, Invariance, StepRefines, PTL DEF Spec, Implements, Map!Spec
=============================================================================
