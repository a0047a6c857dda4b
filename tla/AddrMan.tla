------------------------------- MODULE AddrMan -------------------------------
(***************************************************************************)
(* The address manager of addrman.h and addrman.cpp: network addresses in  *)
(* "new" and "tried" buckets, with the indexes that make them quick to     *)
(* find and to draw at random, and their life across restarts in           *)
(* peers.dat.                                                              *)
(*                                                                         *)
(* Every public method holds cs, so it is one step.  Times and attempts    *)
(* only decide which entry is terrible, oldest or news; they are left out, *)
(* and each of these comparisons may come out either way.  Attempt_ and    *)
(* Connected_ change nothing else, and Select_ changes nothing at all.     *)
(***************************************************************************)
EXTENDS Integers, Sequences, FiniteSets, SequencesExt

CONSTANTS
  Addr,                             \* CNetAddr
  Port,
  Routable,                         \* the addresses for which IsRoutable holds
  Source,                           \* where knowledge about an address comes from
  Heard,                            \* <<addr, port, source>> of the announcements there may be
  ADDRMAN_NEW_BUCKET_COUNT, ADDRMAN_NEW_BUCKET_SIZE,
  ADDRMAN_TRIED_BUCKET_COUNT, ADDRMAN_TRIED_BUCKET_SIZE,
  ADDRMAN_NEW_BUCKETS_PER_ADDRESS,
  ADDRMAN_TRIED_ENTRIES_INSPECT_ON_EVICT,
  ADDRMAN_GETADDR_MAX_PCT, ADDRMAN_GETADDR_MAX,
  GetNewBucket,                     \* GetNewBucket[a, src], hashed with nKey
  GetTriedBucket,                   \* GetTriedBucket[a], hashed with nKey
  MaxId                             \* bound on nIdCount

NewBucket == 0 .. ADDRMAN_NEW_BUCKET_COUNT - 1
TriedBucket == 0 .. ADDRMAN_TRIED_BUCKET_COUNT - 1

ASSUME AddrManAssumption ==
  /\ Routable \subseteq Addr /\ Heard \subseteq Addr \X Port \X Source
  /\ {ADDRMAN_NEW_BUCKET_COUNT, ADDRMAN_NEW_BUCKET_SIZE, ADDRMAN_TRIED_BUCKET_COUNT,
      ADDRMAN_TRIED_BUCKET_SIZE, ADDRMAN_NEW_BUCKETS_PER_ADDRESS,
      ADDRMAN_TRIED_ENTRIES_INSPECT_ON_EVICT} \subseteq Nat \ {0}
  /\ GetNewBucket \in [Addr \X Source -> NewBucket]
  /\ GetTriedBucket \in [Addr -> TriedBucket]
  /\ MaxId \in Nat

VARIABLE addrman                    \* the one CAddrMan of the program

\* CAddrInfo.  Position 1 of vRandom is the code's 0; hasSuccess is nLastSuccess # 0.
CAddrInfo ==
  [ addr : Addr, port : Port, source : Source, hasSuccess : BOOLEAN,
    nRefCount : Nat, fInTried : BOOLEAN, nRandomPos : Nat ]

Id == 0 .. MaxId - 1

\* The members of CAddrMan.
CAddrMan(m) ==
  /\ m.nIdCount \in 0 .. MaxId
  /\ DOMAIN m.mapInfo \subseteq Id /\ \A id \in DOMAIN m.mapInfo : m.mapInfo[id] \in CAddrInfo
  /\ DOMAIN m.mapAddr \subseteq Routable /\ \A a \in DOMAIN m.mapAddr : m.mapAddr[a] \in Id
  /\ m.vRandom \in Seq(Id)
  /\ m.nTried \in Int /\ m.vvTried \in [TriedBucket -> Seq(Id)]
  /\ m.nNew \in Int /\ m.vvNew \in [NewBucket -> SUBSET Id]

Empty ==
  [ nIdCount |-> 0, mapInfo |-> [id \in {} |-> 0], mapAddr |-> [a \in {} |-> 0],
    vRandom |-> <<>>, nTried |-> 0, vvTried |-> [b \in TriedBucket |-> <<>>],
    nNew |-> 0, vvNew |-> [b \in NewBucket |-> {}] ]

Init == addrman = Empty

-----------------------------------------------------------------------------
\* The code's operations on the members of a CAddrMan, m.

\* Create an entry with the next id.
Create(m, a, port, source) ==
  [m EXCEPT !.nIdCount = @ + 1,
            !.mapInfo = (m.nIdCount :> [addr |-> a, port |-> port, source |-> source,
                           hasSuccess |-> FALSE, nRefCount |-> 0, fInTried |-> FALSE,
                           nRandomPos |-> Len(m.vRandom) + 1]) @@ @,
            !.mapAddr = (a :> m.nIdCount) @@ @,
            !.vRandom = Append(@, m.nIdCount)]

\* Mutant of SwapRandom: the entries are not told of their new positions.
SwapRandomSilently(m, i, j) ==
  [m EXCEPT !.vRandom = [@ EXCEPT ![i] = m.vRandom[j], ![j] = m.vRandom[i]]]

\* Swap two elements of vRandom.
SwapRandom(m, i, j) ==
  [m EXCEPT !.mapInfo[m.vRandom[i]].nRandomPos = j,
            !.mapInfo[m.vRandom[j]].nRandomPos = i,
            !.vRandom = [@ EXCEPT ![i] = m.vRandom[j], ![j] = m.vRandom[i]]]

\* Delete an entry: its place in vRandom goes to the last one.
Erase(m, id) ==
  LET s == SwapRandom(m, m.mapInfo[id].nRandomPos, Len(m.vRandom))
  IN [s EXCEPT !.vRandom = Front(@),
               !.mapAddr = Restrict(@, DOMAIN @ \ {m.mapInfo[id].addr}),
               !.mapInfo = Restrict(@, DOMAIN @ \ {id}),
               !.nNew = @ - 1]

\* ShrinkNew: the first terrible entry of the bucket, or else the oldest of some,
\* loses its place there, and is deleted when that was its last.
ShrinkNew(m, b) ==
  {LET u == [m EXCEPT !.mapInfo[id].nRefCount = @ - 1]
   IN [(IF u.mapInfo[id].nRefCount = 0 THEN Erase(u, id) ELSE u) EXCEPT !.vvNew[b] = @ \ {id}] :
     id \in m.vvNew[b]}

\* Swap two places of a bucket.
Swapped(v, i, j) == [v EXCEPT ![i] = v[j], ![j] = v[i]]

\* SelectTried: the bucket with its first few places shuffled, and the place of
\* the entry to evict; which entry is the oldest is left open, so it is any of the
\* places the shuffle looked at.
SelectTried(v) ==
  LET n == IF Len(v) < ADDRMAN_TRIED_ENTRIES_INSPECT_ON_EVICT
           THEN Len(v) ELSE ADDRMAN_TRIED_ENTRIES_INSPECT_ON_EVICT
      Picks == {nPos \in [1 .. n -> 1 .. Len(v)] : \A i \in 1 .. n : nPos[i] >= i}
      Shuffled(nPos) == FoldLeft(LAMBDA u, i : Swapped(u, i, nPos[i]), v, [i \in 1 .. n |-> i])
  IN UNION {{[vTried |-> Shuffled(nPos), nPos |-> nPos[i]] : i \in 1 .. n} : nPos \in Picks}

\* Mutant of RemoveFromNew: the entry stays in the other buckets.
RemoveFromNewOnce(m, id, nOrigin) ==
  [m EXCEPT !.vvNew[nOrigin] = @ \ {id}, !.mapInfo[id].nRefCount = 0, !.nNew = @ - 1]

\* MakeTried, first half: the entry leaves all new buckets.
RemoveFromNew(m, id, nOrigin) ==
  [m EXCEPT !.vvNew = [b \in NewBucket |-> @[b] \ {id}],
            !.mapInfo[id].nRefCount = @ - Cardinality({b \in NewBucket : id \in m.vvNew[b]}),
            !.nNew = @ - 1]

\* Mutant of ReturnBucket: the evicted entry always goes to its own bucket.
ReturnBucketOwn(m, old, nOrigin) ==
  GetNewBucket[m.mapInfo[old].addr, m.mapInfo[old].source]

\* The new bucket for an entry evicted from tried: its own if there is place, or
\* the one the entry that takes its place came from.
ReturnBucket(m, old, nOrigin) ==
  LET own == GetNewBucket[m.mapInfo[old].addr, m.mapInfo[old].source]
  IN IF Cardinality(m.vvNew[own]) < ADDRMAN_NEW_BUCKET_SIZE THEN own ELSE nOrigin

\* MakeTried: the entry goes to its tried bucket, from which another one may have
\* to return to a new bucket.
MakeTried(m, id, nOrigin) ==
  LET r == RemoveFromNew(m, id, nOrigin)
      k == GetTriedBucket[r.mapInfo[id].addr]
      t == [r EXCEPT !.mapInfo[id].fInTried = TRUE]
  IN IF Len(r.vvTried[k]) < ADDRMAN_TRIED_BUCKET_SIZE
     THEN {[t EXCEPT !.vvTried[k] = Append(@, id), !.nTried = @ + 1]}
     ELSE {LET old == sel.vTried[sel.nPos]
           IN [t EXCEPT !.mapInfo[old].fInTried = FALSE, !.mapInfo[old].nRefCount = 1,
                        !.vvNew[ReturnBucket(r, old, nOrigin)] = @ \cup {old},
                        !.nNew = @ + 1,
                        !.vvTried[k] = [sel.vTried EXCEPT ![sel.nPos] = id]] :
             sel \in SelectTried(r.vvTried[k])}

-----------------------------------------------------------------------------
\* The public methods.

\* Mutant of MayAdd: an entry of the tried table gets a place in a new bucket.
MayAddTried(info) == info.nRefCount # ADDRMAN_NEW_BUCKETS_PER_ADDRESS

\* Whether Add_ may give a known entry one more place: there is news of it, it is
\* not in the tried table, and a coin that is fair enough falls well.
MayAdd(info) == ~info.fInTried /\ info.nRefCount # ADDRMAN_NEW_BUCKETS_PER_ADDRESS

\* Add_, in a bucket that may be full.
AddToBucket(m, id, b) ==
  LET c == [m EXCEPT !.mapInfo[id].nRefCount = @ + 1]
  IN {[s EXCEPT !.vvNew[b] = @ \cup {id}] :
        s \in IF Cardinality(m.vvNew[b]) = ADDRMAN_NEW_BUCKET_SIZE THEN ShrinkNew(c, b) ELSE {c}}

IsRoutable(a) == a \in Routable

\* An address is heard of, for the first time or again.
Add(a, port, source) ==
  LET m == addrman
      b == GetNewBucket[a, source]
  IN /\ IsRoutable(a)
     /\ \/ /\ a \in DOMAIN m.mapAddr
           /\ LET id == m.mapAddr[a]
              IN /\ MayAdd(m.mapInfo[id])
                 /\ id \notin m.vvNew[b]
                 /\ addrman' \in AddToBucket(m, id, b)
        \/ /\ a \notin DOMAIN m.mapAddr
           /\ m.nIdCount < MaxId
           /\ addrman' \in AddToBucket([Create(m, a, port, source) EXCEPT !.nNew = @ + 1], m.nIdCount, b)

\* A connection to the address succeeded: the entry, if it is for this very port,
\* becomes a tried one.
Good(a, port) ==
  LET m == addrman
      id == m.mapAddr[a]
      g == [m EXCEPT !.mapInfo[id].hasSuccess = TRUE]
  IN /\ a \in DOMAIN m.mapAddr
     /\ m.mapInfo[id].port = port
     /\ \/ /\ m.mapInfo[id].fInTried
           /\ addrman' = g
        \/ /\ ~m.mapInfo[id].fInTried
           /\ \E nOrigin \in NewBucket : id \in m.vvNew[nOrigin] /\ addrman' \in MakeTried(g, id, nOrigin)

\* GetAddr: vRandom is shuffled from its start, unless no entry is to be returned
\* at all.  The loop ends once enough good entries were seen, which is as if the
\* remaining ones stayed in place.
GetAddr ==
  LET m == addrman
      size == Len(m.vRandom)
      pct == (ADDRMAN_GETADDR_MAX_PCT * size) \div 100
      nNodes == IF pct > ADDRMAN_GETADDR_MAX THEN ADDRMAN_GETADDR_MAX ELSE pct
  IN /\ nNodes > 0
     /\ \E nRndPos \in [1 .. size -> 1 .. size] :
          /\ \A n \in 1 .. size : nRndPos[n] >= n
          /\ addrman' = FoldLeft(LAMBDA s, n : SwapRandom(s, n, nRndPos[n]), m, [n \in 1 .. size |-> n])

-----------------------------------------------------------------------------
\* peers.dat.

Ascending(S) == SetToSortSeq(S, <)

\* Serialize: the new entries and then the tried ones, each in the order of their
\* ids, and for every new bucket the indexes of its entries among the former.
Serialize(m) ==
  LET news == Ascending({id \in DOMAIN m.mapInfo : m.mapInfo[id].nRefCount # 0})
      trieds == Ascending({id \in DOMAIN m.mapInfo : m.mapInfo[id].fInTried})
      stored(id) == [m.mapInfo[id] EXCEPT !.nRefCount = 0, !.fInTried = FALSE, !.nRandomPos = 0]
  IN [ new |-> [i \in DOMAIN news |-> stored(news[i])],
       tried |-> [i \in DOMAIN trieds |-> stored(trieds[i])],
       buckets |-> [b \in NewBucket |-> {i - 1 : i \in {j \in DOMAIN news : news[j] \in m.vvNew[b]}}] ]

\* Mutant of Readmitted: off by one.
ReadmittedButOne(f, i) ==
  {b \in NewBucket : /\ i \in f.buckets[b]
                     /\ Cardinality({c \in 0 .. b - 1 : i \in f.buckets[c]}) < ADDRMAN_NEW_BUCKETS_PER_ADDRESS - 1}

\* The buckets among those of the file that take back entry i: no more than an
\* address may have.
Readmitted(f, i) ==
  {b \in NewBucket : /\ i \in f.buckets[b]
                     /\ Cardinality({c \in 0 .. b - 1 : i \in f.buckets[c]}) < ADDRMAN_NEW_BUCKETS_PER_ADDRESS}

\* Unserialize, the new entries: ids are given out again from 0.  The file comes from
\* the same build, so that the number of new buckets in it is the constant of this one
\* and the branch for another number, which sorts the entries into one bucket each,
\* is not taken.
LoadNew(f) ==
  LET Ids == 0 .. Len(f.new) - 1
  IN [ Empty EXCEPT
         !.nIdCount = Len(f.new), !.nNew = Len(f.new),
         !.mapInfo = [id \in Ids |-> [f.new[id + 1] EXCEPT !.nRandomPos = id + 1,
                                        !.nRefCount = Cardinality(Readmitted(f, id))]],
         !.mapAddr = [a \in {f.new[id + 1].addr : id \in Ids} |->
                        CHOOSE id \in Ids : f.new[id + 1].addr = a],
         !.vRandom = [i \in 1 .. Len(f.new) |-> i - 1],
         !.vvNew = [b \in NewBucket |-> {id \in Ids : b \in Readmitted(f, id)}] ]

\* Unserialize, one tried entry: it is lost when its bucket is full.
LoadTried(m, info) ==
  LET k == GetTriedBucket[info.addr]
      id == m.nIdCount
  IN IF Len(m.vvTried[k]) < ADDRMAN_TRIED_BUCKET_SIZE
     THEN [m EXCEPT !.nIdCount = @ + 1, !.nTried = @ + 1,
                    !.mapInfo = (id :> [info EXCEPT !.fInTried = TRUE,
                                                    !.nRandomPos = Len(m.vRandom) + 1]) @@ @,
                    !.mapAddr = (info.addr :> id) @@ @,
                    !.vRandom = Append(@, id),
                    !.vvTried[k] = Append(@, id)]
     ELSE m

Unserialize(f) == FoldLeft(LoadTried, LoadNew(f), f.tried)

\* The node is stopped, which writes peers.dat, and started again with it.  A crash,
\* which goes back to the file of the last dump, is no step here: it drops what was
\* learnt since, and the tables it leads to are those of a restart at that dump.
Restart == addrman' = Unserialize(Serialize(addrman))

Next ==
  \/ \E h \in Heard : Add(h[1], h[2], h[3])
  \/ \E a \in Addr, port \in Port : Good(a, port)
  \/ GetAddr
  \/ Restart

Spec == Init /\ [][Next]_addrman

-----------------------------------------------------------------------------
Infos == addrman.mapInfo
Ids == DOMAIN Infos
NewPlaces(id) == {b \in NewBucket : id \in addrman.vvNew[b]}
TriedPlaces(id) ==
  UNION {{<<k, i>> : i \in {j \in DOMAIN addrman.vvTried[k] : addrman.vvTried[k][j] = id}} : k \in TriedBucket}
IsTried(m, a) == a \in DOMAIN m.mapAddr /\ m.mapInfo[m.mapAddr[a]].fInTried
Buckets(m, a) == {b \in NewBucket : m.mapAddr[a] \in m.vvNew[b]}

\* The members of CAddrMan have the types the code gives them.
TypeOK == CAddrMan(addrman)

\* The indexes that Find and the random draws follow without a check: mapAddr and
\* vRandom lead to the entries and nothing else, and nRandomPos leads back
\* (results -5 and -14 of Check_, which only a debug build runs).  The members keep
\* their types.
IndexesExact ==
  /\ TypeOK
  /\ Len(addrman.vRandom) = Cardinality(Ids)
  /\ \A id \in Ids : /\ Infos[id].addr \in DOMAIN addrman.mapAddr /\ addrman.mapAddr[Infos[id].addr] = id
                     /\ Infos[id].nRandomPos \in DOMAIN addrman.vRandom
                     /\ addrman.vRandom[Infos[id].nRandomPos] = id
  /\ \A a \in DOMAIN addrman.mapAddr : addrman.mapAddr[a] \in Ids

\* An entry is either in one place of its tried bucket or in as many new buckets
\* as nRefCount says, one to ADDRMAN_NEW_BUCKETS_PER_ADDRESS; nNew and nTried
\* count them.  With a count that no bucket accounts for, Select_ would look for an
\* entry forever, holding the lock; with one reference too few, ShrinkNew would
\* delete an entry that a bucket still names.
PlacesExact ==
  /\ \A b \in NewBucket : addrman.vvNew[b] \subseteq Ids
  /\ \A id \in Ids :
       /\ Infos[id].nRefCount = Cardinality(NewPlaces(id))
       /\ IF Infos[id].fInTried
          THEN /\ Infos[id].hasSuccess /\ NewPlaces(id) = {}
               /\ Cardinality(TriedPlaces(id)) = 1
               /\ \A p \in TriedPlaces(id) : p[1] = GetTriedBucket[Infos[id].addr]
          ELSE /\ TriedPlaces(id) = {}
               /\ Infos[id].nRefCount \in 1 .. ADDRMAN_NEW_BUCKETS_PER_ADDRESS
  /\ \A k \in TriedBucket : Range(addrman.vvTried[k]) \subseteq Ids
  /\ addrman.nTried = Cardinality({id \in Ids : Infos[id].fInTried})
  /\ addrman.nNew = Cardinality({id \in Ids : ~Infos[id].fInTried})

\* No bucket outgrows its size, also when an entry evicted from tried has to go to
\* the bucket of its successor, of which MakeTried says "there is certainly place
\* there".
BucketsBounded ==
  /\ \A b \in NewBucket : Cardinality(addrman.vvNew[b]) <= ADDRMAN_NEW_BUCKET_SIZE
  /\ \A k \in TriedBucket : Len(addrman.vvTried[k]) <= ADDRMAN_TRIED_BUCKET_SIZE

\* "Elements are never deleted while in the 'tried' table, only possibly evicted
\* back to the 'new' table": the only step that drops an address drops one from a
\* full new bucket, and a restart drops none.
TriedKept == [][\A a \in Addr : IsTried(addrman, a) => a \in DOMAIN addrman'.mapAddr]_addrman

\* A restart changes ids and orders only: the same addresses are known, tried are
\* those that were, and each new one is in the buckets it was in, although
\* peers.dat holds neither reference counts nor tried buckets.
RestartKeeps ==
  [][Restart =>
       /\ DOMAIN addrman'.mapAddr = DOMAIN addrman.mapAddr
       /\ \A a \in DOMAIN addrman.mapAddr :
            /\ IsTried(addrman, a) <=> IsTried(addrman', a)
            /\ Buckets(addrman, a) = Buckets(addrman', a)]_addrman
=============================================================================
