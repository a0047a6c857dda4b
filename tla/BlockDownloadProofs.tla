------------------------- MODULE BlockDownloadProofs -------------------------
(***************************************************************************)
(* For any block tree, any peers, any window and any limit per peer: the   *)
(* safety invariants of BlockDownload hold.  First the inductive invariant *)
(* and the lemmas on its parts, then one lemma per action, then the        *)
(* theorems.                                                               *)
(***************************************************************************)
EXTENDS BlockDownload, FiniteSetTheorems, SequenceTheorems, WellFoundedInduction, TLAPS

\* The blocks a peer may have announced or sent headers of.
Known(p) == UNION {Chain[b] : b \in PeerBlock[p]}

\* What the invariants say of the chain, of the peers and of the counters.
GlobalOK ==
  /\ headers \subseteq Block /\ data \subseteq headers /\ tip \in Linked(data)
  /\ pindexBestHeader \in headers
  /\ nQueuedValidatedHeaders \in Int
  /\ peerTip \in [Peer -> Block]
  /\ inv \in [Peer -> SUBSET Block]
  /\ getheaders \in [Peer -> SUBSET (Block \X (Block \cup {NoBlock}))]
  /\ connects \in [Peer -> 0 .. MaxConnects]
  /\ \A p \in Peer : peerTip[p] \in PeerBlock[p] /\ inv[p] \subseteq Known(p)

\* What they say of the state s of node p, when h are the known headers and d the
\* stored blocks.
NodeOK(p, s, h, d) ==
  /\ s \in CNodeState
  /\ s.pindexBestKnownBlock \in (h \cap Known(p)) \cup {NoBlock}
  /\ s.hashLastUnknownBlock \in Known(p) \cup {NoBlock}
  /\ s.pindexLastCommonBlock \in (Linked(d) \cap Known(p)) \cup {NoBlock}
  /\ s.fStalling => s.vBlocksInFlight # <<>>
  /\ Len(s.vBlocksInFlight) <= MAX_BLOCKS_IN_TRANSIT_PER_PEER

NodesOK ==
  /\ Nodes \subseteq Peer /\ IsFiniteSet(Nodes)
  /\ \A p \in Nodes : NodeOK(p, mapNodeState[p], headers, data)

FlightOK == DOMAIN mapBlocksInFlight \subseteq Block /\ InFlightExact /\ NothingTwice

\* The inductive invariant.
IInv == GlobalOK /\ NodesOK /\ FlightOK /\ CountersExact

-----------------------------------------------------------------------------
\* Operators.

\* A set of blocks of bounded height has a highest block.
LEMMA HighestFacts ==
  ASSUME NEW S \in SUBSET Block, S # {}, NEW n \in Nat, \A b \in S : nHeight[b] <= n
  PROVE  Highest(S) \in S
  <1> DEFINE T == {n - nHeight[b] : b \in S}
             R == OpToRel(<, Nat)
  <1>1. T \subseteq Nat /\ T # {}
    BY DownloadAssumption
  <1>2. \E x \in T : \A y \in T : ~(<<y, x>> \in R)
    <2> HIDE DEF T
    <2> QED
      BY <1>1, NatLessThanWellFounded, WFMin, Zenon
  <1>3. \A x, y \in Nat : <<y, x>> \in R <=> y < x
    BY Zenon DEF OpToRel
  <1> HIDE DEF R
  <1>4. PICK x \in T : \A y \in T : ~(y < x)
    BY <1>1, <1>2, <1>3, Zenon
  <1>5. PICK b \in S : x = n - nHeight[b]
    BY <1>4, Zenon
  <1>6. ASSUME NEW c \in S
        PROVE  nHeight[c] <= nHeight[b]
    <2>1. n - nHeight[c] \in T
      BY Zenon
    <2>2. ~(n - nHeight[c] < n - nHeight[b])
      BY <1>4, <1>5, <2>1, Zenon
    <2>3. nHeight[c] \in Nat /\ nHeight[b] \in Nat
      BY <1>5, DownloadAssumption, Zenon
    <2>4. QED
      BY <2>2, <2>3
  <1>7. QED
    BY <1>6, Zenon DEF Highest

\* Chains are closed under ancestors.
LEMMA ChainFacts ==
  ASSUME NEW b \in Block
  PROVE  /\ Chain[b] \subseteq Block /\ b \in Chain[b] /\ Genesis \in Chain[b]
         /\ nHeight[b] \in Nat
         /\ \A a \in Chain[b] : /\ nHeight[a] \in Nat /\ nHeight[a] <= nHeight[b]
                                /\ Chain[a] \subseteq Chain[b] /\ a \in Chain[a]
  BY DownloadAssumption

\* LastCommonAncestor is a block of both chains.
LEMMA CommonFacts ==
  ASSUME NEW a \in Block, NEW b \in Block
  PROVE  LastCommonAncestor(a, b) \in Chain[a] \cap Chain[b]
  <1> DEFINE S == Chain[a] \cap Chain[b]
  <1>1. S \in SUBSET Block /\ S # {}
    BY ChainFacts, Zenon
  <1>2. nHeight[a] \in Nat /\ \A c \in S : nHeight[c] <= nHeight[a]
    BY ChainFacts, Zenon
  <1> HIDE DEF S
  <1>3. Highest(S) \in S
    BY <1>1, <1>2, HighestFacts, Zenon
  <1>4. QED
    BY <1>3, Zenon DEF S, LastCommonAncestor

\* The ancestor of a block at a height up to its own.
LEMMA AncestorFacts ==
  ASSUME NEW b \in Block, NEW h \in 0 .. nHeight[b]
  PROVE  GetAncestor(b, h) \in Chain[b]
  BY DownloadAssumption, Zenon DEF GetAncestor

\* The ancestors of a linked block, and of a block of a peer's chain.
LEMMA LinkedClosed ==
  ASSUME NEW d \in SUBSET Block, NEW b \in Linked(d)
  PROVE  Chain[b] \subseteq Linked(d)
  BY ChainFacts, Zenon DEF Linked

\* What a peer is known to have is closed under ancestors.
LEMMA KnownClosed ==
  ASSUME NEW p \in Peer, NEW b \in Known(p)
  PROVE  b \in Block /\ Chain[b] \subseteq Known(p)
  BY DownloadAssumption, ChainFacts DEF Known

\* A peer's own chain is known to be its own.
LEMMA TipKnown ==
  ASSUME NEW p \in Peer, NEW t \in PeerBlock[p]
  PROVE  t \in Block /\ Chain[t] \subseteq Known(p) /\ t \in Known(p)
  BY DownloadAssumption, ChainFacts DEF Known

\* What is left of a list of blocks in flight when one is taken off.
LEMMA RemoveFacts ==
  ASSUME NEW S, NEW s \in Seq(S), NEW i \in DOMAIN s
  PROVE  /\ Erase(s, i) \in Seq(S)
         /\ Len(s) \in Nat
         /\ Len(Erase(s, i)) = Len(s) - 1
         /\ DOMAIN Erase(s, i) = 1 .. Len(s) - 1
         /\ \A j \in 1 .. Len(s) - 1 : Erase(s, i)[j] = IF j < i THEN s[j] ELSE s[j + 1]
  <1> DEFINE a == SubSeq(s, 1, i - 1)
             b == SubSeq(s, i + 1, Len(s))
  <1>1. Len(s) \in Nat /\ i \in 1 .. Len(s)
    OBVIOUS
  <1>2. a \in Seq(S) /\ Len(a) = i - 1 /\ \A j \in 1 .. i - 1 : a[j] = s[j]
    BY <1>1
  <1>3. b \in Seq(S) /\ Len(b) = Len(s) - i /\ \A j \in 1 .. Len(s) - i : b[j] = s[i + j]
    BY <1>1
  <1>4. Erase(s, i) = a \o b
    BY Zenon DEF Erase
  <1> HIDE DEF a, b
  <1>5. a \o b \in Seq(S) /\ Len(a \o b) = Len(s) - 1 /\ DOMAIN (a \o b) = 1 .. Len(s) - 1
    BY <1>1, <1>2, <1>3
  <1>6. ASSUME NEW j \in 1 .. Len(s) - 1
        PROVE  (a \o b)[j] = IF j < i THEN s[j] ELSE s[j + 1]
    <2>1. CASE j < i
      BY <1>1, <1>2, <1>3, <2>1
    <2>2. CASE ~(j < i)
      <3>1. j - (i - 1) \in 1 .. Len(s) - i /\ i + (j - (i - 1)) = j + 1
        BY <1>1, <2>2
      <3>2. (a \o b)[j] = b[j - (i - 1)]
        <4>1. a \in Seq(S) /\ b \in Seq(S) /\ Len(a) = i - 1 /\ Len(b) = Len(s) - i
          BY <1>2, <1>3, Zenon
        <4>2. j \in 1 .. Len(a) + Len(b) /\ ~(j <= Len(a))
          BY <1>1, <2>2, <4>1
        <4>3. (a \o b)[j] = b[j - Len(a)]
          BY <4>1, <4>2, ConcatProperties, Zenon
        <4>4. QED
          BY <4>1, <4>3, Zenon
      <3>3. QED
        BY <1>3, <2>2, <3>1, <3>2, Zenon
    <2>3. QED
      BY <2>1, <2>2, Zenon
  <1>7. QED
    BY <1>1, <1>4, <1>5, <1>6, Zenon

\* FirstBlocks takes blocks of the part, each once, and not more than it may.
LEMMA FirstFacts ==
  ASSUME NEW part \in SUBSET Block, NEW count \in Nat, NEW list \in FirstBlocks(part, count)
  PROVE  /\ list \in Seq(part) /\ Len(list) \in Nat /\ Len(list) <= count
         /\ DOMAIN list = 1 .. Len(list)
         /\ Range(list) \subseteq part
         /\ \A i, j \in DOMAIN list : i # j => list[i] # list[j]
  <1>1. PICK n \in 0 .. count : list \in [1 .. n -> part]
    BY Zenon DEF FirstBlocks
  <1>2. list \in Seq(part) /\ Len(list) = n
    BY <1>1
  <1>3. \A i, j \in DOMAIN list : i < j => nHeight[list[i]] < nHeight[list[j]]
    BY Zenon DEF FirstBlocks
  <1>4. \A i \in DOMAIN list : nHeight[list[i]] \in Nat
    BY <1>1, DownloadAssumption
  <1>5. ASSUME NEW i \in DOMAIN list, NEW j \in DOMAIN list, i # j
        PROVE  list[i] # list[j]
    <2>1. i \in Int /\ j \in Int
      BY <1>1
    <2>2. i < j \/ j < i
      BY <1>5, <2>1
    <2>3. QED
      BY <1>3, <1>4, <2>2
  <1>6. QED
    BY <1>1, <1>2, <1>5 DEF Range

-----------------------------------------------------------------------------
\* The state of a node.

\* More headers and more stored blocks leave the state of a node correct.
LEMMA NodeMono ==
  ASSUME NEW p, NEW s, NEW h, NEW d, NEW h2, NEW d2,
         NodeOK(p, s, h, d), h \subseteq h2, d \subseteq d2
  PROVE  NodeOK(p, s, h2, d2)
  <1>1. Linked(d) \subseteq Linked(d2)
    BY Zenon DEF Linked
  <1>2. QED
    BY <1>1, Zenon DEF NodeOK

\* The state t of a node has the flags and the requests of s.
SameRequests(s, t) ==
  /\ t.vBlocksInFlight = s.vBlocksInFlight
  /\ t.fSyncStarted = s.fSyncStarted
  /\ t.fPreferredDownload = s.fPreferredDownload

\* ProcessBlockAvailability takes a block of the peer for the best one.
LEMMA AvailabilityFacts ==
  ASSUME NEW p, NEW s, NEW d, NodeOK(p, s, headers, d)
  PROVE  /\ NodeOK(p, ProcessBlockAvailability(s), headers, d)
         /\ SameRequests(s, ProcessBlockAvailability(s))
  BY DownloadAssumption, Zenon DEF NodeOK, CNodeState, ProcessBlockAvailability, SameRequests

\* UpdateBlockAvailability, when the peer announces a block of its chain.
LEMMA UpdateFacts ==
  ASSUME NEW p, NEW s, NEW d, NEW known, NEW b \in Known(p) \cap Block,
         NodeOK(p, s, headers, d), headers \subseteq known
  PROVE  /\ NodeOK(p, UpdateBlockAvailability(s, b, known), known, d)
         /\ SameRequests(s, UpdateBlockAvailability(s, b, known))
  <1> DEFINE t == ProcessBlockAvailability(s)
  <1>1. NodeOK(p, t, known, d) /\ SameRequests(s, t)
    BY AvailabilityFacts, NodeMono, Zenon
  <1>2. \/ /\ b \in known
           /\ UpdateBlockAvailability(s, b, known) \in {t, [t EXCEPT !.pindexBestKnownBlock = b]}
        \/ UpdateBlockAvailability(s, b, known) = [t EXCEPT !.hashLastUnknownBlock = b]
    <2>1. t \in CNodeState
      BY <1>1, Zenon DEF NodeOK
    <2> HIDE DEF t
    <2>2. [t EXCEPT !.pindexBestKnownBlock = t.pindexBestKnownBlock] = t
      BY <2>1, Zenon DEF CNodeState
    <2>3. QED
      BY <2>2, Zenon DEF UpdateBlockAvailability, t
  <1> HIDE DEF t
  <1>3. QED
    BY <1>1, <1>2 DEF NodeOK, CNodeState, SameRequests

\* The list new is the list old with the blocks appended.
Appended(old, new, blocks) ==
  /\ Len(new) = Len(old) + Len(blocks)
  /\ DOMAIN new = 1 .. Len(old) + Len(blocks)
  /\ \A i \in 1 .. Len(old) : new[i] = old[i]
  /\ \A i \in Len(old) + 1 .. Len(old) + Len(blocks) : new[i].hash = blocks[i - Len(old)]

\* MarkBlockAsInFlight, within the limit.
LEMMA MarkFacts ==
  ASSUME NEW p, NEW s, NEW h, NEW d, NodeOK(p, s, h, d),
         NEW blocks \in Seq(Block), NEW validated \in BOOLEAN,
         Len(s.vBlocksInFlight) + Len(blocks) <= MAX_BLOCKS_IN_TRANSIT_PER_PEER
  PROVE  /\ NodeOK(p, MarkBlocksAsInFlight(s, blocks, validated), h, d)
         /\ Appended(s.vBlocksInFlight, MarkBlocksAsInFlight(s, blocks, validated).vBlocksInFlight, blocks)
         /\ MarkBlocksAsInFlight(s, blocks, validated).fSyncStarted = s.fSyncStarted
         /\ MarkBlocksAsInFlight(s, blocks, validated).fPreferredDownload = s.fPreferredDownload
  <1> DEFINE add == [i \in DOMAIN blocks |-> [hash |-> blocks[i], fValidatedHeaders |-> validated]]
             old == s.vBlocksInFlight
             new == old \o add
             m == MarkBlocksAsInFlight(s, blocks, validated)
  <1>1. s \in CNodeState /\ old \in Seq(QueuedBlock)
    BY Zenon DEF NodeOK, CNodeState
  <1>2. Len(blocks) \in Nat /\ DOMAIN blocks = 1 .. Len(blocks) /\ \A i \in DOMAIN blocks : blocks[i] \in Block
    OBVIOUS
  <1>3. add \in [1 .. Len(blocks) -> QueuedBlock]
    BY <1>2, Zenon DEF QueuedBlock
  <1>4. add \in Seq(QueuedBlock) /\ Len(add) = Len(blocks)
    BY <1>2, <1>3
  <1>5. \A i \in 1 .. Len(blocks) : add[i].hash = blocks[i]
    BY <1>2, Zenon
  <1>6. m = [s EXCEPT !.vBlocksInFlight = new]
    BY Zenon DEF MarkBlocksAsInFlight
  <1> HIDE DEF add
  <1>7. /\ new \in Seq(QueuedBlock) /\ Len(new) = Len(old) + Len(blocks)
        /\ \A i \in 1 .. Len(old) + Len(blocks) : new[i] = IF i <= Len(old) THEN old[i] ELSE add[i - Len(old)]
    <2> HIDE DEF old
    <2>1. /\ old \o add \in Seq(QueuedBlock) /\ Len(old \o add) = Len(old) + Len(add)
          /\ \A i \in 1 .. Len(old) + Len(add) : (old \o add)[i] = IF i <= Len(old) THEN old[i] ELSE add[i - Len(old)]
      BY <1>1, <1>4, ConcatProperties, Zenon
    <2>2. QED
      BY <1>4, <2>1, Zenon
  <1>8. Len(old) \in Nat
    BY <1>1
  <1>9. Appended(old, new, blocks)
    <2> HIDE DEF old, new
    <2>1. DOMAIN new = 1 .. Len(old) + Len(blocks)
      BY <1>7, <1>8
    <2>2. \A i \in 1 .. Len(old) : new[i] = old[i]
      BY <1>2, <1>7, <1>8
    <2>3. ASSUME NEW i \in Len(old) + 1 .. Len(old) + Len(blocks)
          PROVE  new[i].hash = blocks[i - Len(old)]
      <3>1. i - Len(old) \in 1 .. Len(blocks) /\ ~(i <= Len(old)) /\ i \in 1 .. Len(old) + Len(blocks)
        BY <1>2, <1>8
      <3>2. new[i] = add[i - Len(old)]
        BY <1>7, <3>1, Zenon
      <3>3. QED
        BY <1>5, <3>1, <3>2, Zenon
    <2>4. QED
      BY <1>7, <2>1, <2>2, <2>3, Zenon DEF Appended
  <1> HIDE DEF new, m
  <1>10. m \in CNodeState /\ m.vBlocksInFlight = new /\ SameRequests([s EXCEPT !.vBlocksInFlight = new], m)
    BY <1>1, <1>6, <1>7, Zenon DEF CNodeState, SameRequests
  <1>11. m.fStalling => new # <<>>
    <2>1. m.fStalling => Len(old) > 0
      BY <1>1, <1>6 DEF NodeOK, CNodeState
    <2>2. QED
      BY <1>2, <1>7, <1>8, <2>1
  <1>12. QED
    BY <1>1, <1>6, <1>7, <1>9, <1>10, <1>11 DEF NodeOK, CNodeState, m

-----------------------------------------------------------------------------
\* The blocks in flight and the counters.

\* A step that leaves the lists and the map alone.
LEMMA FlightSame ==
  ASSUME FlightOK, mapBlocksInFlight' = mapBlocksInFlight, data' = data, Nodes' = Nodes,
         \A q \in Nodes : mapNodeState'[q].vBlocksInFlight = mapNodeState[q].vBlocksInFlight
  PROVE  FlightOK'
  <1>1. \A b \in DOMAIN mapBlocksInFlight : Requested(mapNodeState[mapBlocksInFlight[b]])' = Requested(mapNodeState[mapBlocksInFlight[b]])
    BY DEF FlightOK, InFlightExact, Requested
  <1>2. InFlightExact'
    BY <1>1 DEF FlightOK, InFlightExact
  <1>3. QED
    BY <1>2, Zenon DEF FlightOK, NothingTwice

\* A step that asks node p for blocks that are neither stored nor in flight.
LEMMA FlightAppend ==
  ASSUME FlightOK, NEW p \in Nodes, NEW blocks \in Seq(Block),
         mapNodeState[p].vBlocksInFlight \in Seq(QueuedBlock),
         \A i, j \in DOMAIN blocks : i # j => blocks[i] # blocks[j],
         Range(blocks) \cap (DOMAIN mapBlocksInFlight \cup data) = {},
         mapBlocksInFlight' = AssignTo(p, Range(blocks)), data' = data, Nodes' = Nodes,
         \A q \in Nodes \ {p} : mapNodeState'[q].vBlocksInFlight = mapNodeState[q].vBlocksInFlight,
         Appended(mapNodeState[p].vBlocksInFlight, mapNodeState'[p].vBlocksInFlight, blocks)
  PROVE  FlightOK'
  <1> DEFINE old == mapNodeState[p].vBlocksInFlight
             new == mapNodeState'[p].vBlocksInFlight
             D == DOMAIN mapBlocksInFlight
  <1>1. Len(old) \in Nat /\ DOMAIN old = 1 .. Len(old)
    OBVIOUS
  <1>2. Len(blocks) \in Nat /\ DOMAIN blocks = 1 .. Len(blocks) /\ Range(blocks) = {blocks[i] : i \in 1 .. Len(blocks)}
    BY DEF Range
  <1>3. Range(blocks) \subseteq Block
    BY <1>2
  <1>4. DOMAIN mapBlocksInFlight' = D \cup Range(blocks)
    BY Zenon DEF AssignTo
  <1>5. \A b \in Range(blocks) : mapBlocksInFlight'[b] = p
    BY Zenon DEF AssignTo
  <1>6. \A b \in D : mapBlocksInFlight'[b] = mapBlocksInFlight[b]
    BY Zenon DEF AssignTo
  <1>7. /\ DOMAIN new = 1 .. Len(old) + Len(blocks)
        /\ \A i \in 1 .. Len(old) : new[i] = old[i]
        /\ \A i \in Len(old) + 1 .. Len(old) + Len(blocks) : new[i].hash = blocks[i - Len(old)]
    BY Zenon DEF Appended
  <1>8. \A i \in DOMAIN old : i \in DOMAIN new /\ new[i] = old[i]
    <2> HIDE DEF old, new
    <2> QED BY <1>1, <1>2, <1>7
  <1>9. \A i \in DOMAIN new \ DOMAIN old : i - Len(old) \in DOMAIN blocks /\ new[i].hash = blocks[i - Len(old)]
    <2> HIDE DEF old, new
    <2> QED BY <1>1, <1>2, <1>7
  <1>10. \A k \in DOMAIN blocks : k + Len(old) \in DOMAIN new \ DOMAIN old /\ new[k + Len(old)].hash = blocks[k]
    <2> HIDE DEF old, new
    <2>1. ASSUME NEW k \in DOMAIN blocks
          PROVE  k + Len(old) \in Len(old) + 1 .. Len(old) + Len(blocks) /\ (k + Len(old)) - Len(old) = k
      BY <1>1, <1>2
    <2>2. QED
      BY <1>1, <1>2, <1>7, <2>1
  <1>11. ASSUME NEW b \in DOMAIN mapBlocksInFlight'
         PROVE  /\ mapBlocksInFlight'[b] \in Nodes
                /\ b \in Requested(mapNodeState'[mapBlocksInFlight'[b]])
    <2>1. CASE b \in Range(blocks)
      <3>1. PICK k \in DOMAIN blocks : b = blocks[k]
        BY <1>2, <2>1, Zenon
      <3>2. QED
        BY <1>5, <1>10, <2>1, <3>1 DEF Requested
    <2>2. CASE b \in D /\ mapBlocksInFlight[b] = p
      <3>1. PICK i \in DOMAIN old : b = old[i].hash
        BY <2>2 DEF FlightOK, InFlightExact, Requested
      <3>2. i \in DOMAIN new /\ new[i].hash = b
        BY <1>8, <3>1, Zenon
      <3>3. b \in Requested(mapNodeState'[p])
        BY <3>2, Zenon DEF Requested
      <3>4. QED
        BY <1>6, <2>2, <3>3, Zenon
    <2>3. CASE b \in D /\ mapBlocksInFlight[b] # p
      <3>1. PICK q \in Nodes \ {p} : q = mapBlocksInFlight[b] /\ b \in Requested(mapNodeState[q])
        BY <2>3, Zenon DEF FlightOK, InFlightExact
      <3>2. Requested(mapNodeState'[q]) = Requested(mapNodeState[q])
        BY <3>1 DEF Requested
      <3>3. QED
        BY <1>6, <2>3, <3>1, <3>2, Zenon
    <2>4. QED
      BY <1>4, <2>1, <2>2, <2>3, Zenon
  <1>12. ASSUME NEW i \in DOMAIN new
         PROVE  new[i].hash \in DOMAIN mapBlocksInFlight' /\ mapBlocksInFlight'[new[i].hash] = p
    <2>1. CASE i \in DOMAIN old
      BY <1>4, <1>6, <1>8, <2>1 DEF FlightOK, InFlightExact
    <2>2. CASE i \notin DOMAIN old
      BY <1>2, <1>4, <1>5, <1>9, <2>2
    <2>3. QED
      BY <2>1, <2>2, Zenon
  <1>13. ASSUME NEW i \in DOMAIN new, NEW j \in DOMAIN new, i # j
         PROVE  new[i].hash # new[j].hash
    <2>1. \A k \in DOMAIN old : old[k].hash \in D
      BY Zenon DEF FlightOK, InFlightExact
    <2>2. \A k \in DOMAIN new \ DOMAIN old : new[k].hash \in Range(blocks)
      BY <1>2, <1>9, Zenon
    <2>3. CASE i \in DOMAIN old /\ j \in DOMAIN old
      BY <1>8, <1>13, <2>3 DEF FlightOK, InFlightExact
    <2>4. CASE i \notin DOMAIN old /\ j \notin DOMAIN old
      <3>1. i - Len(old) # j - Len(old)
        <4> HIDE DEF old, new
        <4> QED BY <1>1, <1>2, <1>7, <1>13
      <3>2. QED
        BY <1>9, <2>4, <3>1, Zenon
    <2>5. CASE i \in DOMAIN old /\ j \notin DOMAIN old
      BY <1>8, <2>1, <2>2, <2>5, Zenon
    <2>6. CASE i \notin DOMAIN old /\ j \in DOMAIN old
      BY <1>8, <2>1, <2>2, <2>6, Zenon
    <2>7. QED
      BY <2>3, <2>4, <2>5, <2>6, Zenon
  <1>14. ASSUME NEW q \in Nodes \ {p}
         PROVE  LET list == mapNodeState'[q].vBlocksInFlight
                IN /\ \A i \in DOMAIN list : list[i].hash \in DOMAIN mapBlocksInFlight'
                                             /\ mapBlocksInFlight'[list[i].hash] = q
                   /\ \A i, j \in DOMAIN list : i # j => list[i].hash # list[j].hash
    BY <1>4, <1>6 DEF FlightOK, InFlightExact
  <1>15. InFlightExact'
    BY <1>11, <1>12, <1>13, <1>14 DEF InFlightExact
  <1>16. QED
    BY <1>3, <1>4, <1>15, Zenon DEF FlightOK, NothingTwice

\* A step that leaves the flags of the nodes and the counters alone.
LEMMA CountersSame ==
  ASSUME CountersExact, nSyncStarted' = nSyncStarted, nPreferredDownload' = nPreferredDownload,
         Nodes' = Nodes,
         \A q \in Nodes : /\ mapNodeState'[q].fSyncStarted = mapNodeState[q].fSyncStarted
                          /\ mapNodeState'[q].fPreferredDownload = mapNodeState[q].fPreferredDownload
  PROVE  CountersExact'
  <1>1. {q \in Nodes' : mapNodeState'[q].fSyncStarted} = {q \in Nodes : mapNodeState[q].fSyncStarted}
    BY Zenon
  <1>2. {q \in Nodes' : mapNodeState'[q].fPreferredDownload} = {q \in Nodes : mapNodeState[q].fPreferredDownload}
    BY Zenon
  <1>3. QED
    BY <1>1, <1>2, Zenon DEF CountersExact

\* The list new is the list old without block b.
Dropped(old, new, b) ==
  /\ \A i \in DOMAIN new : \E k \in DOMAIN old : new[i] = old[k] /\ old[k].hash # b
  /\ \A k \in DOMAIN old : old[k].hash # b => \E i \in DOMAIN new : new[i] = old[k]
  /\ \A i, j \in DOMAIN new : i # j => new[i].hash # new[j].hash

\* Taking off one entry of a list without repetitions takes off its block.
LEMMA RemoveDropped ==
  ASSUME NEW S, NEW old \in Seq(S), NEW i \in DOMAIN old,
         \A j, k \in DOMAIN old : j # k => old[j].hash # old[k].hash
  PROVE  Dropped(old, Erase(old, i), old[i].hash)
  <1> DEFINE new == Erase(old, i)
  <1>1. /\ Len(old) \in Nat /\ DOMAIN old = 1 .. Len(old) /\ DOMAIN new = 1 .. Len(old) - 1
        /\ \A j \in 1 .. Len(old) - 1 : new[j] = IF j < i THEN old[j] ELSE old[j + 1]
    BY RemoveFacts
  <1> HIDE DEF new
  <1> DEFINE From(j) == IF j < i THEN j ELSE j + 1
  <1>2. \A j \in DOMAIN new : From(j) \in DOMAIN old /\ From(j) # i /\ new[j] = old[From(j)]
    BY <1>1
  <1>3. \A j, k \in DOMAIN new : j # k => From(j) # From(k)
    BY <1>1
  <1>4. \A k \in DOMAIN old : k # i => \E j \in DOMAIN new : From(j) = k
    <2> SUFFICES ASSUME NEW k \in DOMAIN old, k # i
                 PROVE  \E j \in DOMAIN new : From(j) = k
      BY Zenon
    <2>1. CASE k < i
      BY <1>1, <2>1
    <2>2. CASE k > i
      <3>1. k - 1 \in DOMAIN new /\ From(k - 1) = k
        BY <1>1, <2>2
      <3>2. QED
        BY <3>1, Zenon
    <2>3. QED
      BY <1>1, <2>1, <2>2
  <1> HIDE DEF From
  <1>5. \A j \in DOMAIN new : \E k \in DOMAIN old : new[j] = old[k] /\ old[k].hash # old[i].hash
    BY <1>2, Zenon
  <1>6. \A k \in DOMAIN old : old[k].hash # old[i].hash => \E j \in DOMAIN new : new[j] = old[k]
    BY <1>2, <1>4, Zenon
  <1>7. \A j, k \in DOMAIN new : j # k => new[j].hash # new[k].hash
    BY <1>2, <1>3
  <1>8. QED
    BY <1>5, <1>6, <1>7, Zenon DEF Dropped, new

\* A step after which block b is in flight from nobody.
LEMMA FlightDrop ==
  ASSUME FlightOK, NEW b, Nodes' = Nodes, data' \subseteq data \cup {b},
         mapBlocksInFlight' = Restrict(mapBlocksInFlight, DOMAIN mapBlocksInFlight \ {b}),
         \A q \in Nodes : Dropped(mapNodeState[q].vBlocksInFlight, mapNodeState'[q].vBlocksInFlight, b)
  PROVE  FlightOK'
  <1>1. /\ DOMAIN mapBlocksInFlight' = DOMAIN mapBlocksInFlight \ {b}
        /\ \A c \in DOMAIN mapBlocksInFlight' : mapBlocksInFlight'[c] = mapBlocksInFlight[c]
    BY Zenon DEF Restrict
  <1>2. ASSUME NEW c \in DOMAIN mapBlocksInFlight'
        PROVE  /\ mapBlocksInFlight'[c] \in Nodes
               /\ c \in Requested(mapNodeState'[mapBlocksInFlight'[c]])
    <2>1. PICK q \in Nodes : q = mapBlocksInFlight[c] /\ c \in Requested(mapNodeState[q])
      BY <1>1, Zenon DEF FlightOK, InFlightExact
    <2>2. PICK k \in DOMAIN mapNodeState[q].vBlocksInFlight : mapNodeState[q].vBlocksInFlight[k].hash = c
      BY <2>1, Zenon DEF Requested
    <2>3. PICK i \in DOMAIN mapNodeState'[q].vBlocksInFlight : mapNodeState'[q].vBlocksInFlight[i].hash = c
      BY <1>1, <2>1, <2>2 DEF Dropped
    <2>4. c \in Requested(mapNodeState'[q])
      BY <2>3, Zenon DEF Requested
    <2>5. QED
      BY <1>1, <2>1, <2>4, Zenon
  <1>3. ASSUME NEW q \in Nodes, NEW i \in DOMAIN mapNodeState'[q].vBlocksInFlight
        PROVE  /\ mapNodeState'[q].vBlocksInFlight[i].hash \in DOMAIN mapBlocksInFlight'
               /\ mapBlocksInFlight'[mapNodeState'[q].vBlocksInFlight[i].hash] = q
    <2>1. PICK k \in DOMAIN mapNodeState[q].vBlocksInFlight :
            /\ mapNodeState'[q].vBlocksInFlight[i] = mapNodeState[q].vBlocksInFlight[k]
            /\ mapNodeState[q].vBlocksInFlight[k].hash # b
      BY Zenon DEF Dropped
    <2>2. /\ mapNodeState[q].vBlocksInFlight[k].hash \in DOMAIN mapBlocksInFlight
          /\ mapBlocksInFlight[mapNodeState[q].vBlocksInFlight[k].hash] = q
      BY <2>1, Zenon DEF FlightOK, InFlightExact
    <2>3. QED
      BY <1>1, <2>1, <2>2, Zenon
  <1>4. \A q \in Nodes : LET list == mapNodeState'[q].vBlocksInFlight
                         IN \A i, j \in DOMAIN list : i # j => list[i].hash # list[j].hash
    BY Zenon DEF Dropped
  <1>5. InFlightExact'
    BY <1>2, <1>3, <1>4, Zenon DEF InFlightExact
  <1>6. QED
    BY <1>1, <1>5, Zenon DEF FlightOK, NothingTwice

-----------------------------------------------------------------------------
\* The initial state, connections and "inv".

\* At the start there is no node and nothing in flight.
LEMMA InitIInv == Init => IInv
  <1> SUFFICES ASSUME Init PROVE IInv
    BY Zenon
  <1>1. Nodes = {} /\ DOMAIN mapBlocksInFlight = {}
    BY Zenon DEF Init, Nodes
  <1>2. GlobalOK
    <2>1. peerTip \in [Peer -> Block] /\ \A p \in Peer : peerTip[p] \in PeerBlock[p]
      BY DownloadAssumption, Zenon DEF Init
    <2>2. Genesis \in Linked({Genesis})
      BY DownloadAssumption, Zenon DEF Linked
    <2>3. QED
      BY <2>1, <2>2, DownloadAssumption DEF Init, GlobalOK
  <1>3. NodesOK
    BY <1>1, FS_EmptySet, Zenon DEF NodesOK
  <1>4. FlightOK
    BY <1>1, Zenon DEF FlightOK, InFlightExact, NothingTwice
  <1>5. CountersExact
    <2>1. /\ {p \in Nodes : mapNodeState[p].fSyncStarted} = {}
          /\ {p \in Nodes : mapNodeState[p].fPreferredDownload} = {}
      BY <1>1, Zenon
    <2>2. QED
      BY <2>1, FS_EmptySet, Zenon DEF Init, CountersExact
  <1>6. QED
    BY <1>2, <1>3, <1>4, <1>5, Zenon DEF IInv

\* A new node, with nothing asked of it.
LEMMA ConnectIInv ==
  ASSUME IInv, NEW p \in Peer, Connect(p)
  PROVE  IInv'
  <1> DEFINE new == [NewNodeState EXCEPT !.fPreferredDownload = p \in PreferredPeer]
  <1>1. /\ p \notin Nodes /\ Nodes' = Nodes \cup {p}
        /\ mapNodeState'[p] = new
        /\ \A q \in Nodes : mapNodeState'[q] = mapNodeState[q]
    BY Zenon DEF Connect, Nodes
  <1>2. NodeOK(p, new, headers, data) /\ new.vBlocksInFlight = <<>> /\ ~new.fSyncStarted
        /\ new.fPreferredDownload = (p \in PreferredPeer)
    <2> DEFINE pref == p \in PreferredPeer
    <2>1. pref \in BOOLEAN
      OBVIOUS
    <2>2. new = [NewNodeState EXCEPT !.fPreferredDownload = pref]
      BY Zenon
    <2> HIDE DEF pref, new
    <2>3. /\ new \in CNodeState /\ new.vBlocksInFlight = <<>> /\ new.fSyncStarted = FALSE
          /\ new.pindexBestKnownBlock = NoBlock /\ new.hashLastUnknownBlock = NoBlock
          /\ new.pindexLastCommonBlock = NoBlock /\ new.fStalling = FALSE
          /\ new.fPreferredDownload = pref
      <3>1. <<>> \in Seq(QueuedBlock)
        OBVIOUS
      <3>2. NewNodeState \in CNodeState
        BY <3>1, Zenon DEF NewNodeState, CNodeState
      <3>3. new \in CNodeState
        BY <2>1, <2>2, <3>2, Zenon DEF CNodeState
      <3>4. QED
        BY <2>2, <3>3, Zenon DEF NewNodeState
    <2>4. Len(new.vBlocksInFlight) <= MAX_BLOCKS_IN_TRANSIT_PER_PEER
      BY <2>3, DownloadAssumption
    <2>5. QED
      BY <2>3, <2>4, Zenon DEF NodeOK, pref
  <1> HIDE DEF new
  <1>3. GlobalOK'
    <2>1. connects' \in [Peer -> 0 .. MaxConnects]
      BY DownloadAssumption DEF Connect, IInv, GlobalOK
    <2>2. QED
      BY <2>1, Zenon DEF Connect, IInv, GlobalOK, chainVars
  <1>4. NodesOK'
    <2>1. IsFiniteSet(Nodes')
      BY <1>1, FS_AddElement, Zenon DEF IInv, NodesOK
    <2>2. headers' = headers /\ data' = data
      BY Zenon DEF Connect, chainVars
    <2>3. QED
      BY <1>1, <1>2, <2>1, <2>2, Zenon DEF IInv, NodesOK
  <1>5. FlightOK'
    <2>1. mapBlocksInFlight' = mapBlocksInFlight /\ data' = data
      BY Zenon DEF Connect, chainVars
    <2>2. \A b \in DOMAIN mapBlocksInFlight : /\ mapBlocksInFlight[b] \in Nodes
                                              /\ b \in Requested(mapNodeState[mapBlocksInFlight[b]])
      BY Zenon DEF IInv, FlightOK, InFlightExact
    <2>3. DOMAIN new.vBlocksInFlight = {}
      BY <1>2
    <2>4. InFlightExact'
      BY <1>1, <1>2, <2>1, <2>2, <2>3 DEF IInv, FlightOK, InFlightExact
    <2>5. QED
      BY <2>1, <2>4, Zenon DEF IInv, FlightOK, NothingTwice
  <1>6. CountersExact'
    <2> DEFINE S == {q \in Nodes : mapNodeState[q].fPreferredDownload}
    <2>1. {q \in Nodes' : mapNodeState'[q].fSyncStarted} = {q \in Nodes : mapNodeState[q].fSyncStarted}
      BY <1>1, <1>2, Zenon
    <2>2. {q \in Nodes' : mapNodeState'[q].fPreferredDownload} = IF p \in PreferredPeer THEN S \cup {p} ELSE S
      BY <1>1, <1>2, Zenon
    <2>3. p \notin S /\ IsFiniteSet(S)
      BY <1>1, FS_Subset, Zenon DEF IInv, NodesOK
    <2>4. nPreferredDownload = Cardinality(S) /\ Cardinality(S) \in Nat
      BY <2>3, FS_CardinalityType, Zenon DEF IInv, CountersExact
    <2> HIDE DEF S
    <2>5. nPreferredDownload' = IF p \in PreferredPeer THEN Cardinality(S \cup {p}) ELSE Cardinality(S)
      <3>1. Cardinality(S \cup {p}) = Cardinality(S) + 1
        BY <2>3, FS_AddElement, Zenon
      <3>2. nPreferredDownload' = nPreferredDownload + (IF p \in PreferredPeer THEN 1 ELSE 0)
        BY Zenon DEF Connect
      <3>3. QED
        BY <2>4, <3>1, <3>2
    <2>6. nSyncStarted' = nSyncStarted
      BY Zenon DEF Connect
    <2>7. QED
      BY <2>1, <2>2, <2>5, <2>6, Zenon DEF IInv, CountersExact
  <1>7. QED
    BY <1>3, <1>4, <1>5, <1>6, Zenon DEF IInv

\* A deleted node takes its requests, and its share of the counters, with it.
LEMMA FinalizeNodeIInv ==
  ASSUME IInv, NEW p \in Peer, FinalizeNode(p)
  PROVE  IInv'
  <1> DEFINE s == mapNodeState[p]
  <1>1. /\ p \in Nodes /\ Nodes' = Nodes \ {p}
        /\ \A q \in Nodes' : mapNodeState'[q] = mapNodeState[q]
    BY Zenon DEF FinalizeNode, Nodes, Restrict
  <1>2. headers' = headers /\ data' = data
    BY Zenon DEF FinalizeNode, chainVars
  <1>3. /\ DOMAIN mapBlocksInFlight' = DOMAIN mapBlocksInFlight \ Requested(s)
        /\ \A b \in DOMAIN mapBlocksInFlight' : mapBlocksInFlight'[b] = mapBlocksInFlight[b]
    BY Zenon DEF FinalizeNode, Restrict
  <1>4. GlobalOK'
    BY Zenon DEF FinalizeNode, IInv, GlobalOK, chainVars
  <1>5. NodesOK'
    <2>1. IsFiniteSet(Nodes')
      BY <1>1, FS_RemoveElement, Zenon DEF IInv, NodesOK
    <2>2. QED
      BY <1>1, <1>2, <2>1, Zenon DEF IInv, NodesOK
  <1>6. FlightOK'
    <2>1. ASSUME NEW b \in DOMAIN mapBlocksInFlight'
          PROVE  /\ mapBlocksInFlight'[b] \in Nodes'
                 /\ b \in Requested(mapNodeState'[mapBlocksInFlight'[b]])
      BY <1>1, <1>3 DEF IInv, FlightOK, InFlightExact
    <2>2. ASSUME NEW q \in Nodes', NEW i \in DOMAIN mapNodeState[q].vBlocksInFlight
          PROVE  /\ mapNodeState[q].vBlocksInFlight[i].hash \in DOMAIN mapBlocksInFlight'
                 /\ mapBlocksInFlight'[mapNodeState[q].vBlocksInFlight[i].hash] = q
      <3> DEFINE h == mapNodeState[q].vBlocksInFlight[i].hash
      <3>1. h \in DOMAIN mapBlocksInFlight /\ mapBlocksInFlight[h] = q /\ q # p
        BY <1>1, Zenon DEF IInv, FlightOK, InFlightExact
      <3>2. \A b \in Requested(s) : mapBlocksInFlight[b] = p
        BY <1>1 DEF IInv, FlightOK, InFlightExact, Requested
      <3>3. QED
        BY <1>3, <3>1, <3>2, Zenon
    <2>3. \A q \in Nodes' : LET list == mapNodeState[q].vBlocksInFlight
                            IN \A i, j \in DOMAIN list : i # j => list[i].hash # list[j].hash
      BY <1>1, Zenon DEF IInv, FlightOK, InFlightExact
    <2>4. InFlightExact'
      BY <1>1, <2>1, <2>2, <2>3 DEF InFlightExact
    <2>5. QED
      BY <1>2, <1>3, <2>4, Zenon DEF IInv, FlightOK, NothingTwice
  <1>7. CountersExact'
    <2> DEFINE S == {q \in Nodes : mapNodeState[q].fSyncStarted}
               T == {q \in Nodes : mapNodeState[q].fPreferredDownload}
    <2>1. /\ {q \in Nodes' : mapNodeState'[q].fSyncStarted} = S \ {p}
          /\ {q \in Nodes' : mapNodeState'[q].fPreferredDownload} = T \ {p}
      BY <1>1, Zenon
    <2>2. (p \in S) = s.fSyncStarted /\ (p \in T) = s.fPreferredDownload
      BY <1>1 DEF IInv, NodesOK, NodeOK, CNodeState
    <2>3. IsFiniteSet(S) /\ IsFiniteSet(T)
      BY FS_Subset, Zenon DEF IInv, NodesOK
    <2>4. nSyncStarted = Cardinality(S) /\ nPreferredDownload = Cardinality(T)
      BY Zenon DEF IInv, CountersExact
    <2>5. /\ nSyncStarted' = nSyncStarted - (IF s.fSyncStarted THEN 1 ELSE 0)
          /\ nPreferredDownload' = nPreferredDownload - (IF s.fPreferredDownload THEN 1 ELSE 0)
      BY Zenon DEF FinalizeNode, SyncShare
    <2>6. Cardinality(S) \in Nat /\ Cardinality(T) \in Nat
      BY <2>3, FS_CardinalityType, Zenon
    <2> HIDE DEF S, T
    <2>7. /\ nSyncStarted' = Cardinality(S \ {p})
          /\ nPreferredDownload' = Cardinality(T \ {p})
      <3>1. /\ Cardinality(S \ {p}) = IF p \in S THEN Cardinality(S) - 1 ELSE Cardinality(S)
            /\ Cardinality(T \ {p}) = IF p \in T THEN Cardinality(T) - 1 ELSE Cardinality(T)
        BY <2>3, FS_RemoveElement, Zenon
      <3>2. /\ nSyncStarted' = nSyncStarted - (IF p \in S THEN 1 ELSE 0)
            /\ nPreferredDownload' = nPreferredDownload - (IF p \in T THEN 1 ELSE 0)
        BY <2>2, <2>5, Zenon
      <3>3. QED
        BY <2>4, <2>6, <3>1, <3>2
    <2>8. QED
      BY <2>1, <2>7, Zenon DEF CountersExact
  <1>8. QED
    BY <1>4, <1>5, <1>6, <1>7, Zenon DEF IInv

\* "inv": the block asked for is neither known nor in flight, and there is room.
LEMMA ProcessInvIInv ==
  ASSUME IInv, NEW p \in Peer, NEW b \in inv[p], NEW recent \in BOOLEAN, ProcessInv(p, b, recent)
  PROVE  IInv'
  <1> DEFINE s == UpdateBlockAvailability(mapNodeState[p], b, headers)
             direct == Wanted(b) /\ recent /\ Room(s) > 0
             t == IF direct THEN MarkBlocksAsInFlight(s, <<b>>, FALSE) ELSE s
  <1>1. b \in Block /\ b \in Known(p) /\ p \in Nodes
    BY Zenon DEF IInv, GlobalOK, ProcessInv, Served
  <1>2. NodeOK(p, s, headers, data) /\ SameRequests(mapNodeState[p], s)
    BY <1>1, UpdateFacts, Zenon DEF IInv, NodesOK
  <1>3. /\ mapNodeState' = [mapNodeState EXCEPT ![p] = t]
        /\ mapBlocksInFlight' = IF direct THEN AssignTo(p, {b}) ELSE mapBlocksInFlight
        /\ headers' = headers /\ data' = data
    BY Zenon DEF ProcessInv, chainVars
  <1> HIDE DEF s
  <1>4. ASSUME direct
        PROVE  /\ NodeOK(p, t, headers, data)
               /\ Appended(s.vBlocksInFlight, t.vBlocksInFlight, <<b>>)
               /\ t.fSyncStarted = s.fSyncStarted /\ t.fPreferredDownload = s.fPreferredDownload
    <2>1. <<b>> \in Seq(Block) /\ Len(<<b>>) = 1
      BY <1>1
    <2>2. Len(s.vBlocksInFlight) \in Nat
      BY <1>2 DEF NodeOK, CNodeState
    <2>3. Len(s.vBlocksInFlight) + Len(<<b>>) <= MAX_BLOCKS_IN_TRANSIT_PER_PEER
      BY <1>4, <2>1, <2>2, DownloadAssumption DEF Room
    <2>4. QED
      BY <1>2, <1>4, <2>1, <2>3, MarkFacts, Zenon
  <1>5. NodeOK(p, t, headers, data) /\ t.fSyncStarted = s.fSyncStarted /\ t.fPreferredDownload = s.fPreferredDownload
    BY <1>2, <1>4, Zenon
  <1>6. /\ direct => /\ Wanted(b)
                     /\ Appended(s.vBlocksInFlight, t.vBlocksInFlight, <<b>>)
                     /\ mapBlocksInFlight' = AssignTo(p, {b})
        /\ ~direct => t = s /\ mapBlocksInFlight' = mapBlocksInFlight
    BY <1>3, <1>4, Zenon
  <1> HIDE DEF t, direct
  <1>7. Nodes' = Nodes /\ mapNodeState'[p] = t /\ \A q \in Nodes \ {p} : mapNodeState'[q] = mapNodeState[q]
    BY <1>1, <1>3, Zenon DEF Nodes
  <1>8. GlobalOK'
    <2>1. /\ inv' \in [Peer -> SUBSET Block]
          /\ \A q \in Peer : inv'[q] \subseteq Known(q)
      BY Zenon DEF ProcessInv, IInv, GlobalOK
    <2>2. getheaders' \in [Peer -> SUBSET (Block \X (Block \cup {NoBlock}))]
      <3>1. <<pindexBestHeader, b>> \in Block \X (Block \cup {NoBlock})
        BY <1>1, Zenon DEF IInv, GlobalOK
      <3>2. QED
        BY <3>1, Zenon DEF ProcessInv, IInv, GlobalOK
    <2>3. QED
      BY <2>1, <2>2, Zenon DEF ProcessInv, IInv, GlobalOK, chainVars, counters
  <1>9. NodesOK'
    BY <1>3, <1>5, <1>7, Zenon DEF IInv, NodesOK
  <1>10. FlightOK'
    <2>1. s.vBlocksInFlight = mapNodeState[p].vBlocksInFlight
      BY <1>2, Zenon DEF SameRequests
    <2>2. CASE ~direct
      <3>1. \A q \in Nodes : mapNodeState'[q].vBlocksInFlight = mapNodeState[q].vBlocksInFlight
        BY <1>6, <1>7, <2>1, <2>2, Zenon
      <3>2. QED
        BY <1>3, <1>6, <1>7, <2>2, <3>1, FlightSame, Zenon DEF IInv
    <2>3. CASE direct
      <3> DEFINE blocks == <<b>>
      <3>1. /\ blocks \in Seq(Block) /\ Range(blocks) = {b}
            /\ \A i, j \in DOMAIN blocks : i # j => blocks[i] # blocks[j]
        BY <1>1 DEF Range
      <3>2. {b} \cap (DOMAIN mapBlocksInFlight \cup data) = {}
        BY <1>6, <2>3, Zenon DEF Wanted, IInv, GlobalOK
      <3>3. mapNodeState[p].vBlocksInFlight \in Seq(QueuedBlock)
        BY <1>2, <2>1, Zenon DEF NodeOK, CNodeState
      <3>4. Appended(mapNodeState[p].vBlocksInFlight, mapNodeState'[p].vBlocksInFlight, blocks)
        BY <1>6, <1>7, <2>1, <2>3, Zenon
      <3> HIDE DEF blocks
      <3>5. \A q \in Nodes \ {p} : mapNodeState'[q].vBlocksInFlight = mapNodeState[q].vBlocksInFlight
        BY <1>7, Zenon
      <3>6. QED
        BY <1>1, <1>3, <1>6, <1>7, <2>3, <3>1, <3>2, <3>3, <3>4, <3>5, FlightAppend, Zenon DEF IInv
    <2>4. QED
      BY <2>2, <2>3, Zenon
  <1>11. CountersExact'
    <2>1. \A q \in Nodes : /\ mapNodeState'[q].fSyncStarted = mapNodeState[q].fSyncStarted
                           /\ mapNodeState'[q].fPreferredDownload = mapNodeState[q].fPreferredDownload
      BY <1>2, <1>5, <1>7, Zenon DEF SameRequests
    <2>2. nSyncStarted' = nSyncStarted /\ nPreferredDownload' = nPreferredDownload
      BY Zenon DEF ProcessInv, counters
    <2>3. QED
      BY <1>7, <2>1, <2>2, CountersSame, Zenon DEF IInv
  <1>12. QED
    BY <1>8, <1>9, <1>10, <1>11, Zenon DEF IInv

-----------------------------------------------------------------------------
\* "headers": the new headers belong to the peer's chain.
LEMMA ProcessHeadersIInv ==
  ASSUME IInv, NEW p \in Peer, NEW r \in getheaders[p], ProcessHeaders(p, r[1], r[2])
  PROVE  IInv'
  <1>1. p \in Nodes
    BY Zenon DEF ProcessHeaders, Served
  <1>2. /\ mapBlocksInFlight' = mapBlocksInFlight /\ counters' = counters /\ data' = data /\ tip' = tip
        /\ peerTip' = peerTip /\ inv' = inv /\ connects' = connects
    BY Zenon DEF ProcessHeaders
  <1> DEFINE part == {a \in Chain[peerTip[p]] \ Chain[r[1]] :
                        r[2] \in Chain[peerTip[p]] \ Chain[r[1]] => nHeight[a] <= nHeight[r[2]]}
  <1>3. PICK reply \in FirstBlocks(part, MAX_HEADERS_RESULTS) :
          \/ /\ getheaders' = [getheaders EXCEPT ![p] = getheaders[p] \ {<<r[1], r[2]>>}]
             /\ UNCHANGED <<mapNodeState, headers, pindexBestHeader>>
          \/ /\ Len(reply) > 0
             /\ headers' = headers \cup Range(reply)
             /\ pindexBestHeader' \in {reply[Len(reply)], pindexBestHeader}
             /\ mapNodeState' = [mapNodeState EXCEPT ![p] =
                  UpdateBlockAvailability(@, reply[Len(reply)], headers \cup Range(reply))]
             /\ getheaders' = [getheaders EXCEPT ![p] =
                  (getheaders[p] \ {<<r[1], r[2]>>})
                  \cup (IF Len(reply) = MAX_HEADERS_RESULTS THEN {<<reply[Len(reply)], NoBlock>>} ELSE {})]
    BY Zenon DEF ProcessHeaders, HeadersReply
  <1>4. part \subseteq Known(p) /\ part \subseteq Block
    <2>1. peerTip[p] \in PeerBlock[p]
      BY Zenon DEF IInv, GlobalOK
    <2>2. Chain[peerTip[p]] \subseteq Known(p) /\ Chain[peerTip[p]] \subseteq Block
      BY <2>1, TipKnown, KnownClosed, Zenon
    <2>3. QED
      BY <2>2, Zenon
  <1> HIDE DEF part
  <1>5. reply \in Seq(part) /\ Len(reply) \in Nat /\ DOMAIN reply = 1 .. Len(reply) /\ Range(reply) \subseteq part
    <2>1. MAX_HEADERS_RESULTS \in Nat
      BY DownloadAssumption, Zenon
    <2>2. QED
      BY <1>4, <2>1, FirstFacts, Zenon
  <1>6. CASE UNCHANGED <<mapNodeState, headers, pindexBestHeader>>
             /\ getheaders' = [getheaders EXCEPT ![p] = getheaders[p] \ {<<r[1], r[2]>>}]
    <2>1. GlobalOK'
      BY <1>2, <1>6, Zenon DEF IInv, GlobalOK, counters
    <2>2. Nodes' = Nodes
      BY <1>6, Zenon DEF Nodes
    <2>3. QED
      BY <1>2, <1>6, <2>1, <2>2, FlightSame, CountersSame, Zenon DEF IInv, NodesOK, counters
  <1>7. CASE /\ Len(reply) > 0
             /\ headers' = headers \cup Range(reply)
             /\ pindexBestHeader' \in {reply[Len(reply)], pindexBestHeader}
             /\ mapNodeState' = [mapNodeState EXCEPT ![p] =
                  UpdateBlockAvailability(@, reply[Len(reply)], headers \cup Range(reply))]
             /\ getheaders' = [getheaders EXCEPT ![p] =
                  (getheaders[p] \ {<<r[1], r[2]>>})
                  \cup (IF Len(reply) = MAX_HEADERS_RESULTS THEN {<<reply[Len(reply)], NoBlock>>} ELSE {})]
    <2> DEFINE last == reply[Len(reply)]
               t == UpdateBlockAvailability(mapNodeState[p], last, headers')
    <2>1. last \in Range(reply) /\ last \in Known(p) /\ last \in Block
      BY <1>4, <1>5, <1>7 DEF Range
    <2>2. headers \subseteq headers' /\ headers' \subseteq Block
      BY <1>4, <1>5, <1>7, Zenon DEF IInv, GlobalOK
    <2>3. NodeOK(p, t, headers', data) /\ SameRequests(mapNodeState[p], t)
      <3> HIDE DEF last
      <3> QED BY <1>1, <2>1, <2>2, UpdateFacts DEF IInv, NodesOK
    <2>4. Nodes' = Nodes /\ mapNodeState'[p] = t /\ \A q \in Nodes \ {p} : mapNodeState'[q] = mapNodeState[q]
      BY <1>1, <1>7, Zenon DEF Nodes
    <2> HIDE DEF t
    <2>5. GlobalOK'
      <3>1. getheaders' \in [Peer -> SUBSET (Block \X (Block \cup {NoBlock}))]
        <4>1. <<last, NoBlock>> \in Block \X (Block \cup {NoBlock})
          BY <2>1, Zenon
        <4>2. QED
          BY <1>7, <4>1, Zenon DEF IInv, GlobalOK
      <3>2. pindexBestHeader' \in headers'
        BY <1>7, <2>1, Zenon DEF IInv, GlobalOK
      <3>3. QED
        BY <1>2, <2>2, <3>1, <3>2, Zenon DEF IInv, GlobalOK, counters
    <2>6. NodesOK'
      <3>1. \A q \in Nodes \ {p} : NodeOK(q, mapNodeState[q], headers', data)
        BY <2>2, NodeMono, Zenon DEF IInv, NodesOK
      <3>2. QED
        BY <1>2, <2>3, <2>4, <3>1, Zenon DEF IInv, NodesOK
    <2>7. \A q \in Nodes : SameRequests(mapNodeState[q], mapNodeState'[q])
      BY <2>3, <2>4, Zenon DEF SameRequests
    <2>8. FlightOK' /\ CountersExact'
      BY <1>2, <2>4, <2>7, FlightSame, CountersSame, Zenon DEF SameRequests, IInv, counters
    <2>9. QED
      BY <2>5, <2>6, <2>8, Zenon DEF IInv
  <1>8. QED
    BY <1>3, <1>6, <1>7, Zenon

\* A peer announces a tip of its own.
LEMMA PeerAdvancesIInv ==
  ASSUME IInv, NEW p \in Peer, NEW b \in Block, PeerAdvances(p, b)
  PROVE  IInv'
  <1>1. b \in PeerBlock[p] /\ b \in Known(p)
    BY TipKnown, Zenon DEF PeerAdvances
  <1>2. Nodes' = Nodes /\ mapNodeState' = mapNodeState
    BY Zenon DEF PeerAdvances, Nodes
  <1>3. GlobalOK'
    <2>1. peerTip' \in [Peer -> Block] /\ \A q \in Peer : peerTip'[q] \in PeerBlock[q]
      BY <1>1, Zenon DEF PeerAdvances, IInv, GlobalOK
    <2>2. inv' \in [Peer -> SUBSET Block] /\ \A q \in Peer : inv'[q] \subseteq Known(q)
      BY <1>1, Zenon DEF PeerAdvances, IInv, GlobalOK
    <2>3. QED
      BY <2>1, <2>2, Zenon DEF PeerAdvances, IInv, GlobalOK, chainVars, counters
  <1>4. QED
    BY <1>2, <1>3, FlightSame, CountersSame, Zenon DEF PeerAdvances, IInv, NodesOK, chainVars, counters

-----------------------------------------------------------------------------
\* A block arrives.

\* Where a block leaves the list it is in, and the node no longer stalls.
LEMMA ReceivedFacts ==
  ASSUME IInv, NEW b, NEW q \in Nodes
  PROVE  /\ DOMAIN MarkBlockAsReceived(b) = Nodes
         /\ Dropped(mapNodeState[q].vBlocksInFlight, MarkBlockAsReceived(b)[q].vBlocksInFlight, b)
         /\ NodeOK(q, MarkBlockAsReceived(b)[q], headers, data)
         /\ MarkBlockAsReceived(b)[q].fSyncStarted = mapNodeState[q].fSyncStarted
         /\ MarkBlockAsReceived(b)[q].fPreferredDownload = mapNodeState[q].fPreferredDownload
  <1> DEFINE old == mapNodeState[q].vBlocksInFlight
             m == MarkBlockAsReceived(b)
             i == Position(old, b)
  <1>1. /\ \A k \in DOMAIN old : old[k].hash \in DOMAIN mapBlocksInFlight /\ mapBlocksInFlight[old[k].hash] = q
        /\ \A j, k \in DOMAIN old : j # k => old[j].hash # old[k].hash
    BY Zenon DEF IInv, FlightOK, InFlightExact
  <1>2. NodeOK(q, mapNodeState[q], headers, data) /\ mapNodeState[q] \in CNodeState /\ old \in Seq(QueuedBlock)
    BY Zenon DEF IInv, NodesOK, NodeOK, CNodeState
  <1>3. DOMAIN m = Nodes
    BY Zenon DEF MarkBlockAsReceived, Nodes
  <1>4. CASE b \in DOMAIN mapBlocksInFlight /\ mapBlocksInFlight[b] = q
    <2>1. m[q] = [mapNodeState[q] EXCEPT !.vBlocksInFlight = Erase(old, i), !.fStalling = FALSE]
      BY <1>2, <1>4, Zenon DEF MarkBlockAsReceived, Nodes, CNodeState
    <2>2. \E k \in DOMAIN old : old[k].hash = b
      BY <1>4 DEF IInv, FlightOK, InFlightExact, Requested
    <2>3. i \in DOMAIN old /\ old[i].hash = b
      BY <2>2, Zenon DEF Position
    <2> HIDE DEF i, m
    <2>4. Dropped(old, Erase(old, i), b)
      BY <1>1, <1>2, <2>3, RemoveDropped, Zenon
    <2>5. Erase(old, i) \in Seq(QueuedBlock) /\ Len(Erase(old, i)) = Len(old) - 1 /\ Len(old) \in Nat
      BY <1>2, <2>3, RemoveFacts, Zenon
    <2>6. Len(Erase(old, i)) <= MAX_BLOCKS_IN_TRANSIT_PER_PEER
      BY <1>2, <2>5, DownloadAssumption DEF NodeOK
    <2>7. /\ m[q] \in CNodeState /\ m[q].vBlocksInFlight = Erase(old, i) /\ m[q].fStalling = FALSE
          /\ m[q].pindexBestKnownBlock = mapNodeState[q].pindexBestKnownBlock
          /\ m[q].hashLastUnknownBlock = mapNodeState[q].hashLastUnknownBlock
          /\ m[q].pindexLastCommonBlock = mapNodeState[q].pindexLastCommonBlock
          /\ m[q].fSyncStarted = mapNodeState[q].fSyncStarted
          /\ m[q].fPreferredDownload = mapNodeState[q].fPreferredDownload
      BY <1>2, <2>1, <2>5, Zenon DEF CNodeState
    <2>8. NodeOK(q, m[q], headers, data)
      BY <1>2, <2>6, <2>7, Zenon DEF NodeOK
    <2>9. QED
      BY <1>3, <2>4, <2>7, <2>8, Zenon DEF m
  <1>5. CASE ~(b \in DOMAIN mapBlocksInFlight /\ mapBlocksInFlight[b] = q)
    <2>1. m[q] = mapNodeState[q]
      BY <1>5, Zenon DEF MarkBlockAsReceived, Nodes
    <2>2. \A k \in DOMAIN old : old[k].hash # b
      BY <1>1, <1>5, Zenon
    <2>3. Dropped(old, old, b)
      BY <1>1, <2>2, Zenon DEF Dropped
    <2>4. QED
      BY <1>2, <1>3, <2>1, <2>3, Zenon
  <1>6. QED
    BY <1>4, <1>5, Zenon

\* A block arrives, asked for or not, and is accepted or not.
LEMMA ProcessNewBlockIInv ==
  ASSUME IInv, NEW b \in Block, NEW checked \in BOOLEAN, ProcessNewBlock(b, checked)
  PROVE  IInv'
  <1>1. /\ Nodes' = Nodes
        /\ \A q \in Nodes :
             /\ Dropped(mapNodeState[q].vBlocksInFlight, mapNodeState'[q].vBlocksInFlight, b)
             /\ NodeOK(q, mapNodeState'[q], headers, data)
             /\ mapNodeState'[q].fSyncStarted = mapNodeState[q].fSyncStarted
             /\ mapNodeState'[q].fPreferredDownload = mapNodeState[q].fPreferredDownload
    <2>1. mapNodeState' = MarkBlockAsReceived(b)
      BY Zenon DEF ProcessNewBlock
    <2>2. DOMAIN MarkBlockAsReceived(b) = Nodes
      BY Zenon DEF MarkBlockAsReceived, Nodes
    <2>3. QED
      BY <2>1, <2>2, ReceivedFacts, Zenon DEF Nodes
  <1>2. /\ mapBlocksInFlight' = Restrict(mapBlocksInFlight, DOMAIN mapBlocksInFlight \ {b})
        /\ nPreferredDownload' = nPreferredDownload /\ nSyncStarted' = nSyncStarted
        /\ peerVars' = peerVars
    BY Zenon DEF ProcessNewBlock
  <1>3. nQueuedValidatedHeaders' \in Int
    BY DEF ProcessNewBlock, IInv, GlobalOK
  <1>4. /\ headers \subseteq headers' /\ data \subseteq data' /\ data' \subseteq data \cup {b}
        /\ headers' \subseteq Block /\ data' \subseteq headers' /\ tip' \in Linked(data')
        /\ pindexBestHeader' \in headers'
    <2>1. CASE UNCHANGED chainVars
      BY <2>1, Zenon DEF chainVars, IInv, GlobalOK
    <2>2. CASE ~UNCHANGED chainVars
      <3>1. /\ headers' = headers \cup {b} /\ data' = data \cup {b}
            /\ pindexBestHeader' \in {b, pindexBestHeader}
            /\ tip' \in Linked(data \cup {b})
        BY <2>2, Zenon DEF ProcessNewBlock
      <3>2. QED
        BY <3>1, Zenon DEF IInv, GlobalOK
    <2>3. QED
      BY <2>1, <2>2, Zenon
  <1>5. GlobalOK'
    BY <1>2, <1>3, <1>4, Zenon DEF IInv, GlobalOK, peerVars
  <1>6. NodesOK'
    <2>1. \A q \in Nodes : NodeOK(q, mapNodeState'[q], headers', data')
      BY <1>1, <1>4, NodeMono, Zenon
    <2>2. QED
      BY <1>1, <2>1, Zenon DEF IInv, NodesOK
  <1>7. FlightOK'
    BY <1>1, <1>2, <1>4, FlightDrop, Zenon DEF IInv
  <1>8. CountersExact'
    BY <1>1, <1>2, CountersSame, Zenon DEF IInv
  <1>9. QED
    BY <1>5, <1>6, <1>7, <1>8, Zenon DEF IInv

-----------------------------------------------------------------------------
\* Blocks are asked for.

\* The last common block that FindNextBlocksToDownload starts from is stored, with
\* its ancestors, and of the peer's chain.
LEMMA ForkFacts ==
  ASSUME IInv, NEW p \in Peer, NEW s, NodeOK(p, s, headers, data), s.pindexBestKnownBlock # NoBlock
  PROVE  ForkPoint(s) \in Linked(data) \cap Known(p)
  <1> DEFINE best == s.pindexBestKnownBlock
             h == Min({nHeight[best], nHeight[tip]})
             guess == IF s.pindexLastCommonBlock = NoBlock THEN GetAncestor(tip, h) ELSE s.pindexLastCommonBlock
  <1>1. best \in Block /\ best \in Known(p) /\ data \subseteq Block /\ tip \in Linked(data) /\ tip \in Block
    BY Zenon DEF IInv, GlobalOK, NodeOK, Linked
  <1>2. guess \in Linked(data)
    <2>1. CASE s.pindexLastCommonBlock # NoBlock
      BY <2>1, Zenon DEF NodeOK
    <2>2. CASE s.pindexLastCommonBlock = NoBlock
      <3>1. nHeight[best] \in Nat /\ nHeight[tip] \in Nat
        BY <1>1, ChainFacts, Zenon
      <3>2. h \in 0 .. nHeight[tip]
        <4>1. \E x \in {nHeight[best], nHeight[tip]} : \A y \in {nHeight[best], nHeight[tip]} : x <= y
          BY <3>1
        <4>2. h \in {nHeight[best], nHeight[tip]} /\ \A y \in {nHeight[best], nHeight[tip]} : h <= y
          BY <4>1, Zenon DEF Min
        <4>3. QED
          BY <3>1, <4>2
      <3> HIDE DEF h
      <3>3. GetAncestor(tip, h) \in Chain[tip]
        BY <1>1, <3>2, AncestorFacts, Zenon
      <3>4. QED
        BY <1>1, <2>2, <3>3, LinkedClosed, Zenon
    <2>3. QED
      BY <2>1, <2>2, Zenon
  <1>3. guess \in Block
    BY <1>1, <1>2, Zenon DEF Linked
  <1>4. ForkPoint(s) = LastCommonAncestor(guess, best)
    BY Zenon DEF ForkPoint
  <1> HIDE DEF guess, best
  <1>5. ForkPoint(s) \in Chain[guess] \cap Chain[best]
    BY <1>1, <1>3, <1>4, CommonFacts, Zenon
  <1>6. QED
    BY <1>1, <1>2, <1>5, LinkedClosed, KnownClosed, Zenon

\* What FindNextBlocksToDownload returns for the state s of p.
NextOK(p, s, count, next) ==
  /\ NodeOK(p, next.state, headers, data) /\ SameRequests(s, next.state)
  /\ next.blocks \in Seq(Block) /\ Len(next.blocks) <= count
  /\ \A i, j \in DOMAIN next.blocks : i # j => next.blocks[i] # next.blocks[j]
  /\ Range(next.blocks) \cap (DOMAIN mapBlocksInFlight \cup data) = {}
  /\ next.staller # NoPeer => \E b \in DOMAIN mapBlocksInFlight : next.staller = mapBlocksInFlight[b]

\* FindNextBlocksToDownload returns such blocks.
LEMMA FindFacts ==
  ASSUME IInv, NEW p \in Peer, NEW s, NodeOK(p, s, headers, data), NEW count \in Nat,
         NEW next \in FindNextBlocksToDownload(p, s, count)
  PROVE  NextOK(p, s, count, next)
  <1> DEFINE best == s.pindexBestKnownBlock
             fork == ForkPoint(s)
             walk == Walk(fork, best)
             inside == {b \in Missing(walk) : nHeight[b] <= nHeight[fork] + BLOCK_DOWNLOAD_WINDOW}
             have == Have(walk)
             last == IF have = {} THEN fork ELSE Highest(have)
  <1>1. CASE next = [state |-> s, blocks |-> <<>>, staller |-> NoPeer]
    <2>1. next.state = s /\ next.blocks = <<>> /\ next.staller = NoPeer
      BY <1>1, Zenon
    <2>2. SameRequests(s, s)
      BY Zenon DEF SameRequests
    <2>3. next.blocks \in Seq(Block) /\ Len(next.blocks) = 0 /\ DOMAIN next.blocks = {}
      BY <2>1
    <2>4. Range(next.blocks) = {}
      BY <2>3, Zenon DEF Range
    <2>5. NodeOK(p, next.state, headers, data) /\ SameRequests(s, next.state)
      BY <2>1, <2>2, Zenon
    <2>6. Len(next.blocks) <= count
      BY <2>3
    <2>7. QED
      BY <2>1, <2>3, <2>4, <2>5, <2>6, Zenon DEF NextOK
  <1>2. CASE best # NoBlock /\ next \in NextBlocks(p, s, count, fork, walk)
    <2>1. fork \in Linked(data) \cap Known(p)
      BY <1>2, ForkFacts, Zenon
    <2>2. best \in Block /\ best \in Known(p)
      BY <1>2, Zenon DEF IInv, GlobalOK, NodeOK
    <2>3. walk \subseteq Chain[best]
      BY Zenon DEF Walk
    <2> HIDE DEF walk, fork
    <2>4. last \in Linked(data) \cap Known(p)
      <3>1. CASE have = {}
        BY <2>1, <3>1, Zenon
      <3>2. CASE have # {}
        <4>1. have \subseteq Linked(data) /\ have \subseteq Chain[best]
          BY <2>3, Zenon DEF Have
        <4>2. have \in SUBSET Block /\ nHeight[best] \in Nat /\ \A c \in have : nHeight[c] <= nHeight[best]
          BY <2>2, <4>1, ChainFacts, Zenon
        <4> HIDE DEF have
        <4>3. Highest(have) \in have
          BY <3>2, <4>2, HighestFacts, Zenon
        <4>4. QED
          BY <2>2, <3>2, <4>1, <4>3, KnownClosed, Zenon
      <3>3. QED
        BY <3>1, <3>2, Zenon
    <2>5. PICK blocks \in FirstBlocks(inside, count), waitingfor \in WaitingFor(walk) :
            next = [ state |-> [s EXCEPT !.pindexLastCommonBlock = last],
                     blocks |-> blocks,
                     staller |-> IF inside = {} /\ Missing(walk) # {} /\ waitingfor # p THEN waitingfor ELSE NoPeer ]
      BY <1>2 DEF NextBlocks
    <2>6. inside \in SUBSET Block /\ inside \cap (DOMAIN mapBlocksInFlight \cup data) = {}
      BY <2>2, <2>3, ChainFacts, Zenon DEF Missing
    <2> HIDE DEF inside, last
    <2>7. /\ blocks \in Seq(Block) /\ Len(blocks) <= count /\ Range(blocks) \subseteq inside
          /\ \A i, j \in DOMAIN blocks : i # j => blocks[i] # blocks[j]
      BY <2>6, FirstFacts
    <2>8. /\ next.state = [s EXCEPT !.pindexLastCommonBlock = last] /\ next.blocks = blocks
          /\ next.staller \in {waitingfor, NoPeer}
      BY <2>5, Zenon
    <2>9. NodeOK(p, next.state, headers, data) /\ SameRequests(s, next.state)
      <3>1. last \in Block
        BY <2>4, Zenon DEF Linked, IInv, GlobalOK
      <3>2. QED
        BY <2>4, <2>8, <3>1, Zenon DEF NodeOK, CNodeState, SameRequests
    <2>10. waitingfor # NoPeer => \E b \in DOMAIN mapBlocksInFlight : waitingfor = mapBlocksInFlight[b]
      BY <2>5, Zenon DEF WaitingFor
    <2>11. QED
      BY <2>6, <2>7, <2>8, <2>9, <2>10, Zenon DEF NextOK
  <1>3. QED
    BY <1>1, <1>2, Zenon DEF FindNextBlocksToDownload

\* The block before the best header, which the headers synchronisation starts from.
LEMMA LocatorFacts ==
  ASSUME GlobalOK
  PROVE  (IF pindexBestHeader = Genesis THEN Genesis
          ELSE GetAncestor(pindexBestHeader, nHeight[pindexBestHeader] - 1)) \in Block
  <1>1. CASE pindexBestHeader = Genesis
    BY <1>1, DownloadAssumption, Zenon
  <1>2. CASE pindexBestHeader # Genesis
    <2>1. pindexBestHeader \in Block
      BY Zenon DEF GlobalOK
    <2>2. nHeight[pindexBestHeader] - 1 \in 0 .. nHeight[pindexBestHeader]
      BY <1>2, <2>1, DownloadAssumption
    <2>3. GetAncestor(pindexBestHeader, nHeight[pindexBestHeader] - 1) \in Chain[pindexBestHeader]
      BY <2>1, <2>2, AncestorFacts, Zenon
    <2>4. QED
      BY <1>2, <2>1, <2>3, ChainFacts, Zenon
  <1>3. QED
    BY <1>1, <1>2, Zenon

\* The peer a block is asked from has it in its list.
LEMMA OwnersAreBusy ==
  ASSUME IInv, NEW b \in DOMAIN mapBlocksInFlight
  PROVE  mapNodeState[mapBlocksInFlight[b]].vBlocksInFlight # <<>>
  BY DEF IInv, FlightOK, InFlightExact, Requested

\* SendMessages: at most the blocks there is room for are asked for, none of them
\* stored or in flight, and the node marked as stalling owes a block.
LEMMA SendMessagesIInv ==
  ASSUME IInv, NEW p \in Peer, NEW recent \in BOOLEAN, NEW late \in BOOLEAN, SendMessages(p, recent, late)
  PROVE  IInv'
  <1> DEFINE s == mapNodeState[p]
             fFetch == s.fPreferredDownload \/ nPreferredDownload = 0
             start == ~s.fSyncStarted /\ fFetch /\ (nSyncStarted = 0 \/ recent)
             locator == IF pindexBestHeader = Genesis THEN Genesis
                        ELSE GetAncestor(pindexBestHeader, nHeight[pindexBestHeader] - 1)
             expired == late /\ (s.fStalling \/ s.vBlocksInFlight # <<>>)
             started == [s EXCEPT !.fSyncStarted = @ \/ start, !.fDisconnect = expired]
             room == Room(s)
             asked(next) == MarkBlocksAsInFlight(next.state, next.blocks, TRUE)
             stalls(next) == asked(next).vBlocksInFlight = <<>> /\ next.staller # NoPeer
             kept == /\ mapNodeState' = [mapNodeState EXCEPT ![p] = started]
                     /\ UNCHANGED <<mapBlocksInFlight, nQueuedValidatedHeaders>>
             fetched(next) ==
               /\ mapNodeState' = [q \in Nodes |->
                    IF q = p THEN asked(next)
                    ELSE [mapNodeState[q] EXCEPT !.fStalling = @ \/ (stalls(next) /\ q = next.staller)]]
               /\ mapBlocksInFlight' = AssignTo(p, Range(next.blocks))
               /\ nQueuedValidatedHeaders' = nQueuedValidatedHeaders + Len(next.blocks)
  <1>1. /\ p \in Nodes
        /\ nSyncStarted' = nSyncStarted + (IF start THEN 1 ELSE 0)
        /\ getheaders' = IF start THEN [getheaders EXCEPT ![p] = @ \cup {<<locator, NoBlock>>}] ELSE getheaders
        /\ nPreferredDownload' = nPreferredDownload /\ chainVars' = chainVars
        /\ peerTip' = peerTip /\ inv' = inv /\ connects' = connects
    BY Zenon DEF SendMessages, Served
  <1>2. \/ kept
        \/ room > 0 /\ \E next \in FindNextBlocksToDownload(p, ProcessBlockAvailability(started), room) : fetched(next)
    BY Zenon DEF SendMessages
  <1>3. NodeOK(p, s, headers, data) /\ s \in CNodeState
    BY <1>1, Zenon DEF IInv, NodesOK, NodeOK
  <1>4. locator \in Block
    BY LocatorFacts, Zenon DEF IInv
  <1> DEFINE sync == s.fSyncStarted \/ start
  <1>5. start \in BOOLEAN /\ expired \in BOOLEAN /\ sync \in BOOLEAN /\ (start => ~s.fSyncStarted)
        /\ sync = (s.fSyncStarted \/ start)
    BY Zenon
  <1>6. started = [s EXCEPT !.fSyncStarted = sync, !.fDisconnect = expired]
    BY Zenon
  <1> HIDE DEF start, expired, locator, started, sync
  <1>7. /\ NodeOK(p, started, headers, data)
        /\ started.vBlocksInFlight = s.vBlocksInFlight
        /\ started.fSyncStarted = sync /\ started.fPreferredDownload = s.fPreferredDownload
    BY <1>3, <1>5, <1>6, Zenon DEF NodeOK, CNodeState
  <1>8. room \in Int /\ Len(s.vBlocksInFlight) \in Nat /\ Len(s.vBlocksInFlight) + room = MAX_BLOCKS_IN_TRANSIT_PER_PEER
    BY <1>3, DownloadAssumption DEF Room, CNodeState
  <1> HIDE DEF s, room
  \* What both branches leave to show.
  <1>9. SUFFICES /\ Nodes' = Nodes /\ nQueuedValidatedHeaders' \in Int
                 /\ \A q \in Nodes : NodeOK(q, mapNodeState'[q], headers, data)
                 /\ FlightOK'
                 /\ mapNodeState'[p].fSyncStarted = sync
                 /\ mapNodeState'[p].fPreferredDownload = s.fPreferredDownload
                 /\ \A q \in Nodes \ {p} : /\ mapNodeState'[q].fSyncStarted = mapNodeState[q].fSyncStarted
                                            /\ mapNodeState'[q].fPreferredDownload = mapNodeState[q].fPreferredDownload
    <2>1. GlobalOK'
      <3>1. getheaders' \in [Peer -> SUBSET (Block \X (Block \cup {NoBlock}))]
        <4>1. getheaders \in [Peer -> SUBSET (Block \X (Block \cup {NoBlock}))]
          BY Zenon DEF IInv, GlobalOK
        <4>2. start => <<locator, NoBlock>> \in Block \X (Block \cup {NoBlock})
          BY <1>4, Zenon
        <4> HIDE DEF start, locator
        <4>3. QED
          BY <1>1, <4>1, <4>2, Zenon
      <3>2. QED
        BY <1>1, <1>9, <3>1, Zenon DEF IInv, GlobalOK, chainVars
    <2>2. NodesOK'
      BY <1>1, <1>9, Zenon DEF IInv, NodesOK, chainVars
    <2>3. CountersExact'
      <3> DEFINE S == {q \in Nodes : mapNodeState[q].fSyncStarted}
      <3>1. {q \in Nodes' : mapNodeState'[q].fPreferredDownload} = {q \in Nodes : mapNodeState[q].fPreferredDownload}
        BY <1>1, <1>9, Zenon DEF s
      <3>2. {q \in Nodes' : mapNodeState'[q].fSyncStarted} = IF start THEN S \cup {p} ELSE S
        BY <1>1, <1>3, <1>5, <1>9, Zenon DEF s
      <3>3. IsFiniteSet(S) /\ (start => p \notin S)
        BY <1>5, FS_Subset, Zenon DEF IInv, NodesOK, s
      <3>4. nSyncStarted = Cardinality(S) /\ Cardinality(S) \in Nat
        BY <3>3, FS_CardinalityType, Zenon DEF IInv, CountersExact
      <3> HIDE DEF S
      <3>5. nSyncStarted' = IF start THEN Cardinality(S \cup {p}) ELSE Cardinality(S)
        <4>1. start => Cardinality(S \cup {p}) = Cardinality(S) + 1
          BY <3>3, FS_AddElement, Zenon
        <4>2. QED
          BY <1>1, <3>4, <4>1
      <3>6. nSyncStarted' = Cardinality({q \in Nodes' : mapNodeState'[q].fSyncStarted})
        BY <3>2, <3>5, Zenon
      <3>7. QED
        BY <1>1, <3>1, <3>6, Zenon DEF IInv, CountersExact
    <2>4. QED
      BY <1>9, <2>1, <2>2, <2>3, Zenon DEF IInv
  <1>10. CASE kept
    <2>1. Nodes' = Nodes /\ mapNodeState'[p] = started /\ \A q \in Nodes \ {p} : mapNodeState'[q] = mapNodeState[q]
      BY <1>1, <1>10, Zenon DEF Nodes
    <2>2. \A q \in Nodes : mapNodeState'[q].vBlocksInFlight = mapNodeState[q].vBlocksInFlight
      BY <1>7, <2>1, Zenon DEF s
    <2>3. FlightOK'
      BY <1>1, <1>10, <2>1, <2>2, FlightSame, Zenon DEF IInv, chainVars
    <2>4. nQueuedValidatedHeaders' \in Int
      BY <1>10, Zenon DEF IInv, GlobalOK
    <2>5. QED
      BY <1>7, <2>1, <2>3, <2>4, Zenon DEF IInv, NodesOK
  <1>11. ASSUME room > 0,
                NEW next \in FindNextBlocksToDownload(p, ProcessBlockAvailability(started), room), fetched(next)
         PROVE  /\ Nodes' = Nodes /\ nQueuedValidatedHeaders' \in Int
                /\ \A q \in Nodes : NodeOK(q, mapNodeState'[q], headers, data)
                /\ FlightOK'
                /\ mapNodeState'[p].fSyncStarted = sync
                /\ mapNodeState'[p].fPreferredDownload = s.fPreferredDownload
                /\ \A q \in Nodes \ {p} : /\ mapNodeState'[q].fSyncStarted = mapNodeState[q].fSyncStarted
                                           /\ mapNodeState'[q].fPreferredDownload = mapNodeState[q].fPreferredDownload
    <2> DEFINE a == ProcessBlockAvailability(started)
               stalling(q) == stalls(next) /\ q = next.staller
    <2>1. NodeOK(p, a, headers, data) /\ SameRequests(started, a)
      BY <1>7, AvailabilityFacts, Zenon
    <2>2. room \in Nat
      BY <1>8, <1>11
    <2>3. NextOK(p, a, room, next)
      <3> HIDE DEF a
      <3> QED BY <1>11, <2>1, <2>2, FindFacts DEF a
    <2> HIDE DEF a
    <2>4. /\ NodeOK(p, next.state, headers, data)
          /\ next.state.vBlocksInFlight = s.vBlocksInFlight
          /\ next.state.fSyncStarted = sync /\ next.state.fPreferredDownload = s.fPreferredDownload
      BY <1>7, <2>1, <2>3, Zenon DEF NextOK, SameRequests
    <2>5. next.blocks \in Seq(Block) /\ Len(next.blocks) \in Nat
          /\ Len(next.state.vBlocksInFlight) + Len(next.blocks) <= MAX_BLOCKS_IN_TRANSIT_PER_PEER
      <3>1. next.blocks \in Seq(Block) /\ Len(next.blocks) <= room
        BY <2>3, Zenon DEF NextOK
      <3>2. Len(next.blocks) \in Nat
        BY <3>1
      <3>3. QED
        <4>1. MAX_BLOCKS_IN_TRANSIT_PER_PEER \in Nat
          BY DownloadAssumption, Zenon
        <4>2. Len(s.vBlocksInFlight) + Len(next.blocks) <= Len(s.vBlocksInFlight) + room
          BY <1>8, <3>1, <3>2
        <4>3. QED
          BY <1>8, <2>4, <3>1, <3>2, <4>2, Zenon
    <2>6. /\ NodeOK(p, asked(next), headers, data)
          /\ Appended(s.vBlocksInFlight, asked(next).vBlocksInFlight, next.blocks)
          /\ asked(next).fSyncStarted = sync /\ asked(next).fPreferredDownload = s.fPreferredDownload
      <3> DEFINE t == next.state
                 blocks == next.blocks
      <3>1. /\ NodeOK(p, t, headers, data) /\ blocks \in Seq(Block) /\ TRUE \in BOOLEAN
            /\ Len(t.vBlocksInFlight) + Len(blocks) <= MAX_BLOCKS_IN_TRANSIT_PER_PEER
        BY <2>4, <2>5, Zenon
      <3> HIDE DEF t, blocks
      <3>2. /\ NodeOK(p, MarkBlocksAsInFlight(t, blocks, TRUE), headers, data)
            /\ Appended(t.vBlocksInFlight, MarkBlocksAsInFlight(t, blocks, TRUE).vBlocksInFlight, blocks)
            /\ MarkBlocksAsInFlight(t, blocks, TRUE).fSyncStarted = t.fSyncStarted
            /\ MarkBlocksAsInFlight(t, blocks, TRUE).fPreferredDownload = t.fPreferredDownload
        BY <3>1, MarkFacts, Zenon
      <3>3. QED
        BY <2>4, <3>2, Zenon DEF t, blocks
    <2>7. /\ Nodes' = Nodes /\ mapNodeState'[p] = asked(next)
          /\ \A q \in Nodes \ {p} : mapNodeState'[q] = [mapNodeState[q] EXCEPT !.fStalling = @ \/ stalling(q)]
      BY <1>1, <1>11, Zenon DEF Nodes
    <2>8. \A q \in Nodes : stalling(q) => mapNodeState[q].vBlocksInFlight # <<>>
      <3>1. ASSUME NEW b \in DOMAIN mapBlocksInFlight
            PROVE  mapNodeState[mapBlocksInFlight[b]].vBlocksInFlight # <<>>
        BY OwnersAreBusy, Zenon
      <3>2. QED
        BY <2>3, <3>1, Zenon DEF NextOK
    <2> HIDE DEF stalling
    <2>9. ASSUME NEW q \in Nodes \ {p}
          PROVE  /\ NodeOK(q, mapNodeState'[q], headers, data)
                 /\ SameRequests(mapNodeState[q], mapNodeState'[q])
      <3> DEFINE u == mapNodeState[q]
                 f == u.fStalling \/ stalling(q)
      <3>1. NodeOK(q, u, headers, data) /\ u \in CNodeState
        BY Zenon DEF IInv, NodesOK, NodeOK
      <3>2. f \in BOOLEAN /\ (f => u.vBlocksInFlight # <<>>)
        BY <2>8, <3>1, Zenon DEF NodeOK
      <3>3. mapNodeState'[q] = [u EXCEPT !.fStalling = f]
        BY <2>7, Zenon
      <3> HIDE DEF u, f
      <3>4. NodeOK(q, mapNodeState'[q], headers, data) /\ SameRequests(u, mapNodeState'[q])
        BY <3>1, <3>2, <3>3, Zenon DEF NodeOK, CNodeState, SameRequests
      <3>5. QED
        BY <3>4, Zenon DEF u
    <2>10. FlightOK'
      <3>1. s.vBlocksInFlight \in Seq(QueuedBlock)
        BY <1>3, Zenon DEF CNodeState
      <3>2. \A q \in Nodes \ {p} : mapNodeState'[q].vBlocksInFlight = mapNodeState[q].vBlocksInFlight
        BY <2>9, Zenon DEF SameRequests
      <3>3. Appended(s.vBlocksInFlight, mapNodeState'[p].vBlocksInFlight, next.blocks)
        BY <2>6, <2>7, Zenon
      <3>4. mapBlocksInFlight' = AssignTo(p, Range(next.blocks)) /\ data' = data
        BY <1>1, <1>11, Zenon DEF chainVars
      <3>5. /\ \A i, j \in DOMAIN next.blocks : i # j => next.blocks[i] # next.blocks[j]
            /\ Range(next.blocks) \cap (DOMAIN mapBlocksInFlight \cup data) = {}
        BY <2>3, Zenon DEF NextOK
      <3>6. QED
        BY <1>1, <2>5, <2>7, <3>1, <3>2, <3>3, <3>4, <3>5, FlightAppend, Zenon DEF IInv, s
    <2>11. nQueuedValidatedHeaders' \in Int
      BY <1>11, <2>5 DEF IInv, GlobalOK
    <2>12. QED
      BY <2>6, <2>7, <2>9, <2>10, <2>11, Zenon DEF SameRequests
  <1>12. QED
    BY <1>2, <1>10, <1>11, Zenon

-----------------------------------------------------------------------------
\* Every step keeps the invariant.
LEMMA NextIInv ==
  ASSUME IInv, [Next]_vars
  PROVE  IInv'
  <1>1. CASE UNCHANGED vars
    <2>1. /\ mapNodeState' = mapNodeState /\ mapBlocksInFlight' = mapBlocksInFlight
          /\ counters' = counters /\ chainVars' = chainVars /\ peerVars' = peerVars
      BY <1>1, Zenon DEF vars
    <2>2. Nodes' = Nodes
      BY <2>1, Zenon DEF Nodes
    <2>3. GlobalOK'
      BY <2>1, Zenon DEF IInv, GlobalOK, counters, chainVars, peerVars
    <2>4. NodesOK'
      BY <2>1, <2>2, Zenon DEF IInv, NodesOK, chainVars
    <2>5. FlightOK' /\ CountersExact'
      BY <2>1, <2>2, FlightSame, CountersSame, Zenon DEF IInv, chainVars, counters
    <2>6. QED
      BY <2>3, <2>4, <2>5, Zenon DEF IInv
  <1>2. ASSUME NEW p \in Peer, Connect(p) PROVE IInv'
    BY <1>2, ConnectIInv, Zenon
  <1>3. ASSUME NEW p \in Peer, FinalizeNode(p) PROVE IInv'
    BY <1>3, FinalizeNodeIInv, Zenon
  <1>4. ASSUME NEW p \in Peer, NEW b \in inv[p], NEW recent \in Recent, ProcessInv(p, b, recent) PROVE IInv'
    <2>1. recent \in BOOLEAN
      BY DownloadAssumption, Zenon
    <2>2. QED
      BY <1>4, <2>1, ProcessInvIInv, Zenon
  <1>5. ASSUME NEW p \in Peer, NEW r \in getheaders[p], ProcessHeaders(p, r[1], r[2]) PROVE IInv'
    BY <1>5, ProcessHeadersIInv, Zenon
  <1>6. ASSUME NEW p \in Peer, NEW recent \in Recent, NEW late \in Late(p), SendMessages(p, recent, late) PROVE IInv'
    <2>1. recent \in BOOLEAN /\ late \in BOOLEAN
      BY DownloadAssumption, Zenon DEF Late
    <2>2. QED
      BY <1>6, <2>1, SendMessagesIInv, Zenon
  <1>7. ASSUME NEW p \in Peer, NEW b \in Block, PeerAdvances(p, b) PROVE IInv'
    BY <1>7, PeerAdvancesIInv, Zenon
  <1>8. ASSUME NEW b \in DOMAIN mapBlocksInFlight \cup UnsolicitedBlock, NEW checked \in Checked,
               ProcessNewBlock(b, checked)
        PROVE  IInv'
    <2>1. b \in Block /\ checked \in BOOLEAN
      BY DownloadAssumption, Zenon DEF IInv, FlightOK
    <2>2. QED
      BY <1>8, <2>1, ProcessNewBlockIInv, Zenon
  <1>9. QED
    BY <1>1, <1>2, <1>3, <1>4, <1>5, <1>6, <1>7, <1>8, Zenon DEF Next

\* The invariant implies the properties that the runs check.
LEMMA InvImplies ==
  ASSUME IInv
  PROVE  TypeOK /\ LastCommonShared /\ StallersOwe /\ TransitBounded
  <1>1. \A p \in Nodes : NodeOK(p, mapNodeState[p], headers, data)
    BY Zenon DEF IInv, NodesOK
  <1>2. nPreferredDownload \in Nat /\ nSyncStarted \in Nat
    <2>1. /\ IsFiniteSet({p \in Nodes : mapNodeState[p].fSyncStarted})
          /\ IsFiniteSet({p \in Nodes : mapNodeState[p].fPreferredDownload})
      BY FS_Subset, Zenon DEF IInv, NodesOK
    <2>2. QED
      BY <2>1, FS_CardinalityType, Zenon DEF IInv, CountersExact
  <1>3. \A b \in DOMAIN mapBlocksInFlight : mapBlocksInFlight[b] \in Peer
    BY Zenon DEF IInv, FlightOK, InFlightExact, NodesOK
  <1>4. TypeOK
    BY <1>1, <1>2, <1>3, Zenon DEF IInv, GlobalOK, NodesOK, FlightOK, NodeOK, TypeOK
  <1>5. LastCommonShared
    BY <1>1, Zenon DEF NodeOK, Known, LastCommonShared
  <1>6. StallersOwe /\ TransitBounded
    BY <1>1, Zenon DEF NodeOK, StallersOwe, TransitBounded
  <1>7. QED
    BY <1>4, <1>5, <1>6, Zenon

\* The invariant is inductive.
LEMMA Inductive == Spec => []IInv
  BY InitIInv, NextIInv, PTL DEF Spec

\* The state of the download keeps its types, for any peers and any block tree.
THEOREM TypeCorrect == Spec => []TypeOK
  BY Inductive, InvImplies, PTL

\* mapBlocksInFlight and the lists of the nodes agree, whatever order nodes come
\* and go in and blocks are asked for, arrive, arrive unasked for or are refused.
THEOREM InFlightIsExact == Spec => []InFlightExact
  <1>1. IInv => InFlightExact
    BY Zenon DEF IInv, FlightOK
  <1>2. QED
    BY <1>1, Inductive, PTL

\* No stored block is in flight.
THEOREM NothingIsAskedTwice == Spec => []NothingTwice
  <1>1. IInv => NothingTwice
    BY Zenon DEF IInv, FlightOK
  <1>2. QED
    BY <1>1, Inductive, PTL

\* nSyncStarted and nPreferredDownload count the nodes that exist.
THEOREM CountersAreExact == Spec => []CountersExact
  <1>1. IInv => CountersExact
    BY Zenon DEF IInv
  <1>2. QED
    BY <1>1, Inductive, PTL

\* pindexLastCommonBlock is stored here, with its ancestors, and on a chain that
\* the peer has had, through reorganisations of both.
THEOREM LastCommonIsShared == Spec => []LastCommonShared
  BY Inductive, InvImplies, PTL

\* A node found to stall owes a block.
THEOREM StallersAlwaysOwe == Spec => []StallersOwe
  BY Inductive, InvImplies, PTL

\* The limit of blocks in transit per peer holds, for any limit.
THEOREM TransitIsBounded == Spec => []TransitBounded
  BY Inductive, InvImplies, PTL
=============================================================================
