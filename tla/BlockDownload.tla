---------------------------- MODULE BlockDownload ----------------------------
(***************************************************************************)
(* How the node of main.cpp finds out which blocks its peers have and      *)
(* downloads them: the headers synchronisation, the per-peer state         *)
(* (CNodeState), the blocks in flight, the moving download window and the  *)
(* detection of peers that stall it.                                       *)
(*                                                                         *)
(* Every handler runs under cs_main, so it is one step.  The block tree is *)
(* a constant; the validity of blocks is the matter of ChainState, and     *)
(* here every stored block whose ancestors are stored is connectable.      *)
(* Time is left out: a timeout may expire whenever it runs.                *)
(***************************************************************************)
EXTENDS Integers, Sequences, FiniteSets, FiniteSetsExt, Functions

CONSTANTS
  Block, Genesis, NoBlock,
  nHeight,             \* height, which is also the accumulated work
  Chain,               \* Chain[b]: b and all its ancestors
  Peer, NoPeer,
  PreferredPeer,       \* peers that are outbound or whitelisted, and serve blocks
  ResponsivePeer,      \* peers that answer before any timeout and stay connected
  UnsolicitedBlock,    \* blocks that may also come unasked for, from a miner, a file or a peer
  FirstTip,            \* the tip of each peer's chain at the start
  PeerBlock,           \* PeerBlock[p]: the tips that the chain of p may have in turn
  Checked,             \* the results of CheckBlock; a peer that sends a bad block again is banned
  Recent,              \* the answers the comparisons of block times with the clock may give
  MAX_BLOCKS_IN_TRANSIT_PER_PEER,
  BLOCK_DOWNLOAD_WINDOW,
  MAX_HEADERS_RESULTS,
  MaxConnects          \* bound: connections per peer

ASSUME DownloadAssumption ==
  /\ Genesis \in Block /\ NoBlock \notin Block /\ NoPeer \notin Peer
  /\ nHeight \in [Block -> Nat] /\ nHeight[Genesis] = 0
  /\ Chain \in [Block -> SUBSET Block] /\ Chain[Genesis] = {Genesis}
  /\ \A b \in Block : /\ {Genesis, b} \subseteq Chain[b]
                      /\ \A a \in Chain[b] : Chain[a] \subseteq Chain[b]
                      /\ \A a \in Chain[b] \ {b} : nHeight[a] < nHeight[b]
                      /\ \A h \in 0 .. nHeight[b] : \E a \in Chain[b] : nHeight[a] = h
  /\ PreferredPeer \subseteq Peer /\ ResponsivePeer \subseteq Peer
  /\ UnsolicitedBlock \subseteq Block \ {Genesis}
  /\ PeerBlock \in [Peer -> SUBSET Block]
  /\ FirstTip \in [Peer -> Block] /\ \A p \in Peer : FirstTip[p] \in PeerBlock[p]
  /\ Recent \in (SUBSET BOOLEAN) \ {{}} /\ Checked \in SUBSET BOOLEAN
  /\ MAX_BLOCKS_IN_TRANSIT_PER_PEER \in Nat \ {0}
  /\ BLOCK_DOWNLOAD_WINDOW \in Nat \ {0} /\ MAX_HEADERS_RESULTS \in Nat \ {0}
  /\ MaxConnects \in Nat

VARIABLES
  mapNodeState,             \* CNodeState of every node that exists
  mapBlocksInFlight,        \* block -> the node it was requested from
  nQueuedValidatedHeaders, nPreferredDownload, nSyncStarted,
  headers,                  \* blocks in mapBlockIndex
  data,                     \* those with BLOCK_HAVE_DATA
  pindexBestHeader,
  tip,                      \* chainActive.Tip()
  peerTip,                  \* the tip of each peer's own chain
  inv,                      \* blocks each peer has announced and we not yet processed
  getheaders,               \* our unanswered requests: <<start of the locator, hashStop>>
  connects                  \* connections made so far with each peer

counters == <<nQueuedValidatedHeaders, nPreferredDownload, nSyncStarted>>
chainVars == <<headers, data, pindexBestHeader, tip>>
peerVars == <<peerTip, inv, getheaders, connects>>
vars == <<mapNodeState, mapBlocksInFlight, counters, chainVars, peerVars>>

\* QueuedBlock; its request time and nValidatedQueuedBefore only set the timeout.
QueuedBlock == [hash : Block, fValidatedHeaders : BOOLEAN]

\* CNodeState, with the fields of CNode that the download looks at.
CNodeState ==
  [ fDisconnect : BOOLEAN,
    fSyncStarted : BOOLEAN,
    fPreferredDownload : BOOLEAN,
    pindexBestKnownBlock : Block \cup {NoBlock},
    hashLastUnknownBlock : Block \cup {NoBlock},
    pindexLastCommonBlock : Block \cup {NoBlock},
    fStalling : BOOLEAN,              \* nStallingSince is not 0
    vBlocksInFlight : Seq(QueuedBlock) ]

Init ==
  /\ mapNodeState = [p \in {} |-> {}]
  /\ mapBlocksInFlight = [b \in {} |-> NoPeer]
  /\ nQueuedValidatedHeaders = 0 /\ nPreferredDownload = 0 /\ nSyncStarted = 0
  /\ headers = {Genesis} /\ data = {Genesis} /\ pindexBestHeader = Genesis /\ tip = Genesis
  /\ peerTip = FirstTip
  /\ inv = [p \in Peer |-> {}]
  /\ getheaders = [p \in Peer |-> {}]
  /\ connects = [p \in Peer |-> 0]

-----------------------------------------------------------------------------
Nodes == DOMAIN mapNodeState

\* ThreadMessageHandler serves the nodes that are not to be disconnected.
Served(p) == p \in Nodes /\ ~mapNodeState[p].fDisconnect

\* CBlockIndex::GetAncestor and LastCommonAncestor.
GetAncestor(b, h) == CHOOSE a \in Chain[b] : nHeight[a] = h
Highest(S) == CHOOSE b \in S : \A c \in S : nHeight[c] <= nHeight[b]
LastCommonAncestor(a, b) == Highest(Chain[a] \cap Chain[b])

\* Blocks of d whose nChainTx is set: their ancestors are stored too.
Linked(d) == {b \in d : Chain[b] \subseteq d}

\* The effect of ProcessBlockAvailability on a node's state.
ProcessBlockAvailability(s) ==
  IF s.hashLastUnknownBlock \in headers
  THEN [s EXCEPT !.hashLastUnknownBlock = NoBlock,
                 !.pindexBestKnownBlock =
                    IF @ = NoBlock \/ nHeight[s.hashLastUnknownBlock] >= nHeight[@]
                    THEN s.hashLastUnknownBlock ELSE @]
  ELSE s

\* UpdateBlockAvailability, where known is mapBlockIndex by then.
UpdateBlockAvailability(s, b, known) ==
  LET t == ProcessBlockAvailability(s)
      better == t.pindexBestKnownBlock = NoBlock \/ nHeight[b] >= nHeight[t.pindexBestKnownBlock]
  IN IF b \in known
     THEN [t EXCEPT !.pindexBestKnownBlock = IF better THEN b ELSE @]
     ELSE [t EXCEPT !.hashLastUnknownBlock = b]

-----------------------------------------------------------------------------
\* Connections.
NewNodeState ==
  [fDisconnect |-> FALSE, fSyncStarted |-> FALSE,
   fPreferredDownload |-> FALSE, pindexBestKnownBlock |-> NoBlock,
   hashLastUnknownBlock |-> NoBlock, pindexLastCommonBlock |-> NoBlock,
   fStalling |-> FALSE, vBlocksInFlight |-> <<>>]

\* A connection: InitializeNode, and the version message with
\* UpdatePreferredDownload, before which nothing is processed or sent.
Connect(p) ==
  /\ p \notin Nodes
  /\ connects[p] < MaxConnects
  /\ connects' = [connects EXCEPT ![p] = @ + 1]
  /\ mapNodeState' = [q \in Nodes \cup {p} |->
       IF q = p THEN [NewNodeState EXCEPT !.fPreferredDownload = p \in PreferredPeer]
       ELSE mapNodeState[q]]
  /\ nPreferredDownload' = nPreferredDownload + (IF p \in PreferredPeer THEN 1 ELSE 0)
  /\ UNCHANGED <<mapBlocksInFlight, nQueuedValidatedHeaders, nSyncStarted, chainVars,
                 peerTip, inv, getheaders>>

\* Mutant of Requested: the blocks asked for without a validated header only.
RequestedUnvalidated(s) ==
  {s.vBlocksInFlight[i].hash : i \in {j \in DOMAIN s.vBlocksInFlight : ~s.vBlocksInFlight[j].fValidatedHeaders}}

\* The blocks in flight from a node.
Requested(s) == {s.vBlocksInFlight[i].hash : i \in DOMAIN s.vBlocksInFlight}

\* Mutant of SyncShare: the node is not taken from nSyncStarted.
SyncShareForgotten(s) == 0

\* What a node contributes to nSyncStarted.
SyncShare(s) == IF s.fSyncStarted THEN 1 ELSE 0

\* The node is deleted, because it is to be disconnected or the connection broke.
FinalizeNode(p) ==
  /\ p \in Nodes
  /\ p \in ResponsivePeer => mapNodeState[p].fDisconnect
  /\ LET s == mapNodeState[p]
     IN /\ nSyncStarted' = nSyncStarted - SyncShare(s)
        /\ nPreferredDownload' = nPreferredDownload - (IF s.fPreferredDownload THEN 1 ELSE 0)
        /\ mapBlocksInFlight' = Restrict(mapBlocksInFlight, DOMAIN mapBlocksInFlight \ Requested(s))
  /\ mapNodeState' = Restrict(mapNodeState, Nodes \ {p})
  /\ inv' = [inv EXCEPT ![p] = {}]
  /\ getheaders' = [getheaders EXCEPT ![p] = {}]
  /\ UNCHANGED <<nQueuedValidatedHeaders, chainVars, peerTip, connects>>

-----------------------------------------------------------------------------
\* Messages received.

\* MarkBlockAsInFlight of blocks that are not in flight: the state of the node.
MarkBlocksAsInFlight(s, blocks, validated) ==
  [s EXCEPT !.vBlocksInFlight =
     @ \o [i \in DOMAIN blocks |-> [hash |-> blocks[i], fValidatedHeaders |-> validated]]]

\* mapBlocksInFlight with the blocks of S asked of node p.
AssignTo(p, S) ==
  [b \in DOMAIN mapBlocksInFlight \cup S |-> IF b \in S THEN p ELSE mapBlocksInFlight[b]]

\* Mutant of Room: off by one.
RoomAndOne(s) == MAX_BLOCKS_IN_TRANSIT_PER_PEER - Len(s.vBlocksInFlight) + 1

\* How many more blocks a node may be asked for.
Room(s) == MAX_BLOCKS_IN_TRANSIT_PER_PEER - Len(s.vBlocksInFlight)

\* Whether an announced block is to be requested.
Wanted(b) == b \notin headers /\ b \notin DOMAIN mapBlocksInFlight

\* "inv" for a block: ask for the headers that lead to it and, close to the
\* present, for the block itself.
ProcessInv(p, b, recent) ==
  /\ Served(p)
  /\ inv' = [inv EXCEPT ![p] = @ \ {b}]
  /\ LET s == UpdateBlockAvailability(mapNodeState[p], b, headers)
         new == Wanted(b)
         direct == new /\ recent /\ Room(s) > 0
     IN /\ getheaders' = IF new THEN [getheaders EXCEPT ![p] = @ \cup {<<pindexBestHeader, b>>}]
                         ELSE getheaders
        /\ mapNodeState' = [mapNodeState EXCEPT ![p] =
             IF direct THEN MarkBlocksAsInFlight(s, <<b>>, FALSE) ELSE s]
        /\ mapBlocksInFlight' = IF direct THEN AssignTo(p, {b}) ELSE mapBlocksInFlight
  /\ UNCHANGED <<counters, chainVars, peerTip, connects>>

\* The first blocks of a part of a chain, at most count of them, in its order.
FirstBlocks(part, count) ==
  {list \in UNION {[1 .. n -> part] : n \in 0 .. count} :
     /\ \A i, j \in DOMAIN list : i < j => nHeight[list[i]] < nHeight[list[j]]
     /\ \A b \in part \ Range(list) : Len(list) = count /\ \A i \in DOMAIN list : nHeight[list[i]] < nHeight[b]}

\* What a peer answers to "getheaders": the blocks of its chain after the last
\* one of the locator that it has, up to hashStop or to the limit.
HeadersReply(p, start, stop) ==
  LET after == Chain[peerTip[p]] \ Chain[start]
  IN FirstBlocks({a \in after : stop \in after => nHeight[a] <= nHeight[stop]}, MAX_HEADERS_RESULTS)

\* "headers".  An empty message changes nothing; a full one makes us ask for more.
ProcessHeaders(p, start, stop) ==
  /\ Served(p)
  /\ \E reply \in HeadersReply(p, start, stop) :
     LET n == Len(reply)
         last == reply[n]
         rest == getheaders[p] \ {<<start, stop>>}
     IN \/ /\ n = 0
           /\ getheaders' = [getheaders EXCEPT ![p] = rest]
           /\ UNCHANGED <<mapNodeState, headers, pindexBestHeader>>
        \/ /\ n > 0
           /\ headers' = headers \cup Range(reply)
           /\ pindexBestHeader' = IF last \notin headers /\ nHeight[last] > nHeight[pindexBestHeader]
                                  THEN last ELSE pindexBestHeader
           /\ mapNodeState' = [mapNodeState EXCEPT ![p] =
                UpdateBlockAvailability(@, last, headers \cup Range(reply))]
           /\ getheaders' = [getheaders EXCEPT ![p] =
                rest \cup (IF n = MAX_HEADERS_RESULTS THEN {<<last, NoBlock>>} ELSE {})]
  /\ UNCHANGED <<mapBlocksInFlight, counters, data, tip, peerTip, inv, connects>>

\* Where b is in a list of blocks in flight: the iterator of mapBlocksInFlight.
Position(list, b) == CHOOSE i \in DOMAIN list : list[i].hash = b

\* list::erase of the entry at that place.
Erase(list, i) == SubSeq(list, 1, i - 1) \o SubSeq(list, i + 1, Len(list))

\* Mutant of MarkBlockAsReceived: the stalling mark outlives the block.
MarkBlockAsReceivedStalling(b) ==
  IF b \in DOMAIN mapBlocksInFlight
  THEN [mapNodeState EXCEPT
          ![mapBlocksInFlight[b]].vBlocksInFlight = Erase(@, Position(@, b))]
  ELSE mapNodeState

\* MarkBlockAsReceived: the state of the nodes after it.
MarkBlockAsReceived(b) ==
  IF b \in DOMAIN mapBlocksInFlight
  THEN [mapNodeState EXCEPT
          ![mapBlocksInFlight[b]].vBlocksInFlight = Erase(@, Position(@, b)),
          ![mapBlocksInFlight[b]].fStalling = FALSE]
  ELSE mapNodeState

\* Whether b is in flight and was requested with a validated header.
Validated(b) ==
  /\ b \in DOMAIN mapBlocksInFlight
  /\ \E e \in Range(mapNodeState[mapBlocksInFlight[b]].vBlocksInFlight) : e.hash = b /\ e.fValidatedHeaders

\* ProcessNewBlock of a block from a peer, requested or not, from a file or mined
\* here.  It is no longer in flight even when it is then refused: by CheckBlock
\* (it arrived damaged), or because its predecessor is not known.
ProcessNewBlock(b, checked) ==
  /\ mapNodeState' = MarkBlockAsReceived(b)
  /\ mapBlocksInFlight' = Restrict(mapBlocksInFlight, DOMAIN mapBlocksInFlight \ {b})
  /\ nQueuedValidatedHeaders' = nQueuedValidatedHeaders - (IF Validated(b) THEN 1 ELSE 0)
  /\ LET accepted == checked /\ Chain[b] \ {b} \subseteq headers /\ b \notin data
         linked == Linked(data \cup {b})
     IN \/ ~accepted /\ UNCHANGED chainVars
        \/ /\ accepted
           /\ headers' = headers \cup {b}
           /\ data' = data \cup {b}
           /\ pindexBestHeader' = IF b \notin headers /\ nHeight[b] > nHeight[pindexBestHeader]
                                  THEN b ELSE pindexBestHeader
           /\ \E t \in linked :
                /\ \A u \in linked : nHeight[u] <= nHeight[t]
                /\ nHeight[t] = nHeight[tip] => t = tip
                /\ tip' = t
  /\ UNCHANGED <<nPreferredDownload, nSyncStarted, peerVars>>

-----------------------------------------------------------------------------
\* Messages sent.

\* The successors of last towards best, as far as the window and one more.
Walk(last, best) == {a \in Chain[best] : nHeight[a] - nHeight[last] \in 1 .. BLOCK_DOWNLOAD_WINDOW + 1}

\* Mutant of ForkPoint: the old last common block is trusted after the peer
\* reorganised.
ForkPointStale(s) ==
  IF s.pindexLastCommonBlock = NoBlock
  THEN GetAncestor(tip, Min({nHeight[s.pindexBestKnownBlock], nHeight[tip]}))
  ELSE s.pindexLastCommonBlock

\* pindexLastCommonBlock moved back to an ancestor of pindexBestKnownBlock; the
\* first guess is our block at its height.
ForkPoint(s) ==
  LET guess == IF s.pindexLastCommonBlock = NoBlock
               THEN GetAncestor(tip, Min({nHeight[s.pindexBestKnownBlock], nHeight[tip]}))
               ELSE s.pindexLastCommonBlock
  IN LastCommonAncestor(guess, s.pindexBestKnownBlock)

\* Mutant of Missing: stored blocks are requested too.
MissingStored(walk) == walk \ DOMAIN mapBlocksInFlight

\* The blocks of walk that are neither stored nor in flight.
Missing(walk) == walk \ (data \cup DOMAIN mapBlocksInFlight)

\* Mutant of Have: a stored block counts although a predecessor is missing.
HaveUnlinked(walk) == walk \cap data

\* The blocks of walk that are stored, with nChainTx.
Have(walk) == walk \cap Linked(data)

\* The node the first block in flight of a walk was asked of.
WaitingFor(walk) ==
  LET inFlight == (walk \cap DOMAIN mapBlocksInFlight) \ data
  IN IF inFlight = {} THEN {NoPeer}
     ELSE {mapBlocksInFlight[b] : b \in {c \in inFlight : \A d \in inFlight : nHeight[c] <= nHeight[d]}}

\* FindNextBlocksToDownload(p, count, ...) for the state s of p, when the walk goes
\* from fork to its best known block: s with its pindexLastCommonBlock moved, the
\* blocks to request and the node that stalls.
NextBlocks(p, s, count, fork, walk) ==
  LET missing == Missing(walk)
      inside == {b \in missing : nHeight[b] <= nHeight[fork] + BLOCK_DOWNLOAD_WINDOW}
      have == Have(walk)
  IN {[ state |-> [s EXCEPT !.pindexLastCommonBlock =
                     IF have = {} THEN fork ELSE Highest(have)],
        blocks |-> blocks,
        staller |-> IF inside = {} /\ missing # {} /\ waitingfor # p THEN waitingfor ELSE NoPeer ] :
      blocks \in FirstBlocks(inside, count), waitingfor \in WaitingFor(walk)}

\* The one result of FindNextBlocksToDownload, as a set.
FindNextBlocksToDownload(p, s, count) ==
  IF s.pindexBestKnownBlock = NoBlock \/ nHeight[s.pindexBestKnownBlock] < nHeight[tip]
  THEN {[state |-> s, blocks |-> <<>>, staller |-> NoPeer]}
  ELSE UNION {NextBlocks(p, s, count, fork, Walk(fork, s.pindexBestKnownBlock)) : fork \in {ForkPoint(s)}}

\* The part of SendMessages that downloads: start the headers synchronisation,
\* disconnect a node that stalls or times out, request blocks, and mark the node
\* that keeps the window from moving.
SendMessages(p, recent, late) ==
  /\ Served(p)
  /\ LET s == mapNodeState[p]
         fFetch == s.fPreferredDownload \/ nPreferredDownload = 0
         start == ~s.fSyncStarted /\ fFetch /\ (nSyncStarted = 0 \/ recent)
         locator == IF pindexBestHeader = Genesis THEN Genesis
                    ELSE GetAncestor(pindexBestHeader, nHeight[pindexBestHeader] - 1)
         expired == late /\ (s.fStalling \/ s.vBlocksInFlight # <<>>)
         room == Room(s)
         started == [s EXCEPT !.fSyncStarted = @ \/ start, !.fDisconnect = expired]
         fetches == ~expired /\ fFetch /\ room > 0
         asked(next) == MarkBlocksAsInFlight(next.state, next.blocks, TRUE)
         stalls(next) == asked(next).vBlocksInFlight = <<>> /\ next.staller # NoPeer
     IN /\ nSyncStarted' = nSyncStarted + (IF start THEN 1 ELSE 0)
        /\ getheaders' = IF start THEN [getheaders EXCEPT ![p] = @ \cup {<<locator, NoBlock>>}]
                         ELSE getheaders
        /\ \/ /\ ~fetches
              /\ mapNodeState' = [mapNodeState EXCEPT ![p] = started]
              /\ UNCHANGED <<mapBlocksInFlight, nQueuedValidatedHeaders>>
           \/ /\ fetches
              /\ \E next \in FindNextBlocksToDownload(p, ProcessBlockAvailability(started), room) :
                   /\ mapNodeState' = [q \in Nodes |->
                        IF q = p THEN asked(next)
                        ELSE [mapNodeState[q] EXCEPT !.fStalling = @ \/ (stalls(next) /\ q = next.staller)]]
                   /\ mapBlocksInFlight' = AssignTo(p, Range(next.blocks))
                   /\ nQueuedValidatedHeaders' = nQueuedValidatedHeaders + Len(next.blocks)
  /\ UNCHANGED <<nPreferredDownload, chainVars, peerTip, inv, connects>>

-----------------------------------------------------------------------------
\* A peer's own chain grows or is reorganised; it announces its new tip.
PeerAdvances(p, b) ==
  /\ b \in PeerBlock[p] /\ nHeight[b] > nHeight[peerTip[p]]
  /\ peerTip' = [peerTip EXCEPT ![p] = b]
  /\ inv' = IF p \in Nodes THEN [inv EXCEPT ![p] = @ \cup {b}] ELSE inv
  /\ UNCHANGED <<mapNodeState, mapBlocksInFlight, counters, chainVars, getheaders, connects>>

\* A block that p was asked for arrives.  ProcessGetData of a peer also sends the
\* recent blocks that its active chain has left.
BlockArrives(p) ==
  \E b \in DOMAIN mapBlocksInFlight :
    /\ mapBlocksInFlight[b] = p
    /\ \E t \in PeerBlock[p] : b \in Chain[t] /\ nHeight[t] <= nHeight[peerTip[p]]
    /\ ProcessNewBlock(b, TRUE)

\* No timeout expires for a responsive peer.
Late(p) == IF p \in ResponsivePeer THEN {FALSE} ELSE BOOLEAN

Next ==
  \/ \E p \in Peer :
       \/ Connect(p) \/ FinalizeNode(p)
       \/ \E b \in inv[p], recent \in Recent : ProcessInv(p, b, recent)
       \/ \E r \in getheaders[p] : ProcessHeaders(p, r[1], r[2])
       \/ \E recent \in Recent, late \in Late(p) : SendMessages(p, recent, late)
       \/ \E b \in Block : PeerAdvances(p, b)
  \/ \E b \in DOMAIN mapBlocksInFlight \cup UnsolicitedBlock, checked \in Checked :
       ProcessNewBlock(b, checked)

Spec == Init /\ [][Next]_vars

\* ThreadMessageHandler calls SendMessages for every node again and again, time
\* passes, and the socket thread deletes the nodes to be disconnected; responsive
\* peers answer.
Fairness ==
  \A p \in Peer :
    /\ WF_vars(Connect(p))
    /\ WF_vars(p \in Nodes /\ mapNodeState[p].fDisconnect /\ FinalizeNode(p))
    /\ WF_vars(\E recent \in Recent : SendMessages(p, recent, p \notin ResponsivePeer))
    /\ p \in ResponsivePeer =>
         /\ WF_vars(\E b \in inv[p], recent \in Recent : ProcessInv(p, b, recent))
         /\ WF_vars(\E r \in getheaders[p] : ProcessHeaders(p, r[1], r[2]))
         /\ WF_vars(BlockArrives(p))

FairSpec == Spec /\ Fairness

-----------------------------------------------------------------------------
\* The state has the types the code gives it.
TypeOK ==
  /\ Nodes \subseteq Peer
  /\ \A p \in Nodes : mapNodeState[p] \in CNodeState
                      /\ mapNodeState[p].pindexBestKnownBlock \in headers \cup {NoBlock}
  /\ DOMAIN mapBlocksInFlight \subseteq Block
  /\ \A b \in DOMAIN mapBlocksInFlight : mapBlocksInFlight[b] \in Peer
  /\ nQueuedValidatedHeaders \in Int /\ nPreferredDownload \in Nat /\ nSyncStarted \in Nat
  /\ headers \subseteq Block /\ data \subseteq headers /\ tip \in Linked(data)
  /\ pindexBestHeader \in headers
  /\ peerTip \in [Peer -> Block]
  /\ inv \in [Peer -> SUBSET Block]
  /\ getheaders \in [Peer -> SUBSET (Block \X (Block \cup {NoBlock}))]
  /\ connects \in [Peer -> 0 .. MaxConnects]

\* mapBlocksInFlight and the lists of the nodes agree: every block in flight is
\* in one list, that of a node that still exists.  MarkBlockAsReceived and the
\* stall detection follow these references without a check, and an entry left
\* behind would keep its block from ever being requested again.
InFlightExact ==
  /\ \A b \in DOMAIN mapBlocksInFlight :
       /\ mapBlocksInFlight[b] \in Nodes
       /\ b \in Requested(mapNodeState[mapBlocksInFlight[b]])
  /\ \A p \in Nodes :
       LET list == mapNodeState[p].vBlocksInFlight
       IN /\ \A i \in DOMAIN list : list[i].hash \in DOMAIN mapBlocksInFlight
                                    /\ mapBlocksInFlight[list[i].hash] = p
          /\ \A i, j \in DOMAIN list : i # j => list[i].hash # list[j].hash

\* No block that is stored is in flight, whoever it came from.
NothingTwice == DOMAIN mapBlocksInFlight \cap data = {}

\* nSyncStarted and nPreferredDownload count nodes that exist: were one too high,
\* headers, or blocks, would never be asked for again.
CountersExact ==
  /\ nSyncStarted = Cardinality({p \in Nodes : mapNodeState[p].fSyncStarted})
  /\ nPreferredDownload = Cardinality({p \in Nodes : mapNodeState[p].fPreferredDownload})

\* pindexLastCommonBlock is, as its comment says, the last full block we both
\* have: linked here, and part of the chain of a block that the peer announced.
LastCommonShared ==
  \A p \in Nodes :
    LET last == mapNodeState[p].pindexLastCommonBlock
    IN last # NoBlock => /\ last \in Linked(data)
                        /\ \E b \in PeerBlock[p] : last \in Chain[b]

\* Only a node that owes a block can be found to stall: every block that is taken
\* off its list takes the mark off too.
StallersOwe == \A p \in Nodes : mapNodeState[p].fStalling => mapNodeState[p].vBlocksInFlight # <<>>

\* A node is never asked for more than MAX_BLOCKS_IN_TRANSIT_PER_PEER blocks at a
\* time, whichever of the two requests puts them in flight.
TransitBounded == \A p \in Nodes : Len(mapNodeState[p].vBlocksInFlight) <= MAX_BLOCKS_IN_TRANSIT_PER_PEER

\* Whatever the node knows a responsive peer to have, it has something as good
\* eventually, even when the blocks were first asked of a peer that never answers.
CatchesUp ==
  \A p \in ResponsivePeer :
    []<>(p \in Nodes => \A b \in headers : mapNodeState[p].pindexBestKnownBlock = b => nHeight[tip] >= nHeight[b])
=============================================================================
