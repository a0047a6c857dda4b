# Reddcoin Core 3.10: a TLA+ model of the node

This directory specifies the validation engine of the node (`src/src/`) in TLA+,
model-checks it on small instances with TLC and proves its main invariants for
every instance with TLAPS. `PROJECT.json` lists the components, the runs, the
source lines behind every definition, the hazards and the theorems.

## The system

The node is one process. Its threads (the message handler, the socket thread,
RPC workers, the staker, script checkers) share the chain state under `cs_main`.

| part | state | operations | what makes it hard |
|---|---|---|---|
| block index and active chain (`main.cpp`, `chain.h`) | `mapBlockIndex` with status bits, `setBlockIndexCandidates`, `mapBlocksUnlinked`, `chainActive` | headers and blocks accepted, `ActivateBestChain`, `invalidateblock`, `reconsiderblock` | `cs_main` is released between steps, blocks arrive in any order, connecting can fail half way through a reorganisation |
| script check queue (`checkqueue.h`) | queue, counters, two condition variables | `Add`, `Loop`, `Wait` | several threads, spurious wake-ups, interruption at shutdown |
| block download (`main.cpp`) | `CNodeState` per peer, `mapBlocksInFlight`, counters | `SendMessages`, the `inv`, `headers` and `block` messages, `FinalizeNode` | silent peers, late and unasked answers, reorganised peers, disconnection at any point |
| coin views (`coins.cpp`, `txdb.cpp`) | database, `pcoinsTip`, the view of one block; DIRTY and FRESH flags | fetch, modify, flush, drop | flags used long after they are set, refused batches, restarts |
| connecting and undoing blocks (`main.cpp`, `undo.h`) | unspent outputs, undo data, `mapStakeSpent` | `ConnectBlock`, `DisconnectBlock`, `FlushStateToDisk`, `verifychain` | metadata that lives only in undo data, crashes between two writes |
| block files (`main.cpp`, `txdb.cpp`) | `blk` and `rev` files, `vinfoBlockFile`, the two sets of dirty entries, the block tree database | `FindBlockPos`, `FindUndoPos`, `FlushStateToDisk`, `LoadBlockIndexDB` | many writes per flush; a crash between any two, a power failure that loses what was not committed, a full disk |
| memory pool and orphans (`main.cpp`, `txmempool.cpp`) | `mapTx`, `mapNextTx`, `mapOrphanTransactions`, `mapOrphanTransactionsByPrev` | `AcceptToMemoryPool`, `removeForBlock`, `removeCoinbaseSpends`, the `tx` message | reorganisations move transactions in and out against changing coins; orphans come in any order and are evicted at random |
| block assembly (`miner.cpp`) | | `CreateNewBlock` | an order by priority and then by fee that must respect dependencies |
| address manager (`addrman.cpp`, `addrman.h`) | `mapInfo`, `mapAddr`, `vRandom`, `vvTried`, `vvNew`, counters | `Add_`, `Good_`, `GetAddr_`, `peers.dat` | five structures that name each other by id and position |
| stake kernel, network, wallet, staker | | | not modelled, see below |

They interact as follows. The download brings headers and blocks to the block
index. The block index decides which block is connected or undone next. Connecting
runs on a view over `pcoinsTip`, sends its scripts to the check queue, and takes
transactions out of the memory pool; disconnecting puts them back. The flush
writes block files, block index and coins, in that order. `CreateNewBlock` reads
pool and coins.

What should be true of them:

- the node settles on the valid chain with most work, whatever the order of
  blocks, threads and commands, or says that it failed, and the active chain never
  holds a block that breaks a rule;
- a block is accepted only if all its checks ran and passed, and the check queue
  always returns;
- a block is not requested twice at a time, is never forgotten, and the download
  does not depend on a peer that does not answer;
- the three layers of coins behave as plain maps, and the coins are those of the
  best block, in memory and on disk, through reorganisations and crashes;
- whether a block is accepted depends on its chain alone;
- a block that the index on disk refers to can be read, whenever the program or
  the power stopped, and no file position is given out twice;
- the pool holds exactly the loose transactions that are valid on the tip, through
  every reorganisation, and the orphan maps stay bounded and agree;
- no tried address is ever dropped, and a restart loses no address.

## Modules

| module | models | shown |
|---|---|---|
| `ChainState` | block index, candidates, activation, operator commands | invariants and convergence by TLC; the invariants by TLAPS (`ChainStateProofs`) |
| `CheckQueue` | `CCheckQueue`, `CCheckQueueControl` | invariants; implements `BlockCheck` (TLC; the invariants and the safety of the refinement by TLAPS, `CheckQueueProofs`) |
| `BlockCheck` | what `ConnectBlock` relies on: one verdict, the conjunction of all checks, always given | abstract |
| `BlockDownload` | headers synchronisation, blocks in flight, window, stalling | invariants and progress by TLC; the invariants by TLAPS (`BlockDownloadProofs`) |
| `CoinsCache` | `CCoinsViewDB`, `pcoinsTip`, the view of a block | invariants; implements `CoinsMap` (TLC and TLAPS, `CoinsCacheProofs`) |
| `CoinsMap` | three plain maps: committed, current, draft | abstract |
| `BlockUndo` | `UpdateCoins`, `ConnectBlock`, `DisconnectBlock`, undo data, flush, crash | invariants by TLC and TLAPS (`BlockUndoSteps`, `BlockUndoProofs`) |
| `BlockFiles` | `blk` and `rev` files, file information, the block tree database, each write of a flush, restart | invariants by TLC and TLAPS (`BlockFilesProofs`) |
| `TxPool` | memory pool, orphan transactions, `CreateNewBlock` | invariants and action properties by TLC and TLAPS (`TxPoolProofs`) |
| `AddrMan` | the tables of `CAddrMan` and `peers.dat` | invariants and action properties by TLC |

The `MC*` modules give the block trees, transactions, tables and symmetry for TLC;
`CheckQueue` needs none.

**Composition.** The modules meet at narrow interfaces, each assumed on one side and
shown on the other. `ChainState` treats connecting as a step with one verdict per
block: `CheckQueue` shows that the scripts give one, and `VerdictFromChain` of
`BlockUndo` that the coins do. `BlockUndo` uses plain maps of coins, which is
the theorem `CachesRefine`. `BlockUndo` writes block index and coins in two steps;
`BlockFiles` takes them apart, and `CoinsCovered` and `UndoReadable` are what
`BlockUndo` assumes of a restart. `BlockDownload` takes a linked block to be
connectable, which is `LinkSound` of `ChainState`. `TxPool` takes the coins of a
block to be a function of the block (`BestIsState`), and moves the tip one block at
a time as `ChainState` does.

### ChainState

The tree of blocks that may arrive is a constant; each status bit is a set of
blocks. `Address` orders index entries as their memory addresses do, the last
criterion of `CBlockIndexWorkComparator`. A thread in `ActivateBestChain` has a
program counter: it chooses a chain (`FindMostWorkChain`, one discarded candidate
per step), works on it holding `cs_main` (`DisconnectTip`, `ConnectTip`,
`ConnectTipInvalid`), and releases `cs_main` (`CheckLoop`). `ProcessNewBlock`
is `AcceptBlock` with `ReceivedBlockTransactions` and its queue of waiting
descendants; the queue may be left in the middle (`ReceivedUnverified`), at a block
whose stake modifier is refused (`BadModifierBlock`) or because the kernel of the
first block cannot be verified. A stake kernel is a block that has to be on the active
chain when the proof hash is computed.

A failure of the disk makes `ActivateBestChain` return where it is (`FailStep`) and
`InvalidateBlock` return with some blocks of the active chain marked
(`FailInvalidate`). Some failures request a shutdown and some do not; in both cases
the other threads go on, so the model goes on too. Two history variables say what has
happened: `gaveUp`, that a call failed and none has got through since, and `cutShort`,
the blocks marked by an `InvalidateBlock` that could not disconnect them. Commands and
failures together are bounded by `MaxEvent`. `LinksExact` is stated until the first
operator command, because a block stored while its parent is marked failed is not
entered in `mapBlocksUnlinked`.

### CheckQueue

A critical section is one step. A thread that returns from `cond.wait` first
takes the mutex and decrements `nIdle`, as a step of its own, because
`CCheckQueueControl` reads the counters without the mutex. At most `MaxBad` of
the checks fail; the master may be interrupted while it waits.

### BlockDownload

Every handler runs under `cs_main` and is one step. Peers may be reorganised,
send blocks that fail `CheckBlock`, keep silent, or go. Time is abstracted: the
timeouts of `SendMessages` may find that they have expired, except for
responsive peers, and comparisons of block times with the clock may give either
answer of `Recent`.

### CoinsCache

Each cache entry is `[coins, dirty, fresh]`. Reading through a cache pulls an
entry in; `ModifyCoins` sets the flags; `FlushView` merges by the cases of
`CCoinsViewCache::BatchWrite`; `FlushTip` writes one database batch;
`FlushTipFails` is a batch that LevelDB refuses after the cache was emptied. The
refinement mapping takes what each layer answers for a transaction.

### BlockUndo

Transactions and blocks are constants. A `CCoins` is its flags, time, height and
the set of unspent positions; amounts and scripts are one set `BadBlock`.
`ConnectBlock` and `DisconnectBlock` go through the transactions in the order
of the code. `kept` are the spent entries that are still in the cache: `Clear`
does not reset `nTime`, so they keep it. A crash may come in the middle of writing
the block index (`written`). The loop that cleans `mapStakeSpent` uses an erased
iterator; the model lets it delete any non-empty part of what it should.

A flush that the database refuses has already emptied the cache, so that what the
coins answer is no longer the state of the best block. The history variable `lost`
records that this happened in memory, on disk or ever, and `BestIsState` and
`UndoClean` are stated for what has not been lost. A restart brings the memory back
to what is on disk, with one exception, which the proof brought out: when another
block is connected between the refused flush and the restart, its undo data is made
from the wrong coins, stays in the `rev` file, and is used again when the block is
connected after the restart, because `ConnectBlock` writes undo data only where there
is none (`nUndoPos`, `main.cpp:1979`). `lost` has the value `"undo"` from then on.

The trees considered (`BlockAssumption`, `EmptyAssumption`) are those `CheckBlock` and
`CheckTransaction` let through: one coinbase, in front; no input twice in a
transaction, no transaction twice in a block; an empty first output in a coinstake
and an empty coinbase in a proof-of-stake block. `Ordinary` are the blocks that repeat
no transaction of their chain and spend no empty output. The code accepts others as
well: BIP30 is enforced only for blocks that `CreateNewBlock` makes (`main.cpp:1795`),
the test that a coinbase contains its height is commented out (`main.cpp:2958`), and
an empty output can be spent like any other. Undoing such a block does not lead
back: the older copy of a repeated transaction is gone, `fCoinStake` of a coinstake
that was spent completely is not in the undo data (`main.cpp:1697`), and the coinbase of
a proof-of-stake block is passed over (`main.cpp:1653`). They are connected and undone in the
model; `lost` has the value `"odd"` from the first one on, and `BestIsState`,
`UndoClean` and `VerdictFromChain` are stated until then. The types, `UndoKept` and
`StakeSpentSound` hold whatever blocks are connected. `VerdictFromChain` is stated
apart from the timestamps of inputs, which undoing may lose for any block.

### BlockFiles

A file is a function from offsets to the block whose data is there. What the
program writes is in `blk` and `rev`; `FileCommit` copies it to `blkDisk` and
`revDisk`; a failure of the power may lose any part of what was not committed.
`FindBlockPos` commits the file it leaves. `FlushStateToDisk` is a sequence of
single writes ordered by `Rank`: file information, number of the last file, block
index entries, coins. `CrashInFlush` stops after any of them; a restart
(`LoadBlockIndexDB`) reads back what was written. Opening a LevelDB database makes
its log durable, so that after a restart `bestPast` is the best block alone; the coin
batch itself is not synced, so that a failure of the power may bring back an
earlier best block. A full disk strikes between the reservation of space and the
write (`AcceptBlockFails`, `ConnectTipFails`): the space stays reserved.

### TxPool

`ReceiveTx` is the whole `tx` message: `AcceptToMemoryPool`, the work queue over
orphans, the erasure of those that were accepted or refused, the limit on their
number. `DisconnectTip` and `ConnectTip` do to the pool what the code does, in its
order. The coins of a block are computed from its chain (`Chain`, `nHeight`), and the
loops of the handlers are recursive functions. Fee and priority decide nothing but
order and refusal, so both are choices (`FreeTx`, `Priorities`). `CreateNewBlock`
changes nothing and is an operator. The tests on block size, signature operations and
free transactions, each a `continue` in its loop, depend on amounts and scripts:
`Collect` takes the set `skip` of the transactions they pass over, and
`TemplateComplete` quantifies over every such set and every order the heap may produce.

### AddrMan

`CAddrMan` is one record and every public method one step. Times and attempts only
decide which entry is terrible, oldest or too new, so each comparison may come out
either way. The bucket hashes are constant functions. `Restart` writes `peers.dat`
and reads it back: ids and positions are new, reference counts and tried buckets
are computed again. The file was written by the same build, so that it has
`ADDRMAN_NEW_BUCKET_COUNT` buckets and the branch for another number
(`addrman.h:349`, 381) is not reached. A crash, which goes back to the file of the last
dump, is not a step: addresses learnt since are lost then, which `TriedKept` and
`RestartKeeps` do not speak of.

## Runs that pass

| run | instance | shows |
|---|---|---|
| `chain_forks` | G-A1-A2 and G-B1-B2 with B2 invalid; two threads; two commands on A1 or B1, or failures of the disk | `LinksExact`, `BestIsCandidate`, `RestsOnBest`, `Converges` |
| `chain_operator` | G-A1-A2, C2 beside A2, and G-B1-B2-B3; A2 invalid, C2 refused for its stake modifier, B3 not final, the kernel of B2 on its own branch; one thread, three commands on A1 or B1, or failures of the disk | `LinkSound`, `ActiveChainSound`, `ScriptsClosed` |
| `check_queue` | two workers, four checks of which one may fail, batches of two, one spurious wake-up, interruption | `TodoExact`, `UnusedBetween`, `Implements` (`BlockCheck`) |
| `download` | two peers, four blocks, window 1, two blocks in transit, timeouts, damaged and unasked blocks | `InFlightExact`, `NothingTwice`, `CountersExact`, `LastCommonShared`, `StallersOwe`, `TransitBounded` |
| `download_progress` | one responsive peer, one silent | `CatchesUp` |
| `coins_cache` | three transactions, two contents, two blocks | `FlagsSound`, `BatchWriteAssert`, `Implements` (`CoinsMap`) |
| `block_undo` | eight blocks in two branches, with a proof-of-stake block and one that is not `Ordinary`; crashes, and flushes refused at A2 | `BestIsState`, `UndoKept`, `UndoClean`, `VerdictFromChain`, `StakeSpentSound` |
| `block_files` | two blocks over three files; one crash, one power failure, one full disk | `DataKept`, `CoinsCovered`, `UndoReadable` |
| `tx_pool` | seven blocks in two branches, two peers, at most three orphans | `PoolConsistent`, `PoolNotInChain`, `OrphanMapsAgree`, `OrphansBounded`, `TemplateComplete`, `PoolFollowsChain`, `OrphansFollowParents` |
| `addr_man` | four routable addresses and one that is not, two sources, three new buckets of size 1, two tried buckets of size 2 | `IndexesExact`, `PlacesExact`, `BucketsBounded`, `TriedKept`, `RestartKeeps` |

In `CheckQueue`, `BlockUndo`, `TxPool` and `AddrMan` the type invariant is a conjunct
of the module's first safety invariant.

**Why the bounds are enough.** The tree of `chain_forks` has a tie and a branch
that fails at its last block, so that every branch of `FindMostWorkChain`, pruning
and re-insertion happens, and two events allow a command after a failure and the
reverse; `chain_operator` adds a sibling, a longer branch and the blocks that are
refused on arrival, and three events (`MaxEvent`). One spurious wake-up
(`MaxSpurious`) is enough for a thread to see each state it did not wait for, and
without a bound it could be woken for ever. Two workers are the
fewest for which one takes work while another wakes up late; four checks with
batches of two make batches of both sizes. A window of 1 with chains of length 2
makes stalling happen. Three transactions let one be fetched, one modified and
one absent at a time. In `block_undo`, A2 spends a coinbase completely through
a coinstake and a payment, B2 spends its own outputs, the same payment is mined
on two branches, D2 spends too early, X3 twice, T2 has a transaction older than
its input, which is noticed unless A2 was connected and undone before, and E3 repeats
the coinbase of A2 and spends both outputs of its coinstake, the empty one included.
The maturity is 1 instead of 30 and `MaxReorganizationDepth` 0 instead of 200 so that
both sides of the comparisons occur at height 3. In `block_files` a file has room for two blocks, so that a block
may be stored before the last file is begun and connected after it, and one crash
(`MaxCrash`), one failure of the power (`MaxPower`) and one full disk (`MaxFull`)
come in every order; what more of them do is covered by the proofs. In `tx_pool`
two transactions compete for an output, one needs two parents, one spends a coinbase
that a reorganisation makes immature again, one is standard only inside a block, and
more orphans may come than the limit of three. In `addr_man` new buckets of
size 1 evict at the second address, tried ones of size 2 at the third; `MaxId` 4
bounds the numbers given between two restarts.

The two download runs do not check deadlock, because a node whose
peers have all gone for good stops; nothing else may stop.

**Fairness.** `ChainState`: a thread inside `ActivateBestChain` keeps running, as
the operating system schedules it and mutexes are released. `CheckQueue`: each
thread that can proceed does. `BlockDownload`: `ThreadMessageHandler` calls
`SendMessages` for each node again and again, `ThreadSocketHandler` deletes nodes
marked for disconnection, and responsive peers answer; nothing is assumed of
silent peers. All are weak fairness of single steps. The other modules promise
nothing that must eventually happen.

## Where the code departs from its own statements

Each `V*.cfg` run checks one sentence of a comment and finds a behaviour that breaks
it. The details, with both lines, are under "findings" of `PROJECT.json`.

| run | statement | behaviour |
|---|---|---|
| `stake_template` | `miner.cpp:155`: "Collect memory pool transactions into the block" | for a block of proof of stake the timestamp limit is read from a coinbase that is not filled in yet, so that no transaction with a timestamp is collected |
| `undo_durable` | `main.cpp:2059`: "First make sure all block and undo data is flushed to disk." | undo data in the file of an earlier number is written but not committed |

Behaviours of the code that are part of the models, that the properties allow for,
and that no run singles out:

- after a reorganisation that failed half way, `cs_main` is released on a worse tip,
  with candidates that are better than it already pruned (`main.cpp:2340`), which an
  assertion of `CheckBlockIndex` does not expect; the next step finds a best one
  (`BestIsCandidate`, `Converges`);
- after an `invalidateblock` that could not disconnect a block, the node may go on with
  marked blocks in the active chain, and connect more on top of them:
  `FindMostWorkChain` looks for failed blocks only down to the active chain
  (`main.cpp:2266`), "as we know all blocks in it are valid already" (2263);
  `ActiveChainSound` says that these are the only marked ones (`cutShort`);
- a block refused in the middle of the queue of `ReceivedBlockTransactions` is linked
  and no candidate, and blocks of the queue whose turn did not come are in no list any
  more (`main.cpp:2567`);
- `reconsiderblock` of a block of which only the header is there clears its ancestors
  and adds no candidate (`main.cpp:2481`), and a sibling stays marked failed;
- the constructor of `CCheckQueueControl` reads the counters without the mutex, so
  that its assertion may see a worker that is just waking up (`checkqueue.h:183`);
- `FinalizeNode` does not lower `nQueuedValidatedHeaders` (`main.cpp:337`, against
  the comment at 156);
- undo data has no `nTime`, so that after a reorganisation the check of timestamps
  at `main.cpp:1555` may pass where it failed before; `VerdictFromChain` is stated
  apart from timestamps for this reason;
- a block that repeats a transaction of its chain or spends an empty output is accepted
  and cannot be undone exactly (`Ordinary`, above);
- `-maxreorg` is tested when a header arrives and not when the chain is reorganised;
- `DisconnectBlock` passes over the empty coinbase of a proof-of-stake block, whose
  entry stays in the coins; `mapStakeSpent` is empty after a restart;
- the pool keeps transactions that a disconnected block made non-final, although
  `txmempool.h:78` speaks of transactions "that may be included in the next block";
- at height `LastProofOfWorkHeight` old-version transactions of a disconnected block
  are refused;
- orphans are tried again when a parent arrives in a `tx` message, not when it comes
  in a block or by RPC; an orphan that still misses another parent is erased with the
  ones that were tried (`main.cpp:4344`);
- a failure in `FindBlockPos` leaves the space it reserved unused and the file
  information not marked as dirty;
- `SelectTried` notes the place an entry had before it was swapped to the front
  (`addrman.cpp:147`), so that the entry it returns is not always the oldest it saw.

## Proofs

The theorems hold for every choice of the constants that satisfies the named `ASSUME`
of the module (trees are trees, limits are natural numbers); TLC evaluates the same
assumptions on every instance.

**`ChainStateProofs`**: `TypeCorrect`, `LinksSound`, `ScriptsAreClosed` and
`ActiveChainIsSound`, for every finite tree, any number of threads and any bounds.
The active chain is not inductive by itself. A thread that holds `cs_main` between
two steps connects the blocks of the chain it chose earlier, so the invariant
needs `StepInv`: only the holder of `cs_main` is in the step, its target is linked,
and the only failed blocks below the target are those of `cutShort`. `LinkSound` gives
the data of these blocks, `ActiveScripts` that everything connected was verified. The
invariant is `TypeOK /\ LinkSound /\ StepInv /\ ActiveScripts /\ ScriptsClosed`
and that an active block is failed only if it is in `cutShort`.

The same module proves `BestIsAlwaysCandidate`, `AlwaysRestsOnBest` and
`LinksAreExact`. The first two say that until the operator intervenes no eligible
block better than the tip is forgotten, whatever the disk does, and that a node with
no thread in `ActivateBestChain` is on the best chain unless a call has failed and none
has got through since (`gaveUp`). The difficulty is pruning:
`PruneBlockIndexCandidates` removes blocks that a later failure might make best
again. `Kept` is the reason that it does not matter: a pruned block was beaten by a
candidate that has been the tip, and a block that passed `ConnectBlock` once never
fails. `StepBest` says that nothing beats the chain a thread works towards, and
`Going` that while a better block waits some thread is on its way to look. Three
hypotheses are stated in the theorems because the code needs them: no command was
given (a marked block is forgotten on purpose), no block is refused in the queue
(`KernelsVerify`; a block whose kernel is on a side branch is linked and no candidate),
and, for `LinksAreExact`, no block is refused for a non-final
transaction.

**`BlockDownloadProofs`**: `TypeCorrect` and the six invariants
of the run `download`, for any tree, peers and limits. The invariant adds what the
node knows of each peer: everything learnt from a peer (best known block, last
unknown block, last common block, announcements) belongs to a chain the peer has had
(`Known`). Without that, `LastCommonShared` is lost when a peer is reorganised.

**`CoinsCacheProofs`**: `TypeCorrect`, `FlagsAreSound`, `AssertHolds` and
`CachesRefine`, for any set of transactions and contents: the stack of caches
implements `CoinsMap`. `FlagsSound` says what a flag promises about the layer below.
`Pulled` says that an entry of the view that `pcoinsTip` lacks is fresh, which is the
reason the comment in `BatchWrite` gives for its assertion. Each lemma shows at the same
time that the invariant is preserved and what every layer answers afterwards, which
is all the refinement needs.

**`BlockFilesProofs`**: `TypeCorrect`, `StoredBlocksKept`,
`CoinsAreCovered` and `UndoIsReadable`, for any tree, sizes, and numbers of crashes,
power failures and full disks (`UndoReadable` until the power first fails). `DataKept` alone says nothing of the next write. The
invariant adds that the index in memory extends the one on disk and what differs is
dirty together with its file (`IndexInv`), that the sizes on disk are at most those
in memory and both cover the positions of their index (`SizeInv`), and that every
file but the last has been committed (`FileInv`). The order of the writes is used
where a crash leaves a part of them: sizes are on disk before the positions they
cover, and these before the coins.

**`TxPoolProofs`**: all seven properties of the run `tx_pool`
(`PoolAlwaysConsistent`, `PoolNeverInChain`, `PoolAlwaysFollowsChain`,
`OrphansAlwaysFollowParents`, `OrphanMapsAlwaysAgree`, `OrphansAlwaysBounded`,
`TemplateAlwaysComplete`), for any tree of blocks whose transactions are valid on it
(`ChainAssumption`), any transactions, peers and limits. The invariant is
`tip \in Block /\ Consistent(Pool, tip) /\ OrphanInv`: the index of spent outputs is
exact, every input is an output of the pool or a mature coin of the chain, nothing is
in pool and chain at once, and the two maps of orphans agree and are bounded. Each
handler is a loop. A loop is a recursive function, which is shown to run through a
sequence of states whose steps have a stated effect, and what the loop keeps is carried
along by induction on the number of steps. `PoolFollowsChain` says more than
consistency: the pool after a step of the tip is the largest set that the new chain
supports, so for `removeCoinbaseSpends` and `removeForBlock` it is also shown that
nothing is removed without need.

**`CheckQueueProofs`**: `TodoIsExact`, `UnusedBetweenBlocks` and `ImplementsBlockCheck`,
for any number of workers, checks, batch sizes and spurious wake-ups: the verdict of
`Wait` is the conjunction of all checks that were added, none is run twice or left
over, and nothing of one block is left for the next. The invariant is
`TypeOK /\ Control /\ Counters /\ Distinct /\ Results`. `Control` says how the places of
the threads, the mutex and the batches go together; `Counters` that `nTotal` and
`nIdle` are the numbers of threads at certain places; `Distinct` that `nTodo` is the
number of checks in the queue and in the batches, none of which is in two places;
`Results` that a failure is never forgotten and never invented. The theorem
`ImplementsBlockCheck` is the safety part of `Implements`; that `Wait` returns is
liveness and is left to TLC.

**`BlockUndoProofs`**: the five invariants of the run `block_undo` (`BestIsAlwaysState`,
`UndoIsKept`, `UndoIsAlwaysClean`, `VerdictIsFromChain`, `StakeSpentIsSound`), for every
tree of blocks that satisfies the assumptions, every maturity and every pattern of
refused flushes and restarts. The loops are recursive functions, and there is no induction over
data in the prover; the first lemmas derive it where it is needed. `IntervalInduction`
follows from the well-foundedness of the natural numbers for sets, and `RunIterates`
shows that a loop is the end of a sequence of states, one per step. `State(m, C, X, H)` then says which coins `m` are left by the
transactions `C`, connected at the heights `H`, when the outputs `X` were spent. Each
step of a loop moves from one such state to the next: `SpendOne`, `CreateOne`,
`UncreateOne`, `RestoreOne`. The last uses that the undo entry of an output is
`UndoEntry`: height and kind of the transaction when it was the last unspent output,
and nothing otherwise. `ConnectPasses` and `DisconnectAll` put the steps together:
connecting a block of `Ordinary` leads from the state before it to the state after it
and leaves the undo data that the chain determines (`Exact`); undoing with that data
leads back. These lemmas are in `BlockUndoSteps`. The invariant of the system is
`TypeOK /\ Kept /\ Right /\ MemoryRight /\ DiskRight /\ Verdicts /\ StakeSpentSound`:
undo data is there for the chains of the tip, of the best block in memory and of the
one on disk; until `lost` says otherwise, all undo data is exact and its blocks are
ordinary and allowed by their chain;
the coins in memory and on disk are those of their best block; what is marked failed
is forbidden by its chain. a failed proof of `UndoClean`, confirmed by TLC on another tree, showed that
the guards of `BestIsState` and `UndoClean` needed `"undo"`.

**Only model-checked:** all liveness (`Converges`, `CatchesUp`, the liveness part of
`Implements` of `CheckQueue`), which is out of reach of the prover; the invariants of
`AddrMan` (`IndexesExact`, `PlacesExact`, `BucketsBounded`) and its action properties
`TriedKept` and `RestartKeeps`.

## Not modelled

The map covers about 3,800 lines of C++: 47% of `main.cpp`, half of `addrman.cpp`,
`checkqueue.h` and `coins.cpp`, and parts of `miner.cpp`, `txmempool.cpp`, `net.cpp`,
`txdb.cpp` and `rpcblockchain.cpp`. What is left out:

- Scripts, amounts, hashes and signatures: blocks and transactions they reject are
  constants.
- Arithmetic on wide words: stake modifier, kernel target, coin age, difficulty and
  rewards. TLC's integers have 32 bits, and a model of these formulas with small
  numbers would be another program.
- Failures inside the stake checks: `GetCoinAge` answers 0 when it cannot read a block
  (`kernel.cpp:454`), so that a failure of the disk may mark a valid block as failed.
- `-checklevel=4` at start, `-reindex`, the import of block files (`fKnown`), and the
  transaction index.
- The fee estimator, `PrioritiseTransaction`, and the amounts, sizes and signature
  operations behind the limits of a template; the threads around `CreateNewBlock`, which asks for the kind of the next
  block before it takes `cs_main` (`miner.cpp:102`).
- Times and attempts of addresses; a `peers.dat` that cannot be read, has another
  number of buckets, or is older than the last shutdown.
- `AskFor` and its `limitedmap`, which only delays requests.
- The wallet, and the other components marked `not_modelled` in `PROJECT.json`, with
  the reason.

## Plan

1. Wallet: coin states through reorganisations, key pool, encryption; the staker
   against a moving tip.
2. `AskFor` with `mapAlreadyAskedFor`; misbehaviour and bans.
3. An abstract "last flushed state" that `BlockFiles` and `BlockUndo` both implement.
4. Proofs: the invariants of `AddrMan`.
