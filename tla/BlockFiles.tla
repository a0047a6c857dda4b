----------------------------- MODULE BlockFiles -----------------------------
(***************************************************************************)
(* The files of blocks (blk) and of undo data (rev), the positions in them *)
(* that the block index keeps, and what FlushStateToDisk writes in which   *)
(* order; crashes of the program and failures of the power at any point.   *)
(*                                                                         *)
(* A file is a function from offsets to the block whose data, or undo      *)
(* data, is there.  What the program writes is in the page cache (blk,     *)
(* rev); FileCommit brings it to the disk (blkDisk, revDisk).  A block is  *)
(* BlockSize[b] long and its undo data one unit.  Only blocks that pass    *)
(* all checks occur; which of them is connected is ChainState's business.  *)
(***************************************************************************)
EXTENDS Integers, FiniteSets

CONSTANTS
  Block, Genesis,
  pprev,               \* the predecessor of each block but Genesis
  Chain,               \* Chain[b]: b and all its ancestors
  BlockSize,
  MAX_BLOCKFILE_SIZE,
  MaxFile,             \* bound: the last file
  MaxOffset,           \* bound: the last offset of a file
  MaxCrash, MaxPower,  \* bounds: crashes, failures of the power
  MaxFull,             \* bound: times the disk has no room
  None

ASSUME FilesAssumption ==
  /\ Genesis \in Block /\ pprev \in [Block \ {Genesis} -> Block]
  /\ Chain \in [Block -> SUBSET Block] /\ Chain[Genesis] = {Genesis}
  /\ \A b \in Block \ {Genesis} : Chain[b] = Chain[pprev[b]] \cup {b}
  /\ BlockSize \in [Block -> Nat \ {0}] /\ BlockSize[Genesis] < MAX_BLOCKFILE_SIZE
  /\ MAX_BLOCKFILE_SIZE \in Nat /\ MaxFile \in Nat /\ MaxOffset \in Nat
  /\ MaxCrash \in Nat /\ MaxPower \in Nat /\ MaxFull \in Nat
  /\ MAX_BLOCKFILE_SIZE <= MaxOffset + 1
  /\ None \notin Block \cup Nat

VARIABLES
  index,               \* of the blocks that are stored: file, position, undo position
  vinfoBlockFile,      \* nSize and nUndoSize of each file
  nLastBlockFile,
  setDirtyFileInfo, setDirtyBlockIndex,
  tip,                 \* the best block of pcoinsTip
  blk, rev,            \* the files as the program reads them
  blkDisk, revDisk,    \* what of them is committed
  db,                  \* the block database: file infos, last file, index
  best,                \* the best block of the coin database
  bestPast,            \* what a failure of the power may make of it
  nCrash, nPower, nFull

memVars == <<index, vinfoBlockFile, nLastBlockFile, setDirtyFileInfo, setDirtyBlockIndex, tip>>
diskVars == <<blkDisk, revDisk, db, best, bestPast>>
countVars == <<nCrash, nPower, nFull>>
vars == <<memVars, blk, rev, diskVars, countVars>>

File == 0 .. MaxFile
Offset == 0 .. MaxOffset
Contents == [File -> [Offset -> Block \cup {None}]]
Info == [nSize : 0 .. MaxOffset + 1, nUndoSize : 0 .. MaxOffset + 1]
Pos == [nFile : File, nDataPos : Offset, nUndoPos : Offset \cup {None}]

Range(pos, n) == pos .. pos + n - 1
Put(contents, f, units, b) == [contents EXCEPT ![f] = [o \in Offset |-> IF o \in units THEN b ELSE @[o]]]
DataAt(contents, i, b) == \A o \in Range(i[b].nDataPos, BlockSize[b]) : contents[i[b].nFile][o] = b
UndoAt(contents, i, b) == i[b].nUndoPos # None /\ contents[i[b].nFile][i[b].nUndoPos] = b

\* InitBlockIndex has stored, connected and flushed Genesis.
Init ==
  /\ index = [b \in {Genesis} |-> [nFile |-> 0, nDataPos |-> 0, nUndoPos |-> None]]
  /\ vinfoBlockFile = [f \in File |-> [nSize |-> IF f = 0 THEN BlockSize[Genesis] ELSE 0, nUndoSize |-> 0]]
  /\ nLastBlockFile = 0 /\ setDirtyFileInfo = {} /\ setDirtyBlockIndex = {}
  /\ tip = Genesis /\ best = Genesis /\ bestPast = {Genesis}
  /\ rev = [f \in File |-> [o \in Offset |-> None]]
  /\ blk = Put(rev, 0, Range(0, BlockSize[Genesis]), Genesis)
  /\ blkDisk = blk /\ revDisk = rev
  /\ db = [files |-> vinfoBlockFile, last |-> 0, index |-> index]
  /\ nCrash = 0 /\ nPower = 0 /\ nFull = 0

-----------------------------------------------------------------------------
\* A file that is left is cut to its size and committed.
Committed(disk, cache, size) ==
  [disk EXCEPT ![nLastBlockFile] = [o \in Offset |-> IF o < size THEN cache[nLastBlockFile][o] ELSE None]]

\* FlushBlockFile, with fFinalize or without
FlushBlockFile(fFinalize) ==
  LET info == vinfoBlockFile[nLastBlockFile]
  IN /\ blkDisk' = IF fFinalize THEN Committed(blkDisk, blk, info.nSize)
                   ELSE [blkDisk EXCEPT ![nLastBlockFile] = blk[nLastBlockFile]]
     /\ revDisk' = IF fFinalize THEN Committed(revDisk, rev, info.nUndoSize)
                   ELSE [revDisk EXCEPT ![nLastBlockFile] = rev[nLastBlockFile]]

Full(b) == vinfoBlockFile[nLastBlockFile].nSize + BlockSize[b] >= MAX_BLOCKFILE_SIZE

\* f is where the search for room for block b ends; the next file always has room,
\* unless a restart forgot that it was the last.
IsBlockFile(b, f) ==
  /\ vinfoBlockFile[f].nSize + BlockSize[b] < MAX_BLOCKFILE_SIZE
  /\ \A g \in nLastBlockFile .. f - 1 : vinfoBlockFile[g].nSize + BlockSize[b] >= MAX_BLOCKFILE_SIZE

\* The file for block b.
BlockFile(b) == CHOOSE f \in nLastBlockFile .. MaxFile : IsBlockFile(b, f)

\* FindBlockPos: the position is taken whether or not the disk has room.
FindBlockPos(b) ==
  /\ \E f \in nLastBlockFile .. MaxFile : IsBlockFile(b, f)
  /\ IF Full(b) THEN FlushBlockFile(TRUE) ELSE UNCHANGED <<blkDisk, revDisk>>
  /\ nLastBlockFile' = BlockFile(b)
  /\ vinfoBlockFile' = [vinfoBlockFile EXCEPT ![BlockFile(b)].nSize = @ + BlockSize[b]]

\* AcceptBlock from the position on: WriteBlockToDisk and the index entry.
AcceptBlock(b) ==
  /\ b \notin DOMAIN index
  /\ FindBlockPos(b)
  /\ setDirtyFileInfo' = setDirtyFileInfo \cup {BlockFile(b)}
  /\ LET f == BlockFile(b)
         pos == vinfoBlockFile[f].nSize
         cut == IF Full(b) THEN [blk EXCEPT ![nLastBlockFile] = blkDisk'[nLastBlockFile]] ELSE blk
     IN /\ blk' = Put(cut, f, Range(pos, BlockSize[b]), b)
        /\ index' = [x \in DOMAIN index \cup {b} |->
                       IF x = b THEN [nFile |-> f, nDataPos |-> pos, nUndoPos |-> None] ELSE index[x]]
  /\ rev' = IF Full(b) THEN [rev EXCEPT ![nLastBlockFile] = revDisk'[nLastBlockFile]] ELSE rev
  /\ setDirtyBlockIndex' = setDirtyBlockIndex \cup {b}
  /\ UNCHANGED <<tip, db, best, bestPast, countVars>>

\* AcceptBlock when there is no room on the disk.
AcceptBlockFails(b) ==
  /\ nFull < MaxFull /\ nFull' = nFull + 1
  /\ b \notin DOMAIN index
  /\ FindBlockPos(b)
  /\ blk' = IF Full(b) THEN [blk EXCEPT ![nLastBlockFile] = blkDisk'[nLastBlockFile]] ELSE blk
  /\ rev' = IF Full(b) THEN [rev EXCEPT ![nLastBlockFile] = revDisk'[nLastBlockFile]] ELSE rev
  /\ UNCHANGED <<index, setDirtyFileInfo, setDirtyBlockIndex, tip, db, best, bestPast, nCrash, nPower>>

\* Mutant of FindUndoPos: the size is that of the block data.
FindUndoPosData(f) ==
  /\ vinfoBlockFile' = [vinfoBlockFile EXCEPT ![f].nSize = @ + 1]
  /\ setDirtyFileInfo' = setDirtyFileInfo \cup {f}

\* FindUndoPos
FindUndoPos(f) ==
  /\ vinfoBlockFile' = [vinfoBlockFile EXCEPT ![f].nUndoSize = @ + 1]
  /\ setDirtyFileInfo' = setDirtyFileInfo \cup {f}

\* ConnectTip: the undo data is written once, in the file of the block's number.
ConnectTip(b) ==
  /\ b \in DOMAIN index /\ b # Genesis /\ pprev[b] = tip
  /\ DataAt(blk, index, b)
  /\ tip' = b
  /\ \/ /\ index[b].nUndoPos # None
        /\ UNCHANGED <<index, vinfoBlockFile, setDirtyFileInfo, setDirtyBlockIndex, rev>>
     \/ LET f == index[b].nFile
            pos == vinfoBlockFile[f].nUndoSize
        IN /\ index[b].nUndoPos = None /\ pos \in Offset
           /\ FindUndoPos(f)
           /\ rev' = Put(rev, f, {pos}, b)
           /\ index' = [index EXCEPT ![b].nUndoPos = pos]
           /\ setDirtyBlockIndex' = setDirtyBlockIndex \cup {b}
  /\ UNCHANGED <<nLastBlockFile, blk, diskVars, countVars>>

\* ConnectTip when there is no room for the undo data.
ConnectTipFails(b) ==
  /\ nFull < MaxFull /\ nFull' = nFull + 1
  /\ b \in DOMAIN index /\ b # Genesis /\ pprev[b] = tip
  /\ index[b].nUndoPos = None /\ vinfoBlockFile[index[b].nFile].nUndoSize \in Offset
  /\ FindUndoPos(index[b].nFile)
  /\ UNCHANGED <<index, nLastBlockFile, setDirtyBlockIndex, tip, blk, rev, diskVars, nCrash, nPower>>

\* DisconnectTip: needs the block and its undo data.
DisconnectTip ==
  /\ tip # Genesis
  /\ DataAt(blk, index, tip) /\ UndoAt(rev, index, tip)
  /\ tip' = pprev[tip]
  /\ UNCHANGED <<index, vinfoBlockFile, nLastBlockFile, setDirtyFileInfo, setDirtyBlockIndex,
                 blk, rev, diskVars, countVars>>

-----------------------------------------------------------------------------
\* Mutant of Rank: the coins are written before the block index.
RankCoinsFirst(item) ==
  CASE item[1] = "file" -> item[2] [] item[1] = "coins" -> MaxFile + 1
    [] item[1] = "last" -> MaxFile + 2 [] item[1] = "index" -> MaxFile + 3

\* Mutant of Rank: the block index is written before the infos of the files.
RankIndexFirst(item) ==
  CASE item[1] = "index" -> -1 [] item[1] = "file" -> item[2]
    [] item[1] = "last" -> MaxFile + 1 [] item[1] = "coins" -> MaxFile + 2

\* The order of the writes of FlushStateToDisk.
Rank(item) ==
  CASE item[1] = "file" -> item[2] [] item[1] = "last" -> MaxFile + 1
    [] item[1] = "index" -> MaxFile + 2 [] item[1] = "coins" -> MaxFile + 3

\* The writes that are due.
Items ==
  UNION {{"file"} \X setDirtyFileInfo, {"index"} \X setDirtyBlockIndex, {<<"coins", 0>>},
         IF setDirtyFileInfo = {} THEN {} ELSE {<<"last", 0>>}}

\* The writes that are done when FlushStateToDisk stops somewhere.
Prefixes == {done \in SUBSET Items : \A i \in done, j \in Items : Rank(j) < Rank(i) => j \in done}

\* The databases after these writes.
DbAfter(done) ==
  [files |-> [f \in File |-> IF <<"file", f>> \in done THEN vinfoBlockFile[f] ELSE db.files[f]],
   last |-> IF <<"last", 0>> \in done THEN nLastBlockFile ELSE db.last,
   index |-> [b \in DOMAIN db.index \cup {x \in setDirtyBlockIndex : <<"index", x>> \in done} |->
                IF <<"index", b>> \in done THEN index[b] ELSE db.index[b]]]
BestAfter(done) == IF <<"coins", 0>> \in done THEN tip ELSE best

\* FlushStateToDisk.  The block database is synced; the coin database is not.
FlushStateToDisk ==
  /\ FlushBlockFile(FALSE)
  /\ db' = DbAfter(Items)
  /\ best' = BestAfter(Items) /\ bestPast' = bestPast \cup {best'}
  /\ setDirtyFileInfo' = {} /\ setDirtyBlockIndex' = {}
  /\ UNCHANGED <<index, vinfoBlockFile, nLastBlockFile, tip, blk, rev, countVars>>

\* LoadBlockIndexDB
LoadBlockIndexDB ==
  /\ index' = db'.index /\ vinfoBlockFile' = db'.files /\ nLastBlockFile' = db'.last
  /\ setDirtyFileInfo' = {} /\ setDirtyBlockIndex' = {}
  /\ tip' = best'

\* The program ends outside of FlushStateToDisk and is started again.
Crash ==
  /\ nCrash < MaxCrash /\ nCrash' = nCrash + 1
  /\ UNCHANGED <<blk, rev, blkDisk, revDisk, db, best, nPower, nFull>>
  /\ bestPast' = {best}
  /\ LoadBlockIndexDB

\* The program ends within FlushStateToDisk, or a database refuses a write.
CrashInFlush ==
  /\ nCrash < MaxCrash /\ nCrash' = nCrash + 1
  /\ FlushBlockFile(FALSE)
  /\ \E done \in Prefixes : db' = DbAfter(done) /\ best' = BestAfter(done)
  /\ bestPast' = {best'}
  /\ LoadBlockIndexDB
  /\ UNCHANGED <<blk, rev, nPower, nFull>>

\* What may be left of a file: each unit as committed or as written.
Survivors(disk, cache) ==
  LET open == {p \in File \X Offset : cache[p[1]][p[2]] # disk[p[1]][p[2]]}
  IN {[f \in File |-> [o \in Offset |-> IF <<f, o>> \in S THEN cache[f][o] ELSE disk[f][o]]] :
        S \in SUBSET open}

\* The power fails: what was not committed is lost in part.
PowerFails ==
  /\ nPower < MaxPower /\ nPower' = nPower + 1
  /\ blkDisk' \in Survivors(blkDisk, blk) /\ blk' = blkDisk'
  /\ revDisk' \in Survivors(revDisk, rev) /\ rev' = revDisk'
  /\ UNCHANGED <<db, nCrash, nFull>>
  /\ best' \in bestPast /\ bestPast' = {best'}
  /\ LoadBlockIndexDB

Next ==
  \/ \E b \in Block : AcceptBlock(b) \/ AcceptBlockFails(b) \/ ConnectTip(b) \/ ConnectTipFails(b)
  \/ DisconnectTip \/ FlushStateToDisk \/ Crash \/ CrashInFlush \/ PowerFails

Spec == Init /\ [][Next]_vars

-----------------------------------------------------------------------------
\* The state has the types the code gives it.
TypeOK ==
  /\ \A i \in {index, db.index} : DOMAIN i \subseteq Block /\ \A b \in DOMAIN i : i[b] \in Pos
  /\ \A v \in {vinfoBlockFile, db.files} : v \in [File -> Info]
  /\ nLastBlockFile \in File /\ db.last \in File
  /\ setDirtyFileInfo \subseteq File /\ setDirtyBlockIndex \subseteq DOMAIN index
  /\ {tip, best} \cup bestPast \subseteq Block
  /\ {blk, rev, blkDisk, revDisk} \subseteq Contents

\* Every block the index on disk says is stored can be read at its position, by the
\* program and after a failure of the power: it was committed before the index was
\* written, and nothing was written over it since, whatever crashes and restarts
\* there were (FindBlockPos, FlushStateToDisk).
DataKept == \A b \in DOMAIN db.index : DataAt(blk, db.index, b) /\ DataAt(blkDisk, db.index, b)

\* The best block of the coins on disk and its ancestors are in the index on disk,
\* with an undo position: LoadBlockIndexDB finds the tip and its chain whenever the
\* program stopped ("finally flush the chainstate, which may refer to block index
\* entries").
CoinsCovered ==
  \A c \in bestPast \cup {best} : \A b \in Chain[c] :
    b \in DOMAIN db.index /\ (b # Genesis => db.index[b].nUndoPos # None)

\* The undo data of every block of the active chain can be read, as long as the
\* power did not fail: a reorganisation is possible after any crash.
UndoReadable == nPower = 0 => \A b \in Chain[tip] \ {Genesis} : UndoAt(rev, index, b)

\* "First make sure all block and undo data is flushed to disk": what the coins on
\* disk need to be undone is committed.
UndoDurable == \A b \in Chain[best] \ {Genesis} : UndoAt(revDisk, db.index, b)

=============================================================================
