-------------------------- MODULE BlockFilesProofs --------------------------
(***************************************************************************)
(* For any tree of blocks of any size, and any number of files, crashes    *)
(* and failures of the power: stored blocks stay readable, the coins on    *)
(* disk never point past the block index on disk, and undo data survives   *)
(* every crash of the program.                                             *)
(***************************************************************************)
EXTENDS BlockFiles, TLAPS

\* The positions of index i lie within the files as their infos v describe them.
Within(v, i) ==
  \A b \in DOMAIN i :
    /\ i[b].nDataPos + BlockSize[b] <= v[i[b].nFile].nSize
    /\ i[b].nUndoPos # None => i[b].nUndoPos < v[i[b].nFile].nUndoSize

\* Every block of index i is at its position.
AllData(contents, i) == \A b \in DOMAIN i : DataAt(contents, i, b)

\* Undo data is at every position that index i has for it.
AllUndo(contents, i) == \A b \in DOMAIN i : i[b].nUndoPos # None => UndoAt(contents, i, b)

\* The chain of c is in index i, with undo positions.
Covered(c, i) ==
  \A b \in Chain[c] : b \in DOMAIN i /\ (b # Genesis => i[b].nUndoPos # None)

\* The index in memory extends the one on disk; what differs will be written, the
\* info of its file first.
IndexInv ==
  /\ \A b \in DOMAIN db.index :
       /\ b \in DOMAIN index
       /\ index[b].nFile = db.index[b].nFile /\ index[b].nDataPos = db.index[b].nDataPos
       /\ db.index[b].nUndoPos # None => index[b].nUndoPos = db.index[b].nUndoPos
  /\ \A b \in DOMAIN index \ setDirtyBlockIndex : b \in DOMAIN db.index /\ db.index[b] = index[b]
  /\ \A b \in setDirtyBlockIndex : index[b].nFile \in setDirtyFileInfo

\* The sizes in memory are at least those on disk, and both cover the index that
\* goes with them.
SizeInv ==
  /\ \A f \in File : /\ db.files[f].nSize <= vinfoBlockFile[f].nSize
                     /\ db.files[f].nUndoSize <= vinfoBlockFile[f].nUndoSize
  /\ Within(vinfoBlockFile, index)
  /\ Within(db.files, db.index)

\* What the files hold; all but the last one have been committed.
FileInv ==
  /\ AllData(blk, index)
  /\ AllData(blkDisk, db.index)
  /\ \A b \in DOMAIN index : index[b].nFile # nLastBlockFile => DataAt(blkDisk, index, b)
  /\ nPower = 0 => AllUndo(rev, index)

\* The inductive invariant.
IInv ==
  /\ TypeOK /\ IndexInv /\ SizeInv /\ FileInv
  /\ Covered(tip, index) /\ CoinsCovered
  /\ nPower \in Nat

-----------------------------------------------------------------------------
\* The search of FindBlockPos stays at the last file exactly if it is not full.
LEMMA BlockFileFacts ==
  ASSUME TypeOK, NEW b \in Block, \E f \in nLastBlockFile .. MaxFile : IsBlockFile(b, f)
  PROVE  /\ BlockFile(b) \in File
         /\ vinfoBlockFile[BlockFile(b)].nSize + BlockSize[b] < MAX_BLOCKFILE_SIZE
         /\ Full(b) <=> BlockFile(b) # nLastBlockFile
  <1>1. BlockFile(b) \in nLastBlockFile .. MaxFile /\ IsBlockFile(b, BlockFile(b))
    BY Zenon DEF BlockFile
  <1>2. nLastBlockFile \in Nat /\ MaxFile \in Nat /\ nLastBlockFile <= MaxFile
    BY FilesAssumption DEF TypeOK, File
  <1>3. BlockFile(b) \in File
    BY <1>1, <1>2 DEF File
  <1>4. ASSUME BlockFile(b) # nLastBlockFile PROVE Full(b)
    <2>1. nLastBlockFile \in nLastBlockFile .. BlockFile(b) - 1
      BY <1>1, <1>2, <1>4
    <2>2. QED
      BY <1>1, <2>1, Zenon DEF IsBlockFile, Full
  <1>5. ASSUME BlockFile(b) = nLastBlockFile PROVE ~Full(b)
    <2>1. vinfoBlockFile[nLastBlockFile].nSize \in Nat /\ BlockSize[b] \in Nat
      BY FilesAssumption DEF TypeOK, Info
    <2>2. QED
      BY <1>1, <1>5, <2>1, FilesAssumption DEF IsBlockFile, Full
  <1>6. QED
    BY <1>1, <1>3, <1>4, <1>5, Zenon DEF IsBlockFile

\* What a write changes.
LEMMA PutFacts ==
  ASSUME NEW c \in Contents, NEW f \in File, NEW units, NEW b \in Block
  PROVE  /\ Put(c, f, units, b) \in Contents
         /\ \A g \in File \ {f} : Put(c, f, units, b)[g] = c[g]
         /\ \A o \in Offset : Put(c, f, units, b)[f][o] = IF o \in units THEN b ELSE c[f][o]
  BY Zenon DEF Put, Contents

\* The first state satisfies the invariant.
LEMMA InitIInv == Init => IInv
  <1> SUFFICES ASSUME Init PROVE IInv
    BY Zenon
  <1> USE FilesAssumption
  <1>1. BlockSize[Genesis] \in Nat \ {0} /\ BlockSize[Genesis] <= MaxOffset /\ 0 \in File /\ 0 \in Offset
    BY DEF File, Offset
  <1>2. rev \in Contents /\ blk \in Contents
    BY Zenon DEF Init, Put, Contents
  <1>3. /\ DOMAIN index = {Genesis} /\ index[Genesis] = [nFile |-> 0, nDataPos |-> 0, nUndoPos |-> None]
        /\ db.index = index /\ db.files = vinfoBlockFile /\ db.last = 0
    BY Zenon DEF Init
  <1>4. vinfoBlockFile \in [File -> Info]
    BY <1>1 DEF Init, Info
  <1>5. TypeOK
    BY <1>1, <1>2, <1>3, <1>4 DEF Init, TypeOK, Pos
  <1>6. IndexInv
    BY <1>3, Zenon DEF Init, IndexInv
  <1>7. SizeInv
    <2>1. vinfoBlockFile[0].nSize = BlockSize[Genesis]
      BY <1>1, Zenon DEF Init
    <2>2. Within(vinfoBlockFile, index)
      BY <1>1, <1>3, <2>1 DEF Within
    <2>3. \A f \in File : vinfoBlockFile[f].nSize \in Nat /\ vinfoBlockFile[f].nUndoSize \in Nat
      BY <1>4 DEF Info
    <2>4. QED
      BY <1>3, <2>2, <2>3 DEF SizeInv
  <1>8. FileInv
    <2>1. \A o \in Range(0, BlockSize[Genesis]) : blk[0][o] = Genesis
      <3>1. Range(0, BlockSize[Genesis]) \subseteq Offset
        BY <1>1 DEF Range, Offset
      <3>2. QED
        BY <1>1, <1>2, <3>1, PutFacts DEF Init
    <2>2. DataAt(blk, index, Genesis)
      BY <1>3, <2>1 DEF DataAt
    <2>3. QED
      BY <1>3, <2>2, Zenon DEF Init, FileInv, AllData, AllUndo
  <1>9. Covered(tip, index) /\ CoinsCovered
    BY <1>3, Zenon DEF Init, Covered, CoinsCovered
  <1>10. QED
    BY <1>5, <1>6, <1>7, <1>8, <1>9, Zenon DEF Init, IInv

-----------------------------------------------------------------------------
\* The units of a stored block, and its undo data, are offsets below the sizes.
LEMMA UnitsBelow ==
  ASSUME IInv, NEW b \in DOMAIN index
  PROVE  /\ b \in Block /\ index[b].nFile \in File
         /\ \A o \in Range(index[b].nDataPos, BlockSize[b]) :
              o \in Offset /\ o < vinfoBlockFile[index[b].nFile].nSize
         /\ index[b].nUndoPos # None =>
              index[b].nUndoPos \in Offset /\ index[b].nUndoPos < vinfoBlockFile[index[b].nFile].nUndoSize
  <1>1. index[b] \in Pos /\ b \in Block
    BY Zenon DEF IInv, TypeOK
  <1>2. vinfoBlockFile[index[b].nFile] \in Info /\ BlockSize[b] \in Nat
    BY <1>1, FilesAssumption, Zenon DEF IInv, TypeOK, Pos
  <1>3. index[b].nDataPos \in Nat /\ vinfoBlockFile[index[b].nFile].nSize \in 0 .. MaxOffset + 1 /\ MaxOffset \in Nat
    BY <1>1, <1>2, FilesAssumption DEF Pos, Info, Offset
  <1>4. index[b].nDataPos + BlockSize[b] <= vinfoBlockFile[index[b].nFile].nSize
    BY Zenon DEF IInv, SizeInv, Within
  <1>5. \A o \in Range(index[b].nDataPos, BlockSize[b]) :
          o \in Offset /\ o < vinfoBlockFile[index[b].nFile].nSize
    BY <1>2, <1>3, <1>4 DEF Range, Offset
  <1>6. QED
    BY <1>1, <1>5, Zenon DEF IInv, SizeInv, Within, Pos

\* Leaving a file commits it, cut to its size: nothing that the index names is lost.
LEMMA FindBlockPosFacts ==
  ASSUME IInv, NEW b \in Block, FindBlockPos(b)
  PROVE  LET cut == IF Full(b) THEN [blk EXCEPT ![nLastBlockFile] = blkDisk'[nLastBlockFile]] ELSE blk
             cutRev == IF Full(b) THEN [rev EXCEPT ![nLastBlockFile] = revDisk'[nLastBlockFile]] ELSE rev
         IN /\ {cut, cutRev, blkDisk', revDisk'} \subseteq Contents
            /\ AllData(cut, index) /\ AllData(blkDisk', db.index)
            /\ \A x \in DOMAIN index : index[x].nFile # nLastBlockFile' => DataAt(blkDisk', index, x)
            /\ nPower = 0 => AllUndo(cutRev, index)
  <1> DEFINE cut == IF Full(b) THEN [blk EXCEPT ![nLastBlockFile] = blkDisk'[nLastBlockFile]] ELSE blk
             cutRev == IF Full(b) THEN [rev EXCEPT ![nLastBlockFile] = revDisk'[nLastBlockFile]] ELSE rev
             n == nLastBlockFile
             size == vinfoBlockFile[n].nSize
             undoSize == vinfoBlockFile[n].nUndoSize
  <1>1. n \in File /\ {blk, rev, blkDisk, revDisk} \subseteq Contents
    BY Zenon DEF IInv, TypeOK
  <1>2. nLastBlockFile' = BlockFile(b) /\ (Full(b) <=> BlockFile(b) # n)
    BY BlockFileFacts, Zenon DEF IInv, FindBlockPos
  <1>3. CASE ~Full(b)
    <2>1. UNCHANGED <<blkDisk, revDisk, nLastBlockFile>> /\ cut = blk /\ cutRev = rev
      BY <1>2, <1>3, Zenon DEF FindBlockPos
    <2>2. QED
      BY <1>1, <2>1, Zenon DEF IInv, FileInv
  <1>4. CASE Full(b)
    <2>1. /\ blkDisk' = [blkDisk EXCEPT ![n] = [o \in Offset |-> IF o < size THEN blk[n][o] ELSE None]]
          /\ revDisk' = [revDisk EXCEPT ![n] = [o \in Offset |-> IF o < undoSize THEN rev[n][o] ELSE None]]
      BY <1>4, Zenon DEF FindBlockPos, FlushBlockFile, Committed
    <2>2. {blkDisk', revDisk'} \subseteq Contents
      BY <1>1, <2>1 DEF Contents
    <2>3. {cut, cutRev} \subseteq Contents
      BY <1>1, <1>4, <2>2, Zenon DEF Contents
    <2>4. /\ \A f \in File \ {n} : blkDisk'[f] = blkDisk[f] /\ cut[f] = blk[f] /\ cutRev[f] = rev[f]
          /\ \A o \in Offset : o < size => blkDisk'[n][o] = blk[n][o] /\ cut[n][o] = blk[n][o]
          /\ \A o \in Offset : o < undoSize => cutRev[n][o] = rev[n][o]
      BY <1>1, <1>4, <2>1, Zenon DEF Contents
    <2>5. ASSUME NEW x \in DOMAIN index
          PROVE  /\ DataAt(cut, index, x)
                 /\ index[x].nFile # nLastBlockFile' => DataAt(blkDisk', index, x)
                 /\ index[x].nFile = n => DataAt(blkDisk', index, x)
      <3>1. DataAt(blk, index, x) /\ (index[x].nFile # n => DataAt(blkDisk, index, x))
        BY Zenon DEF IInv, FileInv, AllData
      <3>2. CASE index[x].nFile = n
        BY <2>4, <3>1, <3>2, UnitsBelow, Zenon DEF DataAt
      <3>3. CASE index[x].nFile # n
        BY <2>4, <3>1, <3>3, UnitsBelow DEF DataAt
      <3>4. QED
        BY <3>2, <3>3, Zenon
    <2>6. AllData(blkDisk', db.index)
      <3> SUFFICES ASSUME NEW x \in DOMAIN db.index PROVE DataAt(blkDisk', db.index, x)
        BY Zenon DEF AllData
      <3>1. x \in DOMAIN index /\ index[x].nFile = db.index[x].nFile /\ index[x].nDataPos = db.index[x].nDataPos
        BY Zenon DEF IInv, IndexInv
      <3>2. DataAt(blkDisk, db.index, x)
        BY Zenon DEF IInv, FileInv, AllData
      <3>3. CASE index[x].nFile = n
        BY <2>5, <3>1, <3>3, Zenon DEF DataAt
      <3>4. CASE index[x].nFile # n
        BY <2>4, <3>1, <3>2, <3>4, UnitsBelow, Zenon DEF DataAt
      <3>5. QED
        BY <3>3, <3>4, Zenon
    <2>7. nPower = 0 => AllUndo(cutRev, index)
      <3> SUFFICES ASSUME nPower = 0, NEW x \in DOMAIN index, index[x].nUndoPos # None
                   PROVE  UndoAt(cutRev, index, x)
        BY Zenon DEF AllUndo
      <3>1. UndoAt(rev, index, x)
        BY Zenon DEF IInv, FileInv, AllUndo
      <3>2. QED
        BY <2>4, <3>1, UnitsBelow, Zenon DEF UndoAt
    <2>8. QED
      BY <2>2, <2>3, <2>5, <2>6, <2>7, Zenon DEF AllData
  <1>5. QED
    BY <1>3, <1>4, Zenon

-----------------------------------------------------------------------------
\* One lemma per action: it preserves the invariant.

\* What the invariant says of files and sizes survives a change of the sizes that
\* only lets them grow.
LEMMA SizesGrow ==
  ASSUME NEW v \in [File -> Info], NEW w \in [File -> Info], NEW i, NEW b \in DOMAIN i, i[b] \in Pos, b \in Block,
         \A f \in File : v[f].nSize <= w[f].nSize /\ v[f].nUndoSize <= w[f].nUndoSize,
         Within(v, i)
  PROVE  /\ i[b].nDataPos + BlockSize[b] <= w[i[b].nFile].nSize
         /\ i[b].nUndoPos # None => i[b].nUndoPos < w[i[b].nFile].nUndoSize
  <1>1. i[b].nFile \in File /\ i[b].nDataPos \in Nat /\ BlockSize[b] \in Nat
    BY FilesAssumption DEF Pos, Offset
  <1>2. i[b].nUndoPos # None => i[b].nUndoPos \in Nat
    BY FilesAssumption DEF Pos, Offset
  <1>3. v[i[b].nFile] \in Info /\ w[i[b].nFile] \in Info
    BY <1>1, Zenon
  <1>4. QED
    BY <1>1, <1>2, <1>3 DEF Within, Info

\* FindBlockPos, of files and sizes.
LEMMA FindBlockPosSizes ==
  ASSUME IInv, NEW b \in Block, FindBlockPos(b)
  PROVE  /\ vinfoBlockFile' \in [File -> Info] /\ nLastBlockFile' \in File
         /\ \A f \in File : /\ vinfoBlockFile[f].nSize <= vinfoBlockFile'[f].nSize
                            /\ vinfoBlockFile[f].nUndoSize <= vinfoBlockFile'[f].nUndoSize
         /\ vinfoBlockFile[BlockFile(b)].nSize \in Nat
         /\ vinfoBlockFile'[BlockFile(b)].nSize = vinfoBlockFile[BlockFile(b)].nSize + BlockSize[b]
         /\ vinfoBlockFile[BlockFile(b)].nSize + BlockSize[b] <= MaxOffset + 1
  <1> USE FilesAssumption
  <1> DEFINE f == BlockFile(b)
  <1>1. /\ f \in File /\ vinfoBlockFile[f].nSize + BlockSize[b] < MAX_BLOCKFILE_SIZE
        /\ nLastBlockFile' = f
        /\ vinfoBlockFile' = [vinfoBlockFile EXCEPT ![f].nSize = @ + BlockSize[b]]
    BY BlockFileFacts, Zenon DEF IInv, FindBlockPos
  <1>2. vinfoBlockFile \in [File -> Info] /\ BlockSize[b] \in Nat
    BY Zenon DEF IInv, TypeOK
  <1>3. vinfoBlockFile[f].nSize \in Nat /\ vinfoBlockFile[f].nUndoSize \in 0 .. MaxOffset + 1
    BY <1>1, <1>2 DEF Info
  <1>4. vinfoBlockFile'[f] = [vinfoBlockFile[f] EXCEPT !.nSize = @ + BlockSize[b]]
        /\ \A g \in File \ {f} : vinfoBlockFile'[g] = vinfoBlockFile[g]
    BY <1>1, <1>2, Zenon
  <1>5. vinfoBlockFile[f].nSize + BlockSize[b] \in 0 .. MaxOffset + 1
    BY <1>1, <1>2, <1>3
  <1>6. vinfoBlockFile'[f] \in Info
    BY <1>1, <1>2, <1>4, <1>5 DEF Info
  <1>7. vinfoBlockFile' \in [File -> Info]
    BY <1>1, <1>2, <1>6, Zenon
  <1>8. \A g \in File : vinfoBlockFile[g].nSize <= vinfoBlockFile'[g].nSize
                        /\ vinfoBlockFile[g].nUndoSize <= vinfoBlockFile'[g].nUndoSize
    BY <1>1, <1>2, <1>3, <1>4, <1>5 DEF Info
  <1>9. QED
    BY <1>1, <1>2, <1>3, <1>4, <1>5, <1>7, <1>8 DEF Info

\* AcceptBlock: the new block lies beyond all others, and a file that is left is committed.
LEMMA AcceptBlockIInv ==
  ASSUME IInv, NEW b \in Block, AcceptBlock(b)
  PROVE  IInv'
  <1> USE FilesAssumption
  <1> DEFINE f == BlockFile(b)
             pos == vinfoBlockFile[f].nSize
             cut == IF Full(b) THEN [blk EXCEPT ![nLastBlockFile] = blkDisk'[nLastBlockFile]] ELSE blk
             entry == [nFile |-> f, nDataPos |-> pos, nUndoPos |-> None]
  <1>1. FindBlockPos(b) /\ b \notin DOMAIN index
    BY Zenon DEF AcceptBlock
  <1>2. /\ blk' = Put(cut, f, Range(pos, BlockSize[b]), b)
        /\ index' = [x \in DOMAIN index \cup {b} |-> IF x = b THEN entry ELSE index[x]]
        /\ rev' = IF Full(b) THEN [rev EXCEPT ![nLastBlockFile] = revDisk'[nLastBlockFile]] ELSE rev
        /\ setDirtyBlockIndex' = setDirtyBlockIndex \cup {b} /\ setDirtyFileInfo' = setDirtyFileInfo \cup {f}
        /\ UNCHANGED <<tip, db, best, bestPast, nPower>>
    BY Zenon DEF AcceptBlock, countVars
  <1>3. nLastBlockFile' = f /\ f \in File
    BY <1>1, BlockFileFacts, Zenon DEF IInv, FindBlockPos
  <1>4. /\ cut \in Contents /\ {rev', blkDisk', revDisk'} \subseteq Contents
        /\ AllData(cut, index) /\ AllData(blkDisk', db.index)
        /\ \A x \in DOMAIN index : index[x].nFile # f => DataAt(blkDisk', index, x)
        /\ nPower = 0 => AllUndo(rev', index)
    BY <1>1, <1>2, <1>3, FindBlockPosFacts, Zenon
  <1>5. /\ vinfoBlockFile' \in [File -> Info]
        /\ \A g \in File : /\ vinfoBlockFile[g].nSize <= vinfoBlockFile'[g].nSize
                           /\ vinfoBlockFile[g].nUndoSize <= vinfoBlockFile'[g].nUndoSize
        /\ pos \in Nat /\ vinfoBlockFile'[f].nSize = pos + BlockSize[b] /\ pos + BlockSize[b] <= MaxOffset + 1
    BY <1>1, FindBlockPosSizes, Zenon
  <1>6. pos \in Offset /\ entry \in Pos /\ BlockSize[b] \in Nat \ {0} /\ Range(pos, BlockSize[b]) \subseteq Offset
    BY <1>3, <1>5 DEF Offset, Pos, Range
  <1>7. /\ DOMAIN index' = DOMAIN index \cup {b} /\ index'[b] = entry
        /\ \A x \in DOMAIN index : index'[x] = index[x] /\ x # b
    BY <1>1, <1>2, Zenon
  <1>8. blk' \in Contents
    BY <1>2, <1>3, <1>4, PutFacts
  <1>9. TypeOK'
    <2>1. DOMAIN index \subseteq Block /\ \A x \in DOMAIN index : index[x] \in Pos
      BY Zenon DEF IInv, TypeOK
    <2>2. DOMAIN index' \subseteq Block /\ \A x \in DOMAIN index' : index'[x] \in Pos
      BY <1>6, <1>7, <2>1, Zenon
    <2>3. QED
      BY <1>2, <1>3, <1>4, <1>5, <1>7, <1>8, <2>2, Zenon DEF IInv, TypeOK
  <1>10. IndexInv'
    BY <1>1, <1>2, <1>7, Zenon DEF IInv, IndexInv, TypeOK
  <1>11. SizeInv'
    <2>1. ASSUME NEW x \in DOMAIN index
          PROVE  /\ index[x].nDataPos + BlockSize[x] <= vinfoBlockFile'[index[x].nFile].nSize
                 /\ index[x].nUndoPos # None => index[x].nUndoPos < vinfoBlockFile'[index[x].nFile].nUndoSize
      BY <1>5, SizesGrow, Zenon DEF IInv, TypeOK, SizeInv
    <2>2. Within(vinfoBlockFile', index')
      BY <1>5, <1>6, <1>7, <2>1 DEF Within
    <2>3. \A g \in File : /\ db.files[g].nSize <= vinfoBlockFile'[g].nSize
                          /\ db.files[g].nUndoSize <= vinfoBlockFile'[g].nUndoSize
      BY <1>5 DEF IInv, TypeOK, SizeInv, Info
    <2>4. QED
      BY <1>2, <2>2, <2>3, Zenon DEF IInv, SizeInv
  <1>12. FileInv'
    <2>0. /\ \A g \in File \ {f} : blk'[g] = cut[g]
          /\ \A o \in Offset : blk'[f][o] = IF o \in Range(pos, BlockSize[b]) THEN b ELSE cut[f][o]
      <3>1. blk' = Put(cut, f, Range(pos, BlockSize[b]), b) /\ cut \in Contents /\ f \in File
        BY <1>2, <1>3, <1>4, Zenon
      <3> HIDE DEF cut, f, pos
      <3>2. QED
        BY <3>1, PutFacts
    <2>1. DataAt(blk', index', b)
      BY <1>6, <1>7, <2>0 DEF DataAt
    <2>2. ASSUME NEW x \in DOMAIN index PROVE DataAt(blk', index', x)
      <3>1. DataAt(cut, index, x)
        BY <1>4, Zenon DEF AllData
      <3>2. \A o \in Range(index[x].nDataPos, BlockSize[x]) : blk'[index[x].nFile][o] = cut[index[x].nFile][o]
        <4>1. /\ index[x].nFile \in File
              /\ \A o \in Range(index[x].nDataPos, BlockSize[x]) : o \in Offset /\ o < vinfoBlockFile[index[x].nFile].nSize
          BY UnitsBelow, Zenon
        <4>2. CASE index[x].nFile = f
          <5>1. \A o \in Offset : o < pos => o \notin Range(pos, BlockSize[b])
            BY <1>5 DEF Range, Offset
          <5>2. QED
            BY <2>0, <4>1, <4>2, <5>1, Zenon
        <4>3. CASE index[x].nFile # f
          BY <2>0, <4>1, <4>3, Zenon
        <4>4. QED
          BY <4>2, <4>3, Zenon
      <3>3. QED
        BY <1>7, <3>1, <3>2, Zenon DEF DataAt
    <2>3. ASSUME NEW x \in DOMAIN index', index'[x].nFile # nLastBlockFile'
          PROVE  DataAt(blkDisk', index', x)
      <3>1. x \in DOMAIN index /\ index'[x] = index[x] /\ index[x].nFile # f
        BY <1>3, <1>7, <2>3
      <3>2. DataAt(blkDisk', index, x)
        BY <1>4, <3>1, Zenon
      <3>3. QED
        BY <3>1, <3>2, Zenon DEF DataAt
    <2>4. nPower' = 0 => AllUndo(rev', index')
      BY <1>2, <1>4, <1>7, Zenon DEF AllUndo, UndoAt
    <2>5. QED
      BY <1>2, <1>4, <1>7, <2>1, <2>2, <2>3, <2>4, Zenon DEF FileInv, AllData
  <1>13. Covered(tip, index)' /\ CoinsCovered'
    BY <1>2, <1>7, Zenon DEF IInv, Covered, CoinsCovered
  <1>14. QED
    BY <1>2, <1>9, <1>10, <1>11, <1>12, <1>13, Zenon DEF IInv

\* AcceptBlock without room: the position is taken but nothing refers to it.
LEMMA AcceptBlockFailsIInv ==
  ASSUME IInv, NEW b \in Block, AcceptBlockFails(b)
  PROVE  IInv'
  <1>1. FindBlockPos(b)
    BY Zenon DEF AcceptBlockFails
  <1>2. /\ blk' = IF Full(b) THEN [blk EXCEPT ![nLastBlockFile] = blkDisk'[nLastBlockFile]] ELSE blk
        /\ rev' = IF Full(b) THEN [rev EXCEPT ![nLastBlockFile] = revDisk'[nLastBlockFile]] ELSE rev
        /\ UNCHANGED <<index, setDirtyFileInfo, setDirtyBlockIndex, tip, db, best, bestPast, nPower>>
    BY Zenon DEF AcceptBlockFails
  <1>3. /\ {blk', rev', blkDisk', revDisk'} \subseteq Contents
        /\ AllData(blk', index) /\ AllData(blkDisk', db.index)
        /\ \A x \in DOMAIN index : index[x].nFile # nLastBlockFile' => DataAt(blkDisk', index, x)
        /\ nPower = 0 => AllUndo(rev', index)
    BY <1>1, <1>2, FindBlockPosFacts, Zenon
  <1>4. /\ vinfoBlockFile' \in [File -> Info] /\ nLastBlockFile' \in File
        /\ \A g \in File : /\ vinfoBlockFile[g].nSize <= vinfoBlockFile'[g].nSize
                           /\ vinfoBlockFile[g].nUndoSize <= vinfoBlockFile'[g].nUndoSize
    BY <1>1, FindBlockPosSizes, Zenon
  <1>5. TypeOK'
    BY <1>2, <1>3, <1>4, Zenon DEF IInv, TypeOK
  <1>6. SizeInv'
    <2>1. Within(vinfoBlockFile', index)
      <3>1. ASSUME NEW x \in DOMAIN index
            PROVE  /\ index[x].nDataPos + BlockSize[x] <= vinfoBlockFile'[index[x].nFile].nSize
                   /\ index[x].nUndoPos # None => index[x].nUndoPos < vinfoBlockFile'[index[x].nFile].nUndoSize
        BY <1>4, SizesGrow, Zenon DEF IInv, TypeOK, SizeInv
      <3>2. QED
        BY <3>1, Zenon DEF Within
    <2>2. \A g \in File : /\ db.files[g].nSize <= vinfoBlockFile'[g].nSize
                          /\ db.files[g].nUndoSize <= vinfoBlockFile'[g].nUndoSize
      BY <1>4 DEF IInv, TypeOK, SizeInv, Info
    <2>3. QED
      BY <1>2, <2>1, <2>2, Zenon DEF IInv, SizeInv
  <1>7. IndexInv' /\ FileInv' /\ Covered(tip, index)' /\ CoinsCovered'
    BY <1>2, <1>3, Zenon DEF IInv, IndexInv, FileInv, Covered, CoinsCovered
  <1>8. QED
    BY <1>2, <1>5, <1>6, <1>7, Zenon DEF IInv

\* FindUndoPos: the file has one more unit of undo data, and will be written.
LEMMA FindUndoPosFacts ==
  ASSUME IInv, NEW f \in File, vinfoBlockFile[f].nUndoSize \in Offset, FindUndoPos(f)
  PROVE  /\ vinfoBlockFile' \in [File -> Info]
         /\ \A g \in File : /\ vinfoBlockFile[g].nSize <= vinfoBlockFile'[g].nSize
                            /\ vinfoBlockFile[g].nUndoSize <= vinfoBlockFile'[g].nUndoSize
         /\ vinfoBlockFile[f].nUndoSize < vinfoBlockFile'[f].nUndoSize
         /\ setDirtyFileInfo' = setDirtyFileInfo \cup {f}
         /\ Within(vinfoBlockFile', index)
         /\ \A g \in File : /\ db.files[g].nSize <= vinfoBlockFile'[g].nSize
                            /\ db.files[g].nUndoSize <= vinfoBlockFile'[g].nUndoSize
  <1> USE FilesAssumption
  <1>1. vinfoBlockFile \in [File -> Info] /\ vinfoBlockFile' = [vinfoBlockFile EXCEPT ![f].nUndoSize = @ + 1]
    BY Zenon DEF IInv, TypeOK, FindUndoPos
  <1>2. /\ vinfoBlockFile'[f] = [vinfoBlockFile[f] EXCEPT !.nUndoSize = @ + 1]
        /\ \A g \in File \ {f} : vinfoBlockFile'[g] = vinfoBlockFile[g]
    BY <1>1, Zenon
  <1>3. vinfoBlockFile[f] \in Info /\ vinfoBlockFile[f].nUndoSize + 1 \in 0 .. MaxOffset + 1
    BY <1>1 DEF Offset
  <1>4. vinfoBlockFile'[f] \in Info
    BY <1>2, <1>3, Zenon DEF Info
  <1>5. vinfoBlockFile' \in [File -> Info]
    BY <1>1, <1>4, Zenon
  <1>6. \A g \in File : vinfoBlockFile[g].nSize <= vinfoBlockFile'[g].nSize
                        /\ vinfoBlockFile[g].nUndoSize <= vinfoBlockFile'[g].nUndoSize
    BY <1>1, <1>2, <1>3 DEF Info
  <1>7. ASSUME NEW x \in DOMAIN index
        PROVE  /\ index[x].nDataPos + BlockSize[x] <= vinfoBlockFile'[index[x].nFile].nSize
               /\ index[x].nUndoPos # None => index[x].nUndoPos < vinfoBlockFile'[index[x].nFile].nUndoSize
    BY <1>1, <1>5, <1>6, SizesGrow, Zenon DEF IInv, TypeOK, SizeInv
  <1>8. Within(vinfoBlockFile', index)
    BY <1>7, Zenon DEF Within
  <1>9. \A g \in File : /\ db.files[g].nSize <= vinfoBlockFile'[g].nSize
                        /\ db.files[g].nUndoSize <= vinfoBlockFile'[g].nUndoSize
    BY <1>5, <1>6 DEF IInv, TypeOK, SizeInv, Info
  <1>10. vinfoBlockFile[f].nUndoSize < vinfoBlockFile'[f].nUndoSize
    BY <1>2, <1>3 DEF Info, Offset
  <1>11. QED
    BY <1>5, <1>6, <1>8, <1>9, <1>10, Zenon DEF FindUndoPos

\* ConnectTip: the undo data is written beyond all other undo data of its file.
LEMMA ConnectTipIInv ==
  ASSUME IInv, NEW b \in Block, ConnectTip(b)
  PROVE  IInv'
  <1> USE FilesAssumption
  <1> DEFINE f == index[b].nFile
             pos == vinfoBlockFile[f].nUndoSize
  <1>1. /\ b \in DOMAIN index /\ b # Genesis /\ pprev[b] = tip /\ tip' = b
        /\ UNCHANGED <<nLastBlockFile, blk, blkDisk, revDisk, db, best, bestPast, nPower>>
    BY Zenon DEF ConnectTip, diskVars, countVars
  <1>2. Chain[b] = Chain[tip] \cup {b} /\ f \in File
    BY <1>1, Zenon DEF IInv, TypeOK, Pos
  <1>3. CASE /\ index[b].nUndoPos # None
             /\ UNCHANGED <<index, vinfoBlockFile, setDirtyFileInfo, setDirtyBlockIndex, rev>>
    <2>1. TypeOK'
      BY <1>1, <1>3, Zenon DEF IInv, TypeOK
    <2>2. IndexInv' /\ SizeInv' /\ FileInv' /\ CoinsCovered'
      BY <1>1, <1>3, Zenon DEF IInv, IndexInv, SizeInv, FileInv, CoinsCovered
    <2>3. Covered(tip', index')
      BY <1>1, <1>2, <1>3, Zenon DEF IInv, Covered
    <2>4. QED
      BY <1>1, <2>1, <2>2, <2>3, Zenon DEF IInv
  <1>4. CASE /\ index[b].nUndoPos = None /\ pos \in Offset
             /\ FindUndoPos(f)
             /\ rev' = Put(rev, f, {pos}, b)
             /\ index' = [index EXCEPT ![b].nUndoPos = pos]
             /\ setDirtyBlockIndex' = setDirtyBlockIndex \cup {b}
    <2>1. /\ vinfoBlockFile' \in [File -> Info] /\ setDirtyFileInfo' = setDirtyFileInfo \cup {f}
          /\ pos < vinfoBlockFile'[f].nUndoSize
          /\ Within(vinfoBlockFile', index)
          /\ \A g \in File : /\ db.files[g].nSize <= vinfoBlockFile'[g].nSize
                             /\ db.files[g].nUndoSize <= vinfoBlockFile'[g].nUndoSize
      BY <1>2, <1>4, FindUndoPosFacts, Zenon
    <2>2. /\ DOMAIN index' = DOMAIN index
          /\ \A x \in DOMAIN index \ {b} : index'[x] = index[x]
          /\ index'[b] = [index[b] EXCEPT !.nUndoPos = pos]
      BY <1>1, <1>4, Zenon
    <2>3. index[b] \in Pos /\ pos # None
      BY <1>1, <1>4 DEF IInv, TypeOK, Offset
    <2>4. index'[b] \in Pos /\ index'[b].nFile = f /\ index'[b].nDataPos = index[b].nDataPos /\ index'[b].nUndoPos = pos
      BY <1>4, <2>2, <2>3 DEF Pos
    <2>5. \A x \in DOMAIN index : index'[x].nFile = index[x].nFile /\ index'[x].nDataPos = index[x].nDataPos
      BY <2>2, <2>4, Zenon
    <2>6. rev \in Contents
      BY Zenon DEF IInv, TypeOK
    <2>7. /\ rev' \in Contents
          /\ \A g \in File \ {f} : rev'[g] = rev[g]
          /\ \A o \in Offset : rev'[f][o] = IF o = pos THEN b ELSE rev[f][o]
      <3> HIDE DEF f, pos
      <3>1. QED
        BY <1>2, <1>4, <2>6, PutFacts
    <2>8. TypeOK'
      BY <1>1, <1>2, <1>4, <2>1, <2>2, <2>4, <2>7 DEF IInv, TypeOK
    <2>9. IndexInv'
      <3>1. ASSUME NEW x \in DOMAIN db.index, db.index[x].nUndoPos # None
            PROVE  index'[x].nUndoPos = db.index[x].nUndoPos
        BY <1>4, <2>2, <3>1 DEF IInv, IndexInv
      <3>2. \A x \in DOMAIN db.index :
              /\ x \in DOMAIN index'
              /\ index'[x].nFile = db.index[x].nFile /\ index'[x].nDataPos = db.index[x].nDataPos
        BY <2>2, <2>5, Zenon DEF IInv, IndexInv
      <3>3. \A x \in DOMAIN index' \ setDirtyBlockIndex' : x \in DOMAIN db.index /\ db.index[x] = index'[x]
        BY <1>4, <2>2, Zenon DEF IInv, IndexInv
      <3>4. \A x \in setDirtyBlockIndex' : index'[x].nFile \in setDirtyFileInfo'
        BY <1>1, <1>4, <2>1, <2>5 DEF IInv, IndexInv, TypeOK
      <3>5. QED
        BY <1>1, <3>1, <3>2, <3>3, <3>4, Zenon DEF IndexInv
    <2>10. SizeInv'
      <3>1. Within(vinfoBlockFile', index')
        BY <2>1, <2>2, <2>4, Zenon DEF Within
      <3>2. QED
        BY <1>1, <2>1, <3>1, Zenon DEF IInv, SizeInv
    <2>11. FileInv'
      <3>1. AllData(blk', index') /\ AllData(blkDisk', db'.index)
        <4>1. ASSUME NEW x \in DOMAIN index PROVE DataAt(blk, index', x)
          BY <2>5 DEF IInv, FileInv, AllData, DataAt
        <4>2. QED
          BY <1>1, <2>2, <4>1, Zenon DEF IInv, FileInv, AllData
      <3>2. \A x \in DOMAIN index' : index'[x].nFile # nLastBlockFile' => DataAt(blkDisk', index', x)
        BY <1>1, <2>2, <2>5, Zenon DEF IInv, FileInv, DataAt
      <3>3. ASSUME nPower = 0, NEW x \in DOMAIN index', index'[x].nUndoPos # None
            PROVE  UndoAt(rev', index', x)
        <4>1. CASE x = b
          BY <1>4, <2>3, <2>4, <2>7, <4>1, Zenon DEF UndoAt
        <4>2. CASE x # b
          <5>1. x \in DOMAIN index /\ index'[x] = index[x] /\ UndoAt(rev, index, x)
            BY <2>2, <3>3, <4>2, Zenon DEF IInv, FileInv, AllUndo
          <5>2. /\ index[x].nFile \in File /\ index[x].nUndoPos \in Offset
                /\ index[x].nUndoPos < vinfoBlockFile[index[x].nFile].nUndoSize
            BY <3>3, <5>1, UnitsBelow, Zenon
          <5>3. index[x].nFile = f => index[x].nUndoPos # pos
            BY <1>4, <5>2 DEF Offset
          <5>4. QED
            BY <2>7, <5>1, <5>2, <5>3 DEF UndoAt
        <4>3. QED
          BY <4>1, <4>2, Zenon
      <3>4. QED
        BY <1>1, <3>1, <3>2, <3>3, Zenon DEF FileInv, AllUndo
    <2>12. Covered(tip', index') /\ CoinsCovered'
      <3>1. \A x \in Chain[tip] : x \in DOMAIN index' /\ (x # Genesis => index'[x].nUndoPos # None)
        BY <2>2, <2>3, <2>4, Zenon DEF IInv, Covered
      <3>2. QED
        BY <1>1, <1>2, <2>2, <2>3, <2>4, <3>1, Zenon DEF IInv, Covered, CoinsCovered
    <2>13. QED
      BY <1>1, <2>8, <2>9, <2>10, <2>11, <2>12, Zenon DEF IInv
  <1>5. QED
    BY <1>3, <1>4, Zenon DEF ConnectTip

\* ConnectTip without room for the undo data: only the size of the file grows.
LEMMA ConnectTipFailsIInv ==
  ASSUME IInv, NEW b \in Block, ConnectTipFails(b)
  PROVE  IInv'
  <1>1. /\ b \in DOMAIN index /\ vinfoBlockFile[index[b].nFile].nUndoSize \in Offset
        /\ FindUndoPos(index[b].nFile)
        /\ UNCHANGED <<index, nLastBlockFile, setDirtyBlockIndex, tip, blk, rev, blkDisk, revDisk, db, best, bestPast, nPower>>
    BY Zenon DEF ConnectTipFails, diskVars
  <1>2. index[b].nFile \in File
    BY <1>1, Zenon DEF IInv, TypeOK, Pos
  <1>3. /\ vinfoBlockFile' \in [File -> Info] /\ setDirtyFileInfo' = setDirtyFileInfo \cup {index[b].nFile}
        /\ Within(vinfoBlockFile', index)
        /\ \A g \in File : /\ db.files[g].nSize <= vinfoBlockFile'[g].nSize
                           /\ db.files[g].nUndoSize <= vinfoBlockFile'[g].nUndoSize
    BY <1>1, <1>2, FindUndoPosFacts, Zenon
  <1>4. TypeOK' /\ SizeInv'
    BY <1>1, <1>2, <1>3, Zenon DEF IInv, TypeOK, SizeInv
  <1>5. IndexInv' /\ FileInv' /\ Covered(tip, index)' /\ CoinsCovered'
    BY <1>1, <1>3, Zenon DEF IInv, IndexInv, FileInv, Covered, CoinsCovered
  <1>6. QED
    BY <1>1, <1>4, <1>5, Zenon DEF IInv

\* DisconnectTip: the chain of the predecessor is covered too.
LEMMA DisconnectTipIInv == IInv /\ DisconnectTip => IInv'
  <1> SUFFICES ASSUME IInv, DisconnectTip PROVE IInv'
    BY Zenon
  <1>1. /\ tip # Genesis /\ tip' = pprev[tip]
        /\ UNCHANGED <<index, vinfoBlockFile, nLastBlockFile, setDirtyFileInfo, setDirtyBlockIndex,
                      blk, rev, blkDisk, revDisk, db, best, bestPast, nPower>>
    BY Zenon DEF DisconnectTip, diskVars, countVars
  <1>2. tip \in Block /\ tip' \in Block /\ Chain[tip] = Chain[tip'] \cup {tip}
    BY <1>1, FilesAssumption, Zenon DEF IInv, TypeOK
  <1>3. TypeOK'
    BY <1>1, <1>2, Zenon DEF IInv, TypeOK
  <1>4. IndexInv' /\ SizeInv' /\ FileInv' /\ CoinsCovered'
    BY <1>1, Zenon DEF IInv, IndexInv, SizeInv, FileInv, CoinsCovered
  <1>5. Covered(tip', index')
    BY <1>1, <1>2, Zenon DEF IInv, Covered
  <1>6. QED
    BY <1>1, <1>3, <1>4, <1>5, Zenon DEF IInv

-----------------------------------------------------------------------------
\* FlushStateToDisk, whole or in part, and restarts.

\* The order of the writes: an index entry is written when all infos of files have
\* been, and the coins when all index entries have been.
LEMMA PrefixFacts ==
  ASSUME TypeOK, NEW done \in Prefixes
  PROVE  /\ \A f : <<"file", f>> \in done => f \in setDirtyFileInfo
         /\ \A x : <<"index", x>> \in done =>
              x \in setDirtyBlockIndex /\ \A f \in setDirtyFileInfo : <<"file", f>> \in done
         /\ <<"coins", 0>> \in done => \A x \in setDirtyBlockIndex : <<"index", x>> \in done
  <1>1. done \subseteq Items /\ \A i \in done, j \in Items : Rank(j) < Rank(i) => j \in done
    BY Zenon DEF Prefixes
  <1>2. /\ \A f \in setDirtyFileInfo : <<"file", f>> \in Items
        /\ \A x \in setDirtyBlockIndex : <<"index", x>> \in Items
        /\ \A f : <<"file", f>> \in Items => f \in setDirtyFileInfo
        /\ \A x : <<"index", x>> \in Items => x \in setDirtyBlockIndex
    BY DEF Items
  <1>3. /\ \A f : Rank(<<"file", f>>) = f
        /\ \A x : Rank(<<"index", x>>) = MaxFile + 2
        /\ Rank(<<"coins", 0>>) = MaxFile + 3
    BY Zenon DEF Rank
  <1>4. MaxFile \in Nat /\ \A f \in setDirtyFileInfo : f \in 0 .. MaxFile
    BY FilesAssumption, Zenon DEF TypeOK, File
  <1>5. ASSUME NEW x, <<"index", x>> \in done, NEW f \in setDirtyFileInfo
        PROVE  <<"file", f>> \in done
    <2>1. Rank(<<"file", f>>) < Rank(<<"index", x>>)
      BY <1>3, <1>4
    <2>2. QED
      BY <1>1, <1>2, <1>5, <2>1, Zenon
  <1>6. ASSUME <<"coins", 0>> \in done, NEW x \in setDirtyBlockIndex
        PROVE  <<"index", x>> \in done
    <2>1. Rank(<<"index", x>>) < Rank(<<"coins", 0>>)
      BY <1>3, <1>4
    <2>2. QED
      BY <1>1, <1>2, <1>6, <2>1, Zenon
  <1>7. QED
    BY <1>1, <1>2, <1>5, <1>6, Zenon

\* What is known of the block database d after the writes done.
Written(d, done) ==
  /\ d.files \in [File -> Info] /\ d.last \in File
  /\ DOMAIN d.index \subseteq DOMAIN index /\ DOMAIN db.index \subseteq DOMAIN d.index
  /\ \A x \in DOMAIN d.index :
       /\ d.index[x] \in Pos
       /\ d.index[x] = IF <<"index", x>> \in done THEN index[x] ELSE db.index[x]
       /\ <<"index", x>> \notin done => x \in DOMAIN db.index
       /\ index[x].nFile = d.index[x].nFile /\ index[x].nDataPos = d.index[x].nDataPos
       /\ d.index[x].nUndoPos # None => index[x].nUndoPos = d.index[x].nUndoPos
       /\ x \in DOMAIN db.index /\ db.index[x].nUndoPos # None => d.index[x].nUndoPos # None
  /\ \A x \in setDirtyBlockIndex : <<"index", x>> \in done => x \in DOMAIN d.index
  /\ \A f \in File :
       /\ d.files[f].nSize <= vinfoBlockFile[f].nSize
       /\ d.files[f].nUndoSize <= vinfoBlockFile[f].nUndoSize
       /\ db.files[f].nSize <= d.files[f].nSize
       /\ db.files[f].nUndoSize <= d.files[f].nUndoSize
  /\ Within(d.files, d.index)
  /\ \A c : /\ AllData(c, index) => AllData(c, d.index)
            /\ AllUndo(c, index) => AllUndo(c, d.index)

\* The block database after part of the writes.
LEMMA DbAfterFacts ==
  ASSUME IInv, NEW done \in Prefixes
  PROVE  Written(DbAfter(done), done)
  <1> DEFINE d == DbAfter(done)
  <1>1. /\ d.files = [f \in File |-> IF <<"file", f>> \in done THEN vinfoBlockFile[f] ELSE db.files[f]]
        /\ d.last = IF <<"last", 0>> \in done THEN nLastBlockFile ELSE db.last
        /\ d.index = [b \in DOMAIN db.index \cup {x \in setDirtyBlockIndex : <<"index", x>> \in done} |->
                        IF <<"index", b>> \in done THEN index[b] ELSE db.index[b]]
    BY Zenon DEF DbAfter
  <1> HIDE DEF d
  <1>2. TypeOK /\ IndexInv /\ SizeInv
    BY Zenon DEF IInv
  <1>3. d.files \in [File -> Info] /\ d.last \in File
    BY <1>1, <1>2 DEF TypeOK
  <1>4. setDirtyBlockIndex \subseteq DOMAIN index /\ DOMAIN db.index \subseteq DOMAIN index
    BY <1>2, Zenon DEF TypeOK, IndexInv
  <1>5. DOMAIN d.index \subseteq DOMAIN index /\ DOMAIN db.index \subseteq DOMAIN d.index
    BY <1>1, <1>4, Zenon
  <1>6. ASSUME NEW x \in DOMAIN d.index
        PROVE  /\ d.index[x] \in Pos
               /\ d.index[x] = IF <<"index", x>> \in done THEN index[x] ELSE db.index[x]
               /\ <<"index", x>> \notin done => x \in DOMAIN db.index
               /\ index[x].nFile = d.index[x].nFile /\ index[x].nDataPos = d.index[x].nDataPos
               /\ d.index[x].nUndoPos # None => index[x].nUndoPos = d.index[x].nUndoPos
               /\ x \in DOMAIN db.index /\ db.index[x].nUndoPos # None => d.index[x].nUndoPos # None
    <2>1. d.index[x] = IF <<"index", x>> \in done THEN index[x] ELSE db.index[x]
      BY <1>1, Zenon
    <2>2. <<"index", x>> \notin done => x \in DOMAIN db.index
      BY <1>1, Zenon
    <2>3. index[x] \in Pos /\ (x \in DOMAIN db.index => db.index[x] \in Pos)
      BY <1>2, <1>5, Zenon DEF TypeOK
    <2>4. QED
      BY <1>2, <2>1, <2>2, <2>3, Zenon DEF IndexInv
  <1>7. \A f \in File :
          /\ d.files[f].nSize <= vinfoBlockFile[f].nSize
          /\ d.files[f].nUndoSize <= vinfoBlockFile[f].nUndoSize
          /\ db.files[f].nSize <= d.files[f].nSize
          /\ db.files[f].nUndoSize <= d.files[f].nUndoSize
    BY <1>1, <1>2 DEF TypeOK, SizeInv, Info
  <1>8. ASSUME NEW x \in DOMAIN d.index
        PROVE  /\ d.index[x].nDataPos + BlockSize[x] <= d.files[d.index[x].nFile].nSize
               /\ d.index[x].nUndoPos # None => d.index[x].nUndoPos < d.files[d.index[x].nFile].nUndoSize
    <2>1. x \in DOMAIN index /\ x \in Block /\ index[x] \in Pos
      BY <1>2, <1>5, Zenon DEF TypeOK
    <2>2. CASE <<"index", x>> \in done
      <3>1. x \in setDirtyBlockIndex /\ \A f \in setDirtyFileInfo : <<"file", f>> \in done
        BY <1>2, <2>2, PrefixFacts, Zenon
      <3>2. <<"file", index[x].nFile>> \in done /\ index[x].nFile \in File
        BY <1>2, <2>1, <3>1, Zenon DEF IndexInv, Pos
      <3>3. d.files[index[x].nFile] = vinfoBlockFile[index[x].nFile] /\ d.index[x] = index[x]
        BY <1>1, <1>6, <2>2, <3>2, Zenon
      <3>4. QED
        BY <1>2, <2>1, <3>3, Zenon DEF SizeInv, Within
    <2>3. CASE <<"index", x>> \notin done
      <3>1. x \in DOMAIN db.index /\ d.index[x] = db.index[x] /\ db.index[x] \in Pos
        BY <1>2, <1>6, <2>3, Zenon DEF TypeOK
      <3>2. db.files \in [File -> Info] /\ Within(db.files, db.index)
        BY <1>2, Zenon DEF TypeOK, SizeInv
      <3>3. QED
        BY <1>3, <1>7, <2>1, <3>1, <3>2, SizesGrow, Zenon
    <2>4. QED
      BY <2>2, <2>3, Zenon
  <1>9. \A x \in setDirtyBlockIndex : <<"index", x>> \in done => x \in DOMAIN d.index
    BY <1>1, Zenon
  <1>10. ASSUME NEW c, AllData(c, index), NEW x \in DOMAIN d.index PROVE DataAt(c, d.index, x)
    BY <1>5, <1>6, <1>10, ZenonT(30) DEF AllData, DataAt
  <1>11. ASSUME NEW c, AllUndo(c, index), NEW x \in DOMAIN d.index, d.index[x].nUndoPos # None
         PROVE  UndoAt(c, d.index, x)
    BY <1>5, <1>6, <1>11, Zenon DEF AllUndo, UndoAt
  <1>12. \A c : /\ AllData(c, index) => AllData(c, d.index)
                /\ AllUndo(c, index) => AllUndo(c, d.index)
    BY <1>10, <1>11, Zenon DEF AllData, AllUndo
  <1>13. Within(d.files, d.index)
    BY <1>8, Zenon DEF Within
  <1>14. QED
    <2>1. Written(d, done)
      BY <1>3, <1>5, <1>6, <1>7, <1>9, <1>12, <1>13, Zenon DEF Written
    <2>2. QED
      BY <2>1, Zenon DEF d

\* FlushBlockFile commits what was missing: all data the index names is on disk.
LEMMA FlushBlockFileFacts ==
  ASSUME IInv, FlushBlockFile(FALSE)
  PROVE  {blkDisk', revDisk'} \subseteq Contents /\ AllData(blkDisk', index)
  <1>1. nLastBlockFile \in File /\ {blk, rev, blkDisk, revDisk} \subseteq Contents
    BY Zenon DEF IInv, TypeOK
  <1>2. /\ blkDisk' = [blkDisk EXCEPT ![nLastBlockFile] = blk[nLastBlockFile]]
        /\ revDisk' = [revDisk EXCEPT ![nLastBlockFile] = rev[nLastBlockFile]]
    BY Zenon DEF FlushBlockFile
  <1>3. {blkDisk', revDisk'} \subseteq Contents
    BY <1>1, <1>2 DEF Contents
  <1>4. \A f \in File : blkDisk'[f] = IF f = nLastBlockFile THEN blk[f] ELSE blkDisk[f]
    BY <1>1, <1>2, Zenon DEF Contents
  <1>5. ASSUME NEW x \in DOMAIN index PROVE DataAt(blkDisk', index, x)
    <2>1. /\ index[x].nFile \in File /\ DataAt(blk, index, x)
          /\ index[x].nFile # nLastBlockFile => DataAt(blkDisk, index, x)
      BY UnitsBelow, Zenon DEF IInv, FileInv, AllData
    <2>2. QED
      BY <1>4, <2>1, Zenon DEF DataAt
  <1>6. QED
    BY <1>3, <1>5, Zenon DEF AllData

\* The coins on disk are covered by the index on disk wherever the flush stops.
LEMMA FlushCovers ==
  ASSUME IInv, NEW done \in Prefixes, NEW c \in bestPast \cup {best, BestAfter(done)}
  PROVE  c \in Block /\ Covered(c, DbAfter(done).index)
  <1> DEFINE d == DbAfter(done)
  <1>0. Written(d, done)
    BY DbAfterFacts, Zenon
  <1> HIDE DEF d
  <1>1. /\ DOMAIN db.index \subseteq DOMAIN d.index
        /\ \A x \in DOMAIN d.index :
             /\ d.index[x] = IF <<"index", x>> \in done THEN index[x] ELSE db.index[x]
             /\ x \in DOMAIN db.index /\ db.index[x].nUndoPos # None => d.index[x].nUndoPos # None
        /\ \A x \in setDirtyBlockIndex : <<"index", x>> \in done => x \in DOMAIN d.index
    BY <1>0, Zenon DEF Written
  <1>2. CASE c \in bestPast \cup {best}
    BY <1>1, <1>2, Zenon DEF IInv, TypeOK, CoinsCovered, Covered, d
  <1>3. CASE c = BestAfter(done) /\ c \notin bestPast \cup {best}
    <2>1. <<"coins", 0>> \in done /\ c = tip
      BY <1>3, Zenon DEF BestAfter
    <2>2. \A x \in setDirtyBlockIndex : <<"index", x>> \in done
      BY <2>1, PrefixFacts, Zenon DEF IInv
    <2>3. ASSUME NEW x \in DOMAIN index PROVE x \in DOMAIN d.index /\ d.index[x] = index[x]
      <3>1. CASE x \in setDirtyBlockIndex
        BY <1>1, <2>2, <3>1, Zenon
      <3>2. CASE x \notin setDirtyBlockIndex
        BY <1>1, <3>2, Zenon DEF IInv, IndexInv
      <3>3. QED
        BY <3>1, <3>2, Zenon
    <2>4. QED
      BY <2>1, <2>3, Zenon DEF IInv, TypeOK, Covered, d
  <1>4. QED
    BY <1>2, <1>3, Zenon

\* After a restart the memory is what the disk says.
LEMMA LoadIInv ==
  ASSUME LoadBlockIndexDB,
         db'.files \in [File -> Info], db'.last \in File,
         DOMAIN db'.index \subseteq Block, \A x \in DOMAIN db'.index : db'.index[x] \in Pos,
         best' \in Block, bestPast' = {best'}, Covered(best', db'.index),
         {blk', rev', blkDisk', revDisk'} \subseteq Contents,
         Within(db'.files, db'.index),
         AllData(blk', db'.index), AllData(blkDisk', db'.index),
         nPower' \in Nat, nPower' = 0 => AllUndo(rev', db'.index)
  PROVE  IInv'
  <1>1. /\ index' = db'.index /\ vinfoBlockFile' = db'.files /\ nLastBlockFile' = db'.last
        /\ setDirtyFileInfo' = {} /\ setDirtyBlockIndex' = {} /\ tip' = best'
    BY Zenon DEF LoadBlockIndexDB
  <1>2. TypeOK'
    BY <1>1, Zenon DEF TypeOK
  <1>3. IndexInv'
    BY <1>1, Zenon DEF IndexInv
  <1>4. \A f \in File : db'.files[f].nSize \in Nat /\ db'.files[f].nUndoSize \in Nat
    BY FilesAssumption DEF Info
  <1>5. SizeInv'
    BY <1>1, <1>4 DEF SizeInv
  <1>6. FileInv'
    BY <1>1, Zenon DEF FileInv, AllData
  <1>7. Covered(tip', index') /\ CoinsCovered'
    BY <1>1, Zenon DEF Covered, CoinsCovered
  <1>8. QED
    BY <1>2, <1>3, <1>5, <1>6, <1>7, Zenon DEF IInv

\* The complete flush is one of the prefixes.
LEMMA ItemsPrefix == Items \in Prefixes
  BY Zenon DEF Prefixes

\* FlushStateToDisk: afterwards the index on disk is the one in memory.
LEMMA FlushStateToDiskIInv == IInv /\ FlushStateToDisk => IInv'
  <1> SUFFICES ASSUME IInv, FlushStateToDisk PROVE IInv'
    BY Zenon
  <1> DEFINE d == DbAfter(Items)
  <1>1. /\ FlushBlockFile(FALSE) /\ db' = d /\ best' = BestAfter(Items) /\ bestPast' = bestPast \cup {best'}
        /\ setDirtyFileInfo' = {} /\ setDirtyBlockIndex' = {}
        /\ UNCHANGED <<index, vinfoBlockFile, nLastBlockFile, tip, blk, rev, nPower>>
    BY Zenon DEF FlushStateToDisk, countVars
  <1>2. Written(d, Items)
    BY DbAfterFacts, ItemsPrefix, Zenon
  <1>3. \A c \in bestPast' \cup {best'} : c \in Block /\ Covered(c, d.index)
    BY <1>1, FlushCovers, ItemsPrefix, Zenon DEF IInv, TypeOK
  <1>4. {blkDisk', revDisk'} \subseteq Contents /\ AllData(blkDisk', index)
    BY <1>1, FlushBlockFileFacts, Zenon
  <1> HIDE DEF d
  <1>5. TypeOK'
    <2>1. DOMAIN d.index \subseteq Block
      BY <1>2, Zenon DEF IInv, TypeOK, Written
    <2>2. best' \in Block /\ bestPast' \subseteq Block
      BY <1>1, <1>3, Zenon
    <2>3. QED
      BY <1>1, <1>2, <1>4, <2>1, <2>2, Zenon DEF IInv, TypeOK, Written
  <1>6. ASSUME NEW x \in DOMAIN index PROVE x \in DOMAIN d.index /\ d.index[x] = index[x]
    <2>1. CASE x \in setDirtyBlockIndex
      <3>1. <<"index", x>> \in Items
        BY <2>1, Zenon DEF Items
      <3>2. QED
        BY <1>2, <2>1, <3>1, Zenon DEF Written
    <2>2. CASE x \notin setDirtyBlockIndex
      BY <1>2, <2>2, Zenon DEF IInv, IndexInv, Written
    <2>3. QED
      BY <2>1, <2>2, Zenon
  <1>7. IndexInv'
    BY <1>1, <1>2, <1>6, Zenon DEF IndexInv, Written
  <1>8. SizeInv'
    BY <1>1, <1>2, Zenon DEF IInv, SizeInv, Written
  <1>9. FileInv'
    <2>1. AllData(blkDisk', d.index)
      BY <1>2, <1>4, Zenon DEF Written
    <2>2. QED
      BY <1>1, <1>4, <2>1, Zenon DEF IInv, FileInv, AllData
  <1>10. Covered(tip', index') /\ CoinsCovered'
    BY <1>1, <1>3, Zenon DEF IInv, Covered, CoinsCovered
  <1>11. QED
    BY <1>1, <1>5, <1>7, <1>8, <1>9, <1>10, Zenon DEF IInv

\* The data and undo data that the index on disk names can be read.
LEMMA DbReadable ==
  ASSUME IInv
  PROVE  /\ AllData(blk, db.index) /\ AllData(blkDisk, db.index)
         /\ nPower = 0 => AllUndo(rev, db.index)
  BY DEF IInv, IndexInv, FileInv, AllData, AllUndo, DataAt, UndoAt

\* Crash: the index on disk names data that was there before.
LEMMA CrashIInv == IInv /\ Crash => IInv'
  <1> SUFFICES ASSUME IInv, Crash PROVE IInv'
    BY Zenon
  <1>1. /\ LoadBlockIndexDB /\ bestPast' = {best'}
        /\ UNCHANGED <<blk, rev, blkDisk, revDisk, db, best, nPower>>
    BY Zenon DEF Crash
  <1>2. /\ AllData(blk, db.index)
        /\ nPower = 0 => AllUndo(rev, db.index)
    BY DbReadable, Zenon
  <1>3. /\ db.files \in [File -> Info] /\ db.last \in File
        /\ DOMAIN db.index \subseteq Block /\ \A x \in DOMAIN db.index : db.index[x] \in Pos
        /\ best \in Block /\ {blk, rev, blkDisk, revDisk} \subseteq Contents
    BY Zenon DEF IInv, TypeOK
  <1>4. Covered(best, db.index) /\ Within(db.files, db.index) /\ AllData(blkDisk, db.index) /\ nPower \in Nat
    BY Zenon DEF IInv, CoinsCovered, Covered, SizeInv, FileInv
  <1>5. QED
    BY <1>1, <1>2, <1>3, <1>4, LoadIInv, Zenon

\* CrashInFlush: the databases hold a prefix of the writes.
LEMMA CrashInFlushIInv == IInv /\ CrashInFlush => IInv'
  <1> SUFFICES ASSUME IInv, CrashInFlush, NEW done \in Prefixes,
                      db' = DbAfter(done), best' = BestAfter(done)
               PROVE  IInv'
    BY Zenon DEF CrashInFlush
  <1>1. /\ FlushBlockFile(FALSE) /\ LoadBlockIndexDB /\ bestPast' = {best'}
        /\ UNCHANGED <<blk, rev, nPower>>
    BY Zenon DEF CrashInFlush
  <1> DEFINE d == DbAfter(done)
  <1>2. Written(d, done)
    BY DbAfterFacts, Zenon
  <1>3. best' \in Block /\ Covered(best', d.index)
    BY FlushCovers, Zenon
  <1>4. {blkDisk', revDisk'} \subseteq Contents /\ AllData(blkDisk', index)
    BY <1>1, FlushBlockFileFacts, Zenon
  <1>5. db' = d
    BY Zenon
  <1> HIDE DEF d
  <1>6. d.files \in [File -> Info] /\ d.last \in File /\ Within(d.files, d.index)
    BY <1>2, Zenon DEF Written
  <1>7. \A x \in DOMAIN d.index : x \in Block /\ d.index[x] \in Pos
    BY <1>2, Zenon DEF IInv, TypeOK, Written
  <1>8. AllData(blkDisk', d.index) /\ AllData(blk, d.index) /\ (nPower = 0 => AllUndo(rev, d.index))
    BY <1>2, <1>4, Zenon DEF IInv, FileInv, Written
  <1>9. {blk, rev} \subseteq Contents /\ nPower \in Nat
    BY Zenon DEF IInv, TypeOK
  <1>10. QED
    BY <1>1, <1>3, <1>4, <1>5, <1>6, <1>7, <1>8, <1>9, LoadIInv, Zenon

\* A unit of a file that survives is as committed or as written.
LEMMA SurvivorFacts ==
  ASSUME NEW disk \in Contents, NEW cache \in Contents, NEW c \in Survivors(disk, cache)
  PROVE  /\ c \in Contents
         /\ \A f \in File, o \in Offset : c[f][o] = disk[f][o] \/ c[f][o] = cache[f][o]
  <1>1. PICK S : c = [f \in File |-> [o \in Offset |-> IF <<f, o>> \in S THEN cache[f][o] ELSE disk[f][o]]]
    BY Zenon DEF Survivors
  <1>2. QED
    BY <1>1, Zenon DEF Contents

\* PowerFails: the data the index on disk names was committed, so it survives.
LEMMA PowerFailsIInv == IInv /\ PowerFails => IInv'
  <1> SUFFICES ASSUME IInv, PowerFails PROVE IInv'
    BY Zenon
  <1>1. /\ blkDisk' \in Survivors(blkDisk, blk) /\ blk' = blkDisk'
        /\ revDisk' \in Survivors(revDisk, rev) /\ rev' = revDisk'
        /\ db' = db /\ best' \in bestPast /\ bestPast' = {best'}
        /\ nPower' = nPower + 1 /\ LoadBlockIndexDB
    BY Zenon DEF PowerFails
  <1>2. /\ db.files \in [File -> Info] /\ db.last \in File
        /\ DOMAIN db.index \subseteq Block /\ \A x \in DOMAIN db.index : db.index[x] \in Pos
        /\ best' \in Block /\ {blk, rev, blkDisk, revDisk} \subseteq Contents
    BY <1>1, Zenon DEF IInv, TypeOK
  <1>3. {blk', rev', blkDisk', revDisk'} \subseteq Contents
    BY <1>1, <1>2, SurvivorFacts, Zenon
  <1>4. ASSUME NEW x \in DOMAIN db.index PROVE DataAt(blkDisk', db.index, x)
    <2>1. DataAt(blk, db.index, x) /\ DataAt(blkDisk, db.index, x)
      BY DbReadable, Zenon DEF AllData
    <2>2. db.index[x].nFile \in File
      BY <1>2, Zenon DEF Pos
    <2>3. ASSUME NEW o \in Range(db.index[x].nDataPos, BlockSize[x]) PROVE o \in Offset
      <3>1. x \in Block /\ db.index[x].nDataPos \in Nat /\ BlockSize[x] \in Nat
        BY <1>2, FilesAssumption DEF Pos, Offset
      <3>2. db.index[x].nDataPos + BlockSize[x] <= db.files[db.index[x].nFile].nSize
        BY Zenon DEF IInv, SizeInv, Within
      <3>3. db.files[db.index[x].nFile].nSize \in 0 .. MaxOffset + 1
        BY <1>2, <2>2, Zenon DEF Info
      <3>4. QED
        BY <2>3, <3>1, <3>2, <3>3, FilesAssumption DEF Range, Offset
    <2>4. ASSUME NEW o \in Range(db.index[x].nDataPos, BlockSize[x])
          PROVE  blkDisk'[db.index[x].nFile][o] = x
      <3>1. \/ blkDisk'[db.index[x].nFile][o] = blkDisk[db.index[x].nFile][o]
            \/ blkDisk'[db.index[x].nFile][o] = blk[db.index[x].nFile][o]
        BY <1>1, <1>2, <2>2, <2>3, SurvivorFacts
      <3>2. blk[db.index[x].nFile][o] = x /\ blkDisk[db.index[x].nFile][o] = x
        BY <2>1, Zenon DEF DataAt
      <3>3. QED
        BY <3>1, <3>2, Zenon
    <2>5. QED
      BY <2>4, Zenon DEF DataAt
  <1>5. Covered(best', db.index)
    BY <1>1, Zenon DEF IInv, CoinsCovered, Covered
  <1>6. Within(db.files, db.index) /\ nPower \in Nat /\ nPower' \in Nat /\ nPower' # 0
    BY <1>1 DEF IInv, SizeInv
  <1>7. AllData(blkDisk', db'.index) /\ AllData(blk', db'.index)
    BY <1>1, <1>4, Zenon DEF AllData
  <1>8. QED
    BY <1>1, <1>2, <1>3, <1>5, <1>6, <1>7, LoadIInv, Zenon

\* Steps that change nothing keep the invariant.
LEMMA StutterIInv == IInv /\ UNCHANGED vars => IInv'
  <1> SUFFICES ASSUME IInv, UNCHANGED vars PROVE IInv'
    BY Zenon
  <1> USE DEF vars, memVars, diskVars, countVars
  <1>1. TypeOK'
    BY Zenon DEF IInv, TypeOK
  <1>2. IndexInv'
    BY Zenon DEF IInv, IndexInv
  <1>3. SizeInv'
    BY Zenon DEF IInv, SizeInv, Within
  <1>4. FileInv'
    BY Zenon DEF IInv, FileInv, AllData, AllUndo, DataAt, UndoAt
  <1>5. Covered(tip, index)' /\ CoinsCovered' /\ nPower' \in Nat
    BY Zenon DEF IInv, Covered, CoinsCovered
  <1>6. QED
    BY <1>1, <1>2, <1>3, <1>4, <1>5, Zenon DEF IInv

\* Every step keeps the invariant.
LEMMA NextIInv == IInv /\ [Next]_vars => IInv'
  <1> SUFFICES ASSUME IInv, [Next]_vars PROVE IInv'
    BY Zenon
  <1>1. ASSUME NEW b \in Block, AcceptBlock(b) PROVE IInv'
    BY <1>1, AcceptBlockIInv, Zenon
  <1>2. ASSUME NEW b \in Block, AcceptBlockFails(b) PROVE IInv'
    BY <1>2, AcceptBlockFailsIInv, Zenon
  <1>3. ASSUME NEW b \in Block, ConnectTip(b) PROVE IInv'
    BY <1>3, ConnectTipIInv, Zenon
  <1>4. ASSUME NEW b \in Block, ConnectTipFails(b) PROVE IInv'
    BY <1>4, ConnectTipFailsIInv, Zenon
  <1>5. CASE DisconnectTip
    BY <1>5, DisconnectTipIInv, Zenon
  <1>6. CASE FlushStateToDisk
    BY <1>6, FlushStateToDiskIInv, Zenon
  <1>7. CASE Crash
    BY <1>7, CrashIInv, Zenon
  <1>8. CASE CrashInFlush
    BY <1>8, CrashInFlushIInv, Zenon
  <1>9. CASE PowerFails
    BY <1>9, PowerFailsIInv, Zenon
  <1>10. CASE UNCHANGED vars
    BY <1>10, StutterIInv, Zenon
  <1>11. QED
    BY <1>1, <1>2, <1>3, <1>4, <1>5, <1>6, <1>7, <1>8, <1>9, <1>10, Zenon DEF Next

\* The invariant holds in every reachable state.
LEMMA Inductive == Spec => []IInv
  BY InitIInv, NextIInv, PTL DEF Spec

-----------------------------------------------------------------------------
\* The positions, sizes, files and databases of main.cpp keep their types; a position
\* never leaves its file.
THEOREM TypeCorrect == Spec => []TypeOK
  <1>1. IInv => TypeOK
    BY Zenon DEF IInv
  <1>2. QED
    BY <1>1, Inductive, PTL

\* Whatever the sizes of the blocks and wherever the program or the power stops,
\* FindBlockPos and FlushStateToDisk keep every block of the index on disk readable.
THEOREM StoredBlocksKept == Spec => []DataKept
  <1>1. IInv => DataKept
    BY DbReadable, Zenon DEF AllData, DataKept
  <1>2. QED
    BY <1>1, Inductive, PTL

\* FlushStateToDisk writes the coins last: wherever it stops, LoadBlockIndexDB finds the
\* chain of the coins with an undo position for every block.
THEOREM CoinsAreCovered == Spec => []CoinsCovered
  <1>1. IInv => CoinsCovered
    BY Zenon DEF IInv
  <1>2. QED
    BY <1>1, Inductive, PTL

\* DisconnectTip can read the undo data of every block of the active chain after any
\* number of crashes of the program.
THEOREM UndoIsReadable == Spec => []UndoReadable
  <1>1. IInv => UndoReadable
    BY Zenon DEF IInv, FileInv, AllUndo, Covered, UndoReadable
  <1>2. QED
    BY <1>1, Inductive, PTL

=============================================================================
