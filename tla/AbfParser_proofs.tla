-------------------------- MODULE AbfParser_proofs --------------------------
(***************************************************************************)
(* What get_sqlite hands out, for every file, every number of trailing     *)
(* blocks, and any block size and integer width.                           *)
(***************************************************************************)
EXTENDS AbfParser, SequenceTheorems, TLAPS

USE BlockSizeAssumption, ModulusAssumption

-----------------------------------------------------------------------------
(* Arithmetic of blocks.                                                   *)

\* Multiplication by the block size is monotonic.
LEMMA BlocksMonotonic ==
    ASSUME NEW a \in Int, NEW b \in Int, a <= b
    PROVE  a * BlockSize <= b * BlockSize
OBVIOUS

\* The number of blocks is the length divided by the block size, rounded up.
LEMMA NumBlocksRoundsUp ==
    ASSUME NEW f, f.length \in Nat \ {0}
    PROVE  /\ NumBlocks(f) \in Nat \ {0}
           /\ (NumBlocks(f) - 1) * BlockSize < f.length
           /\ f.length <= NumBlocks(f) * BlockSize
<1> DEFINE sum == f.length + BlockSize - 1
<1>1. sum \in Nat /\ sum >= BlockSize
  OBVIOUS
<1>2. /\ sum \div BlockSize \in Int
      /\ BlockSize * (sum \div BlockSize) <= sum
      /\ sum < BlockSize * (sum \div BlockSize) + BlockSize
  <2> HIDE DEF sum
  <2> QED
    BY <1>1
<1>3. NumBlocks(f) = sum \div BlockSize
  BY DEF NumBlocks
<1> HIDE DEF sum
<1> DEFINE n == NumBlocks(f)
<1>4. n \in Int /\ BlockSize * n <= sum /\ sum < BlockSize * n + BlockSize
  BY <1>2, <1>3
<1>5. sum = f.length + BlockSize - 1
  BY DEF sum
<1> HIDE DEF n
<1>6. n > 0
  BY <1>1, <1>4
<1>7. (n - 1) * BlockSize = n * BlockSize - BlockSize
  BY <1>4
<1> QED
  BY <1>4, <1>5, <1>6, <1>7 DEF n

\* A block of the file has bytes, and with it the model is read that far.
LEMMA BlockEnds ==
    ASSUME NEW f, f.length \in Nat \ {0},
           NEW k \in Nat, k < NumBlocks(f)
    PROVE  /\ BlockStart(k + 1) = ModelRead(f, k)
           /\ ModelRead(f, k) \in Nat
           /\ BlockLen(f, k + 1) \in Nat \ {0}
           /\ ModelRead(f, k + 1) = ModelRead(f, k) + BlockLen(f, k + 1)
           /\ ModelRead(f, k + 1) \in Nat
<1> DEFINE n == NumBlocks(f)
<1>1. n \in Nat /\ (n - 1) * BlockSize < f.length /\ f.length <= n * BlockSize
  BY NumBlocksRoundsUp
<1>2. k < n
  OBVIOUS
<1>3. BlockStart(k + 1) = k * BlockSize /\ ModelRead(f, k) = k * BlockSize
  BY DEF BlockStart, ModelRead
<1>4. k * BlockSize \in Nat /\ (k + 1) * BlockSize = k * BlockSize + BlockSize
  OBVIOUS
<1> HIDE DEF n
<1>5. CASE k + 1 < n
  <2>1. (k + 1) * BlockSize <= (n - 1) * BlockSize
    BY <1>1, <1>5, BlocksMonotonic
  <2>2. (k + 1) * BlockSize <= f.length
    <3>1. (n - 1) * BlockSize \in Int /\ (k + 1) * BlockSize \in Int
      BY <1>1
    <3> QED
      BY <2>1, <3>1, <1>1
  <2>3. BlockLen(f, k + 1) = BlockSize
    BY <2>2 DEF BlockLen
  <2>4. ModelRead(f, k + 1) = (k + 1) * BlockSize
    BY <1>5 DEF ModelRead, n
  <2> QED
    BY <2>3, <2>4, <1>3, <1>4
<1>6. CASE k + 1 = n
  <2>1. k = n - 1
    BY <1>1, <1>6
  <2>2. k * BlockSize < f.length /\ f.length <= (k + 1) * BlockSize
    BY <2>1, <1>1, <1>6
  <2>3. ModelRead(f, k + 1) = f.length
    BY <1>6 DEF ModelRead, n
  <2>4. BlockLen(f, k + 1) = f.length - k * BlockSize
    BY <2>2, <1>3, <1>4 DEF BlockLen
  <2> QED
    BY <2>2, <2>3, <2>4, <1>3, <1>4
<1> QED
  BY <1>1, <1>2, <1>5, <1>6

-----------------------------------------------------------------------------
(* Files and buffers.                                                      *)

\* A stretch of the model is a sequence of its length.
LEMMA ModelBytesSeq ==
    ASSUME NEW from \in Nat, NEW n \in Nat
    PROVE  /\ ModelBytes(from, n) \in Seq(Nat)
           /\ Len(ModelBytes(from, n)) = n
           /\ \A i \in 1..n : ModelBytes(from, n)[i] = from + i - 1
<1>1. \A i \in 1..n : from + i - 1 \in Nat
  OBVIOUS
<1> QED
  BY <1>1 DEF ModelBytes

LEMMA FileIsWellFormed ==
    ASSUME TypeOK
    PROVE  /\ WellFormed(file)
           /\ file \in FileRecords
           /\ file.length \in Nat \ {0}
           /\ NumBlocks(file) \in Nat \ {0}
<1>1. WellFormed(file)
  BY FilesAssumption DEF TypeOK
<1>2. file \in FileRecords /\ file.length \in Nat \ {0}
  BY <1>1 DEF WellFormed, FileRecords
<1> QED
  BY <1>1, <1>2, NumBlocksRoundsUp

LEMMA FirstSession ==
    ASSUME TypeOK
    PROVE  HeaderOf(file, 1).session \in Int
<1>1. WellFormed(file)
  BY FileIsWellFormed
<1>2. CASE file.format = "single"
  BY <1>2 DEF HeaderOf
<1>3. CASE file.format = "multi"
  <2>1. /\ file.headBlocks \in Nat \ {0} /\ file.tailBlocks \in Nat \ {0}
        /\ file.heads \in Nat
    BY <1>1, <1>3 DEF WellFormed, FileRecords
  <2> DEFINE head == file.heads * file.headBlocks
  <2>2. head \in Nat
    BY <2>1
  <2>3. HeaderOf(file, 1).session =
           IF 1 <= head THEN 0 \div file.headBlocks
                        ELSE file.heads + (1 - 1 - head) \div file.tailBlocks
    BY <1>3 DEF HeaderOf
  <2> HIDE DEF head
  <2>4. 0 \div file.headBlocks \in Int /\ (1 - 1 - head) \div file.tailBlocks \in Int
    BY <2>1, <2>2
  <2> QED
    BY <2>1, <2>3, <2>4
<1> QED
  BY <1>1, <1>2, <1>3 DEF WellFormed, FileRecords

\* The block behind the bytes read so far.
LEMMA NextBlock ==
    ASSUME TypeOK, BlocksLeft
    PROVE  /\ bytesRead \in Nat
           /\ bytesRead + 1 \in 0..NumBlocks(file)
           /\ BlockStart(filePos) = ModelRead(file, bytesRead)
           /\ BlockLen(file, filePos) \in Nat \ {0}
           /\ ModelRead(file, bytesRead) \in Nat
           /\ ModelRead(file, bytesRead + 1)
                = ModelRead(file, bytesRead) + BlockLen(file, filePos)
           /\ BlockBytes(file, filePos) \in Seq(Nat)
           /\ Len(BlockBytes(file, filePos)) = BlockLen(file, filePos)
           /\ \A i \in 1..BlockLen(file, filePos) :
                 BlockBytes(file, filePos)[i] = ModelRead(file, bytesRead) + i - 1
<1>1. /\ bytesRead \in Nat /\ filePos = bytesRead + 1
      /\ file.length \in Nat \ {0} /\ NumBlocks(file) \in Nat
      /\ bytesRead < NumBlocks(file)
  BY FileIsWellFormed DEF TypeOK, BlocksLeft
<1>2. /\ BlockStart(bytesRead + 1) = ModelRead(file, bytesRead)
      /\ ModelRead(file, bytesRead) \in Nat
      /\ BlockLen(file, bytesRead + 1) \in Nat \ {0}
      /\ ModelRead(file, bytesRead + 1)
           = ModelRead(file, bytesRead) + BlockLen(file, bytesRead + 1)
  BY <1>1, BlockEnds
<1>3. BlockBytes(file, filePos)
        = ModelBytes(ModelRead(file, bytesRead), BlockLen(file, filePos))
  BY <1>1, <1>2 DEF BlockBytes
<1>4. bytesRead + 1 \in 0..NumBlocks(file)
  BY <1>1
<1>5. /\ BlockLen(file, filePos) \in Nat \ {0}
      /\ BlockStart(filePos) = ModelRead(file, bytesRead)
      /\ ModelRead(file, bytesRead + 1)
           = ModelRead(file, bytesRead) + BlockLen(file, filePos)
  BY <1>1, <1>2
<1>6. /\ BlockBytes(file, filePos) \in Seq(Nat)
      /\ Len(BlockBytes(file, filePos)) = BlockLen(file, filePos)
      /\ \A i \in 1..BlockLen(file, filePos) :
            BlockBytes(file, filePos)[i] = ModelRead(file, bytesRead) + i - 1
  <2> DEFINE from == ModelRead(file, bytesRead)
             n == BlockLen(file, filePos)
  <2>1. from \in Nat /\ n \in Nat /\ BlockBytes(file, filePos) = ModelBytes(from, n)
    BY <1>2, <1>3, <1>5
  <2> HIDE DEF from, n
  <2>2. /\ ModelBytes(from, n) \in Seq(Nat)
        /\ Len(ModelBytes(from, n)) = n
        /\ \A i \in 1..n : ModelBytes(from, n)[i] = from + i - 1
    BY <2>1, ModelBytesSeq
  <2>3. /\ BlockBytes(file, filePos) \in Seq(Nat)
        /\ Len(BlockBytes(file, filePos)) = n
        /\ \A i \in 1..n : BlockBytes(file, filePos)[i] = from + i - 1
    BY <2>1, <2>2
  <2> QED
    BY <2>3 DEF from, n
<1> QED
  BY <1>1, <1>2, <1>4, <1>5, <1>6

-----------------------------------------------------------------------------
(* The invariant holds initially and is kept by every step.                *)

LEMMA InitBufferInv == Init => BufferInv
<1> SUFFICES ASSUME Init PROVE BufferInv
  OBVIOUS
<1>1. file \in Files /\ NumBlocks(file) \in Nat
  BY FilesAssumption, NumBlocksRoundsUp DEF Init, WellFormed, FileRecords
<1>2. TypeOK
  BY <1>1 DEF Init, TypeOK
<1>3. FirstBlockRead /\ InSession /\ SkippedFirst /\ Accounted /\ BufferMapsModel
  BY DEF Init, FirstBlockRead, InSession, SkippedFirst, Accounted, BufferMapsModel
<1> QED
  BY <1>2, <1>3 DEF BufferInv

LEMMA InitialBufferInv == BufferInv /\ DecompressInitial => BufferInv'
<1> SUFFICES ASSUME BufferInv, DecompressInitial PROVE BufferInv'
  OBVIOUS
<1>1. TypeOK /\ bytesRead = 0 /\ filePos = 1 /\ skipOffset = 0 /\ kept = <<>>
  BY DEF BufferInv, TypeOK, FirstBlockRead, DecompressInitial
<1>2. BlocksLeft
  BY <1>1, FileIsWellFormed DEF BlocksLeft
<1> DEFINE first == BlockBytes(file, 1)
<1>3. /\ 1 \in 0..NumBlocks(file)
      /\ first \in Seq(Nat)
      /\ Len(first) = BlockLen(file, 1)
      /\ BlockLen(file, 1) \in Nat \ {0}
      /\ ModelRead(file, 0) \in Nat
      /\ ModelRead(file, 1) = ModelRead(file, 0) + BlockLen(file, 1)
      /\ \A i \in 1..BlockLen(file, 1) : first[i] = ModelRead(file, 0) + i - 1
  BY <1>1, <1>2, NextBlock
<1>4. ModelRead(file, 0) = 0
  BY <1>1, FileIsWellFormed DEF ModelRead
<1> HIDE DEF first
<1>5. /\ UNCHANGED <<file, trailing, blockIndex, loopCount, patchIndex,
                     skipOffset, kept, result, outcome>>
      /\ initial' = first /\ bytesRead' = 1 /\ filePos' = 2
      /\ decoder' = [index |-> 1, session |-> HeaderOf(file, 1).session]
      /\ phase' \in {"single", "head"}
      /\ phase' = "single" => file.format = "single"
  BY DEF DecompressInitial, input, FirstPhase, first
<1>6. TypeOK'
  BY <1>1, <1>3, <1>5, FirstSession DEF TypeOK
<1>7. FirstBlockRead'
  BY <1>5 DEF FirstBlockRead, first
<1>8. InSession'
  BY <1>1, <1>5 DEF InSession, BufferInv, FirstBlockRead
<1>9. SkippedFirst'
  BY <1>1, <1>5 DEF SkippedFirst
<1>10. Accounted'
  BY <1>1, <1>3, <1>4, <1>5 DEF Accounted
<1>11. BufferMapsModel'
  BY <1>1, <1>3, <1>4, <1>5 DEF BufferMapsModel
<1> QED
  BY <1>6, <1>7, <1>8, <1>9, <1>10, <1>11 DEF BufferInv

\* In the loops the first block has been read.
LEMMA LoopState ==
    ASSUME BufferInv, InLoop
    PROVE  /\ TypeOK /\ BlocksLeft
           /\ bytesRead \in Nat \ {0}
           /\ initial = BlockBytes(file, 1)
           /\ skipOffset + Len(initial) + Len(kept) = ModelRead(file, bytesRead)
<1>1. phase # "initial"
  BY DEF InLoop
<1> QED
  BY <1>1 DEF BufferInv, TypeOK, InLoop, FirstBlockRead, Accounted

LEMMA SkipBufferInv == BufferInv /\ SkipBlock => BufferInv'
<1> SUFFICES ASSUME BufferInv, SkipBlock PROVE BufferInv'
  OBVIOUS
<1>1. /\ TypeOK /\ BlocksLeft
      /\ bytesRead \in Nat \ {0}
      /\ initial = BlockBytes(file, 1)
      /\ skipOffset + Len(initial) + Len(kept) = ModelRead(file, bytesRead)
  BY LoopState DEF SkipBlock
<1>2. kept = <<>>
  BY DEF BufferInv, SkippedFirst, SkipBlock
<1>3. /\ UNCHANGED <<file, trailing, phase, patchIndex, decoder, initial, kept,
                     result, outcome>>
      /\ blockIndex' = blockIndex + 1 /\ loopCount' = loopCount + 1
      /\ bytesRead' = bytesRead + 1 /\ filePos' = bytesRead + 2
      /\ skipOffset' = skipOffset + BlockLen(file, filePos)
  BY DEF SkipBlock, input, Iterate, SkippedBytes, SeekTarget
<1>4. /\ bytesRead + 1 \in 0..NumBlocks(file)
      /\ BlockLen(file, filePos) \in Nat
      /\ ModelRead(file, bytesRead) \in Nat
      /\ ModelRead(file, bytesRead + 1)
           = ModelRead(file, bytesRead) + BlockLen(file, filePos)
  BY <1>1, NextBlock
<1>5. TypeOK'
  BY <1>1, <1>3, <1>4 DEF TypeOK
<1>6. FirstBlockRead'
  BY <1>1, <1>3 DEF FirstBlockRead, BufferInv
<1>7. InSession'
  BY <1>1, <1>3 DEF InSession, BufferInv
<1>8. SkippedFirst'
  BY <1>2, <1>3 DEF SkippedFirst
<1>9. Len(initial) \in Nat /\ Len(kept) \in Nat /\ skipOffset \in Nat
  BY <1>1 DEF TypeOK
<1>10. Accounted'
  <2>1. skipOffset' + Len(initial) + Len(kept) = ModelRead(file, bytesRead + 1)
    <3> DEFINE size == BlockLen(file, filePos)
               read == ModelRead(file, bytesRead)
    <3>1. /\ skipOffset' = skipOffset + size /\ size \in Nat
          /\ skipOffset + Len(initial) + Len(kept) = read
          /\ ModelRead(file, bytesRead + 1) = read + size
      BY <1>1, <1>3, <1>4
    <3> HIDE DEF size, read
    <3> QED
      BY <3>1, <1>9
  <2> QED
    BY <1>3, <2>1 DEF Accounted
<1>11. BufferMapsModel'
  BY <1>2, <1>3 DEF BufferMapsModel, BufferInv
<1> QED
  BY <1>5, <1>6, <1>7, <1>8, <1>10, <1>11 DEF BufferInv

\* Once a block is kept, so are the blocks behind it.
LEMMA SkippingEnds ==
    ASSUME TypeOK, ~Skips, Iterate, UNCHANGED input
    PROVE  ~Skips'
<1>1. TotalBlocks' = TotalBlocks
  BY DEF TotalBlocks, input
<1>2. TotalBlocks \in Int
  <2>1. file \in FileRecords
    BY FileIsWellFormed
  <2>2. CASE file.format = "single"
    <3>1. file.vdir.size + file.vdir.at \in Int
      BY <2>1 DEF FileRecords, Extent
    <3> QED
      BY <2>2, <3>1 DEF TotalBlocks
  <2>3. CASE file.format # "single"
    BY <2>1, <2>3 DEF TotalBlocks, FileRecords
  <2> QED
    BY <2>2, <2>3
<1>3. ToUnsigned(trailing) \in Int /\ ToUnsigned(trailing)' = ToUnsigned(trailing)
  BY TrailingsAssumption DEF TypeOK, ToUnsigned, input
<1>4. blockIndex \in Nat /\ blockIndex' = blockIndex + 1
  BY DEF TypeOK, Iterate
<1> QED
  BY <1>1, <1>2, <1>3, <1>4 DEF Skips

LEMMA KeepBufferInv == BufferInv /\ KeepBlock => BufferInv'
<1> SUFFICES ASSUME BufferInv, KeepBlock PROVE BufferInv'
  OBVIOUS
<1>1. /\ TypeOK /\ BlocksLeft
      /\ bytesRead \in Nat \ {0}
      /\ initial = BlockBytes(file, 1)
      /\ skipOffset + Len(initial) + Len(kept) = ModelRead(file, bytesRead)
  BY LoopState DEF KeepBlock
<1> DEFINE block == BlockBytes(file, filePos)
<1>2. /\ UNCHANGED <<file, trailing, phase, skipOffset, initial, result, outcome>>
      /\ blockIndex' = blockIndex + 1 /\ loopCount' = loopCount + 1
      /\ bytesRead' = bytesRead + 1 /\ filePos' = filePos + 1
      /\ patchIndex' = patchIndex + 1
      /\ decoder' = [decoder EXCEPT !.index = @ + 1]
      /\ kept' = kept \o block
  BY DEF KeepBlock, input, Iterate
<1>3. /\ bytesRead + 1 \in 0..NumBlocks(file)
      /\ BlockLen(file, filePos) \in Nat
      /\ ModelRead(file, bytesRead) \in Nat
      /\ ModelRead(file, bytesRead + 1)
           = ModelRead(file, bytesRead) + BlockLen(file, filePos)
      /\ block \in Seq(Nat)
      /\ Len(block) = BlockLen(file, filePos)
      /\ \A i \in 1..BlockLen(file, filePos) :
            block[i] = ModelRead(file, bytesRead) + i - 1
  BY <1>1, NextBlock
<1> HIDE DEF block
<1>4. /\ initial \in Seq(Nat) /\ kept \in Seq(Nat)
      /\ Len(initial) \in Nat /\ Len(kept) \in Nat /\ skipOffset \in Nat
  BY <1>1 DEF TypeOK
<1>5. /\ kept' \in Seq(Nat)
      /\ Len(kept') = Len(kept) + Len(block)
      /\ \A i \in 1..Len(kept') :
            kept'[i] = IF i <= Len(kept) THEN kept[i] ELSE block[i - Len(kept)]
  <2>1. /\ kept \o block \in Seq(Nat)
        /\ Len(kept \o block) = Len(kept) + Len(block)
        /\ \A i \in 1..Len(kept) + Len(block) :
              (kept \o block)[i] = IF i <= Len(kept) THEN kept[i]
                                                    ELSE block[i - Len(kept)]
    BY <1>3, <1>4, ConcatProperties
  <2> QED
    BY <1>2, <2>1
<1>6. decoder = [index |-> patchIndex + 1, session |-> HeaderOf(file, 1).session]
  BY <1>1 DEF BufferInv, InSession
<1>7. decoder' = [index |-> patchIndex + 2, session |-> HeaderOf(file, 1).session]
  <2>1. decoder' = [index |-> decoder.index + 1, session |-> decoder.session]
    BY <1>1, <1>2 DEF TypeOK
  <2>2. decoder.index = patchIndex + 1 /\ patchIndex \in Nat
    BY <1>1, <1>6 DEF TypeOK
  <2>3. decoder.session = HeaderOf(file, 1).session
    BY <1>6
  <2> QED
    BY <2>1, <2>2, <2>3
<1>8. TypeOK'
  <2>1. decoder' \in [index : Nat, session : Int]
    BY <1>1, <1>7, FirstSession DEF TypeOK
  <2> QED
    <3>1. bytesRead' \in 0..NumBlocks(file')
      BY <1>2, <1>3
    <3>2. filePos' = bytesRead' + 1
      BY <1>1, <1>2 DEF TypeOK
    <3>3. blockIndex' \in Nat /\ loopCount' \in Nat /\ patchIndex' \in Nat
      <4>1. blockIndex \in Nat /\ loopCount \in Nat /\ patchIndex \in Nat
        BY <1>1 DEF TypeOK
      <4> QED
        BY <4>1, <1>2
    <3> QED
      BY <1>1, <1>2, <1>5, <2>1, <3>1, <3>2, <3>3 DEF TypeOK
<1>9. FirstBlockRead'
  BY <1>1, <1>2 DEF FirstBlockRead, BufferInv
<1>10. InSession'
  <2>1. patchIndex' + 1 = patchIndex + 2
    BY <1>1, <1>2 DEF TypeOK
  <2> QED
    BY <1>2, <1>7, <2>1 DEF InSession, BufferInv
<1>11. SkippedFirst'
  <2>1. ~Skips'
    BY <1>1, SkippingEnds DEF KeepBlock
  <2> QED
    BY <2>1 DEF SkippedFirst
<1>12. Accounted'
  BY <1>1, <1>2, <1>3, <1>4, <1>5 DEF Accounted
<1>13. BufferMapsModel'
  <2>1. \A i \in 1..Len(kept') : kept'[i] = Len(initial) + skipOffset + i - 1
    <3> SUFFICES ASSUME NEW i \in 1..Len(kept')
                 PROVE  kept'[i] = Len(initial) + skipOffset + i - 1
      OBVIOUS
    <3>1. CASE i <= Len(kept)
      <4>1. i \in 1..Len(kept) /\ kept'[i] = kept[i]
        BY <3>1, <1>4, <1>5
      <4> QED
        BY <4>1 DEF BufferInv, BufferMapsModel
    <3>2. CASE i > Len(kept)
      <4>1. i - Len(kept) \in 1..Len(block)
        BY <3>2, <1>3, <1>4, <1>5
      <4>2. kept'[i] = ModelRead(file, bytesRead) + (i - Len(kept)) - 1
        BY <3>2, <4>1, <1>3, <1>4, <1>5
      <4> QED
        BY <4>2, <1>1, <1>3, <1>4
    <3> QED
      BY <3>1, <3>2, <1>4, <1>5, <1>3
  <2> QED
    BY <2>1, <1>2 DEF BufferMapsModel, BufferInv
<1> QED
  BY <1>8, <1>9, <1>10, <1>11, <1>12, <1>13 DEF BufferInv

\* The other steps leave what the invariant is about as it is.
LEMMA OtherBufferInv ==
    ASSUME BufferInv, UNCHANGED <<input, loopVars>>,
           phase' = "initial" <=> phase = "initial",
           phase' = "single" => phase = "single",
           phase' \in {"initial", "single", "head", "tail", "check", "vdir",
                       "log", "sqlite"},
           result' \in Seq(Nat),
           outcome' \in {"running", "ok", "failed", "wild"}
    PROVE  BufferInv'
<1>1. TypeOK'
  BY DEF BufferInv, TypeOK, input, loopVars
<1>2. (Skips' <=> Skips)
  BY DEF Skips, TotalBlocks, ToUnsigned, input, loopVars
<1> QED
  BY <1>1, <1>2 DEF BufferInv, FirstBlockRead, InSession, SkippedFirst, Accounted,
                    BufferMapsModel, input, loopVars

\* What a read inside of the buffer returns.
LEMMA BufferSlice ==
    ASSUME Buffer \in Seq(Nat), NEW from \in Nat, NEW n \in Nat \ {0},
           from + n <= Len(Buffer)
    PROVE  /\ BytesAt(from, n) \in Seq(Nat)
           /\ Len(BytesAt(from, n)) = n
           /\ \A j \in 1..n : BytesAt(from, n)[j] = Buffer[from + j]
<1> DEFINE b == SubSeq(Buffer, from + 1, from + n)
<1>1. from + 1 \in 1..(Len(Buffer) + 1) /\ from + n \in 0..Len(Buffer)
  OBVIOUS
<1>2. /\ b \in Seq(Nat)
      /\ Len(b) = IF from + 1 <= from + n THEN (from + n) - (from + 1) + 1 ELSE 0
      /\ \A j \in 1..((from + n) - (from + 1) + 1) : b[j] = Buffer[(from + 1) + j - 1]
  <2> DEFINE start == from + 1
             stop == from + n
  <2>1. start \in Int /\ stop \in Int /\ \A i \in start .. stop : Buffer[i] \in Nat
    OBVIOUS
  <2> HIDE DEF start, stop
  <2>2. /\ SubSeq(Buffer, start, stop) \in Seq(Nat)
        /\ Len(SubSeq(Buffer, start, stop)) = IF start <= stop THEN stop - start + 1 ELSE 0
        /\ \A i \in 1 .. stop - start + 1 : SubSeq(Buffer, start, stop)[i] = Buffer[start + i - 1]
    BY <2>1, SubSeqProperties
  <2> QED
    BY <2>2 DEF start, stop
<1> HIDE DEF b
<1>3. b \in Seq(Nat) /\ Len(b) = n /\ \A j \in 1..n : b[j] = Buffer[from + j]
  BY <1>2
<1>4. BytesAt(from, n) = b
  BY DEF BytesAt, b
<1> QED
  BY <1>3, <1>4

\* What is read as the database lies in the buffer.
LEMMA DatabaseBytes ==
    ASSUME TypeOK,
           ~Wild(Offset(file.sqlite.at), DatabaseSize),
           ~Throws(Offset(file.sqlite.at), DatabaseSize)
    PROVE  LET from == Offset(file.sqlite.at)
               n    == DatabaseSize
               b    == BytesAt(from, n)
           IN  /\ from \in Nat /\ n \in Nat \ {0}
               /\ from + n <= Len(Buffer)
               /\ b \in Seq(Nat) /\ Len(b) = n
               /\ \A j \in 1..n : b[j] = Buffer[from + j]
<1> DEFINE from == Offset(file.sqlite.at)
           n == DatabaseSize
<1>1. file.sqlite.at \in Nat /\ n \in Nat \ {0}
  BY FileIsWellFormed DEF WellFormed, FileRecords, Extent, DatabaseSize
<1>2. skipOffset \in Nat /\ Buffer \in Seq(Nat) /\ Len(Buffer) \in Nat
  BY DEF TypeOK, Buffer
<1>3. from \in Nat
  BY <1>1, <1>2 DEF Offset
<1>4. from + n <= Len(Buffer)
  <2> HIDE DEF from, n
  <2>1. ~(from + n > Len(Buffer))
    BY DEF Wild, from, n
  <2> QED
    BY <2>1, <1>1, <1>2, <1>3
<1> HIDE DEF from, n
<1>5. /\ BytesAt(from, n) \in Seq(Nat) /\ Len(BytesAt(from, n)) = n
      /\ \A j \in 1..n : BytesAt(from, n)[j] = Buffer[from + j]
  BY <1>1, <1>2, <1>3, <1>4, BufferSlice
<1> QED
  BY <1>1, <1>3, <1>4, <1>5 DEF from, n

LEMMA NextBufferInv == BufferInv /\ [Next]_vars => BufferInv'
<1> SUFFICES ASSUME BufferInv, [Next]_vars PROVE BufferInv'
  OBVIOUS
<1> USE DEF BufferInv
<1>1. TypeOK
  OBVIOUS
<1>2. ASSUME Throw PROVE BufferInv'
  BY <1>1, <1>2, OtherBufferInv DEF Throw, TypeOK
<1>3. CASE DecompressInitial
  BY <1>3, InitialBufferInv
<1>4. CASE SkipBlock
  BY <1>4, SkipBufferInv
<1>5. CASE KeepBlock
  BY <1>5, KeepBufferInv
<1>6. CASE InitialFails \/ BlockFails
  BY <1>6, <1>2 DEF InitialFails, BlockFails
<1>7. CASE NextLoop
  <2>1. UNCHANGED <<input, blockIndex, bytesRead, filePos, patchIndex, decoder,
                    skipOffset, initial, kept, result, outcome>>
        /\ phase = "head" /\ phase' = "tail" /\ loopCount' = 0
    BY <1>7 DEF NextLoop
  <2>2. TypeOK'
    BY <2>1, <1>1 DEF TypeOK, input
  <2>3. Skips' <=> Skips
    BY <2>1 DEF Skips, TotalBlocks, ToUnsigned, input
  <2> QED
    BY <2>1, <2>2, <2>3 DEF FirstBlockRead, InSession, SkippedFirst, Accounted,
                            BufferMapsModel, input
<1>8. CASE EndLoops
  BY <1>8, <1>1, OtherBufferInv DEF EndLoops, TypeOK
<1>9. CASE CheckLength
  BY <1>9, <1>1, <1>2, OtherBufferInv DEF CheckLength, TypeOK
<1>10. ASSUME NEW at, NEW size, NEW next \in {"log", "sqlite"},
              phase # "initial", ReadPart(at, size, next)
       PROVE  BufferInv'
  BY <1>10, <1>1, <1>2, OtherBufferInv DEF ReadPart, TypeOK
<1>11. CASE ReadDirectory
  BY <1>11, <1>10 DEF ReadDirectory
<1>12. CASE ReadLog
  BY <1>12, <1>10 DEF ReadLog
<1>13. CASE ReadDatabase
  <2>1. CASE outcome' = "wild" /\ UNCHANGED <<input, phase, loopVars, result>>
    BY <2>1, <1>1, OtherBufferInv DEF TypeOK
  <2>2. CASE Throw
    BY <2>2, <1>2
  <2>3. CASE /\ result' = BytesAt(Offset(file.sqlite.at), DatabaseSize)
             /\ outcome' \in {"ok", "failed"}
             /\ UNCHANGED <<input, phase, loopVars>>
             /\ ~Wild(Offset(file.sqlite.at), DatabaseSize)
             /\ ~Throws(Offset(file.sqlite.at), DatabaseSize)
    <3>1. result' \in Seq(Nat)
      BY <2>3, <1>1, DatabaseBytes
    <3> QED
      BY <2>3, <3>1, <1>1, OtherBufferInv DEF TypeOK
  <2> QED
    BY <1>13, <2>1, <2>2, <2>3 DEF ReadDatabase
<1>14. CASE UNCHANGED vars
  BY <1>14, <1>1, OtherBufferInv DEF vars, TypeOK
<1> QED
  BY <1>3, <1>4, <1>5, <1>6, <1>7, <1>8, <1>9, <1>11, <1>12, <1>13, <1>14
     DEF Next, Step, Over

\* The accounting of skipped and kept blocks holds for every file, every
\* setting and every block size.
THEOREM BufferInvariant == Spec => []BufferInv
<1> QED
  BY InitBufferInv, NextBufferInv, PTL DEF Spec

\* Every variable of the parser keeps its type, and the handle never leaves the
\* blocks of the file.
THEOREM ParserTypeCorrect == Spec => []TypeOK
<1>1. BufferInv => TypeOK
  BY DEF BufferInv
<1> QED
  BY <1>1, BufferInvariant, PTL

\* Skipped and kept bytes add up to the part of the model that has been read.
THEOREM BytesAccounted == Spec => []Accounted
<1>1. BufferInv => Accounted
  BY DEF BufferInv
<1> QED
  BY <1>1, BufferInvariant, PTL

\* A position of the buffer stands for one byte of the model.
THEOREM BufferIsModel == Spec => []BufferMapsModel
<1>1. BufferInv => BufferMapsModel
  BY DEF BufferInv
<1> QED
  BY <1>1, BufferInvariant, PTL

-----------------------------------------------------------------------------
(* What is rejected, and what is handed out.                               *)

\* The header a kept block is given is the one the decoder expects.
LEMMA PatchedIsExpected == BufferInv /\ InLoop => PatchedHeader = decoder
<1> SUFFICES ASSUME BufferInv, InLoop PROVE PatchedHeader = decoder
  OBVIOUS
<1>1. decoder = [index |-> patchIndex + 1, session |-> HeaderOf(file, 1).session]
  BY LoopState DEF BufferInv, InSession
<1>2. phase = "single" => file.format = "single"
  BY DEF BufferInv, InSession
<1> QED
  BY <1>1, <1>2 DEF PatchedHeader, HeaderOf
\* Only a damaged block makes the decompression fail.
THEOREM RejectsOnlyDamage == Spec => []OnlyDamageIsRejected
<1>1. Init => OnlyDamageIsRejected
  BY DEF Init, OnlyDamageIsRejected
<1>2. BufferInv /\ OnlyDamageIsRejected /\ [Next]_vars => OnlyDamageIsRejected'
  <2> SUFFICES ASSUME BufferInv, OnlyDamageIsRejected, [Next]_vars
               PROVE  OnlyDamageIsRejected'
    OBVIOUS
  <2>1. CASE InitialFails
    <3>1. filePos = 1
      BY <2>1 DEF InitialFails, BufferInv, FirstBlockRead, TypeOK
    <3> QED
      BY <2>1, <3>1 DEF InitialFails, Throw, input, loopVars, OnlyDamageIsRejected
  <2>2. CASE BlockFails
    <3>1. filePos \in file.damaged
      BY <2>2, PatchedIsExpected DEF BlockFails, Accepts
    <3> QED
      BY <2>2, <3>1 DEF BlockFails, Throw, input, loopVars, OnlyDamageIsRejected
  <2>3. CASE CheckLength \/ ReadDirectory \/ ReadLog \/ ReadDatabase
    <3>1. phase' \in {"check", "vdir", "log", "sqlite"}
      BY <2>3 DEF CheckLength, ReadDirectory, ReadLog, ReadDatabase, ReadPart, Throw
    <3> QED
      BY <3>1 DEF OnlyDamageIsRejected, InLoops
  <2>4. CASE \/ DecompressInitial \/ SkipBlock \/ KeepBlock \/ NextLoop
             \/ EndLoops
    <3>1. outcome' = "running"
      BY <2>4 DEF DecompressInitial, SkipBlock, KeepBlock, NextLoop, EndLoops,
                  InLoop
    <3> QED
      BY <3>1 DEF OnlyDamageIsRejected
  <2>5. CASE UNCHANGED vars
    BY <2>5 DEF vars, input, loopVars, OnlyDamageIsRejected, InLoops
  <2> QED
    BY <2>1, <2>2, <2>3, <2>4, <2>5 DEF Next, Step, Over
<1> QED
  BY <1>1, <1>2, BufferInvariant, PTL DEF Spec

\* No more is read than the model holds.
LEMMA ReadsWithinModel ==
    ASSUME TypeOK PROVE ModelRead(file, bytesRead) <= file.length
<1> DEFINE n == NumBlocks(file)
<1>1. /\ bytesRead \in Nat /\ n \in Nat /\ bytesRead <= n
      /\ file.length \in Nat /\ (n - 1) * BlockSize < file.length
  BY FileIsWellFormed, NumBlocksRoundsUp DEF TypeOK
<1>2. CASE bytesRead < n
  <2> HIDE DEF n
  <2>1. bytesRead * BlockSize <= (n - 1) * BlockSize
    BY <1>1, <1>2, BlocksMonotonic
  <2>2. bytesRead * BlockSize \in Int /\ (n - 1) * BlockSize \in Int
    BY <1>1
  <2> QED
    BY <2>1, <2>2, <1>1, <1>2 DEF ModelRead, n
<1>3. CASE ~(bytesRead < n)
  BY <1>1, <1>3 DEF ModelRead
<1> QED
  BY <1>2, <1>3

\* A lowered offset that is not negative counts from the first skipped byte.
LEMMA LoweredOffset ==
    ASSUME NEW at \in Nat, NEW skip \in Nat, at < Modulus, skip < Modulus
    PROVE  \/ skip <= at /\ (at - skip) % Modulus = at - skip
           \/ at < skip /\ (at - skip) % Modulus = at - skip + Modulus
OBVIOUS

\* Where a position of the buffer lies in the model.
LEMMA BufferPositions ==
    ASSUME BufferInv
    PROVE  /\ Buffer \in Seq(Nat)
           /\ Len(Buffer) = Len(initial) + Len(kept)
           /\ \A i \in 1..(Len(initial) + Len(kept)) :
                 Buffer[i] = IF i <= Len(initial) THEN i - 1 ELSE skipOffset + i - 1
<1> DEFINE first == Len(initial)
<1>1. /\ initial \in Seq(Nat) /\ kept \in Seq(Nat) /\ skipOffset \in Nat
      /\ first \in Nat /\ Len(kept) \in Nat
  BY DEF BufferInv, TypeOK
<1>2. /\ Buffer \in Seq(Nat)
      /\ Len(Buffer) = first + Len(kept)
      /\ \A i \in 1..(first + Len(kept)) :
            Buffer[i] = IF i <= first THEN initial[i] ELSE kept[i - first]
  BY <1>1, ConcatProperties DEF Buffer
<1>3. \A i \in 1..first : initial[i] = i - 1
  BY DEF BufferInv, BufferMapsModel
<1> HIDE DEF first
<1> SUFFICES ASSUME NEW i \in 1..(first + Len(kept))
             PROVE  Buffer[i] = IF i <= first THEN i - 1 ELSE skipOffset + i - 1
  BY <1>2 DEF first
<1>4. CASE i <= first
  <2>1. i \in 1..first
    BY <1>1, <1>4
  <2>2. Buffer[i] = initial[i]
    BY <1>2, <1>4
  <2> QED
    BY <1>3, <1>4, <2>1, <2>2
<1>5. CASE i > first
  <2>1. i - first \in 1..Len(kept)
    BY <1>1, <1>5
  <2>2. kept[i - first] = first + skipOffset + (i - first) - 1
    BY <2>1 DEF BufferInv, BufferMapsModel, first
  <2> QED
    BY <1>1, <1>2, <1>5, <2>2
<1> QED
  BY <1>1, <1>4, <1>5

\* If what is read as a database begins like the database, it is the database.
LEMMA DatabaseExact ==
    ASSUME BufferInv, phase # "initial",
           ~Wild(Offset(file.sqlite.at), DatabaseSize),
           ~Throws(Offset(file.sqlite.at), DatabaseSize),
           Buffer[Offset(file.sqlite.at) + 1] = file.sqlite.at
    PROVE  BytesAt(Offset(file.sqlite.at), DatabaseSize)
             = ModelBytes(file.sqlite.at, file.sqlite.size)
<1> DEFINE at == file.sqlite.at
           n == file.sqlite.size
           from == Offset(at)
           b == BytesAt(from, n)
           first == Len(initial)
<1>1. TypeOK /\ DatabaseSize = n
  BY DEF BufferInv, DatabaseSize
<1>2. /\ from \in Nat /\ n \in Nat \ {0} /\ from + n <= Len(Buffer)
      /\ b \in Seq(Nat) /\ Len(b) = n
      /\ \A j \in 1..n : b[j] = Buffer[from + j]
  BY <1>1, DatabaseBytes
<1>3. /\ initial \in Seq(Nat) /\ kept \in Seq(Nat) /\ skipOffset \in Nat
      /\ first \in Nat /\ Len(kept) \in Nat
  BY <1>1 DEF TypeOK
<1>4. at \in Nat /\ at < Modulus /\ skipOffset < Modulus
  <2>1. /\ at \in Nat /\ n \in Nat /\ at + n <= file.length
        /\ file.length \in Nat /\ 2 * file.length < Modulus
    BY <1>1, FileIsWellFormed DEF WellFormed, FileRecords, Extent
  <2>2. bytesRead > 0
    BY <1>1 DEF BufferInv, FirstBlockRead, TypeOK
  <2>3. skipOffset + first + Len(kept) <= file.length
    BY <1>1, <2>2, ReadsWithinModel DEF BufferInv, Accounted
  <2>4. at <= file.length /\ skipOffset <= file.length
    BY <2>1, <2>3, <1>3
  <2> QED
    BY <2>1, <2>4, <1>3
<1>5. /\ Len(Buffer) = first + Len(kept)
      /\ \A i \in 1..(first + Len(kept)) :
            Buffer[i] = IF i <= first THEN i - 1 ELSE skipOffset + i - 1
  BY BufferPositions
<1>7. from = (at - skipOffset) % Modulus /\ Buffer[from + 1] = at
  BY DEF Offset
<1> HIDE DEF at, n, from, b, first
<1>8. \/ skipOffset = 0 /\ from = at
      \/ from + 1 > first /\ skipOffset + from = at
  <2>1. from + 1 \in 1..(first + Len(kept))
    BY <1>2, <1>3, <1>5
  <2>2. at = IF from + 1 <= first THEN from ELSE skipOffset + from
    <3>1. Buffer[from + 1] = IF from + 1 <= first THEN (from + 1) - 1
                                                  ELSE skipOffset + (from + 1) - 1
      BY <2>1, <1>5
    <3> QED
      <4>1. at = IF from + 1 <= first THEN (from + 1) - 1 ELSE skipOffset + (from + 1) - 1
        BY <3>1, <1>7
      <4> QED
        BY <4>1, <1>2, <1>3
  <2>3. CASE from + 1 <= first
    <3>1. at = (at - skipOffset) % Modulus
      BY <2>2, <2>3, <1>7
    <3>2. skipOffset = 0
      <4>1. \/ skipOffset <= at /\ (at - skipOffset) % Modulus = at - skipOffset
            \/ /\ at < skipOffset
               /\ (at - skipOffset) % Modulus = at - skipOffset + Modulus
        BY <1>3, <1>4, LoweredOffset
      <4>2. \/ at = at - skipOffset
            \/ at = at - skipOffset + Modulus
        BY <4>1, <3>1
      <4> QED
        BY <4>2, <1>3, <1>4
    <3> QED
      BY <3>2, <2>2, <2>3
  <2>4. CASE from + 1 > first
    BY <2>2, <2>4, <1>2, <1>3
  <2> QED
    BY <2>3, <2>4, <1>2, <1>3
<1>9. \A j \in 1..n : b[j] = at + j - 1
  <2> SUFFICES ASSUME NEW j \in 1..n PROVE b[j] = at + j - 1
    OBVIOUS
  <2>1. from + j \in 1..(first + Len(kept))
    BY <1>2, <1>3, <1>5
  <2>2. b[j] = IF from + j <= first THEN from + j - 1 ELSE skipOffset + (from + j) - 1
    <3>1. b[j] = Buffer[from + j]
      BY <1>2
    <3>2. Buffer[from + j] = IF from + j <= first THEN (from + j) - 1
                                                  ELSE skipOffset + (from + j) - 1
      BY <2>1, <1>5
    <3> QED
      BY <3>1, <3>2, <1>2
  <2>3. j \in Int /\ 1 <= j
    BY <1>2
  <2>4. CASE skipOffset = 0 /\ from = at
    BY <2>2, <2>4, <2>3, <1>4
  <2>5. CASE from + 1 > first /\ skipOffset + from = at
    <3>1. from + j > first
      BY <2>3, <2>5, <1>2, <1>3
    <3> QED
      BY <2>2, <2>3, <2>5, <3>1, <1>2, <1>3
  <2> QED
    BY <2>4, <2>5, <1>8
<1>10. /\ ModelBytes(at, n) \in Seq(Nat) /\ Len(ModelBytes(at, n)) = n
       /\ \A j \in 1..n : ModelBytes(at, n)[j] = at + j - 1
  BY <1>2, <1>4, ModelBytesSeq
<1>11. b = ModelBytes(at, n)
  BY <1>2, <1>9, <1>10, SeqEqual
<1> QED
  BY <1>1, <1>11 DEF at, n, from, b

\* What is handed out as the metadata database is the metadata database.
THEOREM HandsOutDatabase == Spec => []ResultExact
<1>1. Init => ResultExact
  BY DEF Init, ResultExact
<1>2. BufferInv /\ ResultExact /\ [Next]_vars => ResultExact'
  <2> SUFFICES ASSUME BufferInv, ResultExact, [Next]_vars, outcome' = "ok"
               PROVE  result' = ModelBytes(file'.sqlite.at, file'.sqlite.size)
    BY DEF ResultExact
  <2>1. CASE ReadDatabase
    <3>1. /\ result' = BytesAt(Offset(file.sqlite.at), DatabaseSize)
          /\ ~Wild(Offset(file.sqlite.at), DatabaseSize)
          /\ ~Throws(Offset(file.sqlite.at), DatabaseSize)
          /\ Buffer[Offset(file.sqlite.at) + 1] = file.sqlite.at
          /\ file' = file /\ phase = "sqlite"
      BY <2>1 DEF ReadDatabase, Throw, input
    <3> QED
      BY <3>1, DatabaseExact
  <2>2. CASE UNCHANGED <<file, result, outcome>>
    BY <2>2 DEF ResultExact
  <2>3. CASE Step /\ ~ReadDatabase
    BY <2>3 DEF Step, DecompressInitial, InitialFails, SkipBlock, KeepBlock,
                BlockFails, NextLoop, EndLoops, CheckLength, ReadDirectory,
                ReadLog, ReadPart, Throw, InLoop
  <2> QED
    BY <2>1, <2>2, <2>3 DEF Next, Over, vars, input
<1> QED
  BY <1>1, <1>2, BufferInvariant, PTL DEF Spec

-----------------------------------------------------------------------------
(* Where the loops are, and where skipping stops.                          *)

\* The counts the two formats give for the blocks of the file.
LEMMA CountsOfBlocks ==
    ASSUME TypeOK
    PROVE  /\ HeadBlocks \in Nat
           /\ file.tails * file.tailBlocks \in Nat
           /\ TotalBlocks \in Int
           /\ ToUnsigned(trailing) \in Nat
<1>1. /\ file.heads \in Nat /\ file.headBlocks \in Nat
      /\ file.tails \in Nat /\ file.tailBlocks \in Nat
      /\ file.vdir.size \in Nat /\ file.vdir.at \in Nat
  BY FileIsWellFormed DEF FileRecords, Extent
<1>2. HeadBlocks \in Nat /\ file.tails * file.tailBlocks \in Nat
  BY <1>1 DEF HeadBlocks
<1>3. TotalBlocks \in Int
  <2>1. (file.vdir.size + file.vdir.at) \div BlockSize \in Int
    BY <1>1
  <2> QED
    BY <1>2, <2>1 DEF TotalBlocks, HeadBlocks
<1>4. ToUnsigned(trailing) \in Nat
  BY TrailingsAssumption DEF TypeOK, ToUnsigned
<1> QED
  BY <1>2, <1>3, <1>4

\* The directory of a single-threaded file ends within its blocks, and the
\* layout of a multi-threaded one counts them.
LEMMA TotalWithinFile ==
    ASSUME TypeOK, LayoutCounts(file)
    PROVE  TotalBlocks <= NumBlocks(file)
<1>1. WellFormed(file) /\ file \in FileRecords /\ file.length \in Nat \ {0}
  BY FileIsWellFormed
<1>2. CASE file.format = "single"
  <2> DEFINE to == file.vdir.size + file.vdir.at
             t  == to \div BlockSize
             n  == NumBlocks(file)
  <2>1. to \in Nat /\ to <= file.length
    BY <1>1 DEF WellFormed, FileRecords, Extent
  <2>2. n \in Nat /\ file.length <= n * BlockSize
    BY <1>1, NumBlocksRoundsUp
  <2>3. t \in Int /\ BlockSize * t <= to
    <3> HIDE DEF to
    <3> QED
      BY <2>1
  <2>4. TotalBlocks = t
    BY <1>2 DEF TotalBlocks
  <2> HIDE DEF to, t, n
  <2>5. t * BlockSize <= n * BlockSize
    BY <1>1, <2>1, <2>2, <2>3
  <2>6. ~(n + 1 <= t)
    <3>1. (n + 1) * BlockSize = n * BlockSize + BlockSize
      BY <2>2
    <3>2. n + 1 <= t => (n + 1) * BlockSize <= t * BlockSize
      BY <2>2, <2>3, BlocksMonotonic
    <3> QED
      BY <2>2, <2>3, <2>5, <3>1, <3>2
  <2> QED
    BY <2>2, <2>3, <2>4, <2>6 DEF n
<1>3. CASE file.format = "multi"
  BY <1>3, CountsOfBlocks DEF TotalBlocks, LayoutCounts
<1> QED
  BY <1>1, <1>2, <1>3 DEF FileRecords

\* Some blocks of the file hold no more than full blocks do.
LEMMA ReadWithinBlocks ==
    ASSUME TypeOK, NEW k \in 0..NumBlocks(file)
    PROVE  ModelRead(file, k) <= k * BlockSize
<1>1. NumBlocks(file) \in Nat /\ file.length <= NumBlocks(file) * BlockSize
  BY FileIsWellFormed, NumBlocksRoundsUp
<1> QED
  BY <1>1 DEF ModelRead

LEMMA InitParserInv == Init => ParserInv
<1> SUFFICES ASSUME Init PROVE ParserInv
  OBVIOUS
<1>1. BufferInv
  BY InitBufferInv
<1>2. LoopPosition /\ SkippingStops
  BY DEF Init, LoopPosition, SkippingStops
<1> QED
  BY <1>1, <1>2 DEF ParserInv

\* A step of a loop takes it to the next block.
LEMMA IteratePosition ==
    ASSUME ParserInv, InLoop, Iterate, UNCHANGED <<input, phase>>
    PROVE  LoopPosition'
<1>1. /\ TypeOK /\ bytesRead \in Nat \ {0} /\ loopCount \in Nat
      /\ HeadBlocks \in Nat /\ HeadBlocks' = HeadBlocks
      /\ NumBlocks(file) \in Nat /\ bytesRead < NumBlocks(file)
  BY LoopState, CountsOfBlocks, FileIsWellFormed
     DEF ParserInv, TypeOK, HeadBlocks, input, BlocksLeft
<1>2. /\ blockIndex' = blockIndex + 1 /\ loopCount' = loopCount + 1
      /\ bytesRead' = bytesRead + 1 /\ phase' = phase /\ file' = file
  BY DEF Iterate, input
<1>3. /\ phase \in {"single", "head", "tail"}
      /\ phase = "head" => loopCount < HeadBlocks
  BY DEF InLoop, LoopBound, HeadBlocks
<1>4. blockIndex = bytesRead - 1
  BY <1>1 DEF ParserInv, LoopPosition
<1>5. phase = "head" => bytesRead = loopCount + 1
  BY DEF ParserInv, LoopPosition
<1>6. phase = "tail" => bytesRead = HeadBlocks + loopCount + 1
  BY <1>1 DEF ParserInv, LoopPosition
<1>7. bytesRead' # 0 /\ blockIndex' = bytesRead' - 1
  BY <1>1, <1>2, <1>4
<1>8. phase' = "head" => loopCount' <= HeadBlocks' /\ bytesRead' = loopCount' + 1
  BY <1>1, <1>2, <1>3, <1>5
<1>9. phase' = "tail" => bytesRead' = HeadBlocks' + loopCount' + 1
  BY <1>1, <1>2, <1>6
<1>10. phase' \in {"head", "tail"} => file'.format = "multi"
  BY <1>2 DEF ParserInv, LoopPosition
<1> QED
  BY <1>2, <1>3, <1>7, <1>8, <1>9, <1>10 DEF LoopPosition

\* A skipped block lies in front of the last `trailing` ones.
LEMMA SkipStops == ParserInv /\ SkipBlock => SkippingStops'
<1> SUFFICES ASSUME ParserInv, SkipBlock PROVE SkippingStops'
  OBVIOUS
<1> DEFINE stop == TotalBlocks - ToUnsigned(trailing)
<1>1. /\ TypeOK /\ BlocksLeft /\ bytesRead \in Nat \ {0} /\ kept = <<>>
      /\ NumBlocks(file) \in Nat
  BY LoopState, FileIsWellFormed DEF ParserInv, BufferInv, SkippedFirst, SkipBlock
<1>2. /\ stop \in Int /\ ToUnsigned(trailing) \in Int /\ TotalBlocks \in Int
      /\ stop' = stop /\ TotalBlocks' = TotalBlocks
      /\ ToUnsigned(trailing)' = ToUnsigned(trailing)
  BY <1>1, CountsOfBlocks DEF SkipBlock, input, TotalBlocks, ToUnsigned
<1>3. /\ ToUnsigned(trailing) < TotalBlocks
      /\ blockIndex + 1 < stop /\ blockIndex = bytesRead - 1
      /\ initial' = initial /\ kept' = kept
      /\ bytesRead' = bytesRead + 1 /\ file' = file
  BY <1>1, <1>2 DEF SkipBlock, Skips, Iterate, input, ParserInv, LoopPosition
<1>4. bytesRead + 1 \in 0..NumBlocks(file) /\ bytesRead + 1 <= stop
  BY <1>1, <1>2, <1>3 DEF BlocksLeft
<1>5. /\ skipOffset' + Len(initial') + Len(kept') = ModelRead(file, bytesRead + 1)
      /\ skipOffset' \in Nat /\ Len(initial') \in Nat /\ Len(kept') = 0
  <2>1. BufferInv'
    BY SkipBufferInv DEF ParserInv
  <2> QED
    BY <2>1, <1>1, <1>3 DEF BufferInv, TypeOK, Accounted
<1>6. ModelRead(file, bytesRead + 1) <= (bytesRead + 1) * BlockSize
  BY <1>1, <1>4, ReadWithinBlocks
<1>7. (bytesRead + 1) * BlockSize <= stop * BlockSize
  <2> HIDE DEF stop
  <2> QED
    BY <1>1, <1>2, <1>4, BlocksMonotonic
<1>8. ModelRead(file, bytesRead + 1) \in Int
  BY <1>5
<1>9. BlockStart(stop + 1) = stop * BlockSize /\ BlockStart(stop + 1)' = BlockStart(stop + 1)
  <2> HIDE DEF stop
  <2> QED
    BY <1>2 DEF BlockStart
<1>10. skipOffset' + Len(initial') <= stop * BlockSize
  <2> HIDE DEF stop
  <2>1. (bytesRead + 1) * BlockSize \in Int /\ stop * BlockSize \in Int
    BY <1>1, <1>2
  <2> QED
    BY <2>1, <1>5, <1>6, <1>7, <1>8
<1> QED
  BY <1>2, <1>3, <1>9, <1>10 DEF SkippingStops

\* No block is skipped without a skip, and no loop moves.
LEMMA SkippingUnchanged ==
    ASSUME SkippingStops, UNCHANGED <<file, trailing, skipOffset, initial>>
    PROVE  SkippingStops'
<1>1. TotalBlocks' = TotalBlocks /\ ToUnsigned(trailing)' = ToUnsigned(trailing)
  BY DEF TotalBlocks, ToUnsigned
<1> QED
  BY <1>1 DEF SkippingStops, BlockStart

\* Behind the loops the position is final.
LEMMA PositionUnchanged ==
    ASSUME LoopPosition, UNCHANGED <<file, blockIndex, loopCount, bytesRead>>,
           \/ phase' = phase
           \/ phase' = "check" /\ (LayoutCounts(file) => bytesRead = NumBlocks(file))
           \/ {phase, phase'} \subseteq {"check", "vdir", "log", "sqlite"}
    PROVE  LoopPosition'
BY DEF LoopPosition, HeadBlocks

\* When the second loop ends all the blocks have been read.
LEMMA LoopsReadAll ==
    ASSUME ParserInv, EndLoops, LayoutCounts(file)
    PROVE  bytesRead = NumBlocks(file)
<1>1. /\ TypeOK /\ bytesRead \in Nat /\ loopCount \in Nat /\ HeadBlocks \in Nat
      /\ file.tails * file.tailBlocks \in Nat
      /\ NumBlocks(file) \in Nat /\ bytesRead <= NumBlocks(file)
  BY CountsOfBlocks, FileIsWellFormed DEF ParserInv, BufferInv, TypeOK
<1>2. CASE ~BlocksLeft
  BY <1>1, <1>2 DEF BlocksLeft
<1>3. CASE BlocksLeft
  <2>1. phase = "tail" /\ ~(loopCount < file.tails * file.tailBlocks)
    BY <1>3 DEF EndLoops, LoopBound
  <2>2. bytesRead = HeadBlocks + loopCount + 1
    BY <1>1, <1>3, <2>1 DEF ParserInv, LoopPosition, BlocksLeft
  <2>3. file.format = "multi" => NumBlocks(file) = HeadBlocks + file.tails * file.tailBlocks
    BY DEF LayoutCounts, HeadBlocks
  <2>4. file.format = "multi"
    BY <2>1 DEF ParserInv, LoopPosition
  <2> QED
    BY <1>1, <2>1, <2>2, <2>3, <2>4
<1> QED
  BY <1>2, <1>3

LEMMA NextParserInv == ParserInv /\ [Next]_vars => ParserInv'
<1> SUFFICES ASSUME ParserInv, [Next]_vars PROVE ParserInv'
  OBVIOUS
<1>1. TypeOK /\ BufferInv /\ LoopPosition /\ SkippingStops
  BY DEF ParserInv, BufferInv
<1>2. BufferInv'
  BY <1>1, NextBufferInv
<1>3. LoopPosition'
  <2>1. CASE DecompressInitial
    <3>1. /\ phase = "initial" /\ phase' = FirstPhase(file) /\ bytesRead' = 1
          /\ UNCHANGED <<file, blockIndex, loopCount>>
      BY <2>1 DEF DecompressInitial, input
    <3>2. file.format \in {"single", "multi"}
      BY <1>1, FileIsWellFormed DEF FileRecords
    <3>3. \/ phase' = "single"
          \/ phase' = "head" /\ file'.format = "multi"
      BY <3>1, <3>2 DEF FirstPhase
    <3>4. blockIndex' = 0 /\ loopCount' = 0 /\ HeadBlocks \in Nat /\ HeadBlocks' = HeadBlocks
      BY <1>1, <3>1, CountsOfBlocks DEF LoopPosition, BufferInv, FirstBlockRead, HeadBlocks
    <3> QED
      BY <3>1, <3>3, <3>4 DEF LoopPosition
  <2>2. CASE SkipBlock \/ KeepBlock
    BY <2>2, IteratePosition DEF SkipBlock, KeepBlock, input
  <2>3. CASE NextLoop
    <3>1. /\ phase = "head" /\ phase' = "tail" /\ loopCount' = 0
          /\ ~(BlocksLeft /\ loopCount < HeadBlocks)
          /\ UNCHANGED <<file, blockIndex, bytesRead>>
      BY <2>3 DEF NextLoop, input, LoopBound, HeadBlocks
    <3>2. /\ bytesRead \in Nat /\ loopCount \in Nat /\ HeadBlocks \in Nat
          /\ NumBlocks(file) \in Nat /\ bytesRead <= NumBlocks(file)
          /\ loopCount <= HeadBlocks /\ bytesRead = loopCount + 1
      BY <1>1, <3>1, CountsOfBlocks, FileIsWellFormed DEF TypeOK, LoopPosition
    <3>3. bytesRead = NumBlocks(file) \/ bytesRead = HeadBlocks + 0 + 1
      BY <3>1, <3>2 DEF BlocksLeft
    <3>4. HeadBlocks' = HeadBlocks
      BY <3>1 DEF HeadBlocks
    <3> QED
      BY <1>1, <3>1, <3>3, <3>4 DEF LoopPosition
  <2>4. CASE EndLoops
    BY <2>4, <1>1, LoopsReadAll, PositionUnchanged DEF EndLoops, input, loopVars
  <2>5. CASE InitialFails \/ BlockFails
    BY <2>5, <1>1, PositionUnchanged DEF InitialFails, BlockFails, Throw, input, loopVars
  <2>6. CASE CheckLength \/ ReadDirectory \/ ReadLog \/ ReadDatabase
    <3>1. /\ {phase, phase'} \subseteq {"check", "vdir", "log", "sqlite"}
          /\ UNCHANGED <<file, blockIndex, loopCount, bytesRead>>
      BY <2>6 DEF CheckLength, ReadDirectory, ReadLog, ReadDatabase, ReadPart,
                  Throw, input, loopVars
    <3> QED
      BY <3>1, <1>1, PositionUnchanged
  <2>7. CASE UNCHANGED vars
    BY <2>7, <1>1, PositionUnchanged DEF vars, input, loopVars
  <2> QED
    BY <2>1, <2>2, <2>3, <2>4, <2>5, <2>6, <2>7 DEF Next, Step, Over
<1>4. SkippingStops'
  <2>1. CASE SkipBlock
    BY <2>1, SkipStops
  <2>2. CASE DecompressInitial
    BY <2>2, <1>1 DEF DecompressInitial, SkippingStops, BufferInv, FirstBlockRead, TypeOK
  <2>3. CASE KeepBlock \/ NextLoop
    BY <2>3, <1>1, SkippingUnchanged DEF KeepBlock, NextLoop, input
  <2>4. CASE \/ InitialFails \/ BlockFails \/ EndLoops \/ CheckLength
             \/ ReadDirectory \/ ReadLog \/ ReadDatabase
    <3>1. UNCHANGED <<file, trailing, skipOffset, initial>>
      BY <2>4 DEF InitialFails, BlockFails, EndLoops, CheckLength, ReadDirectory,
                  ReadLog, ReadDatabase, ReadPart, Throw, input, loopVars
    <3> QED
      BY <3>1, <1>1, SkippingUnchanged
  <2>5. CASE UNCHANGED vars
    BY <2>5, <1>1, SkippingUnchanged DEF vars, input, loopVars
  <2> QED
    BY <2>1, <2>2, <2>3, <2>4, <2>5 DEF Next, Step, Over
<1> QED
  BY <1>2, <1>3, <1>4 DEF ParserInv

\* The parser's inductive invariant holds for every file, every setting and
\* every block size.
THEOREM ParserInvariant == Spec => []ParserInv
<1> QED
  BY InitParserInv, NextParserInv, PTL DEF Spec

\* A setting that skips something keeps that many blocks: a negative one, read
\* as an unsigned number, exceeds the blocks of every file.
LEMMA TrailingIsSmall ==
    ASSUME TypeOK, LayoutCounts(file), ToUnsigned(trailing) < TotalBlocks
    PROVE  trailing \in Nat /\ ToUnsigned(trailing) = trailing
<1>1. /\ trailing \in Int /\ -Modulus <= 2 * trailing /\ 2 * trailing < Modulus
  BY TrailingsAssumption DEF TypeOK
<1>2. CASE trailing >= 0
  BY <1>1, <1>2 DEF ToUnsigned
<1>3. CASE trailing < 0
  <2>1. ToUnsigned(trailing) = trailing + Modulus
    BY <1>1, <1>3 DEF ToUnsigned
  <2>2. /\ NumBlocks(file) \in Nat /\ file.length \in Nat \ {0}
        /\ 2 * file.length < Modulus /\ TotalBlocks \in Int
        /\ TotalBlocks <= NumBlocks(file)
    BY FileIsWellFormed, CountsOfBlocks, TotalWithinFile DEF WellFormed
  <2>3. NumBlocks(file) <= file.length
    <3> DEFINE n == NumBlocks(file)
    <3>1. n \in Nat \ {0} /\ (n - 1) * BlockSize < file.length
      BY <2>2, NumBlocksRoundsUp
    <3> HIDE DEF n
    <3>2. n - 1 <= (n - 1) * BlockSize
      BY <3>1
    <3>3. (n - 1) * BlockSize \in Int
      BY <3>1
    <3>4. n <= file.length
      BY <2>2, <3>1, <3>2, <3>3
    <3> QED
      BY <3>4 DEF n
  <2> QED
    BY <1>1, <2>1, <2>2, <2>3
<1> QED
  BY <1>1, <1>2, <1>3

\* Whatever was skipped, the last `trailing` blocks are in the buffer.
LEMMA SkippedInFront ==
    ASSUME ParserInv, LayoutCounts(file), skipOffset # 0
    PROVE  /\ trailing \in Nat
           /\ trailing < TotalBlocks
           /\ skipOffset + Len(initial)
                 <= BlockStart(NumBlocks(file) - trailing + 1)
<1> DEFINE stop == TotalBlocks - trailing
           keep == NumBlocks(file) - trailing
<1>1. TypeOK /\ skipOffset \in Nat /\ Len(initial) \in Nat
  BY DEF ParserInv, BufferInv, TypeOK
<1>2. /\ trailing \in Nat /\ trailing < TotalBlocks
      /\ skipOffset + Len(initial) <= BlockStart(stop + 1)
  BY <1>1, TrailingIsSmall DEF ParserInv, SkippingStops
<1>3. stop \in Int /\ keep \in Int /\ stop <= keep
  BY <1>1, <1>2, CountsOfBlocks, TotalWithinFile, FileIsWellFormed
<1> HIDE DEF stop, keep
<1>4. stop * BlockSize <= keep * BlockSize
  BY <1>3, BlocksMonotonic
<1>5. BlockStart(stop + 1) = stop * BlockSize /\ BlockStart(keep + 1) = keep * BlockSize
  BY <1>3 DEF BlockStart
<1>6. stop * BlockSize \in Int /\ keep * BlockSize \in Int
  BY <1>3
<1>7. skipOffset + Len(initial) <= BlockStart(keep + 1)
  BY <1>1, <1>2, <1>4, <1>5, <1>6
<1> QED
  BY <1>2, <1>7 DEF keep

\* Whatever the parser skips, the trailing blocks it was told to keep are in
\* the buffer, for every block size, both formats and every setting
\* (decompress_initial_block, iterate_and_decompress_blocks).
THEOREM KeepsTrailingBlocks == Spec => []TrailingBlocksKept
<1>1. ParserInv => TrailingBlocksKept
  BY SkippedInFront DEF TrailingBlocksKept
<1> QED
  BY <1>1, ParserInvariant, PTL

-----------------------------------------------------------------------------
(* What a proper setting reads.                                            *)

\* A part in the last `trailing` blocks lies behind what was skipped.
LEMMA PartIsKept ==
    ASSUME ParserInv, LayoutCounts(file), NEW at \in Nat, LastBlocksHold(at)
    PROVE  skipOffset = 0 \/ skipOffset + Len(initial) <= at
<1> SUFFICES ASSUME skipOffset # 0 PROVE skipOffset + Len(initial) <= at
  OBVIOUS
<1>1. /\ trailing \in Nat /\ trailing < TotalBlocks
      /\ skipOffset + Len(initial) <= BlockStart(NumBlocks(file) - trailing + 1)
  BY SkippedInFront
<1>2. TypeOK /\ NumBlocks(file) \in Nat /\ TotalBlocks \in Int
  BY CountsOfBlocks, FileIsWellFormed DEF ParserInv, BufferInv
<1>3. at >= BlockStart(NumBlocks(file) - trailing + 1)
  BY <1>1, <1>2 DEF LastBlocksHold
<1>4. /\ skipOffset + Len(initial) \in Int
      /\ BlockStart(NumBlocks(file) - trailing + 1) \in Int
  <2>1. skipOffset + Len(initial) \in Int
    BY <1>2 DEF TypeOK
  <2> DEFINE k == NumBlocks(file) - trailing + 1
  <2>2. k \in Int
    BY <1>1, <1>2
  <2> HIDE DEF k
  <2>3. BlockStart(k) \in Int
    BY <2>2 DEF BlockStart
  <2> QED
    BY <2>1, <2>3 DEF k
<1> QED
  BY <1>1, <1>3, <1>4

\* Such a part of a file whose blocks have been read is read as it is.
LEMMA PartIsRead ==
    ASSUME ParserInv, LayoutCounts(file),
           phase \in {"check", "vdir", "log", "sqlite"},
           NEW at \in Nat, NEW size \in Nat \ {0}, at + size <= file.length,
           LastBlocksHold(at)
    PROVE  /\ ~Wild(Offset(at), size)
           /\ ~Throws(Offset(at), size)
           /\ BytesAt(Offset(at), size) = ModelBytes(at, size)
<1> DEFINE from == Offset(at)
           first == Len(initial)
           b == BytesAt(from, size)
<1>1. TypeOK /\ BufferInv /\ bytesRead = NumBlocks(file)
  BY DEF ParserInv, BufferInv, LoopPosition
<1>2. /\ skipOffset \in Nat /\ first \in Nat /\ Len(kept) \in Nat
      /\ file.length \in Nat \ {0} /\ 2 * file.length < Modulus
      /\ NumBlocks(file) \in Nat \ {0}
  BY <1>1, FileIsWellFormed DEF TypeOK, WellFormed
<1>3. skipOffset + first + Len(kept) = file.length
  BY <1>1, <1>2 DEF BufferInv, Accounted, ModelRead
<1>4. skipOffset = 0 \/ skipOffset + first <= at
  BY PartIsKept
<1>5. from = at - skipOffset /\ from \in Nat
  <2>1. at - skipOffset \in Nat /\ at - skipOffset < Modulus
    BY <1>2, <1>4
  <2>2. (at - skipOffset) % Modulus = at - skipOffset
    BY <2>1, ModulusAssumption
  <2> QED
    BY <2>1, <2>2 DEF Offset
<1>6. /\ Buffer \in Seq(Nat)
      /\ Len(Buffer) = first + Len(kept)
      /\ \A i \in 1..(first + Len(kept)) :
            Buffer[i] = IF i <= first THEN i - 1 ELSE skipOffset + i - 1
  BY <1>1, BufferPositions
<1> HIDE DEF from, first
<1>7. from + size <= Len(Buffer) /\ from + size < Modulus
  BY <1>2, <1>3, <1>5, <1>6
<1>8. ~Throws(from, size) /\ ~Wild(from, size)
  <2>1. from + size \in Nat
    BY <1>5
  <2>2. (from + size) % Modulus = from + size
    BY <1>7, <2>1
  <2> QED
    BY <2>1, <2>2, <1>2, <1>6, <1>7 DEF Throws, Wild
<1>9. b \in Seq(Nat) /\ Len(b) = size /\ \A j \in 1..size : b[j] = Buffer[from + j]
  BY <1>5, <1>6, <1>7, BufferSlice
<1> HIDE DEF b
<1>10. \A j \in 1..size : b[j] = at + j - 1
  <2> SUFFICES ASSUME NEW j \in 1..size PROVE b[j] = at + j - 1
    OBVIOUS
  <2>1. from + j \in 1..(first + Len(kept))
    BY <1>2, <1>5, <1>6, <1>7
  <2>2. b[j] = IF from + j <= first THEN (from + j) - 1
                                    ELSE skipOffset + (from + j) - 1
    BY <1>6, <1>9, <2>1
  <2> QED
    BY <2>2, <1>2, <1>4, <1>5
<1>11. /\ ModelBytes(at, size) \in Seq(Nat) /\ Len(ModelBytes(at, size)) = size
       /\ \A j \in 1..size : ModelBytes(at, size)[j] = at + j - 1
  BY ModelBytesSeq
<1>12. b = ModelBytes(at, size)
  BY <1>9, <1>10, <1>11, SeqEqual
<1> QED
  BY <1>8, <1>12 DEF b, from

\* The file and the setting of ProperTrailingWorks.
Proper ==
    /\ file.damaged = {}
    /\ LayoutCounts(file)
    /\ LastBlocksHold(file.sqlite.at)
    /\ LastBlocksHold(file.log.at)
    /\ LastBlocksHold(file.vdir.at)

\* They stay what they are.
LEMMA ProperFixed == UNCHANGED input => (Proper' <=> Proper)
BY DEF input, Proper, LayoutCounts, LastBlocksHold, TotalBlocks, NumBlocks, BlockStart

\* What lies behind the start of a part in the last blocks lies there too.
LEMMA BehindPart ==
    ASSUME TypeOK, NEW at \in Nat, LastBlocksHold(at), NEW n \in Nat
    PROVE  LastBlocksHold(at + n)
<1> DEFINE k == NumBlocks(file) - trailing + 1
<1>1. k \in Int
  BY FileIsWellFormed, TrailingsAssumption DEF TypeOK
<1> HIDE DEF k
<1>2. BlockStart(k) \in Int
  BY <1>1 DEF BlockStart
<1>3. at >= BlockStart(k) => at + n >= BlockStart(k)
  BY <1>2
<1> QED
  BY <1>3 DEF LastBlocksHold, k

\* The parts of an undamaged file, each read where it lies.
LEMMA PartsOfFile ==
    ASSUME ParserInv, Proper, phase \in {"check", "vdir", "log", "sqlite"}
    PROVE  /\ ReachesDirectory
           /\ LET at == file.vdir.at
                  size == file.vdir.size
              IN  /\ ~Wild(Offset(at), size) /\ ~Throws(Offset(at), size)
                  /\ BytesAt(Offset(at), size) = ModelBytes(at, size)
           /\ LET at == file.log.at + BomSize
                  size == file.log.size - BomSize
              IN  /\ ~Wild(Offset(at), size) /\ ~Throws(Offset(at), size)
                  /\ BytesAt(Offset(at), size) = ModelBytes(at, size)
           /\ LET at == file.sqlite.at
              IN  /\ ~Wild(Offset(at), DatabaseSize) /\ ~Throws(Offset(at), DatabaseSize)
                  /\ BytesAt(Offset(at), DatabaseSize) = ModelBytes(at, DatabaseSize)
<1>1. /\ TypeOK /\ BufferInv /\ LayoutCounts(file) /\ bytesRead = NumBlocks(file)
      /\ WellFormed(file) /\ file.length \in Nat \ {0} /\ NumBlocks(file) \in Nat \ {0}
  BY FileIsWellFormed DEF ParserInv, BufferInv, LoopPosition, Proper
<1>2. /\ file.vdir.at \in Nat /\ file.vdir.size \in Nat \ {0}
      /\ file.vdir.at + file.vdir.size <= file.length
      /\ file.log.at \in Nat /\ file.log.size \in Nat /\ file.log.size > BomSize
      /\ file.log.at + file.log.size <= file.length
      /\ file.sqlite.at \in Nat /\ file.sqlite.size \in Nat \ {0}
      /\ file.sqlite.at + file.sqlite.size <= file.length
  BY <1>1 DEF WellFormed, FileRecords, Extent
<1>3. ReachesDirectory
  <2>1. /\ skipOffset + Len(initial) + Len(kept) = file.length
        /\ skipOffset \in Nat /\ Len(initial) \in Nat /\ Len(kept) \in Nat
    BY <1>1 DEF BufferInv, TypeOK, Accounted, ModelRead
  <2>2. Len(Buffer) = Len(initial) + Len(kept)
    BY <1>1, BufferPositions
  <2> QED
    BY <2>1, <2>2, <1>2 DEF ReachesDirectory
<1>4. LET at == file.vdir.at
          size == file.vdir.size
      IN  /\ ~Wild(Offset(at), size) /\ ~Throws(Offset(at), size)
          /\ BytesAt(Offset(at), size) = ModelBytes(at, size)
  BY <1>1, <1>2, PartIsRead DEF Proper
<1>5. LET at == file.log.at + BomSize
          size == file.log.size - BomSize
      IN  /\ ~Wild(Offset(at), size) /\ ~Throws(Offset(at), size)
          /\ BytesAt(Offset(at), size) = ModelBytes(at, size)
  <2> DEFINE at == file.log.at + BomSize
             size == file.log.size - BomSize
  <2>1. at \in Nat /\ size \in Nat \ {0} /\ at + size <= file.length
    BY <1>1, <1>2 DEF BomSize
  <2>2. LastBlocksHold(at)
    BY <1>1, <1>2, BehindPart DEF Proper, BomSize
  <2> HIDE DEF at, size
  <2>3. /\ ~Wild(Offset(at), size) /\ ~Throws(Offset(at), size)
        /\ BytesAt(Offset(at), size) = ModelBytes(at, size)
    BY <1>1, <2>1, <2>2, PartIsRead
  <2> QED
    BY <2>3 DEF at, size
<1>6. LET at == file.sqlite.at
      IN  /\ ~Wild(Offset(at), DatabaseSize) /\ ~Throws(Offset(at), DatabaseSize)
          /\ BytesAt(Offset(at), DatabaseSize) = ModelBytes(at, DatabaseSize)
  BY <1>1, <1>2, PartIsRead DEF Proper, DatabaseSize
<1> QED
  BY <1>3, <1>4, <1>5, <1>6

\* The bytes of the database begin with its first one.
LEMMA DatabaseBegins ==
    ASSUME ParserInv, Proper, phase = "sqlite"
    PROVE  Buffer[Offset(file.sqlite.at) + 1] = file.sqlite.at
<1> DEFINE at == file.sqlite.at
           n == DatabaseSize
           b == BytesAt(Offset(at), n)
<1>1. /\ TypeOK
      /\ ~Wild(Offset(at), n) /\ ~Throws(Offset(at), n) /\ b = ModelBytes(at, n)
  BY PartsOfFile DEF ParserInv, BufferInv
<1>2. n \in Nat \ {0} /\ \A j \in 1..n : b[j] = Buffer[Offset(at) + j]
  BY <1>1, DatabaseBytes
<1>3. at \in Nat
  BY <1>1, FileIsWellFormed DEF FileRecords, Extent
<1>4. b[1] = at
  <2> HIDE DEF at, n
  <2>1. 1 \in 1..n /\ \A j \in 1..n : ModelBytes(at, n)[j] = at + j - 1
    BY <1>2, <1>3, ModelBytesSeq
  <2>2. ModelBytes(at, n)[1] = at + 1 - 1
    BY <2>1
  <2> QED
    BY <2>2, <1>1, <1>3
<1> HIDE DEF n, b
<1>5. b[1] = Buffer[Offset(at) + 1]
  BY <1>2
<1> QED
  BY <1>4, <1>5

\* An intact file whose needed parts lie in the last `trailing` blocks, or a
\* setting that skips nothing, is read without error
\* (pbix_config_params.test:45).
THEOREM ProperSettingWorks == Spec => []ProperTrailingWorks
<1>1. ProperTrailingWorks <=> (Proper => outcome \in {"running", "ok"})
  BY DEF ProperTrailingWorks, Proper
<1>2. Init => ProperTrailingWorks
  BY DEF Init, ProperTrailingWorks
<1>3. ParserInv /\ ProperTrailingWorks /\ [Next]_vars => ProperTrailingWorks'
  <2>1. UNCHANGED input \/ ~[Next]_vars
    BY DEF Next, Step, Over, vars, DecompressInitial, InitialFails, SkipBlock,
           KeepBlock, BlockFails, NextLoop, EndLoops, CheckLength, ReadDirectory,
           ReadLog, ReadDatabase, ReadPart, Throw
  <2>2. (ProperTrailingWorks <=> (Proper => outcome \in {"running", "ok"}))'
    BY DEF ProperTrailingWorks, Proper
  <2> SUFFICES ASSUME ParserInv, ProperTrailingWorks, [Next]_vars, Proper
               PROVE  outcome' \in {"running", "ok"}
    BY <2>1, <2>2, ProperFixed
  <2>3. outcome \in {"running", "ok"}
    BY <1>1
  <2>4. CASE InitialFails
    BY <2>4 DEF InitialFails, Proper
  <2>5. CASE BlockFails
    <3>1. BufferInv
      BY DEF ParserInv
    <3> QED
      BY <2>5, <3>1, PatchedIsExpected DEF BlockFails, Accepts, Proper
  <2>6. CASE CheckLength
    BY <2>6, <2>3, PartsOfFile DEF CheckLength
  <2>7. CASE ReadDirectory
    BY <2>7, <2>3, PartsOfFile DEF ReadDirectory, ReadPart
  <2>8. CASE ReadLog
    BY <2>8, <2>3, PartsOfFile DEF ReadLog, ReadPart
  <2>9. CASE ReadDatabase
    BY <2>9, PartsOfFile, DatabaseBegins DEF ReadDatabase
  <2>10. CASE \/ DecompressInitial \/ SkipBlock \/ KeepBlock \/ NextLoop
              \/ EndLoops \/ UNCHANGED vars
    BY <2>10, <2>3 DEF DecompressInitial, SkipBlock, KeepBlock, NextLoop, EndLoops, vars
  <2> QED
    BY <2>4, <2>5, <2>6, <2>7, <2>8, <2>9, <2>10 DEF Next, Step, Over
<1> QED
  BY <1>2, <1>3, ParserInvariant, PTL DEF Spec
=============================================================================
