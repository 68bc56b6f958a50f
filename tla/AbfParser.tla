------------------------------ MODULE AbfParser ------------------------------
(***************************************************************************)
(* AbfParser::get_sqlite (abf/abf_parser.cpp): the data model of a .pbix   *)
(* file is a sequence of XPress9 blocks.  The parser decompresses the      *)
(* first one, skips all but the last `trailing` of the others, and reads   *)
(* the virtual directory, the backup log and the metadata database out of  *)
(* what it kept, with offsets lowered by the bytes it skipped.             *)
(*                                                                         *)
(* A byte of the data model is represented by its offset in the model, so  *)
(* a buffer is a sequence of offsets and a read is right exactly when it   *)
(* returns the offsets asked for.  Compressed blocks have no size here:    *)
(* positions in the file count blocks.                                     *)
(***************************************************************************)
EXTENDS Integers, Sequences

CONSTANTS
    BlockSize,             \* BLOCK_SIZE, chunk_uncompressed_size
    Files,                 \* the files that may be opened
    Trailings,             \* values of pbix_trailing_chunks_optimization
    Modulus                \* 2^64, the width of offsets and counts

(***************************************************************************)
(* A file: its format, the length of its model, the thread layout of the   *)
(* multi-threaded format, the blocks that do not decompress, and where the *)
(* model holds the three parts that are read.                              *)
(***************************************************************************)
Extent == [at : Nat, size : Nat]

FileRecords ==
    [format : {"single", "multi"}, length : Nat \ {0},
     heads : Nat, headBlocks : Nat, tails : Nat, tailBlocks : Nat,
     damaged : SUBSET Nat, sqlite : Extent, log : Extent, vdir : Extent]

NumBlocks(f) == (f.length + BlockSize - 1) \div BlockSize

BomSize == 2               \* the byte order mark in front of the backup log

\* What the writer of the file guarantees: every part lies in the model.
WellFormed(f) ==
    /\ f \in FileRecords
    /\ f.sqlite.at + f.sqlite.size <= f.length /\ f.sqlite.size > 0
    /\ f.log.at + f.log.size <= f.length /\ f.log.size > BomSize
    /\ f.vdir.at + f.vdir.size <= f.length /\ f.vdir.size > 0
    /\ 2 * f.length < Modulus
    /\ f.format = "multi" => f.headBlocks > 0 /\ f.tailBlocks > 0

\* The thread layout of a multi-threaded file counts all of its blocks.
LayoutCounts(f) ==
    f.format = "multi" =>
        NumBlocks(f) = f.heads * f.headBlocks + f.tails * f.tailBlocks

ASSUME BlockSizeAssumption == BlockSize \in Nat \ {0}
ASSUME ModulusAssumption == Modulus \in Nat \ {0}
ASSUME FilesAssumption == \A f \in Files : WellFormed(f)
\* The setting is an int, at most half as wide as an offset.
ASSUME TrailingsAssumption ==
    Trailings \subseteq Int /\ \A t \in Trailings : -Modulus <= 2 * t /\ 2 * t < Modulus

VARIABLES
    file,                  \* the opened file
    trailing,              \* trailing_blocks
    phase,                 \* where get_sqlite is
    blockIndex,            \* block_index, chunk_index
    loopCount,             \* i of the multi-threaded loops
    bytesRead,             \* bytes_read, in blocks
    filePos,               \* the file handle's position, in blocks
    patchIndex,            \* block_index_iterator
    decoder,               \* the XPress9 session: next block index, signature
    skipOffset,            \* skip_offset
    initial,               \* initial_decompressed_buffer
    kept,                  \* all_decompressed_data of the loops
    result,                \* DataModel.metadata_db
    outcome                \* "running", "ok", "failed" or "wild"

input == <<file, trailing>>
loopVars == <<blockIndex, loopCount, bytesRead, filePos, patchIndex, decoder,
              skipOffset, initial, kept>>
vars == <<input, phase, loopVars, result, outcome>>

-----------------------------------------------------------------------------
(* The file and the decoder.                                               *)

BlockStart(k) == (k - 1) * BlockSize

BlockLen(f, k) ==
    IF k * BlockSize <= f.length THEN BlockSize ELSE f.length - BlockStart(k)

ModelBytes(from, n) == [j \in 1..n |-> from + j - 1]

BlockBytes(f, k) == ModelBytes(BlockStart(k), BlockLen(f, k))

\* The header a block carries in the file.  Each compressing thread of the
\* multi-threaded format numbers its own blocks from 0 in its own session.
HeaderOf(f, k) ==
    LET head == f.heads * f.headBlocks
    IN  IF f.format = "single" THEN [index |-> k - 1, session |-> 0]
        ELSE IF k <= head
        THEN [index |-> (k - 1) % f.headBlocks,
              session |-> (k - 1) \div f.headBlocks]
        ELSE [index |-> (k - 1 - head) % f.tailBlocks,
              session |-> f.heads + (k - 1 - head) \div f.tailBlocks]

\* The decoder takes a block only if it is the next of its session.
Accepts(dec, header, k) == header = dec /\ k \notin file.damaged

-----------------------------------------------------------------------------

Init ==
    /\ file \in Files
    /\ trailing \in Trailings
    /\ phase = "initial"
    /\ blockIndex = 0
    /\ loopCount = 0
    /\ bytesRead = 0
    /\ filePos = 1
    /\ patchIndex = 0
    /\ decoder = [index |-> 0, session |-> 0]
    /\ skipOffset = 0
    /\ initial = <<>>
    /\ kept = <<>>
    /\ result = <<>>
    /\ outcome = "running"

Throw ==
    /\ outcome' = "failed"
    /\ UNCHANGED <<input, phase, loopVars, result>>

\* decompress_initial_block[_multithread]: opens the decoder session with
\* the signature of the first block.
FirstPhase(f) == IF f.format = "single" THEN "single" ELSE "head"

DecompressInitial ==
    /\ outcome = "running"
    /\ phase = "initial"
    /\ 1 \notin file.damaged
    /\ initial' = BlockBytes(file, 1)
    /\ decoder' = [index |-> 1, session |-> HeaderOf(file, 1).session]
    /\ bytesRead' = 1
    /\ filePos' = 2
    /\ phase' = FirstPhase(file)
    /\ UNCHANGED <<input, blockIndex, loopCount, patchIndex, skipOffset, kept,
                   result, outcome>>

InitialFails ==
    /\ outcome = "running"
    /\ phase = "initial"
    /\ 1 \in file.damaged
    /\ Throw

-----------------------------------------------------------------------------
(* The loops over the remaining blocks.                                    *)

\* An int operand of an unsigned operation.
ToUnsigned(i) == i % Modulus

TotalBlocks ==
    IF file.format = "single"
    THEN (file.vdir.size + file.vdir.at) \div BlockSize
    ELSE file.heads * file.headBlocks + file.tails * file.tailBlocks

LoopBound ==
    IF phase = "head" THEN file.heads * file.headBlocks
                      ELSE file.tails * file.tailBlocks

\* Mutant: the loop runs once too often.
OneBlockMore == bytesRead <= NumBlocks(file)

BlocksLeft == bytesRead < NumBlocks(file)

InLoop ==
    /\ outcome = "running"
    /\ BlocksLeft
    /\ \/ phase = "single"
       \/ phase \in {"head", "tail"} /\ loopCount < LoopBound

\* Mutant: one block fewer is kept.
SkipsOneMore ==
    /\ TotalBlocks > ToUnsigned(trailing)
    /\ blockIndex + 1 <= TotalBlocks - ToUnsigned(trailing)

\* block_index has been incremented when the test is made.
Skips ==
    /\ TotalBlocks > ToUnsigned(trailing)
    /\ blockIndex + 1 < TotalBlocks - ToUnsigned(trailing)

Iterate ==
    /\ blockIndex' = blockIndex + 1
    /\ loopCount' = loopCount + 1
    /\ bytesRead' = bytesRead + 1

\* Mutant: every skipped block counts with the size of the first.
SkippedAsFull == BlockSize

SkippedBytes == BlockLen(file, filePos)

\* Mutant: the handle is moved before bytes_read takes in the block.
SeeksEarly == bytesRead + 1

SeekTarget == bytesRead + 2

SkipBlock ==
    /\ InLoop
    /\ Skips
    /\ Iterate
    /\ skipOffset' = skipOffset + SkippedBytes
    /\ filePos' = SeekTarget
    /\ UNCHANGED <<input, phase, patchIndex, decoder, initial, kept, result,
                   outcome>>

\* Mutant: the session signature of a chunk is left as it is.
SessionUnpatched ==
    [index |-> patchIndex + 1, session |-> HeaderOf(file, filePos).session]

\* Mutant: the block keeps its place in the file as its index.
IndexInFile ==
    [index |-> blockIndex + 1, session |-> HeaderOf(file, 1).session]

\* patch_header_of_compressed_buffer: the block takes the next index and, in
\* the multi-threaded format, the session of the first block.
PatchedHeader ==
    [index   |-> patchIndex + 1,
     session |-> IF phase = "single" THEN HeaderOf(file, filePos).session
                                     ELSE HeaderOf(file, 1).session]

KeepBlock ==
    /\ InLoop
    /\ ~Skips
    /\ Accepts(decoder, PatchedHeader, filePos)
    /\ Iterate
    /\ filePos' = filePos + 1
    /\ patchIndex' = patchIndex + 1
    /\ decoder' = [decoder EXCEPT !.index = @ + 1]
    /\ kept' = kept \o BlockBytes(file, filePos)
    /\ UNCHANGED <<input, phase, skipOffset, initial, result, outcome>>

\* Mutant: a block that fails is tried again.
RetriesBlock ==
    /\ InLoop
    /\ ~Skips
    /\ ~Accepts(decoder, PatchedHeader, filePos)
    /\ UNCHANGED vars

BlockFails ==
    /\ InLoop
    /\ ~Skips
    /\ ~Accepts(decoder, PatchedHeader, filePos)
    /\ Throw

NextLoop ==
    /\ outcome = "running"
    /\ phase = "head"
    /\ ~(BlocksLeft /\ loopCount < LoopBound)
    /\ phase' = "tail"
    /\ loopCount' = 0
    /\ UNCHANGED <<input, blockIndex, bytesRead, filePos, patchIndex, decoder,
                   skipOffset, initial, kept, result, outcome>>

EndLoops ==
    /\ outcome = "running"
    /\ \/ phase = "single" /\ ~BlocksLeft
       \/ phase = "tail" /\ ~(BlocksLeft /\ loopCount < LoopBound)
    /\ phase' = "check"
    /\ UNCHANGED <<input, loopVars, result, outcome>>

-----------------------------------------------------------------------------
(* extract_sqlite_buffer.                                                  *)

Buffer == initial \o kept

ReachesDirectory ==
    skipOffset + Len(Buffer) >= file.vdir.at + file.vdir.size

CheckLength ==
    /\ outcome = "running"
    /\ phase = "check"
    /\ \/ /\ ReachesDirectory
          /\ phase' = "vdir"
          /\ UNCHANGED <<input, loopVars, result, outcome>>
       \/ ~ReachesDirectory /\ Throw

\* read_buffer_bytes adds offset and size in unsigned arithmetic, so an
\* offset below zero may pass its test; the copy then starts outside of
\* the buffer.
Offset(at) == (at - skipOffset) % Modulus

Throws(offset, size) == (offset + size) % Modulus > Len(Buffer)

Wild(offset, size) == ~Throws(offset, size) /\ offset + size > Len(Buffer)

BytesAt(offset, size) == SubSeq(Buffer, offset + 1, offset + size)

\* One read.  Bytes other than the ones asked for do not parse.
ReadPart(at, size, next) ==
    LET offset == Offset(at)
    IN  \/ /\ Wild(offset, size)
           /\ outcome' = "wild"
           /\ UNCHANGED <<input, phase, loopVars, result>>
        \/ /\ ~Wild(offset, size)
           /\ Throws(offset, size) \/ BytesAt(offset, size) # ModelBytes(at, size)
           /\ Throw
        \/ /\ ~Wild(offset, size)
           /\ ~Throws(offset, size)
           /\ BytesAt(offset, size) = ModelBytes(at, size)
           /\ phase' = next
           /\ UNCHANGED <<input, loopVars, result, outcome>>

ReadDirectory ==
    /\ outcome = "running"
    /\ phase = "vdir"
    /\ ReadPart(file.vdir.at, file.vdir.size, "log")

ReadLog ==
    /\ outcome = "running"
    /\ phase = "log"
    /\ ReadPart(file.log.at + BomSize, file.log.size - BomSize, "sqlite")

\* Mutant: the database is read like the log, without a byte order mark.
SizeWithoutBom == file.sqlite.size - BomSize

DatabaseSize == file.sqlite.size

\* The caller opens what was read as a database: SQLite refuses it unless it
\* begins with the database header, that is, with its first byte.
ReadDatabase ==
    LET offset == Offset(file.sqlite.at)
        size   == DatabaseSize
    IN  /\ outcome = "running"
        /\ phase = "sqlite"
        /\ \/ /\ Wild(offset, size)
              /\ outcome' = "wild"
              /\ UNCHANGED <<input, phase, loopVars, result>>
           \/ /\ Throws(offset, size)
              /\ Throw
           \/ /\ ~Wild(offset, size) /\ ~Throws(offset, size)
              /\ result' = BytesAt(offset, size)
              /\ outcome' = IF Buffer[offset + 1] = file.sqlite.at THEN "ok"
                                                                ELSE "failed"
              /\ UNCHANGED <<input, phase, loopVars>>

Over ==
    /\ outcome # "running"
    /\ UNCHANGED vars

Step ==
    \/ DecompressInitial \/ InitialFails
    \/ SkipBlock \/ KeepBlock \/ BlockFails \/ NextLoop \/ EndLoops
    \/ CheckLength \/ ReadDirectory \/ ReadLog \/ ReadDatabase

Next == Step \/ Over

Spec == Init /\ [][Next]_vars

\* get_sqlite is one sequential call: it runs until it returns or throws.
FairSpec == Spec /\ WF_vars(Step)

-----------------------------------------------------------------------------
(* Properties.                                                             *)

\* Every variable has its type.
TypeOK ==
    /\ file \in Files
    /\ trailing \in Trailings
    /\ phase \in {"initial", "single", "head", "tail", "check", "vdir", "log",
                  "sqlite"}
    /\ blockIndex \in Nat
    /\ loopCount \in Nat
    /\ bytesRead \in 0..NumBlocks(file)
    /\ filePos = bytesRead + 1
    /\ patchIndex \in Nat
    /\ decoder \in [index : Nat, session : Int]
    /\ skipOffset \in Nat
    /\ initial \in Seq(Nat)
    /\ kept \in Seq(Nat)
    /\ result \in Seq(Nat)
    /\ outcome \in {"running", "ok", "failed", "wild"}

InLoops == phase \in {"single", "head", "tail"}

ModelRead(f, blocks) ==
    IF blocks < NumBlocks(f) THEN blocks * BlockSize ELSE f.length

\* Skipped and kept bytes add up to the part of the model read so far, so an
\* offset lowered by skipOffset counts from the first kept block.
Accounted ==
    bytesRead > 0 =>
        skipOffset + Len(initial) + Len(kept) = ModelRead(file, bytesRead)

\* The buffer holds the first block and then, without a gap, the end of the
\* model: behind the first block, position i holds byte i + skipOffset.
BufferMapsModel ==
    /\ \A i \in 1..Len(initial) : initial[i] = i - 1
    /\ \A i \in 1..Len(kept) : kept[i] = Len(initial) + skipOffset + i - 1

\* The decoder refuses no intact block, although the blocks it is handed
\* come from other sessions and with gaps in their numbering.
OnlyDamageIsRejected ==
    outcome = "failed" /\ (phase = "initial" \/ InLoops) =>
        filePos \in file.damaged

\* Whatever was skipped, the last `trailing` blocks are in the buffer.
TrailingBlocksKept ==
    phase \in {"check", "vdir", "log", "sqlite"} /\ LayoutCounts(file) =>
        \/ skipOffset = 0
        \/ /\ trailing >= 0
           /\ skipOffset + Len(initial)
                  <= BlockStart(NumBlocks(file) - trailing + 1)

\* What is handed out as the metadata database is the metadata database.
ResultExact ==
    outcome = "ok" => result = ModelBytes(file.sqlite.at, file.sqlite.size)

\* pbix_config_params.test:45, "Setting trailing chunks to proper value should
\* work": an intact file whose needed parts lie in the last `trailing` blocks,
\* or a setting that skips nothing, is read without error.
LastBlocksHold(at) ==
    \/ trailing < 0
    \/ trailing >= TotalBlocks
    \/ at >= BlockStart(NumBlocks(file) - trailing + 1)

ProperTrailingWorks ==
    /\ file.damaged = {}
    /\ LayoutCounts(file)
    /\ LastBlocksHold(file.sqlite.at)
    /\ LastBlocksHold(file.log.at)
    /\ LastBlocksHold(file.vdir.at)
    => outcome \in {"running", "ok"}

\* The call returns or throws.
Terminates == <>(outcome # "running")

-----------------------------------------------------------------------------
(* The inductive invariant behind these properties (AbfParser_proofs).     *)

\* Before the first block nothing has been read; after it, it is in front.
FirstBlockRead ==
    /\ phase = "initial" <=> bytesRead = 0
    /\ bytesRead = 0 => /\ initial = <<>> /\ kept = <<>>
                        /\ skipOffset = 0 /\ patchIndex = 0
    /\ bytesRead > 0 => initial = BlockBytes(file, 1)

\* The decoder stays in the session of the first block and expects the index
\* that the next kept block will be given.
InSession ==
    /\ phase = "single" => file.format = "single"
    /\ bytesRead > 0 =>
          decoder = [index   |-> patchIndex + 1,
                     session |-> HeaderOf(file, 1).session]

\* No block is skipped behind a kept one.
SkippedFirst == kept # <<>> => ~Skips

BufferInv ==
    /\ TypeOK
    /\ FirstBlockRead
    /\ InSession
    /\ SkippedFirst
    /\ Accounted
    /\ BufferMapsModel

HeadBlocks == file.heads * file.headBlocks

\* The loops go through the blocks one by one; the second of the two starts
\* where the first one ended, and behind them nothing is left to read.
LoopPosition ==
    /\ blockIndex = IF bytesRead = 0 THEN 0 ELSE bytesRead - 1
    /\ phase = "initial" => loopCount = 0
    /\ phase \in {"head", "tail"} => file.format = "multi"
    /\ phase = "head" => loopCount <= HeadBlocks /\ bytesRead = loopCount + 1
    /\ phase = "tail" => \/ bytesRead = NumBlocks(file)
                        \/ bytesRead = HeadBlocks + loopCount + 1
    /\ phase \in {"check", "vdir", "log", "sqlite"} /\ LayoutCounts(file) =>
          bytesRead = NumBlocks(file)

\* Skipping stops where the loop's count of the blocks says it has to.
SkippingStops ==
    skipOffset # 0 =>
        /\ ToUnsigned(trailing) < TotalBlocks
        /\ skipOffset + Len(initial)
               <= BlockStart(TotalBlocks - ToUnsigned(trailing) + 1)

ParserInv ==
    /\ BufferInv
    /\ LoopPosition
    /\ SkippingStops

\* abf_parser.cpp:77, "Offset and size must be within the bounds of the
\* buffer": no read leaves the buffer.
ReadsStayInBuffer == outcome # "wild"
=============================================================================
