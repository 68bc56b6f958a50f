------------------------------ MODULE Vertipaq ------------------------------
(***************************************************************************)
(* One column of a table, from its three files to its rows                 *)
(* (vertipaq/vertipaq_decoder.cpp, huffman_decoder.cpp): the reader of     *)
(* ColumnLayout runs on each file, VertipaqDecoder::initializeColumnData   *)
(* unpacks the ids of the rows and the dictionary, and processVertipaqData *)
(* turns the ids into values, one chunk per call.                          *)
(*                                                                         *)
(* Numbers are integers in units of 1 / Unit; std::to_string keeps         *)
(* multiples of Digit.  A word has WordBits bits, ids live modulo IdSpace  *)
(* and Marker is the id that means "packed values follow".                 *)
(***************************************************************************)
EXTENDS ColumnLayout, SequencesExt

CONSTANTS
    Columns,               \* the columns that may be read
    Chunk,                 \* STANDARD_VECTOR_SIZE
    WordBits,              \* 64
    IdSpace,               \* 2^64
    Marker,                \* 0xFFFFFFFF
    Unit, Digit,           \* the number 1, and one unit of its last digit
    IntMax                 \* what std::stoi can return

ASSUME ChunkAssumption == Chunk \in Nat \ {0}
ASSUME ScaleAssumption ==
    /\ Digit \in Nat \ {0} /\ Unit \in Nat \ {0} /\ Unit % Digit = 0
    /\ WordBits \in Nat \ {0} /\ Marker \in Nat /\ IdSpace \in Nat /\ Marker < IdSpace

EpochAdjustment == 25566   \* EPOCH_ADJUSTMENT
TypeDate == 9
TypeDecimal == 10

\* The files of a column.  An id and the data of a run fit in a word, and what
\* repeats is a sequence.
IsSeq(s) == s \in Seq(Range(s))
Runs == [data_value : 0 .. IdSpace - 1, repeat_value : Nat]
WellFormedColumn(c) ==
    /\ c.Dictionary \in BOOLEAN /\ c.IsNullable \in BOOLEAN
    /\ c.meta.min_data_id \in 0 .. IdSpace - 1 /\ c.meta.count_bit_packed \in Nat
    /\ c.meta.a_b_a_5_a \in Nat /\ c.meta.iterator \in Nat
    /\ IsSeq(c.idf)
    /\ \A i \in DOMAIN c.idf :
          c.idf[i].primary_segment \in Seq(Runs) /\ c.idf[i].sub_segment \in Seq(Nat)
    /\ c.Dictionary => IsSeq(c.dictionary.pages) /\ IsSeq(c.dictionary.handles)

ASSUME ColumnsAssumption == \A c \in Columns : WellFormedColumn(c)

VARIABLES
    column,                \* the column that is read
    phase,                 \* meta, idf, dictionary, rows, done, failed or wild
    meta,                  \* idf_m and details.min_data_id
    indices,               \* details.decoded_indices
    dictionary,            \* details.dictionary_cache
    row,                   \* start_row of the next call
    output                 \* the values set in the chunks

decoderVars == <<meta, indices, dictionary, row, output>>
vars == <<column, phase, decoderVars, layoutVars>>

Text(s) == <<"text", s>>
Number(n) == <<"number", n>>
Decimal(n) == <<"decimal", n>>
Date(n) == <<"date", n>>
Null == <<"null">>
Empty == Text(<<>>)        \* what operator[] of the map returns for a new key

Wrong == [wild |-> TRUE, value |-> <<>>]
Right(v) == [wild |-> FALSE, value |-> v]

-----------------------------------------------------------------------------
(* The ids of the rows.                                                    *)

PowerOf2[n \in Nat] == IF n = 0 THEN 1 ELSE 2 * PowerOf2[n - 1]

bit_width(m) == 36 - m.a_b_a_5_a + m.iterator

ReadBitPacked(words, width, base) ==
    LET per == WordBits \div width
    IN  [k \in 1 .. Len(words) * per |->
            LET word == words[1 + (k - 1) \div per]
                code == (word \div PowerOf2[width * ((k - 1) % per)]) % PowerOf2[width]
            IN  (base + code) % IdSpace]

\* One zero word stands for any number of rows with the smallest id.  back()
\* of no words, a division by no bits and a shift by a whole word are undefined.
PackedValues(seg, entries, base, width) ==
    LET words == seg.sub_segment
    IN  IF entries = 0 THEN Right(<<>>)
        ELSE IF words = <<>> THEN Wrong
        ELSE IF words = <<0>> THEN Right([k \in 1 .. entries |-> base % IdSpace])
        ELSE IF width \notin 1 .. WordBits - 1 THEN Wrong
        ELSE Right(ReadBitPacked(words, width, base))

IsMarker(entry, offset) == entry.data_value + offset = Marker

\* Packed rows are taken from where the last packed run ended; the ids of
\* the other runs are absolute.
TakeRun(values, acc, e) ==
    IF ~IsMarker(e, acc.offset)
    THEN [acc EXCEPT !.ids = @ \o [k \in 1 .. e.repeat_value |-> e.data_value]]
    ELSE IF acc.offset + e.repeat_value > Len(values)
    THEN [acc EXCEPT !.wild = TRUE]
    ELSE [acc EXCEPT !.ids = @ \o SubSeq(values, acc.offset + 1, acc.offset + e.repeat_value),
                     !.offset = @ + e.repeat_value]

\* Only the first segment is read.
ReadRLEBitPackedHybrid(segments, entries, base, width) ==
    IF segments = <<>> THEN Right(<<>>)
    ELSE LET packed == PackedValues(segments[1], entries, base, width)
             all == FoldLeft(LAMBDA acc, e : TakeRun(packed.value, acc, e),
                             [ids |-> <<>>, offset |-> 0, wild |-> packed.wild],
                             segments[1].primary_segment)
         IN  IF all.wild THEN Wrong ELSE Right(all.ids)

-----------------------------------------------------------------------------
(* Huffman codes.  A code is a sequence of bits, and the tree the codes    *)
(* build is the set of their prefixes.                                     *)

\* Two code lengths in a byte; symbol s has entry s + 1 of the result.
DecompressEncodeArray(bytes) ==
    [i \in 1 .. 2 * Len(bytes) |->
        IF i % 2 = 1 THEN bytes[(i + 1) \div 2] % 16
                     ELSE (bytes[i \div 2] \div 16) % 16]

Bits(code, length) == [i \in 1 .. length |-> (code \div PowerOf2[length - i]) % 2]

ShorterFirst(lengths, a, b) ==
    lengths[a] < lengths[b] \/ (lengths[a] = lengths[b] /\ a < b)

\* The symbols with a code, in the order in which they get it.
Coded(lengths) == {i \in DOMAIN lengths : lengths[i] # 0}
CodedBefore(lengths, i) == {j \in Coded(lengths) : ShorterFirst(lengths, j, i)}
Sorted(lengths) ==
    [k \in 1 .. Cardinality(Coded(lengths)) |->
        CHOOSE i \in Coded(lengths) : Cardinality(CodedBefore(lengths, i)) = k - 1]

\* Every code is the one before it plus one, with zeros behind it if it is longer.
GenerateCodes(lengths) ==
    LET sorted == Sorted(lengths)
        Length(k) == lengths[sorted[k]]
        code[k \in DOMAIN sorted] ==
            IF k = 1 THEN 0
            ELSE (code[k - 1] + 1) * PowerOf2[Length(k) - Length(k - 1)]
    IN  {<<Bits(code[k], Length(k)), sorted[k] - 1>> : k \in DOMAIN sorted}

\* The root is there without any code, and a node that ends none has symbol 0.
BuildHuffmanTree(encodeArray) ==
    LET codes == GenerateCodes(DecompressEncodeArray(encodeArray))
        nodes == {<<>>} \cup UNION {{SubSeq(c[1], 1, k) : k \in 0 .. Len(c[1])} : c \in codes}
        Ends(node) == {c \in codes : c[1] = node}
    IN  [nodes |-> nodes,
         symbol |-> [node \in nodes |->
                        IF Ends(node) = {} THEN 0 ELSE (CHOOSE c \in Ends(node) : TRUE)[2]]]

IsLeaf(tree, node) ==
    Append(node, 0) \notin tree.nodes /\ Append(node, 1) \notin tree.nodes

Iso88591ToUtf8(c) ==
    IF c >= 128 THEN <<194 + (IF c > 191 THEN 1 ELSE 0), (c % 64) + 128>> ELSE <<c>>

\* Bytes are swapped in pairs, and bits are counted from the highest.
BitAt(buffer, position) ==
    LET byte == position \div 8
        swapped == IF byte % 2 = 0 THEN byte + 1 ELSE byte - 1
    IN  (buffer[swapped + 1] \div PowerOf2[7 - (position % 8)]) % 2

\* At a leaf the symbol is taken before the next bit is followed, and the
\* last one after the loop.  A bit that leads nowhere follows a null pointer.
DecodeSubstring(buffer, tree, start, end) ==
    LET Take(acc) ==
            IF acc.node \in tree.nodes /\ IsLeaf(tree, acc.node)
            THEN [acc EXCEPT !.text = @ \o Iso88591ToUtf8(tree.symbol[acc.node]),
                             !.node = <<>>]
            ELSE acc
        Follow(acc, position) ==
            LET at == Take(acc)
            IN  [at EXCEPT !.node = Append(@, BitAt(buffer, position))]
        last == FoldLeft(Follow, [node |-> <<>>, text |-> <<>>],
                         [i \in 1 .. end - start |-> start + i - 1])
    IN  IF last.node \in tree.nodes THEN Right(Take(last).text) ELSE Wrong

-----------------------------------------------------------------------------
(* The dictionary.                                                         *)

\* The offsets of a page's strings, in the order of the handles.
HandlesOf(handles, page) ==
    LET own == SelectSeq(handles, LAMBDA h : h.page_id = page)
    IN  [i \in DOMAIN own |-> own[i].bit_or_byte_offset]

CompressedStrings(page, starts) ==
    LET tree == BuildHuffmanTree(page.encode_array)
        End(i) == IF i < Len(starts) THEN starts[i + 1] ELSE page.store_total_bits
    IN  [i \in DOMAIN starts |->
            DecodeSubstring(page.compressed_string_buffer, tree, starts[i], End(i))]

\* getline: a string ends at a zero, and what follows the last one counts
\* only if it is not empty.  The handles are not looked at.
UncompressedStrings(page) ==
    LET Put(acc, c) ==
            IF c = 0 THEN [done |-> Append(acc.done, Right(acc.token)), token |-> <<>>]
                     ELSE [acc EXCEPT !.token = Append(@, c)]
        all == FoldLeft(Put, [done |-> <<>>, token |-> <<>>],
                        page.uncompressed_character_buffer)
    IN  IF all.token = <<>> THEN all.done ELSE Append(all.done, Right(all.token))

PageStrings(dict, i) ==
    LET page == dict.pages[i]
    IN  CASE page.page_compressed = 0 -> UncompressedStrings(page)
          [] page.page_compressed = 1 ->
                CompressedStrings(page, HandlesOf(dict.handles, i - 1))
          [] OTHER -> <<Wrong>>            \* string_store was never set

\* std::to_string, to the nearest multiple of the last digit.
Printed(n) == Digit * ((n + Digit \div 2) \div Digit)

\* Ids are given in the order of the values, from the column's smallest id.
\* A dictionary of another type falls off the end of the function.
ReadDictionary(dict, first) ==
    LET strings == FlattenSeq([i \in DOMAIN dict.pages |-> PageStrings(dict, i)])
        values == CASE dict.dictionary_type = "STRING" ->
                          [i \in DOMAIN strings |-> Text(strings[i].value)]
                    [] dict.dictionary_type \in {"LONG", "REAL"} ->
                          [i \in DOMAIN dict.values |-> Number(Printed(dict.values[i]))]
    IN  IF dict.dictionary_type \notin {"STRING", "LONG", "REAL"} THEN Wrong
        ELSE IF dict.dictionary_type = "STRING"
                /\ \E i \in DOMAIN strings : strings[i].wild THEN Wrong
        ELSE Right([id \in first .. first + Len(values) - 1 |-> values[id - first + 1]])

-----------------------------------------------------------------------------
(* The values of the rows.                                                 *)

Lookup(id) == IF id \in DOMAIN dictionary THEN dictionary[id] ELSE Empty

Truncated(n) == IF n >= 0 THEN n \div Unit ELSE -((-n) \div Unit)

\* std::stoi and std::stod throw on text without a number, stoi also on a
\* number that no int holds.
Converts(v) ==
    /\ v[1] = "number"
    /\ column.DataType = TypeDecimal => Truncated(v[2]) \in -IntMax - 1 .. IntMax

RowThrows(id) ==
    /\ column.Dictionary
    /\ column.DataType \in {TypeDate, TypeDecimal}
    /\ ~Converts(Lookup(id))

\* id + BaseId is unsigned.
DirectValue(id) == ((id + column.BaseId) % IdSpace) \div column.Magnitude

RowValue(id) ==
    IF column.Dictionary
    THEN CASE column.DataType = TypeDecimal -> Decimal(Truncated(Lookup(id)[2]))
           [] column.DataType = TypeDate ->
                 Date(Truncated(Lookup(id)[2]) - EpochAdjustment - meta.min_data_id)
           [] OTHER -> IF Lookup(id) = Empty THEN Null ELSE Lookup(id)
    ELSE IF column.DataType = TypeDecimal THEN Decimal(DirectValue(id))
    ELSE Number(DirectValue(id) * Unit)

\* Mutant: the base of the packed ids forgets the blank.
BaseWithoutBlank == meta.min_data_id

\* min_data_id minus the adjustment for the blank, which is one id lower.
NullAdjustment == IF column.IsNullable THEN 1 ELSE 0
PackedBase ==
    IF column.Dictionary THEN meta.min_data_id - NullAdjustment ELSE meta.min_data_id

-----------------------------------------------------------------------------

Init ==
    /\ column \in Columns
    /\ phase = "meta"
    /\ meta = [min_data_id |-> 0, count_bit_packed |-> 0, bit_width |-> 0]
    /\ indices = <<>> /\ dictionary = <<>>
    /\ row = 0 /\ output = <<>>
    /\ stack = <<>> /\ heap = {} /\ parse = "idle"

Document ==
    CASE phase = "meta" -> column_data_idfmeta
      [] phase = "idf" -> column_data_idf(column.idf)
      [] phase = "dictionary" -> column_data_dictionary(column.dictionary)

OpenDocument ==
    /\ phase \in {"meta", "idf", "dictionary"}
    /\ Construct(Document)
    /\ UNCHANGED <<column, phase, decoderVars>>

ReadDocument ==
    /\ phase \in {"meta", "idf", "dictionary"}
    /\ ReadStep
    /\ phase' = IF parse' \in {"failed", "wild"} THEN parse' ELSE phase
    /\ UNCHANGED <<column, decoderVars>>

ReadIdfMetadata ==
    /\ phase = "meta" /\ Release
    /\ meta' = [min_data_id |-> column.meta.min_data_id,
                count_bit_packed |-> column.meta.count_bit_packed,
                bit_width |-> bit_width(column.meta)]
    /\ phase' = "idf"
    /\ UNCHANGED <<column, indices, dictionary, row, output>>

DecodeIndices ==
    /\ phase = "idf" /\ Release
    /\ LET ids == ReadRLEBitPackedHybrid(column.idf, meta.count_bit_packed,
                                         PackedBase, meta.bit_width)
       IN  /\ indices' = ids.value
           /\ phase' = IF ids.wild THEN "wild"
                       ELSE IF column.Dictionary THEN "dictionary" ELSE "rows"
    /\ UNCHANGED <<column, meta, dictionary, row, output>>

DecodeDictionary ==
    /\ phase = "dictionary" /\ Release
    /\ LET dict == ReadDictionary(column.dictionary, meta.min_data_id)
       IN  /\ dictionary' = dict.value
           /\ phase' = IF dict.wild THEN "wild" ELSE "rows"
    /\ UNCHANGED <<column, meta, indices, row, output>>

RowCount == IF Chunk <= Len(indices) - row THEN Chunk ELSE Len(indices) - row
ChunkIds == SubSeq(indices, row + 1, row + RowCount)

ProcessRows ==
    /\ phase = "rows" /\ row < Len(indices)
    /\ IF \E i \in 1 .. RowCount : RowThrows(ChunkIds[i])
       THEN phase' = "failed" /\ UNCHANGED <<row, output>>
       ELSE /\ output' = output \o [i \in 1 .. RowCount |-> RowValue(ChunkIds[i])]
            /\ row' = row + RowCount
            /\ UNCHANGED phase
    /\ UNCHANGED <<column, meta, indices, dictionary, layoutVars>>

\* Mutant: the last row is left out.
StopsShort ==
    /\ phase = "rows" /\ row + 1 >= Len(indices)
    /\ phase' = "done"
    /\ UNCHANGED <<column, decoderVars, layoutVars>>

EndOfRows ==
    /\ phase = "rows" /\ row = Len(indices)
    /\ phase' = "done"
    /\ UNCHANGED <<column, decoderVars, layoutVars>>

Over == phase \in {"done", "failed", "wild"} /\ UNCHANGED vars

Next ==
    \/ OpenDocument
    \/ ReadDocument
    \/ ReadIdfMetadata
    \/ DecodeIndices
    \/ DecodeDictionary
    \/ ProcessRows
    \/ EndOfRows
    \/ Over

Spec == Init /\ [][Next]_vars

-----------------------------------------------------------------------------
(* Properties.                                                             *)

TypeOK ==
    /\ column \in Columns
    /\ phase \in {"meta", "idf", "dictionary", "rows", "done", "failed", "wild"}
    /\ parse \in {"idle", "reading", "unwinding", "built", "failed", "wild"}
    /\ meta.min_data_id \in 0 .. IdSpace - 1 /\ meta.count_bit_packed \in Nat
    /\ \A i \in DOMAIN indices : indices[i] \in 0 .. IdSpace - 1
    /\ Len(output) = row /\ row <= Len(indices)
    /\ phase = "done" => row = Len(indices)
    /\ (stack = <<>>) <=> (parse \in {"idle", "failed"})

-----------------------------------------------------------------------------
(* The inductive invariant behind these properties (Vertipaq_proofs).      *)

Readers(c) ==
    MetaReaders \cup IdfReaders(c.idf)
    \cup (IF c.Dictionary THEN DictionaryReaders(c.dictionary) ELSE {})

ReaderInv ==
    /\ column \in Columns
    /\ phase = "dictionary" => column.Dictionary
    /\ LayoutInv(Readers(column))

\* The chunks follow each other: row by row, the ids that were unpacked are
\* turned into values, and none before everything is unpacked.
RowsInOrder ==
    /\ row \in Nat /\ IsSeq(indices)
    /\ output = [i \in 1 .. row |-> RowValue(indices[i])]
    /\ phase \in {"meta", "idf", "dictionary"} => row = 0

\* Unwinding follows a pointer that nothing set only where a union was not
\* reached yet.
UnionsOnly == parse = "wild" => Garbage(Top) # {} /\ Garbage(Top) \subseteq Unions

\* What the reading of a column keeps at every step: the types, the readers'
\* hold on what they allocate, and the rows handed out so far.
\* (initializeColumnData, processVertipaqData)
ColumnInv == TypeOK /\ ReaderInv /\ RowsInOrder /\ UnionsOnly
=============================================================================
