---------------------------- MODULE ColumnFormat ----------------------------
(***************************************************************************)
(* What the files of a column mean, said from the side that wrote them,    *)
(* and the promises of the decoder (Vertipaq) about columns written so.    *)
(*                                                                         *)
(* Beside its files a column has what only the writer knows: the id and    *)
(* the value of every row (ids, written), the runs that are packed         *)
(* (packed), the ids packed in them, counted from the smallest (codes),    *)
(* and the texts of every page (texts).                                    *)
(***************************************************************************)
EXTENDS Vertipaq

-----------------------------------------------------------------------------
(* The ids.                                                                *)

\* The blank of a nullable column is the id in front of the dictionary's.
SmallestId(c) == IF c.Dictionary /\ c.IsNullable THEN c.first - 1 ELSE c.first

\* A word is the sum of its codes, each at its place.
PlacesCodes(words, codes, width) ==
    /\ width \in 1 .. WordBits - 1
    /\ \A i \in DOMAIN codes : codes[i] \in 0 .. PowerOf2[width] - 1
    /\ LET per == WordBits \div width
           Code(i) == IF i \in DOMAIN codes THEN codes[i] ELSE 0
       IN  /\ Len(codes) <= Len(words) * per
           /\ \A w \in DOMAIN words :
                 words[w] = SumFunction([j \in 0 .. per - 1 |->
                                Code((w - 1) * per + j + 1) * PowerOf2[width * j]])

\* A single zero stands for any number of zero codes.
HoldsCodes(words, codes, width) ==
    \/ words = <<0>> /\ \A i \in DOMAIN codes : codes[i] = 0
    \/ PlacesCodes(words, codes, width)

RowsBefore(runs, k) == SumFunction([i \in 1 .. k - 1 |-> runs[i].repeat_value])
PackedRowsBefore(runs, packed, k) ==
    SumFunction([i \in packed \cap (1 .. k - 1) |-> runs[i].repeat_value])

\* A run of packed rows is marked with the number of packed rows before it;
\* any other run has one id, which must not look like a mark.
HoldsRun(c, run, isPacked, before, place) ==
    IF isPacked
    THEN /\ run.data_value + place = Marker
         /\ \A j \in 1 .. run.repeat_value :
               c.ids[before + j] = SmallestId(c) + c.codes[place + j]
    ELSE /\ run.data_value + place # Marker
         /\ \A j \in 1 .. run.repeat_value : c.ids[before + j] = run.data_value

HoldsIds(c) ==
    LET part == c.idf[1]
        runs == part.primary_segment
    IN  /\ c.ids \in Seq(0 .. IdSpace - 1) /\ c.codes \in Seq(Nat)
        /\ c.packed \subseteq DOMAIN runs
        /\ HoldsCodes(part.sub_segment, c.codes, bit_width(c.meta))
        /\ c.meta.count_bit_packed = Len(c.codes)
        /\ Len(c.ids) = RowsBefore(runs, Len(runs) + 1)
        /\ Len(c.codes) = PackedRowsBefore(runs, c.packed, Len(runs) + 1)
        /\ \A k \in DOMAIN runs :
              HoldsRun(c, runs[k], k \in c.packed, RowsBefore(runs, k),
                       PackedRowsBefore(runs, c.packed, k))

-----------------------------------------------------------------------------
(* The dictionary.                                                         *)

Bytes == 0 .. 255

\* Some prefix code has these lengths: no code uses up more than its share of
\* all words of 15 bits (Kraft's inequality).
HasPrefixCode(lengths) ==
    /\ Coded(lengths) # {}
    /\ SumFunction([i \in Coded(lengths) |-> PowerOf2[15 - lengths[i]]]) <= PowerOf2[15]

\* The canonical one: the codes before take up the values below a symbol's code.
CanonicalCode(lengths, i) ==
    Bits(SumFunction([j \in CodedBefore(lengths, i) |-> PowerOf2[lengths[i] - lengths[j]]]),
         lengths[i])

\* Bits are counted from the highest of 16-bit words, stored low byte first.
StoredBit(buffer, position) ==
    LET low == 2 * (position \div 16) + 1
        word == buffer[low] + 256 * buffer[low + 1]
    IN  (word \div PowerOf2[15 - (position % 16)]) % 2

\* The bits of a text's symbols, one code behind the other.
HoldsBits(page, start, end, text) ==
    LET lengths == DecompressEncodeArray(page.encode_array)
        bits == FlattenSeq([k \in DOMAIN text |-> CanonicalCode(lengths, text[k] + 1)])
    IN  /\ \A k \in DOMAIN text : text[k] + 1 \in Coded(lengths)
        /\ end = start + Len(bits)
        /\ \A k \in DOMAIN bits :
              StoredBit(page.compressed_string_buffer, start + k - 1) = bits[k]

HoldsCompressed(page, starts, texts) ==
    LET size == Len(page.compressed_string_buffer)
        Ends(i) == IF i < Len(starts) THEN starts[i + 1] ELSE page.store_total_bits
    IN  /\ page.encode_array \in Seq(Bytes) /\ page.compressed_string_buffer \in Seq(Bytes)
        /\ HasPrefixCode(DecompressEncodeArray(page.encode_array))
        /\ size % 2 = 0 /\ page.store_total_bits \in 0 .. 8 * size
        /\ starts \in Seq(0 .. page.store_total_bits) /\ Len(starts) = Len(texts)
        /\ \A i \in DOMAIN texts : HoldsBits(page, starts[i], Ends(i), texts[i])

\* Every text ends with a zero, and the rest of the allocation is zero.
HoldsPlain(page, texts) ==
    /\ page.remaining_store_available \in Nat
    /\ \A i \in DOMAIN texts : 0 \notin Range(texts[i])
    /\ page.uncompressed_character_buffer =
          FlattenSeq([i \in DOMAIN texts |-> Append(texts[i], 0)])
          \o [i \in 1 .. page.remaining_store_available |-> 0]

HoldsTexts(c) ==
    LET dict == c.dictionary
    IN  /\ c.texts \in Seq(Seq(Seq(Bytes))) /\ Len(c.texts) = Len(dict.pages)
        /\ \A p \in DOMAIN dict.pages :
              LET page == dict.pages[p]
              IN  IF page.page_compressed = 0 THEN HoldsPlain(page, c.texts[p])
                  ELSE HoldsCompressed(page, HandlesOf(dict.handles, p - 1), c.texts[p])

\* A compressed page has characters of ISO 8859-1, a plain one has UTF-8.
Utf8(char) == IF char < 128 THEN <<char>> ELSE <<192 + (char \div 64), 128 + (char % 64)>>
TextOf(page, text) ==
    Text(IF page.page_compressed = 0 THEN text
         ELSE FlattenSeq([k \in DOMAIN text |-> Utf8(text[k])]))

\* The values of the ids, from the first id on.
Entries(c) ==
    IF c.dictionary.dictionary_type = "STRING"
    THEN FlattenSeq([p \in DOMAIN c.texts |->
             [i \in DOMAIN c.texts[p] |-> TextOf(c.dictionary.pages[p], c.texts[p][i])]])
    ELSE [i \in DOMAIN c.dictionary.values |-> Number(c.dictionary.values[i])]

-----------------------------------------------------------------------------
(* The rows.                                                               *)

DayOfSerial == 25569       \* 1970-01-01 as the number of a day

\* Decimals are stored as whole numbers, and dates as the number of the day.
IsEntryOf(c, entry, v) ==
    IF c.DataType \in {TypeDecimal, TypeDate}
    THEN /\ entry[1] = "number" /\ entry[2] % Unit = 0
         /\ v = IF c.DataType = TypeDecimal THEN Decimal(entry[2] \div Unit)
                ELSE Date(entry[2] \div Unit - DayOfSerial)
    ELSE v = entry

\* Without a dictionary the id counts steps of the magnitude from the base.
IsDirect(c, id, v) ==
    LET n == id + c.BaseId
    IN  /\ n \in 0 .. IdSpace - 1 /\ n % c.Magnitude = 0
        /\ v = IF c.DataType = TypeDecimal THEN Decimal(n \div c.Magnitude)
               ELSE Number((n \div c.Magnitude) * Unit)

\* The id of a row stands for the value that was written.
IsIdOf(c, id, v) ==
    IF c.Dictionary
    THEN \/ c.IsNullable /\ id = SmallestId(c) /\ v = Null
         \/ \E i \in DOMAIN Entries(c) : id = c.first + i - 1 /\ IsEntryOf(c, Entries(c)[i], v)
    ELSE IsDirect(c, id, v)

Encoded(c) ==
    /\ HoldsIds(c)
    /\ c.Dictionary =>
          IF c.dictionary.dictionary_type = "STRING" THEN HoldsTexts(c)
          ELSE c.dictionary.values \in Seq(Int)
    /\ ~c.Dictionary => c.BaseId \in Int /\ c.Magnitude \in Nat \ {0}
    /\ IsSeq(c.written) /\ Len(c.written) = Len(c.ids)
    /\ \A i \in DOMAIN c.ids : IsIdOf(c, c.ids[i], c.written[i])

-----------------------------------------------------------------------------
(* Properties.                                                             *)

\* What the writer guarantees of most columns: one segment, a dictionary of a
\* known type whose first id is the smallest of the segment, pages of a known
\* kind without unused characters between two pages, dates counted from the
\* id 3, and no negative number stored without a dictionary.
Ordinary(c) ==
    /\ Len(c.idf) = 1
    /\ c.meta.min_data_id = c.first
    /\ c.DataType = TypeDate => c.first = 3
    /\ IF c.Dictionary
       THEN /\ c.dictionary.dictionary_type \in {"STRING", "LONG", "REAL"}
            /\ c.dictionary.dictionary_type = "STRING" =>
                  \A i \in DOMAIN c.dictionary.pages :
                      LET page == c.dictionary.pages[i]
                      IN  /\ page.page_compressed \in {0, 1}
                          /\ page.page_compressed = 0 /\ i < Len(c.dictionary.pages) =>
                                page.remaining_store_available = 0
       ELSE \A i \in DOMAIN c.written : c.written[i][2] >= 0

\* An empty text is read as NULL, and a number keeps the digits printed.
ReadsAs(got, v) ==
    CASE v = Empty -> got = Null
      [] v[1] = "number" /\ column.Dictionary ->
            /\ got[1] = "number"
            /\ 2 * (got[2] - v[2]) \in -Digit .. Digit
      [] OTHER -> got = v

\* The rows of an ordinary column come out as they were written, in order and
\* all of them: unpacking inverts packing, ids find their dictionary entry
\* across pages, and Huffman codes decode to the text they were made from.
\* (initializeColumnData, processVertipaqData)
RowsAreWritten ==
    Ordinary(column) /\ Encoded(column) =>
        /\ \A i \in DOMAIN output :
              i \in DOMAIN column.written /\ ReadsAs(output[i], column.written[i])
        /\ phase = "done" => Len(output) = Len(column.written)

\* Reading a damaged file follows a wild pointer only where a union was not
\* reached yet: the page's string store and the dictionary's data.  Whatever
\* else is undefined needs a column that is not ordinary.
\* (_clean_up of dictionary_page_t and column_data_dictionary_t)
WildOnlyThroughUnions ==
    phase = "wild" =>
        \/ parse = "wild" /\ Garbage(Top) # {} /\ Garbage(Top) \subseteq Unions
        \/ ~(Ordinary(column) /\ Encoded(column))

\* A blank of a nullable column is read as NULL: the rows of an ordinary
\* nullable column do not fail once its files are read.
\* (initializeColumnData, "if isNullable treat min_data_id as blank")
BlankIsRead ==
    Ordinary(column) /\ column.IsNullable => ~(phase = "failed" /\ parse = "idle")

-----------------------------------------------------------------------------
(* The inductive invariant behind these properties (ColumnFormat_proofs).  *)

IsWritten(c) == Ordinary(c) /\ Encoded(c)

\* What an ordinary column is read to: its smallest id, then the ids of its
\* rows, then its dictionary, and no row so far without a value.
\* (initializeColumnData, processVertipaqData)
DecodedInv ==
    IsWritten(column) =>
        /\ phase \in {"idf", "dictionary", "rows", "done"} \/ row > 0 =>
              meta = [min_data_id |-> column.first, count_bit_packed |-> Len(column.codes),
                      bit_width |-> bit_width(column.meta)]
        /\ phase \in {"dictionary", "rows", "done"} \/ row > 0 => indices = column.ids
        /\ column.Dictionary /\ (phase \in {"rows", "done"} \/ row > 0) =>
              dictionary = ReadDictionary(column.dictionary, column.first).value
        /\ \A i \in 1 .. row : ~RowThrows(indices[i])
        /\ phase = "wild" => parse = "wild"
=============================================================================
