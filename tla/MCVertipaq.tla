----------------------------- MODULE MCVertipaq -----------------------------
(* Columns written the way the format prescribes, for TLC.                 *)
EXTENDS ColumnFormat

First == 3                 \* the smallest id of a dictionary

\* Ids as runs: consecutive rows of one kind, and of one id if not packed.
Starts(ids, packed) ==
    SetToSortSeq({i \in DOMAIN ids :
                     \/ i = 1
                     \/ packed[i] # packed[i - 1]
                     \/ ~packed[i] /\ ids[i] # ids[i - 1]}, LAMBDA a, b : a < b)

PackedBefore(packed, i) == Cardinality({j \in 1 .. i - 1 : packed[j]})

RunsOf(ids, packed) ==
    LET starts == Starts(ids, packed)
        Stop(k) == IF k < Len(starts) THEN starts[k + 1] ELSE Len(ids) + 1
    IN  [k \in DOMAIN starts |->
            [data_value |-> IF packed[starts[k]]
                            THEN Marker - PackedBefore(packed, starts[k])
                            ELSE ids[starts[k]],
             repeat_value |-> Stop(k) - starts[k]]]

Words(codes, width) ==
    LET per == WordBits \div width
        Code(i) == IF i <= Len(codes) THEN codes[i] ELSE 0
        Word(k) == FoldLeft(LAMBDA sum, j : sum + Code(k * per + j) * 2 ^ (width * (j - 1)),
                            0, [j \in 1 .. per |-> j])
    IN  IF \A i \in DOMAIN codes : codes[i] = 0
        THEN IF codes = <<>> THEN <<>> ELSE <<0>>
        ELSE [k \in 1 .. (Len(codes) + per - 1) \div per |-> Word(k - 1)]

Codes(ids, packed, base) ==
    LET positions == SelectSeq([i \in DOMAIN ids |-> i], LAMBDA i : packed[i])
    IN  [k \in DOMAIN positions |-> ids[positions[k]] - base]

Segment(ids, packed, base, width) ==
    [primary_segment |-> RunsOf(ids, packed),
     sub_segment |-> Words(Codes(ids, packed, base), width)]

\* A column with one segment; a blank has the id below the first.
Column(ids, packed, width, nullable, type, dict, written) ==
    LET base == First - (IF nullable THEN 1 ELSE 0)
        starts == Starts(ids, packed)
    IN
    [meta |-> [a_b_a_5_a |-> 40, iterator |-> 4 + width, min_data_id |-> First,
               count_bit_packed |-> Cardinality({i \in DOMAIN packed : packed[i]})],
     idf |-> <<Segment(ids, packed, base, width)>>,
     Dictionary |-> TRUE, dictionary |-> dict, first |-> First, DataType |-> type,
     BaseId |-> 0, Magnitude |-> 1, IsNullable |-> nullable, written |-> written,
     ids |-> ids, packed |-> {k \in DOMAIN starts : packed[starts[k]]},
     codes |-> Codes(ids, packed, base), texts |-> <<>>]

NoText == [pages |-> <<>>, handles |-> <<>>, values |-> <<>>]
Numbers(type, values) ==
    [NoText EXCEPT !.values = values] @@ [dictionary_type |-> type]

Mixed(n) == [i \in 1 .. n |-> i % 3 # 2]
AllPacked(n) == [i \in 1 .. n |-> TRUE]

\* Every column of three rows over three ids, in every mix of runs, without
\* and with blanks.
Whole == <<Unit, 5 * Unit + 1, 9 * Unit + 2>>
NumberColumns ==
    {Column(ids, packed, 2, FALSE, 6, Numbers("LONG", Whole),
            [i \in 1 .. 3 |-> Number(Whole[ids[i] - 2])]) :
        ids \in [1 .. 3 -> 3 .. 5], packed \in [1 .. 3 -> BOOLEAN]}
    \cup
    {Column(ids, packed, 3, TRUE, 8, Numbers("REAL", Whole),
            [i \in 1 .. 3 |-> IF ids[i] = 2 THEN Null ELSE Number(Whole[ids[i] - 2])]) :
        ids \in [1 .. 3 -> 2 .. 4], packed \in {Mixed(3), AllPacked(3)}}

\* Texts, compressed with given code lengths.  The value of a code is the
\* sum, over the symbols in front of it, of the codes they take up.
Lengths == [s \in 0 .. 255 |-> CASE s = 65 -> 1 [] s = 66 -> 3
                                 [] s = 67 -> 2 [] s = 200 -> 3 [] OTHER -> 0]
Used == {65, 66, 67, 200}
CodeValue(s) ==
    LET before == {t \in Used : \/ Lengths[t] < Lengths[s]
                                \/ Lengths[t] = Lengths[s] /\ t < s}
    IN  FoldSet(LAMBDA t, sum : sum + 2 ^ (Lengths[s] - Lengths[t]), 0, before)
BitsOf(text) == FlattenSeq([i \in DOMAIN text |-> Bits(CodeValue(text[i]), Lengths[text[i]])])
BytesOf(bits) ==
    LET size == 2 * ((Len(bits) + 15) \div 16)
        Bit(i) == IF i <= Len(bits) THEN bits[i] ELSE 0
        Byte(k) == FoldLeft(LAMBDA sum, j : 2 * sum + Bit(8 * k + j), 0, [j \in 1 .. 8 |-> j])
    IN  [k \in 1 .. size |-> IF k % 2 = 1 THEN Byte(k) ELSE Byte(k - 2)]

CompressedPage(texts) ==
    LET bits == FlattenSeq([i \in DOMAIN texts |-> BitsOf(texts[i])])
    IN  [page_compressed |-> 1, remaining_store_available |-> 0,
         store_total_bits |-> Len(bits), compressed_string_buffer |-> BytesOf(bits),
         encode_array |-> [k \in 1 .. 128 |-> Lengths[2 * k - 2] + 16 * Lengths[2 * k - 1]]]

\* Unused characters at the end of the allocation are zero.
PlainPage(texts, unused) ==
    [page_compressed |-> 0, remaining_store_available |-> unused,
     uncompressed_character_buffer |->
         FlattenSeq([i \in DOMAIN texts |-> Append(texts[i], 0)])
         \o [i \in 1 .. unused |-> 0]]

\* The offsets of the texts of the page with the given number.
PageHandles(texts, page) ==
    [i \in DOMAIN texts |->
        [page_id |-> page,
         bit_or_byte_offset |->
             Len(FlattenSeq([j \in 1 .. i - 1 |-> BitsOf(texts[j])]))]]

Texts1 == << <<65, 66>>, <<>>, <<200, 67, 65>>, <<66, 66, 66, 200, 67>> >>
Texts2 == << <<66>>, <<67, 67>> >>

Strings(pages, handles) ==
    [NoText EXCEPT !.pages = pages, !.handles = handles] @@ [dictionary_type |-> "STRING"]

\* A page's texts, each page in turn, and rows that go through them backwards.
TextColumn(dict, pages) ==
    LET texts == FlattenSeq(pages)
        n == Len(texts)
        Whole8(text) == FlattenSeq([k \in DOMAIN text |-> Utf8(text[k])])
    IN  [Column([i \in 1 .. n |-> First + n - i], Mixed(n), 3, FALSE, 2, dict,
                [i \in 1 .. n |-> Text(Whole8(texts[n + 1 - i]))])
         EXCEPT !.texts = pages]

TextColumns ==
    {TextColumn(Strings(<<CompressedPage(Texts1), PlainPage(Texts2, unused)>>,
                        PageHandles(Texts1, 0) \o PageHandles(Texts2, 1)),
                <<Texts1, Texts2>>) : unused \in 0 .. 1}
    \cup
    {TextColumn(Strings(<<PlainPage(Texts2, unused), CompressedPage(Texts1)>>,
                        PageHandles(Texts2, 0) \o PageHandles(Texts1, 1)),
                <<Texts2, Texts1>>) : unused \in 0 .. 1}
    \cup
    {TextColumn(Strings(<<CompressedPage(Texts2), CompressedPage(Texts1)>>,
                        PageHandles(Texts2, 0) \o PageHandles(Texts1, 1)),
                <<Texts2, Texts1>>),
     TextColumn(Strings(<<[PlainPage(Texts2, 0) EXCEPT !.page_compressed = 2]>>,
                        PageHandles(Texts2, 0)), <<Texts2>>),
     TextColumn(Numbers("INVALID", <<>>), <<Texts2>>)}

Serial(day) == (day + 25569) * Unit
DateDict == Numbers("REAL", <<Serial(-1), Serial(0), Serial(7)>>)
DateColumns ==
    {Column(<<4, 3, 5, 5>>, AllPacked(4), 2, FALSE, TypeDate, DateDict,
            <<Date(0), Date(-1), Date(7), Date(7)>>),
     Column(<<4, 4, 2, 5>>, Mixed(4), 2, TRUE, TypeDate, DateDict,
            <<Date(0), Date(0), Null, Date(7)>>)}

DecimalDict == Numbers("LONG", <<-2 * Unit, 7 * Unit, (IntMax + 1) * Unit>>)
DecimalColumns ==
    {Column(ids, Mixed(3), 2, FALSE, TypeDecimal, DecimalDict,
            [i \in 1 .. 3 |-> Decimal(DecimalDict.values[ids[i] - 2] \div Unit)]) :
        ids \in {<<3, 4, 3>>, <<4, 4, 5>>}}

\* Without a dictionary the value is the id plus BaseId, over Magnitude.
DirectColumns ==
    {[Column([i \in 1 .. 3 |-> step[i] + First], Mixed(3), 3, FALSE, type, NoText,
             [i \in 1 .. 3 |-> LET value == step[i] + First + base
                               IN  IF type = TypeDecimal THEN Decimal(value)
                                   ELSE Number(value * Unit)])
        EXCEPT !.Dictionary = FALSE, !.BaseId = base] :
        step \in {<<0, 2, 5>>, <<3, 3, 6>>}, base \in {-3, 0, 4}, type \in {6, TypeDecimal}}
    \cup
    {[Column(<<3, 5, 4>>, AllPacked(3), 2, FALSE, 6, NoText,
             <<Number(-2 * Unit), Number(0), Number(-1 * Unit)>>)
        EXCEPT !.Dictionary = FALSE, !.BaseId = -5]}

\* A second segment, and a segment without the column's first id.
OddColumns ==
    LET plain == Column(<<4, 5, 4>>, AllPacked(3), 2, FALSE, 6, Numbers("LONG", Whole),
                        <<Number(Whole[2]), Number(Whole[3]), Number(Whole[2])>>)
    IN  {[plain EXCEPT !.idf = @ \o @, !.written = @ \o @],
         [plain EXCEPT !.meta.min_data_id = 4,
                       !.idf = <<Segment(<<4, 5, 4>>, AllPacked(3), 4, 2)>>]}

MCColumns ==
    NumberColumns \cup TextColumns \cup DateColumns
    \cup DecimalColumns \cup DirectColumns \cup OddColumns

\* What the properties say of encoded columns they say of every ordinary one.
ASSUME OrdinaryIsEncoded == \A c \in MCColumns : Ordinary(c) => Encoded(c)

=============================================================================
