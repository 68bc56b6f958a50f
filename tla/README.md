# TLA+ specifications of the pbix extension for DuckDB

The extension reads the data model embedded in a Power BI file (`.pbix`). This
directory holds TLA+ modules translated from its source, the TLC configurations
that check them on small instances, and TLAPS proofs of the properties that
matter most. Paths below are relative to the repository.

## The system

A `.pbix` file is a zip archive whose `DataModel` entry is an *ABF backup*
compressed in XPress9 blocks. The backup holds a SQLite database with the
metadata and one set of VertiPaq files per column with the data.

| Component | Source | State | Operations |
|---|---|---|---|
| Extension registration | `src/pbix_extension.cpp` | none | registers three functions and two settings |
| Zip locator | `src/abf/zip_utils.cpp` | the entry at hand and its position | find the end record, find the `DataModel` entry |
| ABF parser | `src/abf/abf_parser.cpp` | per call: file position, bytes read, skip offset, block index, decoder session, buffers | `get_sqlite`: decompress the first block, skip or keep the others, read directory, log, database |
| XML models | `src/abf/backup_log*.cpp`, `virtual_directory.cpp` | none | conversions from XML, with required and optional elements |
| XPress9 decoder | `third_party/xpress9` | session signature, next block index | decompress one block |
| `pbix_meta` scanner | `src/pbix_scanner.cpp` | shared: position, group size; per worker: statement, done, scan count | bind, claim a range (under a mutex), scan a chunk |
| `pbix_read` reader | `src/pbix_reader.cpp` | as above, and per worker: column details, current row, total rows | bind, load the columns, decode a chunk |
| VertiPaq decoder | `src/vertipaq/vertipaq_decoder.cpp`, `huffman_decoder.cpp` | decoded indices and dictionary per column | bit unpacking, run lengths, dictionaries, value conversion |
| VertiPaq layouts | `src/vertipaq/column_data_*.cpp` | the objects allocated so far | generated readers: read, allocate, clean up |
| SQLite wrapper | `src/sqlite_db.cpp`, `sqlite_stmt.cpp` | database and statement handles | open from a buffer, prepare, step, row information |
| VPAX | `src/vpax/*` | per file: pre-fetched maps, sections built; shared: the `struct tm` of `gmtime` | `pbix2vpax` over a vector of file names |

DuckDB calls `Bind` once, `InitGlobal` once, `InitLocal` once per worker and
then the scan function of every worker, concurrently, until each has returned an
empty chunk. `Bind` and the first claim of every worker call the ABF parser
(and so re-read the file) and open the returned bytes as a SQLite database. The
only state the workers share is `PbixGlobalState`, under its mutex. `pbix2vpax`
is a scalar function that DuckDB may evaluate on several workers at once; they
share no object of the extension, only the static buffer of `gmtime`.

What is hard here: the claiming of rowid ranges by concurrent workers with
boundary arithmetic and a self-tuning group size; the arithmetic of skipped and
kept blocks in the parser, whose offsets are right only if five counters
advance in step; renumbering blocks so that the decoder's session accepts them;
the position-dependent decoding of columns; generated readers that must release
what they allocated wherever a file ends; and handles of SQLite that several
objects pass on. `PROJECT.json` lists each hazard at its line.

What makes the components correct:

* **ABF parser**: the bytes handed out as the metadata database are that
  database; a proper setting of the trailing blocks reads every intact file;
  only a damaged block is rejected; the call ends.
* **Zip locator, XML models**: an intact archive leads to its model, and every
  file of the model is found under its name.
* **`pbix_meta`**: every row of the table once; nothing is lost between a claim
  and the chunk it ends up in; the scan ends.
* **`pbix_read`**: the values of a row come from one row of one file version,
  and every row is returned once.
* **VertiPaq**: unpacking inverts packing; values map to the dictionary; a
  damaged file fails cleanly.
* **VPAX**: a failing file of a batch affects its own row only; sizes are those
  of the files; times are those of the row's own partition.
* **SQLite wrapper**: each handle is closed exactly once, after its statements.

## Modules

| Module | Models | Notes |
|---|---|---|
| `TableScan` | what a table function promises | abstract: rows, copies returned, outcome |
| `MetaScan` | `pbix_scanner.cpp`, `GetRowIdInfo`, `SQLiteStatement::Step` | any number of workers; implements `TableScan` |
| `MetaScan_proofs` | | TLAPS proofs about `MetaScan` |
| `AbfParser` | `AbfParser::get_sqlite`, both formats | one call, from the first block to the database |
| `AbfParser_proofs` | | TLAPS proofs about `AbfParser` |
| `PbixRead` | `pbix_reader.cpp`, `GetMetaTableInfo`, the decoder's reload, loading and row limits | one query over a file that may be replaced |
| `PbixRead_proofs` | | TLAPS proofs about `PbixRead` |
| `AbfCatalog` | `zip_utils.cpp`, the XML models, detection, `trim_buffer`, `extract_sqlite_buffer`, `match_logs_and_get_vertipaq_meta` | one archive, from its last bytes to the names of its files |
| `AbfCatalog_proofs` | | TLAPS proofs about `AbfCatalog` |
| `ColumnLayout` | `column_data_dictionary.cpp`, `column_data_idf.cpp`, `column_data_idfmeta.cpp` | constructors, allocation, exceptions, `_clean_up` |
| `Vertipaq` | `vertipaq_decoder.cpp`, `huffman_decoder.cpp` | one column; extends `ColumnLayout`, whose reader runs on each of its files |
| `Vertipaq_proofs` | | TLAPS proofs about `Vertipaq` and `ColumnLayout` |
| `ColumnFormat` | what the writer of a column's files put in them | the format as a relation; the decoder's promises; extends `Vertipaq` |
| `ColumnFormat_proofs` | | TLAPS proofs that `Vertipaq` reads back what `ColumnFormat` describes |
| `VpaxBuilder` | `vpax_builder.cpp`, `vpax_value_factory.cpp` | pure: queries, sizes and sections of one database |
| `Vpax` | `vpax_function.cpp`, `vpax_utils.cpp`, `sqlite_db.cpp`, `sqlite_stmt.cpp` | workers with chunks of files; extends `VpaxBuilder` |
| `Vpax_proofs` | | TLAPS proofs about `Vpax` and the sizes of `VpaxBuilder` |
| `DataTheorems` | | lemmas about numbers, sequences, folds and sums that the proofs share |
| `MCMetaScan`, `MCAbfParser`, `MCPbixRead`, `MCAbfCatalog`, `MCVertipaq`, `MCVpax` | | instances for TLC |

### MetaScan

`position` and `rowsPerGroup` are the shared fields; `done`, `scanCount`,
`range` (what the statement selects), `pending` (what it has yet to yield),
`chunk` and `outIdx` belong to a worker. `PbixParallelStateNext` holds the mutex
from its first to its last line, so `ClaimRange` and `ClaimTable` are one step
each and include `PbixInitInternal`. Every `Step()` of a statement is a step of
its own (`StepRow`, `RangeDone`), because the workers step their statements
concurrently. `RangeDone` leaves the statement at its beginning again, which is
what `sqlite3_step` does after `SQLITE_DONE`. A chunk counts copies per row, so
that a row delivered twice shows. `OpenFails` and `RowFails` are the exceptions
of the file and of the value conversions; DuckDB then ends the query. DuckDB
starts between one and `MaxThreads` tasks.

The values of columns, the SQL text and the conversions are left out: no
property is about them.

### AbfParser

A byte of the decompressed model is represented by its own offset. A buffer is
then a sequence of offsets, and a read is right exactly when it returns the
offsets that were asked for. `bytes_read` and the file position count blocks
(compressed sizes play no role), `skipOffset` counts bytes. The block loops of
the two formats are one loop with different bounds (`single`; `head`, then
`tail`). The decoder of the vendored library accepts a block when its index and
session signature are the ones it expects; the file records which blocks are
damaged. `read_buffer_bytes` computes modulo `Modulus` (2^64 in the code); when
its test lets a wrapped sum pass, the outcome is `"wild"`: from there the
program's behaviour is undefined and the model stops.

Assumptions about files, in `WellFormed`: the three parts lie inside the model
and blocks have the same uncompressed size except the last. A thread layout that
counts fewer blocks than the file holds is allowed (`LayoutCounts` singles out
the others). That a kept block decompresses without the skipped ones before it
is a property of the format which the code relies on, and the model takes it
over.

### PbixRead

`pbix_read` opens the file once in bind (column names, offsets of the VertiPaq
files), once when the task starts (the metadata database that answers the column
query), and once in every call of `PbixRead` (the decoder decompresses the whole
model again). `bound`, `queried` and `data` are the versions these three
readings saw; `Replace` puts another version in place between any two steps. One
open reads one version whole. The first call steps the column query row by row
(`LoadColumn`) and decodes each column at once; `details`, `totalRows` and
`currentRow` are the code's. A version records what the code's control depends
on: whether it can be read, the format, the columns in storage order, the
segments of each partition, whether a metadata table with usable rowids has the
table's name, whether the decoder knows the storage of every column
(`decodable`: the layouts its parsers accept, the types of dictionary it reads),
and whether every value converts (`convertible`). Three kinds of value do not,
and end the query: a blank of a date or currency column with a dictionary
(`std::stod` and `std::stoi` of an empty text), a currency entry of a dictionary
that no `int` holds (`std::stoi` throws `out_of_range`: stored in ten
thousandths, so any amount above about 214,748), and a number that `SetValue`
cannot cast to the column's type (a date without a dictionary is handed over as a
`BIGINT`). Which chunk of which column meets such a value is left open.

A value is abstracted to its column and to whether the three readings agreed: if
they do not, bytes of a wrong place are decoded, which throws or yields a column
of any length (`exact` is false). No place is compared with the size of the
buffer, and a column shorter than the first one is read behind its end
(`ReadsPastColumn`): such steps may also lead to `"wild"`, undefined behaviour,
where the model stops. So does a dictionary of an unknown type, for which
`readDictionary` ends without a result.

DuckDB's part: `ColumnList` refuses a column name it already has, so a
partitioned table, whose columns appear once per partition, does not bind;
`column_ids` is any selection of columns in any order; a task is called until
it returns an empty chunk. One task is enough: `PbixMaxThreads` is 1 unless the
rowids of a metadata table of the same name are known, and then `InitFails`
stops every task. The column id that stands for "no column" is left out: DuckDB
projects the first column of a table function that declares no virtual ones.

### AbfCatalog

The steps of `get_sqlite` around the decompression, in their order: `FindEnd`,
`FindDataModel` (one entry of the zip directory per step), `DetectFormat`,
`ReadHeader`, `ReadDirectory`, `ReadLog`, `ReadDatabase`,
`MatchLogsWithDirectory`. `AbfParser` has the same reads through a shortened
buffer; here the model is whole, and the question is whether the right parts are
named. An archive says where its records, entries and local headers lie, and a
read at another place finds nothing of use. A part of the model is its `Extent`.
XML is the record of its elements; an optional one is `<<>>` or `<<v>>`. `ToInt`
is the conversion of a 64-bit size to `int`, with `IntSpace` for 2^32; the sizes
of the virtual directory, the log and the database all go through it. Undefined
reads are steps to `"wild"`: the byte behind a header that `trim_buffer` does not
shorten, and the empty optional of a directory without files, where a failure
is possible as well. A size that the directory does not give is read from
uninitialised memory; only its `int` is used, and `SizesOf` takes a value for
every `int`.

`Intact` says of an archive what its writer guarantees: the last end record is
the writer's, every entry of the directory starts where the one before it ends,
the header, the directory and the log are complete, and the files of the model
are where log and directory say. It also asks that the sizes of the directory
itself and of the files it names be less than half of `IntSpace` (2 GiB): a
larger one becomes negative or loses its upper bits, and the code refuses the
file or cuts the part.
`ArchivesAssumption` holds for damaged archives too: it only gives the types of
what may be read. `CatalogInv` adds to the types where the walk through an
intact archive stands, and is what the proofs are about.

### ColumnLayout, Vertipaq and ColumnFormat

A layout lists the steps of a generated `_read` (plain reads, marks, `new`
vectors, `new` objects, the flag of a union), the pointers its constructor sets
to null, and those its `_clean_up` deletes. The stack of running constructors and
the heap of allocated objects are state; every read may throw, and the exception
unwinds one constructor per step. `WildDelete` is the deletion of a pointer that
nothing has set, which needs a flag that nothing has set either. The layout of an
object depends on the file: counts of pages, handles and segments, the kind of
each union.

`ReaderInv` is the invariant of the readers. The frames of the stack lie one in
the other (`WaitsFor`), and everything allocated is the struct of a running
constructor or lies in a member that its `_clean_up` deletes (`BelongsTo`). It
holds because every layout is a `SoundReader`: it assigns only what it deletes,
and leaves only the pointers of unions without a null.

`Vertipaq` runs that reader on the three files of a column, and converts each
while the object is alive. Packed words, run lengths, Huffman codes, swapped
bytes and the dictionary's strings are computed as in the code. Numbers are
integers in units of `1 / Unit`, so that truncation and the six digits of
`std::to_string` (`Digit`) can be told apart (`ScaleAssumption`: both are
positive, and a unit is a number of such digits); ids wrap modulo `IdSpace`. A
decimal's final division by 10000 is left out. A row's value is what the decoder
hands to `SetValue`; the cast to the column's type that follows is DuckDB's, and
that it may throw is part of `PbixRead` (`convertible`). `ColumnsAssumption` gives the
types of what is read: counts and ids fit in a word. `ColumnInv` adds to the
types `ReaderInv`, `RowsInOrder` (the output is the values of the first ids, in
order) and `UnionsOnly`. `Lookup` of a missing id yields
empty text, which is what `operator[]` of the cache inserts.

`ColumnFormat` says what the files of a column mean, from the side of the engine
that wrote them, which is not in the repository. It is a relation, not an
encoder: `Encoded(c)` relates the files of a column to what only the writer
knows, the id and the value of every row (`ids`, `written`), which runs are packed
(`packed`), the packed codes (`codes`) and the texts of every page (`texts`). A
word is the *sum* of its codes at their places, ids are counted over runs, a code
is the canonical one of a set of lengths that satisfies Kraft's inequality
(`HasPrefixCode`, `CanonicalCode`), a page's bits are those codes one behind the
other in 16-bit words. It shares with the decoder only what both sides
must agree on: the width in the metadata, the lengths in `encode_array` and the
order of symbols, the digits of a code (`Bits`) and the handles of a page. How the writer splits rows into runs, which codes it
packs, how texts are spread over pages and which lengths it picks are left open,
so the promises hold for any choice. The five fields are history: no action of
`Vertipaq` reads them.

`RowsAreWritten` is stated for columns that are `Encoded` and `Ordinary`. The
latter names what the decoder silently relies on: one segment, a dictionary whose first value has the id
`min_data_id`, no unused characters before the end of an uncompressed page (each
further one would be taken for an empty string and shift what follows), dates
counted from id 3 (the decoder subtracts `min_data_id` from every date, which
with `EPOCH_ADJUSTMENT` gives the day only then), and no negative value without a
dictionary (the division is unsigned). An empty text is read as NULL
(`vertipaq_decoder.cpp:311`); `ReadsAs` says so. `MCVertipaq` writes its columns
with an encoder of its own and assumes, where TLC checks it, that each of its
ordinary columns is `Encoded` (`OrdinaryIsEncoded`), so that the relation is known
to hold of real columns of every kind.

### VpaxBuilder and Vpax

`VpaxBuilder` takes each query of `vpax_builder.cpp` as a set of rows over the
tables it joins, and a map that is overwritten row by row as *any* of the maps
the order of the rows could leave. The sections are computed from those maps.
Names, descriptions and other copied columns are left out.

`Vpax` runs it on workers. One step is one query or one section of one file, so
that a statement may fail at each of them and another worker's steps come in
between. `connections` counts opened less closed connections of a worker, `held`
says whether the one statement object of `PreFetchData` has a statement, and
`leaked` counts statements that no object holds any more: `TryPrepare` writes
over the statement of the first query. A database that cannot be deserialized is
closed by `OpenFromBuffer` and again by the destructor, after which the process
may go on or not (`"wild"`). `gmtime` and `strftime` are two steps,
`StartTime` and `FinishTime`; what a worker finds in the shared structure is any
mixture of what was written to it since, and `refreshed` is the set of the times
that went into the text. `gmtime` never returns null: no 64-bit number of ticks
leaves its range. A negative or zero time is an empty text.

`VpaxInv` says what a worker has in its hands: the maps of the queries that have
run and nothing in the others (`Fetched`), the sections built from them
(`Built`), and of the partitions those whose times are formatted (`ToList`).
`FaultsAssumption` says that what fails is a statement of a query or a section.

`SizesAddUp` relates sizes that different queries compute. It is about files
whose base names are unique, because sizes are looked up by base name, and whose
database keeps its keys (`KeysHold`). It bounds from above: nothing is counted
twice. The columns of a partitioned table may well add up to less than the table,
since the file of a later partition replaces that of an earlier one
(`vpax_builder.cpp:136`). The keys are those of Analysis Services,
which writes the database: no query of `vpax_builder.cpp` checks them.

Statements of the sections are local objects that every exit releases; they are
not counted.

## Runs

| Run | Module / cfg | Shows |
|---|---|---|
| `meta_scan` | `MCMetaScan` | safety and refinement, 3 workers, all tables over rowids -1..7 |
| `meta_scan_live` | `MCMetaScanLive` | every scan ends, 2 workers |
| `meta_scan_complete` | `MCMetaScanComplete` | violation: the last row may be missing |
| `abf_parser` | `MCAbfParser` | parser properties and termination over all small files |
| `abf_bounds` | `MCAbfBounds` | violation: a read may leave the buffer |
| `pbix_read` | `MCPbixRead` | safety, one load per query, termination, over twelve file contents |
| `pbix_read_name` | `MCPbixReadName` | violation: a table called like a metadata table cannot be read |
| `pbix_read_segments` | `MCPbixReadSegments` | violation: only the first segment is returned |
| `abf_catalog` | `MCAbfCatalog` | an intact archive is read whole, and every file found, over 147 archives |
| `column_data` | `MCVertipaq` | rows are as written; damaged files are cleaned up, over 296 columns |
| `column_blank` | `MCVertipaqBlank` | violation: a blank date ends the query |
| `vpax` | `MCVpax` | rows, handles, times and sizes, 2 workers over chunks of up to two files |

**Bounds.** `MetaScan`: rowids -1..7 with groups of 2 give up to four claims,
doubled groups, gaps longer than a group, negative and zero rowids (no parallel
scan), a span that reaches `MaxRows` (no parallel scan), the boundary that loses
the last row and three workers that all claim; a vector of 2 makes chunks fill
before, at and after the end of a range. `AbfParser`: models of up to 14 bytes in
blocks of 3 have up to five blocks with a full or partial last one; the parts
take every place that fits; at most one block is damaged; thread layouts count
up to two blocks too few or one too many; trailing settings go from -1 (which an
unsigned comparison turns into a huge number) to one beyond the number of blocks.

`PbixRead`: two columns in every order and selection, up to five rows with
vectors of two (full chunks, a rest, none), two replacements (between bind and
start, and between start and the first call, so that all three readings may
differ, or later between calls), wrongly decoded columns of up to three rows
(longer and shorter than a vector and than one another, so that one may end
before the current row).

`AbfCatalog`: archives vary the lengths of extra fields and comments, the place
of the `DataModel` entry among up to three, a second end record, an end record
outside the window, the three signatures; models vary the set of files (two of
them with one base name) and the sizes of the database and of the virtual
directory around the halves of `IntSpace` and above it; one fault at a time in header, directory and log. `Window` is 256 and
`IntSpace` 32, large enough for a record inside and outside, and for sizes that
wrap to a negative and to a small positive number.

`Vertipaq`: columns of up to six rows in words of 6 bits and chunks of two
values; every column of three rows over three ids in every mix of runs; packed, run-length and mixed runs, the single zero word, ids around
`Marker`; string dictionaries of one and two pages in both formats and orders,
symbols with codes of different lengths and one above 127, an empty text; numbers
that need rounding, a decimal that exceeds an `int`; and columns that are not
`Ordinary`. Each read of each file may be its last.

`Vpax`: seven good databases (two partitions, old schema, no hierarchies, equal
base names), three files that fail before the first query, and one for each query
and section that fails there; each followed or preceded by a good one, and two
workers that format times at once. File sizes are powers of two: no two sets of
files have the same total.

**Fairness.** `MetaScan`: weak fairness of each worker's next call, which
DuckDB's executor gives: it keeps calling a task until it returns an empty
chunk, and the mutex is only held inside one call. `AbfParser`: weak fairness of
the one sequential call. `PbixRead`: weak fairness of the query's steps, none of
`Replace`. `AbfCatalog`, `Vertipaq` and `Vpax` state no liveness: each is a
bounded walk through one archive, column or chunk.

**The violations.** `ScanComplete`: with rowids 1..122880 the first claim starts
at rowid 0 and ends at 122879; `position` becomes 122880, which is not below the
maximum, and row 122880 is never claimed. `LossOnlyAtBoundary`, which holds,
says that this is the only way to lose a row. `ReadsStayInBuffer`: the test of
`read_buffer_bytes` wraps when a part begins in a skipped block and ends in a
kept one. `ResultExact` holds all the same: what is handed out as the database
is never something else. `ReadsEveryTable`: a data table called `Table` gets the
rowids of the metadata table `Table`; `AND ROWID BETWEEN` then ends up behind
`ORDER BY`, where `ROWID` names no single table, and the statement does not
prepare. `KnownRefusals`, which holds, lists the reasons for which a steady file
is refused after bind: this one, the multi-threaded format (which the decoder's
reload does not know), a column whose storage the decoder does not know, and a
value that does not convert (see `PbixRead` above for the kinds). Running out of
memory is not among them: it is not modelled. `ReadsWholeTable`: the rows of later
segments are not decoded; `SteadyComplete`, which holds, says that the first
segment is returned whole. `BlankIsRead`: the ids of a nullable column start one
below `min_data_id`, for the blank, but the dictionary has no entry there; the
empty text that `operator[]` returns makes `std::stod` (dates) or `std::stoi`
(decimals) throw. Other types read it as NULL, as `RowsAreWritten` checks.

## Proofs

`MetaScan_proofs` proves, for any workers, rowids and sizes that meet the named
assumptions, all the safety properties of `meta_scan`, the action property and
the refinement.

The inductive invariant is `ScanInv` (itself checked by TLC). None of the
properties is inductive alone: that no row is duplicated depends on *where* its
only copy is. `ActiveRanges` says that in an active range a row is returned, in
the chunk, or pending, exactly one of the three; `NothingElseHeld` that a worker
holds nothing outside its range; `Settled` that a row no active range covers was
returned once if its rowid is below `position`, and never otherwise;
`DisjointRanges` that two active ranges share no row; `TasksFinishLast` that a
finished task left no work, which is what turns "nobody is active" into "every
row below the end is settled". `BindDescribesRows` ties the bounds learnt by
bind to the table. Each action has its own lemma.

`GroupWithinClaimed` rests on a second invariant, `GapsClaimed`: before a group
doubles, the worker that doubles it has claimed a range of at least the present
size. The assumptions are that the sizes are positive and that a group has at
least two rowids (with one, the starting value 1 of `scan_count` would matter).

`AbfParser_proofs` proves the safety of the block loops and of the final read
for any file that is `WellFormed`, any block size, any modulus and any setting in
the range of an `int`. The invariant is `ParserInv`. Its first part is
`BufferInv`: the accounting of bytes (`Accounted`) needs that
blocks are skipped only before the first kept one (`SkippedFirst`), for
otherwise the buffer would have a gap `skipOffset` cannot describe;
`BufferMapsModel` then gives every position its byte; `InSession` says that the
decoder expects exactly the index and signature that the next kept block will be
patched with. `HandsOutDatabase` (`ResultExact`) uses no assumption about where
the database lies: a lowered offset that wraps or points into block 0 is shown
to be rejected by the bounds test or by the first byte.

`TrailingBlocksKept` needs the rest of `ParserInv`: `LoopPosition` ties the
index of the loop at hand to the blocks that have been read, and `SkippingStops`
says that the last skipped block lies in front of the ones to keep, as the
loop's own count has it. The two counts of the blocks, the loops' and the file's,
are compared only at the end (`SkippedInFront`). `ProperTrailingWorks` follows
from it: a part in the last blocks is found at its offset less `skipOffset`, or
nothing is skipped and every read is in place.

`PbixRead_proofs` proves all safety properties and the action property of
`pbix_read` for any names, versions, vector size and number of replacements. The
invariant is `ReadInv`. `NoShift` needs `LoadsInOrder`: what is still to be
loaded is exactly the end of the projection behind the loaded columns, so the
next row of the query is the next place. `SteadyExact` needs, in addition, that
in a steady file all readings agree (`SteadySources`), that therefore every
loaded column has the same rows (`SteadyDetails`), and that nothing is returned
before all columns are loaded (`LoadsFirst`): with these, no copy is capped
below the chunk. `KnownRefusals` follows from the same facts: if all readings
agree, neither loading nor copying can go wrong but for what the version itself
says of its storage and its values (`SteadyColumnsReach`).

`AbfCatalog_proofs` proves all properties of `AbfCatalog` for any archives,
window and width of an `int`. `CatalogInv` says where the walk through an intact
archive stands (entry `i` of the directory begins at the writer's offset `i`),
and what of header, directory and log has been read. `FilesFound` needs more
than the invariant: the files are a flattened sequence over groups and lists, and
the lemmas of `DataTheorems` about `FlattenSeq` say which elements it has.

`Vertipaq_proofs` proves `ReaderInv`, and from it `NothingLeftBehind`, for any
columns whose files have the types of `ColumnsAssumption`: every one of the
readers is a `SoundReader`, and every step of a reader, the throw at any read
and each unwinding included, keeps the objects in reach. `ColumnInvariant` adds
that the ids fit in a word whatever the packed words and runs are, and that the
chunks hand out each row once and in order. `FollowsOnlyUnions` is the half of
`WildOnlyThroughUnions` that is about damaged files.

`ColumnFormat_proofs` proves that the decoder inverts the format, for any number
of rows, ids, pages and texts, any code lengths and any word size and modulus that
meet `ScaleAssumption`: `RowsAreWritten`, and with it `WildOnlyThroughUnions`.
The argument follows the data:

* *Words.* The codes below a place of a word sum to less than that place's power
  of two, and those above to a multiple of the next one (`LowCodes`,
  `HighCodes`), so the shift and the mask find the code (`CodeOfWord`), word by
  word (`CodesUnpacked`).
* *Rows.* Before every run the decoder has as many ids, and has used as many
  packed ones, as the runs before it hold (`HasRead`, `RunTaken`); after the last
  these are all ids (`IdsRead`).
* *Codes.* Every symbol takes a share of the words of 15 bits; the shares of two
  symbols are apart (`PlacesApart`), and by Kraft's inequality none goes
  beyond the end (`PlacesFit`). The value of a code is the place of its share seen from
  its own length, so it fits in its bits (`ValueFits`) and no code begins with
  another (`PrefixFree`). `generate_codes`, which counts up in the sorted order
  and shifts when the length grows, gives just these codes (`CodesGenerated`), and
  in the tree of prefix-free codes the leaves are the codes (`TreeBuilt`).
* *Texts.* Swapping the byte's place and counting bits from the highest reads the
  bit of the 16-bit word (`BitStored`). The loop over the bits is, after any
  number of them, within some code or at its end with the symbol not yet taken
  (`HasFollowed`); that is why the code takes one more symbol after its
  loop, and why the result is the text (`TextDecoded`). The loop over a plain page
  has finished as many strings as it has met zeros (`Finished`).
* *Pages.* Only the last page may have more strings than texts (`Matches`): the
  zeros of its unused space are read as empty strings behind the last id. Hence
  every entry has the id the writer counted for it (`DictionaryRead`).
* *Values.* Decimals and dates go through a printed number and back, which is
  exact for the whole numbers they are stored as (`WholeNumbers`); other
  numbers keep the digits printed (`RowRead`).

The invariant is `DecodedInv`, on top of `ColumnInv`: once a file of an ordinary
column has been converted, `meta`, `indices` and `dictionary` are what the writer
meant, and no row that was read threw. It is needed because the object that held
the file is deleted before the next one is read: the properties speak of rows and
files, and at the time of a row the files are gone. That an ordinary column never
reaches `"wild"` while converting is part of it, and is the second half of
`WildOnlyThroughUnions`. It does not say that a row never throws, which is
false of blank dates (`BlankIsRead`).

`Vpax_proofs` proves, for any workers, files and chunks, `VpaxInv`,
`RowsAreOwnFiles`, `HandlesReleased` and `TimesMixOnlyAcrossWorkers`. Handles
are only settled between two files; `HandleInv` therefore says at every step what
the worker has lost and closed twice in the files before, plus what the file at
hand has opened, holds and lost so far (`HandlesOf`), where the loss happens at
the second query and nowhere else. `TimesInv` ties what may be in the shared
structure to its sources: while a worker formats, it holds the worker's own time
and times that other workers have in hand, and each of those is a time of a
partition in a file of that worker's chunk (`TimeAtHand`); every row already
listed satisfies the property (`RowsSet`, and the same for the section being
built). For `RowsAreOwnFiles`, `RowsOfWorker` follows one file from the empty maps
to its row: query by query the maps are those of a call for this file alone,
because each query finds its own map empty; section by section the value is the
one built from them; and the partitions listed plus those to come are those of
the file, each listed once because `ID` is a key (`PartitionsAssumption`).

The last part of the module proves `SizesAddUp`. By `VpaxInv` a row is the value of its own
file, so what is left is about one database. The property holds of databases that
keep their keys (`KeysHold`), and the proof shows where each key is needed: a
folder belongs to the partitions of one table (`FilesApart`), a hierarchy has a
system table of its own, which is no data table (`TablesApart`), a file belongs
to one column (`FilesOfColumn`) or one dictionary outside the partitions' folders
(`IndicesApart`), and a table has one key column (`TableRowOnce`), for with two it
would be listed, and counted, twice. Given that, each row has a set of files of
its own that is no smaller (`ColumnsAddUp`, `TableBounded`), and `SumOfParts`
concludes. `SizesAssumption` only says that the sizes of the files are numbers
and that a table has finitely many rows.

`DataTheorems` has the inductions. The library's induction theorems cannot be
instantiated by the installed provers, so it proves, from the least-number
principle of a set, that a set with 0 that is closed under the successor contains
every number (`NatStepwise`) and that a recursion over the numbers has a solution
(`NatRecursion`); folds over sequences are then runs of their steps
(`FoldExists`, `FoldStep`). For sums over finite sets it proves that `SumFunction`
of the community modules has a value, whatever order the elements are taken in
(`SumOne`, `SumFunctionIsSum`), and that disjoint parts sum to no more than the
whole (`SumOfParts`). `FoldTrace` turns `FoldLeft` of the community modules into a
sequence of states, one for each element, which is how the loops of the decoder
are reasoned about; `ConcatParts` finds the parts of a flattened sequence again.

Only model-checked are `Terminates` of three modules, which is liveness, and the
violations, which are counterexamples. Every other property of a run is proved.

## Plan

1. `MetaScan`, `TableScan`, `AbfParser`, `PbixRead` and the proofs about them
   (done).
2. `AbfCatalog`, `ColumnLayout`, `Vertipaq`, `VpaxBuilder`, `Vpax` and the
   first proofs about `Vpax` (done).
3. Proofs about the trailing blocks (`AbfParser`), `AbfCatalog`, `ColumnLayout`
   and the rows and the sizes of `Vpax` (done).
4. The format of ordinary columns as a relation between a column's files and its
   values, and from it proofs of `RowsAreWritten` and `WildOnlyThroughUnions`
   (done).
5. `pbix_read` with several tasks, once the statement that keeps every such task
   from starting is repaired.

## Not modelled

* **Registration** (`pbix_extension.cpp`): it keeps no state.
* **Vendored libraries** (XPress9, tinyxml2, SQLite, the Kaitai runtime), except
  where their protocol matters: the session of the decoder, the restart of a
  statement, `sqlite3_close_v2` with open statements.
* **`pbix_read`**: several tasks, see `PbixRead`; the cardinality estimate and
  the projection of no column.
* **SQLite wrapper**: the mapping of column types to DuckDB's, `Bind`, and methods
  nothing calls (`GetIndexInfo`, `RunPragma`, `GetViewInfo`). Move constructors
  are not modelled: the compiler elides them in every function that returns a
  handle by name.
* **VPAX**: names, descriptions and the schema of the value; the functions that
  nothing calls (`CheckIfTableIsReferenced`, `CheckIfColumnIsReferenced`,
  `BuildColumnSegments`). The argument vector is taken as flat: layouts of
  vectors are DuckDB's.
* **The split of time within `gmtime`**: it is one write of the structure; the
  mixtures in `refreshed` already contain what a partial write could give.
