------------------------------ MODULE PbixRead ------------------------------
(***************************************************************************)
(* The pbix_read() table function (pbix_reader.cpp): one query over one    *)
(* table.  The file is opened again and again: by bind (names and file     *)
(* offsets), when the task starts (the column query), and by the decoder   *)
(* of every call of PbixRead.  The first call decodes all columns; this    *)
(* and the later ones copy chunks out of them.  Somebody may replace the   *)
(* file at any time, e.g. between PREPARE and EXECUTE.                     *)
(*                                                                         *)
(* DuckDB runs one task: PbixMaxThreads is 1 unless a metadata table has   *)
(* the name of the data table, and then no task gets past its start.       *)
(* Values are abstracted to the column they come from and to whether the   *)
(* three readings of the file agreed; an open reads one version whole.     *)
(***************************************************************************)
EXTENDS Integers, Sequences

CONSTANTS
    Names,                 \* column names
    Versions,              \* contents the file may have over time
    NoVersion,             \* nothing has been read
    VectorSize,            \* STANDARD_VECTOR_SIZE
    MaxGarbage,            \* bound: longest column decoded at a wrong place
    MaxReplacements        \* bound: how often the file is replaced

(***************************************************************************)
(* What a version of the file says about the table: its columns in storage *)
(* order, the rows of each segment of each partition (all columns of a     *)
(* table are cut alike), whether a metadata table with usable rowids bears *)
(* the table's name, the format of the data model, whether the decoder     *)
(* knows the storage of every column, and whether every value converts.    *)
(*                                                                         *)
(* A value does not convert if it is a blank of a date or currency column  *)
(* (it has no entry in the dictionary, and the empty text is no number), a *)
(* currency entry of a dictionary that no int holds, or a stored number    *)
(* that SetValue cannot cast to the column's type.                         *)
(***************************************************************************)
VersionRecords ==
    [readable : BOOLEAN, format : {"single", "multi"}, columns : Seq(Names),
     parts : Seq(Seq(Nat)), sameName : BOOLEAN,
     decodable : BOOLEAN, convertible : BOOLEAN]

Distinct(s) == \A i, j \in DOMAIN s : s[i] = s[j] => i = j

ASSUME VersionsAssumption ==
    /\ Versions \subseteq VersionRecords
    /\ NoVersion \notin Versions
    /\ \A v \in Versions :
          /\ Distinct(v.columns)
          /\ \A p \in DOMAIN v.parts : v.parts[p] # <<>>
ASSUME ReadSizesAssumption ==
    VectorSize \in Nat \ {0} /\ MaxGarbage \in Nat /\ MaxReplacements \in Nat

VARIABLES
    file,                  \* the version on disk
    replacements,          \* history: how often it was replaced after bind
    bound,                 \* the version bind read: names, vertipaq_files
    projection,            \* the names behind column_ids
    queried,               \* the version of the worker's metadata database
    pending,               \* rows the column query has yet to yield
    data,                  \* the version in the decoder of this call
    details,               \* column_details
    initialized,           \* initialized_vertipaq
    currentRow,            \* current_row
    totalRows,             \* total_rows
    chunk,                 \* the last chunk returned
    phase                  \* where the query is

source == <<file, replacements>>
loaded == <<pending, details, initialized, totalRows>>
vars == <<source, bound, projection, queried, data, loaded, currentRow, chunk,
          phase>>

NoChunk == [from |-> 0, size |-> 0, vectors |-> <<>>]

Init ==
    /\ file \in Versions
    /\ replacements = 0
    /\ bound = NoVersion
    /\ projection = <<>>
    /\ queried = NoVersion
    /\ pending = {}
    /\ data = NoVersion
    /\ details = <<>>
    /\ initialized = FALSE
    /\ currentRow = 0
    /\ totalRows = 0
    /\ chunk = NoChunk
    /\ phase = "bind"

Stop(outcome) ==
    /\ phase' = outcome
    /\ data' = NoVersion
    /\ UNCHANGED <<source, bound, projection, queried, loaded, currentRow, chunk>>

\* An exception ends the query.
Throw == Stop("failed")

\* Undefined behaviour: nothing is claimed from here on.
RunWild == Stop("wild")

\* Somebody writes another version of the file while the query is under way.
Replace ==
    /\ phase \notin {"bind", "ended", "failed", "wild"}
    /\ replacements < MaxReplacements
    /\ file' \in Versions \ {file}
    /\ replacements' = replacements + 1
    /\ UNCHANGED <<bound, projection, queried, data, loaded, currentRow, chunk,
                   phase>>

-----------------------------------------------------------------------------
(* PbixBind.                                                               *)

\* GetMetaTableInfo yields a name for every partition of every column, and
\* DuckDB's ColumnList refuses a name it has.
Binds(v) == v.readable /\ v.columns # <<>> /\ Len(v.parts) = 1

\* Any columns, in any order.
Projections(columns) ==
    {p \in UNION {[1..n -> Names] : n \in 1..Len(columns)} :
        /\ Distinct(p)
        /\ \A k \in DOMAIN p : \E i \in DOMAIN columns : columns[i] = p[k]}

PbixBind ==
    /\ phase = "bind"
    /\ Binds(file)
    /\ bound' = file
    /\ projection' \in Projections(file.columns)
    /\ phase' = "init"
    /\ UNCHANGED <<source, queried, data, loaded, currentRow, chunk>>

BindFails ==
    /\ phase = "bind"
    /\ ~Binds(file)
    /\ Throw

-----------------------------------------------------------------------------
(* PbixInitInternal, called once: the task's only claim.                   *)

Has(v, name) == \E i \in DOMAIN v.columns : v.columns[i] = name

\* One row for each partition of each projected column that is there; a row
\* is the place of its column in the projection and its partition.
QueryRows(v) ==
    {r \in (1..Len(projection)) \X (1..Len(v.parts)) :
        Has(v, projection[r[1]])}

\* With usable rowids " AND ROWID BETWEEN" is appended, which does not prepare:
\* the query joins several tables that have one.
Prepares == ~bound.sameName

\* Mutant: the database opened here is not kept.
KeepsNoDatabase ==
    /\ phase = "init"
    /\ file.readable
    /\ Prepares
    /\ pending' = QueryRows(file)
    /\ phase' = "call"
    /\ UNCHANGED <<source, bound, projection, queried, data, details, initialized,
                   currentRow, totalRows, chunk>>

PbixInitInternal ==
    /\ phase = "init"
    /\ file.readable
    /\ Prepares
    /\ queried' = file
    /\ pending' = QueryRows(file)
    /\ phase' = "call"
    /\ UNCHANGED <<source, bound, projection, data, details, initialized,
                   currentRow, totalRows, chunk>>

InitFails ==
    /\ phase = "init"
    /\ ~(file.readable /\ Prepares)
    /\ Throw

-----------------------------------------------------------------------------
(* PbixRead.  Every call begins by decompressing the file as it is now; the *)
(* decoder knows only the single-threaded format.                          *)

Decodes(v) == v.readable /\ v.format = "single"

StartCall ==
    /\ phase = "call"
    /\ Decodes(file)
    /\ data' = file
    /\ phase' = IF initialized THEN "emit" ELSE "load"
    /\ UNCHANGED <<source, bound, projection, queried, loaded, currentRow, chunk>>

CallFails ==
    /\ phase = "call"
    /\ ~Decodes(file)
    /\ Throw

\* The offsets of bind, the file names of the column query and the data of
\* this call belong together.
Agree == bound = queried /\ queried = data

\* Mutant: ORDER BY StoragePosition, as bind has it.
StorageOrder(r) ==
    \A s \in pending :
        \E i, j \in DOMAIN bound.columns :
            /\ bound.columns[i] = projection[r[1]]
            /\ bound.columns[j] = projection[s[1]]
            /\ i <= j

\* ORDER BY the place in the projection.
IsNext(r) == \A s \in pending : r[1] <= s[1]

\* readRLEBitPackedHybrid decodes segments[0].
DecodedRows(v, p) == v.parts[p][1]

Detail(r, exact, n) ==
    [column |-> projection[r[1]], part |-> r[2], exact |-> exact, rows |-> n]

AppendDetail(r, exact, n) ==
    /\ details' = Append(details, Detail(r, exact, n))
    /\ totalRows' = IF details = <<>> THEN n ELSE totalRows

\* One row of the column query and initializeColumnData for it.
LoadColumn ==
    /\ phase = "load"
    /\ \E r \in pending :
          /\ IsNext(r)
          /\ pending' = pending \ {r}
          /\ \/ Agree /\ AppendDetail(r, TRUE, DecodedRows(data, r[2]))
             \/ ~Agree /\ \E n \in 0..MaxGarbage : AppendDetail(r, FALSE, n)
    /\ UNCHANGED <<source, bound, projection, queried, data, initialized,
                   currentRow, chunk, phase>>

\* Bytes from a wrong place need not be a column, and the places of another
\* version may lie outside of the buffer, which nothing checks.  A storage that
\* the parser refuses is an exception, a type of dictionary it does not know
\* leaves readDictionary without a result.
LoadFails ==
    /\ phase = "load"
    /\ pending # {}
    /\ ~Agree \/ ~bound.decodable
    /\ Throw \/ RunWild

\* Mutant: the columns count as not loaded.
LoadsAgain ==
    /\ phase = "load"
    /\ pending = {}
    /\ pending' = QueryRows(queried)
    /\ phase' = "emit"
    /\ UNCHANGED <<source, bound, projection, queried, data, details,
                   initialized, totalRows, currentRow, chunk>>

ColumnsLoaded ==
    /\ phase = "load"
    /\ pending = {}
    /\ initialized' = TRUE
    /\ phase' = "emit"
    /\ UNCHANGED <<source, bound, projection, queried, data, pending, details,
                   totalRows, currentRow, chunk>>

RowsLeft == currentRow < totalRows

\* Mutant: a rest smaller than a vector is not returned.
StopsAtRest ==
    /\ phase = "emit"
    /\ totalRows - currentRow < VectorSize
    /\ data' = NoVersion
    /\ phase' = "ended"
    /\ UNCHANGED <<source, bound, projection, queried, loaded, currentRow, chunk>>

\* Mutant: a table without rows is never done.
NeverEmpty ==
    /\ phase = "emit"
    /\ ~RowsLeft
    /\ data' = NoVersion
    /\ phase' = IF totalRows = 0 THEN "call" ELSE "ended"
    /\ UNCHANGED <<source, bound, projection, queried, loaded, currentRow, chunk>>

EndOfRows ==
    /\ phase = "emit"
    /\ ~RowsLeft
    /\ data' = NoVersion
    /\ phase' = "ended"
    /\ UNCHANGED <<source, bound, projection, queried, loaded, currentRow, chunk>>

\* Mutant: a full vector although fewer rows are left.
AlwaysFull == VectorSize

RowsToProcess ==
    IF totalRows - currentRow < VectorSize THEN totalRows - currentRow
                                           ELSE VectorSize

\* processVertipaqData caps the rows by what the column has left, computed
\* without a sign: a column that ended before currentRow caps nothing.
RowsCopied(d, n) ==
    IF currentRow <= d.rows /\ d.rows - currentRow < n THEN d.rows - currentRow
                                                       ELSE n

\* Mutant: the copy begins one row late and stops at the column's end.
FillsNextRow(d, n) ==
    [column |-> d.column, part |-> d.part, exact |-> d.exact,
     count |-> RowsCopied([d EXCEPT !.rows = IF @ > 0 THEN @ - 1 ELSE 0], n)]

Filled(d, n) ==
    [column |-> d.column, part |-> d.part, exact |-> d.exact,
     count |-> RowsCopied(d, n)]

\* Vector k of the output is filled from the k-th detail, if there is one.
Vectors(n) ==
    [k \in 1..Len(projection) |->
        IF k <= Len(details) THEN Filled(details[k], n)
        ELSE [column |-> projection[k], part |-> 0, exact |-> FALSE, count |-> 0]]

EmitChunk ==
    /\ phase = "emit"
    /\ RowsLeft
    /\ chunk' = [from |-> currentRow, size |-> RowsToProcess,
                 vectors |-> Vectors(RowsToProcess)]
    /\ currentRow' = currentRow + RowsToProcess
    /\ data' = NoVersion
    /\ phase' = "call"
    /\ UNCHANGED <<source, bound, projection, queried, loaded>>

\* std::stoi, std::stod or SetValue throws for a value of this chunk.
ConversionFails ==
    /\ phase = "emit"
    /\ RowsLeft
    /\ ~bound.convertible \/ \E k \in DOMAIN details : ~details[k].exact
    /\ Throw

\* A column that ended before currentRow is read behind its end.
ReadsPastColumn ==
    /\ phase = "emit"
    /\ RowsLeft
    /\ \E k \in DOMAIN details : k <= Len(projection) /\ details[k].rows < currentRow
    /\ RunWild

Step ==
    \/ PbixBind \/ BindFails \/ PbixInitInternal \/ InitFails
    \/ StartCall \/ CallFails \/ LoadColumn \/ LoadFails \/ ColumnsLoaded
    \/ EndOfRows \/ EmitChunk \/ ConversionFails \/ ReadsPastColumn

Over ==
    /\ phase \in {"ended", "failed", "wild"}
    /\ UNCHANGED vars

Next == Step \/ Replace \/ Over

Spec == Init /\ [][Next]_vars

\* DuckDB calls the task until it returns an empty chunk.
FairSpec == Spec /\ WF_vars(Step)

-----------------------------------------------------------------------------
(* Properties.                                                             *)

Details == [column : Names, part : Nat, exact : BOOLEAN, rows : Nat]

Vector == [column : Names, part : Nat, exact : BOOLEAN, count : Nat]

\* Every variable has its type; no more rows are returned than were decoded.
TypeOK ==
    /\ file \in Versions
    /\ replacements \in 0..MaxReplacements
    /\ {bound, queried, data} \subseteq Versions \cup {NoVersion}
    /\ projection \in Seq(Names)
    /\ pending \subseteq Nat \X Nat
    /\ details \in Seq(Details)
    /\ initialized \in BOOLEAN
    /\ totalRows \in Nat
    /\ currentRow \in 0..totalRows
    /\ chunk \in [from : Nat, size : 0..VectorSize, vectors : Seq(Vector)]
    /\ phase \in {"bind", "init", "call", "load", "emit", "ended", "failed", "wild"}

\* Nobody has replaced the file since bind.
Steady == replacements = 0

\* As long as nobody replaces the file, every vector of a chunk is filled to
\* the chunk's length from the column DuckDB asked for in its place.
SteadyExact ==
    Steady /\ chunk # NoChunk =>
        /\ chunk.size > 0
        /\ chunk.vectors =
              [k \in 1..Len(projection) |->
                  [column |-> projection[k], part |-> 1, exact |-> TRUE,
                   count |-> chunk.size]]

\* As long as nobody replaces the file, a query that ends has returned every
\* row of the table's first segment.
SteadyComplete ==
    Steady /\ phase = "ended" => currentRow = DecodedRows(bound, 1)

\* Whatever happened to the file since bind: if the metadata a task reads still
\* has every projected column, and once, then detail k is of column k.
StillHasColumns ==
    /\ queried # NoVersion
    /\ Len(queried.parts) = 1
    /\ \A k \in DOMAIN projection : Has(queried, projection[k])

NoShift ==
    StillHasColumns =>
        /\ \A k \in DOMAIN details : details[k].column = projection[k]
        /\ initialized => Len(details) = Len(projection)

\* A steady file that binds is refused later only for the reasons below: the
\* name of a metadata table, the multi-threaded format, a column whose storage
\* the decoder does not know, a value that does not convert.  None of its bytes
\* is read from a wrong place: undefined behaviour takes an unknown storage.
KnownRefusals ==
    /\ Steady /\ phase = "failed" =>
          \/ ~Binds(file) \/ file.sameName \/ file.format = "multi"
          \/ ~file.decodable \/ ~file.convertible
    /\ Steady /\ phase = "wild" => ~file.decodable

\* The rows of one query come from one load: after the first chunk the columns
\* stay as they are, even if the file is replaced, and the chunks follow one
\* another without a gap.
OneLoad ==
    [][/\ chunk # NoChunk => UNCHANGED <<details, totalRows>>
       /\ chunk' # chunk => chunk'.from = chunk.from + chunk.size]_vars

\* The query ends, unless its behaviour becomes undefined.
Terminates == <>(phase \in {"ended", "failed", "wild"})

-----------------------------------------------------------------------------
(* The inductive invariant behind these properties (PbixRead_proofs).      *)

\* What each phase has read.
Progress ==
    /\ phase = "bind" => bound = NoVersion /\ replacements = 0
    /\ phase \in {"bind", "init"} =>
          /\ queried = NoVersion /\ details = <<>> /\ pending = {}
          /\ ~initialized
    /\ phase \in {"init", "call", "load", "emit", "ended"} => bound # NoVersion
    /\ phase \in {"call", "load", "emit", "ended"} => queried # NoVersion
    /\ phase \in {"load", "emit"} => data # NoVersion
    /\ phase = "load" => ~initialized
    /\ phase \in {"emit", "ended"} => initialized
    /\ phase = "ended" => ~RowsLeft

\* What bind read can be read, and the columns are columns of it.
ProjectionBound ==
    bound # NoVersion =>
        Binds(bound) /\ projection \in Projections(bound.columns)

\* All readings of a steady file are of the same version.
SteadySources == Steady => {bound, queried, data} \subseteq {NoVersion, file}

\* What is still to be loaded is part of what the query selected.
PendingRows == queried # NoVersion => pending \subseteq QueryRows(queried)

\* The columns are loaded in the order of the projection.
LoadsInOrder ==
    StillHasColumns =>
        /\ Len(details) <= Len(projection)
        /\ pending = ((Len(details) + 1)..Len(projection)) \X {1}
        /\ \A k \in DOMAIN details :
              details[k].column = projection[k] /\ details[k].part = 1

\* Every column of a steady file has the rows of the first segment.
SteadyDetails ==
    Steady => \A k \in DOMAIN details :
                 details[k].exact /\ details[k].rows = DecodedRows(bound, 1)

\* Nothing is returned before all columns are loaded.
LoadsFirst ==
    /\ initialized => pending = {}
    /\ ~initialized => chunk = NoChunk /\ currentRow = 0
    /\ totalRows = IF details = <<>> THEN 0 ELSE details[1].rows
    /\ chunk.from + chunk.size = currentRow

ReadInv ==
    /\ TypeOK
    /\ Progress
    /\ ProjectionBound
    /\ SteadySources
    /\ PendingRows
    /\ LoadsInOrder
    /\ SteadyDetails
    /\ LoadsFirst
    /\ SteadyExact

-----------------------------------------------------------------------------
(* What the documentation says and the code does not keep.                 *)

\* README.md:38, pbix_read "returns the contents of the table": a table of a
\* steady single-threaded file that can be decoded and converted is not refused
\* after bind.
ReadsEveryTable ==
    /\ Steady /\ phase = "failed"
    /\ file.format = "single" /\ file.decodable /\ file.convertible
    => ~Binds(file)

\* README.md:38 again: a query that ends has returned all rows of the table.
TotalOf(sizes) ==
    LET sum[n \in 0..Len(sizes)] == IF n = 0 THEN 0 ELSE sum[n - 1] + sizes[n]
    IN  sum[Len(sizes)]

ReadsWholeTable ==
    Steady /\ phase = "ended" => currentRow = TotalOf(bound.parts[1])
=============================================================================
