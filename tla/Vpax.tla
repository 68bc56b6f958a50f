-------------------------------- MODULE Vpax --------------------------------
(***************************************************************************)
(* pbix2vpax (vpax/vpax_function.cpp) called by DuckDB's workers, each     *)
(* with a chunk of file names: every file is parsed, its database opened   *)
(* (sqlite_db.cpp), the queries of VpaxBuilder run one by one, and the     *)
(* value delivered in the row of the file.  An error becomes an empty      *)
(* value under pbix_ignore_errors and ends the query without it.           *)
(*                                                                         *)
(* The workers share one thing: the struct tm that gmtime returns.         *)
(*                                                                         *)
(* A file is [parses, opens, faults, hasSize, files, db]: get_sqlite       *)
(* returns, opens is "ok", "refused" or "undeserializable", faults are the *)
(* queries and sections whose statement fails to prepare or to step (an    *)
(* old schema, a damaged database), hasSize tells whether                  *)
(* DictionaryStorage has a column Size, and files are its vertipaq_files.  *)
(***************************************************************************)
EXTENDS VpaxBuilder

CONSTANTS
    Workers,
    Contents,              \* what the files hold, by their name
    Batches                \* the chunks: sequences of names, one for each worker

ASSUME BatchesAssumption == Batches \subseteq [Workers -> Seq(DOMAIN Contents)]

\* ID is the primary key of Partition, and RefreshedTime an integer.
ASSUME PartitionsAssumption ==
    \A n \in DOMAIN Contents : \A p, q \in Contents[n].db.partitions :
        p.ticks \in Int /\ (p.id = q.id => p = q)

\* A statement that fails is one of a query or of a section.
ASSUME FaultsAssumption ==
    \A n \in DOMAIN Contents : Contents[n].faults \subseteq ToSet(Queries) \cup ToSet(Sections)

\* The sizes of the files are those of the log of the backup; a query returns
\* finitely many rows.
ASSUME SizesAssumption ==
    \A n \in DOMAIN Contents : LET f == Contents[n] IN
        /\ f.files \in Seq(Range(f.files))
        /\ \A i \in DOMAIN f.files : f.files[i].size \in Nat
        /\ \A rows \in {f.db.tables, f.db.columns, f.db.storageFiles} : IsFiniteSet(rows)

VARIABLES
    batch, ignoreErrors,
    pc,                    \* what the worker does next
    row,                   \* i of Execute
    step,                  \* the query or the section at hand
    data,                  \* prefetched
    value,                 \* vpax_values
    remaining, current,    \* the partitions to come and the one at hand
    shared,                \* what the static struct tm may hold while it is used
    result,                \* the rows set so far
    connections,           \* opened less closed
    held,                  \* the statement object of PreFetchData has one
    leaked                 \* statements that no object holds any more

chunkVars == <<batch, ignoreErrors>>
buildVars == <<data, value, remaining, current, shared>>
handleVars == <<connections, held, leaked>>
vars == <<chunkVars, pc, row, step, buildVars, result, handleVars>>

FileAt(w, i) == Contents[batch[w][i]]
File(w) == FileAt(w, row[w])
None == [none |-> TRUE]

Goto(w, where) == pc' = [pc EXCEPT ![w] = where]
GotoStep(w, where, k) == Goto(w, where) /\ step' = [step EXCEPT ![w] = k]

Init ==
    /\ batch \in Batches
    /\ ignoreErrors \in BOOLEAN
    /\ pc = [w \in Workers |-> "next"]
    /\ row = [w \in Workers |-> 0]
    /\ step = [w \in Workers |-> 1]
    /\ data = [w \in Workers |-> NothingFetched]
    /\ value = [w \in Workers |-> EmptyVpaxValue]
    /\ remaining = [w \in Workers |-> {}]
    /\ current = [w \in Workers |-> None]
    /\ shared = [w \in Workers |-> {}]
    /\ result = [w \in Workers |-> <<>>]
    /\ connections = [w \in Workers |-> 0]
    /\ held = [w \in Workers |-> FALSE]
    /\ leaked = [w \in Workers |-> 0]

-----------------------------------------------------------------------------
(* One file.  Its objects are new: the prefetched maps start empty.        *)

\* Mutant: the prefetched maps of the previous file are kept.
KeepsMaps(w) == data[w]

FreshData(w) == NothingFetched

\* Mutant: the loop runs once too often.
OneRowMore(w) == row[w] > Len(batch[w])

EndOfChunk(w) == row[w] = Len(batch[w])

NextFile(w) ==
    /\ pc[w] = "next"
    /\ IF EndOfChunk(w)
       THEN Goto(w, "done") /\ UNCHANGED <<row, data, value>>
       ELSE /\ row' = [row EXCEPT ![w] = @ + 1]
            /\ data' = [data EXCEPT ![w] = FreshData(w)]
            /\ value' = [value EXCEPT ![w] = EmptyVpaxValue]
            /\ Goto(w, "parse")
    /\ UNCHANGED <<chunkVars, step, remaining, current, shared, result, handleVars>>

EmptyRow(w) == [result EXCEPT ![w] = Append(@, EmptyVpaxValue)]

\* The handler: SetValue of an empty value, or InvalidInputException.
Handle(w) ==
    IF ignoreErrors THEN Goto(w, "next") /\ result' = EmptyRow(w)
    ELSE Goto(w, "error") /\ UNCHANGED result

ParseFile(w) ==
    /\ pc[w] = "parse"
    /\ IF File(w).parses THEN Goto(w, "open") /\ UNCHANGED result ELSE Handle(w)
    /\ UNCHANGED <<chunkVars, row, step, buildVars, handleVars>>

OpenFromBuffer(w) ==
    /\ pc[w] = "open" /\ File(w).opens = "ok"
    /\ connections' = [connections EXCEPT ![w] = @ + 1]
    /\ GotoStep(w, "prefetch", 1)
    /\ UNCHANGED <<chunkVars, row, buildVars, result, held, leaked>>

\* sqlite3_open_v2 fails: the handle it leaves behind is closed by ~SQLiteDB.
OpenRefused(w) ==
    /\ pc[w] = "open" /\ File(w).opens = "refused"
    /\ Handle(w)
    /\ UNCHANGED <<chunkVars, row, step, buildVars, handleVars>>

\* sqlite3_deserialize fails: the connection is closed on the spot, and once
\* more by ~SQLiteDB, after which the process may go anywhere.
DeserializeFails(w) ==
    /\ pc[w] = "open" /\ File(w).opens = "undeserializable"
    /\ connections' = [connections EXCEPT ![w] = @ - 1]
    /\ \/ Handle(w)
       \/ Goto(w, "wild") /\ UNCHANGED result
    /\ UNCHANGED <<chunkVars, row, step, buildVars, held, leaked>>

\* ~SQLiteDB: sqlite3_close_v2 succeeds whatever statements are left.
Close(w) == connections' = [connections EXCEPT ![w] = @ - 1]

-----------------------------------------------------------------------------
(* PreFetchData.  Its one statement object is assigned query after query.  *)

Query(w) == Queries[step[w]]

\* Mutant: every assignment copies the handle over the old one.
CopiesHandle(w) == IF held[w] THEN 1 ELSE 0

\* The assignment of a new statement exchanges it with the old one, which is
\* finalized with the temporary.  TryPrepare instead prepares into the object
\* itself, over the statement of the first query, whether it succeeds or not.
LostBy(w) == IF Query(w) = "dictionary_sizes" /\ held[w] THEN 1 ELSE 0

Prepare(w, holds) ==
    /\ leaked' = [leaked EXCEPT ![w] = @ + LostBy(w)]
    /\ held' = [held EXCEPT ![w] = holds]

\* The query runs to its end; the object keeps its statement.
Prefetch(w) ==
    /\ pc[w] = "prefetch" /\ step[w] <= Len(Queries)
    /\ Query(w) \notin File(w).faults
    /\ \E map \in Fetch(Query(w), data[w], File(w).db, FileSizeMap(File(w).files),
                        File(w).hasSize) :
          data' = [data EXCEPT ![w][Query(w)] = map]
    /\ Prepare(w, TRUE)
    /\ GotoStep(w, "prefetch", step[w] + 1)
    /\ UNCHANGED <<chunkVars, row, value, remaining, current, shared, result, connections>>

\* The object's own statement is finalized as the exception leaves.
PrefetchThrows(w) ==
    /\ pc[w] = "prefetch" /\ step[w] <= Len(Queries)
    /\ Query(w) \in File(w).faults
    /\ Prepare(w, FALSE)
    /\ Close(w) /\ Handle(w)
    /\ UNCHANGED <<chunkVars, row, step, buildVars>>

PrefetchEnds(w) ==
    /\ pc[w] = "prefetch" /\ step[w] > Len(Queries)
    /\ held' = [held EXCEPT ![w] = FALSE]
    /\ GotoStep(w, "build", 1)
    /\ UNCHANGED <<chunkVars, row, buildVars, result, connections, leaked>>

-----------------------------------------------------------------------------
(* BuildVpax.  A section's statements are local to it.                     *)

Section(w) == Sections[step[w]]

Build(w) ==
    /\ pc[w] = "build" /\ step[w] <= Len(Sections)
    /\ Section(w) \notin File(w).faults
    /\ LET rows == BuildSection(Section(w), data[w], File(w).db, FileSizeMap(File(w).files))
       IN  IF Section(w) = "Partitions"
           THEN /\ remaining' = [remaining EXCEPT ![w] = rows]
                /\ Goto(w, "times")
                /\ UNCHANGED <<value, step>>
           ELSE /\ value' = [value EXCEPT ![w][Section(w)] = rows]
                /\ GotoStep(w, "build", step[w] + 1)
                /\ UNCHANGED remaining
    /\ UNCHANGED <<chunkVars, row, data, current, shared, result, handleVars>>

BuildThrows(w) ==
    /\ pc[w] = "build" /\ step[w] <= Len(Sections)
    /\ Section(w) \in File(w).faults
    /\ Close(w) /\ Handle(w)
    /\ UNCHANGED <<chunkVars, row, step, buildVars, held, leaked>>

\* A partition row: its text shows the time of one or, torn, of several ticks.
PartitionRow(p, text) == [partition |-> p.id, refreshed |-> text]
Listed(w, p, text) == value' = [value EXCEPT ![w].Partitions = @ \cup {PartitionRow(p, text)}]

Formatting(w) == pc[w] = "format"

\* Mutant: the struct tm keeps what it held.
KeepsOldTime(w, ticks) == shared[w] \cup {ticks}

\* What gmtime and, at the same time, the other workers may leave in the
\* struct tm until this worker's strftime has read it.
HeldAfter(w, ticks) ==
    {ticks} \cup {current[v].ticks : v \in {u \in Workers \ {w} : Formatting(u)}}

\* WindowsFileTimeToISO8601 up to gmtime.  A time that is not set is empty.
StartTime(w) ==
    /\ pc[w] = "times"
    /\ \E p \in remaining[w] :
          /\ remaining' = [remaining EXCEPT ![w] = @ \ {p}]
          /\ IF p.ticks <= 0
             THEN Listed(w, p, {}) /\ UNCHANGED <<pc, current, shared>>
             ELSE /\ current' = [current EXCEPT ![w] = p]
                  /\ shared' = [v \in Workers |->
                        IF v = w THEN HeldAfter(w, p.ticks)
                        ELSE IF Formatting(v) THEN shared[v] \cup {p.ticks}
                        ELSE shared[v]]
                  /\ Goto(w, "format")
                  /\ UNCHANGED value
    /\ UNCHANGED <<chunkVars, row, step, data, result, handleVars>>

\* strftime reads the struct tm.
FinishTime(w) ==
    /\ Formatting(w)
    /\ \E text \in (SUBSET shared[w]) \ {{}} : Listed(w, current[w], text)
    /\ Goto(w, "times")
    /\ UNCHANGED <<chunkVars, row, step, data, remaining, current, shared, result, handleVars>>

EndTimes(w) ==
    /\ pc[w] = "times" /\ remaining[w] = {}
    /\ GotoStep(w, "build", step[w] + 1)
    /\ UNCHANGED <<chunkVars, row, buildVars, result, handleVars>>

Deliver(w) ==
    /\ pc[w] = "build" /\ step[w] > Len(Sections)
    /\ result' = [result EXCEPT ![w] = Append(@, value[w])]
    /\ Close(w)
    /\ Goto(w, "next")
    /\ UNCHANGED <<chunkVars, row, step, buildVars, held, leaked>>

-----------------------------------------------------------------------------
Ended(w) == pc[w] \in {"done", "error", "wild"}
Finished == (\A w \in Workers : Ended(w)) /\ UNCHANGED vars

WorkerStep(w) ==
    \/ NextFile(w) \/ ParseFile(w) \/ OpenFromBuffer(w) \/ OpenRefused(w)
    \/ DeserializeFails(w)
    \/ Prefetch(w) \/ PrefetchThrows(w) \/ PrefetchEnds(w)
    \/ Build(w) \/ BuildThrows(w)
    \/ StartTime(w) \/ FinishTime(w) \/ EndTimes(w)
    \/ Deliver(w)

Next == (\E w \in Workers : WorkerStep(w)) \/ Finished

Spec == Init /\ [][Next]_vars

-----------------------------------------------------------------------------
\* Type invariant: where each worker is, within its chunk and its file.
TypeOK ==
    /\ batch \in Batches /\ ignoreErrors \in BOOLEAN
    /\ pc \in [Workers -> {"next", "parse", "open", "prefetch", "build", "times", "format",
                           "done", "error", "wild"}]
    /\ row \in [Workers -> Nat] /\ \A w \in Workers : row[w] <= Len(batch[w])
    /\ step \in [Workers -> 1 .. Len(Sections) + 1]
    /\ \A w \in Workers : DOMAIN data[w] = ToSet(Queries) /\ DOMAIN value[w] = ToSet(Sections)
    /\ DOMAIN data = Workers /\ DOMAIN value = Workers /\ DOMAIN result = Workers
    /\ DOMAIN remaining = Workers /\ DOMAIN current = Workers /\ DOMAIN shared = Workers
    /\ connections \in [Workers -> Int]
    /\ held \in [Workers -> BOOLEAN] /\ leaked \in [Workers -> Nat]

(* The rows.                                                               *)

Fails(f) == ~f.parses \/ f.opens # "ok" \/ f.faults # {}

\* The maps a call for this file alone may fetch, and what it builds from them,
\* the times left out.
Maps(f, q) == Fetch(q, NothingFetched, f.db, FileSizeMap(f.files), f.hasSize)
DataFrom(f, dictionaries, columnFiles) ==
    [q \in ToSet(Queries) |-> IF q = "dictionary_sizes" THEN dictionaries
                              ELSE IF q = "column_files" THEN columnFiles
                              ELSE CHOOSE map \in Maps(f, q) : TRUE]
DataOf(f) ==
    {DataFrom(f, d, c) : d \in Maps(f, "dictionary_sizes"), c \in Maps(f, "column_files")}
SectionOf(f, s, maps) == BuildSection(s, maps, f.db, FileSizeMap(f.files))
ValuesOf(f) == {[s \in ToSet(Sections) |-> SectionOf(f, s, maps)] : maps \in DataOf(f)}

DataOfContents == [n \in DOMAIN Contents |-> DataOf(Contents[n])]
Values == [n \in DOMAIN Contents |-> ValuesOf(Contents[n])]

ListedIn(rows, f) == {p \in f.db.partitions : \E r \in rows : r.partition = p.id}
WithoutTimes(v, f) == [v EXCEPT !.Partitions = ListedIn(@, f)]

\* The row of a file that fails is empty.
OwnRow(w, i) ==
    LET f == FileAt(w, i)
    IN  IF Fails(f) THEN ignoreErrors /\ result[w][i] = EmptyVpaxValue
        ELSE WithoutTimes(result[w][i], f) \in Values[batch[w][i]]

\* Every row is the value of its own file, as if it were the only one, and a
\* file that fails gives the empty value under pbix_ignore_errors and no value
\* otherwise: then the query ends with the first file that fails, and every
\* row before it is set (README.md: "failed files will return empty structures
\* instead of breaking the query").
RowsAreOwnFiles ==
    \A w \in Workers :
        /\ \A i \in DOMAIN result[w] : OwnRow(w, i)
        /\ pc[w] \in {"next", "done"} => Len(result[w]) = row[w]
        /\ pc[w] = "error" =>
              ~ignoreErrors /\ Fails(File(w)) /\ Len(result[w]) = row[w] - 1

\* When the worker is between two files, or has ended, every connection and
\* every statement is released, with two exceptions: TryPrepare has lost one
\* statement for every file whose first query ran (vpax_builder.cpp: has_size_column),
\* and a database that failed to deserialize was closed twice.
AtRest(w) == pc[w] \in {"next", "done", "error"}
LosesStatement(f) == f.parses /\ f.opens = "ok" /\ "table_files" \notin f.faults
ClosedTwice(f) == f.parses /\ f.opens = "undeserializable"
Losses(w, k) == {i \in 1 .. k : LosesStatement(FileAt(w, i))}
DoubleCloses(w, k) == {i \in 1 .. k : ClosedTwice(FileAt(w, i))}

HandlesReleased ==
    \A w \in Workers : AtRest(w) =>
        /\ ~held[w]
        /\ leaked[w] = Cardinality(Losses(w, row[w]))
        /\ connections[w] = -Cardinality(DoubleCloses(w, row[w]))

\* Mid-file, the counts of the files before, the connection of the file, and
\* what its queries have lost and hold so far.
Settled(w) == IF AtRest(w) THEN row[w] ELSE row[w] - 1
Querying(w) == pc[w] = "prefetch"
Building(w) == pc[w] \in {"build", "times", "format"}

LosesNow(w) ==
    IF Building(w) \/ (Querying(w) /\ step[w] > 2) THEN 1 ELSE 0

HandlesOf(w) ==
    /\ leaked[w] = Cardinality(Losses(w, Settled(w))) + LosesNow(w)
    /\ connections[w] = (IF Querying(w) \/ Building(w) THEN 1 ELSE 0)
                        - Cardinality(DoubleCloses(w, Settled(w)))
    /\ held[w] <=> Querying(w) /\ step[w] > 1

Progress(w) ==
    /\ ~AtRest(w) => row[w] > 0
    /\ pc[w] \notin {"next", "done", "parse", "error", "wild"} => File(w).parses
    /\ Querying(w) \/ Building(w) => File(w).opens = "ok"
    /\ Querying(w) => step[w] <= Len(Queries) + 1
    /\ Building(w) \/ (Querying(w) /\ step[w] > 1) => "table_files" \notin File(w).faults
    /\ pc[w] \in {"times", "format"} => step[w] <= Len(Sections)

HandleInv ==
    /\ TypeOK
    /\ \A w \in Workers : Progress(w) /\ (pc[w] # "wild" => HandlesOf(w))

(* The times.                                                              *)

TicksOf(f) == {p.ticks : p \in {q \in MappedPartitions(f.db) : q.ticks > 0}}
OtherTicks(w) == UNION {UNION {TicksOf(Contents[n]) : n \in Range(batch[v])} : v \in Workers \ {w}}

TimesOfFile(w, f, rows) ==
    \A r \in rows : \A p \in f.db.partitions :
        r.partition = p.id =>
            IF p.ticks <= 0 THEN r.refreshed = {}
            ELSE /\ r.refreshed # {}
                 /\ r.refreshed \subseteq {p.ticks} \cup OtherTicks(w)

\* A refreshed time is the one of its own partition, or it shows, wholly or in
\* part, a time of a file that another worker formats: never one of another
\* partition or of an earlier file of the same worker.
TimesMixOnlyAcrossWorkers ==
    \A w \in Workers : \A i \in DOMAIN result[w] :
        TimesOfFile(w, FileAt(w, i), result[w][i].Partitions)

\* A worker has set the rows of its earlier files, and of the file at hand once
\* it is between two files.
Busy(w) == pc[w] \notin {"next", "done", "error", "wild"}
RowsSet(w) ==
    /\ result[w] \in Seq(Range(result[w]))
    /\ Len(result[w]) = IF pc[w] \in {"next", "done"} THEN row[w] ELSE row[w] - 1

\* While a time is formatted, the struct tm holds it or another worker's time.
TimeAtHand(w) ==
    /\ current[w] \in MappedPartitions(File(w).db)
    /\ current[w].ticks > 0
    /\ shared[w] # {}
    /\ shared[w] \subseteq {current[w].ticks} \cup OtherTicks(w)

TimesInv ==
    /\ HandleInv
    /\ \A w \in Workers :
        /\ RowsSet(w)
        /\ \A i \in DOMAIN result[w] : TimesOfFile(w, FileAt(w, i), result[w][i].Partitions)
        /\ Busy(w) => TimesOfFile(w, File(w), value[w].Partitions)
        /\ pc[w] \in {"times", "format"} => remaining[w] \subseteq MappedPartitions(File(w).db)
        /\ Formatting(w) => TimeAtHand(w)

(* The rows again: what the file at hand has fetched and built so far.     *)

Fetched(w) ==
    /\ data[w] = [q \in ToSet(Queries) |-> data[w][q]]
    /\ \A k \in DOMAIN Queries :
          IF k < step[w]
          THEN Queries[k] \notin File(w).faults /\ data[w][Queries[k]] \in Maps(File(w), Queries[k])
          ELSE data[w][Queries[k]] = EmptyMap

Built(w) ==
    /\ data[w] \in DataOfContents[batch[w][row[w]]]
    /\ ToSet(Queries) \cap File(w).faults = {}
    /\ value[w] = [s \in ToSet(Sections) |-> value[w][s]]
    /\ \A k \in DOMAIN Sections :
          /\ k < step[w] => Sections[k] \notin File(w).faults
          /\ Sections[k] # "Partitions" =>
                value[w][Sections[k]] = IF k < step[w] THEN SectionOf(File(w), Sections[k], data[w])
                                        ELSE {}

\* The partitions of the file whose rows are still to come.
ToList(w) ==
    IF pc[w] = "times" THEN remaining[w]
    ELSE IF pc[w] = "format" THEN remaining[w] \cup {current[w]}
    ELSE IF \E k \in DOMAIN Sections : k < step[w] /\ Sections[k] = "Partitions" THEN {}
    ELSE MappedPartitions(File(w).db)

RowsOfWorker(w) ==
    /\ \A i \in DOMAIN result[w] : OwnRow(w, i)
    /\ pc[w] = "error" => ~ignoreErrors /\ Fails(File(w))
    /\ pc[w] \in {"parse", "open"} => data[w] = NothingFetched
    /\ pc[w] \in {"parse", "open", "prefetch"} => value[w] = EmptyVpaxValue
    /\ Querying(w) => Fetched(w)
    /\ Building(w) =>
          /\ Built(w)
          /\ ListedIn(value[w].Partitions, File(w)) = MappedPartitions(File(w).db) \ ToList(w)
    /\ pc[w] \in {"times", "format"} =>
          Section(w) = "Partitions" /\ Section(w) \notin File(w).faults
    /\ Formatting(w) => current[w] \notin remaining[w]

\* What pbix2vpax keeps at every step: its types, its handles, the times in the
\* rows, and the rows themselves.
VpaxInv == TimesInv /\ \A w \in Workers : RowsOfWorker(w)

(* The sizes.                                                              *)

UniqueNames(f) ==
    /\ \A i, j \in DOMAIN f.files : f.files[i].name = f.files[j].name => i = j
    /\ \A g, h \in f.db.storageFiles : g.name = h.name => g = h

\* A hierarchy has its data in a system table of its own.
HierarchiesKeyed(db) ==
    /\ \A h \in db.attributeHierarchies \cup db.hierarchies : \A t \in db.tables :
          t.id = h.system => t.system
    /\ \A a, b \in db.attributeHierarchies : a.system = b.system => a.column = b.column
    /\ \A g, h \in db.hierarchies : g.system = h.system => g.table = h.table
    /\ \A a \in db.attributeHierarchies : \A h \in db.hierarchies : a.system # h.system

\* A file belongs to one column, and lies in a folder of its table, or to one
\* dictionary, and lies in no folder of a partition.
FilesKeyed(db) ==
    /\ \A g, h \in db.columnFiles : g.name = h.name => g.column = h.column
    /\ \A g \in db.columnFiles : \A c \in db.columns :
          c.id = g.column => g.name \in FilesOfTables(db, {c.table})
    /\ \A d, e \in {x \in db.dictionaries : x.file # <<>>} :
          /\ d.file[1] = e.file[1] => d.column = e.column
          /\ d.file[1] \notin FilesOfTables(db, {p.table : p \in db.partitions})
    /\ \A d \in db.dictionaries : d.size # <<>> => d.size[1] \in Nat

\* The keys of the database: ID identifies a table and a column, a table has at
\* most one key column, and a folder belongs to a partition of one table.
KeysHold(db) ==
    /\ \A s, t \in db.tables : s.id = t.id => s = t
    /\ \A b, c \in db.columns : b.id = c.id \/ (b.key /\ c.key /\ b.table = c.table) => b = c
    /\ \A p, q \in db.partitions : p.folder = q.folder => p.table = q.table
    /\ HierarchiesKeyed(db) /\ FilesKeyed(db)

\* In a file whose base names are unique and whose database keeps its keys, the
\* columns of a table are no larger than the ColumnsSize of the table, which
\* another query computes; and where every dictionary has its size from its
\* file, the tables together are no larger than the files of the model: nothing
\* is counted twice.
SizesAddUp ==
    \A w \in Workers : \A i \in DOMAIN result[w] :
        LET f == FileAt(w, i)
            v == result[w][i]
        IN  UniqueNames(f) /\ KeysHold(f.db) =>
            /\ \A t \in v.Tables :
                  SumFunction([c \in {k \in v.Columns : k.table = t.table} |-> c.totalSize])
                      <= t.columnsSize
            /\ ~f.hasSize =>
                  SumFunction([t \in v.Tables |-> t.tableSize])
                      <= SumFunction([j \in DOMAIN f.files |-> f.files[j].size])

=============================================================================
