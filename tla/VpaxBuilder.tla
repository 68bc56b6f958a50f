----------------------------- MODULE VpaxBuilder -----------------------------
(***************************************************************************)
(* What pbix2vpax computes from one metadata database and the sizes of the *)
(* files of the model (vpax/vpax_builder.cpp).  Each query is the set of   *)
(* rows it selects; a database is a record of the tables it joins:         *)
(*   tables         [id, name, system]                                     *)
(*   columns        [id, table, type, key, stored]; type 1 is a data       *)
(*                  column, stored says that it has a ColumnStorage        *)
(*   partitions     [id, table, folder, ticks, mapped]; mapped says that a *)
(*                  SegmentMapStorage belongs to it and it is no system's  *)
(*   storageFiles   [folder, name]                                         *)
(*   dictionaries   [column, size, file], both optional: <<>> or <<v>>     *)
(*   columnFiles    [column, name], one for every partition                *)
(*   attributeHierarchies [column, system], hierarchies [id, table, system]*)
(*                  with the system table that holds their data            *)
(*   relationships  [fromTable, toTable, crossFiltering, usedFrom, usedTo] *)
(*   measures, permissions [table, ...]                                    *)
(* A map of the code is a function whose domain is the set of its keys.    *)
(***************************************************************************)
EXTENDS SequencesExt

EmptyMap == <<>>

\* A map of vectors after push_back of the new files of every key.
FilesUnder(map, key) == IF key \in DOMAIN map THEN map[key] ELSE {}
Pushed(map, new) ==
    [k \in DOMAIN map \cup DOMAIN new |-> FilesUnder(map, k) \cup FilesUnder(new, k)]

\* A map of values after map[key] = value for every row: the order of the rows
\* is the database's, and the last row of a key stays.
Assigned(map, new) ==
    [k \in DOMAIN map \cup DOMAIN new |-> IF k \in DOMAIN new THEN new[k] ELSE map[k]]
Keys(rows) == {r[1] : r \in rows}
Overwrites(rows) ==
    {f \in [Keys(rows) -> {r[2] : r \in rows}] : \A k \in DOMAIN f : <<k, f[k]>> \in rows}

(* The sizes of the files, by their base name: a later file of the same    *)
(* name takes the place of an earlier one.                                 *)

FileSizeMap(files) ==
    [n \in {f.name : f \in ToSet(files)} |->
        files[Max({i \in DOMAIN files : files[i].name = n})].size]

GetFileSizeByName(sizes, name) == IF name \in DOMAIN sizes THEN sizes[name] ELSE 0
TotalSize(sizes, names) == SumFunction([n \in names |-> GetFileSizeByName(sizes, n)])

-----------------------------------------------------------------------------
(* The joins the queries share.                                            *)

TableIds(db) == {t.id : t \in db.tables}
DataTables(db) == {t \in db.tables : ~t.system}
DataTableIds(db) == {t.id : t \in DataTables(db)}
ColumnsOf(db, table) == {c \in db.columns : c.table = table}
DataColumns(db) == {c \in db.columns : c.type = 1}

\* The names of the files in the folders of the partitions of some tables.
FilesOfTables(db, ids) ==
    LET folders == {p.folder : p \in {q \in db.partitions : q.table \in ids}}
    IN  {f.name : f \in {g \in db.storageFiles : g.folder \in folders}}

SystemTablesOf(db, column) ==
    {a.system : a \in {b \in db.attributeHierarchies : b.column = column}} \cap TableIds(db)

-----------------------------------------------------------------------------
(* The queries of PreFetchData.                                            *)

\* Mutant: the hierarchies of the columns are left out.
PartitionFilesOnly(db) == [t \in DataTableIds(db) |-> FilesOfTables(db, {t})]

TableFiles(db) ==
    [t \in DataTableIds(db) |->
        FilesOfTables(db, {t} \cup UNION {SystemTablesOf(db, c.id) : c \in ColumnsOf(db, t)})]

\* With a column Size: NULL falls back to the size of the file.
SizedDictionaries(db, sizes) ==
    LET Size(d) == IF d.size # <<>> THEN d.size[1]
                   ELSE IF d.file # <<>> THEN GetFileSizeByName(sizes, d.file[1])
                   ELSE 0
        Has(c) == {d \in db.dictionaries : d.column = c.id /\ c.stored}
    IN  {<<c.id, 0>> : c \in {k \in DataColumns(db) : Has(k) = {}}}
        \cup UNION {{<<c.id, Size(d)>> : d \in Has(c)} : c \in DataColumns(db)}

\* Without it, only dictionaries with a file are selected.
UnsizedDictionaries(db, sizes) ==
    {<<d.column, GetFileSizeByName(sizes, d.file[1])>> :
        d \in {e \in db.dictionaries :
                  e.file # <<>> /\ \E c \in DataColumns(db) : c.id = e.column /\ c.stored}}

ColumnFiles(db) ==
    {<<f.column, f.name>> :
        f \in {g \in db.columnFiles : \E c \in DataColumns(db) : c.id = g.column /\ c.stored}}

TableHierarchyFiles(db) ==
    [t \in DataTableIds(db) |->
        FilesOfTables(db, {h.system : h \in {g \in db.hierarchies : g.table = t}}
                          \cap TableIds(db))]

ColumnHierarchyFiles(db) ==
    [c \in {k.id : k \in {j \in db.columns : j.table \in DataTableIds(db)}} |->
        FilesOfTables(db, SystemTablesOf(db, c))]

UserHierarchyFiles(db) ==
    [id \in {h.id : h \in db.hierarchies} |->
        FilesOfTables(db, {h.system : h \in {g \in db.hierarchies : g.id = id}}
                          \cap TableIds(db))]

RelationshipCounts(db) ==
    LET To(t) == {r \in db.relationships : r.toTable = t.id}
    IN  [n \in {t.name : t \in {s \in DataTables(db) : To(s) # {}}} |->
            Cardinality(UNION {To(t) : t \in {s \in DataTables(db) : s.name = n}})]

Queries == <<"table_files", "dictionary_sizes", "column_files", "table_hierarchy_files",
             "column_hierarchy_files", "user_hierarchy_files", "relationship_counts">>

NothingFetched == [q \in ToSet(Queries) |-> EmptyMap]

\* The maps a query may leave behind, from what they held before.
Fetch(q, data, db, sizes, hasSize) ==
    CASE q = "table_files" -> {Pushed(data[q], TableFiles(db))}
      [] q = "dictionary_sizes" ->
            {Assigned(data[q], f) :
                f \in Overwrites(IF hasSize THEN SizedDictionaries(db, sizes)
                                 ELSE UnsizedDictionaries(db, sizes))}
      [] q = "column_files" -> {Assigned(data[q], f) : f \in Overwrites(ColumnFiles(db))}
      [] q = "table_hierarchy_files" -> {Pushed(data[q], TableHierarchyFiles(db))}
      [] q = "column_hierarchy_files" -> {Pushed(data[q], ColumnHierarchyFiles(db))}
      [] q = "user_hierarchy_files" -> {Pushed(data[q], UserHierarchyFiles(db))}
      [] OTHER -> {Assigned(data[q], RelationshipCounts(db))}

-----------------------------------------------------------------------------
(* The sections of the value.                                              *)

SizeUnder(map, key) == IF key \in DOMAIN map THEN map[key] ELSE 0

CalculateTableColumnsSize(id, data, db, sizes) ==
    TotalSize(sizes, FilesUnder(data.table_files, id))
    + SumFunction([c \in ColumnsOf(db, id) \cap DataColumns(db) |->
                      SizeUnder(data.dictionary_sizes, c.id)])

HierarchySize(map, key, sizes) == TotalSize(sizes, FilesUnder(map, key))

\* A row for every key column of a data table: a table without one is missing.
BuildTables(data, db, sizes) ==
    LET Row(t, c) ==
            LET columns == CalculateTableColumnsSize(t.id, data, db, sizes)
                hierarchies == HierarchySize(data.table_hierarchy_files, t.id, sizes)
            IN  [table |-> t.id, key |-> c.id, columnsSize |-> columns,
                 hierarchiesSize |-> hierarchies, tableSize |-> columns + hierarchies,
                 isReferenced |-> t.name \in DOMAIN data.relationship_counts]
    IN  UNION {{Row(t, c) : c \in {k \in ColumnsOf(db, t.id) : k.key}} : t \in DataTables(db)}

BuildColumns(data, db, sizes) ==
    LET DataSize(c) == IF c.id \in DOMAIN data.column_files
                       THEN GetFileSizeByName(sizes, data.column_files[c.id])
                       ELSE 0
        Row(c) ==
            LET dictionary == SizeUnder(data.dictionary_sizes, c.id)
                hierarchies == HierarchySize(data.column_hierarchy_files, c.id, sizes)
            IN  [column |-> c.id, table |-> c.table, dictionarySize |-> dictionary,
                 dataSize |-> DataSize(c), hierarchiesSize |-> hierarchies,
                 totalSize |-> dictionary + DataSize(c) + hierarchies]
    IN  {Row(c) : c \in {k \in db.columns : k.table \in DataTableIds(db) /\ k.stored}}

BuildMeasures(db) == {m \in db.measures : m.table \in DataTableIds(db)}

BuildRelationships(db) ==
    LET Behavior(r) == IF r.crossFiltering = "Single" THEN "OneDirection"
                       ELSE IF r.crossFiltering = "Both" THEN "BothDirections"
                       ELSE r.crossFiltering
    IN  {[from |-> r.fromTable, to |-> r.toTable, crossFiltering |-> Behavior(r),
          usedSize |-> r.usedFrom + r.usedTo] : r \in db.relationships}

\* Every file of the columns of the system table that holds the hierarchy.
BuildColumnHierarchies(db, sizes) ==
    UNION {{[column |-> a.column, structure |-> f.column, file |-> f.name,
             size |-> GetFileSizeByName(sizes, f.name)] :
               f \in {g \in db.columnFiles :
                         \E c \in ColumnsOf(db, a.system) : c.id = g.column /\ c.stored}} :
           a \in db.attributeHierarchies}

BuildUserHierarchies(data, db, sizes) ==
    {[hierarchy |-> h.id, size |-> HierarchySize(data.user_hierarchy_files, h.id, sizes)] :
        h \in {g \in db.hierarchies : g.table \in TableIds(db)}}

MappedPartitions(db) == {p \in db.partitions : p.mapped}
BuildTablePermissions(db) == {p \in db.permissions : p.table \in TableIds(db)}

Sections == <<"Tables", "Columns", "Measures", "Relationships", "ColumnsHierarchies",
              "UserHierarchies", "Partitions", "TablePermissions">>

\* Partitions are the rows whose times are still to be formatted.
BuildSection(s, data, db, sizes) ==
    CASE s = "Tables" -> BuildTables(data, db, sizes)
      [] s = "Columns" -> BuildColumns(data, db, sizes)
      [] s = "Measures" -> BuildMeasures(db)
      [] s = "Relationships" -> BuildRelationships(db)
      [] s = "ColumnsHierarchies" -> BuildColumnHierarchies(db, sizes)
      [] s = "UserHierarchies" -> BuildUserHierarchies(data, db, sizes)
      [] s = "Partitions" -> MappedPartitions(db)
      [] OTHER -> BuildTablePermissions(db)

EmptyVpaxValue == [s \in ToSet(Sections) |-> {}]

=============================================================================
