---------------------------- MODULE MCAbfCatalog ----------------------------
(* Archives as they are written, with every small fault, for TLC.          *)
EXTENDS AbfCatalog

(* The model: its parts lie one behind the other.                          *)

File(path, storage, at, size) ==
    [path |-> path, storage |-> storage, at |-> at, size |-> size]

\* Column files of two tables; two of them share their base name.
AllFiles ==
    {File(<<"a", "x.idf">>, "s1", 9, 2), File(<<"a", "y.idf">>, "s2", 11, 3),
     File(<<"b", "x.idf">>, "s3", 14, 1), File(<<"z.dict">>, "s4", 15, 2)}

InDirectory(f) == [path |-> <<f.storage>>, at |-> f.at, size |-> <<f.size>>]
InLog(f) == [path |-> <<f.path>>, storagePath |-> <<f.storage>>]

DatabaseAt == 20
LogAt(bytes) == DatabaseAt + bytes
DirectoryAt(bytes) == LogAt(bytes) + 5

DatabaseEntry(size) == [path |-> <<"db">>, at |-> DatabaseAt, size |-> <<size>>]
LogEntry(bytes) == [path |-> <<"log">>, at |-> LogAt(bytes), size |-> <<5>>]

InOrder(S) == SetToSortSeq(S, LAMBDA f, g : f.at < g.at)
Records(S, Op(_)) == LET s == InOrder(S) IN [i \in DOMAIN s |-> Op(s[i])]

Group(lists) ==
    [class |-> TRUE, objectVersion |-> TRUE, persistLocation |-> TRUE, fileLists |-> lists]

Log(S) ==
    [root |-> TRUE, collations |-> <<TRUE>>, languages |-> <<TRUE>>,
     fileGroups |-> << <<Group(<<Records(S, InLog)>>), Group(<<>>)>> >>]

\* UTF-16 text of some units in a buffer of eight bytes, filled with zeros.
HeaderText(units, low, high) ==
    [i \in 1 .. 8 |-> IF i > 2 * units THEN 0 ELSE IF i % 2 = 1 THEN low ELSE high]

Model(S, bytes) ==
    [length |-> DirectoryAt(bytes) + 4,
     header |-> [valid |-> TRUE, bytes |-> HeaderText(3, 1, 0), units |-> 3,
                 at |-> DirectoryAt(bytes), size |-> 4],
     directoryAt |-> Extent(DirectoryAt(bytes), 4), directoryParses |-> TRUE,
     directory |-> Records(S, InDirectory) \o <<DatabaseEntry(bytes), LogEntry(bytes)>>,
     logAt |-> Extent(LogAt(bytes) + BomSize, 3), log |-> Log(S),
     database |-> Extent(DatabaseAt, bytes), files |-> S]

Small == Model({f \in AllFiles : f.at < 14}, 3)

(* The archive: local headers and contents, then the directory.            *)

Entry(name, nameLen, extraLen, commentLen, localAt) ==
    [name |-> name, nameLen |-> nameLen, extraLen |-> extraLen,
     commentLen |-> commentLen, localAt |-> localAt]

Archive(first, extra, comment, modelIndex, count, content) ==
    LET entries == [i \in 1 .. 3 |->
                      IF i = modelIndex THEN Entry("DataModel", 9, extra, comment, 400)
                      ELSE Entry("Layout", 6, extra, IF i = 1 THEN comment ELSE 0, 100 * i)]
        Size(e) == 46 + e.nameLen + e.extraLen + e.commentLen
        Start(i) == first + (IF i > 1 THEN Size(entries[1]) ELSE 0)
                          + (IF i > 2 THEN Size(entries[2]) ELSE 0)
        written == [numEntries |-> count, centralDirectoryOffset |-> first]
        endAt == first + 200
    IN  [size |-> endAt + 22, records |-> [o \in {endAt} |-> written],
         writtenEnd |-> written, offsets |-> [i \in 1 .. count |-> Start(i)],
         entries |-> [o \in {Start(i) : i \in 1 .. count} |->
                        entries[CHOOSE i \in 1 .. count : Start(i) = o]],
         locals |-> [o \in {400} |-> [nameLen |-> 9, extraLen |-> extra + 1]],
         dataAt |-> 400 + LocalHeaderSize + 9 + extra + 1,
         format |-> "single", model |-> content]

Standard(content) == Archive(500, 4, 5, 2, 3, content)

ZipVariants ==
    {Archive(500, extra, comment, index, count, Small) :
        extra \in 0 .. 2, comment \in {0, 7}, index \in 1 .. 4, count \in 1 .. 3}
    \cup {[Standard(Small) EXCEPT !.format = f] : f \in {"multi", "uncompressed", "unknown"}}
    \cup {[Standard(Small) EXCEPT !.size = @ + d] : d \in {-20, Window - 30, Window}}
    \cup {[Standard(Small) EXCEPT !.records =
              @ @@ [o \in {at} |-> [numEntries |-> 1, centralDirectoryOffset |-> 0]]] :
              at \in {30, 710}}

\* A directory of another size, and a header that gives one.
WithDirectory(m, bytes) ==
    [m EXCEPT !.directoryAt.size = bytes, !.header.size = bytes,
              !.length = m.directoryAt.at + bytes]

ModelVariants ==
    {Standard(Model(S, size)) : S \in SUBSET AllFiles, size \in {1, 3, 7}}
    \cup {Standard(WithDirectory(Small, size)) :
            size \in {IntSpace \div 2 - 1, IntSpace \div 2, IntSpace - 1, IntSpace + 4}}
    \cup {Standard(Model({f \in AllFiles : f.at < 14}, size)) :
            size \in {IntSpace \div 2 - 1, IntSpace \div 2, IntSpace - 1, IntSpace, IntSpace + 3}}

Damage(m) ==
    {[m EXCEPT !.header.valid = FALSE], [m EXCEPT !.header.size = 40],
     [m EXCEPT !.header.size = @ + IntSpace],
     [m EXCEPT !.header.valid = FALSE, !.header.units = 0,
               !.header.bytes = HeaderText(0, 0, 0)],
     [m EXCEPT !.directoryParses = FALSE], [m EXCEPT !.directory = <<>>],
     [m EXCEPT !.directory = <<Last(@)>>],
     [m EXCEPT !.directory[1].path = <<>>], [m EXCEPT !.log.root = FALSE],
     [m EXCEPT !.log.collations = <<TRUE, FALSE>>], [m EXCEPT !.log.languages = <<FALSE>>],
     [m EXCEPT !.log.fileGroups = <<>>], [m EXCEPT !.log.fileGroups = << <<>> >>],
     [m EXCEPT !.log.fileGroups[1][1].class = FALSE],
     [m EXCEPT !.log.fileGroups[1][1].objectVersion = FALSE],
     [m EXCEPT !.log.fileGroups[1][1].persistLocation = FALSE],
     [m EXCEPT !.log.fileGroups[1][1].fileLists = << <<>> >>],
     [m EXCEPT !.log.fileGroups[1][1].fileLists[1][1].storagePath = <<>>],
     [m EXCEPT !.log.fileGroups[1][1].fileLists[1][1].path = <<>>]}
    \cup {[m EXCEPT !.header.bytes = HeaderText(u, low, 1 - low), !.header.units = u] :
            u \in 2 .. 4, low \in 0 .. 1}
    \cup {[m EXCEPT !.directory[i].size = <<>>] : i \in DOMAIN m.directory}

MCArchives ==
    ZipVariants \cup ModelVariants \cup {Standard(m) : m \in Damage(Small)}

=============================================================================
