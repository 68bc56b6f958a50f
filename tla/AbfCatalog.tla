----------------------------- MODULE AbfCatalog -----------------------------
(***************************************************************************)
(* How the extension finds its way through a .pbix file: the zip directory *)
(* leads to the DataModel entry (abf/zip_utils.cpp), its signature tells   *)
(* the format, the header leads to the virtual directory, and the virtual  *)
(* directory and the backup log together name every file of the model      *)
(* (abf/abf_parser.cpp, virtual_directory.cpp, backup_log.cpp,             *)
(* backup_log_header.cpp).  AbfParser has the decompression between these  *)
(* steps; here a read of the model returns the part that lies there.       *)
(*                                                                         *)
(* What XML says is a record of its elements.  An optional value v is <<>> *)
(* or <<v>>, and a path is the sequence of its components.                 *)
(***************************************************************************)
EXTENDS SequencesExt

CONSTANTS
    Archives,              \* the files that may be opened
    Window,                \* 4096, the bytes searched for the end record
    IntSpace               \* 2^32: an int holds -IntSpace/2 .. IntSpace/2 - 1

SignatureSize == 4
CentralHeaderSize == 46    \* sizeof(CentralDirectoryFileHeader)
LocalHeaderSize == 30      \* ZIP_LOCAL_FILE_HEADER
BomSize == 2

Extent(at, size) == [at |-> at, size |-> size]
Nowhere == Extent(0, 0)

(***************************************************************************)
(* An archive: where its end records, directory headers and local headers  *)
(* lie and what they say, what the writer put last (writtenEnd, offsets,   *)
(* dataAt), the signature of the model, and the model with its parts.      *)
(***************************************************************************)
EndRecord == [numEntries : Nat, centralDirectoryOffset : Nat]
LocalRecord == [nameLen : Nat, extraLen : Nat]
IsEntry(e) == {e.nameLen, e.extraLen, e.commentLen, e.localAt} \subseteq Nat

WellFormedZip(a) ==
    /\ a.size \in Nat
    /\ DOMAIN a.records \subseteq Nat /\ Range(a.records) \subseteq EndRecord
    /\ DOMAIN a.entries \subseteq Nat /\ \A e \in Range(a.entries) : IsEntry(e)
    /\ DOMAIN a.locals \subseteq Nat /\ Range(a.locals) \subseteq LocalRecord
    /\ a.offsets \in Seq(Nat)

\* Where the directory names two files or more, the database is the last but
\* one; a size that it leaves out is not known.
WellFormedModel(m) ==
    /\ m.length \in Nat
    /\ m.header.bytes \in Seq(Nat) \ {<<>>} /\ m.header.units \in Nat
    /\ m.header.at \in Nat /\ m.header.size \in Nat
    /\ m.directory \in Seq(Range(m.directory))
    /\ \A i \in DOMAIN m.directory :
          /\ m.directory[i].at \in Nat
          /\ m.directory[i].size # <<>> => m.directory[i].size[1] \in Nat
    /\ Len(m.directory) >= 2 =>
          LET file == m.directory[Len(m.directory) - 1]
          IN  file.size # <<>> => m.database = Extent(file.at, file.size[1])

\* All the files that the groups of a log name.
LoggedFiles(groups) ==
    UNION {UNION {Range(groups[i].fileLists[j]) : j \in DOMAIN groups[i].fileLists} :
              i \in DOMAIN groups}

WellFormedLog(doc) ==
    doc.fileGroups # <<>> =>
        LET groups == doc.fileGroups[1]
        IN  /\ groups \in Seq(Range(groups))
            /\ \A i \in DOMAIN groups :
                  groups[i].fileLists \in Seq(Seq(LoggedFiles(groups)))

ASSUME WindowAssumption == Window \in Nat
ASSUME IntSpaceAssumption == IntSpace \in Nat /\ IntSpace > 0 /\ IntSpace % 2 = 0
ASSUME ArchivesAssumption ==
    \A a \in Archives :
        WellFormedZip(a) /\ WellFormedModel(a.model) /\ WellFormedLog(a.model.log)

VARIABLES
    archive,               \* the file
    phase,                 \* what is looked for next, or done, failed or wild
    end,                   \* eocd
    entry, position,       \* i and position of findDataModel
    dataStart,             \* datamodel_ofs
    header,                \* backup_log_header
    directory,             \* virtual_directory.backupFiles
    log,                   \* backup_log
    database,              \* metadata_db: where its bytes come from
    files                  \* vertipaq_files

zipVars == <<end, entry, position, dataStart>>
modelVars == <<header, directory, log, database, files>>
vars == <<archive, phase, zipVars, modelVars>>

model == archive.model

-----------------------------------------------------------------------------
(* The zip archive.                                                        *)

\* The end record is looked for from the end of the last Window bytes.
EndRecords ==
    {o \in DOMAIN archive.records :
        /\ o >= archive.size - (IF archive.size < Window THEN archive.size ELSE Window)
        /\ o + SignatureSize <= archive.size}

FindEnd ==
    /\ phase = "end"
    /\ IF EndRecords = {}
       THEN phase' = "failed" /\ UNCHANGED <<end, position>>
       ELSE /\ end' = archive.records[Max(EndRecords)]
            /\ position' = end'.centralDirectoryOffset
            /\ phase' = "entries"
    /\ UNCHANGED <<archive, entry, dataStart, modelVars>>

\* What a directory header at an offset says; zeros where no entry starts.
NoEntry == [name |-> "", nameLen |-> 0, extraLen |-> 0, commentLen |-> 0, localAt |-> 0]
EntryAt(offset) ==
    IF offset \in DOMAIN archive.entries THEN archive.entries[offset] ELSE NoEntry

LocalHeader(e) ==
    IF e.localAt \in DOMAIN archive.locals THEN archive.locals[e.localAt]
    ELSE [nameLen |-> 0, extraLen |-> 0]

\* Mutant: the comment of an entry is not skipped.
CommentNotSkipped(e) == CentralHeaderSize + e.nameLen + e.extraLen

EntrySize(e) == CentralHeaderSize + e.nameLen + e.extraLen + e.commentLen

\* The content starts behind the local header, whose name and extra field
\* may be longer than those of the directory.
DataOffset(e) ==
    e.localAt + LocalHeaderSize + LocalHeader(e).nameLen + LocalHeader(e).extraLen

FindDataModel ==
    /\ phase = "entries"
    /\ LET e == EntryAt(position)
       IN  IF entry >= end.numEntries
           THEN phase' = "failed" /\ UNCHANGED <<entry, position, dataStart>>
           ELSE IF e.name = "DataModel"
           THEN /\ dataStart' = DataOffset(e)
                /\ phase' = "format"
                /\ UNCHANGED <<entry, position>>
           ELSE /\ entry' = entry + 1
                /\ position' = position + EntrySize(e)
                /\ UNCHANGED <<phase, dataStart>>
    /\ UNCHANGED <<archive, end, modelVars>>

\* The two compressed formats have a signature of their own; an uncompressed
\* backup is recognised and refused, like everything else.
DetectDataModelType ==
    IF dataStart # archive.dataAt THEN "unknown" ELSE archive.format

DetectFormat ==
    /\ phase = "format"
    /\ phase' = IF DetectDataModelType \in {"single", "multi"} THEN "header" ELSE "failed"
    /\ UNCHANGED <<archive, zipVars, modelVars>>

-----------------------------------------------------------------------------
(* The model.                                                              *)

\* The conversion of a 64-bit size to the int that read_buffer_bytes takes.
ToInt(n) == ((n + IntSpace \div 2) % IntSpace) - IntSpace \div 2

\* read_buffer_bytes throws outside of the buffer.
Readable(e) == e.size >= 0 /\ e.at >= 0 /\ e.at + e.size <= model.length

\* trim_buffer: pairs of zeros are taken off the end, and one byte more than
\* the rest is copied, which lies outside of a buffer without such a pair.
\* Halving the length for UTF-16 drops the odd byte.
ZeroPairs(bytes) ==
    Max({k \in 0 .. Len(bytes) \div 2 :
            \A i \in Len(bytes) - 2 * k + 1 .. Len(bytes) : bytes[i] = 0})
TrimmedUnits(bytes) == (Len(bytes) - 2 * ZeroPairs(bytes) + 1) \div 2
TrimReadsOutside(bytes) == ZeroPairs(bytes) = 0

\* Text that does not parse gives a header of zeros.
BackupLogHeader ==
    IF model.header.valid /\ TrimmedUnits(model.header.bytes) >= model.header.units
    THEN Extent(model.header.at, model.header.size)
    ELSE Nowhere

ReadHeader ==
    /\ phase = "header"
    /\ header' = BackupLogHeader
    /\ \/ phase' = "directory"
       \/ TrimReadsOutside(model.header.bytes) /\ phase' = "wild"
    /\ UNCHANGED <<archive, zipVars, directory, log, database, files>>

\* DataSize is narrowed to an int.  A directory without files leaves its
\* optional empty, and empty() of what is not there is undefined.
ReadDirectory ==
    /\ phase = "directory"
    /\ LET part == Extent(header.at, ToInt(header.size))
       IN  IF ~Readable(part) \/ part # model.directoryAt \/ ~model.directoryParses
           THEN phase' = "failed" /\ UNCHANGED directory
           ELSE /\ directory' = model.directory
                /\ IF model.directory = <<>>
                   THEN phase' \in {"failed", "wild"}
                   ELSE phase' = "log"
    /\ UNCHANGED <<archive, zipVars, header, log, database, files>>

\* A Size that the directory does not give is whatever was in memory; all that
\* is used of it is its int, and these values have every int.
SizesOf(file) == IF file.size = <<>> THEN 0 .. IntSpace - 1 ELSE {file.size[1]}

\* Elements without which from_xml throws.
FileGroupThrows(group) == ~group.class \/ ~group.objectVersion \/ ~group.persistLocation
BackupLogThrows(doc) ==
    \/ ~doc.root
    \/ \E i \in DOMAIN doc.collations : ~doc.collations[i]
    \/ \E i \in DOMAIN doc.languages : ~doc.languages[i]
    \/ doc.fileGroups # <<>>
       /\ \E i \in DOMAIN doc.fileGroups[1] : FileGroupThrows(doc.fileGroups[1][i])

\* Mutant: a directory with the log alone is accepted.
NoneAtAll == Len(directory) < 1

TooFewFiles == Len(directory) < 2

\* The log is the last file of the directory, behind its byte order mark.
ReadLog ==
    /\ phase = "log"
    /\ \E size \in SizesOf(Last(directory)) :
          LET part == Extent(Last(directory).at + BomSize, ToInt(size) - BomSize)
          IN  IF \/ ~Readable(part) \/ part # model.logAt
                 \/ BackupLogThrows(model.log) \/ TooFewFiles
              THEN phase' = "failed" /\ UNCHANGED log
              ELSE phase' = "database" /\ log' = model.log
    /\ UNCHANGED <<archive, zipVars, header, directory, database, files>>

\* Mutant: the first file of the directory is taken for the database.
TakesFirst == Head(directory)

\* The database is the last file but one.
DatabaseFile == directory[Len(directory) - 1]

ReadDatabase ==
    /\ phase = "database"
    /\ \E size \in SizesOf(DatabaseFile) :
          LET part == Extent(DatabaseFile.at, ToInt(size))
          IN  IF ~Readable(part)
              THEN phase' = "failed" /\ UNCHANGED database
              ELSE phase' = "match" /\ database' = part
    /\ UNCHANGED <<archive, zipVars, header, directory, log, files>>

-----------------------------------------------------------------------------
(* The join of log and directory.                                          *)

\* value() of an optional that was never set: no group, a file list without
\* files, a file of the directory without a path.
MatchThrows ==
    /\ log.fileGroups # <<>>
    /\ \/ log.fileGroups[1] = <<>>
       \/ \E i \in DOMAIN directory : directory[i].path = <<>>
       \/ \E i \in DOMAIN log.fileGroups[1] :
             \E j \in DOMAIN log.fileGroups[1][i].fileLists :
                log.fileGroups[1][i].fileLists[j] = <<>>

LogFiles ==
    LET groups == log.fileGroups[1]
    IN  FlattenSeq([i \in DOMAIN groups |-> FlattenSeq(groups[i].fileLists)])

\* Of two files with one path the later one is kept.
WithPath(path) == {i \in DOMAIN directory : directory[i].path = <<path>>}

\* Mutant: the name keeps its folder.
FirstComponent(file) == IF file.path = <<>> THEN "" ELSE file.path[1][1]

\* What follows the last backslash of the path.
FileName(file) == IF file.path = <<>> THEN "" ELSE Last(file.path[1])

\* What is listed for a file of the log: nothing unless the directory has it.
Matched(file) ==
    IF file.storagePath = <<>> \/ WithPath(file.storagePath[1]) = {} THEN <<>>
    ELSE LET match == directory[Max(WithPath(file.storagePath[1]))]
         IN  << [FileName |-> FileName(file), at |-> match.at, size |-> match.size] >>

MatchLogs ==
    IF log.fileGroups = <<>> THEN <<>>
    ELSE FlattenSeq([i \in DOMAIN LogFiles |-> Matched(LogFiles[i])])

MatchLogsWithDirectory ==
    /\ phase = "match"
    /\ IF MatchThrows
       THEN phase' = "failed" /\ UNCHANGED files
       ELSE phase' = "done" /\ files' = MatchLogs
    /\ UNCHANGED <<archive, zipVars, header, directory, log, database>>

-----------------------------------------------------------------------------

Init ==
    /\ archive \in Archives
    /\ phase = "end"
    /\ end = [numEntries |-> 0, centralDirectoryOffset |-> 0]
    /\ entry = 0 /\ position = 0 /\ dataStart = 0
    /\ header = Nowhere /\ database = Nowhere
    /\ directory = <<>> /\ log = <<>> /\ files = <<>>

Over == phase \in {"done", "failed", "wild"} /\ UNCHANGED vars

Next ==
    \/ FindEnd
    \/ FindDataModel
    \/ DetectFormat
    \/ ReadHeader
    \/ ReadDirectory
    \/ ReadLog
    \/ ReadDatabase
    \/ MatchLogsWithDirectory
    \/ Over

Spec == Init /\ [][Next]_vars

-----------------------------------------------------------------------------
(* Properties.                                                             *)

\* What pbix_read and VpaxBuilder find under a name: the last file with it.
Lookup(name) == {i \in DOMAIN files : files[i].FileName = name}

Entries(a) == {a.entries[o] : o \in DOMAIN a.entries}

\* An archive as Power BI writes it: the zip directory has one header behind
\* the other and names where the content lies, ...
WrittenDirectory(a) ==
    LET n == a.writtenEnd.numEntries
        EntryOf(i) == a.entries[a.offsets[i]]
    IN  /\ Len(a.offsets) = n
        /\ DOMAIN a.entries = {a.offsets[i] : i \in 1 .. n}
        /\ n > 0 => a.offsets[1] = a.writtenEnd.centralDirectoryOffset
        /\ \A i \in 1 .. n - 1 :
              a.offsets[i + 1] = a.offsets[i] + CentralHeaderSize + EntryOf(i).nameLen
                                 + EntryOf(i).extraLen + EntryOf(i).commentLen
        /\ \A e \in Entries(a) : e.name = "DataModel" =>
              /\ e.localAt \in DOMAIN a.locals
              /\ a.dataAt = e.localAt + LocalHeaderSize + a.locals[e.localAt].nameLen
                            + a.locals[e.localAt].extraLen

\* ... it lies where the last record says, and names the model, ...
IntactZip(a) ==
    /\ \E o \in DOMAIN a.records :
          /\ \A p \in DOMAIN a.records : p <= o
          /\ o + SignatureSize <= a.size /\ a.size - Window <= o
          /\ a.records[o] = a.writtenEnd
    /\ WrittenDirectory(a)
    /\ \E e \in Entries(a) : e.name = "DataModel"
    /\ a.format \in {"single", "multi"}

\* ... the header text ends with a character, ...
HeaderWritten(h) ==
    /\ h.units > 0 /\ 2 * h.units <= Len(h.bytes)
    /\ h.bytes[2 * h.units - 1] # 0 \/ h.bytes[2 * h.units] # 0

\* ... the parts lie in the model, the directory ends with database and log,
\* the sizes of all parts, the directory among them, fit an int ...
IntactModel(m) ==
    /\ HeaderWritten(m.header)
    /\ m.header.valid /\ Extent(m.header.at, m.header.size) = m.directoryAt
    /\ m.directoryAt.at + m.directoryAt.size <= m.length
    /\ m.directoryAt.size \in 0 .. IntSpace \div 2 - 1
    /\ m.directoryParses /\ Len(m.directory) >= 2
    /\ \A i \in DOMAIN m.directory :
          /\ m.directory[i].path # <<>> /\ m.directory[i].size # <<>>
          /\ m.directory[i].at + m.directory[i].size[1] <= m.length
          /\ m.directory[i].size[1] \in 0 .. IntSpace \div 2 - 1
    /\ Extent(Last(m.directory).at + BomSize, Last(m.directory).size[1] - BomSize) = m.logAt
    /\ m.logAt.size >= 0

\* ... the log has all its elements, ...
IntactLog(doc) ==
    /\ doc.root /\ ~BackupLogThrows(doc)
    /\ doc.fileGroups # <<>> /\ doc.fileGroups[1] # <<>>
    /\ \A i \in DOMAIN doc.fileGroups[1] :
          LET lists == doc.fileGroups[1][i].fileLists
          IN  \A j \in DOMAIN lists :
                 /\ lists[j] # <<>>
                 /\ \A k \in DOMAIN lists[j] :
                       lists[j][k].path # <<>> /\ lists[j][k].storagePath # <<>>

\* ... and names the files of the model, which the directory has where they lie.
Names(g, f) == g.path = <<f.path>> /\ g.storagePath = <<f.storage>>
IntactFiles(m) ==
    LET logged == LoggedFiles(m.log.fileGroups[1])
    IN  /\ \A g \in logged : \E f \in m.files : Names(g, f)
        /\ \A f \in m.files :
              /\ \E g \in logged : Names(g, f)
              /\ \E i \in DOMAIN m.directory : m.directory[i].path = <<f.storage>>
              /\ \A i \in DOMAIN m.directory : m.directory[i].path = <<f.storage>> =>
                    m.directory[i].at = f.at /\ m.directory[i].size = <<f.size>>

Intact(a) ==
    /\ IntactZip(a) /\ IntactModel(a.model)
    /\ IntactLog(a.model.log) /\ IntactFiles(a.model)

TypeOK ==
    /\ archive \in Archives
    /\ phase \in {"end", "entries", "format", "header", "directory", "log",
                  "database", "match", "done", "failed", "wild"}
    /\ end \in EndRecord
    /\ entry \in Nat /\ position \in Nat /\ dataStart \in Nat
    /\ database.size \in Nat /\ database.at \in Nat
    /\ phase \in {"database", "match", "done"} => Len(directory) >= 2

\* An intact archive is read to the end, wherever the zip directory, its
\* comments and the local header put the model; only a header text that
\* fills its whole buffer can go wrong.
\* (findDataModel, trim_buffer, extract_sqlite_buffer)
IntactIsRead ==
    Intact(archive) =>
        /\ phase # "failed"
        /\ phase = "wild" => TrimReadsOutside(model.header.bytes)

\* The database handed to SQLite is the whole last file but one of the
\* directory, unless its size does not fit the 32 bits it is narrowed to.
\* (extract_sqlite_buffer)
DatabaseIsWhole ==
    phase \in {"match", "done"} =>
        \/ database = model.database
        \/ model.database.size >= IntSpace
        \/ directory[Len(directory) - 1].size = <<>>

\* A file whose base name no other file of the model has is found under that
\* name, with the bytes it was written to.
\* (match_logs_and_get_vertipaq_meta)
FilesFound ==
    phase = "done" /\ Intact(archive) =>
        \A f \in model.files :
            (\A g \in model.files : Last(g.path) = Last(f.path) => g = f) =>
                /\ Lookup(Last(f.path)) # {}
                /\ LET found == files[Max(Lookup(Last(f.path)))]
                   IN  found.at = f.at /\ found.size = <<f.size>>

-----------------------------------------------------------------------------
(* The inductive invariant behind these properties (AbfCatalog_proofs).    *)

\* What has been read is what the model holds.
ReadsModel ==
    /\ phase \in {"log", "database", "match", "done"} => directory = model.directory
    /\ phase \in {"database", "match", "done"} => log = model.log
    /\ phase = "done" => files = MatchLogs

\* In an intact archive each step finds what the next one needs: the walk over
\* the zip directory stays on its headers and has not passed the model.
OnPath ==
    /\ phase = "end" => entry = 0
    /\ phase = "entries" =>
          /\ end = archive.writtenEnd /\ entry < end.numEntries
          /\ position = archive.offsets[entry + 1]
          /\ \A i \in 1 .. entry : EntryAt(archive.offsets[i]).name # "DataModel"
    /\ phase = "format" => dataStart = archive.dataAt
    /\ phase = "directory" => header = model.directoryAt

CatalogInv ==
    /\ TypeOK
    /\ ReadsModel
    /\ DatabaseIsWhole
    /\ Intact(archive) => OnPath /\ IntactIsRead
=============================================================================
