------------------------- MODULE AbfCatalog_proofs -------------------------
(***************************************************************************)
(* What the walk through an archive finds, for every archive, window and   *)
(* width of an int.                                                        *)
(***************************************************************************)
EXTENDS AbfCatalog, DataTheorems

USE WindowAssumption, IntSpaceAssumption

-----------------------------------------------------------------------------
(* Archives and numbers.                                                   *)

LEMMA ArchiveIsWellFormed ==
    ASSUME archive \in Archives
    PROVE  WellFormedZip(archive) /\ WellFormedModel(model) /\ WellFormedLog(model.log)
BY ArchivesAssumption DEF model

\* A non-negative size that fits the int is not changed by the conversion.
LEMMA IntOfSize ==
    ASSUME NEW n \in Nat
    PROVE  /\ ToInt(n) \in Int
           /\ n < IntSpace /\ ToInt(n) >= 0 => ToInt(n) = n
           /\ n < IntSpace \div 2 => ToInt(n) = n
<1> DEFINE h == IntSpace \div 2
<1>1. h \in Nat /\ IntSpace = 2 * h /\ h > 0
  OBVIOUS
<1>2. ToInt(n) = ((n + h) % IntSpace) - h
  BY DEF ToInt
<1> HIDE DEF h
<1>3. (n + h) % IntSpace \in Nat
  BY <1>1
<1>4. n < h => (n + h) % IntSpace = n + h
  BY <1>1
<1>5. h <= n /\ n < IntSpace => (n + h) % IntSpace = n + h - IntSpace
  BY <1>1
<1>6. n < h => ToInt(n) = n
  BY <1>1, <1>2, <1>4
<1>7. h <= n /\ n < IntSpace => ToInt(n) < 0
  BY <1>1, <1>2, <1>5
<1> QED
  BY <1>1, <1>2, <1>3, <1>6, <1>7 DEF h

-----------------------------------------------------------------------------
(* The zip archive.                                                        *)

\* The last end record of the window is one of the archive's.
LEMMA LastEndRecord ==
    ASSUME archive \in Archives, EndRecords # {}
    PROVE  /\ Max(EndRecords) \in EndRecords
           /\ \A o \in EndRecords : o <= Max(EndRecords)
           /\ archive.records[Max(EndRecords)] \in EndRecord
<1>1. WellFormedZip(archive)
  BY ArchiveIsWellFormed
<1>2. EndRecords \in SUBSET Nat /\ archive.size \in Nat
  BY <1>1 DEF WellFormedZip, EndRecords
<1>3. \A o \in EndRecords : o <= archive.size
  BY <1>2 DEF EndRecords, SignatureSize
<1>4. Max(EndRecords) \in EndRecords /\ \A o \in EndRecords : o <= Max(EndRecords)
  BY <1>2, <1>3, NatMax
<1>5. Max(EndRecords) \in DOMAIN archive.records
  BY <1>4 DEF EndRecords
<1>6. \A o \in DOMAIN archive.records : archive.records[o] \in EndRecord
  BY <1>1 DEF WellFormedZip, Range
<1> QED
  BY <1>4, <1>5, <1>6

\* What is read as a header of the directory has its fields.
LEMMA EntryTypes ==
    ASSUME archive \in Archives, NEW offset
    PROVE  /\ IsEntry(EntryAt(offset))
           /\ EntrySize(EntryAt(offset)) \in Nat
           /\ DataOffset(EntryAt(offset)) \in Nat
<1>1. WellFormedZip(archive)
  BY ArchiveIsWellFormed
<1>2. \A o \in DOMAIN archive.entries : IsEntry(archive.entries[o])
  BY <1>1 DEF WellFormedZip, Range
<1>3. \A o \in DOMAIN archive.locals : archive.locals[o] \in LocalRecord
  BY <1>1 DEF WellFormedZip, Range
<1>4. IsEntry(EntryAt(offset))
  <2>1. IsEntry(NoEntry)
    BY DEF NoEntry, IsEntry
  <2> QED
    BY <1>2, <2>1 DEF EntryAt
<1>5. LocalHeader(EntryAt(offset)) \in LocalRecord
  BY <1>3 DEF LocalHeader, LocalRecord
<1> QED
  BY <1>4, <1>5 DEF IsEntry, LocalRecord, EntrySize, DataOffset,
                    CentralHeaderSize, LocalHeaderSize

\* The walk over an intact directory: a header that is not the model's leads to
\* the next one, and there is a next one.
LEMMA WalkGoesOn ==
    ASSUME archive \in Archives, IntactZip(archive),
           end = archive.writtenEnd, end \in EndRecord,
           entry \in Nat, entry < end.numEntries,
           position = archive.offsets[entry + 1],
           \A i \in 1 .. entry : EntryAt(archive.offsets[i]).name # "DataModel",
           EntryAt(position).name # "DataModel"
    PROVE  /\ entry + 1 < end.numEntries
           /\ position + EntrySize(EntryAt(position)) = archive.offsets[entry + 2]
           /\ \A i \in 1 .. entry + 1 :
                 EntryAt(archive.offsets[i]).name # "DataModel"
<1> DEFINE n == end.numEntries
<1>1. WrittenDirectory(archive) /\ \E e \in Entries(archive) : e.name = "DataModel"
  BY DEF IntactZip
<1>2. /\ n \in Nat
      /\ DOMAIN archive.entries = {archive.offsets[i] : i \in 1 .. n}
      /\ \A i \in 1 .. n - 1 :
            archive.offsets[i + 1]
              = archive.offsets[i] + CentralHeaderSize
                + archive.entries[archive.offsets[i]].nameLen
                + archive.entries[archive.offsets[i]].extraLen
                + archive.entries[archive.offsets[i]].commentLen
  BY <1>1 DEF WrittenDirectory, EndRecord
<1>3. \A i \in 1 .. entry + 1 : EntryAt(archive.offsets[i]).name # "DataModel"
  OBVIOUS
<1>4. PICK i \in 1 .. n : archive.entries[archive.offsets[i]].name = "DataModel"
  BY <1>1, <1>2 DEF Entries
<1>5. EntryAt(archive.offsets[i]).name = "DataModel"
  BY <1>2, <1>4 DEF EntryAt
<1>6. entry + 1 < n
  BY <1>2, <1>3, <1>4, <1>5
<1>7. entry + 1 \in 1 .. n - 1 /\ entry + 1 \in 1 .. n
  BY <1>2, <1>6
<1>8. EntryAt(position) = archive.entries[archive.offsets[entry + 1]]
  BY <1>2, <1>7 DEF EntryAt
<1>9. archive.offsets[(entry + 1) + 1]
        = position + CentralHeaderSize + EntryAt(position).nameLen
          + EntryAt(position).extraLen + EntryAt(position).commentLen
  BY <1>2, <1>7, <1>8
<1>10. /\ position \in Nat /\ IsEntry(EntryAt(position))
  <2>1. DOMAIN archive.entries \subseteq Nat
    BY ArchiveIsWellFormed DEF WellFormedZip
  <2> QED
    BY <2>1, <1>2, <1>7, EntryTypes
<1>11. position + EntrySize(EntryAt(position)) = archive.offsets[entry + 2]
  BY <1>9, <1>10 DEF EntrySize, IsEntry, CentralHeaderSize
<1> QED
  BY <1>3, <1>6, <1>11

\* The header of the model leads to its content.
LEMMA WalkArrives ==
    ASSUME archive \in Archives, IntactZip(archive),
           EntryAt(position).name = "DataModel"
    PROVE  DataOffset(EntryAt(position)) = archive.dataAt
<1>1. position \in DOMAIN archive.entries /\ EntryAt(position) = archive.entries[position]
  BY DEF EntryAt, NoEntry
<1>2. EntryAt(position) \in Entries(archive) /\ WrittenDirectory(archive)
  BY <1>1 DEF Entries, IntactZip
<1> QED
  BY <1>2 DEF WrittenDirectory, DataOffset, LocalHeader

-----------------------------------------------------------------------------
(* The header of the model.                                                *)

\* Trimming the zeros behind a text leaves the text.
LEMMA TrimKeepsText ==
    ASSUME NEW h, h.bytes \in Seq(Nat), h.units \in Nat, HeaderWritten(h)
    PROVE  TrimmedUnits(h.bytes) >= h.units
<1> DEFINE n == Len(h.bytes)
           u == h.units
           Zero(k) == \A i \in n - 2 * k + 1 .. n : h.bytes[i] = 0
           K == {k \in 0 .. n \div 2 : Zero(k)}
<1>1. /\ n \in Nat /\ u \in Nat /\ u > 0 /\ 2 * u <= n
      /\ h.bytes[2 * u - 1] # 0 \/ h.bytes[2 * u] # 0
  BY DEF HeaderWritten
<1>2. ZeroPairs(h.bytes) = Max(K)
  BY DEF ZeroPairs
<1>3. n \div 2 \in Nat /\ 2 * (n \div 2) <= n
  <2> HIDE DEF n
  <2> QED
    BY <1>1
<1>4. Max(K) \in K
  <2> HIDE DEF Zero, n
  <2>1. K \in SUBSET Nat /\ \A k \in K : k <= n \div 2
    BY <1>3
  <2>2. 0 \in K
    <3>1. Zero(0)
      BY <1>1 DEF Zero
    <3> QED
      BY <3>1, <1>3
  <2> HIDE DEF K
  <2> QED
    BY <1>3, <2>1, <2>2, NatMax
<1>5. PICK k \in Nat : k = Max(K) /\ Zero(k) /\ 2 * k <= n
  <2> HIDE DEF Zero, n
  <2>1. Max(K) \in 0 .. n \div 2 /\ Zero(Max(K))
    BY <1>4
  <2> DEFINE k == Max(K)
  <2> HIDE DEF K
  <2>2. k \in Nat /\ 2 * k <= n
    BY <1>1, <1>3, <2>1
  <2> QED
    BY <2>1, <2>2
<1> HIDE DEF K, n, u
<1>6. 2 * k <= n - 2 * u + 1
  <2> SUFFICES ASSUME n - 2 * k + 1 <= 2 * u - 1 PROVE FALSE
    BY <1>1, <1>5
  <2>1. 2 * u - 1 \in n - 2 * k + 1 .. n /\ 2 * u \in n - 2 * k + 1 .. n
    BY <1>1, <1>5
  <2> QED
    BY <1>1, <1>5, <2>1
<1>7. TrimmedUnits(h.bytes) = (n - 2 * k + 1) \div 2
  BY <1>2, <1>5 DEF TrimmedUnits, n
<1>8. (n - 2 * k + 1) \div 2 >= u
  <2> DEFINE m == n - 2 * k + 1
  <2>1. m \in Nat /\ m >= 2 * u
    BY <1>1, <1>5, <1>6
  <2> HIDE DEF m
  <2>2. m \div 2 >= u
    BY <1>1, <2>1
  <2> QED
    BY <2>2 DEF m
<1> QED
  BY <1>7, <1>8 DEF u

\* The header of an intact model names its directory.
LEMMA HeaderNamesDirectory ==
    ASSUME archive \in Archives, IntactModel(model)
    PROVE  BackupLogHeader = model.directoryAt
<1>1. model.header.bytes \in Seq(Nat) /\ model.header.units \in Nat
  BY ArchiveIsWellFormed DEF WellFormedModel
<1>2. TrimmedUnits(model.header.bytes) >= model.header.units
  BY <1>1, TrimKeepsText DEF IntactModel
<1> QED
  BY <1>2 DEF IntactModel, BackupLogHeader

-----------------------------------------------------------------------------
(* The parts of the model.                                                 *)

\* The files of a directory, and the sizes that may be read for them.
LEMMA DirectoryTypes ==
    ASSUME archive \in Archives, directory = model.directory
    PROVE  /\ Len(directory) \in Nat /\ DOMAIN directory = 1 .. Len(directory)
           /\ \A i \in DOMAIN directory :
                 directory[i].at \in Nat /\ SizesOf(directory[i]) \subseteq Nat
<1>1. WellFormedModel(model)
  BY ArchiveIsWellFormed
<1>2. Len(directory) \in Nat /\ DOMAIN directory = 1 .. Len(directory)
  BY <1>1 DEF WellFormedModel
<1>3. \A i \in DOMAIN directory : SizesOf(directory[i]) \subseteq Nat
  BY <1>1 DEF WellFormedModel, SizesOf
<1> QED
  BY <1>1, <1>2, <1>3 DEF WellFormedModel

\* What is read as the database is all of it, if its size is known and fits.
LEMMA DatabasePart ==
    ASSUME archive \in Archives, directory = model.directory, Len(directory) >= 2,
           NEW size \in SizesOf(DatabaseFile),
           Readable(Extent(DatabaseFile.at, ToInt(size)))
    PROVE  /\ DatabaseFile.at \in Nat /\ ToInt(size) \in Nat
           /\ \/ Extent(DatabaseFile.at, ToInt(size)) = model.database
              \/ model.database.size >= IntSpace
              \/ DatabaseFile.size = <<>>
<1>1. Len(directory) - 1 \in DOMAIN directory
  BY DirectoryTypes
<1>2. DatabaseFile.at \in Nat /\ size \in Nat
  BY <1>1, DirectoryTypes DEF DatabaseFile
<1>3. ToInt(size) \in Int /\ ToInt(size) >= 0
  BY <1>2, IntOfSize DEF Readable, Extent
<1>4. ASSUME DatabaseFile.size # <<>>, ~(model.database.size >= IntSpace)
      PROVE  Extent(DatabaseFile.at, ToInt(size)) = model.database
  <2>1. size = DatabaseFile.size[1]
    BY <1>4 DEF SizesOf
  <2>2. model.database = Extent(DatabaseFile.at, size)
    BY <1>4, <2>1, ArchiveIsWellFormed DEF WellFormedModel, DatabaseFile
  <2>3. size < IntSpace
    BY <1>2, <1>4, <2>2 DEF Extent
  <2>4. ToInt(size) = size
    BY <1>2, <1>3, <2>3, IntOfSize
  <2> QED
    BY <2>2, <2>4
<1> QED
  BY <1>2, <1>3, <1>4

-----------------------------------------------------------------------------
(* The invariant holds initially and is kept by every step.                *)

LEMMA InitCatalogInv == Init => CatalogInv
<1> SUFFICES ASSUME Init PROVE CatalogInv
  OBVIOUS
<1>1. TypeOK
  BY DEF Init, TypeOK, EndRecord, Nowhere, Extent
<1>2. ReadsModel /\ DatabaseIsWhole /\ OnPath /\ IntactIsRead
  BY DEF Init, ReadsModel, DatabaseIsWhole, OnPath, IntactIsRead
<1> QED
  BY <1>1, <1>2 DEF CatalogInv

\* The conditions of a step of an intact archive.
LEMMA IntactState ==
    ASSUME CatalogInv, Intact(archive)
    PROVE  /\ OnPath /\ phase # "failed"
           /\ phase = "wild" => TrimReadsOutside(model.header.bytes)
           /\ IntactZip(archive) /\ IntactModel(model) /\ IntactLog(model.log)
BY DEF CatalogInv, IntactIsRead, Intact, model

LEMMA FindEndKeeps == CatalogInv /\ FindEnd => CatalogInv'
<1> SUFFICES ASSUME CatalogInv, FindEnd PROVE CatalogInv'
  OBVIOUS
<1>1. /\ TypeOK /\ phase = "end" /\ phase' \in {"failed", "entries"}
      /\ UNCHANGED <<archive, entry, dataStart, header, directory, log, database, files>>
  BY DEF CatalogInv, FindEnd, modelVars
<1>2. CASE EndRecords = {}
  <2>1. phase' = "failed" /\ UNCHANGED <<end, position>>
    BY <1>2 DEF FindEnd
  <2>2. ~Intact(archive)
    <3> SUFFICES ASSUME Intact(archive) PROVE FALSE
      OBVIOUS
    <3>1. WellFormedZip(archive) /\ IntactZip(archive)
      BY <1>1, ArchiveIsWellFormed DEF TypeOK, Intact
    <3>2. PICK o \in DOMAIN archive.records :
             o + SignatureSize <= archive.size /\ archive.size - Window <= o
      BY <3>1 DEF IntactZip
    <3>3. o \in Nat /\ archive.size \in Nat
      BY <3>1 DEF WellFormedZip
    <3>4. o \in EndRecords
      BY <3>2, <3>3 DEF EndRecords
    <3> QED
      BY <3>4, <1>2
  <2> QED
    BY <1>1, <2>1, <2>2 DEF CatalogInv, TypeOK, ReadsModel, DatabaseIsWhole
<1>3. CASE EndRecords # {}
  <2> DEFINE last == Max(EndRecords)
  <2>1. /\ end' = archive.records[last] /\ phase' = "entries"
        /\ position' = end'.centralDirectoryOffset
    BY <1>3 DEF FindEnd
  <2>2. /\ last \in EndRecords /\ \A o \in EndRecords : o <= last
        /\ end' \in EndRecord
    BY <1>1, <1>3, <2>1, LastEndRecord DEF TypeOK
  <2>3. position' \in Nat
    BY <2>1, <2>2 DEF EndRecord
  <2>4. TypeOK'
    BY <1>1, <2>1, <2>2, <2>3 DEF TypeOK
  <2>5. ASSUME Intact(archive) PROVE OnPath' /\ IntactIsRead'
    <3>1. /\ WellFormedZip(archive) /\ IntactZip(archive) /\ entry = 0
      BY <1>1, <2>5, ArchiveIsWellFormed DEF TypeOK, Intact, CatalogInv, OnPath
    <3>2. PICK o \in DOMAIN archive.records :
             /\ \A q \in DOMAIN archive.records : q <= o
             /\ o + SignatureSize <= archive.size /\ archive.size - Window <= o
             /\ archive.records[o] = archive.writtenEnd
      BY <3>1 DEF IntactZip
    <3>3. o \in EndRecords
      BY <3>1, <3>2 DEF WellFormedZip, EndRecords
    <3>4. last <= o /\ o <= last /\ o \in Nat /\ last \in Nat
      <4>1. EndRecords \subseteq DOMAIN archive.records
        BY DEF EndRecords
      <4>2. DOMAIN archive.records \subseteq Nat
        BY <3>1 DEF WellFormedZip
      <4> HIDE DEF last
      <4> QED
        BY <2>2, <3>2, <3>3, <4>1, <4>2
    <3> HIDE DEF last
    <3>5. end' = archive.writtenEnd
      <4>1. o = last
        BY <3>4
      <4> QED
        BY <2>1, <3>2, <4>1
    <3> DEFINE n == end'.numEntries
    <3>6. n \in Nat /\ n > 0 /\ archive.offsets[1] = position'
      <4>1. n \in Nat
        BY <2>2 DEF EndRecord
      <4>2. WrittenDirectory(archive) /\ \E e \in Entries(archive) : e.name = "DataModel"
        BY <3>1 DEF IntactZip
      <4>3. DOMAIN archive.entries = {archive.offsets[i] : i \in 1 .. n}
        BY <3>5, <4>2 DEF WrittenDirectory
      <4>4. \E i \in 1 .. n : TRUE
        BY <4>2, <4>3 DEF Entries
      <4>5. n > 0
        BY <4>1, <4>4
      <4> QED
        BY <2>1, <3>5, <4>1, <4>2, <4>5 DEF WrittenDirectory
    <3> HIDE DEF n
    <3>7. OnPath'
      BY <1>1, <2>1, <3>1, <3>5, <3>6 DEF OnPath, n
    <3> QED
      BY <2>1, <3>7 DEF IntactIsRead
  <2> QED
    BY <1>1, <2>1, <2>4, <2>5 DEF CatalogInv, ReadsModel, DatabaseIsWhole
<1> QED
  BY <1>2, <1>3

LEMMA FindDataModelKeeps == CatalogInv /\ FindDataModel => CatalogInv'
<1> SUFFICES ASSUME CatalogInv, FindDataModel PROVE CatalogInv'
  OBVIOUS
<1> DEFINE e == EntryAt(position)
<1>1. /\ TypeOK /\ phase = "entries" /\ phase' \in {"failed", "format", "entries"}
      /\ UNCHANGED <<archive, end, header, directory, log, database, files>>
  BY DEF CatalogInv, FindDataModel, modelVars
<1>2. /\ EntrySize(e) \in Nat /\ DataOffset(e) \in Nat
      /\ entry \in Nat /\ position \in Nat /\ end \in EndRecord /\ archive \in Archives
  BY <1>1, EntryTypes DEF TypeOK
<1>3. ASSUME Intact(archive)
      PROVE  /\ IntactZip(archive) /\ end = archive.writtenEnd
             /\ entry < end.numEntries /\ position = archive.offsets[entry + 1]
             /\ \A i \in 1 .. entry : EntryAt(archive.offsets[i]).name # "DataModel"
  BY <1>1, <1>3, IntactState DEF OnPath
<1>4. CASE entry >= end.numEntries
  <2>1. phase' = "failed" /\ UNCHANGED <<entry, position, dataStart>>
    BY <1>4 DEF FindDataModel
  <2>2. ~Intact(archive)
    <3>1. end.numEntries \in Nat
      BY <1>2 DEF EndRecord
    <3> QED
      BY <1>2, <1>3, <1>4, <3>1
  <2> QED
    BY <1>1, <2>1, <2>2 DEF CatalogInv, TypeOK, ReadsModel, DatabaseIsWhole
<1>5. CASE ~(entry >= end.numEntries) /\ e.name = "DataModel"
  <2>1. dataStart' = DataOffset(e) /\ phase' = "format" /\ UNCHANGED <<entry, position>>
    BY <1>5 DEF FindDataModel
  <2>2. TypeOK'
    BY <1>1, <1>2, <2>1 DEF TypeOK
  <2>3. Intact(archive) => dataStart' = archive.dataAt
    BY <1>2, <1>3, <1>5, <2>1, WalkArrives
  <2> QED
    BY <1>1, <2>1, <2>2, <2>3
       DEF CatalogInv, ReadsModel, DatabaseIsWhole, OnPath, IntactIsRead
<1>6. CASE ~(entry >= end.numEntries) /\ e.name # "DataModel"
  <2>1. /\ entry' = entry + 1 /\ position' = position + EntrySize(e)
        /\ UNCHANGED <<phase, dataStart>>
    BY <1>6 DEF FindDataModel
  <2>2. TypeOK'
    BY <1>1, <1>2, <2>1 DEF TypeOK
  <2>3. ASSUME Intact(archive) PROVE OnPath'
    <3>1. /\ entry + 1 < end.numEntries
          /\ position + EntrySize(e) = archive.offsets[entry + 2]
          /\ \A i \in 1 .. entry + 1 : EntryAt(archive.offsets[i]).name # "DataModel"
      BY <1>2, <1>3, <1>6, <2>3, WalkGoesOn
    <3>2. entry' + 1 = entry + 2
      BY <1>2, <2>1
    <3>3. \A i \in 1 .. entry' : EntryAt(archive.offsets[i])' = EntryAt(archive.offsets[i])
      BY <1>1 DEF EntryAt
    <3>4. \A i \in 1 .. entry' : EntryAt(archive.offsets[i])'.name # "DataModel"
      BY <2>1, <3>1, <3>3
    <3> QED
      BY <1>1, <1>3, <2>1, <2>3, <3>1, <3>2, <3>4 DEF OnPath, EntryAt
  <2> QED
    BY <1>1, <2>1, <2>2, <2>3 DEF CatalogInv, ReadsModel, DatabaseIsWhole, IntactIsRead
<1> QED
  BY <1>4, <1>5, <1>6

LEMMA DetectFormatKeeps == CatalogInv /\ DetectFormat => CatalogInv'
<1> SUFFICES ASSUME CatalogInv, DetectFormat PROVE CatalogInv'
  OBVIOUS
<1>1. /\ TypeOK /\ phase = "format" /\ phase' \in {"failed", "header"}
      /\ UNCHANGED <<archive, zipVars, modelVars>>
  BY DEF CatalogInv, DetectFormat
<1>2. TypeOK'
  BY <1>1 DEF TypeOK, zipVars, modelVars
<1>3. Intact(archive) => phase' = "header"
  BY <1>1, IntactState DEF OnPath, DetectFormat, DetectDataModelType, IntactZip
<1> QED
  BY <1>1, <1>2, <1>3
     DEF CatalogInv, ReadsModel, DatabaseIsWhole, OnPath, IntactIsRead, zipVars, modelVars

LEMMA ReadHeaderKeeps == CatalogInv /\ ReadHeader => CatalogInv'
<1> SUFFICES ASSUME CatalogInv, ReadHeader PROVE CatalogInv'
  OBVIOUS
<1>1. /\ TypeOK /\ phase = "header" /\ header' = BackupLogHeader
      /\ \/ phase' = "directory"
         \/ phase' = "wild" /\ TrimReadsOutside(model.header.bytes)
      /\ UNCHANGED <<archive, zipVars, directory, log, database, files>>
  BY DEF CatalogInv, ReadHeader
<1>2. TypeOK'
  BY <1>1 DEF TypeOK, zipVars
<1>3. Intact(archive) => header' = model.directoryAt
  BY <1>1, IntactState, HeaderNamesDirectory DEF TypeOK
<1> QED
  BY <1>1, <1>2, <1>3
     DEF CatalogInv, ReadsModel, DatabaseIsWhole, OnPath, IntactIsRead, model

\* What an intact model says of its directory.
LEMMA IntactDirectory ==
    ASSUME archive \in Archives, IntactModel(model), directory = model.directory
    PROVE  /\ Len(directory) \in Nat /\ Len(directory) >= 2
           /\ \A i \in 1 .. Len(directory) :
                 /\ directory[i].path # <<>>
                 /\ \A size \in SizesOf(directory[i]) :
                       /\ size = directory[i].size[1] /\ ToInt(size) = size
                       /\ Readable(Extent(directory[i].at, ToInt(size)))
<1>1. /\ Len(directory) \in Nat /\ DOMAIN directory = 1 .. Len(directory)
      /\ Len(directory) >= 2
  BY DirectoryTypes DEF IntactModel
<1> SUFFICES ASSUME NEW i \in 1 .. Len(directory)
             PROVE  /\ directory[i].path # <<>>
                    /\ \A size \in SizesOf(directory[i]) :
                          /\ size = directory[i].size[1] /\ ToInt(size) = size
                          /\ Readable(Extent(directory[i].at, ToInt(size)))
  BY <1>1
<1>2. /\ directory[i].path # <<>> /\ directory[i].size # <<>>
      /\ directory[i].at + directory[i].size[1] <= model.length
      /\ directory[i].size[1] \in 0 .. IntSpace \div 2 - 1
      /\ directory[i].at \in Nat
  BY <1>1, DirectoryTypes DEF IntactModel
<1> DEFINE n == directory[i].size[1]
<1>3. SizesOf(directory[i]) = {n}
  BY <1>2 DEF SizesOf
<1>4. n \in Nat /\ n < IntSpace \div 2
  BY <1>2
<1>5. ToInt(n) = n
  BY <1>4, IntOfSize
<1>6. Readable(Extent(directory[i].at, n))
  BY <1>2 DEF Readable, Extent
<1> QED
  BY <1>2, <1>3, <1>5, <1>6

LEMMA ReadDirectoryKeeps == CatalogInv /\ ReadDirectory => CatalogInv'
<1> SUFFICES ASSUME CatalogInv, ReadDirectory PROVE CatalogInv'
  OBVIOUS
<1>1. /\ TypeOK /\ phase = "directory" /\ archive \in Archives
      /\ phase' \in {"failed", "wild", "log"}
      /\ phase' = "log" => directory' = model.directory
      /\ UNCHANGED <<archive, zipVars, header, log, database, files>>
  BY DEF CatalogInv, TypeOK, ReadDirectory
<1>2. TypeOK'
  BY <1>1 DEF TypeOK, zipVars
<1>3. ASSUME Intact(archive) PROVE phase' = "log"
  <2>1. IntactModel(model) /\ header = model.directoryAt
    BY <1>1, <1>3, IntactState DEF OnPath
  <2>2. /\ header = Extent(model.header.at, model.header.size)
        /\ header.at = model.header.at /\ header.size = model.header.size
        /\ header.at + header.size <= model.length
        /\ header.size < IntSpace \div 2
    BY <2>1 DEF IntactModel, Extent
  <2>3. header.at \in Nat /\ header.size \in Nat
    BY <1>1, <2>2, ArchiveIsWellFormed DEF WellFormedModel
  <2>4. Extent(header.at, ToInt(header.size)) = header
    BY <2>2, <2>3, IntOfSize
  <2>5. Readable(header)
    BY <2>2, <2>3 DEF Readable
  <2>6. model.directory # <<>> /\ model.directoryParses
    BY <2>1 DEF IntactModel
  <2> QED
    BY <2>1, <2>4, <2>5, <2>6 DEF ReadDirectory
<1> QED
  BY <1>1, <1>2, <1>3
     DEF CatalogInv, ReadsModel, DatabaseIsWhole, OnPath, IntactIsRead, model

LEMMA ReadLogKeeps == CatalogInv /\ ReadLog => CatalogInv'
<1> SUFFICES ASSUME CatalogInv, ReadLog PROVE CatalogInv'
  OBVIOUS
<1>1. /\ TypeOK /\ phase = "log" /\ archive \in Archives /\ directory = model.directory
      /\ \/ phase' = "failed" /\ UNCHANGED log
         \/ phase' = "database" /\ log' = model.log /\ ~TooFewFiles
      /\ UNCHANGED <<archive, zipVars, header, directory, database, files>>
  BY DEF CatalogInv, TypeOK, ReadsModel, ReadLog
<1>2. TypeOK'
  <2>1. Len(directory) \in Nat
    BY <1>1, DirectoryTypes
  <2> QED
    BY <1>1, <2>1 DEF TypeOK, TooFewFiles, zipVars
<1>3. ASSUME Intact(archive) PROVE phase' # "failed"
  <2>1. IntactModel(model) /\ IntactLog(model.log)
    BY <1>3, IntactState
  <2> DEFINE n == Len(directory)
             part(size) == Extent(Last(directory).at + BomSize, ToInt(size) - BomSize)
  <2>2. /\ n \in Nat /\ n >= 2 /\ Last(directory) = directory[n] /\ n \in 1 .. n
    BY <1>1, <2>1, IntactDirectory DEF Last
  <2>3. ASSUME NEW size \in SizesOf(Last(directory))
        PROVE  part(size) = model.logAt /\ Readable(part(size))
    <3>1. size = Last(directory).size[1] /\ ToInt(size) = size
      BY <1>1, <2>1, <2>2, IntactDirectory
    <3>2. part(size) = model.logAt
      BY <1>1, <2>1, <3>1 DEF IntactModel
    <3>3. Last(directory).at \in Nat /\ size \in Nat
      BY <1>1, <2>2, DirectoryTypes
    <3>4. Last(directory).at + size <= model.length
      BY <1>1, <2>1, <2>2, <3>1, DirectoryTypes DEF IntactModel
    <3>5. part(size).size >= 0
      BY <2>1, <3>2 DEF IntactModel
    <3>6. model.length \in Nat
      BY <1>1, ArchiveIsWellFormed DEF WellFormedModel
    <3>7. Readable(part(size))
      BY <3>1, <3>3, <3>4, <3>5, <3>6 DEF Readable, Extent, BomSize
    <3> QED
      BY <3>2, <3>7
  <2>4. ~TooFewFiles /\ ~BackupLogThrows(model.log)
    <3>1. ~TooFewFiles
      BY <2>2 DEF TooFewFiles
    <3> QED
      BY <2>1, <3>1 DEF IntactLog
  <2> QED
    BY <2>3, <2>4 DEF ReadLog
<1> QED
  BY <1>1, <1>2, <1>3
     DEF CatalogInv, ReadsModel, DatabaseIsWhole, OnPath, IntactIsRead, model

LEMMA ReadDatabaseKeeps == CatalogInv /\ ReadDatabase => CatalogInv'
<1> SUFFICES ASSUME CatalogInv, ReadDatabase PROVE CatalogInv'
  OBVIOUS
<1>1. /\ TypeOK /\ phase = "database" /\ archive \in Archives /\ directory = model.directory
      /\ log = model.log /\ Len(directory) >= 2
      /\ UNCHANGED <<archive, zipVars, header, directory, log, files>>
  BY DEF CatalogInv, TypeOK, ReadsModel, ReadDatabase
<1>2. PICK size \in SizesOf(DatabaseFile) :
         \/ /\ phase' = "failed" /\ UNCHANGED database
            /\ ~Readable(Extent(DatabaseFile.at, ToInt(size)))
         \/ /\ phase' = "match" /\ database' = Extent(DatabaseFile.at, ToInt(size))
            /\ Readable(Extent(DatabaseFile.at, ToInt(size)))
  BY DEF ReadDatabase
<1>3. CASE phase' = "failed" /\ UNCHANGED database
           /\ ~Readable(Extent(DatabaseFile.at, ToInt(size)))
  <2>1. ~Intact(archive)
    <3> SUFFICES ASSUME Intact(archive) PROVE FALSE
      OBVIOUS
    <3>1. Len(directory) - 1 \in 1 .. Len(directory) /\ IntactModel(model)
      BY <1>1, IntactState, DirectoryTypes
    <3>2. Readable(Extent(DatabaseFile.at, ToInt(size)))
      BY <1>1, <3>1, IntactDirectory DEF DatabaseFile
    <3> QED
      BY <1>3, <3>2
  <2>2. TypeOK'
    BY <1>1, <1>3 DEF TypeOK, zipVars
  <2> QED
    BY <1>1, <1>3, <2>1, <2>2 DEF CatalogInv, ReadsModel, DatabaseIsWhole
<1>4. CASE /\ phase' = "match" /\ database' = Extent(DatabaseFile.at, ToInt(size))
           /\ Readable(Extent(DatabaseFile.at, ToInt(size)))
  <2>1. /\ DatabaseFile.at \in Nat /\ ToInt(size) \in Nat
        /\ \/ Extent(DatabaseFile.at, ToInt(size)) = model.database
           \/ model.database.size >= IntSpace
           \/ DatabaseFile.size = <<>>
    BY <1>1, <1>4, DatabasePart
  <2>2. TypeOK'
    BY <1>1, <1>4, <2>1 DEF TypeOK, zipVars, Extent
  <2>3. DatabaseIsWhole'
    BY <1>1, <1>4, <2>1 DEF DatabaseIsWhole, DatabaseFile, model
  <2> QED
    BY <1>1, <1>4, <2>2, <2>3 DEF CatalogInv, ReadsModel, OnPath, IntactIsRead, model
<1> QED
  BY <1>2, <1>3, <1>4

\* The files of an intact archive have what the join asks for.
LEMMA IntactMatches ==
    ASSUME archive \in Archives, IntactModel(model), IntactLog(model.log),
           directory = model.directory, log = model.log
    PROVE  ~MatchThrows
<1>1. \A i \in DOMAIN directory : directory[i].path # <<>>
  BY DEF IntactModel
<1> QED
  BY <1>1 DEF MatchThrows, IntactLog

LEMMA MatchLogsFixed == UNCHANGED <<log, directory>> => MatchLogs' = MatchLogs
<1> SUFFICES ASSUME UNCHANGED <<log, directory>> PROVE MatchLogs' = MatchLogs
  OBVIOUS
<1> QED
  BY DEF MatchLogs, LogFiles, Matched, WithPath, FileName

LEMMA MatchKeeps == CatalogInv /\ MatchLogsWithDirectory => CatalogInv'
<1> SUFFICES ASSUME CatalogInv, MatchLogsWithDirectory PROVE CatalogInv'
  OBVIOUS
<1>1. /\ TypeOK /\ phase = "match" /\ archive \in Archives /\ directory = model.directory
      /\ log = model.log
      /\ \/ phase' = "failed" /\ MatchThrows
         \/ phase' = "done" /\ files' = MatchLogs
      /\ UNCHANGED <<archive, zipVars, header, directory, log, database>>
  BY DEF CatalogInv, TypeOK, ReadsModel, MatchLogsWithDirectory
<1>2. TypeOK'
  BY <1>1 DEF TypeOK, zipVars
<1>3. Intact(archive) => phase' # "failed"
  BY <1>1, IntactState, IntactMatches
<1>4. MatchLogs' = MatchLogs
  BY <1>1, MatchLogsFixed
<1> QED
  BY <1>1, <1>2, <1>3, <1>4
     DEF CatalogInv, ReadsModel, DatabaseIsWhole, OnPath, IntactIsRead, model

LEMMA NextCatalogInv == CatalogInv /\ [Next]_vars => CatalogInv'
<1> SUFFICES ASSUME CatalogInv, [Next]_vars PROVE CatalogInv'
  OBVIOUS
<1>1. CASE UNCHANGED vars
  <2>1. UNCHANGED <<MatchLogs, model>>
    BY <1>1, MatchLogsFixed DEF vars, modelVars, model
  <2> QED
    BY <1>1, <2>1
       DEF CatalogInv, TypeOK, ReadsModel, DatabaseIsWhole, OnPath, IntactIsRead,
           EntryAt, vars, zipVars, modelVars
<1> QED
  BY <1>1, FindEndKeeps, FindDataModelKeeps, DetectFormatKeeps, ReadHeaderKeeps,
     ReadDirectoryKeeps, ReadLogKeeps, ReadDatabaseKeeps, MatchKeeps
     DEF Next, Over

\* The invariant of the walk holds for every archive, every window and every
\* width of an int.
THEOREM CatalogInvariant == Spec => []CatalogInv
<1> QED
  BY InitCatalogInv, NextCatalogInv, PTL DEF Spec

\* An intact archive is read to the end; only a header text that fills its
\* whole buffer can go wrong.
THEOREM ReadsIntact == Spec => []IntactIsRead
<1>1. CatalogInv => IntactIsRead
  BY DEF CatalogInv, IntactIsRead
<1> QED
  BY <1>1, CatalogInvariant, PTL

\* The database handed to SQLite is the whole last file but one of the
\* directory, unless its size does not fit the 32 bits it is narrowed to.
THEOREM HandsOutWholeDatabase == Spec => []DatabaseIsWhole
<1>1. CatalogInv => DatabaseIsWhole
  BY DEF CatalogInv
<1> QED
  BY <1>1, CatalogInvariant, PTL

-----------------------------------------------------------------------------
(* What the join of log and directory lists.                               *)

\* The files that the log of an archive names, group by group.
LEMMA LogFilesAreLogged ==
    ASSUME archive \in Archives, log = model.log, log.fileGroups # <<>>
    PROVE  /\ LogFiles \in Seq(LoggedFiles(log.fileGroups[1]))
           /\ Range(LogFiles) = LoggedFiles(log.fileGroups[1])
<1> DEFINE groups == log.fileGroups[1]
           L == LoggedFiles(groups)
           GroupFiles(i) == UNION {Range(groups[i].fileLists[j]) : j \in DOMAIN groups[i].fileLists}
           flat == [i \in DOMAIN groups |-> FlattenSeq(groups[i].fileLists)]
<1>1. /\ groups \in Seq(Range(groups))
      /\ \A i \in DOMAIN groups : groups[i].fileLists \in Seq(Seq(L))
  BY ArchiveIsWellFormed DEF WellFormedLog
<1>2. L = UNION {GroupFiles(i) : i \in DOMAIN groups}
  BY DEF LoggedFiles
<1>3. LogFiles = FlattenSeq(flat)
  BY DEF LogFiles
<1> HIDE DEF groups, L, GroupFiles
<1>4. \A i \in DOMAIN groups : flat[i] \in Seq(L) /\ Range(flat[i]) = GroupFiles(i)
  BY <1>1, FlattenSeqRange DEF GroupFiles
<1>5. DOMAIN groups = 1 .. Len(groups) /\ Len(groups) \in Nat
  BY <1>1
<1>6. flat \in Seq(Seq(L))
  BY <1>4, <1>5
<1>7. DOMAIN flat = DOMAIN groups
  OBVIOUS
<1> HIDE DEF flat
<1>8. {Range(flat[i]) : i \in DOMAIN flat} = {GroupFiles(i) : i \in DOMAIN groups}
  BY <1>4, <1>7
<1> QED
  BY <1>2, <1>3, <1>6, <1>8, FlattenSeqRange DEF groups, L

\* What is listed for a file of the model.
Listed(f) == [FileName |-> Last(f.path), at |-> f.at, size |-> <<f.size>>]

\* A file of an intact log is matched to the place of a file of the model.
LEMMA MatchedIsListed ==
    ASSUME archive \in Archives, directory = model.directory, log = model.log,
           IntactFiles(model), NEW f \in model.files, NEW g, Names(g, f)
    PROVE  Matched(g) = <<Listed(f)>>
<1>1. /\ \E i \in DOMAIN directory : directory[i].path = <<f.storage>>
      /\ \A i \in DOMAIN directory : directory[i].path = <<f.storage>> =>
            directory[i].at = f.at /\ directory[i].size = <<f.size>>
  BY DEF IntactFiles
<1>2. /\ g.path # <<>> /\ g.path[1] = f.path
      /\ g.storagePath # <<>> /\ g.storagePath[1] = f.storage
  BY DEF Names
<1>3. Len(directory) \in Nat /\ DOMAIN directory = 1 .. Len(directory)
  BY ArchiveIsWellFormed DEF WellFormedModel
<1>4. WithPath(f.storage) \in SUBSET Nat /\ \A i \in WithPath(f.storage) : i <= Len(directory)
  BY <1>3 DEF WithPath
<1>5. WithPath(f.storage) # {}
  BY <1>1 DEF WithPath
<1>6. Max(WithPath(f.storage)) \in WithPath(f.storage)
  BY <1>3, <1>4, <1>5, NatMax
<1>7. /\ directory[Max(WithPath(f.storage))].at = f.at
      /\ directory[Max(WithPath(f.storage))].size = <<f.size>>
  BY <1>1, <1>6 DEF WithPath
<1>8. FileName(g) = Last(f.path)
  BY <1>2 DEF FileName
<1> QED
  BY <1>2, <1>5, <1>7, <1>8 DEF Matched, Listed

\* So the list has the files of the model and no others.
LEMMA ListHasTheFiles ==
    ASSUME archive \in Archives, directory = model.directory, log = model.log,
           IntactFiles(model), log.fileGroups # <<>>
    PROVE  /\ MatchLogs \in Seq({Listed(f) : f \in model.files})
           /\ Range(MatchLogs) = {Listed(f) : f \in model.files}
<1> DEFINE L == LoggedFiles(log.fileGroups[1])
           R == {Listed(f) : f \in model.files}
           matches == [i \in DOMAIN LogFiles |-> Matched(LogFiles[i])]
<1>1. LogFiles \in Seq(L) /\ Range(LogFiles) = L
  BY LogFilesAreLogged
<1>2. /\ \A g \in L : \E f \in model.files : Names(g, f)
      /\ \A f \in model.files : \E g \in L : Names(g, f)
  BY DEF IntactFiles
<1>3. MatchLogs = FlattenSeq(matches)
  BY DEF MatchLogs
<1> HIDE DEF L
<1>4. DOMAIN LogFiles = 1 .. Len(LogFiles) /\ Len(LogFiles) \in Nat
  BY <1>1
<1>5. \A i \in DOMAIN LogFiles : LogFiles[i] \in L
  BY <1>1
<1>6. \A i \in DOMAIN LogFiles : \E f \in model.files : matches[i] = <<Listed(f)>>
  BY <1>2, <1>5, MatchedIsListed
<1>7. \A f \in model.files : \E i \in DOMAIN LogFiles : matches[i] = <<Listed(f)>>
  <2> SUFFICES ASSUME NEW f \in model.files
               PROVE  \E i \in DOMAIN LogFiles : matches[i] = <<Listed(f)>>
    OBVIOUS
  <2>1. PICK g \in L : Names(g, f)
    BY <1>2
  <2>2. PICK i \in DOMAIN LogFiles : LogFiles[i] = g
    BY <1>1, <2>1 DEF Range
  <2> QED
    BY <2>1, <2>2, MatchedIsListed
<1>8. DOMAIN matches = DOMAIN LogFiles
  OBVIOUS
<1>9. \A i \in DOMAIN matches : matches[i] \in Seq(R)
  <2> SUFFICES ASSUME NEW i \in DOMAIN LogFiles PROVE matches[i] \in Seq(R)
    BY <1>8
  <2>1. PICK f \in model.files : matches[i] = <<Listed(f)>>
    BY <1>6
  <2>2. Listed(f) \in R
    OBVIOUS
  <2> HIDE DEF matches, R
  <2> QED
    BY <2>1, <2>2
<1>10. matches \in Seq(Seq(R))
  BY <1>4, <1>9
<1> HIDE DEF matches
<1>11. MatchLogs \in Seq(R) /\ Range(MatchLogs) = UNION {Range(matches[i]) : i \in DOMAIN matches}
  BY <1>3, <1>10, FlattenSeqRange
<1>12. \A x : Range(<<x>>) = {x}
  BY DEF Range
<1>13. ASSUME NEW r \in R PROVE r \in Range(MatchLogs)
  <2>1. PICK f \in model.files : r = Listed(f)
    BY <1>13
  <2>2. PICK i \in DOMAIN matches : matches[i] = <<r>>
    BY <1>7, <1>8, <2>1
  <2>3. r \in Range(matches[i])
    BY <1>12, <2>2
  <2> HIDE DEF R
  <2> QED
    BY <1>11, <2>3
<1>14. ASSUME NEW r \in Range(MatchLogs) PROVE r \in R
  <2>1. PICK i \in DOMAIN matches : r \in Range(matches[i])
    BY <1>11, <1>14
  <2>2. PICK f \in model.files : matches[i] = <<Listed(f)>>
    BY <1>6, <1>8
  <2>3. r = Listed(f)
    BY <1>12, <2>1, <2>2
  <2> QED
    BY <2>3
<1> QED
  BY <1>11, <1>13, <1>14

\* A file whose base name no other file of the model has is found under that
\* name, with the bytes it was written to.
THEOREM FindsFiles == Spec => []FilesFound
<1>1. ASSUME CatalogInv PROVE FilesFound
  <2> SUFFICES ASSUME phase = "done", Intact(archive), NEW f \in model.files,
                      \A g \in model.files : Last(g.path) = Last(f.path) => g = f
               PROVE  /\ Lookup(Last(f.path)) # {}
                      /\ files[Max(Lookup(Last(f.path)))].at = f.at
                      /\ files[Max(Lookup(Last(f.path)))].size = <<f.size>>
    BY DEF FilesFound
  <2> DEFINE name == Last(f.path)
             R == {Listed(g) : g \in model.files}
  <2>1. /\ archive \in Archives /\ directory = model.directory /\ log = model.log
        /\ files = MatchLogs
    BY <1>1 DEF CatalogInv, TypeOK, ReadsModel
  <2>2. IntactFiles(model) /\ log.fileGroups # <<>>
    BY <2>1 DEF Intact, IntactLog, model
  <2>3. files \in Seq(R) /\ Range(files) = R
    BY <2>1, <2>2, ListHasTheFiles
  <2>4. \A g : Listed(g).FileName = Last(g.path) /\ Listed(g).at = g.at
               /\ Listed(g).size = <<g.size>>
    BY DEF Listed
  <2>5. Lookup(name) # {}
    <3>1. PICK i \in DOMAIN files : files[i] = Listed(f)
      BY <2>3 DEF Range
    <3> QED
      BY <2>4, <3>1 DEF Lookup
  <2>6. Len(files) \in Nat /\ DOMAIN files = 1 .. Len(files)
    BY <2>3
  <2>7. Max(Lookup(name)) \in Lookup(name)
    <3>1. Lookup(name) \in SUBSET Nat /\ \A i \in Lookup(name) : i <= Len(files)
      BY <2>6 DEF Lookup
    <3> QED
      BY <2>5, <2>6, <3>1, NatMax
  <2>8. files[Max(Lookup(name))] = Listed(f)
    <3>1. Max(Lookup(name)) \in DOMAIN files
      BY <2>7 DEF Lookup
    <3>2. files[Max(Lookup(name))] \in R
      <4> HIDE DEF R
      <4> QED
        BY <2>3, <3>1
    <3>3. PICK g \in model.files : files[Max(Lookup(name))] = Listed(g)
      BY <3>2
    <3>4. Last(g.path) = Last(f.path)
      BY <2>4, <2>7, <3>3 DEF Lookup
    <3> QED
      BY <3>3, <3>4
  <2> QED
    BY <2>4, <2>5, <2>8
<1> QED
  BY <1>1, CatalogInvariant, PTL
=============================================================================
