--------------------------- MODULE PbixRead_proofs ---------------------------
(***************************************************************************)
(* Proofs about PbixRead, for every set of column names, every set of file *)
(* versions, every vector size and any number of replacements.  ReadInv is *)
(* inductive; the properties follow from it.                               *)
(***************************************************************************)
EXTENDS PbixRead, SequenceTheorems, TLAPS

-----------------------------------------------------------------------------
(* Versions and sequences.                                                 *)

\* The parts of a version have their types.
LEMMA VersionParts ==
    ASSUME NEW v \in Versions
    PROVE  /\ v.readable \in BOOLEAN
           /\ v.columns \in Seq(Names)
           /\ v.parts \in Seq(Seq(Nat))
           /\ v # NoVersion
  BY VersionsAssumption DEF VersionRecords

\* The first segment of a partition has a number of rows.
LEMMA FirstSegment ==
    ASSUME NEW v \in Versions, NEW p \in 1..Len(v.parts)
    PROVE  DecodedRows(v, p) \in Nat
<1>1. v.parts \in Seq(Seq(Nat))
  BY VersionParts
<1>2. p \in DOMAIN v.parts
  BY <1>1
<1>3. v.parts[p] \in Seq(Nat) /\ v.parts[p] # <<>>
  BY <1>1, <1>2, VersionsAssumption
<1>4. 1 \in DOMAIN v.parts[p]
  BY <1>3
<1> QED
  BY <1>3, <1>4 DEF DecodedRows

\* A projection is a non-empty sequence of columns of the bound version.
LEMMA ProjectionType ==
    ASSUME NEW columns \in Seq(Names), NEW p \in Projections(columns)
    PROVE  /\ p \in Seq(Names)
           /\ Len(p) \in Nat \ {0}
           /\ DOMAIN p = 1..Len(p)
           /\ \A k \in DOMAIN p : \E i \in DOMAIN columns : columns[i] = p[k]
<1>1. PICK n \in 1..Len(columns) : p \in [1..n -> Names]
  BY DEF Projections
<1>2. p \in Seq(Names) /\ Len(p) = n /\ DOMAIN p = 1..n
  BY <1>1
<1> QED
  BY <1>1, <1>2 DEF Projections

\* Reading a version that binds finds every column of the projection, once.
LEMMA BoundHasColumns ==
    ASSUME TypeOK, ProjectionBound, bound # NoVersion, queried = bound
    PROVE  StillHasColumns
<1>1. bound \in Versions
  BY DEF TypeOK
<1>2. projection \in Projections(bound.columns) /\ Len(bound.parts) = 1
  BY DEF ProjectionBound, Binds
<1>3. \A k \in DOMAIN projection : Has(bound, projection[k])
  BY <1>1, <1>2, VersionParts, ProjectionType DEF Has
<1> QED
  BY <1>2, <1>3 DEF StillHasColumns

-----------------------------------------------------------------------------
(* ReadInv holds initially and is kept by every action.                    *)

LEMMA InitReadInv == Init => ReadInv
<1> SUFFICES ASSUME Init PROVE ReadInv
  OBVIOUS
<1> USE DEF Init
<1>1. TypeOK
  <2>1. NoChunk \in [from : Nat, size : 0..VectorSize, vectors : Seq(Vector)]
    BY ReadSizesAssumption DEF NoChunk
  <2>2. <<>> \in Seq(Names) /\ <<>> \in Seq(Details)
    OBVIOUS
  <2>3. replacements \in 0..MaxReplacements /\ totalRows \in Nat
        /\ currentRow \in 0..totalRows
    BY ReadSizesAssumption
  <2>4. {bound, queried, data} \subseteq Versions \cup {NoVersion}
    OBVIOUS
  <2> QED
    BY <2>1, <2>2, <2>3, <2>4 DEF TypeOK
<1>2. Progress /\ ProjectionBound /\ SteadySources /\ SteadyExact
  BY DEF Progress, ProjectionBound, SteadySources, SteadyExact
<1>3. PendingRows /\ LoadsInOrder /\ SteadyDetails
  BY DEF PendingRows, LoadsInOrder, StillHasColumns, SteadyDetails
<1>4. LoadsFirst
  BY DEF LoadsFirst, NoChunk
<1> QED
  BY <1>1, <1>2, <1>3, <1>4 DEF ReadInv

\* An exception, or undefined behaviour, changes nothing but the phase.
LEMMA StopReadInv == ReadInv /\ (Throw \/ RunWild) => ReadInv'
<1> SUFFICES ASSUME ReadInv, Throw \/ RunWild PROVE ReadInv'
  OBVIOUS
<1>0. /\ phase' \in {"failed", "wild"} /\ data' = NoVersion
      /\ UNCHANGED <<source, bound, projection, queried, loaded, currentRow, chunk>>
  BY DEF Throw, RunWild, Stop
<1> USE DEF ReadInv, source, loaded
<1>1. TypeOK'
  BY <1>0 DEF TypeOK
<1>2. Progress' /\ ProjectionBound' /\ SteadySources'
  BY <1>0 DEF Progress, ProjectionBound, SteadySources, Steady, RowsLeft
<1>3. PendingRows' /\ LoadsInOrder'
  BY <1>0 DEF PendingRows, QueryRows, LoadsInOrder, StillHasColumns
<1>4. SteadyDetails' /\ LoadsFirst' /\ SteadyExact'
  BY <1>0 DEF SteadyDetails, LoadsFirst, SteadyExact, Steady
<1> QED
  BY <1>1, <1>2, <1>3, <1>4

LEMMA ReplaceReadInv == ReadInv /\ Replace => ReadInv'
<1> SUFFICES ASSUME ReadInv, Replace PROVE ReadInv'
  OBVIOUS
<1> USE DEF ReadInv, Replace, loaded
<1>0. replacements' \in 1..MaxReplacements
  BY ReadSizesAssumption DEF TypeOK
<1>1. TypeOK'
  BY <1>0 DEF TypeOK
<1>2. ~Steady'
  BY <1>0 DEF Steady
<1>3. Progress' /\ ProjectionBound' /\ SteadySources'
  BY <1>2 DEF Progress, ProjectionBound, SteadySources, RowsLeft
<1>4. PendingRows' /\ LoadsInOrder'
  BY DEF PendingRows, QueryRows, LoadsInOrder, StillHasColumns
<1>5. SteadyDetails' /\ LoadsFirst' /\ SteadyExact'
  BY <1>2 DEF SteadyDetails, LoadsFirst, SteadyExact
<1> QED
  BY <1>1, <1>3, <1>4, <1>5

LEMMA BindReadInv == ReadInv /\ PbixBind => ReadInv'
<1> SUFFICES ASSUME ReadInv, PbixBind PROVE ReadInv'
  OBVIOUS
<1> USE DEF ReadInv, PbixBind, source, loaded
<1>1. file \in Versions /\ file # NoVersion
  BY VersionParts DEF TypeOK
<1>2. projection' \in Seq(Names)
  BY <1>1, VersionParts, ProjectionType
<1>3. TypeOK'
  BY <1>1, <1>2 DEF TypeOK
<1>4. Progress' /\ ProjectionBound' /\ SteadySources'
  BY <1>1 DEF Progress, ProjectionBound, SteadySources, Steady, RowsLeft
<1>5. queried' = NoVersion /\ details' = <<>> /\ chunk' = NoChunk
  BY DEF Progress, LoadsFirst
<1>6. /\ PendingRows' /\ LoadsInOrder' /\ SteadyDetails' /\ LoadsFirst'
      /\ SteadyExact'
  BY <1>5 DEF PendingRows, LoadsInOrder, StillHasColumns, SteadyDetails, LoadsFirst,
              SteadyExact
<1> QED
  BY <1>3, <1>4, <1>6

LEMMA InitInternalReadInv == ReadInv /\ PbixInitInternal => ReadInv'
<1> SUFFICES ASSUME ReadInv, PbixInitInternal PROVE ReadInv'
  OBVIOUS
<1> USE DEF ReadInv, PbixInitInternal, source
<1>1. /\ file \in Versions /\ file # NoVersion /\ bound \in Versions
      /\ details = <<>> /\ ~initialized /\ chunk = NoChunk
  BY VersionParts DEF TypeOK, Progress, LoadsFirst
<1>2. /\ projection \in Seq(Names) /\ Len(projection) \in Nat
      /\ DOMAIN projection = 1..Len(projection)
  BY DEF TypeOK
<1>3. TypeOK'
  <2>1. pending' \subseteq Nat \X Nat
    BY <1>1, <1>2, VersionParts DEF QueryRows
  <2> QED
    BY <1>1, <2>1 DEF TypeOK
<1>4. Progress' /\ ProjectionBound' /\ SteadySources'
  BY <1>1 DEF Progress, ProjectionBound, SteadySources, Steady, RowsLeft
<1>5. LoadsInOrder'
  <2> SUFFICES ASSUME Len(file.parts) = 1,
                      \A k \in 1..Len(projection) : Has(file, projection[k])
               PROVE  /\ Len(details) <= Len(projection)
                      /\ QueryRows(file)
                           = ((Len(details) + 1)..Len(projection)) \X {1}
    BY <1>1, <1>2 DEF LoadsInOrder, StillHasColumns
  <2>1. Len(details) = 0
    BY <1>1
  <2>2. QueryRows(file) = (1..Len(projection)) \X (1..1)
    BY DEF QueryRows
  <2> QED
    BY <1>2, <2>1, <2>2
<1>6. PendingRows'
  BY DEF PendingRows, QueryRows
<1>7. SteadyDetails' /\ LoadsFirst' /\ SteadyExact'
  BY <1>1 DEF SteadyDetails, LoadsFirst, SteadyExact, Steady
<1> QED
  BY <1>3, <1>4, <1>5, <1>6, <1>7

LEMMA StartCallReadInv == ReadInv /\ StartCall => ReadInv'
<1> SUFFICES ASSUME ReadInv, StartCall PROVE ReadInv'
  OBVIOUS
<1> USE DEF ReadInv, StartCall, source, loaded
<1>1. file \in Versions /\ file # NoVersion /\ initialized \in BOOLEAN
  BY VersionParts DEF TypeOK
<1>2. TypeOK' /\ Progress' /\ ProjectionBound' /\ SteadySources'
  BY <1>1 DEF TypeOK, Progress, ProjectionBound, SteadySources, Steady, RowsLeft
<1>3. PendingRows' /\ LoadsInOrder'
  BY DEF PendingRows, QueryRows, LoadsInOrder, StillHasColumns
<1>4. SteadyDetails' /\ LoadsFirst' /\ SteadyExact'
  BY DEF SteadyDetails, LoadsFirst, SteadyExact, Steady
<1> QED
  BY <1>2, <1>3, <1>4

\* Loading a column appends one detail, and the first one sets totalRows.
LEMMA AppendedDetail ==
    ASSUME ReadInv, NEW r \in (1..Len(projection)) \X Nat, NEW exact \in BOOLEAN,
           NEW n \in Nat, AppendDetail(r, exact, n)
    PROVE  /\ details' \in Seq(Details)
           /\ Len(details') = Len(details) + 1
           /\ \A k \in 1..Len(details) : details'[k] = details[k]
           /\ details'[Len(details) + 1]
                = [column |-> projection[r[1]], part |-> r[2], exact |-> exact,
                   rows |-> n]
           /\ totalRows' = details'[1].rows
           /\ totalRows' \in Nat
           /\ details' # <<>>
<1> DEFINE d == Detail(r, exact, n)
<1>1. d \in Details
  BY DEF ReadInv, TypeOK, Detail, Details
<1>2. details \in Seq(Details) /\ Len(details) \in Nat
  BY DEF ReadInv, TypeOK
<1>3. /\ details' \in Seq(Details) /\ Len(details') = Len(details) + 1
      /\ \A k \in 1..Len(details) : details'[k] = details[k]
      /\ details'[Len(details) + 1] = d
  BY <1>1, <1>2 DEF AppendDetail
<1>4. details' # <<>>
  BY <1>2, <1>3
<1>5. totalRows' = details'[1].rows
  <2>1. CASE details = <<>>
    BY <1>3, <2>1 DEF AppendDetail, Detail
  <2>2. CASE details # <<>>
    <3>1. 1 \in 1..Len(details)
      BY <1>2, <2>2
    <3> QED
      BY <1>3, <2>2, <3>1 DEF AppendDetail, ReadInv, LoadsFirst
  <2> QED
    BY <2>1, <2>2
<1>6. totalRows' \in Nat
  BY DEF AppendDetail, ReadInv, TypeOK
<1> QED
  BY <1>3, <1>4, <1>5, <1>6 DEF Detail

LEMMA LoadColumnReadInv == ReadInv /\ LoadColumn => ReadInv'
<1> SUFFICES ASSUME ReadInv, LoadColumn PROVE ReadInv'
  OBVIOUS
<1>1. PICK r \in pending, exact \in BOOLEAN, n \in Nat :
         /\ IsNext(r)
         /\ pending' = pending \ {r}
         /\ AppendDetail(r, exact, n)
         /\ Agree => exact = TRUE /\ n = DecodedRows(data, r[2])
  <2>1. PICK r \in pending :
           /\ IsNext(r)
           /\ pending' = pending \ {r}
           /\ \/ Agree /\ AppendDetail(r, TRUE, DecodedRows(data, r[2]))
              \/ ~Agree /\ \E n \in 0..MaxGarbage : AppendDetail(r, FALSE, n)
    BY DEF LoadColumn
  <2>2. CASE ~Agree
    <3>1. PICK n \in 0..MaxGarbage : AppendDetail(r, FALSE, n)
      BY <2>1, <2>2
    <3>2. n \in Nat
      BY ReadSizesAssumption
    <3> QED
      BY <2>1, <2>2, <3>1, <3>2
  <2>3. CASE Agree
    <3>1. data \in Versions /\ data = queried /\ queried # NoVersion
      BY <2>3 DEF LoadColumn, ReadInv, Progress, TypeOK, Agree
    <3>2. r \in QueryRows(queried)
      BY <2>1, <3>1 DEF ReadInv, PendingRows
    <3>3. r[2] \in 1..Len(data.parts)
      BY <3>1, <3>2 DEF QueryRows
    <3>4. DecodedRows(data, r[2]) \in Nat
      BY <3>1, <3>3, FirstSegment
    <3> QED
      BY <2>1, <2>3, <3>4
  <2> QED
    BY <2>2, <2>3
<1> USE DEF LoadColumn, source
<1>2. /\ projection \in Seq(Names) /\ Len(projection) \in Nat
      /\ queried # NoVersion /\ queried \in Versions
      /\ data \in Versions /\ data # NoVersion /\ bound # NoVersion
      /\ ~initialized /\ chunk = NoChunk /\ currentRow = 0
  BY DEF ReadInv, TypeOK, Progress, LoadsFirst
<1>3. r \in QueryRows(queried)
  BY <1>2 DEF ReadInv, PendingRows
<1>4. /\ r \in (1..Len(projection)) \X Nat /\ r[2] \in 1..Len(queried.parts)
      /\ r[1] \in 1..Len(projection)
  BY <1>2, <1>3, VersionParts DEF QueryRows
<1>5. /\ details' \in Seq(Details)
      /\ Len(details') = Len(details) + 1
      /\ \A k \in 1..Len(details) : details'[k] = details[k]
      /\ details'[Len(details) + 1]
           = [column |-> projection[r[1]], part |-> r[2], exact |-> exact,
              rows |-> n]
      /\ totalRows' = details'[1].rows
      /\ totalRows' \in Nat
      /\ details' # <<>>
  BY <1>1, <1>4, AppendedDetail
<1>6. Len(details) \in Nat /\ DOMAIN details = 1..Len(details)
      /\ DOMAIN details' = 1..(Len(details) + 1)
  BY <1>5 DEF ReadInv, TypeOK
<1>7. TypeOK'
  BY <1>1, <1>2, <1>5 DEF ReadInv, TypeOK
<1>8. Progress' /\ ProjectionBound' /\ SteadySources'
  BY <1>2 DEF ReadInv, Progress, ProjectionBound, SteadySources, Steady, RowsLeft
<1>9. PendingRows'
  BY <1>1 DEF ReadInv, PendingRows, QueryRows
<1>10. LoadsInOrder'
  <2> SUFFICES ASSUME StillHasColumns
               PROVE  /\ Len(details') <= Len(projection)
                      /\ pending' = ((Len(details') + 1)..Len(projection)) \X {1}
                      /\ \A k \in DOMAIN details' :
                            /\ details'[k].column = projection[k]
                            /\ details'[k].part = 1
    BY DEF LoadsInOrder, StillHasColumns
  <2>1. /\ pending = ((Len(details) + 1)..Len(projection)) \X {1}
        /\ \A k \in 1..Len(details) :
              details[k].column = projection[k] /\ details[k].part = 1
    BY <1>6 DEF ReadInv, LoadsInOrder
  <2>2. r[1] \in (Len(details) + 1)..Len(projection) /\ r = <<r[1], 1>>
    BY <2>1
  <2>3. <<Len(details) + 1, 1>> \in pending
    BY <1>2, <1>6, <2>1, <2>2
  <2>4. r[1] = Len(details) + 1
    BY <1>1, <1>2, <1>6, <2>2, <2>3 DEF IsNext
  <2>5. pending' = ((Len(details) + 2)..Len(projection)) \X {1}
    BY <1>1, <1>2, <1>6, <2>1, <2>2, <2>4
  <2>6. \A k \in DOMAIN details' :
           details'[k].column = projection[k] /\ details'[k].part = 1
    BY <1>5, <1>6, <2>1, <2>2, <2>4
  <2> QED
    BY <1>2, <1>5, <1>6, <2>2, <2>4, <2>5, <2>6
<1>11. SteadyDetails'
  <2> SUFFICES ASSUME Steady, NEW k \in 1..(Len(details) + 1)
               PROVE  /\ details'[k].exact
                      /\ details'[k].rows = DecodedRows(bound, 1)
    BY <1>6 DEF SteadyDetails, Steady
  <2>1. bound = file /\ queried = file /\ data = file
    BY <1>2 DEF ReadInv, SteadySources
  <2>2. CASE k \in 1..Len(details)
    BY <1>5, <1>6, <2>2 DEF ReadInv, SteadyDetails
  <2>3. CASE k = Len(details) + 1
    <3>1. Agree
      BY <2>1 DEF Agree
    <3>2. r[2] = 1
      <4>1. Len(bound.parts) = 1
        BY <1>2 DEF ReadInv, ProjectionBound, Binds
      <4>2. r[2] \in 1..1
        BY <1>4, <2>1, <4>1
      <4> QED
        BY <4>2
    <3>3. exact = TRUE /\ n = DecodedRows(data, r[2])
      BY <1>1, <3>1
    <3>4. details'[k].exact = TRUE /\ details'[k].rows = n
      BY <1>5, <2>3, <3>3
    <3> QED
      BY <2>1, <3>2, <3>3, <3>4
  <2> QED
    BY <1>6, <2>2, <2>3
<1>12. LoadsFirst' /\ SteadyExact'
  BY <1>2, <1>5 DEF ReadInv, LoadsFirst, SteadyExact
<1> QED
  BY <1>7, <1>8, <1>9, <1>10, <1>11, <1>12 DEF ReadInv

LEMMA ColumnsLoadedReadInv == ReadInv /\ ColumnsLoaded => ReadInv'
<1> SUFFICES ASSUME ReadInv, ColumnsLoaded PROVE ReadInv'
  OBVIOUS
<1> USE DEF ReadInv, ColumnsLoaded, source
<1>1. TypeOK' /\ Progress' /\ ProjectionBound' /\ SteadySources'
  BY DEF TypeOK, Progress, ProjectionBound, SteadySources, Steady, RowsLeft
<1>2. PendingRows' /\ LoadsInOrder'
  BY DEF PendingRows, QueryRows, LoadsInOrder, StillHasColumns
<1>3. SteadyDetails' /\ LoadsFirst' /\ SteadyExact'
  BY DEF SteadyDetails, LoadsFirst, SteadyExact, Steady
<1> QED
  BY <1>1, <1>2, <1>3

LEMMA EndOfRowsReadInv == ReadInv /\ EndOfRows => ReadInv'
<1> SUFFICES ASSUME ReadInv, EndOfRows PROVE ReadInv'
  OBVIOUS
<1> USE DEF ReadInv, EndOfRows, source, loaded
<1>1. TypeOK' /\ Progress' /\ ProjectionBound' /\ SteadySources'
  BY DEF TypeOK, Progress, ProjectionBound, SteadySources, Steady, RowsLeft
<1>2. PendingRows' /\ LoadsInOrder'
  BY DEF PendingRows, QueryRows, LoadsInOrder, StillHasColumns
<1>3. SteadyDetails' /\ LoadsFirst' /\ SteadyExact'
  BY DEF SteadyDetails, LoadsFirst, SteadyExact, Steady
<1> QED
  BY <1>1, <1>2, <1>3

\* In a steady file there is a detail for every place of the projection, and
\* all of them have totalRows rows.
LEMMA SteadyLoaded ==
    ASSUME ReadInv, Steady, initialized, bound # NoVersion, queried # NoVersion
    PROVE  /\ Len(details) = Len(projection) /\ Len(projection) \in Nat \ {0}
           /\ totalRows = DecodedRows(bound, 1)
           /\ \A k \in 1..Len(projection) :
                 /\ details[k].column = projection[k]
                 /\ details[k].part = 1
                 /\ details[k].exact
                 /\ details[k].rows = totalRows
<1> USE DEF ReadInv
<1>1. queried = bound
  BY DEF SteadySources
<1>2. StillHasColumns
  BY <1>1, BoundHasColumns
<1>3. Len(projection) \in Nat \ {0}
  <2>1. bound \in Versions
    BY DEF TypeOK
  <2> QED
    BY <2>1, VersionParts, ProjectionType DEF ProjectionBound
<1>4. details \in Seq(Details) /\ Len(details) \in Nat
      /\ DOMAIN details = 1..Len(details)
  BY DEF TypeOK
<1>5. Len(details) = Len(projection)
  <2>1. ((Len(details) + 1)..Len(projection)) \X {1} = {}
    BY <1>2 DEF LoadsInOrder, LoadsFirst
  <2>2. Len(details) <= Len(projection)
    BY <1>2 DEF LoadsInOrder
  <2>3. ~(Len(details) + 1 <= Len(projection))
    <3> SUFFICES ASSUME Len(details) + 1 <= Len(projection) PROVE FALSE
      OBVIOUS
    <3>1. <<Len(projection), 1>>
             \in ((Len(details) + 1)..Len(projection)) \X {1}
      BY <1>3, <1>4
    <3> QED
      BY <2>1, <3>1
  <2> QED
    BY <1>3, <1>4, <2>2, <2>3
<1>6. totalRows = DecodedRows(bound, 1)
  BY <1>3, <1>4, <1>5 DEF LoadsFirst, SteadyDetails
<1> QED
  BY <1>2, <1>3, <1>4, <1>5, <1>6 DEF LoadsInOrder, SteadyDetails

LEMMA EmitChunkReadInv == ReadInv /\ EmitChunk => ReadInv'
<1> SUFFICES ASSUME ReadInv, EmitChunk PROVE ReadInv'
  OBVIOUS
<1> USE DEF EmitChunk, source, loaded
<1>1. /\ totalRows \in Nat /\ currentRow \in 0..totalRows
      /\ VectorSize \in Nat \ {0} /\ currentRow < totalRows
      /\ bound # NoVersion /\ queried # NoVersion /\ initialized
  BY ReadSizesAssumption DEF ReadInv, TypeOK, Progress, RowsLeft
<1>2. /\ RowsToProcess \in 1..VectorSize
      /\ currentRow + RowsToProcess \in 0..totalRows
      /\ RowsToProcess <= totalRows - currentRow
  BY <1>1 DEF RowsToProcess
<1>3. Vectors(RowsToProcess) \in Seq(Vector)
  <2>1. /\ projection \in Seq(Names) /\ Len(projection) \in Nat
        /\ details \in Seq(Details)
    BY DEF ReadInv, TypeOK
  <2>2. ASSUME NEW k \in 1..Len(projection), k <= Len(details)
        PROVE  Filled(details[k], RowsToProcess) \in Vector
    <3>1. details[k] \in Details
      BY <2>1, <2>2
    <3>2. RowsCopied(details[k], RowsToProcess) \in Nat
      BY <1>1, <1>2, <3>1 DEF RowsCopied, Details
    <3> QED
      BY <3>1, <3>2 DEF Filled, Details, Vector
  <2>3. ASSUME NEW k \in 1..Len(projection)
        PROVE  [column |-> projection[k], part |-> 0, exact |-> FALSE,
                count |-> 0] \in Vector
    BY <2>1 DEF Vector
  <2>4. \A k \in 1..Len(projection) :
           (IF k <= Len(details) THEN Filled(details[k], RowsToProcess)
            ELSE [column |-> projection[k], part |-> 0, exact |-> FALSE,
                  count |-> 0]) \in Vector
    BY <2>2, <2>3
  <2>5. Vectors(RowsToProcess) \in [1..Len(projection) -> Vector]
    BY <2>4 DEF Vectors
  <2> QED
    BY <2>1, <2>5
<1>4. TypeOK'
  BY <1>2, <1>3 DEF ReadInv, TypeOK
<1>5. Progress' /\ ProjectionBound' /\ SteadySources'
  BY <1>1 DEF ReadInv, Progress, ProjectionBound, SteadySources, Steady, RowsLeft
<1>6. PendingRows' /\ LoadsInOrder'
  BY DEF ReadInv, PendingRows, QueryRows, LoadsInOrder, StillHasColumns
<1>7. SteadyDetails' /\ LoadsFirst'
  BY <1>1, <1>2 DEF ReadInv, SteadyDetails, LoadsFirst, Steady
<1>8. SteadyExact'
  <2> SUFFICES ASSUME Steady
               PROVE  /\ chunk'.size > 0
                      /\ chunk'.vectors =
                           [k \in 1..Len(projection) |->
                               [column |-> projection[k], part |-> 1,
                                exact |-> TRUE, count |-> chunk'.size]]
    BY DEF SteadyExact, Steady
  <2>1. ASSUME NEW k \in 1..Len(projection)
        PROVE  k <= Len(details) /\
               Filled(details[k], RowsToProcess)
                 = [column |-> projection[k], part |-> 1, exact |-> TRUE,
                    count |-> RowsToProcess]
    <3>1. /\ k <= Len(details) /\ details[k].column = projection[k]
          /\ details[k].part = 1 /\ details[k].exact
          /\ details[k].rows = totalRows
      BY <1>1, SteadyLoaded
    <3>2. details[k].exact = TRUE
      <4>1. details[k] \in Details
        BY <3>1 DEF ReadInv, TypeOK
      <4> QED
        BY <3>1, <4>1 DEF Details
    <3>3. RowsCopied(details[k], RowsToProcess) = RowsToProcess
      BY <1>1, <1>2, <3>1 DEF RowsCopied
    <3> QED
      BY <3>1, <3>2, <3>3 DEF Filled
  <2>2. Vectors(RowsToProcess)
          = [k \in 1..Len(projection) |->
               [column |-> projection[k], part |-> 1, exact |-> TRUE,
                count |-> RowsToProcess]]
    BY <2>1 DEF Vectors
  <2> QED
    BY <1>2, <2>2
<1> QED
  BY <1>4, <1>5, <1>6, <1>7, <1>8 DEF ReadInv

LEMMA UnchangedReadInv == ReadInv /\ UNCHANGED vars => ReadInv'
<1> SUFFICES ASSUME ReadInv, UNCHANGED vars PROVE ReadInv'
  OBVIOUS
<1> USE DEF ReadInv, vars, source, loaded
<1>1. TypeOK' /\ Progress' /\ ProjectionBound' /\ SteadySources'
  BY DEF TypeOK, Progress, ProjectionBound, SteadySources, Steady, RowsLeft
<1>2. PendingRows' /\ LoadsInOrder'
  BY DEF PendingRows, QueryRows, LoadsInOrder, StillHasColumns
<1>3. SteadyDetails' /\ LoadsFirst' /\ SteadyExact'
  BY DEF SteadyDetails, LoadsFirst, SteadyExact, Steady
<1> QED
  BY <1>1, <1>2, <1>3

LEMMA NextReadInv == ReadInv /\ [Next]_vars => ReadInv'
<1> SUFFICES ASSUME ReadInv, [Next]_vars PROVE ReadInv'
  OBVIOUS
<1>1. CASE Throw \/ RunWild
  BY <1>1, StopReadInv
<1>2. CASE PbixBind \/ PbixInitInternal \/ Replace
  BY <1>2, BindReadInv, InitInternalReadInv, ReplaceReadInv
<1>3. CASE StartCall \/ LoadColumn \/ ColumnsLoaded
  BY <1>3, StartCallReadInv, LoadColumnReadInv, ColumnsLoadedReadInv
<1>4. CASE EndOfRows \/ EmitChunk
  BY <1>4, EndOfRowsReadInv, EmitChunkReadInv
<1>5. CASE UNCHANGED vars
  BY <1>5, UnchangedReadInv
<1> QED
  BY <1>1, <1>2, <1>3, <1>4, <1>5
     DEF Next, Step, Over, BindFails, InitFails, CallFails, LoadFails,
         ConversionFails, ReadsPastColumn

-----------------------------------------------------------------------------
(* The properties.                                                         *)

\* The inductive invariant.
THEOREM ReadInvariant == Spec => []ReadInv
  BY InitReadInv, NextReadInv, PTL DEF Spec

\* Every variable has its type.
THEOREM ReadTypeCorrect == Spec => []TypeOK
<1>1. ReadInv => TypeOK
  BY DEF ReadInv
<1> QED
  BY <1>1, ReadInvariant, PTL

\* The chunks of a steady file hold the columns that were asked for.
THEOREM SteadyChunksExact == Spec => []SteadyExact
<1>1. ReadInv => SteadyExact
  BY DEF ReadInv
<1> QED
  BY <1>1, ReadInvariant, PTL

\* A query over a steady file ends with every row of the first segment.
THEOREM SteadyReadComplete == Spec => []SteadyComplete
<1>1. ReadInv => SteadyComplete
  <2> SUFFICES ASSUME ReadInv, Steady, phase = "ended"
               PROVE  currentRow = DecodedRows(bound, 1)
    BY DEF SteadyComplete
  <2>1. initialized /\ bound # NoVersion /\ queried # NoVersion /\ ~RowsLeft
    BY DEF ReadInv, Progress
  <2>2. totalRows = DecodedRows(bound, 1)
    BY <2>1, SteadyLoaded
  <2>3. currentRow = totalRows
    BY <2>1 DEF ReadInv, TypeOK, RowsLeft
  <2> QED
    BY <2>2, <2>3
<1> QED
  BY <1>1, ReadInvariant, PTL

\* Column k of the output is the k-th projected column whenever the metadata
\* the task reads still has the columns, replaced or not.
THEOREM ColumnsInPlace == Spec => []NoShift
<1>1. ReadInv => NoShift
  <2> SUFFICES ASSUME ReadInv, StillHasColumns
               PROVE  /\ \A k \in DOMAIN details : details[k].column = projection[k]
                      /\ initialized => Len(details) = Len(projection)
    BY DEF NoShift
  <2>1. /\ Len(details) \in Nat /\ Len(projection) \in Nat
        /\ Len(details) <= Len(projection)
        /\ pending = ((Len(details) + 1)..Len(projection)) \X {1}
    BY DEF ReadInv, TypeOK, LoadsInOrder
  <2>2. ASSUME initialized, Len(details) < Len(projection) PROVE FALSE
    <3>1. <<Len(projection), 1>> \in pending
      BY <2>1, <2>2
    <3> QED
      BY <2>2, <3>1 DEF ReadInv, LoadsFirst
  <2> QED
    BY <2>1, <2>2 DEF ReadInv, LoadsInOrder
<1> QED
  BY <1>1, ReadInvariant, PTL

\* No column of a steady file ends before the current row.
LEMMA SteadyColumnsReach ==
    ASSUME ReadInv, Steady, phase = "emit", NEW k \in DOMAIN details
    PROVE  ~(details[k].rows < currentRow)
<1>1. /\ initialized /\ bound # NoVersion /\ queried # NoVersion
      /\ currentRow \in 0..totalRows /\ totalRows \in Nat
      /\ DOMAIN details = 1..Len(details)
  BY DEF ReadInv, Progress, TypeOK
<1>2. details[k].rows = totalRows
  BY <1>1, SteadyLoaded
<1> QED
  BY <1>1, <1>2

\* A steady file that binds is refused only for the known reasons.
THEOREM RefusalsKnown == Spec => []KnownRefusals
<1>1. Init => KnownRefusals
  BY DEF Init, KnownRefusals
<1>2. ReadInv /\ KnownRefusals /\ [Next]_vars => KnownRefusals'
  <2> SUFFICES ASSUME ReadInv, KnownRefusals, [Next]_vars
               PROVE  KnownRefusals'
    OBVIOUS
  <2> DEFINE Known == \/ ~Binds(file) \/ file.sameName \/ file.format = "multi"
                      \/ ~file.decodable \/ ~file.convertible
  <2>1. CASE Steady /\ phase' \in {"failed", "wild"} /\ phase' # phase
    <3>1. file \in Versions /\ file.format \in {"single", "multi"}
      BY VersionsAssumption DEF ReadInv, TypeOK, VersionRecords
    <3>2. /\ bound \in {NoVersion, file} /\ queried \in {NoVersion, file}
          /\ data \in {NoVersion, file}
      BY <2>1 DEF ReadInv, SteadySources
    <3>3. CASE BindFails
      BY <2>1, <3>3 DEF BindFails, Throw, Stop, source, KnownRefusals
    <3>4. CASE InitFails
      <4>1. Known
        BY <3>2, <3>4 DEF InitFails, ReadInv, Progress, Prepares, Binds
      <4> QED
        BY <3>4, <4>1 DEF InitFails, Throw, Stop, source, KnownRefusals
    <3>5. CASE CallFails
      <4>1. Known
        BY <3>1, <3>5 DEF CallFails, Decodes, Binds
      <4> QED
        BY <3>5, <4>1 DEF CallFails, Throw, Stop, source, KnownRefusals
    <3>6. CASE LoadFails
      <4>1. bound = file /\ Agree
        BY <3>2, <3>6 DEF LoadFails, Agree, ReadInv, Progress
      <4>2. ~file.decodable /\ UNCHANGED source
        BY <3>6, <4>1 DEF LoadFails, Throw, RunWild, Stop
      <4> QED
        BY <4>2 DEF source, KnownRefusals
    <3>7. CASE ConversionFails
      <4>1. ~file.convertible
        BY <2>1, <3>2, <3>7 DEF ConversionFails, ReadInv, Progress, SteadyDetails
      <4> QED
        BY <3>7, <4>1 DEF ConversionFails, Throw, Stop, source, KnownRefusals
    <3>8. ~ReadsPastColumn
      BY <2>1, SteadyColumnsReach DEF ReadsPastColumn
    <3> QED
      BY <2>1, <3>3, <3>4, <3>5, <3>6, <3>7, <3>8
         DEF Next, Step, Over, PbixBind, PbixInitInternal, StartCall, LoadColumn,
             ColumnsLoaded, EndOfRows, EmitChunk, Replace, vars
  <2>2. CASE Replace
    <3>1. replacements' # 0
      BY <2>2 DEF Replace, ReadInv, TypeOK
    <3> QED
      BY <3>1 DEF KnownRefusals, Steady
  <2>3. CASE ~Replace /\ ~(Steady /\ phase' \in {"failed", "wild"} /\ phase' # phase)
    <3>1. UNCHANGED source
      BY <2>3 DEF Next, Step, Over, Throw, RunWild, Stop, PbixBind, BindFails,
                  PbixInitInternal, InitFails, StartCall, CallFails, LoadColumn,
                  LoadFails, ColumnsLoaded, EndOfRows, EmitChunk, ConversionFails,
                  ReadsPastColumn, vars
    <3> QED
      BY <2>3, <3>1 DEF KnownRefusals, Steady, source
  <2> QED
    BY <2>1, <2>2, <2>3
<1> QED
  BY <1>1, <1>2, ReadInvariant, PTL DEF Spec

\* The rows of one query come from one load, in chunks without gaps.
THEOREM LoadedOnce == Spec => OneLoad
<1> DEFINE A == /\ chunk # NoChunk => UNCHANGED <<details, totalRows>>
                /\ chunk' # chunk => chunk'.from = chunk.from + chunk.size
<1>1. ReadInv /\ [Next]_vars => [A]_vars
  <2> SUFFICES ASSUME ReadInv, Next PROVE A
    BY DEF vars
  <2>1. CASE EmitChunk
    BY <2>1 DEF EmitChunk, ReadInv, LoadsFirst, loaded
  <2>2. CASE LoadColumn
    BY <2>2 DEF LoadColumn, ReadInv, Progress, LoadsFirst
  <2>3. CASE UNCHANGED <<details, totalRows, chunk>>
    BY <2>3
  <2> QED
    BY <2>1, <2>2, <2>3
       DEF Next, Step, Over, Throw, RunWild, Stop, PbixBind, BindFails,
           PbixInitInternal, InitFails, StartCall, CallFails, LoadFails,
           ColumnsLoaded, EndOfRows, ConversionFails, ReadsPastColumn, Replace,
           loaded, vars
<1> QED
  BY <1>1, ReadInvariant, PTL DEF Spec, OneLoad
=============================================================================
