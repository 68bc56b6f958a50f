----------------------------- MODULE Vpax_proofs -----------------------------
(***************************************************************************)
(* pbix2vpax for any number of workers, any chunks and any files.          *)
(***************************************************************************)
EXTENDS Vpax, DataTheorems

-----------------------------------------------------------------------------
(* The two sequences of steps.                                             *)

LEMMA Lengths ==
    Len(Queries) = 7 /\ Len(Sections) = 8
BY DEF Queries, Sections

\* Which query comes when.
LEMMA QueryAt ==
    /\ \A k \in 1 .. Len(Queries) : Queries[k] \in ToSet(Queries)
    /\ \A k \in 1 .. Len(Queries) : (Queries[k] = "dictionary_sizes") <=> (k = 2)
    /\ \A k \in 1 .. Len(Queries) : (Queries[k] = "table_files") <=> (k = 1)
BY DEF Queries, ToSet

LEMMA SectionAt ==
    \A k \in 1 .. Len(Sections) : Sections[k] \in ToSet(Sections)
BY DEF Sections, ToSet

-----------------------------------------------------------------------------
(* Types.                                                                  *)

TypeInv ==
    /\ TypeOK
    /\ \A w \in Workers : pc[w] \in {"times", "format"} => step[w] <= Len(Sections)

LEMMA InitTypeInv == Init => TypeInv
<1> SUFFICES ASSUME Init PROVE TypeInv
  OBVIOUS
<1>1. \A w \in Workers : Len(batch[w]) \in Nat
  BY BatchesAssumption DEF Init
<1> QED
  BY <1>1, Lengths DEF Init, TypeInv, TypeOK, NothingFetched, EmptyVpaxValue

LEMMA StepNumber == TypeInv => \A w \in Workers : step[w] \in 1 .. 9
<1>1. Len(Sections) + 1 = 9
  BY Lengths
<1> QED
  BY <1>1 DEF TypeInv, TypeOK

\* The handler of Execute.
LEMMA HandleTypes ==
    ASSUME TypeInv, NEW w \in Workers, Handle(w)
    PROVE  /\ pc' = [pc EXCEPT ![w] = IF ignoreErrors THEN "next" ELSE "error"]
           /\ DOMAIN result' = Workers
BY DEF Handle, Goto, EmptyRow, TypeInv, TypeOK

\* The next query or section.
LEMMA StepTypes ==
    ASSUME TypeInv, NEW w \in Workers, step[w] <= Len(Sections),
           step' = [step EXCEPT ![w] = step[w] + 1]
    PROVE  /\ step' \in [Workers -> 1 .. Len(Sections) + 1]
           /\ \A v \in Workers : v # w => step'[v] = step[v]
<1>1. Len(Sections) + 1 = 9
  BY Lengths
<1>2. step \in [Workers -> 1 .. 9] /\ step[w] <= 8
  BY <1>1, Lengths DEF TypeInv, TypeOK
<1>3. step[w] + 1 \in 1 .. 9
  BY <1>2
<1>4. step' \in [Workers -> 1 .. 9] /\ \A v \in Workers : v # w => step'[v] = step[v]
  BY <1>2, <1>3
<1> QED
  BY <1>1, <1>4

\* What every step of a worker does to the variables that have a type.
LEMMA StepTypeInv ==
    ASSUME TypeInv, NEW w \in Workers, WorkerStep(w)
    PROVE  TypeInv'
<1> USE DEF TypeInv, TypeOK
<1>1. batch \in [Workers -> Seq(DOMAIN Contents)] /\ Len(batch[w]) \in Nat
  BY BatchesAssumption
<1>2. CASE NextFile(w)
  <2>1. CASE EndOfChunk(w)
    BY <1>2, <2>1 DEF NextFile, Goto, chunkVars, handleVars
  <2>2. CASE ~EndOfChunk(w)
    <3>1. /\ row' = [row EXCEPT ![w] = row[w] + 1]
          /\ data' = [data EXCEPT ![w] = NothingFetched]
          /\ value' = [value EXCEPT ![w] = EmptyVpaxValue]
          /\ pc' = [pc EXCEPT ![w] = "parse"]
          /\ UNCHANGED <<chunkVars, step, remaining, current, shared, result, handleVars>>
      BY <1>2, <2>2 DEF NextFile, FreshData, Goto
    <3>2. row' \in [Workers -> Nat] /\ \A v \in Workers : row'[v] <= Len(batch[v])
      BY <1>1, <2>2, <3>1 DEF EndOfChunk
    <3>3. DOMAIN NothingFetched = ToSet(Queries) /\ DOMAIN EmptyVpaxValue = ToSet(Sections)
      BY DEF NothingFetched, EmptyVpaxValue
    <3> QED
      BY <3>1, <3>2, <3>3 DEF chunkVars, handleVars
  <2> QED
    BY <2>1, <2>2
<1>3. CASE ParseFile(w)
  BY <1>3, HandleTypes DEF ParseFile, Goto, chunkVars, buildVars, handleVars
<1>4. CASE OpenFromBuffer(w)
  BY <1>4, Lengths DEF OpenFromBuffer, Goto, GotoStep, chunkVars, buildVars
<1>5. CASE OpenRefused(w)
  BY <1>5, HandleTypes DEF OpenRefused, chunkVars, buildVars, handleVars
<1>6. CASE DeserializeFails(w)
  <2>1. /\ connections' = [connections EXCEPT ![w] = @ - 1]
        /\ UNCHANGED <<batch, ignoreErrors, row, step, data, value, remaining, current, shared, held, leaked>>
    BY <1>6 DEF DeserializeFails, chunkVars, buildVars
  <2>2. /\ DOMAIN result' = Workers
        /\ \E where \in {"next", "error", "wild"} : pc' = [pc EXCEPT ![w] = where]
    BY <1>6, HandleTypes DEF DeserializeFails, Goto
  <2> QED
    BY <2>1, <2>2
<1>7. CASE Prefetch(w)
  <2>1. leaked' \in [Workers -> Nat] /\ held' \in [Workers -> BOOLEAN]
    BY <1>7 DEF Prefetch, Prepare, LostBy
  <2>2. DOMAIN data' = Workers /\ \A v \in Workers : DOMAIN data'[v] = DOMAIN data[v]
    BY <1>7 DEF Prefetch
  <2>3. /\ pc' = [pc EXCEPT ![w] = "prefetch"]
        /\ step' = [step EXCEPT ![w] = step[w] + 1]
        /\ step[w] <= Len(Sections)
        /\ UNCHANGED <<batch, ignoreErrors, row, value, remaining, current, shared, result, connections>>
    <3>1. step[w] <= Len(Queries)
      BY <1>7 DEF Prefetch
    <3>2. step[w] <= Len(Sections)
      <4> step[w] \in 1 .. 9
        BY StepNumber
      <4> QED
        BY <3>1, Lengths
    <3> QED
      BY <1>7, <3>2 DEF Prefetch, GotoStep, Goto, chunkVars
  <2>4. /\ step' \in [Workers -> 1 .. Len(Sections) + 1]
        /\ \A v \in Workers : v # w => step'[v] = step[v]
    BY <2>3, StepTypes
  <2> QED
    BY <2>1, <2>2, <2>3, <2>4
<1>8. CASE PrefetchThrows(w)
  <2>1. leaked' \in [Workers -> Nat] /\ held' \in [Workers -> BOOLEAN]
    BY <1>8 DEF PrefetchThrows, Prepare, LostBy
  <2>2. /\ connections' = [connections EXCEPT ![w] = @ - 1]
        /\ UNCHANGED <<batch, ignoreErrors, row, step, data, value, remaining, current, shared>>
    BY <1>8 DEF PrefetchThrows, Close, chunkVars, buildVars
  <2>3. /\ pc' = [pc EXCEPT ![w] = IF ignoreErrors THEN "next" ELSE "error"]
        /\ DOMAIN result' = Workers
    BY <1>8, HandleTypes DEF PrefetchThrows
  <2> QED
    BY <2>1, <2>2, <2>3
<1>9. CASE PrefetchEnds(w)
  BY <1>9, Lengths DEF PrefetchEnds, GotoStep, Goto, chunkVars, buildVars
<1>10. CASE Build(w)
  <2>1. CASE Section(w) = "Partitions"
    <3>1. /\ DOMAIN remaining' = Workers
          /\ pc' = [pc EXCEPT ![w] = "times"]
          /\ step[w] <= Len(Sections)
          /\ UNCHANGED <<batch, ignoreErrors, row, step, data, value, current, shared, result, connections, held, leaked>>
      BY <1>10, <2>1 DEF Build, Goto, chunkVars, handleVars
    <3> QED
      BY <3>1
  <2>2. CASE Section(w) # "Partitions"
    <3>1. DOMAIN value' = Workers /\ \A v \in Workers : DOMAIN value'[v] = DOMAIN value[v]
      BY <1>10, <2>2 DEF Build
    <3>2. /\ pc' = [pc EXCEPT ![w] = "build"]
          /\ step' = [step EXCEPT ![w] = step[w] + 1]
          /\ step[w] <= Len(Sections)
          /\ UNCHANGED <<batch, ignoreErrors, row, data, remaining, current, shared, result, connections, held, leaked>>
      BY <1>10, <2>2 DEF Build, GotoStep, Goto, chunkVars, handleVars
    <3>3. /\ step' \in [Workers -> 1 .. Len(Sections) + 1]
          /\ \A v \in Workers : v # w => step'[v] = step[v]
      BY <3>2, StepTypes
    <3> QED
      BY <3>1, <3>2, <3>3
  <2> QED
    BY <2>1, <2>2
<1>11. CASE BuildThrows(w)
  <2>1. /\ connections' = [connections EXCEPT ![w] = @ - 1]
        /\ UNCHANGED <<batch, ignoreErrors, row, step, data, value, remaining, current, shared, held, leaked>>
    BY <1>11 DEF BuildThrows, Close, chunkVars, buildVars
  <2>2. /\ pc' = [pc EXCEPT ![w] = IF ignoreErrors THEN "next" ELSE "error"]
        /\ DOMAIN result' = Workers
    BY <1>11, HandleTypes DEF BuildThrows
  <2> QED
    BY <2>1, <2>2
<1>12. CASE StartTime(w)
  <2>1. DOMAIN value' = Workers /\ \A v \in Workers : DOMAIN value'[v] = DOMAIN value[v]
    BY <1>12 DEF StartTime, Listed
  <2>2. /\ pc[w] = "times"
        /\ pc' = pc \/ pc' = [pc EXCEPT ![w] = "format"]
        /\ DOMAIN remaining' = Workers /\ DOMAIN current' = Workers /\ DOMAIN shared' = Workers
        /\ UNCHANGED <<batch, ignoreErrors, row, step, data, result, connections, held, leaked>>
    BY <1>12 DEF StartTime, Goto, chunkVars, handleVars
  <2> QED
    BY <2>1, <2>2
<1>13. CASE FinishTime(w)
  <2>1. DOMAIN value' = Workers /\ \A v \in Workers : DOMAIN value'[v] = DOMAIN value[v]
    BY <1>13 DEF FinishTime, Listed
  <2>2. /\ pc[w] = "format"
        /\ pc' = [pc EXCEPT ![w] = "times"]
        /\ UNCHANGED <<batch, ignoreErrors, row, step, data, remaining, current, shared, result, connections, held, leaked>>
    BY <1>13 DEF FinishTime, Formatting, Goto, chunkVars, handleVars
  <2> QED
    BY <2>1, <2>2
<1>14. CASE EndTimes(w)
  <2>1. /\ pc[w] = "times"
        /\ pc' = [pc EXCEPT ![w] = "build"]
        /\ step' = [step EXCEPT ![w] = step[w] + 1]
        /\ UNCHANGED <<batch, ignoreErrors, row, data, value, remaining, current, shared, result, connections, held, leaked>>
    BY <1>14 DEF EndTimes, GotoStep, Goto, chunkVars, buildVars, handleVars
  <2>2. /\ step' \in [Workers -> 1 .. Len(Sections) + 1]
        /\ \A v \in Workers : v # w => step'[v] = step[v]
    BY <2>1, StepTypes
  <2> QED
    BY <2>1, <2>2
<1>15. CASE Deliver(w)
  BY <1>15 DEF Deliver, Goto, Close, chunkVars, buildVars
<1> QED
  BY <1>2, <1>3, <1>4, <1>5, <1>6, <1>7, <1>8, <1>9, <1>10, <1>11, <1>12, <1>13, <1>14, <1>15
     DEF WorkerStep

LEMMA NextTypeInv == TypeInv /\ [Next]_vars => TypeInv'
<1>1. TypeInv /\ UNCHANGED vars => TypeInv'
  BY DEF TypeInv, TypeOK, vars, chunkVars, buildVars, handleVars
<1> QED
  BY <1>1, StepTypeInv DEF Next, Finished

LEMMA TypeInvariant == Spec => []TypeInv
BY InitTypeInv, NextTypeInv, PTL DEF Spec

\* A worker stays within its chunk, its queries and its sections, whatever
\* fails on the way.
THEOREM VpaxTypeCorrect == Spec => []TypeOK
<1>1. TypeInv => TypeOK
  BY DEF TypeInv
<1> QED
  BY <1>1, TypeInvariant, PTL

-----------------------------------------------------------------------------
(* Handles.                                                                *)

\* One more file, one more count.
LEMMA CountStep ==
    ASSUME NEW w, NEW k \in Nat
    PROVE  /\ Cardinality(Losses(w, k)) \in Nat
           /\ Cardinality(DoubleCloses(w, k)) \in Nat
           /\ Cardinality(Losses(w, k + 1))
                = Cardinality(Losses(w, k))
                  + (IF LosesStatement(FileAt(w, k + 1)) THEN 1 ELSE 0)
           /\ Cardinality(DoubleCloses(w, k + 1))
                = Cardinality(DoubleCloses(w, k))
                  + (IF ClosedTwice(FileAt(w, k + 1)) THEN 1 ELSE 0)
<1>1. IsFiniteSet(1 .. k)
  BY FS_Interval
<1>2. Losses(w, k) \in SUBSET (1 .. k) /\ DoubleCloses(w, k) \in SUBSET (1 .. k)
  BY DEF Losses, DoubleCloses
<1>3. IsFiniteSet(Losses(w, k)) /\ IsFiniteSet(DoubleCloses(w, k))
  BY <1>1, <1>2, FS_Subset
<1>4. k + 1 \notin Losses(w, k) /\ k + 1 \notin DoubleCloses(w, k)
  BY <1>2
<1>5. 1 .. k + 1 = (1 .. k) \cup {k + 1}
  OBVIOUS
<1>6. Losses(w, k + 1) =
        IF LosesStatement(FileAt(w, k + 1)) THEN Losses(w, k) \cup {k + 1} ELSE Losses(w, k)
  BY <1>5 DEF Losses
<1>7. DoubleCloses(w, k + 1) =
        IF ClosedTwice(FileAt(w, k + 1)) THEN DoubleCloses(w, k) \cup {k + 1}
        ELSE DoubleCloses(w, k)
  BY <1>5 DEF DoubleCloses
<1>8. Cardinality(Losses(w, k) \cup {k + 1}) = Cardinality(Losses(w, k)) + 1
  BY <1>3, <1>4, FS_AddElement
<1>9. Cardinality(DoubleCloses(w, k) \cup {k + 1}) = Cardinality(DoubleCloses(w, k)) + 1
  BY <1>3, <1>4, FS_AddElement
<1>10. Cardinality(Losses(w, k)) \in Nat /\ Cardinality(DoubleCloses(w, k)) \in Nat
  BY <1>3, FS_CardinalityType
<1>11. CASE LosesStatement(FileAt(w, k + 1))
  BY <1>6, <1>7, <1>8, <1>9, <1>10, <1>11
<1>12. CASE ~LosesStatement(FileAt(w, k + 1))
  BY <1>6, <1>7, <1>8, <1>9, <1>10, <1>12
<1> QED
  BY <1>11, <1>12

\* The invariant of one worker.
WorkerInv(w) == Progress(w) /\ (pc[w] # "wild" => HandlesOf(w))

LEMMA HandleInvTypes == HandleInv => TypeInv
BY DEF HandleInv, TypeInv, Progress

\* A worker that does not move keeps its invariant.
LEMMA Elsewhere ==
    ASSUME NEW v \in Workers, WorkerInv(v), batch' = batch,
           pc'[v] = pc[v], row'[v] = row[v], step'[v] = step[v],
           held'[v] = held[v], leaked'[v] = leaked[v], connections'[v] = connections[v]
    PROVE  WorkerInv(v)'
BY DEF WorkerInv, Progress, HandlesOf, Losses, DoubleCloses, Settled, LosesNow, AtRest,
       Querying, Building, File, FileAt

\* A file that leaves the loop, by its value or by an exception, is settled.
LEMMA FileSettles ==
    ASSUME TypeInv, NEW w \in Workers, batch' = batch, row'[w] = row[w], row[w] > 0,
           ~AtRest(w), AtRest(w)'
    PROVE  /\ Cardinality(Losses(w, Settled(w)))' =
                 Cardinality(Losses(w, Settled(w)))
                 + (IF LosesStatement(File(w)) THEN 1 ELSE 0)
           /\ Cardinality(DoubleCloses(w, Settled(w)))' =
                 Cardinality(DoubleCloses(w, Settled(w)))
                 + (IF ClosedTwice(File(w)) THEN 1 ELSE 0)
           /\ Cardinality(Losses(w, Settled(w))) \in Nat
           /\ Cardinality(DoubleCloses(w, Settled(w))) \in Nat
<1>1. row[w] \in Nat
  BY DEF TypeInv, TypeOK
<1>2. Settled(w) = row[w] - 1 /\ Settled(w)' = row[w]
  BY DEF Settled
<1>3. Settled(w) \in Nat /\ row[w] = Settled(w) + 1
  BY <1>1, <1>2
<1>4. /\ Losses(w, Settled(w))' = Losses(w, Settled(w) + 1)
      /\ DoubleCloses(w, Settled(w))' = DoubleCloses(w, Settled(w) + 1)
  BY <1>2, <1>3 DEF Losses, DoubleCloses, FileAt
<1>5. File(w) = FileAt(w, Settled(w) + 1)
  BY <1>3 DEF File
<1> HIDE DEF TypeInv
<1> QED
  BY <1>3, <1>4, <1>5, CountStep

\* While the file is worked on, nothing is settled.
LEMMA CountsStay ==
    ASSUME NEW w \in Workers, batch' = batch, Settled(w)' = Settled(w)
    PROVE  /\ Cardinality(Losses(w, Settled(w)))' = Cardinality(Losses(w, Settled(w)))
           /\ Cardinality(DoubleCloses(w, Settled(w)))' =
                 Cardinality(DoubleCloses(w, Settled(w)))
BY DEF Losses, DoubleCloses, FileAt

\* A file that throws: what it lost and closed is counted with it.
LEMMA ThrowSettles ==
    ASSUME TypeInv, NEW w \in Workers, batch' = batch, row' = row, row[w] > 0,
           pc[w] \in {"parse", "open", "prefetch", "build"}, Handle(w)
    PROVE  /\ AtRest(w)'
           /\ Cardinality(Losses(w, Settled(w)))' =
                 Cardinality(Losses(w, Settled(w)))
                 + (IF LosesStatement(File(w)) THEN 1 ELSE 0)
           /\ Cardinality(DoubleCloses(w, Settled(w)))' =
                 Cardinality(DoubleCloses(w, Settled(w)))
                 + (IF ClosedTwice(File(w)) THEN 1 ELSE 0)
           /\ Cardinality(Losses(w, Settled(w))) \in Nat
           /\ Cardinality(DoubleCloses(w, Settled(w))) \in Nat
<1>1. AtRest(w)' /\ ~AtRest(w)
  BY HandleTypes DEF AtRest, TypeInv, TypeOK
<1> QED
  BY <1>1, FileSettles

\* Between two files everything is settled.
LEMMA RestsInv ==
    ASSUME NEW w \in Workers, AtRest(w)', held'[w] = FALSE,
           leaked'[w] = Cardinality(Losses(w, Settled(w)))', leaked'[w] \in Int,
           connections'[w] = -Cardinality(DoubleCloses(w, Settled(w)))',
           Cardinality(DoubleCloses(w, Settled(w)))' \in Int
    PROVE  WorkerInv(w)'
<1>1. pc'[w] \in {"next", "done", "error"}
  BY DEF AtRest
<1>2. LosesNow(w)' = 0 /\ ~Querying(w)' /\ ~Building(w)'
  BY <1>1 DEF LosesNow, Querying, Building
<1>3. HandlesOf(w)'
  <2>1. /\ leaked'[w] = Cardinality(Losses(w, Settled(w)))' + 0
        /\ connections'[w] = 0 - Cardinality(DoubleCloses(w, Settled(w)))'
    <3> DEFINE lost == Cardinality(Losses(w, Settled(w)))'
               twice == Cardinality(DoubleCloses(w, Settled(w)))'
    <3>1. leaked'[w] = lost /\ connections'[w] = -twice /\ lost \in Int /\ twice \in Int
      OBVIOUS
    <3> HIDE DEF lost, twice
    <3>2. leaked'[w] = lost + 0 /\ connections'[w] = 0 - twice
      BY <3>1
    <3> QED
      BY <3>2 DEF lost, twice
  <2>2. held'[w] <=> (Querying(w)' /\ step'[w] > 1)
    BY <1>2
  <2> QED
    BY <1>2, <2>1, <2>2 DEF HandlesOf
<1>4. Progress(w)'
  BY <1>1, <1>2 DEF Progress, AtRest
<1> QED
  BY <1>3, <1>4 DEF WorkerInv

LEMMA StepHandleInv ==
    ASSUME HandleInv, NEW w \in Workers, WorkerStep(w)
    PROVE  WorkerInv(w)'
<1> DEFINE lost == Cardinality(Losses(w, Settled(w)))
           twice == Cardinality(DoubleCloses(w, Settled(w)))
<1>1. /\ TypeInv /\ TypeInv'
      /\ row[w] \in Nat /\ step[w] \in 1 .. 9 /\ leaked[w] \in Nat /\ connections[w] \in Int
      /\ held[w] \in BOOLEAN
  BY HandleInvTypes, StepTypeInv, StepNumber DEF TypeInv, TypeOK
<1>2. Progress(w) /\ (pc[w] # "wild" => HandlesOf(w))
  BY DEF HandleInv
<1>3. CASE NextFile(w)
  <2>1. pc[w] = "next" /\ UNCHANGED <<batch, step, connections, held, leaked>>
    BY <1>3 DEF NextFile, chunkVars, handleVars
  <2>2. \/ pc'[w] = "done" /\ row'[w] = row[w]
        \/ pc'[w] = "parse" /\ row'[w] = row[w] + 1
    <3>1. CASE EndOfChunk(w)
      BY <1>1, <1>3, <3>1 DEF NextFile, Goto, TypeInv, TypeOK
    <3>2. CASE ~EndOfChunk(w)
      BY <1>1, <1>3, <3>2 DEF NextFile, Goto, TypeInv, TypeOK
    <3> QED
      BY <3>1, <3>2
  <2>3. Settled(w)' = Settled(w)
    BY <1>1, <2>1, <2>2 DEF Settled, AtRest
  <2>4. lost' = lost /\ twice' = twice
    BY <2>1, <2>3, CountsStay
  <2> QED
    BY <1>1, <1>2, <2>1, <2>2, <2>4
       DEF WorkerInv, Progress, HandlesOf, AtRest, Querying, Building, LosesNow
<1>4. CASE ParseFile(w)
  <2>1. pc[w] = "parse" /\ UNCHANGED <<batch, row, step, connections, held, leaked>>
    BY <1>4 DEF ParseFile, chunkVars, handleVars
  <2>2. row[w] > 0
    BY <1>2, <2>1 DEF Progress, AtRest
  <2>3. CASE File(w).parses
    <3>1. pc'[w] = "open"
      BY <1>1, <1>4, <2>3 DEF ParseFile, Goto, TypeInv, TypeOK
    <3>2. lost' = lost /\ twice' = twice
      BY <2>1, <3>1, CountsStay DEF Settled, AtRest
    <3>3. File(w)' = File(w)
      BY <2>1 DEF File, FileAt
    <3> QED
      BY <1>1, <1>2, <2>1, <2>2, <2>3, <3>1, <3>2, <3>3
         DEF WorkerInv, Progress, HandlesOf, AtRest, Querying, Building, LosesNow
  <2>4. CASE ~File(w).parses
    <3>1. Handle(w)
      BY <1>4, <2>4 DEF ParseFile
    <3>2. pc'[w] \in {"next", "error"}
      BY <1>1, <3>1, HandleTypes DEF TypeInv, TypeOK
    <3>3. lost' = lost /\ twice' = twice
      BY <1>1, <2>1, <2>2, <2>4, <3>1, ThrowSettles DEF LosesStatement, ClosedTwice
    <3> QED
      BY <1>1, <1>2, <2>1, <3>2, <3>3
         DEF WorkerInv, Progress, HandlesOf, AtRest, Querying, Building, LosesNow
  <2> QED
    BY <2>3, <2>4
<1>5. CASE OpenFromBuffer(w)
  <2>1. /\ pc[w] = "open" /\ pc'[w] = "prefetch" /\ step'[w] = 1
        /\ File(w).opens = "ok"
        /\ connections'[w] = connections[w] + 1
        /\ UNCHANGED <<batch, row, held, leaked>>
    BY <1>1, <1>5 DEF OpenFromBuffer, GotoStep, Goto, chunkVars, TypeInv, TypeOK
  <2>2. lost' = lost /\ twice' = twice
    BY <2>1, CountsStay DEF Settled, AtRest
  <2>3. File(w)' = File(w)
    BY <2>1 DEF File, FileAt
  <2>4. twice \in Nat /\ lost \in Nat
    <3>1. Settled(w) \in Nat
      BY <1>1, <1>2, <2>1 DEF Settled, AtRest, Progress
    <3> QED
      BY <3>1, CountStep
  <2> QED
    BY <1>1, <1>2, <2>1, <2>2, <2>3, <2>4, Lengths
       DEF WorkerInv, Progress, HandlesOf, AtRest, Querying, Building, LosesNow
<1>6. CASE OpenRefused(w)
  <2>1. /\ pc[w] = "open" /\ File(w).opens = "refused" /\ Handle(w)
        /\ UNCHANGED <<batch, row, step, connections, held, leaked>>
    BY <1>6 DEF OpenRefused, chunkVars, handleVars
  <2>2. row[w] > 0
    BY <1>2, <2>1 DEF Progress, AtRest
  <2>3. pc'[w] \in {"next", "error"}
    BY <1>1, <2>1, HandleTypes DEF TypeInv, TypeOK
  <2>4. lost' = lost /\ twice' = twice
    BY <1>1, <2>1, <2>2, ThrowSettles DEF LosesStatement, ClosedTwice
  <2> QED
    BY <1>1, <1>2, <2>1, <2>3, <2>4
       DEF WorkerInv, Progress, HandlesOf, AtRest, Querying, Building, LosesNow
<1>7. CASE DeserializeFails(w)
  <2>1. /\ pc[w] = "open" /\ File(w).opens = "undeserializable"
        /\ connections'[w] = connections[w] - 1
        /\ UNCHANGED <<batch, row, step, held, leaked>>
    BY <1>1, <1>7 DEF DeserializeFails, chunkVars, TypeInv, TypeOK
  <2>2. row[w] > 0 /\ File(w).parses
    BY <1>2, <2>1 DEF Progress, AtRest
  <2>3. CASE Handle(w)
    <3>1. pc'[w] \in {"next", "error"}
      BY <1>1, <2>3, HandleTypes DEF TypeInv, TypeOK
    <3>2. lost' = lost /\ twice' = twice + 1 /\ twice \in Nat /\ lost \in Nat
      BY <1>1, <2>1, <2>2, <2>3, ThrowSettles DEF LosesStatement, ClosedTwice
    <3>3. held[w] = FALSE /\ leaked[w] = lost + 0 /\ connections[w] = 0 - twice
      BY <1>2, <2>1 DEF HandlesOf, Querying, Building, LosesNow
    <3> HIDE DEF lost, twice
    <3>4. leaked'[w] = lost' /\ connections'[w] = -twice' /\ twice' \in Int /\ lost' \in Int
      BY <2>1, <3>2, <3>3
    <3> QED
      BY <1>1, <2>1, <3>1, <3>3, <3>4, RestsInv DEF AtRest, lost, twice
  <2>4. CASE pc'[w] = "wild"
    BY <1>2, <2>1, <2>2, <2>4 DEF WorkerInv, Progress, AtRest, Querying, Building
  <2> QED
    BY <1>1, <1>7, <2>3, <2>4 DEF DeserializeFails, Goto, TypeInv, TypeOK
<1>8. CASE Prefetch(w)
  <2>1. /\ pc[w] = "prefetch" /\ step[w] <= 7
        /\ Query(w) \notin File(w).faults
        /\ Prepare(w, TRUE)
        /\ pc' = [pc EXCEPT ![w] = "prefetch"]
        /\ step' = [step EXCEPT ![w] = step[w] + 1]
        /\ UNCHANGED <<batch, row, connections>>
    BY <1>8, Lengths DEF Prefetch, GotoStep, Goto, chunkVars
  <2>2. pc'[w] = "prefetch" /\ step'[w] = step[w] + 1
    BY <1>1, <2>1 DEF TypeInv, TypeOK
  <2>3. held'[w] = TRUE /\ leaked'[w] = leaked[w] + LostBy(w)
    BY <1>1, <2>1 DEF Prepare, TypeInv, TypeOK
  <2>4. lost' = lost /\ twice' = twice
    BY <2>1, <2>2, CountsStay DEF Settled, AtRest
  <2>5. File(w)' = File(w)
    BY <2>1 DEF File, FileAt
  <2>6. /\ Query(w) = "dictionary_sizes" <=> step[w] = 2
        /\ Query(w) = "table_files" <=> step[w] = 1
    BY <1>1, <2>1, Lengths, QueryAt DEF Query
  <2>7. lost \in Nat
    <3>1. Settled(w) \in Nat
      BY <1>1, <1>2, <2>1 DEF Settled, AtRest, Progress
    <3> QED
      BY <3>1, CountStep
  <2>8. (held[w] <=> step[w] > 1) /\ leaked[w] = lost + (IF step[w] > 2 THEN 1 ELSE 0)
    BY <1>2, <2>1 DEF HandlesOf, Querying, Building, LosesNow
  <2>9. leaked'[w] = lost + (IF step'[w] > 2 THEN 1 ELSE 0) /\ step'[w] > 1
    <3>1. LostBy(w) = IF step[w] = 2 THEN 1 ELSE 0
      <4> (held[w] <=> step[w] > 1)
        BY <2>8
      <4> QED
        BY <1>1, <2>6 DEF LostBy
    <3> HIDE DEF lost
    <3> QED
      BY <1>1, <2>2, <2>3, <2>7, <2>8, <3>1
  <2>10. "table_files" \notin File(w).faults
    BY <1>1, <1>2, <2>1, <2>6 DEF Progress, Querying
  <2>11. HandlesOf(w)'
    BY <1>2, <2>1, <2>2, <2>3, <2>4, <2>9 DEF HandlesOf, Querying, Building, LosesNow
  <2>12. Progress(w)'
    BY <1>1, <1>2, <2>1, <2>2, <2>5, <2>10, Lengths DEF Progress, AtRest, Querying, Building
  <2> QED
    BY <2>11, <2>12 DEF WorkerInv
<1>9. CASE PrefetchThrows(w)
  <2>1. /\ pc[w] = "prefetch" /\ step[w] <= 7
        /\ Query(w) \in File(w).faults
        /\ Prepare(w, FALSE) /\ Handle(w)
        /\ connections'[w] = connections[w] - 1
        /\ UNCHANGED <<batch, row, step>>
    BY <1>1, <1>9, Lengths DEF PrefetchThrows, Close, chunkVars, TypeInv, TypeOK
  <2>2. row[w] > 0 /\ File(w).parses /\ File(w).opens = "ok"
    BY <1>2, <2>1 DEF Progress, AtRest, Querying
  <2>3. held'[w] = FALSE /\ leaked'[w] = leaked[w] + LostBy(w)
    BY <1>1, <2>1 DEF Prepare, TypeInv, TypeOK
  <2>4. pc'[w] \in {"next", "error"}
    BY <1>1, <2>1, HandleTypes DEF TypeInv, TypeOK
  <2>5. /\ lost' = lost + (IF LosesStatement(File(w)) THEN 1 ELSE 0)
        /\ twice' = twice + (IF ClosedTwice(File(w)) THEN 1 ELSE 0)
        /\ lost \in Nat /\ twice \in Nat
    BY <1>1, <2>1, <2>2, ThrowSettles
  <2>6. /\ Query(w) = "dictionary_sizes" <=> step[w] = 2
        /\ Query(w) = "table_files" <=> step[w] = 1
    BY <1>1, <2>1, Lengths, QueryAt DEF Query
  <2>7. /\ (held[w] <=> step[w] > 1)
        /\ leaked[w] = lost + (IF step[w] > 2 THEN 1 ELSE 0)
        /\ connections[w] = 1 - twice
    BY <1>2, <2>1 DEF HandlesOf, Querying, Building, LosesNow
  <2>8. LosesStatement(File(w)) <=> step[w] > 1
    <3>1. CASE step[w] = 1
      BY <2>1, <2>6, <3>1 DEF LosesStatement
    <3>2. CASE step[w] > 1
      BY <1>2, <2>1, <2>2, <3>2 DEF LosesStatement, Progress, Querying
    <3> QED
      BY <1>1, <3>1, <3>2
  <2>9. lost' = lost + (IF step[w] > 1 THEN 1 ELSE 0) /\ twice' = twice
    BY <2>2, <2>5, <2>8 DEF ClosedTwice
  <2>10. LostBy(w) = IF step[w] = 2 THEN 1 ELSE 0
    <3> (held[w] <=> step[w] > 1)
      BY <2>7
    <3> QED
      BY <1>1, <2>6 DEF LostBy
  <2> HIDE DEF lost, twice
  <2>11. leaked'[w] = lost' /\ connections'[w] = -twice' /\ lost' \in Int /\ twice' \in Int
    BY <1>1, <2>1, <2>3, <2>5, <2>7, <2>9, <2>10
  <2> QED
    BY <2>3, <2>4, <2>11, RestsInv DEF AtRest, lost, twice
<1>10. CASE PrefetchEnds(w)
  <2>1. /\ pc[w] = "prefetch" /\ step[w] > 7
        /\ pc'[w] = "build" /\ held'[w] = FALSE
        /\ UNCHANGED <<batch, row, connections, leaked>>
    BY <1>1, <1>10, Lengths DEF PrefetchEnds, GotoStep, Goto, chunkVars, TypeInv, TypeOK
  <2>2. lost' = lost /\ twice' = twice
    BY <2>1, CountsStay DEF Settled, AtRest
  <2>3. File(w)' = File(w)
    BY <2>1 DEF File, FileAt
  <2>4. LosesNow(w) = 1 /\ LosesNow(w)' = 1
    BY <1>1, <2>1 DEF LosesNow, Querying, Building
  <2>5. HandlesOf(w)'
    BY <1>2, <2>1, <2>2, <2>4 DEF HandlesOf, Querying, Building
  <2>6. Progress(w)'
    BY <1>1, <1>2, <2>1, <2>3 DEF Progress, AtRest, Querying, Building
  <2> QED
    BY <2>5, <2>6 DEF WorkerInv
<1>11. CASE Build(w) \/ StartTime(w) \/ FinishTime(w) \/ EndTimes(w)
  <2>1. /\ Building(w) /\ Building(w)'
        /\ UNCHANGED <<batch, row, connections, held, leaked>>
    <3>1. CASE Build(w)
      BY <1>1, <3>1 DEF Build, Building, GotoStep, Goto, chunkVars, handleVars, TypeInv, TypeOK
    <3>2. CASE StartTime(w)
      BY <1>1, <3>2 DEF StartTime, Building, Goto, chunkVars, handleVars, TypeInv, TypeOK
    <3>3. CASE FinishTime(w)
      BY <1>1, <3>3
         DEF FinishTime, Formatting, Building, Goto, chunkVars, handleVars, TypeInv, TypeOK
    <3>4. CASE EndTimes(w)
      BY <1>1, <3>4
         DEF EndTimes, Building, GotoStep, Goto, chunkVars, handleVars, TypeInv, TypeOK
    <3> QED
      BY <1>11, <3>1, <3>2, <3>3, <3>4
  <2>2. lost' = lost /\ twice' = twice
    BY <2>1, CountsStay DEF Settled, AtRest, Building
  <2>3. File(w)' = File(w)
    BY <2>1 DEF File, FileAt
  <2>4. Progress(w)'
    BY <1>1, <1>2, <2>1, <2>3 DEF Progress, AtRest, Querying, Building, TypeInv
  <2> QED
    BY <1>2, <2>1, <2>2, <2>4 DEF WorkerInv, HandlesOf, Querying, Building, LosesNow
<1>12. CASE BuildThrows(w)
  <2>1. /\ pc[w] = "build" /\ Handle(w)
        /\ connections'[w] = connections[w] - 1
        /\ UNCHANGED <<batch, row, step, held, leaked>>
    BY <1>1, <1>12 DEF BuildThrows, Close, chunkVars, TypeInv, TypeOK
  <2>2. row[w] > 0 /\ LosesStatement(File(w)) /\ ~ClosedTwice(File(w))
    BY <1>2, <2>1 DEF Progress, AtRest, Building, LosesStatement, ClosedTwice
  <2>3. pc'[w] \in {"next", "error"}
    BY <1>1, <2>1, HandleTypes DEF TypeInv, TypeOK
  <2>4. lost' = lost + 1 /\ twice' = twice /\ lost \in Nat /\ twice \in Nat
    BY <1>1, <2>1, <2>2, ThrowSettles
  <2> QED
    BY <1>1, <1>2, <2>1, <2>3, <2>4
       DEF WorkerInv, Progress, HandlesOf, AtRest, Querying, Building, LosesNow
<1>13. CASE Deliver(w)
  <2>1. /\ pc[w] = "build" /\ pc'[w] = "next"
        /\ connections'[w] = connections[w] - 1
        /\ UNCHANGED <<batch, row, step, held, leaked>>
    BY <1>1, <1>13 DEF Deliver, Close, Goto, chunkVars, TypeInv, TypeOK
  <2>2. row[w] > 0 /\ LosesStatement(File(w)) /\ ~ClosedTwice(File(w))
    BY <1>2, <2>1 DEF Progress, AtRest, Building, LosesStatement, ClosedTwice
  <2>3. lost' = lost + 1 /\ twice' = twice /\ lost \in Nat /\ twice \in Nat
    BY <1>1, <2>1, <2>2, FileSettles DEF AtRest
  <2> QED
    BY <1>1, <1>2, <2>1, <2>3
       DEF WorkerInv, Progress, HandlesOf, AtRest, Querying, Building, LosesNow
<1> QED
  BY <1>3, <1>4, <1>5, <1>6, <1>7, <1>8, <1>9, <1>10, <1>11, <1>12, <1>13 DEF WorkerStep

\* A step of one worker leaves the others where they are.
LEMMA OthersStay ==
    ASSUME TypeInv, NEW w \in Workers, WorkerStep(w), NEW v \in Workers, v # w
    PROVE  /\ batch' = batch /\ ignoreErrors' = ignoreErrors
           /\ pc'[v] = pc[v] /\ row'[v] = row[v] /\ step'[v] = step[v]
           /\ data'[v] = data[v] /\ value'[v] = value[v] /\ result'[v] = result[v]
           /\ remaining'[v] = remaining[v] /\ current'[v] = current[v]
           /\ held'[v] = held[v] /\ leaked'[v] = leaked[v] /\ connections'[v] = connections[v]
<1> USE DEF TypeInv, TypeOK, chunkVars, buildVars, handleVars, Goto, GotoStep
<1>1. Handle(w) => pc'[v] = pc[v] /\ result'[v] = result[v]
  BY DEF Handle, EmptyRow
<1>2. CASE NextFile(w)
  BY <1>2 DEF NextFile
<1>3. CASE ParseFile(w) \/ OpenRefused(w) \/ DeserializeFails(w) \/ BuildThrows(w)
  BY <1>1, <1>3 DEF ParseFile, OpenRefused, DeserializeFails, BuildThrows, Close
<1>4. CASE OpenFromBuffer(w)
  BY <1>4 DEF OpenFromBuffer
<1>5. CASE Prefetch(w)
  BY <1>5 DEF Prefetch, Prepare
<1>6. CASE PrefetchThrows(w)
  BY <1>1, <1>6 DEF PrefetchThrows, Prepare, Close
<1>7. CASE PrefetchEnds(w)
  BY <1>7 DEF PrefetchEnds
<1>8. CASE Build(w)
  BY <1>8 DEF Build
<1>9. CASE StartTime(w)
  BY <1>9 DEF StartTime, Listed
<1>10. CASE FinishTime(w)
  BY <1>10 DEF FinishTime, Listed
<1>11. CASE EndTimes(w)
  BY <1>11 DEF EndTimes
<1>12. CASE Deliver(w)
  BY <1>12 DEF Deliver, Close
<1> QED
  BY <1>2, <1>3, <1>4, <1>5, <1>6, <1>7, <1>8, <1>9, <1>10, <1>11, <1>12 DEF WorkerStep

LEMMA InitHandleInv == Init => HandleInv
<1> SUFFICES ASSUME Init PROVE HandleInv
  OBVIOUS
<1>1. TypeOK
  BY InitTypeInv DEF TypeInv
<1>2. ASSUME NEW w \in Workers PROVE Progress(w) /\ HandlesOf(w)
  <2>1. Settled(w) = 0 /\ pc[w] = "next"
    BY DEF Init, Settled, AtRest
  <2>2. Losses(w, 0) = {} /\ DoubleCloses(w, 0) = {}
    BY DEF Losses, DoubleCloses
  <2>3. Cardinality(Losses(w, Settled(w))) = 0 /\ Cardinality(DoubleCloses(w, Settled(w))) = 0
    BY <2>1, <2>2, FS_EmptySet
  <2> QED
    BY <2>1, <2>3 DEF Init, Progress, HandlesOf, AtRest, Querying, Building, LosesNow
<1> QED
  BY <1>1, <1>2 DEF HandleInv

LEMMA NextHandleInv == HandleInv /\ [Next]_vars => HandleInv'
<1> SUFFICES ASSUME HandleInv, [Next]_vars PROVE HandleInv'
  OBVIOUS
<1>1. TypeInv /\ TypeInv'
  BY HandleInvTypes, NextTypeInv
<1>2. \A w \in Workers : WorkerInv(w)
  BY DEF HandleInv, WorkerInv
<1>3. ASSUME NEW w \in Workers, WorkerStep(w), NEW v \in Workers PROVE WorkerInv(v)'
  <2>1. CASE v = w
    BY <1>3, <2>1, StepHandleInv
  <2>2. CASE v # w
    BY <1>1, <1>2, <1>3, <2>2, OthersStay, Elsewhere
  <2> QED
    BY <2>1, <2>2
<1>4. ASSUME UNCHANGED vars, NEW v \in Workers PROVE WorkerInv(v)'
  BY <1>2, <1>4, Elsewhere DEF vars, chunkVars, handleVars
<1>5. \A v \in Workers : WorkerInv(v)'
  BY <1>3, <1>4 DEF Next, Finished
<1> QED
  BY <1>1, <1>5 DEF HandleInv, WorkerInv, TypeInv

LEMMA HandleInvariant == Spec => []HandleInv
BY InitHandleInv, NextHandleInv, PTL DEF Spec

\* Whatever fails and wherever: between two files and at the end a worker has
\* closed every connection once and finalized every statement, but for the
\* statement that TryPrepare loses in every file, and the connection that is
\* closed twice when a database does not deserialize.
THEOREM HandlesAccounted == Spec => []HandlesReleased
<1>1. HandleInv => HandlesReleased
  <2> SUFFICES ASSUME HandleInv, NEW w \in Workers, AtRest(w)
              PROVE  /\ ~held[w]
                     /\ leaked[w] = Cardinality(Losses(w, row[w]))
                     /\ connections[w] = -Cardinality(DoubleCloses(w, row[w]))
    BY DEF HandlesReleased
  <2>1. Settled(w) = row[w] /\ LosesNow(w) = 0 /\ ~Querying(w) /\ ~Building(w) /\ pc[w] # "wild"
    BY DEF Settled, AtRest, LosesNow, Querying, Building
  <2>2. HandlesOf(w) /\ row[w] \in Nat
    BY <2>1 DEF HandleInv, TypeOK
  <2> DEFINE lost == Cardinality(Losses(w, row[w]))
             twice == Cardinality(DoubleCloses(w, row[w]))
  <2>3. lost \in Nat /\ twice \in Nat
    BY <2>2, CountStep
  <2>4. leaked[w] = lost + 0 /\ connections[w] = 0 - twice /\ ~held[w]
    BY <2>1, <2>2 DEF HandlesOf
  <2> HIDE DEF lost, twice
  <2>5. leaked[w] = lost /\ connections[w] = -twice
    BY <2>3, <2>4
  <2> QED
    BY <2>4, <2>5 DEF lost, twice
<1> QED
  BY <1>1, HandleInvariant, PTL

-----------------------------------------------------------------------------
(* Times.                                                                  *)

LEMMA AppendRow ==
    ASSUME NEW s, s \in Seq(Range(s)), NEW e
    PROVE  /\ Append(s, e) \in Seq(Range(Append(s, e)))
           /\ Len(s) \in Nat /\ Len(Append(s, e)) = Len(s) + 1
           /\ DOMAIN s = 1 .. Len(s) /\ DOMAIN Append(s, e) = 1 .. Len(s) + 1
           /\ \A i \in 1 .. Len(s) : Append(s, e)[i] = s[i]
           /\ Append(s, e)[Len(s) + 1] = e
<1> DEFINE t == Append(s, e)
<1>1. s \in Seq(Range(s) \cup {e})
  BY DEF Range
<1>2. /\ t \in Seq(Range(s) \cup {e}) /\ Len(t) = Len(s) + 1
      /\ \A i \in 1 .. Len(s) : t[i] = s[i]
      /\ t[Len(s) + 1] = e
  BY <1>1, AppendProperties
<1>3. Len(s) \in Nat /\ DOMAIN s = 1 .. Len(s) /\ DOMAIN t = 1 .. Len(s) + 1
  BY <1>1, <1>2
<1> HIDE DEF t
<1>4. t \in Seq(Range(t))
  BY <1>2, <1>3 DEF Range
<1> QED
  BY <1>2, <1>3, <1>4 DEF t

LEMMA FileInChunk ==
    ASSUME TypeInv, NEW w \in Workers, row[w] > 0
    PROVE  /\ row[w] \in 1 .. Len(batch[w])
           /\ batch[w][row[w]] \in DOMAIN Contents
           /\ batch[w][row[w]] \in Range(batch[w])
<1>1. batch[w] \in Seq(DOMAIN Contents) /\ row[w] \in Nat /\ row[w] <= Len(batch[w])
  BY BatchesAssumption DEF TypeInv, TypeOK
<1> QED
  BY <1>1 DEF Range

\* A time of one worker's file is another worker's other time.
LEMMA OwnTicksAreOthers ==
    ASSUME TypeInv, NEW w \in Workers, row[w] > 0,
           NEW p \in MappedPartitions(File(w).db), p.ticks > 0, NEW v \in Workers, v # w
    PROVE  p.ticks \in OtherTicks(v)
<1>1. p.ticks \in TicksOf(File(w))
  BY DEF TicksOf
<1>2. batch[w][row[w]] \in Range(batch[w]) /\ File(w) = Contents[batch[w][row[w]]]
  BY FileInChunk DEF File, FileAt
<1> QED
  BY <1>1, <1>2 DEF OtherTicks

LEMMA NoTimes ==
    /\ EmptyVpaxValue.Partitions = {}
    /\ \A w, f : TimesOfFile(w, f, {})
BY DEF EmptyVpaxValue, Sections, ToSet, TimesOfFile

\* The invariant of one worker.
TimesOfWorker(w) ==
    /\ RowsSet(w)
    /\ \A i \in DOMAIN result[w] : TimesOfFile(w, FileAt(w, i), result[w][i].Partitions)
    /\ Busy(w) => TimesOfFile(w, File(w), value[w].Partitions)
    /\ pc[w] \in {"times", "format"} => remaining[w] \subseteq MappedPartitions(File(w).db)
    /\ Formatting(w) => TimeAtHand(w)

\* A file ends: its row is set, or the worker has ended with an error.
LEMMA RowsOfEndedFile ==
    ASSUME TypeInv, NEW w \in Workers, TimesOfWorker(w), Busy(w), row[w] > 0,
           batch' = batch, row' = row,
           \/ /\ pc'[w] = "next"
              /\ \E v : /\ result' = [result EXCEPT ![w] = Append(@, v)]
                       /\ TimesOfFile(w, File(w), v.Partitions)
           \/ pc'[w] \in {"error", "wild"} /\ result' = result
    PROVE  TimesOfWorker(w)'
<1>1. /\ result[w] \in Seq(Range(result[w])) /\ Len(result[w]) = row[w] - 1 /\ row[w] \in Nat
      /\ \A i \in DOMAIN result[w] : TimesOfFile(w, FileAt(w, i), result[w][i].Partitions)
  BY DEF TimesOfWorker, RowsSet, Busy, TypeInv, TypeOK
<1>2. ~Busy(w)' /\ ~Formatting(w)' /\ pc'[w] \notin {"times", "format"}
  BY DEF Busy, Formatting
<1>3. \A i : FileAt(w, i)' = FileAt(w, i)
  BY DEF FileAt
<1>4. OtherTicks(w)' = OtherTicks(w)
  BY DEF OtherTicks
<1>5. CASE pc'[w] = "next" /\ \E v : /\ result' = [result EXCEPT ![w] = Append(@, v)]
                                      /\ TimesOfFile(w, File(w), v.Partitions)
  <2>1. PICK v : /\ result' = [result EXCEPT ![w] = Append(@, v)]
                 /\ TimesOfFile(w, File(w), v.Partitions)
    BY <1>5
  <2>2. result'[w] = Append(result[w], v)
    BY <2>1 DEF TypeInv, TypeOK
  <2>3. RowsSet(w)'
    <3> DEFINE s == result[w]
    <3>1. /\ Append(s, v) \in Seq(Range(Append(s, v)))
          /\ Len(s) \in Nat /\ Len(Append(s, v)) = Len(s) + 1
      BY <1>1, AppendRow
    <3>2. result'[w] \in Seq(Range(result'[w])) /\ Len(result'[w]) = row[w]
      BY <1>1, <2>2, <3>1
    <3> QED
      BY <1>5, <3>2 DEF RowsSet
  <2>4. ASSUME NEW i \in DOMAIN result'[w]
        PROVE  TimesOfFile(w, FileAt(w, i), result[w][i].Partitions)'
    <3>1. CASE i \in DOMAIN result[w]
      <4>1. result'[w][i] = result[w][i]
        BY <1>1, <2>2, <3>1, AppendRow
      <4> QED
        BY <1>1, <1>3, <1>4, <3>1, <4>1 DEF TimesOfFile
    <3>2. CASE i \notin DOMAIN result[w]
      <4>1. i = row[w] /\ result'[w][i] = v
        BY <1>1, <2>2, <3>2, AppendRow
      <4> QED
        BY <1>3, <1>4, <2>1, <4>1 DEF TimesOfFile, File
    <3> QED
      BY <3>1, <3>2
  <2> QED
    BY <1>2, <2>3, <2>4 DEF TimesOfWorker
<1>6. CASE pc'[w] \in {"error", "wild"} /\ result' = result
  <2>1. RowsSet(w)'
    BY <1>1, <1>6 DEF RowsSet
  <2>2. \A i \in DOMAIN result'[w] : TimesOfFile(w, FileAt(w, i), result[w][i].Partitions)'
    BY <1>1, <1>3, <1>4, <1>6 DEF TimesOfFile
  <2> QED
    BY <1>2, <2>1, <2>2 DEF TimesOfWorker
<1> QED
  BY <1>5, <1>6

\* An exception ends the file with an empty value or with an error.
LEMMA RowsOfThrow ==
    ASSUME TypeInv, NEW w \in Workers, TimesOfWorker(w), Busy(w), row[w] > 0,
           batch' = batch, row' = row, Handle(w)
    PROVE  TimesOfWorker(w)'
<1>1. pc'[w] = IF ignoreErrors THEN "next" ELSE "error"
  BY HandleTypes DEF TypeInv, TypeOK
<1>2. CASE ignoreErrors
  <2>1. /\ result' = [result EXCEPT ![w] = Append(@, EmptyVpaxValue)]
        /\ TimesOfFile(w, File(w), EmptyVpaxValue.Partitions)
    BY <1>2, NoTimes DEF Handle, EmptyRow
  <2> QED
    BY <1>1, <1>2, <2>1, RowsOfEndedFile
<1>3. CASE ~ignoreErrors
  BY <1>1, <1>3, RowsOfEndedFile DEF Handle
<1> QED
  BY <1>2, <1>3

\* A step within a file that touches neither the times nor the rows.
LEMMA TimesUntouched ==
    ASSUME NEW v \in Workers, TimesOfWorker(v), batch' = batch, row'[v] = row[v],
           result'[v] = result[v], value'[v].Partitions = value[v].Partitions,
           \/ pc'[v] = pc[v] /\ UNCHANGED <<remaining[v], current[v], shared[v]>>
           \/ Busy(v) /\ pc'[v] \in {"open", "prefetch", "build"}
           \/ pc[v] = "next" /\ pc'[v] = "done"
    PROVE  TimesOfWorker(v)'
BY DEF TimesOfWorker, RowsSet, TimesOfFile, OtherTicks, File, FileAt, Busy, Formatting, TimeAtHand

\* A partition is listed once, under its own identifier.
LEMMA ListedTimes ==
    ASSUME TypeInv, NEW w \in Workers, row[w] > 0, batch' = batch, row' = row,
           TimesOfFile(w, File(w), value[w].Partitions),
           NEW p \in MappedPartitions(File(w).db), NEW text, Listed(w, p, text),
           IF p.ticks <= 0 THEN text = {}
           ELSE text # {} /\ text \subseteq {p.ticks} \cup OtherTicks(w)
    PROVE  TimesOfFile(w, File(w), value[w].Partitions)'
<1>1. "Partitions" \in DOMAIN value[w] /\ w \in DOMAIN value
  BY DEF TypeInv, TypeOK, Sections, ToSet
<1>2. value'[w].Partitions = value[w].Partitions \cup {PartitionRow(p, text)}
  BY <1>1 DEF Listed
<1>3. File(w)' = File(w) /\ OtherTicks(w)' = OtherTicks(w)
  BY DEF File, FileAt, OtherTicks
<1>4. \A q \in File(w).db.partitions : q.id = p.id => q = p
  <2>1. p \in File(w).db.partitions
    BY DEF MappedPartitions
  <2>2. batch[w][row[w]] \in DOMAIN Contents /\ File(w) = Contents[batch[w][row[w]]]
    BY FileInChunk DEF File, FileAt
  <2> QED
    BY <2>1, <2>2, PartitionsAssumption
<1>5. ASSUME NEW r \in value'[w].Partitions, NEW q \in File(w).db.partitions, r.partition = q.id
      PROVE  IF q.ticks <= 0 THEN r.refreshed = {}
             ELSE r.refreshed # {} /\ r.refreshed \subseteq {q.ticks} \cup OtherTicks(w)
  <2>1. CASE r \in value[w].Partitions
    BY <1>5, <2>1 DEF TimesOfFile
  <2>2. CASE r = PartitionRow(p, text)
    BY <1>4, <1>5, <2>2 DEF PartitionRow
  <2> QED
    BY <1>2, <2>1, <2>2
<1> QED
  BY <1>3, <1>5 DEF TimesOfFile

\* What the worker's own step does to its rows and to the time at hand.
LEMMA StepTimes ==
    ASSUME HandleInv, \A v \in Workers : TimesOfWorker(v), NEW w \in Workers, WorkerStep(w)
    PROVE  TimesOfWorker(w)'
<1>1. /\ TypeInv /\ TimesOfWorker(w)
      /\ Busy(w) => row[w] > 0
  BY HandleInvTypes DEF HandleInv, Progress, AtRest, Busy
<1>2. /\ Busy(w) => TimesOfFile(w, File(w), value[w].Partitions)
      /\ pc[w] \in {"times", "format"} => remaining[w] \subseteq MappedPartitions(File(w).db)
      /\ Formatting(w) => TimeAtHand(w)
      /\ \A i \in DOMAIN result[w] : TimesOfFile(w, FileAt(w, i), result[w][i].Partitions)
      /\ RowsSet(w)
  BY <1>1 DEF TimesOfWorker
<1>3. ASSUME batch' = batch PROVE OtherTicks(w)' = OtherTicks(w)
  BY <1>3 DEF OtherTicks
<1>4. ASSUME batch' = batch, row' = row
      PROVE  File(w)' = File(w) /\ \A i : FileAt(w, i)' = FileAt(w, i)
  BY <1>4 DEF File, FileAt
<1>5. "Partitions" \in DOMAIN value[w] /\ w \in DOMAIN value
  BY <1>1 DEF TypeInv, TypeOK, Sections, ToSet
<1>6. CASE NextFile(w)
  <2>1. pc[w] = "next" /\ UNCHANGED <<batch, result, remaining, current, shared>>
    BY <1>6 DEF NextFile, chunkVars
  <2>2. CASE EndOfChunk(w)
    <3>1. pc'[w] = "done" /\ row' = row /\ value' = value
      BY <1>1, <1>6, <2>2 DEF NextFile, Goto, TypeInv, TypeOK
    <3> QED
      BY <1>1, <2>1, <3>1, TimesUntouched
  <2>3. CASE ~EndOfChunk(w)
    <3>1. /\ pc'[w] = "parse" /\ row'[w] = row[w] + 1 /\ row[w] \in Nat
          /\ value'[w] = EmptyVpaxValue
      BY <1>1, <1>6, <2>3 DEF NextFile, Goto, TypeInv, TypeOK
    <3>2. RowsSet(w)'
      BY <1>2, <2>1, <3>1 DEF RowsSet
    <3>3. \A i \in DOMAIN result'[w] : TimesOfFile(w, FileAt(w, i), result[w][i].Partitions)'
      BY <1>2, <1>3, <2>1 DEF TimesOfFile, FileAt
    <3>4. TimesOfFile(w, File(w), value[w].Partitions)'
      BY <3>1, NoTimes DEF TimesOfFile
    <3> QED
      BY <3>1, <3>2, <3>3, <3>4 DEF TimesOfWorker, Formatting
  <2> QED
    BY <2>2, <2>3
<1>7. CASE ParseFile(w)
  <2>1. /\ Busy(w)
        /\ UNCHANGED <<batch, row, value, remaining, current, shared>>
    BY <1>7 DEF ParseFile, Busy, chunkVars, buildVars
  <2>2. CASE File(w).parses
    <3>1. pc'[w] = "open" /\ result' = result
      BY <1>1, <1>7, <2>2 DEF ParseFile, Goto, TypeInv, TypeOK
    <3> QED
      BY <1>1, <2>1, <3>1, TimesUntouched
  <2>3. CASE ~File(w).parses
    BY <1>1, <1>7, <2>1, <2>3, RowsOfThrow DEF ParseFile
  <2> QED
    BY <2>2, <2>3
<1>8. CASE OpenFromBuffer(w)
  <2>1. /\ Busy(w) /\ pc'[w] = "prefetch"
        /\ UNCHANGED <<batch, row, value, remaining, current, shared, result>>
    BY <1>1, <1>8 DEF OpenFromBuffer, GotoStep, Goto, Busy, chunkVars, buildVars, TypeInv, TypeOK
  <2> QED
    BY <1>1, <2>1, TimesUntouched
<1>9. CASE OpenRefused(w) \/ PrefetchThrows(w) \/ BuildThrows(w)
  <2>1. Busy(w) /\ UNCHANGED <<batch, row>> /\ Handle(w)
    BY <1>9 DEF OpenRefused, PrefetchThrows, BuildThrows, Busy, chunkVars
  <2> QED
    BY <1>1, <2>1, RowsOfThrow
<1>10. CASE DeserializeFails(w)
  <2>1. Busy(w) /\ UNCHANGED <<batch, row>>
    BY <1>10 DEF DeserializeFails, Busy, chunkVars
  <2>2. CASE Handle(w)
    BY <1>1, <2>1, <2>2, RowsOfThrow
  <2>3. CASE Goto(w, "wild") /\ UNCHANGED result
    <3>1. pc'[w] = "wild"
      BY <1>1, <2>3 DEF Goto, TypeInv, TypeOK
    <3> QED
      BY <1>1, <2>1, <2>3, <3>1, RowsOfEndedFile
  <2> QED
    BY <1>10, <2>2, <2>3 DEF DeserializeFails
<1>11. CASE Prefetch(w)
  <2>1. /\ Busy(w) /\ pc'[w] = "prefetch"
        /\ UNCHANGED <<batch, row, value, remaining, current, shared, result>>
    BY <1>1, <1>11 DEF Prefetch, GotoStep, Goto, Busy, chunkVars, TypeInv, TypeOK
  <2> QED
    BY <1>1, <2>1, TimesUntouched
<1>12. CASE PrefetchEnds(w) \/ EndTimes(w)
  <2>1. /\ Busy(w) /\ pc'[w] = "build"
        /\ UNCHANGED <<batch, row, value, remaining, current, shared, result>>
    BY <1>1, <1>12
       DEF PrefetchEnds, EndTimes, GotoStep, Goto, Busy, chunkVars, buildVars, TypeInv, TypeOK
  <2> QED
    BY <1>1, <2>1, TimesUntouched
<1>13. CASE Build(w)
  <2>1. pc[w] = "build" /\ Busy(w) /\ UNCHANGED <<batch, row, current, shared, result>>
    BY <1>13 DEF Build, Busy, chunkVars
  <2>2. CASE Section(w) = "Partitions"
    <3>1. pc'[w] = "times" /\ value' = value
      BY <1>1, <1>13, <2>2 DEF Build, Goto, TypeInv, TypeOK
    <3>2. remaining'[w] = MappedPartitions(File(w).db)
      BY <1>1, <1>13, <2>2 DEF Build, BuildSection, TypeInv, TypeOK
    <3>3. RowsSet(w)'
      BY <1>2, <2>1, <3>1 DEF RowsSet
    <3>4. \A i \in DOMAIN result'[w] : TimesOfFile(w, FileAt(w, i), result[w][i].Partitions)'
      BY <1>2, <1>3, <2>1 DEF TimesOfFile, FileAt
    <3>5. TimesOfFile(w, File(w), value[w].Partitions)'
      BY <1>2, <1>3, <1>4, <2>1, <3>1 DEF TimesOfFile
    <3> QED
      BY <1>4, <2>1, <3>1, <3>2, <3>3, <3>4, <3>5 DEF TimesOfWorker, Formatting
  <2>3. CASE Section(w) # "Partitions"
    <3>1. pc'[w] = "build" /\ remaining' = remaining
      BY <1>1, <1>13, <2>3 DEF Build, GotoStep, Goto, TypeInv, TypeOK
    <3>2. value'[w].Partitions = value[w].Partitions
      BY <1>5, <1>13, <2>3 DEF Build
    <3> QED
      BY <1>1, <2>1, <3>1, <3>2, TimesUntouched
  <2> QED
    BY <2>2, <2>3
<1>14. CASE StartTime(w)
  <2>1. /\ pc[w] = "times" /\ Busy(w) /\ row[w] > 0
        /\ UNCHANGED <<batch, row, result>>
    BY <1>1, <1>14 DEF StartTime, Busy, chunkVars
  <2>2. PICK p \in remaining[w] :
          /\ remaining' = [remaining EXCEPT ![w] = @ \ {p}]
          /\ IF p.ticks <= 0
             THEN Listed(w, p, {}) /\ UNCHANGED <<pc, current, shared>>
             ELSE /\ current' = [current EXCEPT ![w] = p]
                  /\ shared' = [v \in Workers |->
                        IF v = w THEN HeldAfter(w, p.ticks)
                        ELSE IF Formatting(v) THEN shared[v] \cup {p.ticks}
                        ELSE shared[v]]
                  /\ Goto(w, "format")
                  /\ UNCHANGED value
    BY <1>14 DEF StartTime
  <2>3. p \in MappedPartitions(File(w).db) /\ remaining'[w] \subseteq MappedPartitions(File(w).db)
    BY <1>1, <1>2, <2>1, <2>2 DEF TypeInv, TypeOK
  <2>4. pc'[w] \in {"times", "format"} => RowsSet(w)'
    BY <1>2, <2>1 DEF RowsSet
  <2>5. \A i \in DOMAIN result'[w] : TimesOfFile(w, FileAt(w, i), result[w][i].Partitions)'
    BY <1>2, <1>3, <2>1 DEF TimesOfFile, FileAt
  <2>6. CASE p.ticks <= 0
    <3>1. pc'[w] = "times" /\ Listed(w, p, {})
      BY <2>1, <2>2, <2>6
    <3>2. TimesOfFile(w, File(w), value[w].Partitions)'
      BY <1>1, <1>2, <2>1, <2>3, <2>6, <3>1, ListedTimes
    <3> QED
      BY <1>4, <2>1, <2>3, <2>4, <2>5, <3>1, <3>2 DEF TimesOfWorker, Formatting
  <2>7. CASE ~(p.ticks <= 0)
    <3>1. /\ pc'[w] = "format" /\ current'[w] = p /\ value' = value
          /\ shared'[w] = HeldAfter(w, p.ticks)
      BY <1>1, <2>2, <2>7 DEF Goto, TypeInv, TypeOK
    <3>2. TimesOfFile(w, File(w), value[w].Partitions)'
      BY <1>2, <1>3, <1>4, <2>1, <3>1 DEF TimesOfFile
    <3>3. HeldAfter(w, p.ticks) \subseteq {p.ticks} \cup OtherTicks(w)
      <4>1. ASSUME NEW v \in Workers, v # w, Formatting(v)
            PROVE  current[v].ticks \in OtherTicks(w)
        <5>1. TimeAtHand(v) /\ row[v] > 0
          BY <4>1 DEF TimesOfWorker, HandleInv, Progress, AtRest, Formatting
        <5> QED
          BY <1>1, <4>1, <5>1, OwnTicksAreOthers DEF TimeAtHand
      <4> QED
        BY <4>1 DEF HeldAfter
    <3>4. TimeAtHand(w)'
      <4>1. p.ticks > 0 /\ p.ticks \in HeldAfter(w, p.ticks)
        <5>1. p.ticks \in Int
          BY <1>1, <2>1, <2>3, FileInChunk, PartitionsAssumption DEF MappedPartitions, File, FileAt
        <5> QED
          BY <2>7, <5>1 DEF HeldAfter
      <4> QED
        BY <1>3, <1>4, <2>1, <2>3, <3>1, <3>3, <4>1 DEF TimeAtHand
    <3> QED
      BY <1>4, <2>1, <2>3, <2>4, <2>5, <3>1, <3>2, <3>4 DEF TimesOfWorker
  <2> QED
    BY <2>6, <2>7
<1>15. CASE FinishTime(w)
  <2>1. /\ Formatting(w) /\ Busy(w) /\ row[w] > 0 /\ pc'[w] = "times"
        /\ UNCHANGED <<batch, row, result, remaining>>
    BY <1>1, <1>15 DEF FinishTime, Formatting, Goto, Busy, chunkVars, TypeInv, TypeOK
  <2>2. PICK text \in (SUBSET shared[w]) \ {{}} : Listed(w, current[w], text)
    BY <1>15 DEF FinishTime
  <2>3. TimeAtHand(w)
    BY <1>2, <2>1
  <2>4. ~(current[w].ticks <= 0)
    <3>1. current[w].ticks \in Int
      BY <1>1, <2>1, <2>3, FileInChunk, PartitionsAssumption
         DEF MappedPartitions, File, FileAt, TimeAtHand
    <3> QED
      BY <2>3, <3>1 DEF TimeAtHand
  <2>5. TimesOfFile(w, File(w), value[w].Partitions)'
    <3>1. /\ current[w] \in MappedPartitions(File(w).db)
          /\ text # {} /\ text \subseteq {current[w].ticks} \cup OtherTicks(w)
      BY <2>2, <2>3 DEF TimeAtHand
    <3>2. TimesOfFile(w, File(w), value[w].Partitions)
      BY <1>2, <2>1
    <3> QED
      BY <1>1, <2>1, <2>2, <2>4, <3>1, <3>2, ListedTimes
  <2>6. RowsSet(w)'
    BY <1>2, <2>1 DEF RowsSet, Formatting
  <2>7. \A i \in DOMAIN result'[w] : TimesOfFile(w, FileAt(w, i), result[w][i].Partitions)'
    BY <1>2, <1>3, <2>1 DEF TimesOfFile, FileAt
  <2>8. remaining'[w] \subseteq MappedPartitions(File(w)'.db)
    BY <1>2, <1>4, <2>1 DEF Formatting
  <2> QED
    BY <2>1, <2>5, <2>6, <2>7, <2>8 DEF TimesOfWorker, Formatting
<1>16. CASE Deliver(w)
  <2>1. /\ Busy(w) /\ pc'[w] = "next" /\ UNCHANGED <<batch, row>>
        /\ result' = [result EXCEPT ![w] = Append(@, value[w])]
    BY <1>1, <1>16 DEF Deliver, Goto, Busy, chunkVars, TypeInv, TypeOK
  <2>2. TimesOfFile(w, File(w), value[w].Partitions)
    BY <1>2, <2>1
  <2> QED
    BY <1>1, <2>1, <2>2, RowsOfEndedFile
<1> QED
  BY <1>6, <1>7, <1>8, <1>9, <1>10, <1>11, <1>12, <1>13, <1>14, <1>15, <1>16 DEF WorkerStep

\* A step of another worker at most adds one of its times to the struct tm.
LEMMA OthersTimes ==
    ASSUME HandleInv, \A u \in Workers : TimesOfWorker(u),
           NEW w \in Workers, WorkerStep(w), NEW v \in Workers, v # w
    PROVE  TimesOfWorker(v)'
<1>1. TypeInv /\ TimesOfWorker(v)
  BY HandleInvTypes
<1>2. /\ batch' = batch /\ pc'[v] = pc[v] /\ row'[v] = row[v] /\ value'[v] = value[v]
      /\ result'[v] = result[v] /\ remaining'[v] = remaining[v] /\ current'[v] = current[v]
  BY <1>1, OthersStay
<1>3. /\ File(v)' = File(v) /\ OtherTicks(v)' = OtherTicks(v)
      /\ \A i : FileAt(v, i)' = FileAt(v, i)
  BY <1>2 DEF File, FileAt, OtherTicks
<1>4. Formatting(v) => TimeAtHand(v)'
  <2> SUFFICES ASSUME Formatting(v) PROVE TimeAtHand(v)'
    OBVIOUS
  <2>1. TimeAtHand(v)
    BY <1>1 DEF TimesOfWorker
  <2>2. CASE shared' = shared
    BY <1>2, <1>3, <2>1, <2>2 DEF TimeAtHand
  <2>3. CASE StartTime(w) /\ shared' # shared
    <3>1. PICK p \in remaining[w] : ~(p.ticks <= 0) /\ shared'[v] = shared[v] \cup {p.ticks}
      BY <1>1, <2>3 DEF StartTime, TypeInv, TypeOK
    <3>2. row[w] > 0 /\ p \in MappedPartitions(File(w).db)
      BY <2>3, <3>1 DEF StartTime, TimesOfWorker, HandleInv, Progress, AtRest
    <3>3. p.ticks \in Int
      BY <1>1, <3>2, FileInChunk, PartitionsAssumption DEF MappedPartitions, File, FileAt
    <3>4. p.ticks \in OtherTicks(v)
      BY <1>1, <3>1, <3>2, <3>3, OwnTicksAreOthers
    <3> QED
      BY <1>2, <1>3, <2>1, <3>1, <3>4 DEF TimeAtHand
  <2>4. StartTime(w) \/ shared' = shared
    BY DEF WorkerStep, NextFile, ParseFile, OpenFromBuffer, OpenRefused, DeserializeFails,
           Prefetch, PrefetchThrows, PrefetchEnds, Build, BuildThrows, FinishTime, EndTimes,
           Deliver, buildVars
  <2> QED
    BY <2>2, <2>3, <2>4
<1>5. RowsSet(v)'
  BY <1>1, <1>2 DEF TimesOfWorker, RowsSet
<1>6. \A i \in DOMAIN result'[v] : TimesOfFile(v, FileAt(v, i), result[v][i].Partitions)'
  BY <1>1, <1>2, <1>3 DEF TimesOfWorker, TimesOfFile
<1>7. Busy(v)' => TimesOfFile(v, File(v), value[v].Partitions)'
  BY <1>1, <1>2, <1>3 DEF TimesOfWorker, TimesOfFile, Busy
<1>8. pc'[v] \in {"times", "format"} => remaining'[v] \subseteq MappedPartitions(File(v)'.db)
  BY <1>1, <1>2, <1>3 DEF TimesOfWorker
<1> QED
  BY <1>2, <1>4, <1>5, <1>6, <1>7, <1>8 DEF TimesOfWorker, Formatting

LEMMA TimesInvOfWorkers == TimesInv <=> HandleInv /\ \A w \in Workers : TimesOfWorker(w)
BY DEF TimesInv, TimesOfWorker

LEMMA InitTimesInv == Init => TimesInv
<1> SUFFICES ASSUME Init, NEW w \in Workers PROVE TimesOfWorker(w)
  BY InitHandleInv, TimesInvOfWorkers
<1>1. result[w] = <<>> /\ pc[w] = "next" /\ row[w] = 0
  BY DEF Init
<1>2. RowsSet(w)
  BY <1>1 DEF RowsSet
<1> QED
  BY <1>1, <1>2 DEF TimesOfWorker, Busy, Formatting

LEMMA NextTimesInv == TimesInv /\ [Next]_vars => TimesInv'
<1> SUFFICES ASSUME TimesInv, [Next]_vars PROVE TimesInv'
  OBVIOUS
<1>1. HandleInv /\ (\A v \in Workers : TimesOfWorker(v)) /\ HandleInv'
  BY TimesInvOfWorkers, NextHandleInv
<1>2. ASSUME NEW w \in Workers, WorkerStep(w), NEW v \in Workers PROVE TimesOfWorker(v)'
  BY <1>1, <1>2, StepTimes, OthersTimes
<1>3. ASSUME UNCHANGED vars, NEW v \in Workers PROVE TimesOfWorker(v)'
  <2>1. UNCHANGED <<batch, pc, row, value, remaining, current, shared, result>>
    BY <1>3 DEF vars, chunkVars, buildVars
  <2> QED
    BY <1>1, <2>1
       DEF TimesOfWorker, RowsSet, TimesOfFile, OtherTicks, File, FileAt, Busy, Formatting,
           TimeAtHand
<1>4. \A v \in Workers : TimesOfWorker(v)'
  BY <1>2, <1>3 DEF Next, Finished
<1> QED
  BY <1>1, <1>4 DEF TimesInv, TimesOfWorker

\* Whatever the workers interleave around the struct tm they share: a refreshed
\* time of a delivered row shows the time of its own partition or one of a file
\* that another worker reads, never one of another partition of the same file.
THEOREM TimesMixAcrossWorkers == Spec => []TimesMixOnlyAcrossWorkers
<1>1. TimesInv => TimesMixOnlyAcrossWorkers
  BY DEF TimesInv, TimesMixOnlyAcrossWorkers
<1> QED
  BY <1>1, InitTimesInv, NextTimesInv, PTL DEF Spec

-----------------------------------------------------------------------------
(* Rows.                                                                   *)

\* A query that finds its map empty leaves what it leaves in a call of its own.
LEMMA FetchFresh ==
    ASSUME NEW f, NEW q \in ToSet(Queries), NEW d, d[q] = EmptyMap
    PROVE  Fetch(q, d, f.db, FileSizeMap(f.files), f.hasSize) = Maps(f, q)
<1>1. NothingFetched[q] = d[q]
  BY DEF NothingFetched
<1> QED
  BY <1>1 DEF Fetch, Maps

\* Only two of the maps depend on the order of the database's rows.
LEMMA OneMap ==
    ASSUME NEW f, NEW q \in ToSet(Queries), q # "dictionary_sizes", q # "column_files",
           NEW map \in Maps(f, q)
    PROVE  map = CHOOSE m \in Maps(f, q) : TRUE
<1>1. PICK x : Maps(f, q) = {x}
  <2>1. q \in {"table_files", "table_hierarchy_files", "column_hierarchy_files",
               "user_hierarchy_files", "relationship_counts"}
    BY DEF Queries, ToSet
  <2> QED
    BY <2>1 DEF Maps, Fetch
<1> QED
  BY <1>1

\* After the last query the maps are those of a call for this file alone.
LEMMA AllFetched ==
    ASSUME NEW f, NEW d, d = [q \in ToSet(Queries) |-> d[q]],
           \A k \in DOMAIN Queries : d[Queries[k]] \in Maps(f, Queries[k])
    PROVE  d \in DataOf(f)
<1>1. \A q \in ToSet(Queries) : d[q] \in Maps(f, q)
  BY DEF ToSet
<1>2. "dictionary_sizes" \in ToSet(Queries) /\ "column_files" \in ToSet(Queries)
  BY DEF Queries, ToSet
<1> DEFINE dictionaries == d["dictionary_sizes"]
           files == d["column_files"]
<1>3. ASSUME NEW q \in ToSet(Queries)
      PROVE  d[q] = IF q = "dictionary_sizes" THEN dictionaries
                    ELSE IF q = "column_files" THEN files
                    ELSE CHOOSE map \in Maps(f, q) : TRUE
  BY <1>1, OneMap
<1>4. d = DataFrom(f, dictionaries, files)
  BY <1>3 DEF DataFrom
<1> QED
  BY <1>1, <1>2, <1>4 DEF DataOf

\* The section of the partitions, whose times are formatted one by one.
LEMMA PartitionsSection ==
    ASSUME NEW f, NEW d
    PROVE  SectionOf(f, "Partitions", d) = MappedPartitions(f.db)
BY DEF SectionOf, BuildSection

\* After the last section the value is the one of a call for this file alone.
LEMMA AllBuilt ==
    ASSUME NEW f, NEW d \in DataOf(f), NEW v, v = [s \in ToSet(Sections) |-> v[s]],
           \A k \in DOMAIN Sections :
              Sections[k] # "Partitions" => v[Sections[k]] = SectionOf(f, Sections[k], d),
           ListedIn(v.Partitions, f) = MappedPartitions(f.db)
    PROVE  WithoutTimes(v, f) \in ValuesOf(f)
<1>1. \A s \in ToSet(Sections) : s # "Partitions" => v[s] = SectionOf(f, s, d)
  BY DEF ToSet
<1>2. "Partitions" \in ToSet(Sections)
  BY DEF Sections, ToSet
<1> DEFINE e == [v EXCEPT !.Partitions = MappedPartitions(f.db)]
<1>3. WithoutTimes(v, f) = e
  BY DEF WithoutTimes
<1>4. e = [s \in ToSet(Sections) |-> IF s = "Partitions" THEN MappedPartitions(f.db) ELSE v[s]]
  <2> DEFINE D == ToSet(Sections)
             P == MappedPartitions(f.db)
  <2> HIDE DEF D, P
  <2>1. v = [s \in D |-> v[s]]
    BY DEF D
  <2>2. [v EXCEPT !.Partitions = P] = [s \in D |-> IF s = "Partitions" THEN P ELSE v[s]]
    BY <2>1
  <2> QED
    BY <2>2 DEF D, P
<1>5. e = [s \in ToSet(Sections) |-> SectionOf(f, s, d)]
  BY <1>1, <1>4, PartitionsSection
<1> QED
  BY <1>3, <1>5 DEF ValuesOf

\* The rows set stay; a step appends at most the row of the file at hand.
LEMMA RowAppended ==
    ASSUME TypeInv, NEW w \in Workers, RowsSet(w), Busy(w), row[w] > 0,
           batch' = batch, row' = row, ignoreErrors' = ignoreErrors,
           \A i \in DOMAIN result[w] : OwnRow(w, i),
           NEW v, result' = [result EXCEPT ![w] = Append(@, v)],
           IF Fails(File(w)) THEN ignoreErrors /\ v = EmptyVpaxValue
           ELSE WithoutTimes(v, File(w)) \in ValuesOf(File(w))
    PROVE  \A i \in DOMAIN result'[w] : OwnRow(w, i)'
<1>1. result[w] \in Seq(Range(result[w])) /\ Len(result[w]) = row[w] - 1 /\ row[w] \in Nat
  BY DEF RowsSet, Busy, TypeInv, TypeOK
<1>2. result'[w] = Append(result[w], v)
  BY DEF TypeInv, TypeOK
<1> SUFFICES ASSUME NEW i \in DOMAIN result'[w] PROVE OwnRow(w, i)'
  OBVIOUS
<1>3. FileAt(w, i)' = FileAt(w, i)
  BY DEF FileAt
<1>4. CASE i \in DOMAIN result[w]
  <2>1. result'[w][i] = result[w][i]
    BY <1>1, <1>2, <1>4, AppendRow
  <2> QED
    BY <1>3, <1>4, <2>1 DEF OwnRow
<1>5. CASE i \notin DOMAIN result[w]
  <2>1. i = row[w] /\ result'[w][i] = v
    BY <1>1, <1>2, <1>5, AppendRow
  <2>2. batch[w][row[w]] \in DOMAIN Contents
    BY FileInChunk
  <2>3. FileAt(w, i) = File(w) /\ Values[batch[w][i]] = ValuesOf(File(w))
    BY <2>1, <2>2 DEF File, FileAt, Values
  <2> QED
    BY <1>3, <2>1, <2>3 DEF OwnRow
<1> QED
  BY <1>4, <1>5

\* A failure ends the file at hand: an empty row or the end of the query.
LEMMA RowOfThrow ==
    ASSUME TypeInv, NEW w \in Workers, RowsSet(w), RowsOfWorker(w), Busy(w), row[w] > 0,
           batch' = batch, row' = row, ignoreErrors' = ignoreErrors,
           Handle(w), Fails(File(w))
    PROVE  RowsOfWorker(w)'
<1>1. pc'[w] = IF ignoreErrors THEN "next" ELSE "error"
  BY HandleTypes DEF TypeInv, TypeOK
<1>2. \A i \in DOMAIN result[w] : OwnRow(w, i)
  BY DEF RowsOfWorker
<1>3. File(w)' = File(w) /\ \A i : FileAt(w, i)' = FileAt(w, i)
  BY DEF File, FileAt
<1>4. CASE ignoreErrors
  <2>1. result' = [result EXCEPT ![w] = Append(@, EmptyVpaxValue)]
    BY <1>4 DEF Handle, EmptyRow
  <2>2. \A i \in DOMAIN result'[w] : OwnRow(w, i)'
    BY <1>2, <1>4, <2>1, RowAppended
  <2> QED
    BY <1>1, <1>4, <2>2 DEF RowsOfWorker, Querying, Building, Formatting
<1>5. CASE ~ignoreErrors
  <2>1. result' = result
    BY <1>5 DEF Handle
  <2>2. \A i \in DOMAIN result'[w] : OwnRow(w, i)'
    BY <1>2, <1>3, <2>1 DEF OwnRow
  <2>3. Fails(File(w))'
    BY <1>3 DEF Fails
  <2> QED
    BY <1>1, <1>5, <2>2, <2>3 DEF RowsOfWorker, Querying, Building, Formatting
<1> QED
  BY <1>4, <1>5

\* A step within a file sets no row.
LEMMA RowsUntouched ==
    ASSUME NEW w \in Workers, RowsOfWorker(w), batch' = batch, row'[w] = row[w],
           ignoreErrors' = ignoreErrors, result'[w] = result[w]
    PROVE  /\ File(w)' = File(w)
           /\ \A i \in DOMAIN result'[w] : OwnRow(w, i)'
BY DEF RowsOfWorker, OwnRow, File, FileAt

\* One more query has run.
LEMMA PrefetchRows ==
    ASSUME TypeInv, NEW w \in Workers, RowsOfWorker(w), Prefetch(w)
    PROVE  RowsOfWorker(w)'
<1>1. /\ pc[w] = "prefetch" /\ pc'[w] = "prefetch" /\ step[w] <= Len(Queries)
      /\ Query(w) \notin File(w).faults
      /\ UNCHANGED <<batch, ignoreErrors, row, value, result>>
      /\ step' = [step EXCEPT ![w] = step[w] + 1]
  BY DEF Prefetch, GotoStep, Goto, chunkVars, TypeInv, TypeOK
<1>2. Fetched(w) /\ value[w] = EmptyVpaxValue
  BY <1>1 DEF RowsOfWorker, Querying
<1>3. step[w] \in 1 .. 9 /\ step'[w] = step[w] + 1 /\ DOMAIN Queries = 1 .. 7 /\ step[w] \in 1 .. 7
  <2>1. step[w] \in 1 .. 9 /\ step'[w] = step[w] + 1
    BY <1>1, StepNumber DEF TypeInv, TypeOK
  <2> QED
    BY <1>1, <2>1, Lengths DEF Queries
<1>4. Query(w) = Queries[step[w]] /\ Query(w) \in ToSet(Queries)
  BY <1>3, QueryAt, Lengths DEF Query
<1>5. data[w][Query(w)] = EmptyMap
  BY <1>2, <1>3, <1>4 DEF Fetched
<1> DEFINE q == Query(w)
<1>6. PICK map \in Maps(File(w), q) : data' = [data EXCEPT ![w][q] = map]
  <2>1. Fetch(q, data[w], File(w).db, FileSizeMap(File(w).files), File(w).hasSize)
          = Maps(File(w), q)
    BY <1>4, <1>5, FetchFresh
  <2> QED
    BY <2>1 DEF Prefetch
<1> HIDE DEF q
<1>7. data'[w] = [data[w] EXCEPT ![q] = map]
  BY <1>6 DEF TypeInv, TypeOK
<1>8. File(w)' = File(w) /\ \A i \in DOMAIN result'[w] : OwnRow(w, i)'
  BY <1>1, RowsUntouched
<1>9. Fetched(w)'
  <2>1. data'[w] = [p \in ToSet(Queries) |-> data'[w][p]]
    BY <1>2, <1>7 DEF Fetched
  <2>2. ASSUME NEW k \in DOMAIN Queries
        PROVE  IF k < step'[w]
               THEN /\ Queries[k] \notin File(w).faults
                    /\ data'[w][Queries[k]] \in Maps(File(w), Queries[k])
               ELSE data'[w][Queries[k]] = EmptyMap
    <3>1. CASE k = step[w]
      <4>1. Queries[k] = q /\ k < step'[w]
        BY <1>3, <1>4, <3>1 DEF q
      <4>2. data'[w][q] = map
        BY <1>2, <1>4, <1>7 DEF Fetched, q
      <4> QED
        BY <1>1, <1>6, <4>1, <4>2 DEF q
    <3>2. CASE k # step[w]
      <4>1. Queries[k] # q
        BY <1>3, <1>4, <3>2 DEF Queries, q
      <4>2. data'[w][Queries[k]] = data[w][Queries[k]]
        BY <1>2, <1>7, <4>1 DEF Fetched
      <4>3. k \in 1 .. 7 /\ (k < step'[w] <=> k < step[w])
        BY <1>3, <3>2
      <4> QED
        BY <1>2, <4>2, <4>3 DEF Fetched
    <3> QED
      BY <3>1, <3>2
  <2> QED
    BY <1>8, <2>1, <2>2 DEF Fetched
<1> QED
  BY <1>1, <1>2, <1>8, <1>9 DEF RowsOfWorker, Querying, Building, Formatting

\* The queries are over: the maps are complete, and no section is built.
LEMMA PrefetchEndRows ==
    ASSUME TypeInv, NEW w \in Workers, RowsOfWorker(w), Progress(w), row[w] > 0,
           PrefetchEnds(w)
    PROVE  RowsOfWorker(w)'
<1>1. /\ pc[w] = "prefetch" /\ pc'[w] = "build" /\ step[w] > Len(Queries)
      /\ UNCHANGED <<batch, ignoreErrors, row, data, value, result>>
      /\ step'[w] = 1
  BY DEF PrefetchEnds, GotoStep, Goto, chunkVars, buildVars, TypeInv, TypeOK
<1>2. Fetched(w) /\ value[w] = EmptyVpaxValue
  BY <1>1 DEF RowsOfWorker, Querying
<1>3. \A k \in DOMAIN Queries : k < step[w]
  <2>1. step[w] \in 1 .. 9 /\ DOMAIN Queries = 1 .. 7
    BY StepNumber DEF Queries
  <2> QED
    BY <1>1, <2>1, Lengths
<1>4. File(w)' = File(w) /\ \A i \in DOMAIN result'[w] : OwnRow(w, i)'
  BY <1>1, RowsUntouched
<1>5. data[w] \in DataOf(File(w))
  BY <1>2, <1>3, AllFetched DEF Fetched
<1>6. DataOfContents[batch[w][row[w]]] = DataOf(File(w))
  BY FileInChunk DEF DataOfContents, File, FileAt
<1>7. ToSet(Queries) \cap File(w).faults = {}
  BY <1>2, <1>3 DEF Fetched, ToSet
<1>8. /\ EmptyVpaxValue = [s \in ToSet(Sections) |-> EmptyVpaxValue[s]]
      /\ \A k \in DOMAIN Sections : EmptyVpaxValue[Sections[k]] = {} /\ ~(k < 1)
      /\ EmptyVpaxValue.Partitions = {}
  BY NoTimes DEF EmptyVpaxValue, Sections, ToSet
<1>9. Built(w)'
  BY <1>1, <1>2, <1>4, <1>5, <1>6, <1>7, <1>8 DEF Built
<1>10. ToList(w)' = MappedPartitions(File(w).db)
  BY <1>1, <1>4, <1>8 DEF ToList
<1>11. (ListedIn(value[w].Partitions, File(w)) = MappedPartitions(File(w).db) \ ToList(w))'
  BY <1>1, <1>2, <1>4, <1>8, <1>10 DEF ListedIn
<1> QED
  BY <1>1, <1>4, <1>9, <1>11 DEF RowsOfWorker, Querying, Building, Formatting

\* Which section comes when.
LEMMA PartitionsAt ==
    /\ DOMAIN Sections = 1 .. 8
    /\ \A k \in 1 .. 8 : (Sections[k] = "Partitions") <=> (k = 7)
    /\ \A j, k \in 1 .. 8 : Sections[j] = Sections[k] => j = k
BY DEF Sections

\* One more section is built; the rows of the partitions are taken one by one.
LEMMA BuildRows ==
    ASSUME TypeInv, NEW w \in Workers, RowsOfWorker(w), Build(w)
    PROVE  RowsOfWorker(w)'
<1>1. /\ pc[w] = "build" /\ step[w] \in 1 .. 8
      /\ Section(w) = Sections[step[w]] /\ Section(w) \notin File(w).faults
      /\ UNCHANGED <<batch, ignoreErrors, row, data, result>>
  <2>1. step[w] <= Len(Sections)
    BY DEF Build
  <2>2. step[w] \in 1 .. 9
    BY StepNumber
  <2>3. step[w] \in 1 .. 8
    BY <2>1, <2>2, Lengths
  <2> QED
    BY <2>3 DEF Build, Section, chunkVars
<1>2. Built(w) /\ ListedIn(value[w].Partitions, File(w)) = MappedPartitions(File(w).db) \ ToList(w)
  BY <1>1 DEF RowsOfWorker, Building
<1>3. File(w)' = File(w) /\ \A i \in DOMAIN result'[w] : OwnRow(w, i)'
  BY <1>1, RowsUntouched
<1>4. CASE Section(w) = "Partitions"
  <2>1. /\ pc'[w] = "times" /\ step' = step /\ value' = value
        /\ remaining'[w] = MappedPartitions(File(w).db)
    BY <1>1, <1>4 DEF Build, BuildSection, Goto, TypeInv, TypeOK
  <2>2. Built(w)'
    BY <1>1, <1>2, <1>3, <2>1 DEF Built
  <2>3. ToList(w) = MappedPartitions(File(w).db) /\ ToList(w)' = MappedPartitions(File(w).db)
    <3>1. ~ \E k \in DOMAIN Sections : k < step[w] /\ Sections[k] = "Partitions"
      <4>1. step[w] = 7
        BY <1>1, <1>4, PartitionsAt
      <4>2. \A k \in DOMAIN Sections : Sections[k] = "Partitions" => k = 7
        BY PartitionsAt
      <4> QED
        BY <4>1, <4>2
    <3> QED
      BY <1>1, <2>1, <3>1 DEF ToList
  <2>4. (ListedIn(value[w].Partitions, File(w)) = MappedPartitions(File(w).db) \ ToList(w))'
    BY <1>2, <1>3, <2>1, <2>3 DEF ListedIn
  <2>5. Section(w)' = "Partitions" /\ Section(w)' \notin File(w)'.faults
    BY <1>1, <1>3, <1>4, <2>1 DEF Section
  <2> QED
    BY <1>3, <2>1, <2>2, <2>4, <2>5 DEF RowsOfWorker, Querying, Building, Formatting
<1>5. CASE Section(w) # "Partitions"
  <2> DEFINE s == Section(w)
             rows == SectionOf(File(w), s, data[w])
  <2>1. /\ pc'[w] = "build" /\ step'[w] = step[w] + 1
        /\ value' = [value EXCEPT ![w][s] = rows]
    BY <1>1, <1>5 DEF Build, SectionOf, GotoStep, Goto, TypeInv, TypeOK
  <2>2. value'[w] = [value[w] EXCEPT ![s] = rows]
    BY <2>1 DEF TypeInv, TypeOK
  <2>3. s \in ToSet(Sections) /\ "Partitions" \in ToSet(Sections) /\ s # "Partitions"
    BY <1>1, <1>5, SectionAt, Lengths DEF Sections, ToSet
  <2> HIDE DEF s, rows
  <2>4. value'[w] = [x \in ToSet(Sections) |-> value'[w][x]]
    BY <1>2, <2>2 DEF Built
  <2>5. value'[w][s] = rows /\ \A x \in ToSet(Sections) : x # s => value'[w][x] = value[w][x]
    BY <1>2, <2>2, <2>3 DEF Built
  <2>6. ASSUME NEW k \in DOMAIN Sections
        PROVE  /\ k < step'[w] => Sections[k] \notin File(w).faults
               /\ Sections[k] # "Partitions" =>
                     value'[w][Sections[k]]
                       = IF k < step'[w] THEN SectionOf(File(w), Sections[k], data[w]) ELSE {}
    <3>1. CASE k = step[w]
      <4>1. Sections[k] = s /\ k < step'[w]
        BY <1>1, <2>1, <3>1 DEF s
      <4> QED
        BY <1>1, <2>5, <4>1 DEF s, rows
    <3>2. CASE k # step[w]
      <4>1. k \in 1 .. 8 /\ (k < step'[w] <=> k < step[w])
        BY <1>1, <2>1, <3>2, PartitionsAt
      <4>2. Sections[k] # s /\ Sections[k] \in ToSet(Sections)
        BY <1>1, <3>2, <4>1, PartitionsAt, SectionAt, Lengths DEF s
      <4>3. value'[w][Sections[k]] = value[w][Sections[k]]
        BY <2>5, <4>2
      <4> QED
        BY <1>2, <4>1, <4>3 DEF Built
    <3> QED
      BY <3>1, <3>2
  <2>7. Built(w)'
    BY <1>1, <1>2, <1>3, <2>4, <2>6 DEF Built
  <2>8. value'[w].Partitions = value[w].Partitions
    BY <2>3, <2>5
  <2>9. ToList(w)' = ToList(w)
    <3>1. \A k \in 1 .. 8 : Sections[k] = "Partitions" => (k < step'[w] <=> k < step[w])
      BY <1>1, <1>5, <2>1, PartitionsAt
    <3> QED
      BY <1>1, <1>3, <2>1, <3>1, PartitionsAt DEF ToList
  <2>10. (ListedIn(value[w].Partitions, File(w)) = MappedPartitions(File(w).db) \ ToList(w))'
    BY <1>2, <1>3, <2>8, <2>9 DEF ListedIn
  <2> QED
    BY <1>3, <2>1, <2>7, <2>10 DEF RowsOfWorker, Querying, Building, Formatting
<1> QED
  BY <1>4, <1>5

\* Listing a partition, and the ones that are left.
LEMMA ListedOne ==
    ASSUME TypeInv, NEW w \in Workers, row[w] > 0, batch' = batch, row' = row,
           Built(w), UNCHANGED <<data, step>>,
           NEW p \in MappedPartitions(File(w).db), NEW text, Listed(w, p, text),
           NEW rest, p \notin rest,
           ListedIn(value[w].Partitions, File(w))
             = MappedPartitions(File(w).db) \ (rest \cup {p})
    PROVE  /\ Built(w)'
           /\ ListedIn(value'[w].Partitions, File(w)) = MappedPartitions(File(w).db) \ rest
<1>1. /\ value'[w] = [value[w] EXCEPT !.Partitions = @ \cup {PartitionRow(p, text)}]
      /\ "Partitions" \in ToSet(Sections)
  BY DEF Listed, TypeInv, TypeOK, Sections, ToSet
<1> DEFINE more == value[w].Partitions \cup {PartitionRow(p, text)}
<1>2. value'[w] = [value[w] EXCEPT !.Partitions = more]
  BY <1>1
<1>3. value'[w].Partitions = more
  BY <1>1 DEF Built
<1>4. ListedIn(more, File(w)) = MappedPartitions(File(w).db) \ rest
  <2>1. p \in File(w).db.partitions /\ \A q \in File(w).db.partitions : q.id = p.id => q = p
    <3>1. p \in File(w).db.partitions
      BY DEF MappedPartitions
    <3>2. batch[w][row[w]] \in DOMAIN Contents /\ File(w) = Contents[batch[w][row[w]]]
      BY FileInChunk DEF File, FileAt
    <3> QED
      BY <3>1, <3>2, PartitionsAssumption
  <2>2. PartitionRow(p, text).partition = p.id
    BY DEF PartitionRow
  <2>3. ASSUME NEW q \in File(w).db.partitions
        PROVE  (\E r \in more : r.partition = q.id)
                 <=> (\E r \in value[w].Partitions : r.partition = q.id) \/ q = p
    BY <2>1, <2>2
  <2>4. ListedIn(more, File(w)) = ListedIn(value[w].Partitions, File(w)) \cup {p}
    <3> HIDE DEF more
    <3> QED
      BY <2>1, <2>3 DEF ListedIn
  <2>5. p \in MappedPartitions(File(w).db)
    OBVIOUS
  <2> HIDE DEF more
  <2> QED
    BY <2>4, <2>5
<1> HIDE DEF more
<1>5. File(w)' = File(w)
  BY DEF File, FileAt
<1>6. /\ value[w] = [s \in ToSet(Sections) |-> value[w][s]]
      /\ data[w] \in DataOfContents[batch[w][row[w]]]
      /\ ToSet(Queries) \cap File(w).faults = {}
      /\ \A k \in DOMAIN Sections :
            /\ k < step[w] => Sections[k] \notin File(w).faults
            /\ Sections[k] # "Partitions" =>
                  value[w][Sections[k]] = IF k < step[w] THEN SectionOf(File(w), Sections[k], data[w])
                                          ELSE {}
  BY DEF Built
<1>7. /\ value'[w] = [s \in ToSet(Sections) |-> value'[w][s]]
      /\ \A s \in ToSet(Sections) : s # "Partitions" => value'[w][s] = value[w][s]
  BY <1>2, <1>6
<1>8. \A k \in DOMAIN Sections : Sections[k] \in ToSet(Sections)
  BY DEF ToSet
<1>9. Built(w)'
  BY <1>5, <1>6, <1>7, <1>8 DEF Built
<1> QED
  BY <1>3, <1>4, <1>9

\* The times of the partitions, one after the other.
LEMMA TimesRows ==
    ASSUME TypeInv, NEW w \in Workers, TimesOfWorker(w), RowsOfWorker(w), row[w] > 0,
           StartTime(w) \/ FinishTime(w) \/ EndTimes(w)
    PROVE  RowsOfWorker(w)'
<1>1. /\ pc[w] \in {"times", "format"}
      /\ UNCHANGED <<batch, ignoreErrors, row, data, result>>
  BY DEF StartTime, FinishTime, EndTimes, Formatting, chunkVars, buildVars
<1>2. /\ Built(w)
      /\ ListedIn(value[w].Partitions, File(w)) = MappedPartitions(File(w).db) \ ToList(w)
      /\ Section(w) = "Partitions" /\ Section(w) \notin File(w).faults
      /\ remaining[w] \subseteq MappedPartitions(File(w).db)
      /\ Formatting(w) => /\ current[w] \notin remaining[w]
                          /\ current[w] \in MappedPartitions(File(w).db)
  BY <1>1 DEF RowsOfWorker, Building, TimesOfWorker, TimeAtHand, Formatting
<1>3. File(w)' = File(w) /\ \A i \in DOMAIN result'[w] : OwnRow(w, i)'
  BY <1>1, RowsUntouched
<1>4. CASE StartTime(w)
  <2>1. PICK p \in remaining[w] :
          /\ remaining' = [remaining EXCEPT ![w] = @ \ {p}]
          /\ IF p.ticks <= 0
             THEN Listed(w, p, {}) /\ UNCHANGED <<pc, current>>
             ELSE /\ current' = [current EXCEPT ![w] = p]
                  /\ Goto(w, "format")
                  /\ UNCHANGED value
    BY <1>4 DEF StartTime
  <2>2. /\ pc[w] = "times" /\ step' = step /\ remaining'[w] = remaining[w] \ {p}
        /\ ToList(w) = remaining[w] /\ remaining[w] = remaining'[w] \cup {p}
    BY <1>4, <2>1 DEF StartTime, TypeInv, TypeOK, ToList
  <2>3. Section(w)' = "Partitions" /\ Section(w)' \notin File(w)'.faults
    BY <1>2, <1>3, <2>2 DEF Section
  <2>4. CASE p.ticks <= 0
    <3>1. /\ Built(w)'
          /\ ListedIn(value'[w].Partitions, File(w)) = MappedPartitions(File(w).db) \ remaining'[w]
      <4> DEFINE rest == remaining[w] \ {p}
      <4>1. p \notin rest /\ rest \cup {p} = remaining[w] /\ p \in MappedPartitions(File(w).db)
        BY <1>2
      <4> HIDE DEF rest
      <4>2. /\ Built(w)'
            /\ ListedIn(value'[w].Partitions, File(w)) = MappedPartitions(File(w).db) \ rest
        BY <1>1, <1>2, <2>1, <2>2, <2>4, <4>1, ListedOne
      <4> QED
        BY <2>2, <4>2 DEF rest
    <3>2. pc' = pc /\ ToList(w)' = remaining'[w]
      BY <2>1, <2>2, <2>4 DEF ToList
    <3>3. (ListedIn(value[w].Partitions, File(w)) = MappedPartitions(File(w).db) \ ToList(w))'
      BY <1>3, <3>1, <3>2 DEF ListedIn
    <3> QED
      BY <1>1, <1>3, <2>2, <2>3, <3>1, <3>2, <3>3
         DEF RowsOfWorker, Querying, Building, Formatting
  <2>5. CASE ~(p.ticks <= 0)
    <3>1. pc'[w] = "format" /\ current'[w] = p /\ value' = value
      BY <2>1, <2>5 DEF Goto, TypeInv, TypeOK
    <3>2. Built(w)'
      BY <1>1, <1>2, <1>3, <2>2, <3>1 DEF Built
    <3>3. ToList(w)' = ToList(w)
      BY <2>2, <3>1 DEF ToList
    <3>4. (ListedIn(value[w].Partitions, File(w)) = MappedPartitions(File(w).db) \ ToList(w))'
      BY <1>2, <1>3, <3>1, <3>3 DEF ListedIn
    <3> QED
      BY <1>3, <2>2, <2>3, <3>1, <3>2, <3>4 DEF RowsOfWorker, Querying, Building, Formatting
  <2> QED
    BY <2>4, <2>5
<1>5. CASE FinishTime(w)
  <2>1. /\ Formatting(w) /\ pc'[w] = "times" /\ UNCHANGED <<step, remaining, current>>
        /\ \E text : Listed(w, current[w], text)
    BY <1>5 DEF FinishTime, Goto, TypeInv, TypeOK
  <2>2. ToList(w) = remaining[w] \cup {current[w]} /\ ToList(w)' = remaining[w]
    BY <2>1 DEF ToList, Formatting
  <2>3. /\ Built(w)'
        /\ ListedIn(value'[w].Partitions, File(w)) = MappedPartitions(File(w).db) \ remaining[w]
    <3> DEFINE rest == remaining[w]
               p == current[w]
    <3>1. /\ p \notin rest /\ p \in MappedPartitions(File(w).db)
          /\ ListedIn(value[w].Partitions, File(w))
               = MappedPartitions(File(w).db) \ (rest \cup {p})
          /\ \E text : Listed(w, p, text)
      BY <1>2, <2>1, <2>2
    <3> HIDE DEF rest, p
    <3>2. /\ Built(w)'
          /\ ListedIn(value'[w].Partitions, File(w)) = MappedPartitions(File(w).db) \ rest
      BY <1>1, <1>2, <2>1, <3>1, ListedOne
    <3> QED
      BY <3>2 DEF rest
  <2>4. (ListedIn(value[w].Partitions, File(w)) = MappedPartitions(File(w).db) \ ToList(w))'
    BY <1>3, <2>2, <2>3 DEF ListedIn
  <2>5. Section(w)' = "Partitions" /\ Section(w)' \notin File(w)'.faults
    BY <1>2, <1>3, <2>1 DEF Section
  <2> QED
    BY <1>3, <2>1, <2>3, <2>4, <2>5 DEF RowsOfWorker, Querying, Building, Formatting
<1>6. CASE EndTimes(w)
  <2>1. /\ pc[w] = "times" /\ remaining[w] = {} /\ pc'[w] = "build" /\ value' = value
        /\ step[w] \in 1 .. 9 /\ step'[w] = step[w] + 1
    BY <1>6, StepNumber DEF EndTimes, GotoStep, Goto, buildVars, TypeInv, TypeOK
  <2>2. step[w] = 7
    <3>1. step[w] <= Len(Sections)
      BY <2>1 DEF TypeInv
    <3>2. step[w] \in 1 .. 8
      BY <2>1, <3>1, Lengths
    <3> QED
      BY <1>2, <3>2, PartitionsAt DEF Section
  <2>3. ASSUME NEW k \in DOMAIN Sections
        PROVE  /\ k < step'[w] => Sections[k] \notin File(w).faults
               /\ Sections[k] # "Partitions" =>
                     value[w][Sections[k]]
                       = IF k < step'[w] THEN SectionOf(File(w), Sections[k], data[w]) ELSE {}
    <3>1. k \in 1 .. 8
      BY PartitionsAt
    <3>2. CASE k = 7
      BY <1>2, <2>1, <2>2, <3>2, PartitionsAt DEF Section
    <3>3. CASE k # 7
      <4>1. k < step'[w] <=> k < step[w]
        BY <2>1, <2>2, <3>1, <3>3
      <4> QED
        BY <1>2, <4>1 DEF Built
    <3> QED
      BY <3>2, <3>3
  <2>4. Built(w)'
    BY <1>1, <1>2, <1>3, <2>1, <2>3 DEF Built
  <2>5. ToList(w) = {} /\ ToList(w)' = {}
    <3>1. 7 \in DOMAIN Sections /\ Sections[7] = "Partitions" /\ 7 < step'[w]
      BY <2>1, <2>2, PartitionsAt
    <3> QED
      BY <2>1, <3>1 DEF ToList
  <2>6. (ListedIn(value[w].Partitions, File(w)) = MappedPartitions(File(w).db) \ ToList(w))'
    BY <1>2, <1>3, <2>1, <2>5 DEF ListedIn
  <2> QED
    BY <1>3, <2>1, <2>4, <2>6 DEF RowsOfWorker, Querying, Building, Formatting
<1> QED
  BY <1>4, <1>5, <1>6

\* The value is complete, and the file has not failed.
LEMMA DeliverRows ==
    ASSUME TypeInv, NEW w \in Workers, RowsSet(w), RowsOfWorker(w), Progress(w), row[w] > 0,
           Deliver(w)
    PROVE  RowsOfWorker(w)'
<1>1. /\ pc[w] = "build" /\ pc'[w] = "next" /\ step[w] > Len(Sections)
      /\ UNCHANGED <<batch, ignoreErrors, row>>
      /\ result' = [result EXCEPT ![w] = Append(@, value[w])]
  BY DEF Deliver, Goto, chunkVars, TypeInv, TypeOK
<1>2. /\ Built(w)
      /\ ListedIn(value[w].Partitions, File(w)) = MappedPartitions(File(w).db) \ ToList(w)
      /\ \A i \in DOMAIN result[w] : OwnRow(w, i)
  BY <1>1 DEF RowsOfWorker, Building
<1>3. step[w] = 9 /\ \A k \in DOMAIN Sections : k < step[w]
  <2>1. step[w] \in 1 .. 9
    BY StepNumber
  <2>2. step[w] = 9
    BY <1>1, <2>1, Lengths
  <2> QED
    BY <2>2, PartitionsAt
<1>4. ToList(w) = {}
  <2>1. 7 \in DOMAIN Sections /\ Sections[7] = "Partitions" /\ 7 < step[w]
    BY <1>3, PartitionsAt
  <2> QED
    BY <1>1, <2>1 DEF ToList
<1>5. batch[w][row[w]] \in DOMAIN Contents /\ File(w) = Contents[batch[w][row[w]]]
  BY FileInChunk DEF File, FileAt
<1>6. data[w] \in DataOf(File(w))
  BY <1>2, <1>5 DEF Built, DataOfContents
<1>7. ~Fails(File(w))
  <2>1. File(w).parses /\ File(w).opens = "ok"
    BY <1>1 DEF Progress, Building
  <2>2. ToSet(Sections) \cap File(w).faults = {}
    BY <1>2, <1>3 DEF Built, ToSet
  <2>3. ToSet(Queries) \cap File(w).faults = {}
    BY <1>2 DEF Built
  <2>4. File(w).faults \subseteq ToSet(Queries) \cup ToSet(Sections)
    BY <1>5, FaultsAssumption
  <2>5. File(w).faults = {}
    BY <2>2, <2>3, <2>4
  <2> QED
    BY <2>1, <2>5 DEF Fails
<1>8. WithoutTimes(value[w], File(w)) \in ValuesOf(File(w))
  <2>1. /\ value[w] = [s \in ToSet(Sections) |-> value[w][s]]
        /\ \A k \in DOMAIN Sections :
              Sections[k] # "Partitions" =>
                 value[w][Sections[k]] = SectionOf(File(w), Sections[k], data[w])
    BY <1>2, <1>3 DEF Built
  <2>2. ListedIn(value[w].Partitions, File(w)) = MappedPartitions(File(w).db)
    BY <1>2, <1>4
  <2> QED
    BY <1>6, <2>1, <2>2, AllBuilt
<1>9. Busy(w)
  BY <1>1 DEF Busy
<1>10. \A i \in DOMAIN result'[w] : OwnRow(w, i)'
  BY <1>1, <1>2, <1>7, <1>8, <1>9, RowAppended
<1> QED
  BY <1>1, <1>10 DEF RowsOfWorker, Querying, Building, Formatting

\* What the worker's own step does to its rows and to the file at hand.
LEMMA StepRows ==
    ASSUME TimesInv, \A v \in Workers : RowsOfWorker(v), NEW w \in Workers, WorkerStep(w)
    PROVE  RowsOfWorker(w)'
<1>1. /\ TypeInv /\ RowsOfWorker(w) /\ TimesOfWorker(w) /\ RowsSet(w) /\ Progress(w)
      /\ Busy(w) => row[w] > 0
  BY TimesInvOfWorkers, HandleInvTypes DEF HandleInv, Progress, AtRest, Busy, TimesOfWorker
<1>2. CASE NextFile(w)
  <2>1. pc[w] = "next" /\ UNCHANGED <<batch, ignoreErrors, result>>
    BY <1>2 DEF NextFile, chunkVars
  <2>2. \A i \in DOMAIN result'[w] : OwnRow(w, i)'
    BY <1>1, <2>1 DEF RowsOfWorker, OwnRow, FileAt
  <2>3. CASE EndOfChunk(w)
    <3>1. pc'[w] = "done"
      BY <1>1, <1>2, <2>3 DEF NextFile, Goto, TypeInv, TypeOK
    <3> QED
      BY <2>2, <3>1 DEF RowsOfWorker, Querying, Building, Formatting
  <2>4. CASE ~EndOfChunk(w)
    <3>1. /\ pc'[w] = "parse" /\ value'[w] = EmptyVpaxValue /\ data'[w] = NothingFetched
      BY <1>1, <1>2, <2>4 DEF NextFile, FreshData, Goto, TypeInv, TypeOK
    <3> QED
      BY <2>2, <3>1 DEF RowsOfWorker, Querying, Building, Formatting
  <2> QED
    BY <2>3, <2>4
<1>3. CASE ParseFile(w)
  <2>1. /\ pc[w] = "parse" /\ Busy(w)
        /\ UNCHANGED <<batch, ignoreErrors, row, data, value>>
    BY <1>3 DEF ParseFile, Busy, chunkVars, buildVars
  <2>2. CASE File(w).parses
    <3>1. pc'[w] = "open" /\ result' = result
      BY <1>1, <1>3, <2>2 DEF ParseFile, Goto, TypeInv, TypeOK
    <3>2. \A i \in DOMAIN result'[w] : OwnRow(w, i)'
      BY <1>1, <2>1, <3>1, RowsUntouched
    <3> QED
      BY <1>1, <2>1, <3>1, <3>2 DEF RowsOfWorker, Querying, Building, Formatting
  <2>3. CASE ~File(w).parses
    <3>1. Fails(File(w)) /\ Handle(w)
      BY <1>3, <2>3 DEF Fails, ParseFile
    <3> QED
      BY <1>1, <2>1, <3>1, RowOfThrow
  <2> QED
    BY <2>2, <2>3
<1>4. CASE OpenFromBuffer(w)
  <2>1. /\ pc[w] = "open" /\ pc'[w] = "prefetch" /\ step'[w] = 1
        /\ UNCHANGED <<batch, ignoreErrors, row, data, value, result>>
    BY <1>1, <1>4 DEF OpenFromBuffer, GotoStep, Goto, chunkVars, buildVars, TypeInv, TypeOK
  <2>2. data[w] = NothingFetched /\ value[w] = EmptyVpaxValue
    BY <1>1, <2>1 DEF RowsOfWorker
  <2>3. \A i \in DOMAIN result'[w] : OwnRow(w, i)'
    BY <1>1, <2>1, RowsUntouched
  <2>4. Fetched(w)'
    <3>1. NothingFetched = [q \in ToSet(Queries) |-> EmptyMap]
      BY DEF NothingFetched
    <3>2. \A k \in DOMAIN Queries : ~(k < 1) /\ Queries[k] \in ToSet(Queries)
      BY DEF Queries, ToSet
    <3>3. data'[w] = NothingFetched
      BY <2>1, <2>2
    <3>4. data'[w] = [q \in ToSet(Queries) |-> data'[w][q]]
      BY <3>1, <3>3
    <3>5. \A k \in DOMAIN Queries : data'[w][Queries[k]] = EmptyMap /\ ~(k < step'[w])
      BY <2>1, <3>1, <3>2, <3>3
    <3> QED
      BY <3>4, <3>5 DEF Fetched
  <2> QED
    BY <2>1, <2>2, <2>3, <2>4 DEF RowsOfWorker, Querying, Building, Formatting
<1>5. CASE OpenRefused(w)
  <2>1. /\ Busy(w) /\ Handle(w) /\ Fails(File(w))
        /\ UNCHANGED <<batch, ignoreErrors, row>>
    BY <1>5 DEF OpenRefused, Busy, Fails, chunkVars
  <2> QED
    BY <1>1, <2>1, RowOfThrow
<1>6. CASE DeserializeFails(w)
  <2>1. /\ Busy(w) /\ Fails(File(w)) /\ UNCHANGED <<batch, ignoreErrors, row>>
    BY <1>6 DEF DeserializeFails, Busy, Fails, chunkVars
  <2>2. CASE Handle(w)
    BY <1>1, <2>1, <2>2, RowOfThrow
  <2>3. CASE Goto(w, "wild") /\ UNCHANGED result
    <3>1. pc'[w] = "wild"
      BY <1>1, <2>3 DEF Goto, TypeInv, TypeOK
    <3>2. \A i \in DOMAIN result'[w] : OwnRow(w, i)'
      BY <1>1, <2>1, <2>3, RowsUntouched
    <3> QED
      BY <3>1, <3>2 DEF RowsOfWorker, Querying, Building, Formatting
  <2> QED
    BY <1>6, <2>2, <2>3 DEF DeserializeFails
<1>7. CASE Prefetch(w)
  BY <1>1, <1>7, PrefetchRows
<1>8. CASE PrefetchThrows(w) \/ BuildThrows(w)
  <2>1. /\ Busy(w) /\ Handle(w) /\ Fails(File(w))
        /\ UNCHANGED <<batch, ignoreErrors, row>>
    BY <1>8 DEF PrefetchThrows, BuildThrows, Busy, Fails, chunkVars
  <2> QED
    BY <1>1, <2>1, RowOfThrow
<1>9. CASE PrefetchEnds(w)
  <2>1. Busy(w)
    BY <1>9 DEF PrefetchEnds, Busy
  <2> QED
    BY <1>1, <1>9, <2>1, PrefetchEndRows
<1>10. CASE Build(w)
  <2>1. Busy(w)
    BY <1>10 DEF Build, Busy
  <2> QED
    BY <1>1, <1>10, <2>1, BuildRows
<1>11. CASE StartTime(w) \/ FinishTime(w) \/ EndTimes(w)
  <2>1. Busy(w)
    BY <1>11 DEF StartTime, FinishTime, EndTimes, Formatting, Busy
  <2> QED
    BY <1>1, <1>11, <2>1, TimesRows
<1>12. CASE Deliver(w)
  <2>1. Busy(w)
    BY <1>12 DEF Deliver, Busy
  <2> QED
    BY <1>1, <1>12, <2>1, DeliverRows
<1> QED
  BY <1>2, <1>3, <1>4, <1>5, <1>6, <1>7, <1>8, <1>9, <1>10, <1>11, <1>12 DEF WorkerStep

\* The rows of a worker are built from what it alone holds.
LEMMA RowsElsewhere ==
    ASSUME NEW v \in Workers, RowsOfWorker(v), batch' = batch, ignoreErrors' = ignoreErrors,
           pc'[v] = pc[v], row'[v] = row[v], step'[v] = step[v], data'[v] = data[v],
           value'[v] = value[v], result'[v] = result[v], remaining'[v] = remaining[v],
           current'[v] = current[v]
    PROVE  RowsOfWorker(v)'
<1>1. File(v)' = File(v) /\ \A i \in DOMAIN result'[v] : OwnRow(v, i)'
  BY RowsUntouched
<1>2. Fetched(v)' <=> Fetched(v)
  BY <1>1 DEF Fetched
<1>3. Built(v)' <=> Built(v)
  BY <1>1 DEF Built
<1>4. ToList(v)' = ToList(v)
  BY <1>1 DEF ToList
<1>5. Section(v)' = Section(v)
  BY DEF Section
<1> QED
  BY <1>1, <1>2, <1>3, <1>4, <1>5 DEF RowsOfWorker, Querying, Building, Formatting, ListedIn

LEMMA InitVpaxInv == Init => VpaxInv
<1> SUFFICES ASSUME Init, NEW w \in Workers PROVE RowsOfWorker(w)
  BY InitTimesInv DEF VpaxInv
<1>1. result[w] = <<>> /\ pc[w] = "next"
  BY DEF Init
<1> QED
  BY <1>1 DEF RowsOfWorker, Querying, Building, Formatting

LEMMA NextVpaxInv == VpaxInv /\ [Next]_vars => VpaxInv'
<1> SUFFICES ASSUME VpaxInv, [Next]_vars PROVE VpaxInv'
  OBVIOUS
<1>1. TimesInv /\ (\A v \in Workers : RowsOfWorker(v)) /\ TimesInv' /\ TypeInv
  BY NextTimesInv, TimesInvOfWorkers, HandleInvTypes DEF VpaxInv
<1>2. ASSUME NEW w \in Workers, WorkerStep(w), NEW v \in Workers PROVE RowsOfWorker(v)'
  <2>1. CASE v = w
    BY <1>1, <1>2, <2>1, StepRows
  <2>2. CASE v # w
    BY <1>1, <1>2, <2>2, OthersStay, RowsElsewhere
  <2> QED
    BY <2>1, <2>2
<1>3. ASSUME UNCHANGED vars, NEW v \in Workers PROVE RowsOfWorker(v)'
  BY <1>1, <1>3, RowsElsewhere DEF vars, chunkVars, buildVars
<1>4. \A v \in Workers : RowsOfWorker(v)'
  BY <1>2, <1>3 DEF Next, Finished
<1> QED
  BY <1>1, <1>4 DEF VpaxInv

\* Wherever the workers are, the maps each has fetched are those of the queries
\* its file at hand has run, the sections it has built those of these maps, and
\* the rows it has set those of its files.
THEOREM VpaxInvariant == Spec => []VpaxInv
BY InitVpaxInv, NextVpaxInv, PTL DEF Spec

\* For any workers, chunks and files: every row of pbix2vpax is the value of its
\* own file, whatever the files before it left and the workers beside it do, and
\* a file that fails gives an empty row or ends the query at that file.
THEOREM RowsAreOwn == Spec => []RowsAreOwnFiles
<1>1. VpaxInv => RowsAreOwnFiles
  <2> SUFFICES ASSUME VpaxInv, NEW w \in Workers
               PROVE  /\ \A i \in DOMAIN result[w] : OwnRow(w, i)
                      /\ pc[w] \in {"next", "done"} => Len(result[w]) = row[w]
                      /\ pc[w] = "error" =>
                            ~ignoreErrors /\ Fails(File(w)) /\ Len(result[w]) = row[w] - 1
    BY DEF RowsAreOwnFiles
  <2>1. RowsOfWorker(w) /\ RowsSet(w)
    BY DEF VpaxInv, TimesInv
  <2> QED
    BY <2>1 DEF RowsOfWorker, RowsSet
<1> QED
  BY <1>1, VpaxInvariant, PTL

-----------------------------------------------------------------------------
(* The sizes in the rows add up, in every file whose base names are unique *)
(* and whose database keeps its keys.                                      *)

\* What SizesAssumption says of a file of the chunks.
Counted(f) ==
    /\ f.files \in Seq(Range(f.files))
    /\ \A i \in DOMAIN f.files : f.files[i].size \in Nat
    /\ IsFiniteSet(f.db.tables) /\ IsFiniteSet(f.db.columns) /\ IsFiniteSet(f.db.storageFiles)

Proper(f) == Counted(f) /\ UniqueNames(f) /\ KeysHold(f.db)

\* The values of a function over a finite set.
LEMMA ImageFinite ==
    ASSUME NEW S, IsFiniteSet(S), NEW F
    PROVE  IsFiniteSet({F[x] : x \in S})
<1> DEFINE T == {F[x] : x \in S}
           g == [x \in S |-> F[x]]
<1>1. g \in Surjection(S, T)
  BY DEF Surjection
<1> HIDE DEF T, g
<1>2. IsFiniteSet(T)
  BY <1>1, FS_Surjection
<1> QED
  BY <1>2 DEF T

-----------------------------------------------------------------------------
(* The files of the model.                                                 *)

FileSizes(f) == [j \in DOMAIN f.files |-> f.files[j].size]
Indices(f, names) == {j \in DOMAIN f.files : f.files[j].name \in names}

\* The files of a model are finitely many, and their sizes are numbers.
LEMMA FileSizesFinite ==
    ASSUME NEW f, Counted(f)
    PROVE  /\ IsFiniteSet(DOMAIN f.files)
           /\ \A j \in DOMAIN f.files : FileSizes(f)[j] \in Nat
<1>1. DOMAIN f.files = 1 .. Len(f.files) /\ Len(f.files) \in Nat
  BY DEF Counted
<1>2. IsFiniteSet(1 .. Len(f.files))
  BY <1>1, FS_Interval
<1> QED
  BY <1>1, <1>2 DEF Counted, FileSizes

\* A size by name is the one of a file of that name.
LEMMA SizeByName ==
    ASSUME NEW f, Counted(f), NEW n
    PROVE  /\ GetFileSizeByName(FileSizeMap(f.files), n) \in Nat
           /\ \/ GetFileSizeByName(FileSizeMap(f.files), n) = 0
              \/ \E j \in DOMAIN f.files :
                    /\ f.files[j].name = n
                    /\ GetFileSizeByName(FileSizeMap(f.files), n) = FileSizes(f)[j]
<1> DEFINE m == FileSizeMap(f.files)
           js == {i \in DOMAIN f.files : f.files[i].name = n}
<1>1. CASE n \notin DOMAIN m
  BY <1>1 DEF GetFileSizeByName
<1>2. CASE n \in DOMAIN m
  <2>1. DOMAIN f.files = 1 .. Len(f.files) /\ Len(f.files) \in Nat
    BY DEF Counted
  <2>2. m[n] = f.files[Max(js)].size /\ n \in {x.name : x \in ToSet(f.files)}
    BY <1>2 DEF FileSizeMap
  <2>3. js # {}
    BY <2>2 DEF ToSet
  <2>4. js \in SUBSET Nat /\ \A y \in js : y <= Len(f.files)
    BY <2>1
  <2> HIDE DEF js
  <2>5. Max(js) \in js
    BY <2>1, <2>3, <2>4, NatMax
  <2>6. Max(js) \in DOMAIN f.files /\ f.files[Max(js)].name = n
    BY <2>5 DEF js
  <2>7. GetFileSizeByName(m, n) = m[n]
    BY <1>2 DEF GetFileSizeByName
  <2>8. m[n] = FileSizes(f)[Max(js)] /\ m[n] \in Nat
    BY <2>2, <2>6, FileSizesFinite DEF FileSizes
  <2> HIDE DEF m
  <2> QED
    BY <2>6, <2>7, <2>8 DEF m
<1> HIDE DEF m
<1> QED
  BY <1>1, <1>2

\* The files of some names are no larger than those files of the model.
LEMMA TotalBounded ==
    ASSUME NEW f, Counted(f), NEW N, IsFiniteSet(N)
    PROVE  /\ TotalSize(FileSizeMap(f.files), N) \in Nat
           /\ TotalSize(FileSizeMap(f.files), N) <= SumOver(FileSizes(f), Indices(f, N))
<1> DEFINE G == [n \in N |-> GetFileSizeByName(FileSizeMap(f.files), n)]
           T == Indices(f, N)
           R == {p \in N \X T : f.files[p[2]].name = p[1]}
<1>1. \A n \in N : G[n] \in Nat
  BY SizeByName
<1>2. TotalSize(FileSizeMap(f.files), N) = SumFunction(G)
  BY DEF TotalSize
<1>3. DOMAIN G = N
  OBVIOUS
<1>4. ASSUME NEW n \in N
      PROVE  G[n] = 0 \/ \E j \in T : <<n, j>> \in R /\ G[n] <= FileSizes(f)[j]
  <2>1. G[n] = GetFileSizeByName(FileSizeMap(f.files), n)
    OBVIOUS
  <2> HIDE DEF G
  <2>2. SUFFICES ASSUME NEW j \in DOMAIN f.files, f.files[j].name = n, G[n] = FileSizes(f)[j]
                 PROVE  <<n, j>> \in R /\ j \in T /\ G[n] <= FileSizes(f)[j]
    BY <2>1, SizeByName
  <2>3. j \in T
    BY <2>2 DEF Indices
  <2>4. FileSizes(f)[j] \in Nat
    BY FileSizesFinite
  <2> HIDE DEF T
  <2> QED
    BY <2>2, <2>3, <2>4
<1>5. \A n, m \in N : \A j \in T : <<n, j>> \in R /\ <<m, j>> \in R => n = m
  OBVIOUS
<1>6. IsFiniteSet(T) /\ \A j \in T : FileSizes(f)[j] \in Nat
  BY FileSizesFinite, FS_Subset DEF Indices
<1> HIDE DEF G, T, R
<1>7. SumFunction(G) = SumOver(G, N)
  BY <1>1, <1>3, SumFunctionIsSum
<1>8. SumOver(G, N) <= SumOver(FileSizes(f), T)
  BY <1>1, <1>4, <1>5, <1>6, SumOfImages
<1>9. SumOver(G, N) \in Nat
  <2>1. N \in SUBSET N
    OBVIOUS
  <2> QED
    BY <1>1, <2>1, SumOne
<1> QED
  BY <1>2, <1>7, <1>8, <1>9 DEF T

-----------------------------------------------------------------------------
(* The folders of the partitions.                                          *)

\* The tables whose partitions hold the data of a table: its own, those of its
\* columns' hierarchies, and those of its hierarchies.
ColumnSystems(db, t) == UNION {SystemTablesOf(db, c.id) : c \in ColumnsOf(db, t)}
HierarchySystems(db, t) ==
    {h.system : h \in {g \in db.hierarchies : g.table = t}} \cap TableIds(db)

\* The files of some tables are finitely many.
LEMMA FilesFinite ==
    ASSUME NEW f, Counted(f), NEW A
    PROVE  IsFiniteSet(FilesOfTables(f.db, A))
<1> DEFINE S == f.db.storageFiles
           F == [s \in S |-> s.name]
           N == {F[s] : s \in S}
<1>1. FilesOfTables(f.db, A) \in SUBSET N
  BY DEF FilesOfTables
<1>2. IsFiniteSet(S)
  BY DEF Counted
<1> HIDE DEF S, F
<1>3. IsFiniteSet(N)
  BY <1>2, ImageFinite
<1> HIDE DEF N
<1> QED
  BY <1>1, <1>3, FS_Subset

\* Different tables have different files.
LEMMA FilesApart ==
    ASSUME NEW f, Proper(f), NEW A, NEW B, A \cap B = {}
    PROVE  FilesOfTables(f.db, A) \cap FilesOfTables(f.db, B) = {}
<1> SUFFICES ASSUME NEW n \in FilesOfTables(f.db, A), n \in FilesOfTables(f.db, B) PROVE FALSE
  OBVIOUS
<1>1. PICK s \in f.db.storageFiles, p \in f.db.partitions :
         s.name = n /\ s.folder = p.folder /\ p.table \in A
  BY DEF FilesOfTables
<1>2. PICK r \in f.db.storageFiles, q \in f.db.partitions :
         r.name = n /\ r.folder = q.folder /\ q.table \in B
  BY DEF FilesOfTables
<1>3. r = s
  BY <1>1, <1>2 DEF Proper, UniqueNames
<1>4. p.table = q.table
  BY <1>1, <1>2, <1>3 DEF Proper, KeysHold
<1> QED
  BY <1>1, <1>2, <1>4

\* The files of two sets of tables together.
LEMMA FilesTogether ==
    ASSUME NEW db, NEW A, NEW B
    PROVE  /\ FilesOfTables(db, A \cup B) = FilesOfTables(db, A) \cup FilesOfTables(db, B)
           /\ FilesOfTables(db, A) \subseteq FilesOfTables(db, {p.table : p \in db.partitions})
BY DEF FilesOfTables

\* No two tables share a system table, and none of them is one.
LEMMA TablesApart ==
    ASSUME NEW f, Proper(f), NEW s \in DataTableIds(f.db), NEW t \in DataTableIds(f.db)
    PROVE  /\ t \notin ColumnSystems(f.db, s) /\ t \notin HierarchySystems(f.db, s)
           /\ ColumnSystems(f.db, s) \cap HierarchySystems(f.db, t) = {}
           /\ s # t => /\ ColumnSystems(f.db, s) \cap ColumnSystems(f.db, t) = {}
                      /\ HierarchySystems(f.db, s) \cap HierarchySystems(f.db, t) = {}
<1> USE DEF Proper, KeysHold, HierarchiesKeyed
<1>1. \A x \in ColumnSystems(f.db, s) :
         \E a \in f.db.attributeHierarchies : \E c \in f.db.columns :
            a.system = x /\ a.column = c.id /\ c.table = s
  BY DEF ColumnSystems, SystemTablesOf, ColumnsOf
<1>2. \A x \in ColumnSystems(f.db, t) :
         \E a \in f.db.attributeHierarchies : \E c \in f.db.columns :
            a.system = x /\ a.column = c.id /\ c.table = t
  BY DEF ColumnSystems, SystemTablesOf, ColumnsOf
<1>3. \A x \in HierarchySystems(f.db, s) : \E h \in f.db.hierarchies : h.system = x /\ h.table = s
  BY DEF HierarchySystems
<1>4. \A x \in HierarchySystems(f.db, t) : \E h \in f.db.hierarchies : h.system = x /\ h.table = t
  BY DEF HierarchySystems
<1>5. PICK r \in f.db.tables : r.id = t /\ ~r.system
  BY DEF DataTableIds, DataTables
<1>6. t \notin ColumnSystems(f.db, s)
  BY <1>1, <1>5
<1>7. t \notin HierarchySystems(f.db, s)
  BY <1>3, <1>5
<1>8. ColumnSystems(f.db, s) \cap HierarchySystems(f.db, t) = {}
  BY <1>1, <1>4
<1>9. ASSUME s # t PROVE ColumnSystems(f.db, s) \cap ColumnSystems(f.db, t) = {}
  BY <1>1, <1>2, <1>9
<1>10. ASSUME s # t PROVE HierarchySystems(f.db, s) \cap HierarchySystems(f.db, t) = {}
  BY <1>3, <1>4, <1>10
<1> QED
  BY <1>6, <1>7, <1>8, <1>9, <1>10

-----------------------------------------------------------------------------
(* The maps the queries of one file leave.                                 *)

FilesOfTable(db, t) == FilesOfTables(db, {t} \cup ColumnSystems(db, t))
FilesOfHierarchies(db, t) == FilesOfTables(db, HierarchySystems(db, t))

\* What a map holds that was empty before the push_backs.
LEMMA PushedFresh ==
    ASSUME NEW new, NEW k \in DOMAIN new
    PROVE  FilesUnder(Pushed(EmptyMap, new), k) = new[k]
BY DEF FilesUnder, Pushed, EmptyMap

\* The maps of files hold, of every table and column, the files of its own.
LEMMA FileMaps ==
    ASSUME NEW f, NEW d \in DataOf(f)
    PROVE  /\ \A t \in DataTableIds(f.db) :
                 /\ FilesUnder(d.table_files, t) = FilesOfTable(f.db, t)
                 /\ FilesUnder(d.table_hierarchy_files, t) = FilesOfHierarchies(f.db, t)
           /\ \A c \in f.db.columns : c.table \in DataTableIds(f.db) =>
                 FilesUnder(d.column_hierarchy_files, c.id)
                    = FilesOfTables(f.db, SystemTablesOf(f.db, c.id))
<1>1. PICK x, y : d = DataFrom(f, x, y)
  BY DEF DataOf
<1>2. /\ NothingFetched["table_files"] = EmptyMap
      /\ NothingFetched["table_hierarchy_files"] = EmptyMap
      /\ NothingFetched["column_hierarchy_files"] = EmptyMap
  BY DEF NothingFetched, Queries, ToSet
<1>3. /\ d.table_files \in Maps(f, "table_files")
      /\ d.table_hierarchy_files \in Maps(f, "table_hierarchy_files")
      /\ d.column_hierarchy_files \in Maps(f, "column_hierarchy_files")
  <2>1. /\ Maps(f, "table_files") # {} /\ Maps(f, "table_hierarchy_files") # {}
        /\ Maps(f, "column_hierarchy_files") # {}
    BY DEF Maps, Fetch
  <2>2. /\ "table_files" \in ToSet(Queries) /\ "table_hierarchy_files" \in ToSet(Queries)
        /\ "column_hierarchy_files" \in ToSet(Queries)
    BY DEF Queries, ToSet
  <2> QED
    BY <1>1, <2>1, <2>2 DEF DataFrom
<1>4. /\ d.table_files = Pushed(EmptyMap, TableFiles(f.db))
      /\ d.table_hierarchy_files = Pushed(EmptyMap, TableHierarchyFiles(f.db))
      /\ d.column_hierarchy_files = Pushed(EmptyMap, ColumnHierarchyFiles(f.db))
  BY <1>2, <1>3 DEF Maps, Fetch
<1>5. ASSUME NEW t \in DataTableIds(f.db)
      PROVE  /\ FilesUnder(d.table_files, t) = FilesOfTable(f.db, t)
             /\ FilesUnder(d.table_hierarchy_files, t) = FilesOfHierarchies(f.db, t)
  <2>1. /\ t \in DOMAIN TableFiles(f.db) /\ TableFiles(f.db)[t] = FilesOfTable(f.db, t)
        /\ t \in DOMAIN TableHierarchyFiles(f.db)
        /\ TableHierarchyFiles(f.db)[t] = FilesOfHierarchies(f.db, t)
    BY DEF TableFiles, TableHierarchyFiles, FilesOfTable, FilesOfHierarchies, ColumnSystems,
           HierarchySystems
  <2> QED
    BY <1>4, <2>1, PushedFresh
<1>6. ASSUME NEW c \in f.db.columns, c.table \in DataTableIds(f.db)
      PROVE  FilesUnder(d.column_hierarchy_files, c.id)
                = FilesOfTables(f.db, SystemTablesOf(f.db, c.id))
  <2>1. /\ c.id \in DOMAIN ColumnHierarchyFiles(f.db)
        /\ ColumnHierarchyFiles(f.db)[c.id] = FilesOfTables(f.db, SystemTablesOf(f.db, c.id))
    BY <1>6 DEF ColumnHierarchyFiles
  <2> QED
    BY <1>4, <2>1, PushedFresh
<1> QED
  BY <1>5, <1>6

\* A value of a map is the one of a row of its query.
LEMMA Overwritten ==
    ASSUME NEW rows, NEW g \in Overwrites(rows), NEW k \in DOMAIN Assigned(EmptyMap, g)
    PROVE  <<k, Assigned(EmptyMap, g)[k]>> \in rows
BY DEF Overwrites, EmptyMap, Assigned

\* The maps of values hold rows of their queries.
LEMMA ValueMaps ==
    ASSUME NEW f, NEW d \in DataOf(f)
    PROVE  /\ \A c \in DOMAIN d.column_files : <<c, d.column_files[c]>> \in ColumnFiles(f.db)
           /\ \A c \in DOMAIN d.dictionary_sizes :
                 <<c, d.dictionary_sizes[c]>> \in
                    IF f.hasSize THEN SizedDictionaries(f.db, FileSizeMap(f.files))
                    ELSE UnsizedDictionaries(f.db, FileSizeMap(f.files))
<1>1. PICK x \in Maps(f, "dictionary_sizes"), y \in Maps(f, "column_files") :
         d = DataFrom(f, x, y)
  BY DEF DataOf
<1>2. /\ NothingFetched["dictionary_sizes"] = EmptyMap
      /\ NothingFetched["column_files"] = EmptyMap
  BY DEF NothingFetched, Queries, ToSet
<1>3. d.dictionary_sizes = x /\ d.column_files = y
  <2>1. "dictionary_sizes" \in ToSet(Queries) /\ "column_files" \in ToSet(Queries)
    BY DEF Queries, ToSet
  <2> QED
    BY <1>1, <2>1 DEF DataFrom
<1> DEFINE rows == IF f.hasSize THEN SizedDictionaries(f.db, FileSizeMap(f.files))
                   ELSE UnsizedDictionaries(f.db, FileSizeMap(f.files))
<1>4. PICK g \in Overwrites(rows) : x = Assigned(EmptyMap, g)
  BY <1>1, <1>2 DEF Maps, Fetch
<1>5. PICK h \in Overwrites(ColumnFiles(f.db)) : y = Assigned(EmptyMap, h)
  BY <1>1, <1>2 DEF Maps, Fetch
<1> HIDE DEF rows
<1>6. \A c \in DOMAIN d.dictionary_sizes : <<c, d.dictionary_sizes[c]>> \in rows
  BY <1>3, <1>4, Overwritten
<1>7. \A c \in DOMAIN d.column_files : <<c, d.column_files[c]>> \in ColumnFiles(f.db)
  BY <1>3, <1>5, Overwritten
<1> QED
  BY <1>6, <1>7 DEF rows

-----------------------------------------------------------------------------
(* The dictionaries.                                                       *)

DictionarySize(d, id) == SizeUnder(d.dictionary_sizes, id)
DataColumnsOf(db, t) == ColumnsOf(db, t) \cap DataColumns(db)

\* The files of the dictionaries of a column, by their indices.
DictionaryIndices(f, id) ==
    {j \in DOMAIN f.files : \E e \in f.db.dictionaries :
        e.column = id /\ e.file # <<>> /\ f.files[j].name = e.file[1]}

\* The size of a dictionary is 0 or that of a data column's dictionary, and
\* without a column Size that of its file.
LEMMA DictionarySizes ==
    ASSUME NEW f, Proper(f), NEW d \in DataOf(f), NEW id
    PROVE  /\ DictionarySize(d, id) \in Nat
           /\ DictionarySize(d, id) = 0 \/ \E c \in DataColumns(f.db) : c.id = id
           /\ ~f.hasSize =>
                 \/ DictionarySize(d, id) = 0
                 \/ \E j \in DictionaryIndices(f, id) : DictionarySize(d, id) = FileSizes(f)[j]
<1> DEFINE sizes == FileSizeMap(f.files)
           D == DictionarySize(d, id)
<1>1. CASE id \notin DOMAIN d.dictionary_sizes
  BY <1>1 DEF DictionarySize, SizeUnder
<1>2. CASE id \in DOMAIN d.dictionary_sizes
  <2>1. D = d.dictionary_sizes[id]
    BY <1>2 DEF DictionarySize, SizeUnder
  <2>2. CASE f.hasSize
    <3>1. <<id, D>> \in SizedDictionaries(f.db, sizes)
      BY <1>2, <2>1, <2>2, ValueMaps
    <3>2. CASE \E c \in DataColumns(f.db) : <<id, D>> = <<c.id, 0>>
      BY <2>2, <3>2
    <3>3. CASE \E c \in DataColumns(f.db) : \E e \in f.db.dictionaries :
                 <<id, D>> = <<c.id, IF e.size # <<>> THEN e.size[1]
                                     ELSE IF e.file # <<>> THEN GetFileSizeByName(sizes, e.file[1])
                                     ELSE 0>>
      <4>1. PICK c \in DataColumns(f.db), e \in f.db.dictionaries :
               /\ id = c.id
               /\ D = IF e.size # <<>> THEN e.size[1]
                      ELSE IF e.file # <<>> THEN GetFileSizeByName(sizes, e.file[1])
                      ELSE 0
        BY <3>3
      <4>2. e.size # <<>> => e.size[1] \in Nat
        BY DEF Proper, KeysHold, FilesKeyed
      <4>3. GetFileSizeByName(sizes, e.file[1]) \in Nat
        BY SizeByName DEF Proper
      <4> HIDE DEF D, sizes
      <4>4. D \in Nat
        BY <4>1, <4>2, <4>3
      <4> QED
        BY <2>2, <4>1, <4>4 DEF D
    <3> QED
      BY <3>1, <3>2, <3>3 DEF SizedDictionaries
  <2>3. CASE ~f.hasSize
    <3>1. <<id, D>> \in UnsizedDictionaries(f.db, sizes)
      BY <1>2, <2>1, <2>3, ValueMaps
    <3>2. PICK e \in f.db.dictionaries :
             /\ e.file # <<>> /\ e.column = id
             /\ D = GetFileSizeByName(sizes, e.file[1])
             /\ \E c \in DataColumns(f.db) : c.id = id
      BY <3>1 DEF UnsizedDictionaries
    <3>3. D \in Nat /\ (D = 0 \/ \E j \in DOMAIN f.files :
                                   f.files[j].name = e.file[1] /\ D = FileSizes(f)[j])
      BY <3>2, SizeByName DEF Proper
    <3>4. \A j \in DOMAIN f.files : f.files[j].name = e.file[1] => j \in DictionaryIndices(f, id)
      BY <3>2 DEF DictionaryIndices
    <3> HIDE DEF D
    <3> QED
      BY <3>2, <3>3, <3>4 DEF D
  <2> QED
    BY <2>2, <2>3
<1> QED
  BY <1>1, <1>2

\* The sizes of the dictionaries of a table, and the indices of their files.
ColumnDictionaries(f, d, t) == [c \in DataColumnsOf(f.db, t) |-> DictionarySize(d, c.id)]
TableDictionaryIndices(f, t) ==
    UNION {DictionaryIndices(f, c.id) : c \in DataColumnsOf(f.db, t)}

\* The dictionaries of a table are no larger than their files.
LEMMA DictionariesBounded ==
    ASSUME NEW f, Proper(f), NEW d \in DataOf(f), NEW t
    PROVE  LET C == DataColumnsOf(f.db, t)
               D == ColumnDictionaries(f, d, t)
           IN  /\ IsFiniteSet(C) /\ \A c \in C : D[c] \in Nat
               /\ SumFunction(D) = SumOver(D, C) /\ SumOver(D, C) \in Nat
               /\ ~f.hasSize => SumOver(D, C) <= SumOver(FileSizes(f), TableDictionaryIndices(f, t))
<1> DEFINE C == DataColumnsOf(f.db, t)
           D == ColumnDictionaries(f, d, t)
           J == TableDictionaryIndices(f, t)
           R == {p \in C \X J : p[2] \in DictionaryIndices(f, p[1].id)}
<1>1. IsFiniteSet(C)
  BY FS_Subset DEF DataColumnsOf, ColumnsOf, Proper, Counted
<1>2. \A c \in C : D[c] = DictionarySize(d, c.id)
  BY DEF ColumnDictionaries
<1>3. \A c \in C : D[c] \in Nat
  BY <1>2, DictionarySizes
<1>4. DOMAIN D = C
  BY DEF ColumnDictionaries
<1>5. IsFiniteSet(J) /\ \A j \in J : FileSizes(f)[j] \in Nat
  <2>1. J \in SUBSET DOMAIN f.files
    BY DEF TableDictionaryIndices, DictionaryIndices
  <2> HIDE DEF J
  <2> QED
    BY <2>1, FileSizesFinite, FS_Subset DEF Proper
<1>6. ASSUME ~f.hasSize, NEW c \in C
      PROVE  D[c] = 0 \/ \E j \in J : <<c, j>> \in R /\ D[c] <= FileSizes(f)[j]
  <2> SUFFICES ASSUME D[c] # 0 PROVE \E j \in J : <<c, j>> \in R /\ D[c] <= FileSizes(f)[j]
    OBVIOUS
  <2>1. PICK j \in DictionaryIndices(f, c.id) : D[c] = FileSizes(f)[j]
    BY <1>2, <1>6, DictionarySizes
  <2>2. j \in J
    BY DEF TableDictionaryIndices
  <2>3. <<c, j>> \in R
    BY <2>2
  <2> HIDE DEF C, D, J, R
  <2> QED
    BY <1>3, <2>1, <2>2, <2>3
<1>7. ASSUME NEW b \in C, NEW c \in C, NEW j \in J, <<b, j>> \in R, <<c, j>> \in R
      PROVE  b = c
  <2>1. j \in DictionaryIndices(f, b.id) /\ j \in DictionaryIndices(f, c.id)
    BY <1>7
  <2>2. PICK e \in f.db.dictionaries :
           e.column = b.id /\ e.file # <<>> /\ f.files[j].name = e.file[1]
    BY <2>1 DEF DictionaryIndices
  <2>3. PICK g \in f.db.dictionaries :
           g.column = c.id /\ g.file # <<>> /\ f.files[j].name = g.file[1]
    BY <2>1 DEF DictionaryIndices
  <2>4. b \in f.db.columns /\ c \in f.db.columns
    BY DEF DataColumnsOf, ColumnsOf
  <2>5. e.column = g.column
    <3>1. \A x, y \in {z \in f.db.dictionaries : z.file # <<>>} :
             x.file[1] = y.file[1] => x.column = y.column
      BY DEF Proper, KeysHold, FilesKeyed
    <3>2. e.file[1] = g.file[1]
      BY <2>2, <2>3
    <3> QED
      BY <2>2, <2>3, <3>1, <3>2
  <2> QED
    BY <2>2, <2>3, <2>4, <2>5 DEF Proper, KeysHold
<1> HIDE DEF C, D, J, R
<1>8. SumFunction(D) = SumOver(D, C)
  BY <1>1, <1>3, <1>4, SumFunctionIsSum
<1>9. SumOver(D, C) \in Nat
  <2>1. C \in SUBSET C
    OBVIOUS
  <2> QED
    BY <1>1, <1>3, <2>1, SumOne
<1>10. ASSUME ~f.hasSize PROVE SumOver(D, C) <= SumOver(FileSizes(f), J)
  BY <1>1, <1>3, <1>5, <1>6, <1>7, <1>10, SumOfImages
<1> QED
  BY <1>1, <1>3, <1>8, <1>9, <1>10 DEF C, D, J

-----------------------------------------------------------------------------
(* The columns of a table.                                                 *)

\* The file of a column's data that its query keeps, and those of its hierarchy.
DataFile(d, c) == IF c.id \in DOMAIN d.column_files THEN {d.column_files[c.id]} ELSE {}
HierarchyFiles(f, c) == FilesOfTables(f.db, SystemTablesOf(f.db, c.id))

\* They are among the files of the table, and each is counted for one column.
LEMMA FilesOfColumn ==
    ASSUME NEW f, Proper(f), NEW d \in DataOf(f), NEW t \in DataTableIds(f.db),
           NEW b \in ColumnsOf(f.db, t), NEW c \in ColumnsOf(f.db, t)
    PROVE  /\ DataFile(d, c) \subseteq FilesOfTable(f.db, t)
           /\ HierarchyFiles(f, c) \subseteq FilesOfTable(f.db, t)
           /\ DataFile(d, b) \cap HierarchyFiles(f, c) = {}
           /\ b # c => /\ DataFile(d, b) \cap DataFile(d, c) = {}
                      /\ HierarchyFiles(f, b) \cap HierarchyFiles(f, c) = {}
<1>1. \A x \in ColumnsOf(f.db, t) : x \in f.db.columns /\ x.table = t
  BY DEF ColumnsOf
<1>2. ASSUME NEW x \in ColumnsOf(f.db, t), NEW n \in DataFile(d, x)
      PROVE  /\ \E g \in f.db.columnFiles : g.column = x.id /\ g.name = n
             /\ n \in FilesOfTables(f.db, {t})
  <2>1. x.id \in DOMAIN d.column_files /\ n = d.column_files[x.id]
    BY DEF DataFile
  <2>2. <<x.id, n>> \in ColumnFiles(f.db)
    BY <2>1, ValueMaps
  <2>3. PICK g \in f.db.columnFiles : g.column = x.id /\ g.name = n
    BY <2>2 DEF ColumnFiles
  <2>4. n \in FilesOfTables(f.db, {x.table})
    BY <1>1, <2>3 DEF Proper, KeysHold, FilesKeyed
  <2> QED
    BY <1>1, <2>3, <2>4
<1> DEFINE own == FilesOfTables(f.db, {t})
           systems == FilesOfTables(f.db, ColumnSystems(f.db, t))
<1>3. FilesOfTable(f.db, t) = own \cup systems
  BY FilesTogether DEF FilesOfTable
<1>4. own \cap systems = {}
  <2>1. {t} \cap ColumnSystems(f.db, t) = {}
    BY TablesApart
  <2> QED
    BY <2>1, FilesApart
<1>5. ASSUME NEW x \in ColumnsOf(f.db, t) PROVE HierarchyFiles(f, x) \subseteq systems
  <2>1. SystemTablesOf(f.db, x.id) \subseteq ColumnSystems(f.db, t)
    BY DEF ColumnSystems
  <2>2. ColumnSystems(f.db, t) = SystemTablesOf(f.db, x.id) \cup ColumnSystems(f.db, t)
    BY <2>1
  <2>3. systems = HierarchyFiles(f, x) \cup systems
    BY <2>2, FilesTogether DEF HierarchyFiles
  <2> QED
    BY <2>3
<1> HIDE DEF own, systems
<1>6. DataFile(d, c) \subseteq own /\ DataFile(d, b) \subseteq own
  BY <1>2 DEF own
<1>7. ASSUME b # c PROVE DataFile(d, b) \cap DataFile(d, c) = {}
  <2> SUFFICES ASSUME NEW n \in DataFile(d, b), n \in DataFile(d, c) PROVE FALSE
    OBVIOUS
  <2>1. PICK g \in f.db.columnFiles : g.column = b.id /\ g.name = n
    BY <1>2
  <2>2. PICK h \in f.db.columnFiles : h.column = c.id /\ h.name = n
    BY <1>2
  <2>3. b.id = c.id
    BY <2>1, <2>2 DEF Proper, KeysHold, FilesKeyed
  <2> QED
    BY <1>1, <1>7, <2>3 DEF Proper, KeysHold
<1>8. ASSUME b # c PROVE HierarchyFiles(f, b) \cap HierarchyFiles(f, c) = {}
  <2>1. b.id # c.id
    BY <1>1, <1>8 DEF Proper, KeysHold
  <2>2. SystemTablesOf(f.db, b.id) \cap SystemTablesOf(f.db, c.id) = {}
    BY <2>1 DEF SystemTablesOf, Proper, KeysHold, HierarchiesKeyed
  <2> QED
    BY <2>2, FilesApart DEF HierarchyFiles
<1> QED
  BY <1>3, <1>4, <1>5, <1>6, <1>7, <1>8

\* What a row says of its column.
LEMMA ColumnRow ==
    ASSUME NEW f, NEW d \in DataOf(f),
           NEW r \in BuildColumns(d, f.db, FileSizeMap(f.files))
    PROVE  \E c \in f.db.columns :
              /\ c.table \in DataTableIds(f.db) /\ c \in ColumnsOf(f.db, c.table)
              /\ r.column = c.id /\ r.table = c.table
              /\ r.dictionarySize = DictionarySize(d, c.id)
              /\ r.dataSize = IF c.id \in DOMAIN d.column_files
                              THEN GetFileSizeByName(FileSizeMap(f.files), d.column_files[c.id])
                              ELSE 0
              /\ r.hierarchiesSize = TotalSize(FileSizeMap(f.files), HierarchyFiles(f, c))
              /\ r.totalSize = r.dictionarySize + r.dataSize + r.hierarchiesSize
<1> DEFINE sizes == FileSizeMap(f.files)
<1>1. PICK c \in f.db.columns :
         /\ c.table \in DataTableIds(f.db)
         /\ r.column = c.id /\ r.table = c.table
         /\ r.dictionarySize = DictionarySize(d, c.id)
         /\ r.dataSize = IF c.id \in DOMAIN d.column_files
                         THEN GetFileSizeByName(sizes, d.column_files[c.id])
                         ELSE 0
         /\ r.hierarchiesSize = HierarchySize(d.column_hierarchy_files, c.id, sizes)
         /\ r.totalSize = r.dictionarySize + r.dataSize + r.hierarchiesSize
  BY DEF BuildColumns, DictionarySize
<1>2. r.hierarchiesSize = TotalSize(sizes, HierarchyFiles(f, c))
  BY <1>1, FileMaps DEF HierarchySize, HierarchyFiles
<1>3. c \in ColumnsOf(f.db, c.table)
  BY DEF ColumnsOf
<1> QED
  BY <1>1, <1>2, <1>3

\* ColumnsSize: the files of the table and its dictionaries.
LEMMA ColumnsSizeOf ==
    ASSUME NEW f, NEW d \in DataOf(f), NEW t \in DataTableIds(f.db)
    PROVE  CalculateTableColumnsSize(t, d, f.db, FileSizeMap(f.files))
              = TotalSize(FileSizeMap(f.files), FilesOfTable(f.db, t))
                + SumFunction(ColumnDictionaries(f, d, t))
<1>1. FilesUnder(d.table_files, t) = FilesOfTable(f.db, t)
  BY FileMaps
<1> QED
  BY <1>1 DEF CalculateTableColumnsSize, ColumnDictionaries, DataColumnsOf, DictionarySize

\* The columns of a table are no larger than its ColumnsSize.
LEMMA ColumnsAddUp ==
    ASSUME NEW f, Proper(f), NEW d \in DataOf(f), NEW t \in DataTableIds(f.db),
           NEW K, K = {r \in BuildColumns(d, f.db, FileSizeMap(f.files)) : r.table = t}
    PROVE  SumFunction([r \in K |-> r.totalSize])
              <= CalculateTableColumnsSize(t, d, f.db, FileSizeMap(f.files))
<1> DEFINE sizes == FileSizeMap(f.files)
           column == [r \in K |-> CHOOSE c \in ColumnsOf(f.db, t) : c.id = r.column]
           Total == [r \in K |-> r.totalSize]
           Dictionary == [r \in K |-> r.dictionarySize]
           Files == [r \in K |-> r.dataSize + r.hierarchiesSize]
           C == DataColumnsOf(f.db, t)
           D == ColumnDictionaries(f, d, t)
           N == FilesOfTable(f.db, t)
           G == [n \in N |-> GetFileSizeByName(sizes, n)]
           Part == [r \in K |-> DataFile(d, column[r]) \cup HierarchyFiles(f, column[r])]
<1>1. ASSUME NEW r \in K
      PROVE  /\ column[r] \in ColumnsOf(f.db, t)
             /\ r.column = column[r].id
             /\ r.dictionarySize = DictionarySize(d, column[r].id)
             /\ r.dataSize = IF column[r].id \in DOMAIN d.column_files
                             THEN GetFileSizeByName(sizes, d.column_files[column[r].id])
                             ELSE 0
             /\ r.hierarchiesSize = TotalSize(sizes, HierarchyFiles(f, column[r]))
             /\ r.totalSize = r.dictionarySize + r.dataSize + r.hierarchiesSize
  <2>1. r \in BuildColumns(d, f.db, sizes) /\ r.table = t
    OBVIOUS
  <2>2. PICK c \in f.db.columns :
              /\ c \in ColumnsOf(f.db, c.table)
              /\ r.column = c.id /\ r.table = c.table
              /\ r.dictionarySize = DictionarySize(d, c.id)
              /\ r.dataSize = IF c.id \in DOMAIN d.column_files
                              THEN GetFileSizeByName(sizes, d.column_files[c.id])
                              ELSE 0
              /\ r.hierarchiesSize = TotalSize(sizes, HierarchyFiles(f, c))
              /\ r.totalSize = r.dictionarySize + r.dataSize + r.hierarchiesSize
    BY <2>1, ColumnRow
  <2>3. column[r] = c
    <3>1. \A b \in ColumnsOf(f.db, t) : b.id = c.id => b = c
      BY DEF ColumnsOf, Proper, KeysHold
    <3> QED
      BY <2>1, <2>2, <3>1
  <2> HIDE DEF column
  <2> QED
    BY <2>1, <2>2, <2>3
<1>2. ASSUME NEW r \in K, NEW s \in K, column[r] = column[s] PROVE r = s
  <2>1. PICK b \in f.db.columns :
          /\ b.table = t /\ b.id = r.column
          /\ r = [column |-> b.id, table |-> b.table, dictionarySize |-> r.dictionarySize,
                  dataSize |-> r.dataSize, hierarchiesSize |-> r.hierarchiesSize,
                  totalSize |-> r.totalSize]
    BY DEF BuildColumns
  <2>2. PICK c \in f.db.columns :
          /\ c.table = t /\ c.id = s.column
          /\ s = [column |-> c.id, table |-> c.table, dictionarySize |-> s.dictionarySize,
                  dataSize |-> s.dataSize, hierarchiesSize |-> s.hierarchiesSize,
                  totalSize |-> s.totalSize]
    BY DEF BuildColumns
  <2> HIDE DEF column
  <2>3. /\ r.column = s.column /\ r.dictionarySize = s.dictionarySize
        /\ r.dataSize = s.dataSize /\ r.hierarchiesSize = s.hierarchiesSize
        /\ r.totalSize = s.totalSize
    BY <1>1, <1>2
  <2> QED
    BY <2>1, <2>2, <2>3
<1>3. IsFiniteSet(K)
  <2>1. IsFiniteSet(ColumnsOf(f.db, t))
    BY FS_Subset DEF ColumnsOf, Proper, Counted
  <2> DEFINE h == [r \in K |-> column[r]]
  <2> HIDE DEF column
  <2>2. \A r \in K : h[r] = column[r] /\ h[r] \in ColumnsOf(f.db, t)
    BY <1>1
  <2>3. h \in [K -> ColumnsOf(f.db, t)]
    BY <2>2
  <2>4. \A r, s \in K : h[r] = h[s] => r = s
    BY <1>2, <2>2
  <2> HIDE DEF h
  <2>5. h \in Injection(K, ColumnsOf(f.db, t))
    BY <2>3, <2>4 DEF Injection, IsInjective
  <2> QED
    BY <2>1, <2>5, FS_Injection
<1>4. /\ IsFiniteSet(C) /\ \A c \in C : D[c] \in Nat
      /\ SumFunction(D) = SumOver(D, C) /\ SumOver(D, C) \in Nat
  BY DictionariesBounded
<1>5. IsFiniteSet(N) /\ \A n \in N : G[n] \in Nat
  <2>1. \A n \in N : G[n] = GetFileSizeByName(sizes, n)
    OBVIOUS
  <2> QED
    BY <2>1, FilesFinite, SizeByName DEF FilesOfTable, Proper
<1> HIDE DEF column
<1>6. ASSUME NEW r \in K
      PROVE  /\ Part[r] \in SUBSET N
             /\ \A s \in K : r # s => Part[r] \cap Part[s] = {}
             /\ Files[r] \in Nat
             /\ Files[r] <= SumOver(G, Part[r])
  <2> DEFINE X == DataFile(d, column[r])
             Y == HierarchyFiles(f, column[r])
  <2>1. X \subseteq N /\ Y \subseteq N /\ X \cap Y = {}
    BY <1>1, FilesOfColumn
  <2>2. ASSUME NEW s \in K, r # s PROVE Part[r] \cap Part[s] = {}
    <3>1. column[r] # column[s]
      BY <1>2, <2>2
    <3>2. column[r] \in ColumnsOf(f.db, t) /\ column[s] \in ColumnsOf(f.db, t)
      BY <1>1
    <3>3. /\ X \cap DataFile(d, column[s]) = {} /\ Y \cap HierarchyFiles(f, column[s]) = {}
          /\ X \cap HierarchyFiles(f, column[s]) = {} /\ DataFile(d, column[s]) \cap Y = {}
      BY <3>1, <3>2, FilesOfColumn
    <3> QED
      BY <3>3
  <2>3. SumOver(G, Part[r]) = SumOver(G, X) + SumOver(G, Y)
    <3>1. Part[r] = X \cup Y
      OBVIOUS
    <3> HIDE DEF X, Y, N, G, Part
    <3> QED
      BY <1>5, <2>1, <3>1, SumDisjoint
  <2>4. r.dataSize = SumOver(G, X)
    <3>1. CASE column[r].id \in DOMAIN d.column_files
      <4> DEFINE n == d.column_files[column[r].id]
      <4>1. X = {n} /\ r.dataSize = GetFileSizeByName(sizes, n)
        BY <1>1, <3>1 DEF DataFile
      <4>2. n \in N
        BY <2>1, <4>1
      <4>3. G[n] = GetFileSizeByName(sizes, n) /\ G[n] \in Nat
        BY <1>5, <4>2
      <4> HIDE DEF X, n, G
      <4>4. SumOver(G, {n}) = G[n]
        BY <4>3, SumSingleton
      <4> QED
        BY <4>1, <4>3, <4>4
    <3>2. CASE column[r].id \notin DOMAIN d.column_files
      <4>1. X = {} /\ r.dataSize = 0
        BY <1>1, <3>2 DEF DataFile
      <4> HIDE DEF X, G, N
      <4>2. SumOver(G, {}) = 0
        BY <1>5, SumOne
      <4> QED
        BY <4>1, <4>2
    <3> QED
      BY <3>1, <3>2
  <2>5. r.hierarchiesSize = SumOver(G, Y)
    <3> DEFINE H == [n \in Y |-> GetFileSizeByName(sizes, n)]
    <3>1. r.hierarchiesSize = SumFunction(H)
      BY <1>1 DEF TotalSize
    <3>2. IsFiniteSet(Y) /\ DOMAIN H = Y
      BY <1>5, <2>1, FS_Subset
    <3>3. \A n \in Y : H[n] \in Nat /\ H[n] = G[n]
      BY <1>5, <2>1
    <3> HIDE DEF H, Y, G
    <3>4. SumFunction(H) = SumOver(H, Y)
      BY <3>2, <3>3, SumFunctionIsSum
    <3>5. SumOver(H, Y) = SumOver(G, Y)
      BY <3>2, <3>3, SumSame
    <3> QED
      BY <3>1, <3>4, <3>5
  <2>6. SumOver(G, X) \in Nat /\ SumOver(G, Y) \in Nat
    <3> HIDE DEF X, Y, G, N
    <3> QED
      BY <1>5, <2>1, SumOne
  <2>7. Part[r] \in SUBSET N
    BY <2>1
  <2>8. Files[r] = r.dataSize + r.hierarchiesSize
    OBVIOUS
  <2> HIDE DEF X, Y, G, N, Part, Files
  <2>9. Files[r] \in Nat /\ Files[r] <= SumOver(G, Part[r])
    BY <2>3, <2>4, <2>5, <2>6, <2>8
  <2> QED
    BY <2>2, <2>7, <2>9
<1>7. ASSUME NEW r \in K
      PROVE  /\ Dictionary[r] \in Nat
             /\ Dictionary[r] = 0 \/ \E c \in C : r.column = c.id /\ Dictionary[r] <= D[c]
             /\ Total[r] = Dictionary[r] + Files[r]
  <2>1. Dictionary[r] = DictionarySize(d, column[r].id)
    BY <1>1
  <2>2. /\ Dictionary[r] \in Nat
        /\ Dictionary[r] = 0 \/ \E c \in DataColumns(f.db) : c.id = column[r].id
    BY <2>1, DictionarySizes
  <2>3. ASSUME NEW c \in DataColumns(f.db), c.id = column[r].id
        PROVE  c \in C /\ r.column = c.id /\ Dictionary[r] = D[c]
    <3>1. c = column[r]
      BY <1>1, <2>3 DEF DataColumns, ColumnsOf, Proper, KeysHold
    <3>2. c \in C
      BY <1>1, <3>1 DEF DataColumnsOf
    <3>3. D[c] = DictionarySize(d, c.id)
      BY <3>2 DEF ColumnDictionaries
    <3> QED
      BY <1>1, <2>1, <3>1, <3>2, <3>3
  <2>4. Total[r] = Dictionary[r] + Files[r]
    <3>1. /\ Total[r] = r.totalSize /\ Dictionary[r] = r.dictionarySize
          /\ Files[r] = r.dataSize + r.hierarchiesSize
      OBVIOUS
    <3>2. r.dataSize \in Nat /\ r.hierarchiesSize \in Nat
      <4>1. r.hierarchiesSize \in Nat
        <5>1. IsFiniteSet(HierarchyFiles(f, column[r]))
          BY FilesFinite DEF HierarchyFiles, Proper
        <5> QED
          BY <1>1, <5>1, TotalBounded DEF Proper
      <4>2. r.dataSize \in Nat
        <5>1. GetFileSizeByName(sizes, d.column_files[column[r].id]) \in Nat
          BY SizeByName DEF Proper
        <5>2. r.dataSize \in {GetFileSizeByName(sizes, d.column_files[column[r].id]), 0}
          BY <1>1
        <5> QED
          BY <5>1, <5>2
      <4> QED
        BY <4>1, <4>2
    <3> HIDE DEF Total, Dictionary, Files
    <3>3. r.totalSize = r.dictionarySize + r.dataSize + r.hierarchiesSize
      BY <1>1
    <3> QED
      BY <2>2, <3>1, <3>2, <3>3
  <2> HIDE DEF Total, Dictionary, Files, C, D
  <2>5. Dictionary[r] = 0 \/ \E c \in C : r.column = c.id /\ Dictionary[r] <= D[c]
    BY <2>2, <2>3
  <2> QED
    BY <2>2, <2>4, <2>5
<1>8. SumOver(Dictionary, K) <= SumOver(D, C)
  <2> DEFINE R == {p \in K \X C : p[1].column = p[2].id}
  <2>1. \A r, s \in K : \A c \in C : <<r, c>> \in R /\ <<s, c>> \in R => r = s
    <3> SUFFICES ASSUME NEW r \in K, NEW s \in K, r.column = s.column PROVE r = s
      OBVIOUS
    <3>1. column[r].id = column[s].id
      BY <1>1
    <3>2. column[r] \in f.db.columns /\ column[s] \in f.db.columns
      BY <1>1 DEF ColumnsOf
    <3>3. column[r] = column[s]
      BY <3>1, <3>2 DEF Proper, KeysHold
    <3> QED
      BY <1>2, <3>3
  <2>2. \A r \in K : Dictionary[r] = 0 \/ \E c \in C : <<r, c>> \in R /\ Dictionary[r] <= D[c]
    <3> HIDE DEF Dictionary, C, D
    <3> QED
      BY <1>7
  <2> HIDE DEF Dictionary, C, D, R
  <2> QED
    BY <1>3, <1>4, <1>7, <2>1, <2>2, SumOfImages
<1> HIDE DEF Total, Dictionary, Files, C, D, N, G, Part
<1>9. SumOver(Files, K) <= SumOver(G, N)
  BY <1>3, <1>5, <1>6, SumOfParts
<1>10. SumOver(Total, K) = SumOver(Dictionary, K) + SumOver(Files, K)
  BY <1>3, <1>6, <1>7, SumPlus
<1>11. /\ SumFunction(Total) = SumOver(Total, K)
       /\ SumOver(Dictionary, K) \in Nat /\ SumOver(Files, K) \in Nat /\ SumOver(G, N) \in Nat
  <2>1. \A r \in K : Total[r] \in Nat
    BY <1>6, <1>7
  <2>2. DOMAIN Total = K
    BY DEF Total
  <2>3. SumFunction(Total) = SumOver(Total, K)
    BY <1>3, <2>1, <2>2, SumFunctionIsSum
  <2>4. K \in SUBSET K /\ N \in SUBSET N
    OBVIOUS
  <2> QED
    BY <1>3, <1>5, <1>6, <1>7, <2>3, <2>4, SumOne
<1>12. TotalSize(sizes, N) = SumOver(G, N)
  <2>1. TotalSize(sizes, N) = SumFunction(G) /\ DOMAIN G = N
    BY DEF TotalSize, G
  <2> QED
    BY <1>5, <2>1, SumFunctionIsSum
<1>13. CalculateTableColumnsSize(t, d, f.db, sizes) = SumOver(G, N) + SumOver(D, C)
  BY <1>4, <1>12, ColumnsSizeOf DEF N, D
<1> DEFINE w == SumOver(Dictionary, K)
           x == SumOver(Files, K)
           y == SumOver(G, N)
           z == SumOver(D, C)
<1>14. /\ w \in Nat /\ x \in Nat /\ y \in Nat /\ z \in Nat /\ w <= z /\ x <= y
       /\ SumFunction(Total) = w + x
       /\ CalculateTableColumnsSize(t, d, f.db, sizes) = y + z
  BY <1>4, <1>8, <1>9, <1>10, <1>11, <1>13
<1> HIDE DEF w, x, y, z
<1>15. SumFunction(Total) <= CalculateTableColumnsSize(t, d, f.db, sizes)
  BY <1>14
<1> QED
  BY <1>15 DEF Total

-----------------------------------------------------------------------------
(* The tables.                                                             *)

\* The files counted for a table, by their indices.
TableIndices(f, t) ==
    Indices(f, FilesOfTable(f.db, t)) \cup Indices(f, FilesOfHierarchies(f.db, t))
    \cup TableDictionaryIndices(f, t)

\* What a row says of its table.
LEMMA TableRow ==
    ASSUME NEW f, NEW d \in DataOf(f),
           NEW r \in BuildTables(d, f.db, FileSizeMap(f.files))
    PROVE  /\ r.table \in DataTableIds(f.db)
           /\ r.columnsSize = CalculateTableColumnsSize(r.table, d, f.db, FileSizeMap(f.files))
           /\ r.tableSize = r.columnsSize
                + TotalSize(FileSizeMap(f.files), FilesOfHierarchies(f.db, r.table))
           /\ \E t \in DataTables(f.db) : \E c \in f.db.columns :
                 /\ t.id = r.table /\ c.table = t.id /\ c.key
                 /\ r = [table |-> t.id, key |-> c.id, columnsSize |-> r.columnsSize,
                         hierarchiesSize |-> r.hierarchiesSize, tableSize |-> r.tableSize,
                         isReferenced |-> t.name \in DOMAIN d.relationship_counts]
<1> DEFINE sizes == FileSizeMap(f.files)
<1>1. PICK t \in DataTables(f.db), c \in f.db.columns :
         /\ c.table = t.id /\ c.key
         /\ r = [table |-> t.id, key |-> c.id,
                 columnsSize |-> CalculateTableColumnsSize(t.id, d, f.db, sizes),
                 hierarchiesSize |-> HierarchySize(d.table_hierarchy_files, t.id, sizes),
                 tableSize |-> CalculateTableColumnsSize(t.id, d, f.db, sizes)
                                + HierarchySize(d.table_hierarchy_files, t.id, sizes),
                 isReferenced |-> t.name \in DOMAIN d.relationship_counts]
  BY DEF BuildTables, ColumnsOf
<1>2. t.id \in DataTableIds(f.db)
  BY DEF DataTableIds
<1>3. HierarchySize(d.table_hierarchy_files, t.id, sizes)
         = TotalSize(sizes, FilesOfHierarchies(f.db, t.id))
  BY <1>2, FileMaps DEF HierarchySize
<1> HIDE DEF sizes
<1> QED
  BY <1>1, <1>2, <1>3 DEF sizes

\* A table has one row.
LEMMA TableRowOnce ==
    ASSUME NEW f, Proper(f), NEW d \in DataOf(f),
           NEW r \in BuildTables(d, f.db, FileSizeMap(f.files)),
           NEW s \in BuildTables(d, f.db, FileSizeMap(f.files)), r.table = s.table
    PROVE  r = s
<1>1. PICK t \in DataTables(f.db), c \in f.db.columns :
         /\ t.id = r.table /\ c.table = t.id /\ c.key
         /\ r = [table |-> t.id, key |-> c.id, columnsSize |-> r.columnsSize,
                 hierarchiesSize |-> r.hierarchiesSize, tableSize |-> r.tableSize,
                 isReferenced |-> t.name \in DOMAIN d.relationship_counts]
  BY TableRow
<1>2. PICK u \in DataTables(f.db), b \in f.db.columns :
         /\ u.id = s.table /\ b.table = u.id /\ b.key
         /\ s = [table |-> u.id, key |-> b.id, columnsSize |-> s.columnsSize,
                 hierarchiesSize |-> s.hierarchiesSize, tableSize |-> s.tableSize,
                 isReferenced |-> u.name \in DOMAIN d.relationship_counts]
  BY TableRow
<1>3. t = u /\ c = b
  BY <1>1, <1>2 DEF DataTables, Proper, KeysHold
<1>4. r.columnsSize = s.columnsSize
  BY TableRow
<1>5. r.tableSize = s.tableSize
  BY <1>4, TableRow
<1>6. r.hierarchiesSize = s.hierarchiesSize
  BY <1>1, <1>2 DEF BuildTables
<1> QED
  BY <1>1, <1>2, <1>3, <1>4, <1>5, <1>6

\* No file is counted for two tables, nor for one in two ways.
LEMMA IndicesApart ==
    ASSUME NEW f, Proper(f), NEW s \in DataTableIds(f.db), NEW t \in DataTableIds(f.db)
    PROVE  /\ Indices(f, FilesOfTable(f.db, s)) \cap Indices(f, FilesOfHierarchies(f.db, t)) = {}
           /\ Indices(f, FilesOfTable(f.db, s)) \cap TableDictionaryIndices(f, t) = {}
           /\ Indices(f, FilesOfHierarchies(f.db, s)) \cap TableDictionaryIndices(f, t) = {}
           /\ s # t => TableIndices(f, s) \cap TableIndices(f, t) = {}
<1>1. \A X, Y : X \cap Y = {} => Indices(f, X) \cap Indices(f, Y) = {}
  BY DEF Indices
<1>2. ASSUME NEW x \in DataTableIds(f.db), NEW y \in DataTableIds(f.db)
      PROVE  FilesOfTable(f.db, x) \cap FilesOfHierarchies(f.db, y) = {}
  <2>1. ({x} \cup ColumnSystems(f.db, x)) \cap HierarchySystems(f.db, y) = {}
    BY TablesApart
  <2> QED
    BY <2>1, FilesApart DEF FilesOfTable, FilesOfHierarchies
<1>3. ASSUME NEW x, NEW A
      PROVE  Indices(f, FilesOfTables(f.db, A)) \cap TableDictionaryIndices(f, x) = {}
  <2> SUFFICES ASSUME NEW j \in DOMAIN f.files, f.files[j].name \in FilesOfTables(f.db, A),
                      j \in TableDictionaryIndices(f, x)
               PROVE  FALSE
    BY DEF Indices
  <2>1. PICK e \in f.db.dictionaries : e.file # <<>> /\ f.files[j].name = e.file[1]
    BY DEF TableDictionaryIndices, DictionaryIndices
  <2>2. e.file[1] \notin FilesOfTables(f.db, {p.table : p \in f.db.partitions})
    <3>1. \A y \in {z \in f.db.dictionaries : z.file # <<>>} :
             y.file[1] \notin FilesOfTables(f.db, {p.table : p \in f.db.partitions})
      BY DEF Proper, KeysHold, FilesKeyed
    <3> QED
      BY <2>1, <3>1
  <2> QED
    BY <2>1, <2>2, FilesTogether
<1>4. ASSUME s # t PROVE FilesOfTable(f.db, s) \cap FilesOfTable(f.db, t) = {}
  <2>1. ({s} \cup ColumnSystems(f.db, s)) \cap ({t} \cup ColumnSystems(f.db, t)) = {}
    BY <1>4, TablesApart
  <2> QED
    BY <2>1, FilesApart DEF FilesOfTable
<1>5. ASSUME s # t PROVE FilesOfHierarchies(f.db, s) \cap FilesOfHierarchies(f.db, t) = {}
  <2>1. HierarchySystems(f.db, s) \cap HierarchySystems(f.db, t) = {}
    BY <1>5, TablesApart
  <2> QED
    BY <2>1, FilesApart DEF FilesOfHierarchies
<1>6. ASSUME s # t PROVE TableDictionaryIndices(f, s) \cap TableDictionaryIndices(f, t) = {}
  <2> SUFFICES ASSUME NEW j \in TableDictionaryIndices(f, s), j \in TableDictionaryIndices(f, t)
               PROVE  FALSE
    OBVIOUS
  <2>1. PICK b \in DataColumnsOf(f.db, s) : j \in DictionaryIndices(f, b.id)
    BY DEF TableDictionaryIndices
  <2>2. PICK c \in DataColumnsOf(f.db, t) : j \in DictionaryIndices(f, c.id)
    BY DEF TableDictionaryIndices
  <2>3. PICK e \in f.db.dictionaries :
           e.column = b.id /\ e.file # <<>> /\ f.files[j].name = e.file[1]
    BY <2>1 DEF DictionaryIndices
  <2>4. PICK g \in f.db.dictionaries :
           g.column = c.id /\ g.file # <<>> /\ f.files[j].name = g.file[1]
    BY <2>2 DEF DictionaryIndices
  <2>5. b.id = c.id
    <3>1. \A x, y \in {z \in f.db.dictionaries : z.file # <<>>} :
             x.file[1] = y.file[1] => x.column = y.column
      BY DEF Proper, KeysHold, FilesKeyed
    <3>2. e.file[1] = g.file[1]
      BY <2>3, <2>4
    <3> QED
      BY <2>3, <2>4, <3>1, <3>2
  <2>6. /\ b \in f.db.columns /\ b.table = s
        /\ c \in f.db.columns /\ c.table = t
    BY DEF DataColumnsOf, ColumnsOf
  <2>7. b = c
    BY <2>5, <2>6 DEF Proper, KeysHold
  <2> QED
    BY <1>6, <2>6, <2>7
<1> DEFINE A(x) == Indices(f, FilesOfTable(f.db, x))
           B(x) == Indices(f, FilesOfHierarchies(f.db, x))
           C(x) == TableDictionaryIndices(f, x)
<1>7. A(s) \cap B(t) = {} /\ A(t) \cap B(s) = {}
  BY <1>1, <1>2
<1>8. \A x, y : A(x) \cap C(y) = {} /\ B(x) \cap C(y) = {}
  BY <1>3 DEF FilesOfTable, FilesOfHierarchies
<1>9. s # t => A(s) \cap A(t) = {} /\ B(s) \cap B(t) = {} /\ C(s) \cap C(t) = {}
  BY <1>1, <1>4, <1>5, <1>6
<1>10. \A x : TableIndices(f, x) = A(x) \cup B(x) \cup C(x)
  BY DEF TableIndices
<1> HIDE DEF A, B, C
<1>11. s # t => TableIndices(f, s) \cap TableIndices(f, t) = {}
  BY <1>7, <1>8, <1>9, <1>10
<1> QED
  BY <1>7, <1>8, <1>11 DEF A, B, C

\* A table is no larger than the files counted for it.
LEMMA TableBounded ==
    ASSUME NEW f, Proper(f), ~f.hasSize, NEW d \in DataOf(f),
           NEW r \in BuildTables(d, f.db, FileSizeMap(f.files))
    PROVE  /\ r.tableSize \in Nat
           /\ r.tableSize <= SumOver(FileSizes(f), TableIndices(f, r.table))
<1> DEFINE t == r.table
           sizes == FileSizeMap(f.files)
           F == FileSizes(f)
           A == Indices(f, FilesOfTable(f.db, t))
           B == Indices(f, FilesOfHierarchies(f.db, t))
           J == TableDictionaryIndices(f, t)
           D == ColumnDictionaries(f, d, t)
           a == TotalSize(sizes, FilesOfTable(f.db, t))
           b == TotalSize(sizes, FilesOfHierarchies(f.db, t))
           c == SumOver(D, DataColumnsOf(f.db, t))
<1>1. t \in DataTableIds(f.db) /\ r.tableSize = r.columnsSize + b
  BY TableRow
<1>2. r.columnsSize = a + SumFunction(D)
  BY <1>1, TableRow, ColumnsSizeOf
<1>3. SumFunction(D) = c /\ c \in Nat /\ c <= SumOver(F, J)
  BY DictionariesBounded
<1>4. a \in Nat /\ a <= SumOver(F, A)
  <2>1. IsFiniteSet(FilesOfTable(f.db, t))
    BY FilesFinite DEF FilesOfTable, Proper
  <2> QED
    BY <2>1, TotalBounded DEF Proper
<1>5. b \in Nat /\ b <= SumOver(F, B)
  <2>1. IsFiniteSet(FilesOfHierarchies(f.db, t))
    BY FilesFinite DEF FilesOfHierarchies, Proper
  <2> QED
    BY <2>1, TotalBounded DEF Proper
<1>6. A \cap B = {} /\ (A \cup B) \cap J = {} /\ TableIndices(f, t) = (A \cup B) \cup J
  BY <1>1, IndicesApart DEF TableIndices
<1>7. /\ A \in SUBSET DOMAIN f.files /\ B \in SUBSET DOMAIN f.files
      /\ J \in SUBSET DOMAIN f.files /\ A \cup B \in SUBSET DOMAIN f.files
  BY DEF Indices, TableDictionaryIndices, DictionaryIndices
<1>8. IsFiniteSet(DOMAIN f.files) /\ \A j \in DOMAIN f.files : F[j] \in Nat
  BY FileSizesFinite DEF Proper
<1> HIDE DEF t, F, A, B, J, D, a, b, c
<1>9. SumOver(F, (A \cup B) \cup J) = SumOver(F, A \cup B) + SumOver(F, J)
  BY <1>6, <1>7, <1>8, SumDisjoint
<1>10. SumOver(F, A \cup B) = SumOver(F, A) + SumOver(F, B)
  BY <1>6, <1>7, <1>8, SumDisjoint
<1>11. SumOver(F, A) \in Nat /\ SumOver(F, B) \in Nat /\ SumOver(F, J) \in Nat
  BY <1>7, <1>8, SumOne
<1> DEFINE x == SumOver(F, A)
           y == SumOver(F, B)
           z == SumOver(F, J)
<1>12. /\ x \in Nat /\ y \in Nat /\ z \in Nat /\ a \in Nat /\ b \in Nat /\ c \in Nat
       /\ a <= x /\ b <= y /\ c <= z
       /\ r.tableSize = (a + c) + b
       /\ SumOver(F, TableIndices(f, t)) = (x + y) + z
  BY <1>1, <1>2, <1>3, <1>4, <1>5, <1>6, <1>9, <1>10, <1>11
<1> HIDE DEF x, y, z
<1>13. r.tableSize \in Nat /\ r.tableSize <= SumOver(F, TableIndices(f, t))
  BY <1>12
<1> QED
  BY <1>13 DEF F, t

\* The tables are no larger than the files of the model.
LEMMA TablesAddUp ==
    ASSUME NEW f, Proper(f), ~f.hasSize, NEW d \in DataOf(f),
           NEW K, K = BuildTables(d, f.db, FileSizeMap(f.files))
    PROVE  SumFunction([r \in K |-> r.tableSize]) <= SumFunction(FileSizes(f))
<1> DEFINE F == [r \in K |-> r.tableSize]
           Part == [r \in K |-> TableIndices(f, r.table)]
           T == DOMAIN f.files
           G == FileSizes(f)
<1>1. IsFiniteSet(T) /\ \A j \in T : G[j] \in Nat
  BY FileSizesFinite DEF Proper
<1>2. \A r \in K : F[r] \in Nat /\ F[r] <= SumOver(G, Part[r])
  <2> SUFFICES ASSUME NEW r \in K PROVE F[r] \in Nat /\ F[r] <= SumOver(G, Part[r])
    OBVIOUS
  <2>1. F[r] = r.tableSize /\ Part[r] = TableIndices(f, r.table)
    OBVIOUS
  <2> HIDE DEF F, Part
  <2> QED
    BY <2>1, TableBounded
<1>3. \A r, s \in K : r # s => Part[r] \cap Part[s] = {}
  <2> SUFFICES ASSUME NEW r \in K, NEW s \in K, r # s PROVE Part[r] \cap Part[s] = {}
    OBVIOUS
  <2>1. r.table # s.table
    BY TableRowOnce
  <2>2. r.table \in DataTableIds(f.db) /\ s.table \in DataTableIds(f.db)
    BY TableRow
  <2> QED
    BY <2>1, <2>2, IndicesApart
<1>4. \A r \in K : Part[r] \in SUBSET T
  BY DEF TableIndices, Indices, TableDictionaryIndices, DictionaryIndices
<1>5. IsFiniteSet(K)
  <2> DEFINE id == [t \in f.db.tables |-> t.id]
             ids == {id[t] : t \in f.db.tables}
             h == [r \in K |-> r.table]
  <2>1. IsFiniteSet(ids)
    <3> HIDE DEF id
    <3> QED
      BY ImageFinite DEF Proper, Counted
  <2>2. \A r \in K : r.table \in ids
    <3>1. \A r \in K : r.table \in DataTableIds(f.db)
      BY TableRow
    <3> QED
      BY <3>1 DEF DataTableIds, DataTables
  <2> HIDE DEF ids
  <2>3. h \in [K -> ids] /\ \A r \in K : h[r] = r.table
    BY <2>2
  <2>4. \A r, s \in K : r.table = s.table => r = s
    BY TableRowOnce
  <2> HIDE DEF h
  <2>5. h \in Injection(K, ids)
    BY <2>3, <2>4 DEF Injection, IsInjective
  <2> QED
    BY <2>1, <2>5, FS_Injection
<1>6. DOMAIN F = K /\ DOMAIN G = T
  BY DEF FileSizes
<1> HIDE DEF F, Part, T, G
<1>7. SumFunction(F) = SumOver(F, K) /\ SumFunction(G) = SumOver(G, T)
  BY <1>1, <1>2, <1>5, <1>6, SumFunctionIsSum
<1>8. SumOver(F, K) <= SumOver(G, T)
  BY <1>1, <1>2, <1>3, <1>4, <1>5, SumOfParts
<1> QED
  BY <1>7, <1>8 DEF F, G

-----------------------------------------------------------------------------
(* The rows.                                                               *)

\* A row is empty or the value of its own file.
LEMMA RowOfFile ==
    ASSUME VpaxInv, NEW w \in Workers, NEW i \in DOMAIN result[w]
    PROVE  /\ Counted(FileAt(w, i))
           /\ \/ result[w][i] = EmptyVpaxValue
              \/ \E d \in DataOf(FileAt(w, i)) :
                    /\ result[w][i].Tables = BuildTables(d, FileAt(w, i).db,
                                                         FileSizeMap(FileAt(w, i).files))
                    /\ result[w][i].Columns = BuildColumns(d, FileAt(w, i).db,
                                                           FileSizeMap(FileAt(w, i).files))
<1> DEFINE f == FileAt(w, i)
           v == result[w][i]
<1>1. OwnRow(w, i) /\ RowsSet(w) /\ TypeInv
  BY HandleInvTypes DEF VpaxInv, TimesInv, RowsOfWorker
<1>2. batch[w][i] \in DOMAIN Contents
  <2>1. batch[w] \in Seq(DOMAIN Contents) /\ row[w] \in Nat /\ row[w] <= Len(batch[w])
    BY <1>1, BatchesAssumption DEF TypeInv, TypeOK
  <2>2. Len(result[w]) <= row[w] /\ DOMAIN result[w] = 1 .. Len(result[w])
        /\ Len(result[w]) \in Nat
    BY <1>1, <2>1 DEF RowsSet
  <2>3. i \in 1 .. Len(batch[w])
    BY <2>1, <2>2
  <2> QED
    BY <2>1, <2>3
<1>3. Counted(f)
  <2>1. f = Contents[batch[w][i]]
    BY DEF FileAt
  <2> HIDE DEF f
  <2> QED
    BY <1>2, <2>1, SizesAssumption DEF Counted
<1>4. ASSUME ~Fails(f)
      PROVE  \E d \in DataOf(f) : /\ v.Tables = BuildTables(d, f.db, FileSizeMap(f.files))
                                  /\ v.Columns = BuildColumns(d, f.db, FileSizeMap(f.files))
  <2>1. WithoutTimes(v, f) \in ValuesOf(f)
    BY <1>1, <1>2, <1>4 DEF OwnRow, Values, FileAt
  <2> HIDE DEF f, v
  <2>2. PICK d \in DataOf(f) : WithoutTimes(v, f) = [s \in ToSet(Sections) |-> SectionOf(f, s, d)]
    BY <2>1 DEF ValuesOf
  <2>3. "Tables" \in ToSet(Sections) /\ "Columns" \in ToSet(Sections)
    BY DEF Sections, ToSet
  <2> DEFINE u == [s \in ToSet(Sections) |-> SectionOf(f, s, d)]
  <2>4. u["Tables"] = SectionOf(f, "Tables", d) /\ u["Columns"] = SectionOf(f, "Columns", d)
    BY <2>3
  <2>5. DOMAIN u = ToSet(Sections)
    OBVIOUS
  <2> HIDE DEF u
  <2>6. v["Tables"] = u["Tables"] /\ v["Columns"] = u["Columns"]
    <3>1. u = [v EXCEPT !["Partitions"] = ListedIn(@, f)]
      BY <2>2 DEF WithoutTimes, u
    <3>2. DOMAIN v = ToSet(Sections)
      BY <2>5, <3>1
    <3> QED
      BY <2>3, <3>1, <3>2
  <2> QED
    BY <2>4, <2>6 DEF SectionOf, BuildSection
<1>5. Fails(f) => v = EmptyVpaxValue
  BY <1>1 DEF OwnRow
<1> QED
  BY <1>3, <1>4, <1>5

\* For any files whose base names are unique and whose databases keep their
\* keys: the column sizes of a table, which one query computes, add up to no
\* more than the ColumnsSize that another computes, and without a column Size
\* the tables add up to no more than the files: nothing is counted twice.
THEOREM SizesAreCountedOnce == Spec => []SizesAddUp
<1>1. VpaxInv => SizesAddUp
  <2> SUFFICES ASSUME VpaxInv, NEW w \in Workers, NEW i \in DOMAIN result[w],
                      UniqueNames(FileAt(w, i)), KeysHold(FileAt(w, i).db)
               PROVE  LET f == FileAt(w, i)
                          v == result[w][i]
                      IN  /\ \A t \in v.Tables :
                                SumFunction([c \in {k \in v.Columns : k.table = t.table} |->
                                                c.totalSize])
                                   <= t.columnsSize
                          /\ ~f.hasSize =>
                                SumFunction([t \in v.Tables |-> t.tableSize])
                                   <= SumFunction([j \in DOMAIN f.files |-> f.files[j].size])
    BY DEF SizesAddUp
  <2> DEFINE f == FileAt(w, i)
             v == result[w][i]
             sizes == FileSizeMap(f.files)
  <2>1. Proper(f)
    BY RowOfFile DEF Proper
  <2>2. CASE v = EmptyVpaxValue
    <3>1. v.Tables = {}
      BY <2>2 DEF EmptyVpaxValue, Sections, ToSet
    <3> DEFINE E == [t \in v.Tables |-> t.tableSize]
    <3>2. SumFunction(E) = 0
      <4>1. DOMAIN E = {}
        BY <3>1
      <4> HIDE DEF E
      <4>2. SumFunction(E) = SumOver(E, {})
        BY <4>1, FS_EmptySet, SumFunctionIsSum
      <4> QED
        BY <4>2, FS_EmptySet, SumOne
    <3>3. SumFunction(FileSizes(f)) \in Nat
      <4>1. IsFiniteSet(DOMAIN f.files) /\ \A j \in DOMAIN f.files : FileSizes(f)[j] \in Nat
        BY <2>1, FileSizesFinite DEF Proper
      <4>2. DOMAIN FileSizes(f) = DOMAIN f.files
        BY DEF FileSizes
      <4>3. SumFunction(FileSizes(f)) = SumOver(FileSizes(f), DOMAIN f.files)
        BY <4>1, <4>2, SumFunctionIsSum
      <4>4. DOMAIN f.files \in SUBSET DOMAIN f.files
        OBVIOUS
      <4> QED
        BY <4>1, <4>3, <4>4, SumOne
    <3>4. SumFunction(E) <= SumFunction(FileSizes(f))
      BY <3>2, <3>3
    <3> QED
      BY <3>1, <3>4 DEF FileSizes
  <2>3. CASE v # EmptyVpaxValue
    <3>1. PICK d \in DataOf(f) : v.Tables = BuildTables(d, f.db, sizes)
                                 /\ v.Columns = BuildColumns(d, f.db, sizes)
      BY <2>3, RowOfFile
    <3>2. ASSUME NEW t \in v.Tables
          PROVE  SumFunction([c \in {k \in v.Columns : k.table = t.table} |-> c.totalSize])
                    <= t.columnsSize
      <4> DEFINE K == {k \in v.Columns : k.table = t.table}
      <4>1. /\ t.table \in DataTableIds(f.db)
            /\ t.columnsSize = CalculateTableColumnsSize(t.table, d, f.db, sizes)
        BY <3>1, TableRow
      <4>2. K = {k \in BuildColumns(d, f.db, sizes) : k.table = t.table}
        BY <3>1
      <4> HIDE DEF K, f
      <4>3. SumFunction([c \in K |-> c.totalSize])
               <= CalculateTableColumnsSize(t.table, d, f.db, sizes)
        BY <2>1, <4>1, <4>2, ColumnsAddUp
      <4> QED
        BY <4>1, <4>3 DEF K
    <3>3. ASSUME ~f.hasSize
          PROVE  SumFunction([t \in v.Tables |-> t.tableSize]) <= SumFunction(FileSizes(f))
      <4> HIDE DEF f
      <4> QED
        BY <2>1, <3>1, <3>3, TablesAddUp
    <3> QED
      BY <3>2, <3>3 DEF FileSizes
  <2> QED
    BY <2>2, <2>3
<1> QED
  BY <1>1, VpaxInvariant, PTL
=============================================================================
