--------------------------- MODULE MetaScan_proofs ---------------------------
(***************************************************************************)
(* The safety of the parallel scan for any table, any number of workers    *)
(* and any group and vector size.                                          *)
(***************************************************************************)
EXTENDS MetaScan, TLAPS

USE WorkersAssumption, RowidsAssumption, SizesAssumption

-----------------------------------------------------------------------------
(* What GetRowIdInfo answers.                                              *)

\* A usable answer names the lowest and the highest rowid of the table.
LEMMA RowIdInfoSpans ==
    ASSUME NEW S \in SUBSET Rowids, GetRowIdInfo(S).valid
    PROVE  /\ GetRowIdInfo(S).min \in Nat
           /\ GetRowIdInfo(S).max \in Nat
           /\ Spans(S, GetRowIdInfo(S).min, GetRowIdInfo(S).max)
<1>1. PICK lo \in S, hi \in S : Spans(S, lo, hi) /\ Usable(lo, hi)
  BY DEF GetRowIdInfo, NoRowIdInfo
<1>2. GetRowIdInfo(S).min = CHOOSE m \in S : \A r \in S : m <= r
  BY <1>1 DEF GetRowIdInfo
<1>3. GetRowIdInfo(S).max = CHOOSE m \in S : \A r \in S : r <= m
  BY <1>1 DEF GetRowIdInfo
<1>4. /\ GetRowIdInfo(S).min \in S
      /\ \A r \in S : GetRowIdInfo(S).min <= r
  BY <1>1, <1>2 DEF Spans
<1>5. /\ GetRowIdInfo(S).max \in S
      /\ \A r \in S : r <= GetRowIdInfo(S).max
  BY <1>1, <1>3 DEF Spans
<1>6. PICK m, n : m = GetRowIdInfo(S).min /\ n = GetRowIdInfo(S).max
  OBVIOUS
<1>7. /\ m \in S /\ n \in S
      /\ \A r \in S : r \in Int /\ m <= r /\ r <= n
  BY <1>4, <1>5, <1>6
<1>8. m \in Nat /\ n \in Nat
  BY <1>1, <1>7 DEF Spans, Usable
<1> QED
  BY <1>6, <1>7, <1>8 DEF Spans

\* The answer has the type of RowIdInfo whatever the table.
LEMMA RowIdInfoType ==
    ASSUME NEW S \in SUBSET Rowids
    PROVE  /\ GetRowIdInfo(S) \in [valid : BOOLEAN, min : Int, max : Int]
           /\ ~GetRowIdInfo(S).valid => GetRowIdInfo(S).max = 0
<1>1. CASE \E lo, hi \in S : Spans(S, lo, hi) /\ Usable(lo, hi)
  <2>1. GetRowIdInfo(S).valid
    BY <1>1 DEF GetRowIdInfo
  <2>2. GetRowIdInfo(S).min \in Int /\ GetRowIdInfo(S).max \in Int
    BY <2>1, RowIdInfoSpans
  <2> QED
    BY <1>1, <2>1, <2>2 DEF GetRowIdInfo
<1>2. CASE ~\E lo, hi \in S : Spans(S, lo, hi) /\ Usable(lo, hi)
  BY <1>2 DEF GetRowIdInfo, NoRowIdInfo
<1> QED
  BY <1>1, <1>2

-----------------------------------------------------------------------------
(* The inductive invariant holds initially.                                *)

LEMMA InitScanInv == Init => ScanInv
<1> SUFFICES ASSUME Init PROVE ScanInv
  OBVIOUS
<1>1. TypeOK
  <2>1. bind \in [valid : BOOLEAN, min : Int, max : Int]
    <3>1. rows \in SUBSET Rowids /\ bind \in {GetRowIdInfo(rows), NoRowIdInfo}
      BY DEF Init
    <3>2. NoRowIdInfo \in [valid : BOOLEAN, min : Int, max : Int]
      BY DEF NoRowIdInfo
    <3> QED
      BY <3>1, <3>2, RowIdInfoType
  <2>2. position \in Nat
    BY <2>1 DEF Init, NoRowIdInfo, FirstPosition
  <2>3. pc \in [Workers -> {"unused", "init", "scan", "finished"}]
    BY DEF Init, NoRowIdInfo
  <2>4. chunk \in [Workers -> [Rowids -> Nat]] /\ returned \in [Rowids -> Nat]
    BY DEF Init, NoRowIdInfo, NoRows
  <2>5. outIdx \in [Workers -> 0..VectorSize]
    BY DEF Init, NoRowIdInfo
  <2>6. /\ done \in [Workers -> BOOLEAN]
        /\ scanCount \in [Workers -> Nat]
        /\ range \in [Workers -> SUBSET Rowids]
        /\ pending \in [Workers -> SUBSET Rowids]
    BY DEF Init, NoRowIdInfo
  <2>7. /\ rows \in SUBSET Rowids
        /\ rowsPerGroup \in Nat \ {0}
        /\ failed \in BOOLEAN
    BY DEF Init, NoRowIdInfo
  <2> QED
    BY <2>1, <2>2, <2>3, <2>4, <2>5, <2>6, <2>7 DEF TypeOK
<1>2. BindDescribesRows
  BY RowIdInfoSpans DEF Init, NoRowIdInfo, BindDescribesRows
<1>3. \A w \in Workers : ~Active(w) /\ pc[w] # "finished"
  BY DEF Init, NoRowIdInfo, Active
<1>4. \A r \in rows : ~Claimed(r)
  <2> SUFFICES ASSUME NEW r \in rows, Claimed(r) PROVE FALSE
    OBVIOUS
  <2>1. CASE bind.valid
    <3>1. bind.min <= r /\ bind.min \in Nat
      BY <2>1, RowIdInfoSpans DEF Init, NoRowIdInfo, Spans
    <3>2. r < position /\ r \in Int
      BY <2>1, <1>1 DEF Claimed, TypeOK
    <3> QED
      BY <2>1, <3>1, <3>2 DEF Init, NoRowIdInfo, FirstPosition
  <2>2. CASE ~bind.valid
    BY <2>2 DEF Init, NoRowIdInfo, Claimed, FirstPosition
  <2> QED
    BY <2>1, <2>2
<1>5. DisjointRanges /\ ActiveRanges
  BY <1>3 DEF DisjointRanges, ActiveRanges
<1>6. NothingElseHeld
  BY DEF Init, NoRowIdInfo, NothingElseHeld, NoRows
<1>7. Settled
  BY <1>4 DEF Init, NoRowIdInfo, Settled, NoRows
<1>8. TasksFinishLast
  <2>1. PICK tasks \in (SUBSET Workers) \ {{}} :
           pc = [w \in Workers |-> IF w \in tasks THEN "init" ELSE "unused"]
    BY DEF Init, NoRowIdInfo
  <2>2. PICK w \in tasks : TRUE
    BY <2>1
  <2>3. w \in Workers /\ pc[w] = "init"
    BY <2>1, <2>2
  <2>4. \E v \in Workers : pc[v] # "unused"
    BY <2>3
  <2>5. \A v \in Workers : pc[v] # "finished"
    BY <1>3
  <2> QED
    BY <2>4, <2>5 DEF TasksFinishLast
<1> QED
  BY <1>1, <1>2, <1>5, <1>6, <1>7, <1>8 DEF ScanInv

-----------------------------------------------------------------------------
(* Preservation: what the three kinds of step do to the invariant.         *)

\* A claim of S, rows that nobody has claimed and that the new position
\* claims: all of them become pending at w.
LEMMA ClaimScanInv ==
    ASSUME ScanInv, NEW w \in Workers, NEW S \in SUBSET rows,
           ~Active(w), pc[w] \in {"init", "scan"},
           PrepareScan(w, S),
           TypeOK',
           \A r \in rows : Claimed(r)' <=> Claimed(r) \/ r \in S,
           \A r \in S : ~Claimed(r),
           WorkLeft,
           UNCHANGED <<tableVars, chunk, outIdx, returned, failed>>
    PROVE  ScanInv'
<1> USE DEF ScanInv
<1>1. /\ rows \subseteq Rowids
      /\ pc \in [Workers -> {"unused", "init", "scan", "finished"}]
      /\ done \in [Workers -> BOOLEAN]
      /\ range \in [Workers -> SUBSET Rowids]
      /\ pending \in [Workers -> SUBSET Rowids]
  BY DEF TypeOK
<1>2. Active(w)' /\ range'[w] = S /\ pending'[w] = S
  BY <1>1 DEF PrepareScan, Active
<1>3. \A v \in Workers : v # w => /\ Active(v)' <=> Active(v)
                                  /\ range'[v] = range[v]
                                  /\ pending'[v] = pending[v]
  BY <1>1 DEF PrepareScan, Active
<1>4. rows' = rows /\ bind' = bind /\ chunk' = chunk /\ returned' = returned
  BY DEF tableVars
<1>5. \A v \in Workers : Active(v) => range[v] \cap S = {}
  BY DEF ActiveRanges
<1>6. BindDescribesRows'
  BY <1>4 DEF BindDescribesRows
<1>7. DisjointRanges'
  BY <1>2, <1>3, <1>5 DEF DisjointRanges
<1>8. \A r \in S : returned[r] = 0 /\ chunk[w][r] = 0
  <2> SUFFICES ASSUME NEW r \in S PROVE returned[r] = 0 /\ chunk[w][r] = 0
    OBVIOUS
  <2>1. r \in Rowids /\ r \in rows
    BY <1>1
  <2>2. \A v \in Workers : ~(Active(v) /\ r \in range[v])
    BY <1>5
  <2> QED
    BY <2>1, <2>2 DEF Settled, NothingElseHeld
<1>9. ActiveRanges'
  <2> SUFFICES ASSUME NEW v \in Workers, Active(v)', NEW r \in range'[v]
               PROVE  /\ r \in rows'
                      /\ Claimed(r)'
                      /\ returned'[r] + chunk'[v][r]
                           + (IF r \in pending'[v] THEN 1 ELSE 0) = 1
    BY DEF ActiveRanges
  <2>1. CASE v = w
    BY <2>1, <1>2, <1>4, <1>8
  <2>2. CASE v # w
    <3>1. Active(v) /\ r \in range[v]
      BY <2>2, <1>3
    <3>2. /\ r \in rows /\ Claimed(r)
          /\ returned[r] + chunk[v][r] + (IF r \in pending[v] THEN 1 ELSE 0) = 1
      BY <3>1 DEF ActiveRanges
    <3> QED
      BY <3>2, <2>2, <1>3, <1>4
  <2> QED
    BY <2>1, <2>2
<1>10. NothingElseHeld'
  BY <1>2, <1>3, <1>4 DEF NothingElseHeld
<1>11. Settled'
  <2> SUFFICES ASSUME NEW r \in Rowids,
                      \A v \in Workers : ~(Active(v)' /\ r \in range'[v])
               PROVE  returned'[r] = IF r \in rows' /\ Claimed(r)' THEN 1 ELSE 0
    BY DEF Settled
  <2>1. r \notin S
    BY <1>2
  <2>2. \A v \in Workers : ~(Active(v) /\ r \in range[v])
    BY <1>3
  <2>3. returned[r] = IF r \in rows /\ Claimed(r) THEN 1 ELSE 0
    BY <2>2 DEF Settled
  <2> QED
    BY <2>1, <2>3, <1>4
<1>12. TasksFinishLast'
  <2>1. \A v \in Workers : pc'[v] # "finished"
    BY <1>1 DEF TasksFinishLast, PrepareScan
  <2>2. pc'[w] = "scan"
    BY <1>1 DEF PrepareScan
  <2> QED
    BY <2>1, <2>2 DEF TasksFinishLast
<1> QED
  BY <1>6, <1>7, <1>9, <1>10, <1>11, <1>12

\* The two claims of PbixParallelStateNext are such claims.
LEMMA ClaimRangeScanInv ==
    ASSUME ScanInv, NEW w \in Workers, ClaimRange(w)
    PROVE  ScanInv'
<1> DEFINE S == {r \in rows : position <= r /\ r <= SliceEnd(w)}
<1> USE DEF ClaimRange, AsksForWork, NextPosition
<1>1. TypeOK /\ BindDescribesRows
  BY DEF ScanInv
<1>2. bind.max \in Int /\ position \in Nat /\ rows \subseteq Int
  BY <1>1 DEF TypeOK
<1>3. position < bind.max /\ bind.valid
  BY DEF WorkLeft
<1>4. GroupSize(w) \in Nat \ {0}
  BY <1>1, <1>2 DEF GroupSize, TypeOK
<1>5. SliceEnd(w) \in Int /\ position <= SliceEnd(w)
  BY <1>2, <1>3, <1>4 DEF SliceEnd
<1>6. position' \in Nat /\ position' = SliceEnd(w) + 1
  BY <1>2, <1>5
<1>7. PrepareScan(w, S)
  OBVIOUS
<1>8. TypeOK'
  <2>1. S \in SUBSET Rowids
    BY <1>1 DEF TypeOK
  <2>2. range' \in [Workers -> SUBSET Rowids] /\ pending' \in [Workers -> SUBSET Rowids]
    BY <1>1, <1>7, <2>1 DEF TypeOK, PrepareScan
  <2> QED
    BY <1>1, <1>4, <1>6, <2>2 DEF TypeOK, PrepareScan, tableVars
<1>9. \A r \in rows : Claimed(r)' <=> Claimed(r) \/ r \in S
  <2> SUFFICES ASSUME NEW r \in rows
               PROVE  (r < position') <=> (r < position) \/ r \in S
    BY <1>3 DEF Claimed, tableVars
  <2>1. r \in Int
    BY <1>2
  <2> QED
    BY <2>1, <1>2, <1>5, <1>6
<1>10. \A r \in S : ~Claimed(r)
  BY <1>2, <1>3 DEF Claimed
<1>11. ~Active(w) /\ pc[w] \in {"init", "scan"}
  BY DEF Active
<1>12. S \in SUBSET rows
  OBVIOUS
<1> HIDE DEF S
<1> QED
  BY <1>7, <1>8, <1>9, <1>10, <1>11, <1>12, ClaimScanInv

LEMMA ClaimTableScanInv ==
    ASSUME ScanInv, NEW w \in Workers, ClaimTable(w)
    PROVE  ScanInv'
<1> USE DEF ClaimTable, AsksForWork
<1>1. TypeOK
  BY DEF ScanInv
<1>2. PrepareScan(w, rows)
  OBVIOUS
<1>3. TypeOK'
  <2>1. rows \in SUBSET Rowids
    BY <1>1 DEF TypeOK
  <2>2. range' \in [Workers -> SUBSET Rowids] /\ pending' \in [Workers -> SUBSET Rowids]
    BY <1>1, <1>2, <2>1 DEF TypeOK, PrepareScan
  <2> QED
    BY <1>1, <2>2 DEF TypeOK, PrepareScan, tableVars
<1>4. \A r \in rows : Claimed(r)' <=> Claimed(r) \/ r \in rows
  BY DEF Claimed, tableVars
<1>5. \A r \in rows : ~Claimed(r)
  BY DEF Claimed, WorkLeft
<1>6. ~Active(w) /\ pc[w] \in {"init", "scan"}
  BY DEF Active
<1> QED
  BY <1>2, <1>3, <1>4, <1>5, <1>6, ClaimScanInv

\* A task that found nothing to claim, at its start or after its last range.
LEMMA TaskEndsScanInv ==
    ASSUME ScanInv, NEW w \in Workers, StartWithoutRange(w) \/ FinishTask(w)
    PROVE  ScanInv'
<1> USE DEF StartWithoutRange, FinishTask
<1>1. TypeOK
  BY DEF ScanInv
<1>2. TypeOK'
  <2>1. /\ \/ pc' = [pc EXCEPT ![w] = "scan"]
           \/ pc' = [pc EXCEPT ![w] = "finished"]
        /\ done' = done \/ done' = [done EXCEPT ![w] = TRUE]
        /\ UNCHANGED <<tableVars, globalVars, scanCount, range, pending, chunk, outIdx,
                       returned, failed>>
    OBVIOUS
  <2> HIDE DEF StartWithoutRange, FinishTask
  <2>2. /\ pc' \in [Workers -> {"unused", "init", "scan", "finished"}]
        /\ done' \in [Workers -> BOOLEAN]
    BY <1>1, <2>1 DEF TypeOK
  <2> QED
    BY <1>1, <2>1, <2>2 DEF TypeOK, tableVars, globalVars
<1>3. \A v \in Workers : Active(v)' <=> Active(v)
  BY <1>1 DEF TypeOK, Active
<1>4. UNCHANGED <<tableVars, globalVars, range, pending, chunk, returned>>
  OBVIOUS
<1>5. BindDescribesRows' /\ DisjointRanges' /\ NothingElseHeld'
  BY <1>3, <1>4
     DEF ScanInv, BindDescribesRows, DisjointRanges, NothingElseHeld, tableVars
<1>6. \A r : Claimed(r)' <=> Claimed(r)
  BY <1>4 DEF Claimed, tableVars, globalVars
<1>7. ActiveRanges' /\ Settled'
  BY <1>3, <1>4, <1>6 DEF ScanInv, ActiveRanges, Settled, tableVars
<1>8. TasksFinishLast'
  <2>1. ~WorkLeft /\ (WorkLeft' <=> WorkLeft)
    BY <1>4 DEF WorkLeft, tableVars, globalVars
  <2>2. pc'[w] # "unused"
    BY <1>1 DEF TypeOK
  <2> QED
    BY <2>1, <2>2 DEF TasksFinishLast
<1> QED
  BY <1>2, <1>5, <1>7, <1>8 DEF ScanInv

\* Stepping the statement moves one row from pending to the chunk.
LEMMA StepRowScanInv ==
    ASSUME ScanInv, NEW w \in Workers, StepRow(w)
    PROVE  ScanInv'
<1>1. PICK r \in pending[w] :
         /\ pending' = [pending EXCEPT ![w] = @ \ {r}]
         /\ chunk' = [chunk EXCEPT ![w][r] = @ + 1]
  BY DEF StepRow
<1>2. TypeOK /\ Active(w) /\ outIdx[w] < VectorSize
  BY DEF ScanInv, StepRow, Scanning, VectorHasRoom, Active
<1>3. /\ chunk \in [Workers -> [Rowids -> Nat]]
      /\ pending \in [Workers -> SUBSET Rowids]
      /\ r \in Rowids
  BY <1>1, <1>2 DEF TypeOK
<1>4. UNCHANGED <<tableVars, globalVars, pc, done, range, returned, failed>>
  BY DEF StepRow
<1>5. TypeOK'
  <2>1. chunk' \in [Workers -> [Rowids -> Nat]]
    BY <1>1, <1>3
  <2>2. pending' \in [Workers -> SUBSET Rowids]
    BY <1>1, <1>3
  <2>3. outIdx' \in [Workers -> 0..VectorSize] /\ scanCount' \in [Workers -> Nat]
    BY <1>2 DEF TypeOK, StepRow, CountRow
  <2> QED
    BY <1>2, <1>4, <2>1, <2>2, <2>3 DEF TypeOK, tableVars, globalVars
<1>6. \A v \in Workers : Active(v)' <=> Active(v)
  BY <1>4 DEF Active
<1>7. \A s : Claimed(s)' <=> Claimed(s)
  BY <1>4 DEF Claimed, tableVars, globalVars
<1>8. /\ pending'[w] = pending[w] \ {r}
      /\ \A v \in Workers : v # w => pending'[v] = pending[v] /\ chunk'[v] = chunk[v]
      /\ \A s \in Rowids : chunk'[w][s] = IF s = r THEN chunk[w][s] + 1
                                                  ELSE chunk[w][s]
  BY <1>1, <1>3
<1>9. r \in range[w]
  BY <1>1 DEF ScanInv, NothingElseHeld
<1>10. BindDescribesRows' /\ DisjointRanges' /\ Settled'
  BY <1>4, <1>6, <1>7
     DEF ScanInv, BindDescribesRows, DisjointRanges, Settled, tableVars
<1>11. ActiveRanges'
  <2> SUFFICES ASSUME NEW v \in Workers, Active(v)', NEW s \in range'[v]
               PROVE  /\ s \in rows'
                      /\ Claimed(s)'
                      /\ returned'[s] + chunk'[v][s]
                           + (IF s \in pending'[v] THEN 1 ELSE 0) = 1
    BY DEF ActiveRanges
  <2>1. Active(v) /\ s \in range[v] /\ s \in Rowids
    BY <1>2, <1>4, <1>6 DEF TypeOK
  <2>2. /\ s \in rows /\ Claimed(s)
        /\ returned[s] + chunk[v][s] + (IF s \in pending[v] THEN 1 ELSE 0) = 1
    BY <2>1 DEF ScanInv, ActiveRanges
  <2>3. returned[s] \in Nat /\ chunk[v][s] \in Nat
    BY <1>2, <2>1 DEF TypeOK
  <2>4. CASE v = w /\ s = r
    BY <2>1, <2>2, <2>3, <2>4, <1>1, <1>4, <1>7, <1>8 DEF tableVars
  <2>5. CASE v # w \/ s # r
    BY <2>1, <2>2, <2>3, <2>5, <1>4, <1>7, <1>8 DEF tableVars
  <2> QED
    BY <2>4, <2>5
<1>12. NothingElseHeld'
  BY <1>2, <1>4, <1>6, <1>8, <1>9 DEF ScanInv, NothingElseHeld
<1>13. TasksFinishLast'
  BY <1>4 DEF ScanInv, TasksFinishLast, WorkLeft, tableVars, globalVars
<1> QED
  BY <1>5, <1>10, <1>11, <1>12, <1>13 DEF ScanInv

\* What emitting w's chunk does to the counts of a row.
LEMMA EmitChunkCounts ==
    ASSUME ScanInv, NEW w \in Workers, Active(w), EmitChunk(w)
    PROVE  /\ returned' \in [Rowids -> Nat]
           /\ chunk' \in [Workers -> [Rowids -> Nat]]
           /\ outIdx' \in [Workers -> 0..VectorSize]
           /\ \A r \in Rowids : chunk'[w][r] = 0
           /\ \A r \in Rowids : returned'[r] = returned[r] + chunk[w][r]
           /\ \A r \in Rowids : r \notin range[w] => returned'[r] = returned[r]
           /\ \A v \in Workers : v # w => chunk'[v] = chunk[v]
<1>1. /\ chunk \in [Workers -> [Rowids -> Nat]]
      /\ returned \in [Rowids -> Nat]
      /\ outIdx \in [Workers -> 0..VectorSize]
  BY DEF ScanInv, TypeOK
<1>2. NoRows \in [Rowids -> Nat] /\ \A r \in Rowids : NoRows[r] = 0
  BY DEF NoRows
<1>3. \A r \in Rowids : r \notin range[w] => chunk[w][r] = 0
  BY DEF ScanInv, NothingElseHeld
<1> QED
  BY <1>1, <1>2, <1>3 DEF EmitChunk

LEMMA ChunkFullScanInv ==
    ASSUME ScanInv, NEW w \in Workers, ChunkFull(w)
    PROVE  ScanInv'
<1>1. TypeOK /\ Active(w) /\ EmitChunk(w)
  BY DEF ScanInv, ChunkFull, Scanning, Active
<1>2. /\ returned' \in [Rowids -> Nat]
      /\ chunk' \in [Workers -> [Rowids -> Nat]]
      /\ outIdx' \in [Workers -> 0..VectorSize]
  BY <1>1, EmitChunkCounts
<1>2a. /\ \A r \in Rowids : chunk'[w][r] = 0
       /\ \A v \in Workers : v # w => chunk'[v] = chunk[v]
  BY <1>1, EmitChunkCounts
<1>2b. \A r \in Rowids : returned'[r] = returned[r] + chunk[w][r]
  BY <1>1, EmitChunkCounts
<1>2c. \A r \in Rowids : r \notin range[w] => returned'[r] = returned[r]
  BY <1>1, EmitChunkCounts
<1>3. UNCHANGED <<tableVars, globalVars, pc, done, scanCount, range, pending, failed>>
  BY DEF ChunkFull
<1>4. TypeOK'
  BY <1>1, <1>2, <1>3 DEF TypeOK, tableVars, globalVars
<1>5. \A v \in Workers : Active(v)' <=> Active(v)
  BY <1>3 DEF Active
<1>6. \A r : Claimed(r)' <=> Claimed(r)
  BY <1>3 DEF Claimed, tableVars, globalVars
<1>7. BindDescribesRows' /\ DisjointRanges' /\ TasksFinishLast'
  BY <1>3, <1>5 DEF ScanInv, BindDescribesRows, DisjointRanges, TasksFinishLast,
                    WorkLeft, tableVars, globalVars
<1>8. ActiveRanges'
  <2> SUFFICES ASSUME NEW v \in Workers, Active(v)', NEW r \in range'[v]
               PROVE  /\ r \in rows'
                      /\ Claimed(r)'
                      /\ returned'[r] + chunk'[v][r]
                           + (IF r \in pending'[v] THEN 1 ELSE 0) = 1
    BY DEF ActiveRanges
  <2>1. Active(v) /\ r \in range[v] /\ r \in Rowids
    BY <1>1, <1>3, <1>5 DEF TypeOK
  <2>2. /\ r \in rows /\ Claimed(r)
        /\ returned[r] + chunk[v][r] + (IF r \in pending[v] THEN 1 ELSE 0) = 1
    BY <2>1 DEF ScanInv, ActiveRanges
  <2>3. returned[r] \in Nat /\ chunk[v][r] \in Nat
    BY <1>1, <2>1 DEF TypeOK
  <2>4. v # w => returned'[r] = returned[r]
    <3>1. v # w => r \notin range[w]
      BY <1>1, <2>1 DEF ScanInv, DisjointRanges
    <3> QED
      BY <3>1, <2>1, <1>2c
  <2>5. r \in rows' /\ Claimed(r)' /\ pending'[v] = pending[v]
    BY <2>2, <1>3, <1>6 DEF tableVars
  <2>6. CASE v = w
    <3>1. chunk'[v][r] = 0 /\ returned'[r] = returned[r] + chunk[v][r]
      BY <2>1, <2>6, <1>2a, <1>2b
    <3> QED
      BY <2>2, <2>3, <2>5, <3>1
  <2>7. CASE v # w
    <3>1. chunk'[v][r] = chunk[v][r] /\ returned'[r] = returned[r]
      BY <2>1, <2>4, <2>7, <1>2a
    <3> QED
      BY <2>2, <2>5, <3>1
  <2> QED
    BY <2>6, <2>7
<1>9. NothingElseHeld'
  BY <1>2a, <1>3, <1>5 DEF ScanInv, NothingElseHeld
<1>10. Settled'
  BY <1>1, <1>2c, <1>3, <1>5, <1>6 DEF ScanInv, Settled, tableVars
<1> QED
  BY <1>4, <1>7, <1>8, <1>9, <1>10 DEF ScanInv

\* The last chunk of a range settles every row of it.
LEMMA RangeDoneScanInv ==
    ASSUME ScanInv, NEW w \in Workers, RangeDone(w)
    PROVE  ScanInv'
<1>1. TypeOK /\ Active(w) /\ EmitChunk(w) /\ pending[w] = {}
  BY DEF ScanInv, RangeDone, Scanning, Active
<1>2. /\ returned' \in [Rowids -> Nat]
      /\ chunk' \in [Workers -> [Rowids -> Nat]]
      /\ outIdx' \in [Workers -> 0..VectorSize]
  BY <1>1, EmitChunkCounts
<1>2a. /\ \A r \in Rowids : chunk'[w][r] = 0
       /\ \A v \in Workers : v # w => chunk'[v] = chunk[v]
  BY <1>1, EmitChunkCounts
<1>2b. \A r \in Rowids : returned'[r] = returned[r] + chunk[w][r]
  BY <1>1, EmitChunkCounts
<1>2c. \A r \in Rowids : r \notin range[w] => returned'[r] = returned[r]
  BY <1>1, EmitChunkCounts
<1>3. UNCHANGED <<tableVars, globalVars, pc, scanCount, range, failed>>
  BY DEF RangeDone
<1>4. /\ done' = [done EXCEPT ![w] = TRUE]
      /\ pending' = [pending EXCEPT ![w] = range[w]]
  BY DEF RangeDone, SetDone
<1>5. TypeOK'
  BY <1>1, <1>2, <1>3, <1>4 DEF TypeOK, tableVars, globalVars
<1>6. /\ ~Active(w)'
      /\ \A v \in Workers : v # w => Active(v)' <=> Active(v)
      /\ \A v \in Workers : v # w => pending'[v] = pending[v]
      /\ pending'[w] = range[w]
  BY <1>1, <1>3, <1>4 DEF Active, TypeOK
<1>7. \A r : Claimed(r)' <=> Claimed(r)
  BY <1>3 DEF Claimed, tableVars, globalVars
<1>8. BindDescribesRows' /\ DisjointRanges' /\ TasksFinishLast'
  BY <1>3, <1>6 DEF ScanInv, BindDescribesRows, DisjointRanges, TasksFinishLast,
                    WorkLeft, tableVars, globalVars
<1>9. \A r \in range[w] : /\ r \in rows /\ Claimed(r) /\ r \in Rowids
                         /\ returned'[r] = 1
  <2> SUFFICES ASSUME NEW r \in range[w]
               PROVE  r \in rows /\ Claimed(r) /\ r \in Rowids /\ returned'[r] = 1
    OBVIOUS
  <2>1. r \in Rowids
    BY <1>1 DEF TypeOK
  <2>2. /\ r \in rows /\ Claimed(r)
        /\ returned[r] + chunk[w][r] + (IF r \in pending[w] THEN 1 ELSE 0) = 1
    BY <1>1 DEF ScanInv, ActiveRanges
  <2>3. returned[r] \in Nat /\ chunk[w][r] \in Nat
    BY <1>1, <2>1 DEF TypeOK
  <2>4. returned[r] + chunk[w][r] = 1
    BY <1>1, <2>2, <2>3
  <2>5. returned'[r] = returned[r] + chunk[w][r]
    BY <1>2b, <2>1
  <2> QED
    BY <2>1, <2>2, <2>4, <2>5
<1>10. ActiveRanges'
  <2> SUFFICES ASSUME NEW v \in Workers, Active(v)', NEW r \in range'[v]
               PROVE  /\ r \in rows'
                      /\ Claimed(r)'
                      /\ returned'[r] + chunk'[v][r]
                           + (IF r \in pending'[v] THEN 1 ELSE 0) = 1
    BY DEF ActiveRanges
  <2>1. v # w /\ Active(v) /\ r \in range[v] /\ r \in Rowids
    BY <1>1, <1>3, <1>6 DEF TypeOK
  <2>2. /\ r \in rows /\ Claimed(r)
        /\ returned[r] + chunk[v][r] + (IF r \in pending[v] THEN 1 ELSE 0) = 1
    BY <2>1 DEF ScanInv, ActiveRanges
  <2>3. returned'[r] = returned[r]
    BY <1>1, <1>2c, <2>1 DEF ScanInv, DisjointRanges
  <2> QED
    BY <2>1, <2>2, <2>3, <1>2a, <1>3, <1>6, <1>7 DEF tableVars
<1>11. NothingElseHeld'
  BY <1>2a, <1>3, <1>6 DEF ScanInv, NothingElseHeld
<1>12. Settled'
  <2> SUFFICES ASSUME NEW r \in Rowids,
                      \A v \in Workers : ~(Active(v)' /\ r \in range'[v])
               PROVE  returned'[r] = IF r \in rows' /\ Claimed(r)' THEN 1 ELSE 0
    BY DEF Settled
  <2>1. CASE r \in range[w]
    BY <2>1, <1>3, <1>7, <1>9 DEF tableVars
  <2>2. CASE r \notin range[w]
    <3>1. \A v \in Workers : ~(Active(v) /\ r \in range[v])
      BY <2>2, <1>3, <1>6
    <3>2. returned[r] = IF r \in rows /\ Claimed(r) THEN 1 ELSE 0
      BY <3>1 DEF ScanInv, Settled
    <3> QED
      BY <2>2, <3>2, <1>2c, <1>3, <1>7 DEF tableVars
  <2> QED
    BY <2>1, <2>2
<1> QED
  BY <1>5, <1>8, <1>10, <1>11, <1>12 DEF ScanInv

\* A step that throws, the end of the query and stuttering.
LEMMA UnchangedScanInv ==
    ASSUME ScanInv,
           UNCHANGED <<tableVars, globalVars, localVars, returned>>,
           failed' \in BOOLEAN
    PROVE  ScanInv'
<1> USE DEF tableVars, globalVars, localVars, ScanInv
<1>1. TypeOK'
  BY DEF TypeOK
<1>2. \A v \in Workers : Active(v)' <=> Active(v)
  BY DEF Active
<1>3. \A r : Claimed(r)' <=> Claimed(r)
  BY DEF Claimed
<1>4. BindDescribesRows' /\ DisjointRanges' /\ TasksFinishLast'
  BY <1>2 DEF BindDescribesRows, DisjointRanges, TasksFinishLast, WorkLeft
<1>5. ActiveRanges' /\ NothingElseHeld' /\ Settled'
  BY <1>2, <1>3 DEF ActiveRanges, NothingElseHeld, Settled
<1> QED
  BY <1>1, <1>4, <1>5

-----------------------------------------------------------------------------

LEMMA NextScanInv == ScanInv /\ [Next]_vars => ScanInv'
<1> SUFFICES ASSUME ScanInv, [Next]_vars PROVE ScanInv'
  OBVIOUS
<1>1. ASSUME NEW w \in Workers, Claim(w) PROVE ScanInv'
  <2>1. CASE ClaimRange(w)
    BY <2>1, ClaimRangeScanInv
  <2>2. CASE ClaimTable(w)
    BY <2>2, ClaimTableScanInv
  <2>3. CASE StartWithoutRange(w) \/ FinishTask(w)
    BY <2>3, TaskEndsScanInv
  <2>4. CASE OpenFails(w)
    BY <2>4, UnchangedScanInv DEF OpenFails
  <2> QED
    BY <1>1, <2>1, <2>2, <2>3, <2>4 DEF Claim
<1>2. ASSUME NEW w \in Workers, Scan(w) PROVE ScanInv'
  <2>1. CASE StepRow(w)
    BY <2>1, StepRowScanInv
  <2>2. CASE RowFails(w)
    BY <2>2, UnchangedScanInv DEF RowFails
  <2>3. CASE ChunkFull(w)
    BY <2>3, ChunkFullScanInv
  <2>4. CASE RangeDone(w)
    BY <2>4, RangeDoneScanInv
  <2> QED
    BY <1>2, <2>1, <2>2, <2>3, <2>4 DEF Scan
<1>3. CASE UNCHANGED vars
  <2>1. failed' \in BOOLEAN
    BY <1>3 DEF ScanInv, TypeOK, vars
  <2> QED
    BY <1>3, <2>1, UnchangedScanInv DEF vars
<1> QED
  BY <1>1, <1>2, <1>3 DEF Next, Over

\* The inductive invariant: where every row of the table is at every moment
\* of the scan.
THEOREM ScanInvariant == Spec => []ScanInv
<1>1. Init => ScanInv
  BY InitScanInv
<1>2. ScanInv /\ [Next]_vars => ScanInv'
  BY NextScanInv
<1> QED
  BY <1>1, <1>2, PTL DEF Spec

\* Type correctness of pbix_meta's scan state.
THEOREM TypeCorrect == Spec => []TypeOK
<1>1. ScanInv => TypeOK
  BY DEF ScanInv
<1> QED
  BY <1>1, ScanInvariant, PTL

LEMMA ScanInvNoDuplicates == ScanInv => NoDuplicateRows
<1> SUFFICES ASSUME ScanInv, NEW r \in Rowids PROVE returned[r] <= 1
  BY DEF NoDuplicateRows
<1>1. TypeOK
  BY DEF ScanInv
<1>2. CASE \E w \in Workers : Active(w) /\ r \in range[w]
  <2>1. PICK w \in Workers : Active(w) /\ r \in range[w]
    BY <1>2
  <2>2. returned[r] + chunk[w][r] + (IF r \in pending[w] THEN 1 ELSE 0) = 1
    BY <2>1 DEF ScanInv, ActiveRanges
  <2>3. returned[r] \in Nat /\ chunk[w][r] \in Nat
    BY <1>1 DEF TypeOK
  <2> QED
    BY <2>2, <2>3
<1>3. CASE ~\E w \in Workers : Active(w) /\ r \in range[w]
  BY <1>3 DEF ScanInv, Settled
<1> QED
  BY <1>2, <1>3

\* No interleaving of the workers returns a row twice.
THEOREM NoDuplicates == Spec => []NoDuplicateRows
  BY ScanInvNoDuplicates, ScanInvariant, PTL

\* The mutex keeps the ranges of concurrent workers apart.
THEOREM RangesDisjoint == Spec => []DisjointRanges
<1>1. ScanInv => DisjointRanges
  BY DEF ScanInv
<1> QED
  BY <1>1, ScanInvariant, PTL

LEMMA ScanInvNoneLost == ScanInv => NoClaimedRowLost
<1> SUFFICES ASSUME ScanInv, NEW r \in rows, Claimed(r), returned[r] # 1
             PROVE  \E w \in Workers :
                       /\ Active(w)
                       /\ r \in range[w]
                       /\ r \in pending[w] \/ chunk[w][r] = 1
  BY DEF NoClaimedRowLost
<1>1. TypeOK /\ r \in Rowids
  BY DEF ScanInv, TypeOK
<1>2. PICK w \in Workers : Active(w) /\ r \in range[w]
  BY <1>1 DEF ScanInv, Settled
<1>3. returned[r] + chunk[w][r] + (IF r \in pending[w] THEN 1 ELSE 0) = 1
  BY <1>2 DEF ScanInv, ActiveRanges
<1>4. returned[r] \in Nat /\ chunk[w][r] \in Nat
  BY <1>1 DEF TypeOK
<1>5. r \in pending[w] \/ chunk[w][r] = 1
  BY <1>3, <1>4
<1> QED
  BY <1>2, <1>5

\* Between the claim of its range and the chunk that returns it, a row is
\* always in the hands of the worker that claimed it.
THEOREM NoneLost == Spec => []NoClaimedRowLost
  BY ScanInvNoneLost, ScanInvariant, PTL

LEMMA ScanInvLoss == ScanInv => LossOnlyAtBoundary
<1> SUFFICES ASSUME ScanInv, Completed, NEW r \in rows, returned[r] = 0
             PROVE  bind.valid /\ r = bind.max /\ position = bind.max
  BY DEF LossOnlyAtBoundary
<1>1. TypeOK /\ r \in Rowids /\ r \in Int
  BY DEF ScanInv, TypeOK
<1>2. \A w \in Workers : ~Active(w)
  BY DEF Completed, AllFinished, Idle, Active
<1>3. ~Claimed(r)
  BY <1>1, <1>2 DEF ScanInv, Settled
<1>4. ~WorkLeft
  BY DEF ScanInv, TasksFinishLast, Completed, AllFinished, Idle
<1>5. position \in Nat /\ bind.max \in Int
  BY <1>1 DEF TypeOK
<1>6. bind.valid
  BY <1>3, <1>4, <1>5 DEF Claimed, WorkLeft
<1>7. r <= bind.max
  BY <1>6 DEF ScanInv, BindDescribesRows, Spans
<1> QED
  BY <1>1, <1>3, <1>4, <1>5, <1>6, <1>7 DEF Claimed, WorkLeft

\* A completed scan lacks at most the row with the highest rowid, and that
\* one only when the last claim ended just below it.
THEOREM LossAtBoundary == Spec => []LossOnlyAtBoundary
  BY ScanInvLoss, ScanInvariant, PTL

-----------------------------------------------------------------------------
(* The group size.                                                         *)

\* scan_count is 0 only for a range that has not yielded a row; a task that
\* has claimed nothing carries 1.
ScanCounts ==
    \A w \in Workers :
        /\ pc[w] = "init" => scanCount[w] = 1
        /\ scanCount[w] = 0 => /\ pending[w] = range[w]
                               /\ done[w] => range[w] = {}

LEMMA ScanCountsInvariant == Spec => []ScanCounts
<1>1. Init => ScanCounts
  BY DEF Init, ScanCounts
<1>2. TypeOK /\ ScanCounts /\ [Next]_vars => ScanCounts'
  <2> SUFFICES ASSUME TypeOK, ScanCounts, [Next]_vars PROVE ScanCounts'
    OBVIOUS
  <2>1. ASSUME NEW w \in Workers, NEW S, PrepareScan(w, S) PROVE ScanCounts'
    BY <2>1 DEF PrepareScan, ScanCounts, TypeOK
  <2>2. ASSUME NEW w \in Workers, Claim(w) PROVE ScanCounts'
    <3>1. CASE ClaimRange(w) \/ ClaimTable(w)
      BY <3>1, <2>1 DEF ClaimRange, ClaimTable
    <3>2. CASE StartWithoutRange(w) \/ FinishTask(w) \/ OpenFails(w)
      BY <3>2 DEF StartWithoutRange, FinishTask, OpenFails, ScanCounts, TypeOK,
                  localVars
    <3> QED
      BY <2>2, <3>1, <3>2 DEF Claim
  <2>3. ASSUME NEW w \in Workers, Scan(w) PROVE ScanCounts'
    <3>1. CASE StepRow(w)
      <4>1. scanCount'[w] = scanCount[w] + 1 /\ scanCount'[w] # 0
        BY <3>1 DEF StepRow, CountRow, TypeOK
      <4>2. pc[w] = "scan" /\ pc' = pc /\ done' = done /\ range' = range
        BY <3>1 DEF StepRow, Scanning
      <4>3. \A v \in Workers :
               v # w => scanCount'[v] = scanCount[v] /\ pending'[v] = pending[v]
        BY <3>1 DEF StepRow, CountRow, TypeOK
      <4> QED
        BY <4>1, <4>2, <4>3 DEF ScanCounts
    <3>2. CASE RowFails(w) \/ ChunkFull(w)
      BY <3>2 DEF RowFails, ChunkFull, ScanCounts, localVars
    <3>3. CASE RangeDone(w)
      BY <3>3 DEF RangeDone, SetDone, ScanCounts, TypeOK
    <3> QED
      BY <2>3, <3>1, <3>2, <3>3 DEF Scan
  <2>4. CASE UNCHANGED vars
    BY <2>4 DEF vars, localVars, ScanCounts
  <2> QED
    BY <2>2, <2>3, <2>4 DEF Next, Over
<1> QED
  BY <1>1, <1>2, TypeCorrect, PTL DEF Spec

\* Every step but a claim keeps the group size; a claim may double it.
LEMMA GroupSizeStep ==
    ASSUME [Next]_vars
    PROVE  \/ rowsPerGroup' = rowsPerGroup
           \/ \E w \in Workers : ClaimRange(w) /\ rowsPerGroup' = GroupSize(w)
BY DEF Next, Over, Claim, Scan, ClaimRange, ClaimTable, StartWithoutRange,
       FinishTask, OpenFails, StepRow, RowFails, ChunkFull, RangeDone, vars,
       globalVars

\* The ranges claimed so far cover at least a group, at least two of them once
\* a worker has met a gap, and at least two doubled ones once it has doubled.
GapsClaimed ==
    LET claimed == position - FirstPosition(bind)
    IN  /\ ~bind.valid => rowsPerGroup = RowsPerGroup
        /\ RowsPerGroup <= rowsPerGroup
        /\ bind.valid =>
              /\ claimed = 0 \/ RowsPerGroup <= claimed \/ (claimed > 0 /\ ~WorkLeft)
              /\ \A w \in Workers :
                    scanCount[w] = 0 /\ range[w] = {} =>
                        2 * RowsPerGroup <= claimed \/ ~WorkLeft
              /\ \/ rowsPerGroup = RowsPerGroup
                 \/ 2 * rowsPerGroup <= claimed
                 \/ rowsPerGroup <= claimed /\ ~WorkLeft

\* A claim, doubled or not, keeps it: the first claim meets the lowest row.
LEMMA ClaimKeepsGaps ==
    ASSUME ScanInv, ScanCounts, GapsClaimed, NEW w \in Workers, ClaimRange(w)
    PROVE  GapsClaimed'
<1> DEFINE First == FirstPosition(bind)
<1>1. /\ bind.valid /\ bind' = bind /\ rows' = rows
      /\ WorkLeft
      /\ rowsPerGroup' = GroupSize(w)
      /\ position' = SliceEnd(w) + 1
      /\ PrepareScan(w, {r \in rows : position <= r /\ r <= SliceEnd(w)})
  BY DEF ClaimRange, tableVars, NextPosition
<1>2. /\ bind.min \in Nat /\ bind.max \in Int /\ position \in Nat
      /\ rowsPerGroup \in Nat /\ RowsPerGroup <= rowsPerGroup
      /\ rows \subseteq Int /\ bind.min \in rows
      /\ \A r \in rows : bind.min <= r /\ r <= bind.max
      /\ bind.max \in rows
  BY <1>1 DEF ScanInv, TypeOK, BindDescribesRows, GapsClaimed, Spans
<1>3. First \in Nat /\ First <= bind.min /\ bind.min <= First + 1
  BY <1>1, <1>2 DEF FirstPosition
<1>4. position < bind.max
  BY <1>1 DEF WorkLeft
<1>5. /\ position = First \/ RowsPerGroup <= position - First
      /\ \A v \in Workers : scanCount[v] = 0 /\ range[v] = {} =>
                              2 * RowsPerGroup <= position - First
      /\ rowsPerGroup = RowsPerGroup \/ 2 * rowsPerGroup <= position - First
  BY <1>1, <1>2, <1>3 DEF GapsClaimed
<1>6. scanCount[w] = 0 => range[w] = {}
  BY DEF ScanCounts, ClaimRange, AsksForWork
<1>7. \/ GroupSize(w) = rowsPerGroup
      \/ /\ GroupSize(w) = 2 * rowsPerGroup
         /\ 2 * rowsPerGroup <= position - First
  BY <1>5, <1>6 DEF GroupSize
<1>8. GroupSize(w) \in Nat /\ RowsPerGroup <= GroupSize(w)
  BY <1>2, <1>7
<1>9. \/ position' = position + GroupSize(w)
      \/ position' = bind.max + 1
  BY <1>1, <1>2, <1>8 DEF SliceEnd
<1>10. position < position' /\ position' \in Nat
  BY <1>2, <1>4, <1>8, <1>9
<1>11. WorkLeft' <=> position' < bind.max
  BY <1>1 DEF WorkLeft
<1>12. RowsPerGroup <= position' - First \/ ~WorkLeft'
  BY <1>2, <1>3, <1>5, <1>8, <1>9, <1>11
<1>13. range'[w] # {} \/ 2 * RowsPerGroup <= position' - First \/ ~WorkLeft'
  <2>1. CASE position = First
    <3>1. SliceEnd(w) >= First + 1 \/ SliceEnd(w) = bind.max
      BY <2>1, <1>2, <1>3, <1>8 DEF SliceEnd
    <3>2. SliceEnd(w) \in Int
      BY <1>2, <1>8 DEF SliceEnd
    <3>3. position <= bind.min /\ bind.min <= SliceEnd(w)
      BY <2>1, <3>1, <3>2, <1>2, <1>3
    <3>4. bind.min \in {r \in rows : position <= r /\ r <= SliceEnd(w)}
      BY <3>3, <1>2
    <3> QED
      BY <3>4, <1>1 DEF PrepareScan, ScanInv, TypeOK
  <2>2. CASE RowsPerGroup <= position - First
    BY <2>2, <1>2, <1>3, <1>8, <1>9, <1>11
  <2> QED
    BY <2>1, <2>2, <1>5
<1>14. \A v \in Workers : scanCount'[v] = 0 /\ range'[v] = {} =>
          2 * RowsPerGroup <= position' - First \/ ~WorkLeft'
  <2> SUFFICES ASSUME NEW v \in Workers, scanCount'[v] = 0, range'[v] = {}
               PROVE  2 * RowsPerGroup <= position' - First \/ ~WorkLeft'
    OBVIOUS
  <2>1. CASE v = w
    BY <2>1, <1>13
  <2>2. CASE v # w
    <3>1. scanCount[v] = 0 /\ range[v] = {}
      BY <2>2, <1>1 DEF PrepareScan, ScanInv, TypeOK
    <3> QED
      BY <3>1, <1>5, <1>2, <1>3, <1>10
  <2> QED
    BY <2>1, <2>2
<1>15. \/ rowsPerGroup' = RowsPerGroup
       \/ 2 * rowsPerGroup' <= position' - First
       \/ rowsPerGroup' <= position' - First /\ ~WorkLeft'
  BY <1>1, <1>2, <1>3, <1>5, <1>7, <1>8, <1>9, <1>10, <1>11
<1>16. position' - First > 0
  BY <1>2, <1>3, <1>5, <1>10
<1>17. First' = First
  BY <1>1
<1> HIDE DEF First
<1>18. FirstPosition(bind)' = First
  BY <1>17 DEF First
<1> QED
  BY <1>1, <1>8, <1>12, <1>14, <1>15, <1>16, <1>18 DEF GapsClaimed

LEMMA GapsClaimedInvariant == Spec => []GapsClaimed
<1>1. Init => GapsClaimed
  BY InitScanInv DEF Init, NoRowIdInfo, GapsClaimed, ScanInv, TypeOK
<1>2. ScanInv /\ ScanCounts /\ GapsClaimed /\ [Next]_vars => GapsClaimed'
  <2> SUFFICES ASSUME ScanInv, ScanCounts, GapsClaimed, [Next]_vars
               PROVE  GapsClaimed'
    OBVIOUS
  <2>1. CASE \E w \in Workers : ClaimRange(w)
    BY <2>1, ClaimKeepsGaps
  <2>2. CASE \E w \in Workers : ClaimTable(w)
    BY <2>2 DEF ClaimTable, GapsClaimed, tableVars
  <2>3. CASE UNCHANGED <<tableVars, globalVars, scanCount, range>>
    BY <2>3 DEF GapsClaimed, WorkLeft, tableVars, globalVars
  <2>4. CASE \E w \in Workers : StepRow(w)
    <3>1. PICK w \in Workers : StepRow(w)
      BY <2>4
    <3>2. UNCHANGED <<rows, bind, position, rowsPerGroup, range>>
      BY <3>1 DEF StepRow, tableVars, globalVars
    <3>3. \A v \in Workers : scanCount'[v] = 0 => scanCount[v] = 0
      BY <3>1 DEF StepRow, CountRow, ScanInv, TypeOK
    <3>4. WorkLeft' <=> WorkLeft
      BY <3>2 DEF WorkLeft
    <3> QED
      BY <3>2, <3>3, <3>4 DEF GapsClaimed
  <2> QED
    BY <2>1, <2>2, <2>3, <2>4
       DEF Next, Over, Claim, Scan, StartWithoutRange, FinishTask, OpenFails,
           RowFails, ChunkFull, RangeDone, vars, localVars
<1> QED
  BY <1>1, <1>2, ScanInvariant, ScanCountsInvariant, PTL DEF Spec

\* The doubling cannot run away: a doubled group is no longer than what had
\* been claimed before it.
THEOREM GroupKeepsBehind == Spec => []GroupWithinClaimed
<1>1. ScanInv /\ GapsClaimed => GroupWithinClaimed
  <2> SUFFICES ASSUME ScanInv, GapsClaimed, rowsPerGroup # RowsPerGroup
               PROVE  rowsPerGroup <= position - FirstPosition(bind)
    BY DEF GroupWithinClaimed
  <2>1. bind.valid
    BY DEF GapsClaimed
  <2>2. rowsPerGroup \in Nat /\ position \in Nat /\ FirstPosition(bind) \in Int
    BY DEF ScanInv, TypeOK, FirstPosition
  <2> QED
    BY <2>1, <2>2 DEF GapsClaimed
<1> QED
  BY <1>1, ScanInvariant, GapsClaimedInvariant, PTL

\* The group size doubles only for a worker whose previous range was empty.
THEOREM GroupGrowth == Spec => GroupGrowsOverGapsOnly
<1>1. ASSUME TypeOK, ScanCounts, [Next]_vars, rowsPerGroup' # rowsPerGroup
      PROVE  \E w \in Workers : done[w] /\ ~done'[w] /\ range[w] = {}
  <2>1. PICK w \in Workers : ClaimRange(w) /\ rowsPerGroup' = GroupSize(w)
    BY <1>1, GroupSizeStep
  <2>2. scanCount[w] = 0
    BY <1>1, <2>1 DEF GroupSize
  <2>3. done[w] /\ range[w] = {}
    BY <1>1, <2>1, <2>2 DEF ScanCounts, ClaimRange, AsksForWork
  <2>4. ~done'[w]
    BY <1>1, <2>1 DEF ClaimRange, PrepareScan, TypeOK
  <2> QED
    BY <2>3, <2>4
<1>2. TypeOK /\ ScanCounts /\ [Next]_vars =>
         [rowsPerGroup' # rowsPerGroup =>
            \E w \in Workers : done[w] /\ ~done'[w] /\ range[w] = {}]_vars
  BY <1>1
<1> QED
  BY <1>2, TypeCorrect, ScanCountsInvariant, PTL DEF Spec, GroupGrowsOverGapsOnly

-----------------------------------------------------------------------------
(* Refinement.                                                             *)

\* The task that took a step was not yet finished, so the query was running.
LEMMA RunningBefore ==
    ASSUME NEW w \in Workers, Claim(w) \/ Scan(w)
    PROVE  Outcome = "running"
<1>1. ~failed /\ pc[w] \in {"init", "scan"}
  BY DEF Claim, Scan, ClaimRange, ClaimTable, StartWithoutRange, FinishTask,
         OpenFails, StepRow, RowFails, ChunkFull, RangeDone, AsksForWork, Scanning
<1> QED
  BY <1>1 DEF Outcome, AllFinished, Idle

\* Every step of the workers is a step of the abstract scan or a stutter.
LEMMA StepRefines ==
    ScanInv /\ [Next]_vars => [Abstract!Next]_(Abstract!vars)
<1> SUFFICES ASSUME ScanInv, [Next]_vars
             PROVE  Abstract!Next \/ UNCHANGED <<rows, returned, Outcome>>
  BY DEF Abstract!vars
<1>1. TypeOK /\ ScanInv'
  BY NextScanInv DEF ScanInv
<1>2. ASSUME NEW w \in Workers, ~failed',
             pc' = [pc EXCEPT ![w] = "scan"] \/ (pc' = pc /\ pc[w] = "scan")
      PROVE  Outcome' = "running"
  <2>1. pc'[w] = "scan"
    BY <1>1, <1>2 DEF TypeOK
  <2> QED
    BY <1>2, <2>1 DEF Outcome, AllFinished, Idle
<1>3. ASSUME NEW w \in Workers,
             ClaimRange(w) \/ ClaimTable(w) \/ StartWithoutRange(w) \/ StepRow(w)
      PROVE  UNCHANGED <<rows, returned, Outcome>>
  <2>1. Outcome = "running"
    BY <1>3, RunningBefore DEF Claim, Scan
  <2>2. Outcome' = "running"
    <3>1. ~failed'
      BY <1>3 DEF ClaimRange, ClaimTable, StartWithoutRange, StepRow,
                  AsksForWork, Scanning
    <3>2. pc' = [pc EXCEPT ![w] = "scan"] \/ (pc' = pc /\ pc[w] = "scan")
      <4>1. CASE ClaimRange(w) \/ ClaimTable(w) \/ StartWithoutRange(w)
        BY <4>1 DEF ClaimRange, ClaimTable, StartWithoutRange, PrepareScan
      <4>2. CASE StepRow(w)
        BY <4>2 DEF StepRow, Scanning
      <4> QED
        BY <1>3, <4>1, <4>2
    <3> QED
      BY <1>2, <3>1, <3>2
  <2>3. UNCHANGED <<rows, returned>>
    BY <1>3 DEF ClaimRange, ClaimTable, StartWithoutRange, StepRow, tableVars
  <2> QED
    BY <2>1, <2>2, <2>3
<1>4. ASSUME NEW w \in Workers, OpenFails(w) \/ RowFails(w)
      PROVE  Abstract!Fail
  <2>1. Outcome = "running"
    BY <1>4, RunningBefore DEF Claim, Scan
  <2>2. Outcome' = "failed" /\ UNCHANGED <<rows, returned>>
    BY <1>4 DEF OpenFails, RowFails, Outcome, tableVars
  <2> QED
    BY <2>1, <2>2 DEF Abstract!Fail
<1>5. ASSUME NEW w \in Workers, ChunkFull(w) \/ RangeDone(w)
      PROVE  Abstract!ReturnChunk
  <2>1. Outcome = "running"
    BY <1>5, RunningBefore DEF Scan
  <2>2. Outcome' = "running"
    BY <1>2, <1>5 DEF ChunkFull, RangeDone, Scanning
  <2>3. rows' = rows /\ Active(w) /\ EmitChunk(w)
    BY <1>5 DEF ChunkFull, RangeDone, Scanning, Active, tableVars
  <2> DEFINE S == {r \in Rowids : chunk[w][r] # 0}
  <2>4. \A r \in S : r \in rows /\ returned[r] = 0 /\ chunk[w][r] = 1
    <3> SUFFICES ASSUME NEW r \in S
                 PROVE  r \in rows /\ returned[r] = 0 /\ chunk[w][r] = 1
      OBVIOUS
    <3>1. r \in range[w]
      BY DEF ScanInv, NothingElseHeld
    <3>2. /\ r \in rows
          /\ returned[r] + chunk[w][r] + (IF r \in pending[w] THEN 1 ELSE 0) = 1
      BY <2>3, <3>1 DEF ScanInv, ActiveRanges
    <3>3. returned[r] \in Nat /\ chunk[w][r] \in Nat \ {0}
      BY <1>1 DEF TypeOK
    <3> QED
      BY <3>2, <3>3
  <2>5. returned' = [r \in Rowids |-> IF r \in S THEN 1 ELSE returned[r]]
    <3>1. \A r \in Rowids :
             returned[r] + chunk[w][r] = IF r \in S THEN 1 ELSE returned[r]
      BY <1>1, <2>4 DEF TypeOK
    <3> QED
      BY <2>3, <3>1 DEF EmitChunk
  <2>6. S \in SUBSET Abstract!Missing
    BY <2>4 DEF Abstract!Missing
  <2> QED
    BY <2>1, <2>2, <2>3, <2>5, <2>6 DEF Abstract!ReturnChunk
<1>6. ASSUME NEW w \in Workers, FinishTask(w)
      PROVE  Abstract!Next \/ UNCHANGED <<rows, returned, Outcome>>
  <2>1. Outcome = "running"
    BY <1>6, RunningBefore DEF Claim
  <2>2. UNCHANGED <<rows, bind, returned, failed, position>> /\ ~failed
    BY <1>6 DEF FinishTask, tableVars, globalVars
  <2>3. CASE ~AllFinished'
    BY <2>1, <2>2, <2>3 DEF Outcome
  <2>4. CASE AllFinished'
    <3>1. Outcome' = "done"
      BY <2>2, <2>4 DEF Outcome
    <3>2. LossOnlyAtBoundary'
      BY <1>1, ScanInvLoss, PTL
    <3>3. \A r \in rows : returned[r] = 0 => bind.valid /\ r = bind.max
      BY <2>2, <2>4, <3>2 DEF LossOnlyAtBoundary, Completed
    <3>4. bind.valid => \A r \in rows : r <= bind.max
      BY DEF ScanInv, BindDescribesRows, Spans
    <3>5. \A r \in Abstract!Missing : Abstract!IsLastRow(r)
      BY <3>3, <3>4 DEF Abstract!Missing, Abstract!IsLastRow
    <3> QED
      BY <2>1, <2>2, <3>1, <3>5 DEF Abstract!Next, Abstract!Complete
  <2> QED
    BY <2>3, <2>4
<1>7. CASE UNCHANGED vars
  BY <1>7 DEF vars, tableVars, localVars, Outcome, AllFinished, Idle
<1> QED
  BY <1>3, <1>4, <1>5, <1>6, <1>7
     DEF Next, Over, Claim, Scan, Abstract!Next

\* The parallel scan implements the abstract one.
THEOREM Refinement == Spec => ImplementsTableScan
<1>1. Init => Abstract!Init
  <2> SUFFICES ASSUME Init PROVE Abstract!Init
    OBVIOUS
  <2>1. Outcome = "running"
    <3>1. \E w \in Workers : pc[w] # "unused"
      BY InitScanInv DEF ScanInv, TasksFinishLast
    <3> QED
      BY <3>1 DEF Init, Outcome, AllFinished, Idle
  <2> QED
    BY <2>1 DEF Init, NoRows, Abstract!Init
<1>2. ScanInv /\ [Next]_vars => [Abstract!Next]_(Abstract!vars)
  BY StepRefines
<1> QED
  BY <1>1, <1>2, ScanInvariant, PTL DEF Spec, ImplementsTableScan, Abstract!Spec
=============================================================================
