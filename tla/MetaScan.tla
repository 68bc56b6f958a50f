------------------------------ MODULE MetaScan ------------------------------
(***************************************************************************)
(* The pbix_meta() table function (pbix_scanner.cpp): DuckDB runs one task *)
(* per worker, and the workers share the table by claiming ranges of       *)
(* rowids under the mutex of PbixGlobalState.  A claim opens the worker's  *)
(* own copy of the metadata database and prepares a statement over the     *)
(* range; the worker then steps the statement one row at a time and hands  *)
(* DuckDB a chunk when the vector is full or the range is exhausted.       *)
(*                                                                         *)
(* The guard of PbixParallelStateNext and everything it does happen under  *)
(* lock_guard, so a claim is one action; every Step() of a statement is an *)
(* action, because the workers step their statements concurrently.         *)
(***************************************************************************)
EXTENDS Integers, FiniteSets

CONSTANTS
    Workers,               \* the tasks DuckDB may start
    Rowids,                \* the rowids a table may use (may be negative)
    RowsPerGroup,          \* bind_data.rows_per_group, 122880 in the code
    VectorSize,            \* STANDARD_VECTOR_SIZE
    MaxRows,               \* MAX_ROWS of GetRowIdInfo
    MaxIdx                 \* static_cast<idx_t>(-1)

ASSUME WorkersAssumption == Workers # {} /\ IsFiniteSet(Workers)
ASSUME RowidsAssumption == Rowids \subseteq Int /\ 0 \in Rowids
ASSUME SizesAssumption ==
    /\ RowsPerGroup \in Nat \ {0, 1}
    /\ VectorSize \in Nat \ {0}
    /\ MaxRows \in Nat \ {0}
    /\ MaxIdx \in Nat \ {0}

VARIABLES
    rows,                  \* the rowids of the table in the metadata database
    bind,                  \* what PbixBind learnt: is the rowid range usable
    position,              \* PbixGlobalState.position
    rowsPerGroup,          \* PbixGlobalState.rows_per_group
    pc,                    \* where each task is
    done,                  \* PbixLocalState.done
    scanCount,             \* PbixLocalState.scan_count
    range,                 \* the rows the worker's statement selects
    pending,               \* the rows that statement has yet to yield
    chunk,                 \* the output chunk being filled: copies per row
    outIdx,                \* out_idx, the chunk's length
    returned,              \* history: copies of each row handed to DuckDB
    failed                 \* history: the query has thrown

globalVars == <<position, rowsPerGroup>>
tableVars  == <<rows, bind>>
localVars  == <<pc, done, scanCount, range, pending, chunk, outIdx>>
vars == <<tableVars, globalVars, localVars, returned, failed>>

NoRows == [r \in Rowids |-> 0]

-----------------------------------------------------------------------------
(* Bind: GetRowIdInfo decides between a parallel and a single scan.        *)

Spans(S, lo, hi) == lo \in S /\ hi \in S /\ \A r \in S : lo <= r /\ r <= hi

Usable(lo, hi) == lo >= 0 /\ hi > lo /\ hi - lo < MaxRows

NoRowIdInfo == [valid |-> FALSE, min |-> 0, max |-> 0]

GetRowIdInfo(S) ==
    IF \E lo, hi \in S : Spans(S, lo, hi) /\ Usable(lo, hi)
    THEN [valid |-> TRUE,
          min   |-> CHOOSE lo \in S : \A r \in S : lo <= r,
          max   |-> CHOOSE hi \in S : \A r \in S : r <= hi]
    ELSE NoRowIdInfo

\* PbixMaxThreads; DuckDB runs at least one task.
MaxThreads(info) ==
    LET quotient == (info.max - info.min) \div RowsPerGroup
    IN  IF info.valid /\ quotient > 0 THEN quotient ELSE 1

\* Mutant: the scan starts behind the first row.
SkipsFirstRow(info) == IF info.valid /\ info.min > 0 THEN info.min + 1 ELSE 0

\* PbixInitGlobalState.
FirstPosition(info) == IF info.valid /\ info.min > 0 THEN info.min - 1 ELSE 0

Init ==
    /\ rows \in SUBSET Rowids
    /\ bind \in {GetRowIdInfo(rows), NoRowIdInfo}   \* a view has no rowids
    /\ position = FirstPosition(bind)
    /\ rowsPerGroup = RowsPerGroup
    /\ \E tasks \in (SUBSET Workers) \ {{}} :
          /\ Cardinality(tasks) <= MaxThreads(bind)
          /\ pc = [w \in Workers |-> IF w \in tasks THEN "init" ELSE "unused"]
    /\ done = [w \in Workers |-> FALSE]
    /\ scanCount = [w \in Workers |-> 1]
    /\ range = [w \in Workers |-> {}]
    /\ pending = [w \in Workers |-> {}]
    /\ chunk = [w \in Workers |-> NoRows]
    /\ outIdx = [w \in Workers |-> 0]
    /\ returned = NoRows
    /\ failed = FALSE

-----------------------------------------------------------------------------
(* PbixParallelStateNext, called when a task starts and when its range is  *)
(* exhausted.                                                              *)

AsksForWork(w) ==
    /\ ~failed
    /\ \/ pc[w] = "init"
       \/ pc[w] = "scan" /\ done[w]

\* Mutant: a rest smaller than a group is not claimed.
StopsShort ==
    IF bind.valid THEN position + rowsPerGroup < bind.max ELSE position = 0

WorkLeft ==
    IF bind.valid THEN position < bind.max ELSE position = 0

\* PbixInitInternal: the statement over S is prepared, nothing stepped yet.
PrepareScan(w, S) ==
    /\ range' = [range EXCEPT ![w] = S]
    /\ pending' = [pending EXCEPT ![w] = S]
    /\ done' = [done EXCEPT ![w] = FALSE]
    /\ scanCount' = [scanCount EXCEPT ![w] = 0]
    /\ pc' = [pc EXCEPT ![w] = "scan"]

\* Mutant: the group doubles although the previous range had rows.
DoublesAlways(w) ==
    IF rowsPerGroup < bind.max THEN 2 * rowsPerGroup ELSE rowsPerGroup

GroupSize(w) ==
    IF scanCount[w] = 0 /\ rowsPerGroup < bind.max
    THEN 2 * rowsPerGroup
    ELSE rowsPerGroup

SliceEnd(w) ==
    LET end == position + GroupSize(w) - 1
    IN  IF end < bind.max THEN end ELSE bind.max

\* Mutant: the next claim starts at the last rowid of this one.
Overlaps(w) == SliceEnd(w)

NextPosition(w) == SliceEnd(w) + 1

ClaimRange(w) ==
    /\ AsksForWork(w)
    /\ bind.valid
    /\ WorkLeft
    /\ PrepareScan(w, {r \in rows : position <= r /\ r <= SliceEnd(w)})
    /\ rowsPerGroup' = GroupSize(w)
    /\ position' = NextPosition(w)
    /\ UNCHANGED <<tableVars, chunk, outIdx, returned, failed>>

ClaimTable(w) ==
    /\ AsksForWork(w)
    /\ ~bind.valid
    /\ WorkLeft
    /\ PrepareScan(w, rows)
    /\ position' = MaxIdx
    /\ UNCHANGED <<tableVars, rowsPerGroup, chunk, outIdx, returned, failed>>

\* PbixInitLocalState found nothing to claim.
StartWithoutRange(w) ==
    /\ ~failed
    /\ pc[w] = "init"
    /\ ~WorkLeft
    /\ done' = [done EXCEPT ![w] = TRUE]
    /\ pc' = [pc EXCEPT ![w] = "scan"]
    /\ UNCHANGED <<tableVars, globalVars, scanCount, range, pending, chunk,
                   outIdx, returned, failed>>

\* No range left: PbixScan returns the empty chunk that ends the task.
FinishTask(w) ==
    /\ ~failed
    /\ pc[w] = "scan"
    /\ done[w]
    /\ ~WorkLeft
    /\ pc' = [pc EXCEPT ![w] = "finished"]
    /\ UNCHANGED <<tableVars, globalVars, done, scanCount, range, pending,
                   chunk, outIdx, returned, failed>>

\* The first claim of a worker reads the file again (ExtractDB) and may throw.
OpenFails(w) ==
    /\ ~failed
    /\ pc[w] = "init"
    /\ WorkLeft
    /\ failed' = TRUE
    /\ UNCHANGED <<tableVars, globalVars, localVars, returned>>

-----------------------------------------------------------------------------
(* PbixScan: fill one output chunk from the worker's statement.            *)

Scanning(w) == ~failed /\ pc[w] = "scan" /\ ~done[w]

\* Mutant: the cardinality of a chunk is set only when the vector is full.
DropsPartialChunk(w) ==
    /\ returned' = IF outIdx[w] < VectorSize THEN returned
                   ELSE [r \in Rowids |-> returned[r] + chunk[w][r]]
    /\ chunk' = [chunk EXCEPT ![w] = NoRows]
    /\ outIdx' = [outIdx EXCEPT ![w] = 0]

EmitChunk(w) ==
    /\ returned' = [r \in Rowids |-> returned[r] + chunk[w][r]]
    /\ chunk' = [chunk EXCEPT ![w] = NoRows]
    /\ outIdx' = [outIdx EXCEPT ![w] = 0]

\* Mutant: one row too many for the vector.
OffByOneRoom(w) == outIdx[w] <= VectorSize

VectorHasRoom(w) == outIdx[w] < VectorSize

\* Mutant: scan_count is not maintained.
RowNotCounted(w) == UNCHANGED scanCount

CountRow(w) == scanCount' = [scanCount EXCEPT ![w] = @ + 1]

StepRow(w) ==
    /\ Scanning(w)
    /\ VectorHasRoom(w)
    /\ \E r \in pending[w] :
          /\ \A s \in pending[w] : r <= s
          /\ pending' = [pending EXCEPT ![w] = @ \ {r}]
          /\ chunk' = [chunk EXCEPT ![w][r] = @ + 1]
    /\ outIdx' = [outIdx EXCEPT ![w] = @ + 1]
    /\ CountRow(w)
    /\ UNCHANGED <<tableVars, globalVars, pc, done, range, returned, failed>>

\* A value of another type than the column's: the conversion throws.
RowFails(w) ==
    /\ Scanning(w)
    /\ VectorHasRoom(w)
    /\ pending[w] # {}
    /\ failed' = TRUE
    /\ UNCHANGED <<tableVars, globalVars, localVars, returned>>

ChunkFull(w) ==
    /\ Scanning(w)
    /\ outIdx[w] = VectorSize
    /\ EmitChunk(w)
    /\ UNCHANGED <<tableVars, globalVars, pc, done, scanCount, range, pending,
                   failed>>

\* Mutant: the statement's end is not remembered.
StepsAgain(w) == UNCHANGED done

\* Mutant: an empty range is stepped again.
RepeatsEmptyRange(w) == done' = [done EXCEPT ![w] = range[w] # {}]

SetDone(w) == done' = [done EXCEPT ![w] = TRUE]

\* Step() answers SQLITE_DONE; SQLite would start the statement over on a
\* further Step(), so what is left to yield is the whole range again.
RangeDone(w) ==
    /\ Scanning(w)
    /\ VectorHasRoom(w)
    /\ pending[w] = {}
    /\ SetDone(w)
    /\ pending' = [pending EXCEPT ![w] = range[w]]
    /\ EmitChunk(w)
    /\ UNCHANGED <<tableVars, globalVars, pc, scanCount, range, failed>>

-----------------------------------------------------------------------------

Claim(w) ==
    \/ ClaimRange(w)
    \/ ClaimTable(w)
    \/ StartWithoutRange(w)
    \/ FinishTask(w)
    \/ OpenFails(w)

Scan(w) == StepRow(w) \/ RowFails(w) \/ ChunkFull(w) \/ RangeDone(w)

Idle(w) == pc[w] \in {"unused", "finished"}
AllFinished == \A w \in Workers : Idle(w)

\* The query is over: nothing more happens.
Over ==
    /\ failed \/ AllFinished
    /\ UNCHANGED vars

Next == (\E w \in Workers : Claim(w) \/ Scan(w)) \/ Over

Spec == Init /\ [][Next]_vars

\* DuckDB's executor keeps running every task until it returns an empty
\* chunk, and the mutex is held only inside one call.
FairSpec == Spec /\ \A w \in Workers : WF_vars(Claim(w) \/ Scan(w))

-----------------------------------------------------------------------------
(* Properties.                                                             *)

\* Every variable has its type, the chunk never exceeds the vector.
TypeOK ==
    /\ rows \in SUBSET Rowids
    /\ bind \in [valid : BOOLEAN, min : Int, max : Int]
    /\ position \in Nat
    /\ rowsPerGroup \in Nat \ {0}
    /\ pc \in [Workers -> {"unused", "init", "scan", "finished"}]
    /\ done \in [Workers -> BOOLEAN]
    /\ scanCount \in [Workers -> Nat]
    /\ range \in [Workers -> SUBSET Rowids]
    /\ pending \in [Workers -> SUBSET Rowids]
    /\ chunk \in [Workers -> [Rowids -> Nat]]
    /\ outIdx \in [Workers -> 0..VectorSize]
    /\ returned \in [Rowids -> Nat]
    /\ failed \in BOOLEAN

Active(w) == pc[w] = "scan" /\ ~done[w]

Claimed(r) == IF bind.valid THEN r < position ELSE position > 0

\* No row reaches DuckDB twice, however the workers interleave and although
\* SQLite restarts a statement that is stepped past its end.
NoDuplicateRows == \A r \in Rowids : returned[r] <= 1

\* Two workers never scan overlapping rowid ranges at the same time.
DisjointRanges ==
    \A v, w \in Workers :
        v # w /\ Active(v) /\ Active(w) => range[v] \cap range[w] = {}

\* A row of a claimed range is never lost between the claim and the chunk:
\* it has been returned, or an active worker is about to yield it or holds it.
NoClaimedRowLost ==
    \A r \in rows :
        Claimed(r) => \/ returned[r] = 1
                      \/ \E w \in Workers :
                            /\ Active(w)
                            /\ r \in range[w]
                            /\ r \in pending[w] \/ chunk[w][r] = 1

Completed == AllFinished /\ ~failed

\* A scan that completes has returned every row, except that the row with
\* the highest rowid is lost when the last claim ended just before it.
LossOnlyAtBoundary ==
    Completed =>
        \A r \in rows :
            returned[r] = 0 => bind.valid /\ r = bind.max /\ position = bind.max

\* The group size doubles without an overflow check, but cannot run away: a
\* doubled group is no longer than what the workers had claimed before it.
GroupWithinClaimed ==
    \/ rowsPerGroup = RowsPerGroup
    \/ rowsPerGroup <= position - FirstPosition(bind)

\* The group size grows only by a worker whose previous range had no row.
GroupGrowsOverGapsOnly ==
    [][rowsPerGroup' # rowsPerGroup =>
          \E w \in Workers : done[w] /\ ~done'[w] /\ range[w] = {}
      ]_vars

-----------------------------------------------------------------------------
(* The inductive invariant behind these properties (MetaScan_proofs).      *)

\* bind describes rows: it is usable only if it spans them.
BindDescribesRows ==
    bind.valid => bind.min >= 0 /\ Spans(rows, bind.min, bind.max)

\* In an active range a row is returned, in the chunk, or still to come.
ActiveRanges ==
    \A w \in Workers : Active(w) =>
        \A r \in range[w] :
            /\ r \in rows
            /\ Claimed(r)
            /\ returned[r] + chunk[w][r] + (IF r \in pending[w] THEN 1 ELSE 0) = 1

\* Outside its active range a worker holds nothing.
NothingElseHeld ==
    \A w \in Workers :
        /\ pending[w] \subseteq range[w]
        /\ \A r \in Rowids : ~(Active(w) /\ r \in range[w]) => chunk[w][r] = 0

\* A row that no active range covers is returned once if claimed, else never.
Settled ==
    \A r \in Rowids :
        (\A w \in Workers : ~(Active(w) /\ r \in range[w])) =>
            returned[r] = IF r \in rows /\ Claimed(r) THEN 1 ELSE 0

\* A task runs, and one that has finished left no work behind.
TasksFinishLast ==
    /\ \E w \in Workers : pc[w] # "unused"
    /\ \A w \in Workers : pc[w] = "finished" => ~WorkLeft

ScanInv ==
    /\ TypeOK
    /\ BindDescribesRows
    /\ DisjointRanges
    /\ ActiveRanges
    /\ NothingElseHeld
    /\ Settled
    /\ TasksFinishLast

-----------------------------------------------------------------------------
(* Refinement, liveness and the documented promise.                        *)

Outcome ==
    IF failed THEN "failed" ELSE IF AllFinished THEN "done" ELSE "running"

Abstract == INSTANCE TableScan WITH outcome <- Outcome

\* The workers together implement the promise of TableScan.
ImplementsTableScan == Abstract!Spec

\* Every query ends: all tasks finish or one of them throws.
Terminates == <>(failed \/ AllFinished)

\* README.md:38: pbix_meta "returns the contents of the metadata table".
ScanComplete == Completed => \A r \in rows : returned[r] = 1
=============================================================================
