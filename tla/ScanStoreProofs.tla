--------------------------- MODULE ScanStoreProofs ---------------------------
(* Proofs about ScanStore, for any number of scans and threads, any limits *)
(* and any number of failed calls and crashes.                             *)
EXTENDS ScanStore, TLAPS

-----------------------------------------------------------------------------
(* What the helpers do to the state.                                       *)

(* What update_scan writes to a row.                                       *)
LEMMA RowEdits ==
    ASSUME clock \in 0 .. MaxClock, NEW r \in Row
    PROVE  /\ Parsing(r) \in Row /\ Parsing(r).status = "parsing"
           /\ Complete(r) \in Row /\ Complete(r).status = "complete"
           /\ Failed(r) \in Row /\ Failed(r).status = "failed"
BY DEF Row, Parsing, Complete, Failed

(* update_scan changes one row that is there, in the cache or in the       *)
(* database, and nothing else; in the database it may change nothing.      *)
LEMMA CacheUpdate ==
    ASSUME StoreTyped, NEW s \in Scans, NEW new, UpdateCache(s, new)
    PROVE  /\ UNCHANGED <<cacheRes, cacheObj, dbRow, dbRes, bucket>>
           /\ \/ cacheRow[s] = NoRow /\ UNCHANGED cacheRow
              \/ cacheRow[s] \in Row \ {NoRow} /\ cacheRow' = [cacheRow EXCEPT ![s] = new]
BY DEF StoreTyped, UpdateCache, Merge, durable

(* The same for the database.                                              *)
LEMMA DbUpdate ==
    ASSUME StoreTyped, NEW s \in Scans, NEW new, UpdateDb(s, new)
    PROVE  /\ UNCHANGED <<cacheRow, cacheRes, cacheObj, dbRes, bucket, clock, crashes>>
           /\ \/ UNCHANGED dbRow
              \/ dbRow[s] \in Row \ {NoRow} /\ dbRow' = [dbRow EXCEPT ![s] = new]
BY DEF StoreTyped, UpdateDb, Merge, cache, Works, Fault, world

(* Of the rows only that of s may have changed, to the given status. *)
RowSetTo(s, status) ==
    \A u \in Scans : dbRow'[u] # NoRow =>
        /\ dbRow[u] # NoRow
        /\ dbRow'[u] = dbRow[u] \/ (u = s /\ dbRow'[u].status = status)

(* An update of the database sets the status of one row.                   *)
LEMMA StatusUpdate ==
    ASSUME StoreTyped, clock \in 0 .. MaxClock, NEW s \in Scans
    PROVE  /\ UpdateDb(s, Parsing(dbRow[s])) => RowSetTo(s, "parsing")
           /\ UpdateDb(s, Complete(dbRow[s])) => RowSetTo(s, "complete")
           /\ UpdateDb(s, Failed(dbRow[s])) => RowSetTo(s, "failed")
<1>1. ASSUME NEW new, NEW status, UpdateDb(s, new), dbRow[s] \in Row => new.status = status
      PROVE  RowSetTo(s, status)
  <2>1. CASE UNCHANGED dbRow
    BY <2>1 DEF RowSetTo
  <2>2. CASE dbRow[s] \in Row \ {NoRow} /\ dbRow' = [dbRow EXCEPT ![s] = new]
    BY <1>1, <2>2 DEF RowSetTo, StoreTyped
  <2>3. QED
    BY <1>1, <2>1, <2>2, DbUpdate
<1>2. QED
  BY <1>1, RowEdits

(* A request that returns gives up its local variables.                    *)
LEMMA ReturnTyped ==
    ASSUME RequestTyped, NEW t \in Threads, Return(t)
    PROVE  RequestTyped'
BY DEF RequestTyped, Return, To, NoRows, Goals

(* A request that goes on keeps its local variables.                       *)
LEMMA ToTyped ==
    ASSUME RequestTyped, NEW t \in Threads,
           NEW p \in {"get", "select", "fill", "result", "fillResult",
                      "popObject", "removeObject", "dropCache", "dropRow",
                      "object", "download", "fillObject", "submit", "mark", "markDb",
                      "list", "count", "cleanup", "pop", "remove"},
           To(t, p), UNCHANGED locals
    PROVE  RequestTyped'
BY DEF RequestTyped, To, locals

(* What get_scan returned takes a request on, or ends it.                  *)
LEMMA GotTyped ==
    ASSUME RequestTyped, NEW t \in Threads, NEW r, Got(t, r)
    PROVE  RequestTyped'
BY ReturnTyped, ToTyped DEF Got

-----------------------------------------------------------------------------

(* Types: the cache and the database; requests; jobs; the rest.            *)
LEMMA StoreTypedStep == TypeOK /\ Uploaded /\ Next => StoreTyped'
<1> SUFFICES ASSUME TypeOK, Uploaded, Next PROVE StoreTyped'
  OBVIOUS
<1> USE StoreBounds DEF StoreTyped
<1>1. ASSUME NEW s \in Scans, UploadObject(s) PROVE StoreTyped'
  BY <1>1 DEF UploadObject, Uploaded, WithoutScan, TypeOK, RequestTyped, JobTyped, Row, durable
<1>2. ASSUME NEW s \in Scans, UploadBucket(s) PROVE StoreTyped'
  BY <1>2 DEF UploadBucket, TypeOK, Row, cache, durable
<1>3. ASSUME NEW s \in Scans, UploadRow(s) PROVE StoreTyped'
  BY <1>3 DEF UploadRow, TypeOK, Row, cache, durable
<1>4. ASSUME NEW s \in Scans, UploadInsert(s) PROVE StoreTyped'
  BY <1>4 DEF UploadInsert, TypeOK, Row, cache, durable
<1>5. ASSUME NEW t \in Threads, NEW s \in Scans, NEW g \in Goals \ {"none", "remove"},
             Call(t, s, g)
      PROVE  StoreTyped'
  BY <1>5 DEF Call, Uploaded, WithoutScan, TypeOK, RequestTyped, JobTyped, Row, cache, durable
<1>6. ASSUME NEW t \in Threads, ListBegin(t) \/ GetCached(t) \/ GetMissed(t) \/ GetSelect(t)
             \/ GetResult(t) \/ PopObject(t)
      PROVE  StoreTyped'
  BY <1>6 DEF ListBegin, GetCached, GetMissed, GetSelect, GetResult, PopObject, Uploaded,
     WithoutScan, TypeOK, RequestTyped, JobTyped, Row, cache, durable
<1>7. ASSUME NEW t \in Threads, GetFill(t) PROVE StoreTyped'
  BY <1>7 DEF GetFill, Uploaded, WithoutScan, TypeOK, RequestTyped, JobTyped, Row, durable
<1>8. ASSUME NEW t \in Threads, FillResult(t) PROVE StoreTyped'
  BY <1>8 DEF FillResult, Uploaded, WithoutScan, TypeOK, RequestTyped, JobTyped, Row, durable
<1>9. ASSUME NEW t \in Threads, RemoveObject(t) \/ DropCache(t) \/ DropRow(t) \/ GetObject(t)
             \/ Download(t) \/ Submit(t)
      PROVE  StoreTyped'
  BY <1>9 DEF RemoveObject, DropCache, DropRow, GetObject, Download, Submit, Uploaded, WithoutScan,
     TypeOK, RequestTyped, JobTyped, Row, cache, durable
<1>10. ASSUME NEW t \in Threads, FillObject(t) PROVE StoreTyped'
  BY <1>10 DEF FillObject, Uploaded, WithoutScan, TypeOK, RequestTyped, JobTyped, Row, durable
<1>11. ASSUME NEW t \in Threads, Mark(t) PROVE StoreTyped'
  <2>1. scan[t] \in Scans
    BY <1>11 DEF Mark, Uploaded, WithoutScan
  <2>2. QED
    BY <1>11, <2>1, CacheUpdate, RowEdits DEF Mark, StoreTyped, WorldTyped, TypeOK
<1>12. ASSUME NEW t \in Threads, MarkDb(t) PROVE StoreTyped'
  <2>1. scan[t] \in Scans
    BY <1>12 DEF MarkDb, Uploaded, WithoutScan
  <2>2. QED
    BY <1>12, <2>1, DbUpdate, RowEdits DEF MarkDb, StoreTyped, WorldTyped, TypeOK
<1>13. ASSUME NEW t \in Threads, ListSelect(t) \/ ListOverwrite(t) \/ CleanupSelect(t)
              \/ SweepPop(t) \/ SweepRemove(t) \/ JobRaise(t)
       PROVE  StoreTyped'
  BY <1>13 DEF ListSelect, ListOverwrite, CleanupSelect, SweepPop, SweepRemove, JobRaise, Uploaded,
     WithoutScan, TypeOK, RequestTyped, JobTyped, Row, NoRows, cache, durable
<1>14. ASSUME NEW t \in Threads, JobStart(t) PROVE StoreTyped'
  <2>1. jscan[t] \in Scans
    BY <1>14 DEF JobStart, Uploaded, WithoutScan
  <2>2. QED
    BY <1>14, <2>1, CacheUpdate, RowEdits DEF JobStart, StoreTyped, WorldTyped, TypeOK
<1>15. ASSUME NEW t \in Threads, JobStartDb(t) PROVE StoreTyped'
  <2>1. jscan[t] \in Scans
    BY <1>15 DEF JobStartDb, Uploaded, WithoutScan
  <2>2. QED
    BY <1>15, <2>1, DbUpdate, RowEdits DEF JobStartDb, StoreTyped, WorldTyped, TypeOK
<1>16. ASSUME NEW t \in Threads, JobResult(t) PROVE StoreTyped'
  BY <1>16 DEF JobResult, Uploaded, WithoutScan, TypeOK, RequestTyped, JobTyped, Row, durable
<1>17. ASSUME NEW t \in Threads, JobResultDb(t) PROVE StoreTyped'
  BY <1>17 DEF JobResultDb, Uploaded, WithoutScan, TypeOK, RequestTyped, JobTyped, Row, cache
<1>18. ASSUME NEW t \in Threads, JobFinish(t) PROVE StoreTyped'
  <2>1. jscan[t] \in Scans
    BY <1>18 DEF JobFinish, Uploaded, WithoutScan
  <2>2. QED
    BY <1>18, <2>1, CacheUpdate, RowEdits DEF JobFinish, StoreTyped, WorldTyped, TypeOK
<1>19. ASSUME NEW t \in Threads, JobFinishDb(t) PROVE StoreTyped'
  <2>1. jscan[t] \in Scans
    BY <1>19 DEF JobFinishDb, Uploaded, WithoutScan
  <2>2. QED
    BY <1>19, <2>1, DbUpdate, RowEdits DEF JobFinishDb, StoreTyped, WorldTyped, TypeOK
<1>20. ASSUME NEW t \in Threads, JobFail(t) PROVE StoreTyped'
  <2>1. jscan[t] \in Scans
    BY <1>20 DEF JobFail, Uploaded, WithoutScan
  <2>2. QED
    BY <1>20, <2>1, CacheUpdate, RowEdits DEF JobFail, StoreTyped, WorldTyped, TypeOK
<1>21. ASSUME NEW t \in Threads, JobFailDb(t) PROVE StoreTyped'
  <2>1. jscan[t] \in Scans
    BY <1>21 DEF JobFailDb, Uploaded, WithoutScan
  <2>2. QED
    BY <1>21, <2>1, DbUpdate, RowEdits DEF JobFailDb, StoreTyped, WorldTyped, TypeOK
<1>22. ASSUME Crash \/ TimePasses PROVE StoreTyped'
  BY <1>22 DEF Crash, TimePasses, Uploaded, WithoutScan, TypeOK, RequestTyped, JobTyped, Row,
     NoRows, cache, durable
<1>23. QED
  BY <1>1, <1>2, <1>3, <1>4, <1>5, <1>6, <1>7, <1>8, <1>9, <1>10, <1>11, <1>12, <1>13, <1>14, <1>15,
     <1>16, <1>17, <1>18, <1>19, <1>20, <1>21, <1>22 DEF Next, Upload, Request, List, Job

(* Every step keeps the types of the requests.                             *)
LEMMA RequestTypedStep == TypeOK /\ Uploaded /\ Next => RequestTyped'
<1> SUFFICES ASSUME TypeOK, Uploaded, Next PROVE RequestTyped'
  OBVIOUS
<1> USE DEF TypeOK
<1>1. ASSUME NEW s \in Scans, UploadObject(s) \/ UploadBucket(s) \/ UploadRow(s)
             \/ UploadInsert(s)
      PROVE  RequestTyped'
  BY <1>1 DEF UploadObject, UploadBucket, UploadRow, UploadInsert, RequestTyped, Uploaded,
     WithoutScan, request, Goals
<1>2. ASSUME NEW t \in Threads, NEW s \in Scans, NEW g \in Goals \ {"none", "remove"},
             Call(t, s, g)
      PROVE  RequestTyped'
  BY <1>2 DEF Call, RequestTyped, Uploaded, WithoutScan, To, Goals
<1>3. ASSUME NEW t \in Threads, ListBegin(t) \/ JobStart(t) \/ JobStartDb(t) \/ JobRaise(t)
             \/ JobResult(t) \/ JobResultDb(t)
      PROVE  RequestTyped'
  BY <1>3 DEF ListBegin, JobStart, JobStartDb, JobRaise, JobResult, JobResultDb, RequestTyped,
     Uploaded, WithoutScan, To, request, locals, Goals
<1>4. ASSUME NEW t \in Threads, GetCached(t) PROVE RequestTyped'
  BY <1>4, GotTyped DEF GetCached
<1>5. ASSUME NEW t \in Threads, GetMissed(t) PROVE RequestTyped'
  BY <1>5, ToTyped DEF GetMissed
<1>6. ASSUME NEW t \in Threads, GetSelect(t) PROVE RequestTyped'
  <2>1. CASE Return(t)
    BY <2>1, ReturnTyped
  <2>2. CASE To(t, "fill") /\ snap' = [snap EXCEPT ![t] = dbRow[scan[t]]]
              /\ UNCHANGED <<goal, scan, page, sweep>>
    BY <1>6, <2>2 DEF GetSelect, Uploaded, WithoutScan, StoreTyped, RequestTyped, To
  <2>3. QED
    BY <1>6, <2>1, <2>2 DEF GetSelect
<1>7. ASSUME NEW t \in Threads, GetFill(t) PROVE RequestTyped'
  BY <1>7, GotTyped DEF GetFill
<1>8. ASSUME NEW t \in Threads, GetResult(t) PROVE RequestTyped'
  BY <1>8, ReturnTyped, ToTyped DEF GetResult
<1>9. ASSUME NEW t \in Threads, FillResult(t) PROVE RequestTyped'
  BY <1>9, ReturnTyped DEF FillResult
<1>10. ASSUME NEW t \in Threads, PopObject(t) PROVE RequestTyped'
  BY <1>10, ToTyped DEF PopObject
<1>11. ASSUME NEW t \in Threads, RemoveObject(t) PROVE RequestTyped'
  BY <1>11 DEF RemoveObject, RequestTyped, Uploaded, WithoutScan, To, Goals
<1>12. ASSUME NEW t \in Threads, DropCache(t) PROVE RequestTyped'
  BY <1>12, ToTyped DEF DropCache
<1>13. ASSUME NEW t \in Threads, DropRow(t) PROVE RequestTyped'
  BY <1>13, ReturnTyped DEF DropRow
<1>14. ASSUME NEW t \in Threads, GetObject(t) PROVE RequestTyped'
  BY <1>14, ToTyped DEF GetObject
<1>15. ASSUME NEW t \in Threads, Download(t) PROVE RequestTyped'
  BY <1>15, ReturnTyped, ToTyped DEF Download
<1>16. ASSUME NEW t \in Threads, FillObject(t) PROVE RequestTyped'
  BY <1>16, ToTyped DEF FillObject
<1>17. ASSUME NEW t \in Threads, Submit(t) PROVE RequestTyped'
  BY <1>17, ToTyped DEF Submit
<1>18. ASSUME NEW t \in Threads, Mark(t) PROVE RequestTyped'
  BY <1>18, ToTyped DEF Mark
<1>19. ASSUME NEW t \in Threads, MarkDb(t) PROVE RequestTyped'
  BY <1>19, ReturnTyped DEF MarkDb
<1>20. ASSUME NEW t \in Threads, ListSelect(t) PROVE RequestTyped'
  <2>1. CASE Return(t)
    BY <2>1, ReturnTyped
  <2>2. CASE ~Return(t)
    <3>1. PICK ids \in SUBSET Scans :
             page' = [page EXCEPT ![t] = [s \in Scans |-> IF s \in ids THEN dbRow[s] ELSE NoRow]]
      BY <1>20, <2>2 DEF ListSelect
    <3>2. [s \in Scans |-> IF s \in ids THEN dbRow[s] ELSE NoRow] \in [Scans -> Row \cup {NoRow}]
      BY DEF StoreTyped
    <3>3. page' \in [Threads -> [Scans -> Row \cup {NoRow}]]
      BY <3>1, <3>2 DEF RequestTyped
    <3>4. QED
      BY <1>20, <2>2, <3>3 DEF ListSelect, RequestTyped, To
  <2>3. QED
    BY <2>1, <2>2
<1>21. ASSUME NEW t \in Threads, ListOverwrite(t) PROVE RequestTyped'
  <2>1. CASE Return(t)
    BY <2>1, ReturnTyped
  <2>2. CASE ~Return(t)
    <3>1. /\ To(t, "cleanup") /\ page' = [page EXCEPT ![t] = NoRows]
          /\ UNCHANGED <<goal, scan, snap, sweep>>
      BY <1>21, <2>2 DEF ListOverwrite
    <3>2. QED
      BY <3>1 DEF RequestTyped, To, NoRows
  <2>3. QED
    BY <2>1, <2>2
<1>22. ASSUME NEW t \in Threads, CleanupSelect(t) PROVE RequestTyped'
  <2>1. CASE Return(t)
    BY <2>1, ReturnTyped
  <2>2. CASE ~Return(t)
    <3>1. PICK ids \in SUBSET Scans : sweep' = [sweep EXCEPT ![t] = {s \in ids : Expired(s)}]
      BY <1>22, <2>2 DEF CleanupSelect
    <3>2. sweep' \in [Threads -> SUBSET Scans]
      BY <3>1 DEF RequestTyped
    <3>3. QED
      BY <1>22, <2>2, <3>2 DEF CleanupSelect, RequestTyped, To
  <2>3. QED
    BY <2>1, <2>2
<1>23. ASSUME NEW t \in Threads, SweepPop(t) PROVE RequestTyped'
  BY <1>23 DEF SweepPop, RequestTyped, Uploaded, WithoutScan, To, Goals
<1>24. ASSUME NEW t \in Threads, SweepRemove(t) PROVE RequestTyped'
  <2>1. CASE Return(t)
    BY <2>1, ReturnTyped
  <2>2. CASE ~Return(t)
    <3>1. /\ To(t, "pop") /\ sweep' = [sweep EXCEPT ![t] = @ \ {scan[t]}]
          /\ scan' = [scan EXCEPT ![t] = NoScan] /\ UNCHANGED <<goal, snap, page>>
      BY <1>24, <2>2 DEF SweepRemove
    <3>2. QED
      BY <3>1 DEF RequestTyped, To
  <2>3. QED
    BY <2>1, <2>2
<1>25. ASSUME NEW t \in Threads, JobFinish(t) \/ JobFinishDb(t) \/ JobFail(t) \/ JobFailDb(t)
       PROVE  RequestTyped'
  BY <1>25 DEF JobFinish, JobFinishDb, JobFail, JobFailDb, RequestTyped, Uploaded, WithoutScan,
     request, Goals
<1>26. ASSUME Crash PROVE RequestTyped'
  BY <1>26 DEF Crash, RequestTyped, Uploaded, WithoutScan, Goals, NoRows
<1>27. ASSUME TimePasses PROVE RequestTyped'
  BY <1>27 DEF TimePasses, RequestTyped, Uploaded, WithoutScan, request, Goals
<1>28. QED
  BY <1>1, <1>2, <1>3, <1>4, <1>5, <1>6, <1>7, <1>8, <1>9, <1>10, <1>11, <1>12, <1>13, <1>14, <1>15,
     <1>16, <1>17, <1>18, <1>19, <1>20, <1>21, <1>22, <1>23, <1>24, <1>25, <1>26, <1>27 DEF Next,
     Upload, Request, List, Job

(* Every step keeps the types of the jobs.                                 *)
LEMMA JobTypedStep == TypeOK /\ Uploaded /\ Next => JobTyped'
<1> SUFFICES ASSUME TypeOK, Uploaded, Next PROVE JobTyped'
  OBVIOUS
<1> USE DEF TypeOK
<1>1. ASSUME NEW s \in Scans, UploadObject(s) \/ UploadBucket(s) \/ UploadRow(s)
      PROVE  JobTyped'
  BY <1>1 DEF UploadObject, UploadBucket, UploadRow, JobTyped, Uploaded, WithoutScan, jobs
<1>2. ASSUME NEW s \in Scans, UploadInsert(s) PROVE JobTyped'
  BY <1>2 DEF UploadInsert, JobTyped, Uploaded, WithoutScan, jobs
<1>3. ASSUME NEW t \in Threads, NEW s \in Scans, NEW g \in Goals \ {"none", "remove"},
             Call(t, s, g)
      PROVE  JobTyped'
  BY <1>3 DEF Call, JobTyped, Uploaded, WithoutScan, jobs
<1>4. ASSUME NEW t \in Threads, ListBegin(t) \/ GetCached(t) \/ GetMissed(t) PROVE JobTyped'
  BY <1>4 DEF ListBegin, GetCached, GetMissed, JobTyped, Uploaded, WithoutScan, jobs
<1>5. ASSUME NEW t \in Threads, GetSelect(t) \/ GetFill(t) \/ GetResult(t) PROVE JobTyped'
  BY <1>5 DEF GetSelect, GetFill, GetResult, JobTyped, Uploaded, WithoutScan, jobs
<1>6. ASSUME NEW t \in Threads, FillResult(t) \/ PopObject(t) \/ RemoveObject(t)
      PROVE  JobTyped'
  BY <1>6 DEF FillResult, PopObject, RemoveObject, JobTyped, Uploaded, WithoutScan, jobs
<1>7. ASSUME NEW t \in Threads, DropCache(t) \/ DropRow(t) \/ GetObject(t) PROVE JobTyped'
  BY <1>7 DEF DropCache, DropRow, GetObject, JobTyped, Uploaded, WithoutScan, jobs
<1>8. ASSUME NEW t \in Threads, Download(t) \/ FillObject(t) \/ Submit(t) PROVE JobTyped'
  BY <1>8 DEF Download, FillObject, Submit, JobTyped, Uploaded, WithoutScan, jobs
<1>9. ASSUME NEW t \in Threads, Mark(t) \/ MarkDb(t) \/ ListSelect(t) PROVE JobTyped'
  BY <1>9 DEF Mark, MarkDb, ListSelect, JobTyped, Uploaded, WithoutScan, jobs
<1>10. ASSUME NEW t \in Threads, ListOverwrite(t) \/ CleanupSelect(t) \/ SweepPop(t)
       PROVE  JobTyped'
  BY <1>10 DEF ListOverwrite, CleanupSelect, SweepPop, JobTyped, Uploaded, WithoutScan, jobs
<1>11. ASSUME NEW t \in Threads, SweepRemove(t) \/ JobStart(t) \/ JobStartDb(t)
       PROVE  JobTyped'
  BY <1>11 DEF SweepRemove, JobStart, JobStartDb, JobTyped, Uploaded, WithoutScan, JobTo, jobs
<1>12. ASSUME NEW t \in Threads, JobRaise(t) \/ JobResult(t) \/ JobResultDb(t)
       PROVE  JobTyped'
  BY <1>12 DEF JobRaise, JobResult, JobResultDb, JobTyped, Uploaded, WithoutScan, JobTo
<1>13. ASSUME NEW t \in Threads, JobFinish(t) \/ JobFinishDb(t) \/ JobFail(t)
       PROVE  JobTyped'
  BY <1>13 DEF JobFinish, JobFinishDb, JobFail, JobTyped, Uploaded, WithoutScan, JobTo, JobEnds
<1>14. ASSUME NEW t \in Threads, JobFailDb(t) PROVE JobTyped'
  BY <1>14 DEF JobFailDb, JobTyped, Uploaded, WithoutScan, JobEnds
<1>15. ASSUME Crash \/ TimePasses PROVE JobTyped'
  BY <1>15 DEF Crash, TimePasses, JobTyped, Uploaded, WithoutScan, jobs
<1>16. QED
  BY <1>1, <1>2, <1>3, <1>4, <1>5, <1>6, <1>7, <1>8, <1>9, <1>10, <1>11, <1>12, <1>13, <1>14,
     <1>15 DEF Next, Upload, Request, List, Job

(* Every step keeps the types of the clock and the counters.               *)
LEMMA WorldTypedStep == TypeOK /\ Uploaded /\ Next => WorldTyped'
<1> SUFFICES ASSUME TypeOK, Uploaded, Next PROVE WorldTyped'
  OBVIOUS
<1> USE StoreBounds DEF TypeOK
<1>1. ASSUME NEW s \in Scans, UploadObject(s) \/ UploadRow(s) PROVE WorldTyped'
  BY <1>1 DEF UploadObject, UploadRow, WorldTyped, RequestTyped, Uploaded, WithoutScan, world,
     history
<1>2. ASSUME NEW s \in Scans, UploadBucket(s) PROVE WorldTyped'
  BY <1>2 DEF UploadBucket, WorldTyped, RequestTyped, Uploaded, WithoutScan, world, Works, Fault
<1>3. ASSUME NEW s \in Scans, UploadInsert(s) PROVE WorldTyped'
  BY <1>3 DEF UploadInsert, WorldTyped, RequestTyped, Uploaded, WithoutScan, world, Works, Fault
<1>4. ASSUME NEW t \in Threads, NEW s \in Scans, NEW g \in Goals \ {"none", "remove"},
             Call(t, s, g)
      PROVE  WorldTyped'
  BY <1>4 DEF Call, WorldTyped, RequestTyped, Uploaded, WithoutScan, world, history
<1>5. ASSUME NEW t \in Threads, ListBegin(t) \/ GetCached(t) PROVE WorldTyped'
  BY <1>5 DEF ListBegin, GetCached, WorldTyped, RequestTyped, Uploaded, WithoutScan, Got, world,
     history
<1>6. ASSUME NEW t \in Threads, GetMissed(t) \/ GetSelect(t) PROVE WorldTyped'
  BY <1>6 DEF GetMissed, GetSelect, WorldTyped, RequestTyped, Uploaded, WithoutScan, world, history,
     Works, Fault
<1>7. ASSUME NEW t \in Threads, GetFill(t) \/ GetResult(t) PROVE WorldTyped'
  BY <1>7 DEF GetFill, GetResult, WorldTyped, RequestTyped, Uploaded, WithoutScan, Got, world,
     history, Works, Fault
<1>8. ASSUME NEW t \in Threads, FillResult(t) \/ PopObject(t) PROVE WorldTyped'
  BY <1>8 DEF FillResult, PopObject, WorldTyped, RequestTyped, Uploaded, WithoutScan, world, history
<1>9. ASSUME NEW t \in Threads, RemoveObject(t) \/ DropCache(t) PROVE WorldTyped'
  BY <1>9 DEF RemoveObject, DropCache, WorldTyped, RequestTyped, Uploaded, WithoutScan, world,
     history, Works, Fault
<1>10. ASSUME NEW t \in Threads, DropRow(t) \/ GetObject(t) PROVE WorldTyped'
  BY <1>10 DEF DropRow, GetObject, WorldTyped, RequestTyped, Uploaded, WithoutScan, world, history,
     Works, Fault
<1>11. ASSUME NEW t \in Threads, Download(t) \/ FillObject(t) PROVE WorldTyped'
  BY <1>11 DEF Download, FillObject, WorldTyped, RequestTyped, Uploaded, WithoutScan, world,
     history, Works, Fault
<1>12. ASSUME NEW t \in Threads, Submit(t) \/ Mark(t) PROVE WorldTyped'
  BY <1>12 DEF Submit, Mark, WorldTyped, RequestTyped, Uploaded, WithoutScan, UpdateCache, world,
     history
<1>13. ASSUME NEW t \in Threads, MarkDb(t) \/ ListSelect(t) PROVE WorldTyped'
  BY <1>13 DEF MarkDb, ListSelect, WorldTyped, RequestTyped, Uploaded, WithoutScan, UpdateDb, world,
     history, Works, Fault
<1>14. ASSUME NEW t \in Threads, ListOverwrite(t) \/ CleanupSelect(t) PROVE WorldTyped'
  BY <1>14 DEF ListOverwrite, CleanupSelect, WorldTyped, RequestTyped, Uploaded, WithoutScan, world,
     history, Works, Fault
<1>15. ASSUME NEW t \in Threads, SweepPop(t) \/ SweepRemove(t) PROVE WorldTyped'
  BY <1>15 DEF SweepPop, SweepRemove, WorldTyped, RequestTyped, Uploaded, WithoutScan, world,
     history, Works, Fault
<1>16. ASSUME NEW t \in Threads, JobStart(t) \/ JobStartDb(t) PROVE WorldTyped'
  BY <1>16 DEF JobStart, JobStartDb, WorldTyped, RequestTyped, Uploaded, WithoutScan, UpdateCache,
     UpdateDb, world, history, Works, Fault
<1>17. ASSUME NEW t \in Threads, JobRaise(t) \/ JobResult(t) PROVE WorldTyped'
  BY <1>17 DEF JobRaise, JobResult, WorldTyped, RequestTyped, Uploaded, WithoutScan, world, history
<1>18. ASSUME NEW t \in Threads, JobResultDb(t) \/ JobFinish(t) PROVE WorldTyped'
  BY <1>18 DEF JobResultDb, JobFinish, WorldTyped, RequestTyped, Uploaded, WithoutScan, UpdateCache,
     world, history, Works, Fault
<1>19. ASSUME NEW t \in Threads, JobFinishDb(t) \/ JobFail(t) PROVE WorldTyped'
  BY <1>19 DEF JobFinishDb, JobFail, WorldTyped, RequestTyped, Uploaded, WithoutScan, UpdateCache,
     UpdateDb, world, history, Works, Fault
<1>20. ASSUME NEW t \in Threads, JobFailDb(t) PROVE WorldTyped'
  BY <1>20 DEF JobFailDb, WorldTyped, RequestTyped, Uploaded, WithoutScan, UpdateDb, world, history,
     Works, Fault
<1>21. ASSUME Crash \/ TimePasses PROVE WorldTyped'
  BY <1>21 DEF Crash, TimePasses, WorldTyped, RequestTyped, Uploaded, WithoutScan, history
<1>22. QED
  BY <1>1, <1>2, <1>3, <1>4, <1>5, <1>6, <1>7, <1>8, <1>9, <1>10, <1>11, <1>12, <1>13, <1>14, <1>15,
     <1>16, <1>17, <1>18, <1>19, <1>20, <1>21 DEF Next, Upload, Request, List, Job

(* Every step keeps the types.                                             *)
LEMMA TypeStep == TypeOK /\ Uploaded /\ Next => TypeOK'
BY StoreTypedStep, RequestTypedStep, JobTypedStep, WorldTypedStep DEF TypeOK

(* The four ways on from get_scan.                                         *)
LEMMA GotCases ==
    ASSUME NEW t \in Threads, NEW r, Got(t, r)
    PROVE  \/ Return(t) /\ UNCHANGED deleted
           \/ To(t, "result") /\ UNCHANGED <<locals, deleted>>
           \/ To(t, "popObject") /\ deleted' = deleted \cup {scan[t]} /\ UNCHANGED locals
           \/ To(t, "object") /\ UNCHANGED <<locals, deleted>>
BY DEF Got

-----------------------------------------------------------------------------
(* One lemma for each part of StoreInv: a step keeps it.                   *)

(* A request that goes on with its scan, or returns. *)
LEMMA MoveKeepsUploaded ==
    ASSUME TypeOK, Uploaded, NEW t \in Threads, UNCHANGED <<upc, jpc, jscan>>,
           \A s \in Scans : dbRow'[s] # NoRow => dbRow[s] # NoRow,
           \/ Return(t)
           \/ /\ \E p : To(t, p) /\ (p \in WithoutScan \/ pc[t] \notin WithoutScan)
              /\ UNCHANGED <<scan, sweep>>
    PROVE  Uploaded'
<1>1. CASE Return(t)
  BY <1>1 DEF Uploaded, RequestTyped, TypeOK, Return, To, WithoutScan
<1>2. CASE /\ UNCHANGED <<scan, sweep>>
           /\ \E p : To(t, p) /\ (p \in WithoutScan \/ pc[t] \notin WithoutScan)
  <2>1. PICK p : To(t, p) /\ (p \in WithoutScan \/ pc[t] \notin WithoutScan)
    BY <1>2
  <2>2. pc' = [pc EXCEPT ![t] = p]
    BY <2>1 DEF To
  <2>3. QED
    BY <1>2, <2>1, <2>2 DEF Uploaded, RequestTyped, TypeOK
<1>3. QED
  BY <1>1, <1>2

(* A job that goes on with its scan, or ends.                              *)
LEMMA JobKeepsUploaded ==
    ASSUME TypeOK, Uploaded, NEW t \in Threads, jpc[t] # "none", UNCHANGED <<upc, request>>,
           \A s \in Scans : dbRow'[s] # NoRow => dbRow[s] # NoRow,
           JobEnds(t) \/ \E p : JobTo(t, p)
    PROVE  Uploaded'
<1>1. CASE JobEnds(t)
  BY <1>1 DEF Uploaded, JobTyped, TypeOK, JobEnds, request
<1>2. CASE \E p : JobTo(t, p)
  <2>1. PICK p : jpc' = [jpc EXCEPT ![t] = p] /\ jscan' = jscan
    BY <1>2 DEF JobTo
  <2>2. QED
    BY <2>1 DEF Uploaded, JobTyped, TypeOK, request
<1>3. QED
  BY <1>1, <1>2

(* update_scan puts no row where there was none. *)
LEMMA RowsStay ==
    ASSUME StoreTyped, NEW s \in Scans, NEW new,
           UpdateDb(s, new) \/ UpdateCache(s, new)
    PROVE  \A u \in Scans : dbRow'[u] # NoRow => dbRow[u] # NoRow
BY CacheUpdate, DbUpdate DEF StoreTyped

(* Rows, jobs and requests are those of finished uploads.                  *)
LEMMA UploadedStep == TypeOK /\ Uploaded /\ Next => Uploaded'
<1> SUFFICES ASSUME TypeOK, Uploaded, Next PROVE Uploaded'
  OBVIOUS
<1> USE DEF Uploaded
<1>1. ASSUME NEW s \in Scans, UploadObject(s) \/ UploadBucket(s) PROVE Uploaded'
  BY <1>1 DEF UploadObject, UploadBucket, WithoutScan, cache, durable, request, jobs, TypeOK,
     StoreTyped, RequestTyped, JobTyped, WorldTyped
<1>2. ASSUME NEW s \in Scans, UploadRow(s) PROVE Uploaded'
  BY <1>2 DEF UploadRow, WithoutScan, durable, request, jobs, TypeOK, StoreTyped, RequestTyped,
     JobTyped, WorldTyped
<1>3. ASSUME NEW s \in Scans, UploadInsert(s) PROVE Uploaded'
  BY <1>3 DEF UploadInsert, WithoutScan, cache, request, jobs, TypeOK, StoreTyped, RequestTyped,
     JobTyped, WorldTyped
<1>4. ASSUME NEW t \in Threads, NEW s \in Scans, NEW g \in Goals \ {"none", "remove"},
             Call(t, s, g)
      PROVE  Uploaded'
  BY <1>4 DEF Call, WithoutScan, To, cache, durable, jobs, TypeOK, StoreTyped, RequestTyped,
     JobTyped, WorldTyped
<1>5. ASSUME NEW t \in Threads, ListBegin(t) PROVE Uploaded'
  BY <1>5, MoveKeepsUploaded DEF ListBegin, durable, jobs, locals, WithoutScan
<1>6. ASSUME NEW t \in Threads, GetCached(t) PROVE Uploaded'
  <2>1. UNCHANGED <<dbRow, upc, jpc, jscan>> /\ pc[t] \notin WithoutScan
    BY <1>6 DEF GetCached, durable, jobs, WithoutScan
  <2>2. PICK r : Got(t, r)
    BY <1>6 DEF GetCached
  <2>3. QED
    BY <2>1, <2>2, GotCases, MoveKeepsUploaded DEF locals
<1>7. ASSUME NEW t \in Threads, GetMissed(t) PROVE Uploaded'
  BY <1>7, MoveKeepsUploaded DEF GetMissed, durable, jobs, locals, WithoutScan
<1>8. ASSUME NEW t \in Threads, GetSelect(t) PROVE Uploaded'
  BY <1>8, MoveKeepsUploaded DEF GetSelect, durable, jobs, locals, WithoutScan
<1>9. ASSUME NEW t \in Threads, GetFill(t) PROVE Uploaded'
  <2>1. UNCHANGED <<dbRow, upc, jpc, jscan>> /\ pc[t] \notin WithoutScan
    BY <1>9 DEF GetFill, durable, jobs, WithoutScan
  <2>2. PICK r : Got(t, r)
    BY <1>9 DEF GetFill
  <2>3. QED
    BY <2>1, <2>2, GotCases, MoveKeepsUploaded DEF locals
<1>10. ASSUME NEW t \in Threads, GetResult(t) PROVE Uploaded'
  BY <1>10, MoveKeepsUploaded DEF GetResult, durable, jobs, locals, WithoutScan
<1>11. ASSUME NEW t \in Threads, FillResult(t) PROVE Uploaded'
  BY <1>11, MoveKeepsUploaded DEF FillResult, durable, jobs, locals, WithoutScan
<1>12. ASSUME NEW t \in Threads, PopObject(t) PROVE Uploaded'
  BY <1>12, MoveKeepsUploaded DEF PopObject, durable, jobs, locals, WithoutScan
<1>13. ASSUME NEW t \in Threads, RemoveObject(t) PROVE Uploaded'
  <2>1. UNCHANGED <<dbRow, upc, jpc, jscan, scan, sweep>> /\ pc[t] \notin WithoutScan
    BY <1>13 DEF RemoveObject, jobs, WithoutScan
  <2>2. \E p : To(t, p)
    BY <1>13 DEF RemoveObject
  <2>3. QED
    BY <2>1, <2>2, MoveKeepsUploaded
<1>14. ASSUME NEW t \in Threads, DropCache(t) PROVE Uploaded'
  BY <1>14, MoveKeepsUploaded DEF DropCache, durable, jobs, locals, WithoutScan
<1>15. ASSUME NEW t \in Threads, DropRow(t) PROVE Uploaded'
  BY <1>15, MoveKeepsUploaded DEF DropRow, durable, jobs, locals, WithoutScan, StoreTyped, TypeOK
<1>16. ASSUME NEW t \in Threads, GetObject(t) PROVE Uploaded'
  BY <1>16, MoveKeepsUploaded DEF GetObject, durable, jobs, locals, WithoutScan
<1>17. ASSUME NEW t \in Threads, Download(t) PROVE Uploaded'
  BY <1>17, MoveKeepsUploaded DEF Download, durable, jobs, locals, WithoutScan
<1>18. ASSUME NEW t \in Threads, FillObject(t) PROVE Uploaded'
  BY <1>18, MoveKeepsUploaded DEF FillObject, durable, jobs, locals, WithoutScan
<1>19. ASSUME NEW t \in Threads, Submit(t) PROVE Uploaded'
  BY <1>19 DEF Submit, WithoutScan, To, locals, cache, durable, TypeOK, StoreTyped, RequestTyped,
     JobTyped, WorldTyped
<1>20. ASSUME NEW t \in Threads, Mark(t) PROVE Uploaded'
  <2>1. scan[t] \in Scans /\ pc[t] \notin WithoutScan
    BY <1>20 DEF Mark, Uploaded, WithoutScan
  <2>2. QED
    BY <1>20, <2>1, RowsStay, MoveKeepsUploaded DEF Mark, jobs, locals, TypeOK
<1>21. ASSUME NEW t \in Threads, MarkDb(t) PROVE Uploaded'
  <2>1. scan[t] \in Scans /\ pc[t] \notin WithoutScan
    BY <1>21 DEF MarkDb, Uploaded, WithoutScan
  <2>2. QED
    BY <1>21, <2>1, RowsStay, MoveKeepsUploaded DEF MarkDb, jobs, locals, TypeOK
<1>22. ASSUME NEW t \in Threads, ListSelect(t) PROVE Uploaded'
  BY <1>22, MoveKeepsUploaded DEF ListSelect, durable, jobs, locals, WithoutScan
<1>23. ASSUME NEW t \in Threads, ListOverwrite(t) PROVE Uploaded'
  BY <1>23, MoveKeepsUploaded DEF ListOverwrite, durable, jobs, locals, WithoutScan
<1>24. ASSUME NEW t \in Threads, CleanupSelect(t) PROVE Uploaded'
  <2>1. UNCHANGED <<dbRow, upc, jpc, jscan>> /\ pc[t] = "cleanup"
    BY <1>24 DEF CleanupSelect, durable, jobs
  <2>2. CASE Return(t)
    BY <2>1, <2>2, MoveKeepsUploaded
  <2>3. CASE ~Return(t)
    <3>1. PICK ids \in SUBSET Scans : sweep' = [sweep EXCEPT ![t] = {s \in ids : Expired(s)}]
      BY <1>24, <2>3 DEF CleanupSelect
    <3>2. To(t, "pop") /\ UNCHANGED scan
      BY <1>24, <2>3 DEF CleanupSelect
    <3>3. \A s \in {s \in ids : Expired(s)} : upc[s] = "done"
      BY DEF Expired, IsComplete, Uploaded
    <3>4. QED
      BY <2>1, <3>1, <3>2, <3>3 DEF Uploaded, RequestTyped, TypeOK, To, WithoutScan
  <2>4. QED
    BY <2>2, <2>3
<1>25. ASSUME NEW t \in Threads, SweepPop(t) PROVE Uploaded'
  BY <1>25 DEF SweepPop, Uploaded, RequestTyped, TypeOK, To, WithoutScan, durable, jobs
<1>26. ASSUME NEW t \in Threads, SweepRemove(t) PROVE Uploaded'
  <2>1. UNCHANGED <<dbRow, upc, jpc, jscan>>
    BY <1>26 DEF SweepRemove, jobs
  <2>2. CASE Return(t)
    BY <2>1, <2>2, MoveKeepsUploaded
  <2>3. CASE ~Return(t)
    <3>1. /\ To(t, "pop") /\ sweep' = [sweep EXCEPT ![t] = @ \ {scan[t]}]
          /\ scan' = [scan EXCEPT ![t] = NoScan]
      BY <1>26, <2>3 DEF SweepRemove
    <3>2. QED
      BY <2>1, <3>1 DEF Uploaded, RequestTyped, TypeOK, To, WithoutScan
  <2>4. QED
    BY <2>2, <2>3
<1>27. ASSUME NEW t \in Threads, JobStart(t) PROVE Uploaded'
  <2>1. jscan[t] \in Scans
    BY <1>27 DEF JobStart, Uploaded, WithoutScan
  <2>2. QED
    BY <1>27, <2>1, RowsStay, JobKeepsUploaded DEF JobStart, TypeOK
<1>28. ASSUME NEW t \in Threads, JobStartDb(t) PROVE Uploaded'
  <2>1. jscan[t] \in Scans
    BY <1>28 DEF JobStartDb, Uploaded, WithoutScan
  <2>2. QED
    BY <1>28, <2>1, RowsStay, JobKeepsUploaded DEF JobStartDb, TypeOK
<1>29. ASSUME NEW t \in Threads, JobRaise(t) PROVE Uploaded'
  BY <1>29, JobKeepsUploaded DEF JobRaise, durable
<1>30. ASSUME NEW t \in Threads, JobResult(t) PROVE Uploaded'
  BY <1>30, JobKeepsUploaded DEF JobResult, durable
<1>31. ASSUME NEW t \in Threads, JobResultDb(t) PROVE Uploaded'
  BY <1>31, JobKeepsUploaded DEF JobResultDb, durable
<1>32. ASSUME NEW t \in Threads, JobFinish(t) PROVE Uploaded'
  <2>1. jscan[t] \in Scans
    BY <1>32 DEF JobFinish, Uploaded, WithoutScan
  <2>2. QED
    BY <1>32, <2>1, RowsStay, JobKeepsUploaded DEF JobFinish, TypeOK
<1>33. ASSUME NEW t \in Threads, JobFinishDb(t) PROVE Uploaded'
  <2>1. jscan[t] \in Scans
    BY <1>33 DEF JobFinishDb, Uploaded, WithoutScan
  <2>2. QED
    BY <1>33, <2>1, RowsStay, JobKeepsUploaded DEF JobFinishDb, TypeOK
<1>34. ASSUME NEW t \in Threads, JobFail(t) PROVE Uploaded'
  <2>1. jscan[t] \in Scans
    BY <1>34 DEF JobFail, Uploaded, WithoutScan
  <2>2. QED
    BY <1>34, <2>1, RowsStay, JobKeepsUploaded DEF JobFail, TypeOK
<1>35. ASSUME NEW t \in Threads, JobFailDb(t) PROVE Uploaded'
  <2>1. jscan[t] \in Scans
    BY <1>35 DEF JobFailDb, Uploaded, WithoutScan
  <2>2. QED
    BY <1>35, <2>1, RowsStay, JobKeepsUploaded DEF JobFailDb, TypeOK
<1>36. ASSUME Crash PROVE Uploaded'
  BY <1>36 DEF Crash, WithoutScan, durable, TypeOK, StoreTyped, RequestTyped, JobTyped, WorldTyped
<1>37. ASSUME TimePasses PROVE Uploaded'
  BY <1>37 DEF TimePasses, WithoutScan, cache, durable, request, jobs, TypeOK, StoreTyped,
     RequestTyped, JobTyped, WorldTyped
<1>38. QED
  BY <1>1, <1>2, <1>3, <1>4, <1>5, <1>6, <1>7, <1>8, <1>9, <1>10, <1>11, <1>12, <1>13, <1>14, <1>15,
     <1>16, <1>17, <1>18, <1>19, <1>20, <1>21, <1>22, <1>23, <1>24, <1>25, <1>26, <1>27, <1>28,
     <1>29, <1>30, <1>31, <1>32, <1>33, <1>34, <1>35, <1>36, <1>37 DEF Next, Upload, Request, List,
     Job

(* Got records a DELETE before the handler takes anything away.            *)
LEMMA DeletesKnownStep == TypeOK /\ Uploaded /\ DeletesKnown /\ Next => DeletesKnown'
<1> SUFFICES ASSUME TypeOK, Uploaded, DeletesKnown, Next PROVE DeletesKnown'
  OBVIOUS
<1> USE DEF DeletesKnown
<1>1. ASSUME NEW s \in Scans, UploadObject(s) \/ UploadBucket(s) \/ UploadRow(s)
      PROVE  DeletesKnown'
  BY <1>1 DEF UploadObject, UploadBucket, UploadRow, request, history, RequestTyped, TypeOK
<1>2. ASSUME NEW s \in Scans, UploadInsert(s) PROVE DeletesKnown'
  BY <1>2 DEF UploadInsert, request, RequestTyped, TypeOK
<1>3. ASSUME NEW t \in Threads, NEW s \in Scans, NEW g \in Goals \ {"none", "remove"},
             Call(t, s, g)
      PROVE  DeletesKnown'
  BY <1>3 DEF Call, To, history, RequestTyped, TypeOK
<1>4. ASSUME NEW t \in Threads, ListBegin(t) \/ GetMissed(t) \/ GetSelect(t)
      PROVE  DeletesKnown'
  BY <1>4 DEF ListBegin, GetMissed, GetSelect, To, Return, locals, history, RequestTyped, TypeOK
<1>5. ASSUME NEW t \in Threads, GetCached(t) PROVE DeletesKnown'
  <2>1. PICK r : Got(t, r)
    BY <1>5 DEF GetCached
  <2>2. QED
    BY <2>1, GotCases DEF DeletesKnown, RequestTyped, TypeOK, Return, To, locals
<1>6. ASSUME NEW t \in Threads, GetFill(t) PROVE DeletesKnown'
  <2>1. PICK r : Got(t, r)
    BY <1>6 DEF GetFill
  <2>2. QED
    BY <2>1, GotCases DEF DeletesKnown, RequestTyped, TypeOK, Return, To, locals
<1>7. ASSUME NEW t \in Threads, GetResult(t) \/ FillResult(t) \/ PopObject(t)
      PROVE  DeletesKnown'
  BY <1>7 DEF GetResult, FillResult, PopObject, To, Return, locals, history, RequestTyped, TypeOK
<1>8. ASSUME NEW t \in Threads, RemoveObject(t) PROVE DeletesKnown'
  BY <1>8 DEF RemoveObject, DeletesKnown, RequestTyped, TypeOK, To, history
<1>9. ASSUME NEW t \in Threads, DropCache(t) \/ DropRow(t) \/ GetObject(t)
      PROVE  DeletesKnown'
  BY <1>9 DEF DropCache, DropRow, GetObject, To, Return, locals, history, RequestTyped, TypeOK
<1>10. ASSUME NEW t \in Threads, Download(t) \/ FillObject(t) \/ Submit(t)
       PROVE  DeletesKnown'
  BY <1>10 DEF Download, FillObject, Submit, To, Return, locals, history, RequestTyped, TypeOK
<1>11. ASSUME NEW t \in Threads, Mark(t) \/ MarkDb(t) \/ ListSelect(t) PROVE DeletesKnown'
  BY <1>11 DEF Mark, MarkDb, ListSelect, To, Return, locals, history, RequestTyped, TypeOK
<1>12. ASSUME NEW t \in Threads, ListOverwrite(t) \/ CleanupSelect(t) \/ SweepPop(t)
       PROVE  DeletesKnown'
  BY <1>12 DEF ListOverwrite, CleanupSelect, SweepPop, To, Return, history, RequestTyped, TypeOK
<1>13. ASSUME NEW t \in Threads, SweepRemove(t) \/ JobStart(t) \/ JobStartDb(t)
       PROVE  DeletesKnown'
  BY <1>13 DEF SweepRemove, JobStart, JobStartDb, To, Return, request, history, RequestTyped, TypeOK
<1>14. ASSUME NEW t \in Threads, JobRaise(t) \/ JobResult(t) \/ JobResultDb(t)
       PROVE  DeletesKnown'
  BY <1>14 DEF JobRaise, JobResult, JobResultDb, request, history, RequestTyped, TypeOK
<1>15. ASSUME NEW t \in Threads, JobFinish(t) \/ JobFinishDb(t) \/ JobFail(t)
       PROVE  DeletesKnown'
  BY <1>15 DEF JobFinish, JobFinishDb, JobFail, request, history, RequestTyped, TypeOK
<1>16. ASSUME NEW t \in Threads, JobFailDb(t) PROVE DeletesKnown'
  BY <1>16 DEF JobFailDb, request, history, RequestTyped, TypeOK
<1>17. ASSUME Crash \/ TimePasses PROVE DeletesKnown'
  BY <1>17 DEF Crash, TimePasses, request, history, RequestTyped, TypeOK
<1>18. QED
  BY <1>1, <1>2, <1>3, <1>4, <1>5, <1>6, <1>7, <1>8, <1>9, <1>10, <1>11, <1>12, <1>13, <1>14, <1>15,
     <1>16, <1>17 DEF Next, Upload, Request, List, Job

(* No row comes back behind a job, and only a DELETE drops its result.     *)
LEMMA JobsKeepResultsStep ==
    TypeOK /\ Uploaded /\ DeletesKnown /\ JobsKeepResults /\ Next => JobsKeepResults'
<1> SUFFICES ASSUME TypeOK, Uploaded, DeletesKnown, JobsKeepResults, Next
             PROVE  JobsKeepResults'
  OBVIOUS
<1> USE DEF JobsKeepResults, ResultStored
<1>1. ASSUME NEW s \in Scans, UploadObject(s) \/ UploadBucket(s) PROVE JobsKeepResults'
  BY <1>1 DEF UploadObject, UploadBucket, Uploaded, DeletesKnown, cache, durable, request, jobs,
     world, history, Works, Fault, WithoutScan, TypeOK, StoreTyped, RequestTyped, JobTyped,
     WorldTyped
<1>2. ASSUME NEW s \in Scans, UploadRow(s) \/ UploadInsert(s) PROVE JobsKeepResults'
  BY <1>2 DEF UploadRow, UploadInsert, Uploaded, DeletesKnown, cache, durable, request, jobs, world,
     history, Works, Fault, WithoutScan, TypeOK, StoreTyped, RequestTyped, JobTyped, WorldTyped
<1>3. ASSUME NEW t \in Threads, NEW s \in Scans, NEW g \in Goals \ {"none", "remove"},
             Call(t, s, g)
      PROVE  JobsKeepResults'
  BY <1>3 DEF Call, Uploaded, DeletesKnown, To, cache, durable, jobs, world, history, WithoutScan,
     TypeOK, StoreTyped, RequestTyped, JobTyped, WorldTyped
<1>4. ASSUME NEW t \in Threads, ListBegin(t) \/ GetCached(t) PROVE JobsKeepResults'
  BY <1>4 DEF ListBegin, GetCached, Uploaded, DeletesKnown, Got, To, Return, locals, cache, durable,
     jobs, world, history, WithoutScan, TypeOK, StoreTyped, RequestTyped, JobTyped, WorldTyped
<1>5. ASSUME NEW t \in Threads, GetMissed(t) \/ GetSelect(t) PROVE JobsKeepResults'
  BY <1>5 DEF GetMissed, GetSelect, Uploaded, DeletesKnown, To, Return, locals, cache, durable,
     jobs, world, history, Works, Fault, WithoutScan, TypeOK, StoreTyped, RequestTyped, JobTyped,
     WorldTyped
<1>6. ASSUME NEW t \in Threads, GetFill(t) \/ GetResult(t) PROVE JobsKeepResults'
  BY <1>6 DEF GetFill, GetResult, Uploaded, DeletesKnown, Got, To, Return, locals, cache, durable,
     jobs, world, history, Works, Fault, WithoutScan, TypeOK, StoreTyped, RequestTyped, JobTyped,
     WorldTyped
<1>7. ASSUME NEW t \in Threads, FillResult(t) \/ PopObject(t) PROVE JobsKeepResults'
  BY <1>7 DEF FillResult, PopObject, Uploaded, DeletesKnown, To, Return, locals, durable, jobs,
     world, history, WithoutScan, TypeOK, StoreTyped, RequestTyped, JobTyped, WorldTyped
<1>8. ASSUME NEW t \in Threads, RemoveObject(t) \/ DropCache(t) PROVE JobsKeepResults'
  BY <1>8 DEF RemoveObject, DropCache, Uploaded, DeletesKnown, To, locals, cache, durable, jobs,
     world, history, Works, Fault, WithoutScan, TypeOK, StoreTyped, RequestTyped, JobTyped,
     WorldTyped
<1>9. ASSUME NEW t \in Threads, DropRow(t) \/ GetObject(t) PROVE JobsKeepResults'
  BY <1>9 DEF DropRow, GetObject, Uploaded, DeletesKnown, To, Return, locals, cache, durable, jobs,
     world, history, Works, Fault, WithoutScan, TypeOK, StoreTyped, RequestTyped, JobTyped,
     WorldTyped
<1>10. ASSUME NEW t \in Threads, Download(t) \/ FillObject(t) PROVE JobsKeepResults'
  BY <1>10 DEF Download, FillObject, Uploaded, DeletesKnown, To, Return, locals, cache, durable,
     jobs, world, history, Works, Fault, WithoutScan, TypeOK, StoreTyped, RequestTyped, JobTyped,
     WorldTyped
<1>11. ASSUME NEW t \in Threads, Submit(t) \/ Mark(t) PROVE JobsKeepResults'
  BY <1>11 DEF Submit, Mark, Uploaded, DeletesKnown, UpdateCache, Merge, To, locals, cache, durable,
     jobs, world, history, WithoutScan, TypeOK, StoreTyped, RequestTyped, JobTyped, WorldTyped
<1>12. ASSUME NEW t \in Threads, MarkDb(t) \/ ListSelect(t) PROVE JobsKeepResults'
  BY <1>12 DEF MarkDb, ListSelect, Uploaded, DeletesKnown, UpdateDb, Merge, To, Return, cache,
     durable, jobs, world, history, Works, Fault, WithoutScan, TypeOK, StoreTyped, RequestTyped,
     JobTyped, WorldTyped
<1>13. ASSUME NEW t \in Threads, ListOverwrite(t) \/ CleanupSelect(t) PROVE JobsKeepResults'
  BY <1>13 DEF ListOverwrite, CleanupSelect, Uploaded, DeletesKnown, To, Return, cache, durable,
     jobs, world, history, Works, Fault, WithoutScan, TypeOK, StoreTyped, RequestTyped, JobTyped,
     WorldTyped
<1>14. ASSUME NEW t \in Threads, SweepPop(t) \/ SweepRemove(t) PROVE JobsKeepResults'
  BY <1>14 DEF SweepPop, SweepRemove, Uploaded, DeletesKnown, To, Return, cache, durable, jobs,
     world, history, Works, Fault, WithoutScan, TypeOK, StoreTyped, RequestTyped, JobTyped,
     WorldTyped
<1>15. ASSUME NEW t \in Threads, JobStart(t) \/ JobStartDb(t) PROVE JobsKeepResults'
  BY <1>15 DEF JobStart, JobStartDb, Uploaded, DeletesKnown, UpdateCache, UpdateDb, Merge, JobTo,
     cache, durable, request, world, history, Works, Fault, WithoutScan, TypeOK, StoreTyped,
     RequestTyped, JobTyped, WorldTyped
<1>16. ASSUME NEW t \in Threads, JobRaise(t) \/ JobResult(t) PROVE JobsKeepResults'
  BY <1>16 DEF JobRaise, JobResult, Uploaded, DeletesKnown, JobTo, cache, durable, request, world,
     history, WithoutScan, TypeOK, StoreTyped, RequestTyped, JobTyped, WorldTyped
<1>17. ASSUME NEW t \in Threads, JobResultDb(t) \/ JobFinish(t) PROVE JobsKeepResults'
  BY <1>17 DEF JobResultDb, JobFinish, Uploaded, DeletesKnown, UpdateCache, Merge, JobTo, cache,
     durable, request, world, history, Works, Fault, WithoutScan, TypeOK, StoreTyped, RequestTyped,
     JobTyped, WorldTyped
<1>18. ASSUME NEW t \in Threads, JobFinishDb(t) \/ JobFail(t) PROVE JobsKeepResults'
  BY <1>18 DEF JobFinishDb, JobFail, Uploaded, DeletesKnown, UpdateCache, UpdateDb, Merge, JobTo,
     JobEnds, cache, durable, request, world, history, Works, Fault, WithoutScan, TypeOK,
     StoreTyped, RequestTyped, JobTyped, WorldTyped
<1>19. ASSUME NEW t \in Threads, JobFailDb(t) PROVE JobsKeepResults'
  BY <1>19 DEF JobFailDb, Uploaded, DeletesKnown, UpdateDb, Merge, JobEnds, cache, request, world,
     history, Works, Fault, WithoutScan, TypeOK, StoreTyped, RequestTyped, JobTyped, WorldTyped
<1>20. ASSUME Crash \/ TimePasses PROVE JobsKeepResults'
  BY <1>20 DEF Crash, TimePasses, Uploaded, DeletesKnown, cache, durable, request, jobs, history,
     WithoutScan, TypeOK, StoreTyped, RequestTyped, JobTyped, WorldTyped
<1>21. QED
  BY <1>1, <1>2, <1>3, <1>4, <1>5, <1>6, <1>7, <1>8, <1>9, <1>10, <1>11, <1>12, <1>13, <1>14, <1>15,
     <1>16, <1>17, <1>18, <1>19, <1>20 DEF Next, Upload, Request, List, Job

(* The database row becomes complete in one place, after the result.       *)
LEMMA DurableResultStep ==
    TypeOK /\ Uploaded /\ JobsKeepResults /\ DurableResult /\ Next => DurableResult'
<1> SUFFICES ASSUME TypeOK, Uploaded, JobsKeepResults, DurableResult, Next PROVE DurableResult'
  OBVIOUS
<1> USE DEF DurableResult, IsComplete
<1>1. ASSUME NEW s \in Scans, UploadObject(s) \/ UploadBucket(s) \/ UploadRow(s)
      PROVE  DurableResult'
  BY <1>1 DEF UploadObject, UploadBucket, UploadRow, cache, durable, history, Uploaded
<1>2. ASSUME NEW s \in Scans, UploadInsert(s) PROVE DurableResult'
  BY <1>2 DEF UploadInsert, DurableResult, IsComplete, StoreTyped, TypeOK, cache, history
<1>3. ASSUME NEW t \in Threads, NEW s \in Scans, NEW g \in Goals \ {"none", "remove"},
             Call(t, s, g)
      PROVE  DurableResult'
  BY <1>3 DEF Call, cache, durable, history, Uploaded
<1>4. ASSUME NEW t \in Threads, ListBegin(t) \/ GetCached(t) \/ GetMissed(t)
      PROVE  DurableResult'
  BY <1>4 DEF ListBegin, GetCached, GetMissed, cache, durable, history, Uploaded
<1>5. ASSUME NEW t \in Threads, GetSelect(t) \/ GetFill(t) \/ GetResult(t)
      PROVE  DurableResult'
  BY <1>5 DEF GetSelect, GetFill, GetResult, cache, durable, history, Uploaded
<1>6. ASSUME NEW t \in Threads, FillResult(t) \/ PopObject(t) \/ RemoveObject(t)
      PROVE  DurableResult'
  BY <1>6 DEF FillResult, PopObject, RemoveObject, cache, durable, history, Uploaded
<1>7. ASSUME NEW t \in Threads, DropCache(t) \/ GetObject(t) \/ Download(t)
      PROVE  DurableResult'
  BY <1>7 DEF DropCache, GetObject, Download, cache, durable, history, Uploaded
<1>8. ASSUME NEW t \in Threads, DropRow(t) PROVE DurableResult'
  <2>1. scan[t] \in Scans
    BY <1>8 DEF DropRow, Uploaded, WithoutScan
  <2>2. QED
    BY <1>8, <2>1 DEF DropRow, DurableResult, IsComplete, StoreTyped, TypeOK, history
<1>9. ASSUME NEW t \in Threads, FillObject(t) \/ Submit(t) \/ Mark(t) PROVE DurableResult'
  BY <1>9 DEF FillObject, Submit, Mark, UpdateCache, cache, durable, history, Uploaded
<1>10. ASSUME NEW t \in Threads, MarkDb(t) PROVE DurableResult'
  <2>1. scan[t] \in Scans
    BY <1>10 DEF MarkDb, Uploaded, WithoutScan
  <2>2. RowSetTo(scan[t], "parsing")
    BY <1>10, <2>1, StatusUpdate DEF MarkDb, TypeOK, WorldTyped
  <2>3. UNCHANGED <<cacheRow, cacheRes, cacheObj, dbRes, bucket, history, upc>>
    BY <1>10 DEF MarkDb, UpdateDb, cache
  <2>4. QED
    BY <1>10, <2>1, <2>2, <2>3 DEF MarkDb, RowSetTo, DurableResult, IsComplete, JobsKeepResults,
       ResultStored, history
<1>11. ASSUME NEW t \in Threads, ListSelect(t) \/ ListOverwrite(t) \/ CleanupSelect(t)
       PROVE  DurableResult'
  BY <1>11 DEF ListSelect, ListOverwrite, CleanupSelect, cache, durable, history, Uploaded
<1>12. ASSUME NEW t \in Threads, SweepPop(t) \/ SweepRemove(t) \/ JobStart(t)
       PROVE  DurableResult'
  BY <1>12 DEF SweepPop, SweepRemove, JobStart, UpdateCache, cache, durable, history, Uploaded
<1>13. ASSUME NEW t \in Threads, JobStartDb(t) PROVE DurableResult'
  <2>1. jscan[t] \in Scans
    BY <1>13 DEF JobStartDb, Uploaded, WithoutScan
  <2>2. RowSetTo(jscan[t], "parsing")
    BY <1>13, <2>1, StatusUpdate DEF JobStartDb, TypeOK, WorldTyped
  <2>3. UNCHANGED <<cacheRow, cacheRes, cacheObj, dbRes, bucket, history, upc>>
    BY <1>13 DEF JobStartDb, UpdateDb, cache
  <2>4. QED
    BY <1>13, <2>1, <2>2, <2>3 DEF JobStartDb, RowSetTo, DurableResult, IsComplete, JobsKeepResults,
       ResultStored, history
<1>14. ASSUME NEW t \in Threads, JobRaise(t) \/ JobResult(t) \/ JobResultDb(t)
       PROVE  DurableResult'
  BY <1>14 DEF JobRaise, JobResult, JobResultDb, cache, durable, history, Uploaded
<1>15. ASSUME NEW t \in Threads, JobFinish(t) \/ JobFail(t) PROVE DurableResult'
  BY <1>15 DEF JobFinish, JobFail, UpdateCache, durable, history, Uploaded
<1>16. ASSUME NEW t \in Threads, JobFinishDb(t) PROVE DurableResult'
  <2>1. jscan[t] \in Scans
    BY <1>16 DEF JobFinishDb, Uploaded, WithoutScan
  <2>2. RowSetTo(jscan[t], "complete")
    BY <1>16, <2>1, StatusUpdate DEF JobFinishDb, TypeOK, WorldTyped
  <2>3. UNCHANGED <<cacheRow, cacheRes, cacheObj, dbRes, bucket, history, upc>>
    BY <1>16 DEF JobFinishDb, UpdateDb, cache
  <2>4. QED
    BY <1>16, <2>1, <2>2, <2>3 DEF JobFinishDb, RowSetTo, DurableResult, IsComplete,
       JobsKeepResults, ResultStored, history
<1>17. ASSUME NEW t \in Threads, JobFailDb(t) PROVE DurableResult'
  <2>1. jscan[t] \in Scans
    BY <1>17 DEF JobFailDb, Uploaded, WithoutScan
  <2>2. RowSetTo(jscan[t], "failed")
    BY <1>17, <2>1, StatusUpdate DEF JobFailDb, TypeOK, WorldTyped
  <2>3. UNCHANGED <<cacheRow, cacheRes, cacheObj, dbRes, bucket, history, upc>>
    BY <1>17 DEF JobFailDb, UpdateDb, cache
  <2>4. QED
    BY <1>17, <2>1, <2>2, <2>3 DEF JobFailDb, RowSetTo, DurableResult, IsComplete, JobsKeepResults,
       ResultStored, history
<1>18. ASSUME Crash \/ TimePasses PROVE DurableResult'
  BY <1>18 DEF Crash, TimePasses, cache, durable, history, Uploaded
<1>19. QED
  BY <1>1, <1>2, <1>3, <1>4, <1>5, <1>6, <1>7, <1>8, <1>9, <1>10, <1>11, <1>12, <1>13, <1>14, <1>15,
     <1>16, <1>17, <1>18 DEF Next, Upload, Request, List, Job

(* A row read from the database is complete only with its result there.    *)
LEMMA CopiesStoredStep ==
    TypeOK /\ Uploaded /\ DeletesKnown /\ DurableResult /\ CopiesStored /\ Next => CopiesStored'
<1> SUFFICES ASSUME TypeOK, Uploaded, DeletesKnown, DurableResult, CopiesStored, Next
             PROVE  CopiesStored'
  OBVIOUS
<1> USE DEF CopiesStored, ResultStored
<1>1. ASSUME NEW s \in Scans, UploadObject(s) PROVE CopiesStored'
  BY <1>1 DEF UploadObject, DeletesKnown, DurableResult, IsComplete, durable, request, jobs, world,
     history, TypeOK, StoreTyped, RequestTyped, JobTyped, WorldTyped
<1>2. ASSUME NEW s \in Scans, UploadBucket(s) PROVE CopiesStored'
  BY <1>2 DEF UploadBucket, DeletesKnown, DurableResult, IsComplete, cache, request, jobs, world,
     Works, Fault, TypeOK, StoreTyped, RequestTyped, JobTyped, WorldTyped
<1>3. ASSUME NEW s \in Scans, UploadRow(s) PROVE CopiesStored'
  BY <1>3 DEF UploadRow, DeletesKnown, DurableResult, IsComplete, durable, request, jobs, world,
     history, TypeOK, StoreTyped, RequestTyped, JobTyped, WorldTyped
<1>4. ASSUME NEW s \in Scans, UploadInsert(s) PROVE CopiesStored'
  BY <1>4 DEF UploadInsert, DeletesKnown, DurableResult, IsComplete, cache, request, jobs, world,
     Works, Fault, TypeOK, StoreTyped, RequestTyped, JobTyped, WorldTyped
<1>5. ASSUME NEW t \in Threads, NEW s \in Scans, NEW g \in Goals \ {"none", "remove"},
             Call(t, s, g)
      PROVE  CopiesStored'
  BY <1>5 DEF Call, DeletesKnown, DurableResult, IsComplete, To, cache, durable, jobs, world,
     history, TypeOK, StoreTyped, RequestTyped, JobTyped, WorldTyped
<1>6. ASSUME NEW t \in Threads, ListBegin(t) PROVE CopiesStored'
  BY <1>6 DEF ListBegin, DeletesKnown, DurableResult, IsComplete, To, locals, cache, durable, jobs,
     world, history, TypeOK, StoreTyped, RequestTyped, JobTyped, WorldTyped
<1>7. ASSUME NEW t \in Threads, GetCached(t) PROVE CopiesStored'
  BY <1>7 DEF GetCached, DeletesKnown, Got, NoRows, DurableResult, IsComplete, To, Return, locals,
     cache, durable, jobs, world, TypeOK, StoreTyped, RequestTyped, JobTyped, WorldTyped
<1>8. ASSUME NEW t \in Threads, GetMissed(t) PROVE CopiesStored'
  BY <1>8 DEF GetMissed, DeletesKnown, DurableResult, IsComplete, To, locals, cache, durable, jobs,
     world, history, TypeOK, StoreTyped, RequestTyped, JobTyped, WorldTyped
<1>9. ASSUME NEW t \in Threads, GetSelect(t) PROVE CopiesStored'
  <2>1. UNCHANGED <<dbRow, dbRes, history>>
    BY <1>9 DEF GetSelect, durable
  <2>2. CASE Return(t)
    BY <2>1, <2>2 DEF Return, To, NoRows, history, RequestTyped, TypeOK
  <2>3. CASE ~Return(t)
    <3>1. /\ dbRow[scan[t]] # NoRow /\ To(t, "fill") /\ UNCHANGED <<scan, page>>
          /\ snap' = [snap EXCEPT ![t] = dbRow[scan[t]]]
      BY <1>9, <2>3 DEF GetSelect
    <3>2. scan[t] \in Scans
      BY <1>9 DEF GetSelect, Uploaded, WithoutScan
    <3>3. dbRow[scan[t]].status = "complete" => ResultStored(scan[t])
      BY <3>1, <3>2 DEF DurableResult, IsComplete
    <3>4. QED
      BY <2>1, <3>1, <3>3 DEF To, history, RequestTyped, TypeOK
  <2>4. QED
    BY <2>2, <2>3
<1>10. ASSUME NEW t \in Threads, GetFill(t) PROVE CopiesStored'
  BY <1>10 DEF GetFill, DeletesKnown, Got, NoRows, DurableResult, IsComplete, To, Return, locals,
     durable, jobs, world, TypeOK, StoreTyped, RequestTyped, JobTyped, WorldTyped
<1>11. ASSUME NEW t \in Threads, GetResult(t) PROVE CopiesStored'
  BY <1>11 DEF GetResult, DeletesKnown, NoRows, DurableResult, IsComplete, To, Return, locals,
     cache, durable, jobs, world, history, Works, Fault, TypeOK, StoreTyped, RequestTyped, JobTyped,
     WorldTyped
<1>12. ASSUME NEW t \in Threads, FillResult(t) PROVE CopiesStored'
  BY <1>12 DEF FillResult, DeletesKnown, NoRows, DurableResult, IsComplete, To, Return, durable,
     jobs, world, history, TypeOK, StoreTyped, RequestTyped, JobTyped, WorldTyped
<1>13. ASSUME NEW t \in Threads, PopObject(t) PROVE CopiesStored'
  BY <1>13 DEF PopObject, DeletesKnown, DurableResult, IsComplete, To, locals, durable, jobs, world,
     history, TypeOK, StoreTyped, RequestTyped, JobTyped, WorldTyped
<1>14. ASSUME NEW t \in Threads, RemoveObject(t) PROVE CopiesStored'
  BY <1>14 DEF RemoveObject, DeletesKnown, DurableResult, IsComplete, To, cache, jobs, world,
     history, Works, Fault, TypeOK, StoreTyped, RequestTyped, JobTyped, WorldTyped
<1>15. ASSUME NEW t \in Threads, DropCache(t) PROVE CopiesStored'
  BY <1>15 DEF DropCache, DeletesKnown, DurableResult, IsComplete, To, locals, durable, jobs, world,
     history, TypeOK, StoreTyped, RequestTyped, JobTyped, WorldTyped
<1>16. ASSUME NEW t \in Threads, DropRow(t) PROVE CopiesStored'
  BY <1>16 DEF DropRow, DeletesKnown, NoRows, DurableResult, IsComplete, To, Return, cache, jobs,
     world, history, Works, Fault, TypeOK, StoreTyped, RequestTyped, JobTyped, WorldTyped
<1>17. ASSUME NEW t \in Threads, GetObject(t) PROVE CopiesStored'
  BY <1>17 DEF GetObject, DeletesKnown, DurableResult, IsComplete, To, locals, cache, durable, jobs,
     world, history, TypeOK, StoreTyped, RequestTyped, JobTyped, WorldTyped
<1>18. ASSUME NEW t \in Threads, Download(t) PROVE CopiesStored'
  BY <1>18 DEF Download, DeletesKnown, NoRows, DurableResult, IsComplete, To, Return, locals, cache,
     durable, jobs, world, history, Works, Fault, TypeOK, StoreTyped, RequestTyped, JobTyped,
     WorldTyped
<1>19. ASSUME NEW t \in Threads, FillObject(t) PROVE CopiesStored'
  BY <1>19 DEF FillObject, DeletesKnown, DurableResult, IsComplete, To, locals, durable, jobs,
     world, history, TypeOK, StoreTyped, RequestTyped, JobTyped, WorldTyped
<1>20. ASSUME NEW t \in Threads, Submit(t) PROVE CopiesStored'
  BY <1>20 DEF Submit, DeletesKnown, DurableResult, IsComplete, To, locals, cache, durable, world,
     history, TypeOK, StoreTyped, RequestTyped, JobTyped, WorldTyped
<1>21. ASSUME NEW t \in Threads, Mark(t) PROVE CopiesStored'
  <2>1. scan[t] \in Scans
    BY <1>21 DEF Mark, Uploaded, WithoutScan
  <2>2. QED
    BY <1>21, <2>1, CacheUpdate, RowEdits DEF Mark, CopiesStored, ResultStored, To, Return, NoRows,
       locals, request, history, TypeOK, StoreTyped, RequestTyped, JobTyped, WorldTyped
<1>22. ASSUME NEW t \in Threads, MarkDb(t) PROVE CopiesStored'
  <2>1. scan[t] \in Scans
    BY <1>22 DEF MarkDb, Uploaded, WithoutScan
  <2>2. QED
    BY <1>22, <2>1, DbUpdate, RowEdits DEF MarkDb, CopiesStored, ResultStored, To, Return, NoRows,
       locals, request, history, TypeOK, StoreTyped, RequestTyped, JobTyped, WorldTyped
<1>23. ASSUME NEW t \in Threads, ListSelect(t) PROVE CopiesStored'
  BY <1>23 DEF ListSelect, DeletesKnown, NoRows, DurableResult, IsComplete, To, Return, cache,
     durable, jobs, world, history, Works, Fault, TypeOK, StoreTyped, RequestTyped, JobTyped,
     WorldTyped
<1>24. ASSUME NEW t \in Threads, ListOverwrite(t) PROVE CopiesStored'
  BY <1>24 DEF ListOverwrite, DeletesKnown, NoRows, DurableResult, IsComplete, To, Return, durable,
     jobs, world, history, Works, Fault, TypeOK, StoreTyped, RequestTyped, JobTyped, WorldTyped
<1>25. ASSUME NEW t \in Threads, CleanupSelect(t) PROVE CopiesStored'
  <2>1. UNCHANGED <<dbRow, dbRes, history>> /\ scan[t] \in Scans \cup {NoScan}
    BY <1>25 DEF CleanupSelect, durable, RequestTyped, TypeOK
  <2>2. CASE Return(t)
    BY <2>1, <2>2 DEF Return, To, NoRows, history, RequestTyped, TypeOK
  <2>3. CASE ~Return(t)
    <3>1. /\ pc' = [pc EXCEPT ![t] = "pop"] /\ UNCHANGED <<snap, page>>
          /\ UNCHANGED scan
      BY <1>25, <2>3 DEF CleanupSelect, To
    <3>2. \A u \in Threads : pc'[u] = "fill" => pc[u] = "fill" /\ scan'[u] = scan[u]
      BY <3>1 DEF RequestTyped, TypeOK
    <3>3. UNCHANGED <<snap, page>>
      BY <3>1
    <3>4. QED
      BY <2>1, <3>2, <3>3 DEF history
  <2>4. QED
    BY <2>2, <2>3
<1>26. ASSUME NEW t \in Threads, SweepPop(t) PROVE CopiesStored'
  BY <1>26 DEF SweepPop, DeletesKnown, DurableResult, IsComplete, To, durable, jobs, world, history,
     TypeOK, StoreTyped, RequestTyped, JobTyped, WorldTyped
<1>27. ASSUME NEW t \in Threads, SweepRemove(t) PROVE CopiesStored'
  <2>1. UNCHANGED <<dbRow, dbRes, history>> /\ scan[t] \in Scans \cup {NoScan}
    BY <1>27 DEF SweepRemove, durable, RequestTyped, TypeOK
  <2>2. CASE Return(t)
    BY <2>1, <2>2 DEF Return, To, NoRows, history, RequestTyped, TypeOK
  <2>3. CASE ~Return(t)
    <3>1. /\ pc' = [pc EXCEPT ![t] = "pop"] /\ UNCHANGED <<snap, page>>
          /\ scan' = [scan EXCEPT ![t] = NoScan]
      BY <1>27, <2>3 DEF SweepRemove, To
    <3>2. \A u \in Threads : pc'[u] = "fill" => pc[u] = "fill" /\ scan'[u] = scan[u]
      BY <3>1 DEF RequestTyped, TypeOK
    <3>3. UNCHANGED <<snap, page>>
      BY <3>1
    <3>4. QED
      BY <2>1, <3>2, <3>3 DEF history
  <2>4. QED
    BY <2>2, <2>3
<1>28. ASSUME NEW t \in Threads, JobStart(t) PROVE CopiesStored'
  <2>1. jscan[t] \in Scans
    BY <1>28 DEF JobStart, Uploaded, WithoutScan
  <2>2. QED
    BY <1>28, <2>1, CacheUpdate, RowEdits DEF JobStart, CopiesStored, ResultStored, To, Return,
       NoRows, locals, request, history, TypeOK, StoreTyped, RequestTyped, JobTyped, WorldTyped
<1>29. ASSUME NEW t \in Threads, JobStartDb(t) PROVE CopiesStored'
  <2>1. jscan[t] \in Scans
    BY <1>29 DEF JobStartDb, Uploaded, WithoutScan
  <2>2. QED
    BY <1>29, <2>1, DbUpdate, RowEdits DEF JobStartDb, CopiesStored, ResultStored, To, Return,
       NoRows, locals, request, history, TypeOK, StoreTyped, RequestTyped, JobTyped, WorldTyped
<1>30. ASSUME NEW t \in Threads, JobRaise(t) PROVE CopiesStored'
  BY <1>30 DEF JobRaise, DeletesKnown, DurableResult, IsComplete, cache, durable, request, world,
     history, TypeOK, StoreTyped, RequestTyped, JobTyped, WorldTyped
<1>31. ASSUME NEW t \in Threads, JobResult(t) PROVE CopiesStored'
  BY <1>31 DEF JobResult, DeletesKnown, DurableResult, IsComplete, durable, request, world, history,
     TypeOK, StoreTyped, RequestTyped, JobTyped, WorldTyped
<1>32. ASSUME NEW t \in Threads, JobResultDb(t) PROVE CopiesStored'
  BY <1>32 DEF JobResultDb, DeletesKnown, DurableResult, IsComplete, cache, request, world, Works,
     Fault, TypeOK, StoreTyped, RequestTyped, JobTyped, WorldTyped
<1>33. ASSUME NEW t \in Threads, JobFinish(t) PROVE CopiesStored'
  <2>1. jscan[t] \in Scans
    BY <1>33 DEF JobFinish, Uploaded, WithoutScan
  <2>2. QED
    BY <1>33, <2>1, CacheUpdate, RowEdits DEF JobFinish, CopiesStored, ResultStored, To, Return,
       NoRows, locals, request, history, TypeOK, StoreTyped, RequestTyped, JobTyped, WorldTyped
<1>34. ASSUME NEW t \in Threads, JobFinishDb(t) PROVE CopiesStored'
  <2>1. jscan[t] \in Scans
    BY <1>34 DEF JobFinishDb, Uploaded, WithoutScan
  <2>2. QED
    BY <1>34, <2>1, DbUpdate, RowEdits DEF JobFinishDb, CopiesStored, ResultStored, To, Return,
       NoRows, locals, request, history, TypeOK, StoreTyped, RequestTyped, JobTyped, WorldTyped
<1>35. ASSUME NEW t \in Threads, JobFail(t) PROVE CopiesStored'
  <2>1. jscan[t] \in Scans
    BY <1>35 DEF JobFail, Uploaded, WithoutScan
  <2>2. QED
    BY <1>35, <2>1, CacheUpdate, RowEdits DEF JobFail, CopiesStored, ResultStored, To, Return,
       NoRows, locals, request, history, TypeOK, StoreTyped, RequestTyped, JobTyped, WorldTyped
<1>36. ASSUME NEW t \in Threads, JobFailDb(t) PROVE CopiesStored'
  <2>1. jscan[t] \in Scans
    BY <1>36 DEF JobFailDb, Uploaded, WithoutScan
  <2>2. QED
    BY <1>36, <2>1, DbUpdate, RowEdits DEF JobFailDb, CopiesStored, ResultStored, To, Return,
       NoRows, locals, request, history, TypeOK, StoreTyped, RequestTyped, JobTyped, WorldTyped
<1>37. ASSUME Crash PROVE CopiesStored'
  BY <1>37 DEF Crash, DeletesKnown, NoRows, DurableResult, IsComplete, durable, history, TypeOK,
     StoreTyped, RequestTyped, JobTyped, WorldTyped
<1>38. ASSUME TimePasses PROVE CopiesStored'
  BY <1>38 DEF TimePasses, DeletesKnown, DurableResult, IsComplete, cache, durable, request, jobs,
     history, TypeOK, StoreTyped, RequestTyped, JobTyped, WorldTyped
<1>39. QED
  BY <1>1, <1>2, <1>3, <1>4, <1>5, <1>6, <1>7, <1>8, <1>9, <1>10, <1>11, <1>12, <1>13, <1>14, <1>15,
     <1>16, <1>17, <1>18, <1>19, <1>20, <1>21, <1>22, <1>23, <1>24, <1>25, <1>26, <1>27, <1>28,
     <1>29, <1>30, <1>31, <1>32, <1>33, <1>34, <1>35, <1>36, <1>37, <1>38 DEF Next, Upload, Request,
     List, Job

(* The cached row becomes complete by a job, or is such a copy.            *)
LEMMA ServedCompleteStep ==
    TypeOK /\ Uploaded /\ DeletesKnown /\ JobsKeepResults /\ CopiesStored /\ ServedComplete /\ Next => ServedComplete'
<1> SUFFICES ASSUME TypeOK, Uploaded, DeletesKnown, JobsKeepResults, CopiesStored, ServedComplete, Next
             PROVE  ServedComplete'
  OBVIOUS
<1> USE DEF ServedComplete, ResultStored
<1>1. ASSUME NEW s \in Scans, UploadObject(s) PROVE ServedComplete'
  BY <1>1 DEF UploadObject, DeletesKnown, CopiesStored, durable, request, jobs, world, history,
     TypeOK, StoreTyped, RequestTyped, JobTyped, WorldTyped
<1>2. ASSUME NEW s \in Scans, UploadBucket(s) PROVE ServedComplete'
  BY <1>2 DEF UploadBucket, DeletesKnown, CopiesStored, cache, request, jobs, world, Works, Fault,
     TypeOK, StoreTyped, RequestTyped, JobTyped, WorldTyped
<1>3. ASSUME NEW s \in Scans, UploadRow(s) PROVE ServedComplete'
  BY <1>3 DEF UploadRow, DeletesKnown, CopiesStored, durable, request, jobs, world, history, TypeOK,
     StoreTyped, RequestTyped, JobTyped, WorldTyped
<1>4. ASSUME NEW s \in Scans, UploadInsert(s) PROVE ServedComplete'
  BY <1>4 DEF UploadInsert, DeletesKnown, CopiesStored, cache, request, jobs, world, Works, Fault,
     TypeOK, StoreTyped, RequestTyped, JobTyped, WorldTyped
<1>5. ASSUME NEW t \in Threads, NEW s \in Scans, NEW g \in Goals \ {"none", "remove"},
             Call(t, s, g)
      PROVE  ServedComplete'
  BY <1>5 DEF Call, DeletesKnown, CopiesStored, To, cache, durable, jobs, world, history, TypeOK,
     StoreTyped, RequestTyped, JobTyped, WorldTyped
<1>6. ASSUME NEW t \in Threads, ListBegin(t) PROVE ServedComplete'
  BY <1>6 DEF ListBegin, DeletesKnown, CopiesStored, To, locals, cache, durable, jobs, world,
     history, TypeOK, StoreTyped, RequestTyped, JobTyped, WorldTyped
<1>7. ASSUME NEW t \in Threads, GetCached(t) PROVE ServedComplete'
  BY <1>7 DEF GetCached, DeletesKnown, CopiesStored, Got, NoRows, To, Return, locals, cache,
     durable, jobs, world, TypeOK, StoreTyped, RequestTyped, JobTyped, WorldTyped
<1>8. ASSUME NEW t \in Threads, GetMissed(t) PROVE ServedComplete'
  BY <1>8 DEF GetMissed, DeletesKnown, CopiesStored, To, locals, cache, durable, jobs, world,
     history, TypeOK, StoreTyped, RequestTyped, JobTyped, WorldTyped
<1>9. ASSUME NEW t \in Threads, GetSelect(t) PROVE ServedComplete'
  BY <1>9 DEF GetSelect, DeletesKnown, CopiesStored, NoRows, To, Return, cache, durable, jobs,
     world, history, Works, Fault, TypeOK, StoreTyped, RequestTyped, JobTyped, WorldTyped
<1>10. ASSUME NEW t \in Threads, GetFill(t) PROVE ServedComplete'
  BY <1>10 DEF GetFill, DeletesKnown, CopiesStored, Got, NoRows, To, Return, locals, durable, jobs,
     world, TypeOK, StoreTyped, RequestTyped, JobTyped, WorldTyped
<1>11. ASSUME NEW t \in Threads, GetResult(t) PROVE ServedComplete'
  BY <1>11 DEF GetResult, DeletesKnown, CopiesStored, NoRows, To, Return, locals, cache, durable,
     jobs, world, history, Works, Fault, TypeOK, StoreTyped, RequestTyped, JobTyped, WorldTyped
<1>12. ASSUME NEW t \in Threads, FillResult(t) PROVE ServedComplete'
  BY <1>12 DEF FillResult, DeletesKnown, CopiesStored, NoRows, To, Return, durable, jobs, world,
     history, TypeOK, StoreTyped, RequestTyped, JobTyped, WorldTyped
<1>13. ASSUME NEW t \in Threads, PopObject(t) PROVE ServedComplete'
  BY <1>13 DEF PopObject, DeletesKnown, CopiesStored, To, locals, durable, jobs, world, history,
     TypeOK, StoreTyped, RequestTyped, JobTyped, WorldTyped
<1>14. ASSUME NEW t \in Threads, RemoveObject(t) PROVE ServedComplete'
  BY <1>14 DEF RemoveObject, DeletesKnown, CopiesStored, To, cache, jobs, world, history, Works,
     Fault, TypeOK, StoreTyped, RequestTyped, JobTyped, WorldTyped
<1>15. ASSUME NEW t \in Threads, DropCache(t) PROVE ServedComplete'
  BY <1>15 DEF DropCache, DeletesKnown, CopiesStored, To, locals, durable, jobs, world, history,
     TypeOK, StoreTyped, RequestTyped, JobTyped, WorldTyped
<1>16. ASSUME NEW t \in Threads, DropRow(t) PROVE ServedComplete'
  BY <1>16 DEF DropRow, DeletesKnown, CopiesStored, NoRows, To, Return, cache, jobs, world, history,
     Works, Fault, TypeOK, StoreTyped, RequestTyped, JobTyped, WorldTyped
<1>17. ASSUME NEW t \in Threads, GetObject(t) PROVE ServedComplete'
  BY <1>17 DEF GetObject, DeletesKnown, CopiesStored, To, locals, cache, durable, jobs, world,
     history, TypeOK, StoreTyped, RequestTyped, JobTyped, WorldTyped
<1>18. ASSUME NEW t \in Threads, Download(t) PROVE ServedComplete'
  BY <1>18 DEF Download, DeletesKnown, CopiesStored, NoRows, To, Return, locals, cache, durable,
     jobs, world, history, Works, Fault, TypeOK, StoreTyped, RequestTyped, JobTyped, WorldTyped
<1>19. ASSUME NEW t \in Threads, FillObject(t) PROVE ServedComplete'
  BY <1>19 DEF FillObject, DeletesKnown, CopiesStored, To, locals, durable, jobs, world, history,
     TypeOK, StoreTyped, RequestTyped, JobTyped, WorldTyped
<1>20. ASSUME NEW t \in Threads, Submit(t) PROVE ServedComplete'
  BY <1>20 DEF Submit, DeletesKnown, CopiesStored, To, locals, cache, durable, world, history,
     TypeOK, StoreTyped, RequestTyped, JobTyped, WorldTyped
<1>21. ASSUME NEW t \in Threads, Mark(t) PROVE ServedComplete'
  <2>1. scan[t] \in Scans
    BY <1>21 DEF Mark, Uploaded, WithoutScan
  <2>2. UNCHANGED <<cacheRes, dbRes, history>>
    BY <1>21, <2>1, CacheUpdate DEF Mark, TypeOK
  <2>3. \A s \in Scans : cacheRow'[s] # NoRow =>
            cacheRow[s] # NoRow /\ (cacheRow'[s] = cacheRow[s] \/ cacheRow'[s].status = "parsing")
    BY <1>21, <2>1, CacheUpdate, RowEdits DEF Mark, TypeOK, StoreTyped, WorldTyped
  <2>4. QED
    BY <2>2, <2>3 DEF ServedComplete, history
<1>22. ASSUME NEW t \in Threads, MarkDb(t) PROVE ServedComplete'
  <2>1. scan[t] \in Scans
    BY <1>22 DEF MarkDb, Uploaded, WithoutScan
  <2>2. QED
    BY <1>22, <2>1, DbUpdate, RowEdits DEF MarkDb, ServedComplete, JobsKeepResults, ResultStored,
       history, TypeOK, StoreTyped, RequestTyped, JobTyped, WorldTyped
<1>23. ASSUME NEW t \in Threads, ListSelect(t) PROVE ServedComplete'
  BY <1>23 DEF ListSelect, DeletesKnown, CopiesStored, NoRows, To, Return, cache, durable, jobs,
     world, history, Works, Fault, TypeOK, StoreTyped, RequestTyped, JobTyped, WorldTyped
<1>24. ASSUME NEW t \in Threads, ListOverwrite(t) PROVE ServedComplete'
  <2>1. UNCHANGED <<cacheRes, dbRes, history>>
    BY <1>24 DEF ListOverwrite, durable
  <2>2. CASE UNCHANGED cacheRow
    BY <2>1, <2>2 DEF history
  <2>3. CASE cacheRow' = [s \in Scans |-> IF page[t][s] = NoRow THEN cacheRow[s] ELSE page[t][s]]
    BY <2>1, <2>3 DEF CopiesStored, history
  <2>4. QED
    BY <1>24, <2>2, <2>3 DEF ListOverwrite
<1>25. ASSUME NEW t \in Threads, CleanupSelect(t) PROVE ServedComplete'
  BY <1>25 DEF CleanupSelect, DeletesKnown, CopiesStored, NoRows, To, Return, cache, durable, jobs,
     world, history, Works, Fault, TypeOK, StoreTyped, RequestTyped, JobTyped, WorldTyped
<1>26. ASSUME NEW t \in Threads, SweepPop(t) PROVE ServedComplete'
  BY <1>26 DEF SweepPop, DeletesKnown, CopiesStored, To, durable, jobs, world, history, TypeOK,
     StoreTyped, RequestTyped, JobTyped, WorldTyped
<1>27. ASSUME NEW t \in Threads, SweepRemove(t) PROVE ServedComplete'
  BY <1>27 DEF SweepRemove, DeletesKnown, CopiesStored, NoRows, To, Return, cache, jobs, world,
     history, Works, Fault, TypeOK, StoreTyped, RequestTyped, JobTyped, WorldTyped
<1>28. ASSUME NEW t \in Threads, JobStart(t) PROVE ServedComplete'
  <2>1. jscan[t] \in Scans
    BY <1>28 DEF JobStart, Uploaded, WithoutScan
  <2>2. QED
    BY <1>28, <2>1, CacheUpdate, RowEdits DEF JobStart, ServedComplete, JobsKeepResults,
       ResultStored, history, TypeOK, StoreTyped, RequestTyped, JobTyped, WorldTyped
<1>29. ASSUME NEW t \in Threads, JobStartDb(t) PROVE ServedComplete'
  <2>1. jscan[t] \in Scans
    BY <1>29 DEF JobStartDb, Uploaded, WithoutScan
  <2>2. QED
    BY <1>29, <2>1, DbUpdate, RowEdits DEF JobStartDb, ServedComplete, JobsKeepResults,
       ResultStored, history, TypeOK, StoreTyped, RequestTyped, JobTyped, WorldTyped
<1>30. ASSUME NEW t \in Threads, JobRaise(t) PROVE ServedComplete'
  BY <1>30 DEF JobRaise, DeletesKnown, CopiesStored, cache, durable, request, world, history,
     TypeOK, StoreTyped, RequestTyped, JobTyped, WorldTyped
<1>31. ASSUME NEW t \in Threads, JobResult(t) PROVE ServedComplete'
  BY <1>31 DEF JobResult, DeletesKnown, CopiesStored, durable, request, world, history, TypeOK,
     StoreTyped, RequestTyped, JobTyped, WorldTyped
<1>32. ASSUME NEW t \in Threads, JobResultDb(t) PROVE ServedComplete'
  BY <1>32 DEF JobResultDb, DeletesKnown, CopiesStored, cache, request, world, Works, Fault, TypeOK,
     StoreTyped, RequestTyped, JobTyped, WorldTyped
<1>33. ASSUME NEW t \in Threads, JobFinish(t) PROVE ServedComplete'
  <2>1. jscan[t] \in Scans
    BY <1>33 DEF JobFinish, Uploaded, WithoutScan
  <2>2. QED
    BY <1>33, <2>1, CacheUpdate, RowEdits DEF JobFinish, ServedComplete, JobsKeepResults,
       ResultStored, history, TypeOK, StoreTyped, RequestTyped, JobTyped, WorldTyped
<1>34. ASSUME NEW t \in Threads, JobFinishDb(t) PROVE ServedComplete'
  <2>1. jscan[t] \in Scans
    BY <1>34 DEF JobFinishDb, Uploaded, WithoutScan
  <2>2. QED
    BY <1>34, <2>1, DbUpdate, RowEdits DEF JobFinishDb, ServedComplete, JobsKeepResults,
       ResultStored, history, TypeOK, StoreTyped, RequestTyped, JobTyped, WorldTyped
<1>35. ASSUME NEW t \in Threads, JobFail(t) PROVE ServedComplete'
  <2>1. jscan[t] \in Scans
    BY <1>35 DEF JobFail, Uploaded, WithoutScan
  <2>2. QED
    BY <1>35, <2>1, CacheUpdate, RowEdits DEF JobFail, ServedComplete, JobsKeepResults,
       ResultStored, history, TypeOK, StoreTyped, RequestTyped, JobTyped, WorldTyped
<1>36. ASSUME NEW t \in Threads, JobFailDb(t) PROVE ServedComplete'
  <2>1. jscan[t] \in Scans
    BY <1>36 DEF JobFailDb, Uploaded, WithoutScan
  <2>2. QED
    BY <1>36, <2>1, DbUpdate, RowEdits DEF JobFailDb, ServedComplete, JobsKeepResults, ResultStored,
       history, TypeOK, StoreTyped, RequestTyped, JobTyped, WorldTyped
<1>37. ASSUME Crash PROVE ServedComplete'
  BY <1>37 DEF Crash, DeletesKnown, CopiesStored, NoRows, durable, history, TypeOK, StoreTyped,
     RequestTyped, JobTyped, WorldTyped
<1>38. ASSUME TimePasses PROVE ServedComplete'
  BY <1>38 DEF TimePasses, DeletesKnown, CopiesStored, cache, durable, request, jobs, history,
     TypeOK, StoreTyped, RequestTyped, JobTyped, WorldTyped
<1>39. QED
  BY <1>1, <1>2, <1>3, <1>4, <1>5, <1>6, <1>7, <1>8, <1>9, <1>10, <1>11, <1>12, <1>13, <1>14, <1>15,
     <1>16, <1>17, <1>18, <1>19, <1>20, <1>21, <1>22, <1>23, <1>24, <1>25, <1>26, <1>27, <1>28,
     <1>29, <1>30, <1>31, <1>32, <1>33, <1>34, <1>35, <1>36, <1>37, <1>38 DEF Next, Upload, Request,
     List, Job

(* No row becomes uploaded; a request goes on, or returns.                 *)
LEMMA MoveKeepsSweeps ==
    ASSUME TypeOK, SweptAnalysed, NEW t \in Threads,
           \A s \in Scans : dbRow'[s] # NoRow /\ dbRow'[s].status = "uploaded" =>
                                dbRow[s] # NoRow /\ dbRow[s].status = "uploaded",
           \/ Return(t)
           \/ UNCHANGED <<pc, scan, sweep>>
           \/ (\E p : To(t, p) /\ p # "remove") /\ UNCHANGED <<scan, sweep>>
    PROVE  SweptAnalysed'
<1>1. CASE Return(t)
  BY <1>1 DEF SweptAnalysed, RequestTyped, TypeOK, Return, To
<1>2. CASE UNCHANGED <<pc, scan, sweep>>
  BY <1>2 DEF SweptAnalysed, RequestTyped, TypeOK
<1>3. CASE (\E p : To(t, p) /\ p # "remove") /\ UNCHANGED <<scan, sweep>>
  <2>1. PICK p : pc' = [pc EXCEPT ![t] = p] /\ p # "remove"
    BY <1>3 DEF To
  <2>2. QED
    BY <1>3, <2>1 DEF SweptAnalysed, RequestTyped, TypeOK
<1>4. QED
  BY <1>1, <1>2, <1>3

(* What the clean-up has chosen does not become uploaded meanwhile.        *)
LEMMA SweptAnalysedStep == TypeOK /\ Uploaded /\ SweptAnalysed /\ Next => SweptAnalysed'
<1> SUFFICES ASSUME TypeOK, Uploaded, SweptAnalysed, Next PROVE SweptAnalysed'
  OBVIOUS
<1> USE DEF SweptAnalysed
<1>1. ASSUME NEW s \in Scans, UploadObject(s) \/ UploadBucket(s) \/ UploadRow(s)
      PROVE  SweptAnalysed'
  BY <1>1 DEF UploadObject, UploadBucket, UploadRow, Uploaded, WithoutScan, cache, durable, request,
     jobs, TypeOK, StoreTyped, RequestTyped, JobTyped, WorldTyped
<1>2. ASSUME NEW s \in Scans, UploadInsert(s) PROVE SweptAnalysed'
  BY <1>2 DEF UploadInsert, Uploaded, WithoutScan, cache, request, jobs, TypeOK, StoreTyped,
     RequestTyped, JobTyped, WorldTyped
<1>3. ASSUME NEW t \in Threads, NEW s \in Scans, NEW g \in Goals \ {"none", "remove"},
             Call(t, s, g)
      PROVE  SweptAnalysed'
  BY <1>3 DEF Call, Uploaded, WithoutScan, To, cache, durable, jobs, TypeOK, StoreTyped,
     RequestTyped, JobTyped, WorldTyped
<1>4. ASSUME NEW t \in Threads, ListBegin(t) PROVE SweptAnalysed'
  BY <1>4, MoveKeepsSweeps DEF ListBegin, locals, durable
<1>5. ASSUME NEW t \in Threads, GetCached(t) PROVE SweptAnalysed'
  <2>1. PICK r : Got(t, r)
    BY <1>5 DEF GetCached
  <2>2. QED
    BY <1>5, <2>1, GotCases, MoveKeepsSweeps DEF GetCached, locals, durable
<1>6. ASSUME NEW t \in Threads, GetMissed(t) PROVE SweptAnalysed'
  BY <1>6, MoveKeepsSweeps DEF GetMissed, locals, durable
<1>7. ASSUME NEW t \in Threads, GetSelect(t) PROVE SweptAnalysed'
  BY <1>7, MoveKeepsSweeps DEF GetSelect, locals, durable
<1>8. ASSUME NEW t \in Threads, GetFill(t) PROVE SweptAnalysed'
  <2>1. PICK r : Got(t, r)
    BY <1>8 DEF GetFill
  <2>2. QED
    BY <1>8, <2>1, GotCases, MoveKeepsSweeps DEF GetFill, locals, durable
<1>9. ASSUME NEW t \in Threads, GetResult(t) PROVE SweptAnalysed'
  BY <1>9, MoveKeepsSweeps DEF GetResult, locals, durable
<1>10. ASSUME NEW t \in Threads, FillResult(t) PROVE SweptAnalysed'
  BY <1>10, MoveKeepsSweeps DEF FillResult, locals, durable
<1>11. ASSUME NEW t \in Threads, PopObject(t) PROVE SweptAnalysed'
  BY <1>11, MoveKeepsSweeps DEF PopObject, locals, durable
<1>12. ASSUME NEW t \in Threads, RemoveObject(t) PROVE SweptAnalysed'
  <2>1. UNCHANGED <<dbRow, scan, sweep>> /\ (To(t, "get") \/ To(t, "dropCache"))
    BY <1>12 DEF RemoveObject
  <2>2. QED
    BY <2>1, MoveKeepsSweeps
<1>13. ASSUME NEW t \in Threads, DropCache(t) PROVE SweptAnalysed'
  BY <1>13, MoveKeepsSweeps DEF DropCache, locals, durable
<1>14. ASSUME NEW t \in Threads, DropRow(t) PROVE SweptAnalysed'
  <2>1. scan[t] \in Scans /\ Return(t)
    BY <1>14 DEF DropRow, Uploaded, WithoutScan
  <2>2. UNCHANGED dbRow \/ dbRow' = [dbRow EXCEPT ![scan[t]] = NoRow]
    BY <1>14 DEF DropRow
  <2>3. QED
    BY <2>1, <2>2, MoveKeepsSweeps DEF StoreTyped, TypeOK
<1>15. ASSUME NEW t \in Threads, GetObject(t) PROVE SweptAnalysed'
  BY <1>15, MoveKeepsSweeps DEF GetObject, locals, durable
<1>16. ASSUME NEW t \in Threads, Download(t) PROVE SweptAnalysed'
  BY <1>16, MoveKeepsSweeps DEF Download, locals, durable
<1>17. ASSUME NEW t \in Threads, FillObject(t) PROVE SweptAnalysed'
  BY <1>17, MoveKeepsSweeps DEF FillObject, locals, durable
<1>18. ASSUME NEW t \in Threads, Submit(t) PROVE SweptAnalysed'
  BY <1>18, MoveKeepsSweeps DEF Submit, locals, durable
<1>19. ASSUME NEW t \in Threads, Mark(t) PROVE SweptAnalysed'
  BY <1>19, MoveKeepsSweeps DEF Mark, UpdateCache, locals, durable
<1>20. ASSUME NEW t \in Threads, MarkDb(t) PROVE SweptAnalysed'
  <2>1. scan[t] \in Scans
    BY <1>20 DEF MarkDb, Uploaded, WithoutScan
  <2>2. RowSetTo(scan[t], "parsing")
    BY <1>20, <2>1, StatusUpdate DEF MarkDb, TypeOK, WorldTyped
  <2>3. Return(t) \/ UNCHANGED <<pc, scan, sweep>>
    BY <1>20 DEF MarkDb, request
  <2>4. QED
    BY <2>2, <2>3, MoveKeepsSweeps DEF RowSetTo
<1>21. ASSUME NEW t \in Threads, ListSelect(t) PROVE SweptAnalysed'
  BY <1>21, MoveKeepsSweeps DEF ListSelect, locals, durable
<1>22. ASSUME NEW t \in Threads, ListOverwrite(t) PROVE SweptAnalysed'
  BY <1>22, MoveKeepsSweeps DEF ListOverwrite, locals, durable
<1>23. ASSUME NEW t \in Threads, CleanupSelect(t) PROVE SweptAnalysed'
  <2>1. UNCHANGED dbRow
    BY <1>23 DEF CleanupSelect, durable
  <2>2. CASE Return(t)
    BY <2>1, <2>2, MoveKeepsSweeps
  <2>3. CASE ~Return(t)
    <3>1. PICK ids \in SUBSET Scans : sweep' = [sweep EXCEPT ![t] = {s \in ids : Expired(s)}]
      BY <1>23, <2>3 DEF CleanupSelect
    <3>2. To(t, "pop") /\ UNCHANGED scan
      BY <1>23, <2>3 DEF CleanupSelect
    <3>3. \A s \in {s \in ids : Expired(s)} : dbRow[s].status # "uploaded"
      BY DEF Expired, IsComplete
    <3>4. QED
      BY <2>1, <3>1, <3>2, <3>3 DEF RequestTyped, TypeOK, To
  <2>4. QED
    BY <2>2, <2>3
<1>24. ASSUME NEW t \in Threads, SweepPop(t) PROVE SweptAnalysed'
  BY <1>24 DEF SweepPop, Uploaded, WithoutScan, To, durable, jobs, TypeOK, StoreTyped, RequestTyped,
     JobTyped, WorldTyped
<1>25. ASSUME NEW t \in Threads, SweepRemove(t) PROVE SweptAnalysed'
  <2>1. UNCHANGED dbRow
    BY <1>25 DEF SweepRemove
  <2>2. CASE Return(t)
    BY <2>1, <2>2, MoveKeepsSweeps
  <2>3. CASE ~Return(t)
    <3>1. /\ To(t, "pop") /\ sweep' = [sweep EXCEPT ![t] = @ \ {scan[t]}]
          /\ scan' = [scan EXCEPT ![t] = NoScan]
      BY <1>25, <2>3 DEF SweepRemove
    <3>2. QED
      BY <2>1, <3>1 DEF RequestTyped, TypeOK, To
  <2>4. QED
    BY <2>2, <2>3
<1>26. ASSUME NEW t \in Threads, JobStart(t) PROVE SweptAnalysed'
  BY <1>26, MoveKeepsSweeps DEF JobStart, UpdateCache, request, durable
<1>27. ASSUME NEW t \in Threads, JobStartDb(t) PROVE SweptAnalysed'
  <2>1. jscan[t] \in Scans
    BY <1>27 DEF JobStartDb, Uploaded, WithoutScan
  <2>2. RowSetTo(jscan[t], "parsing")
    BY <1>27, <2>1, StatusUpdate DEF JobStartDb, TypeOK, WorldTyped
  <2>3. Return(t) \/ UNCHANGED <<pc, scan, sweep>>
    BY <1>27 DEF JobStartDb, request
  <2>4. QED
    BY <2>2, <2>3, MoveKeepsSweeps DEF RowSetTo
<1>28. ASSUME NEW t \in Threads, JobRaise(t) PROVE SweptAnalysed'
  BY <1>28, MoveKeepsSweeps DEF JobRaise, request, durable
<1>29. ASSUME NEW t \in Threads, JobResult(t) PROVE SweptAnalysed'
  BY <1>29, MoveKeepsSweeps DEF JobResult, request, durable
<1>30. ASSUME NEW t \in Threads, JobResultDb(t) PROVE SweptAnalysed'
  BY <1>30, MoveKeepsSweeps DEF JobResultDb, request, durable
<1>31. ASSUME NEW t \in Threads, JobFinish(t) PROVE SweptAnalysed'
  BY <1>31, MoveKeepsSweeps DEF JobFinish, UpdateCache, request, durable
<1>32. ASSUME NEW t \in Threads, JobFinishDb(t) PROVE SweptAnalysed'
  <2>1. jscan[t] \in Scans
    BY <1>32 DEF JobFinishDb, Uploaded, WithoutScan
  <2>2. RowSetTo(jscan[t], "complete")
    BY <1>32, <2>1, StatusUpdate DEF JobFinishDb, TypeOK, WorldTyped
  <2>3. Return(t) \/ UNCHANGED <<pc, scan, sweep>>
    BY <1>32 DEF JobFinishDb, request
  <2>4. QED
    BY <2>2, <2>3, MoveKeepsSweeps DEF RowSetTo
<1>33. ASSUME NEW t \in Threads, JobFail(t) PROVE SweptAnalysed'
  BY <1>33, MoveKeepsSweeps DEF JobFail, UpdateCache, request, durable
<1>34. ASSUME NEW t \in Threads, JobFailDb(t) PROVE SweptAnalysed'
  <2>1. jscan[t] \in Scans
    BY <1>34 DEF JobFailDb, Uploaded, WithoutScan
  <2>2. RowSetTo(jscan[t], "failed")
    BY <1>34, <2>1, StatusUpdate DEF JobFailDb, TypeOK, WorldTyped
  <2>3. Return(t) \/ UNCHANGED <<pc, scan, sweep>>
    BY <1>34 DEF JobFailDb, request
  <2>4. QED
    BY <2>2, <2>3, MoveKeepsSweeps DEF RowSetTo
<1>35. ASSUME Crash \/ TimePasses PROVE SweptAnalysed'
  BY <1>35 DEF Crash, TimePasses, Uploaded, WithoutScan, cache, durable, request, jobs, NoRows,
     TypeOK, StoreTyped, RequestTyped, JobTyped, WorldTyped
<1>36. QED
  BY <1>1, <1>2, <1>3, <1>4, <1>5, <1>6, <1>7, <1>8, <1>9, <1>10, <1>11, <1>12, <1>13, <1>14, <1>15,
     <1>16, <1>17, <1>18, <1>19, <1>20, <1>21, <1>22, <1>23, <1>24, <1>25, <1>26, <1>27, <1>28,
     <1>29, <1>30, <1>31, <1>32, <1>33, <1>34, <1>35 DEF Next, Upload, Request, List, Job

(* The capture is put in the bucket before its row is.                     *)
LEMMA CaptureFirstStep ==
    TypeOK /\ Uploaded /\ DeletesKnown /\ SweptAnalysed /\ CaptureFirst /\ Next => CaptureFirst'
<1> SUFFICES ASSUME TypeOK, Uploaded, DeletesKnown, SweptAnalysed, CaptureFirst, Next
             PROVE  CaptureFirst'
  OBVIOUS
<1> USE DEF CaptureFirst
<1>1. ASSUME NEW s \in Scans, UploadObject(s) \/ UploadBucket(s) PROVE CaptureFirst'
  BY <1>1 DEF UploadObject, UploadBucket, DeletesKnown, SweptAnalysed, Uploaded, cache, durable,
     request, jobs, world, history, Works, Fault, WithoutScan, TypeOK, StoreTyped, RequestTyped,
     JobTyped, WorldTyped
<1>2. ASSUME NEW s \in Scans, UploadRow(s) \/ UploadInsert(s) PROVE CaptureFirst'
  BY <1>2 DEF UploadRow, UploadInsert, DeletesKnown, SweptAnalysed, Uploaded, cache, durable,
     request, jobs, world, history, Works, Fault, WithoutScan, TypeOK, StoreTyped, RequestTyped,
     JobTyped, WorldTyped
<1>3. ASSUME NEW t \in Threads, NEW s \in Scans, NEW g \in Goals \ {"none", "remove"},
             Call(t, s, g)
      PROVE  CaptureFirst'
  BY <1>3 DEF Call, DeletesKnown, SweptAnalysed, Uploaded, To, cache, durable, jobs, world, history,
     WithoutScan, TypeOK, StoreTyped, RequestTyped, JobTyped, WorldTyped
<1>4. ASSUME NEW t \in Threads, ListBegin(t) \/ GetCached(t) PROVE CaptureFirst'
  BY <1>4 DEF ListBegin, GetCached, DeletesKnown, SweptAnalysed, Uploaded, Got, To, Return, locals,
     cache, durable, jobs, world, history, WithoutScan, TypeOK, StoreTyped, RequestTyped, JobTyped,
     WorldTyped
<1>5. ASSUME NEW t \in Threads, GetMissed(t) \/ GetSelect(t) PROVE CaptureFirst'
  BY <1>5 DEF GetMissed, GetSelect, DeletesKnown, SweptAnalysed, Uploaded, To, Return, locals,
     cache, durable, jobs, world, history, Works, Fault, WithoutScan, TypeOK, StoreTyped,
     RequestTyped, JobTyped, WorldTyped
<1>6. ASSUME NEW t \in Threads, GetFill(t) \/ GetResult(t) PROVE CaptureFirst'
  BY <1>6 DEF GetFill, GetResult, DeletesKnown, SweptAnalysed, Uploaded, Got, To, Return, locals,
     cache, durable, jobs, world, history, Works, Fault, WithoutScan, TypeOK, StoreTyped,
     RequestTyped, JobTyped, WorldTyped
<1>7. ASSUME NEW t \in Threads, FillResult(t) \/ PopObject(t) PROVE CaptureFirst'
  BY <1>7 DEF FillResult, PopObject, DeletesKnown, SweptAnalysed, Uploaded, To, Return, locals,
     durable, jobs, world, history, WithoutScan, TypeOK, StoreTyped, RequestTyped, JobTyped,
     WorldTyped
<1>8. ASSUME NEW t \in Threads, RemoveObject(t) \/ DropCache(t) PROVE CaptureFirst'
  BY <1>8 DEF RemoveObject, DropCache, DeletesKnown, SweptAnalysed, Uploaded, To, locals, cache,
     durable, jobs, world, history, Works, Fault, WithoutScan, TypeOK, StoreTyped, RequestTyped,
     JobTyped, WorldTyped
<1>9. ASSUME NEW t \in Threads, DropRow(t) \/ GetObject(t) PROVE CaptureFirst'
  BY <1>9 DEF DropRow, GetObject, DeletesKnown, SweptAnalysed, Uploaded, To, Return, locals, cache,
     durable, jobs, world, history, Works, Fault, WithoutScan, TypeOK, StoreTyped, RequestTyped,
     JobTyped, WorldTyped
<1>10. ASSUME NEW t \in Threads, Download(t) \/ FillObject(t) PROVE CaptureFirst'
  BY <1>10 DEF Download, FillObject, DeletesKnown, SweptAnalysed, Uploaded, To, Return, locals,
     cache, durable, jobs, world, history, Works, Fault, WithoutScan, TypeOK, StoreTyped,
     RequestTyped, JobTyped, WorldTyped
<1>11. ASSUME NEW t \in Threads, Submit(t) \/ Mark(t) PROVE CaptureFirst'
  BY <1>11 DEF Submit, Mark, DeletesKnown, SweptAnalysed, Uploaded, UpdateCache, To, locals, cache,
     durable, jobs, world, history, WithoutScan, TypeOK, StoreTyped, RequestTyped, JobTyped,
     WorldTyped
<1>12. ASSUME NEW t \in Threads, MarkDb(t) \/ ListSelect(t) PROVE CaptureFirst'
  BY <1>12 DEF MarkDb, ListSelect, DeletesKnown, SweptAnalysed, Uploaded, UpdateDb, To, Return,
     cache, durable, jobs, world, history, Works, Fault, WithoutScan, TypeOK, StoreTyped,
     RequestTyped, JobTyped, WorldTyped
<1>13. ASSUME NEW t \in Threads, ListOverwrite(t) \/ CleanupSelect(t) PROVE CaptureFirst'
  BY <1>13 DEF ListOverwrite, CleanupSelect, DeletesKnown, SweptAnalysed, Uploaded, To, Return,
     cache, durable, jobs, world, history, Works, Fault, WithoutScan, TypeOK, StoreTyped,
     RequestTyped, JobTyped, WorldTyped
<1>14. ASSUME NEW t \in Threads, SweepPop(t) \/ SweepRemove(t) PROVE CaptureFirst'
  BY <1>14 DEF SweepPop, SweepRemove, DeletesKnown, SweptAnalysed, Uploaded, To, Return, cache,
     durable, jobs, world, history, Works, Fault, WithoutScan, TypeOK, StoreTyped, RequestTyped,
     JobTyped, WorldTyped
<1>15. ASSUME NEW t \in Threads, JobStart(t) \/ JobStartDb(t) PROVE CaptureFirst'
  BY <1>15 DEF JobStart, JobStartDb, DeletesKnown, SweptAnalysed, Uploaded, UpdateCache, UpdateDb,
     cache, durable, request, world, history, Works, Fault, WithoutScan, TypeOK, StoreTyped,
     RequestTyped, JobTyped, WorldTyped
<1>16. ASSUME NEW t \in Threads, JobRaise(t) \/ JobResult(t) PROVE CaptureFirst'
  BY <1>16 DEF JobRaise, JobResult, DeletesKnown, SweptAnalysed, Uploaded, cache, durable, request,
     world, history, WithoutScan, TypeOK, StoreTyped, RequestTyped, JobTyped, WorldTyped
<1>17. ASSUME NEW t \in Threads, JobResultDb(t) \/ JobFinish(t) PROVE CaptureFirst'
  BY <1>17 DEF JobResultDb, JobFinish, DeletesKnown, SweptAnalysed, Uploaded, UpdateCache, cache,
     durable, request, world, history, Works, Fault, WithoutScan, TypeOK, StoreTyped, RequestTyped,
     JobTyped, WorldTyped
<1>18. ASSUME NEW t \in Threads, JobFinishDb(t) \/ JobFail(t) PROVE CaptureFirst'
  BY <1>18 DEF JobFinishDb, JobFail, DeletesKnown, SweptAnalysed, Uploaded, UpdateCache, UpdateDb,
     cache, durable, request, world, history, Works, Fault, WithoutScan, TypeOK, StoreTyped,
     RequestTyped, JobTyped, WorldTyped
<1>19. ASSUME NEW t \in Threads, JobFailDb(t) PROVE CaptureFirst'
  BY <1>19 DEF JobFailDb, DeletesKnown, SweptAnalysed, Uploaded, UpdateDb, cache, request, world,
     history, Works, Fault, WithoutScan, TypeOK, StoreTyped, RequestTyped, JobTyped, WorldTyped
<1>20. ASSUME Crash \/ TimePasses PROVE CaptureFirst'
  BY <1>20 DEF Crash, TimePasses, DeletesKnown, SweptAnalysed, Uploaded, cache, durable, request,
     jobs, history, WithoutScan, TypeOK, StoreTyped, RequestTyped, JobTyped, WorldTyped
<1>21. QED
  BY <1>1, <1>2, <1>3, <1>4, <1>5, <1>6, <1>7, <1>8, <1>9, <1>10, <1>11, <1>12, <1>13, <1>14, <1>15,
     <1>16, <1>17, <1>18, <1>19, <1>20 DEF Next, Upload, Request, List, Job

(* Only a DELETE or a sweep of analysed scans empties the bucket.          *)
LEMMA CaptureKeptStep ==
    TypeOK /\ Uploaded /\ DeletesKnown /\ SweptAnalysed /\ CaptureFirst /\ CaptureKept /\ Next => CaptureKept'
<1> SUFFICES ASSUME TypeOK, Uploaded, DeletesKnown, SweptAnalysed, CaptureFirst, CaptureKept, Next
             PROVE  CaptureKept'
  OBVIOUS
<1> USE DEF CaptureKept
<1>1. ASSUME NEW s \in Scans, UploadObject(s) \/ UploadBucket(s) PROVE CaptureKept'
  BY <1>1 DEF UploadObject, UploadBucket, DeletesKnown, SweptAnalysed, CaptureFirst, cache, durable,
     request, jobs, world, history, Works, Fault, TypeOK, StoreTyped, RequestTyped, JobTyped,
     WorldTyped
<1>2. ASSUME NEW s \in Scans, UploadRow(s) \/ UploadInsert(s) PROVE CaptureKept'
  BY <1>2 DEF UploadRow, UploadInsert, DeletesKnown, SweptAnalysed, CaptureFirst, cache, durable,
     request, jobs, world, history, Works, Fault, TypeOK, StoreTyped, RequestTyped, JobTyped,
     WorldTyped
<1>3. ASSUME NEW t \in Threads, NEW s \in Scans, NEW g \in Goals \ {"none", "remove"},
             Call(t, s, g)
      PROVE  CaptureKept'
  BY <1>3 DEF Call, DeletesKnown, SweptAnalysed, CaptureFirst, To, cache, durable, jobs, world,
     history, TypeOK, StoreTyped, RequestTyped, JobTyped, WorldTyped
<1>4. ASSUME NEW t \in Threads, ListBegin(t) \/ GetCached(t) PROVE CaptureKept'
  BY <1>4 DEF ListBegin, GetCached, DeletesKnown, SweptAnalysed, CaptureFirst, Got, To, Return,
     locals, cache, durable, jobs, world, history, TypeOK, StoreTyped, RequestTyped, JobTyped,
     WorldTyped
<1>5. ASSUME NEW t \in Threads, GetMissed(t) \/ GetSelect(t) PROVE CaptureKept'
  BY <1>5 DEF GetMissed, GetSelect, DeletesKnown, SweptAnalysed, CaptureFirst, To, Return, locals,
     cache, durable, jobs, world, history, Works, Fault, TypeOK, StoreTyped, RequestTyped, JobTyped,
     WorldTyped
<1>6. ASSUME NEW t \in Threads, GetFill(t) \/ GetResult(t) PROVE CaptureKept'
  BY <1>6 DEF GetFill, GetResult, DeletesKnown, SweptAnalysed, CaptureFirst, Got, To, Return,
     locals, cache, durable, jobs, world, history, Works, Fault, TypeOK, StoreTyped, RequestTyped,
     JobTyped, WorldTyped
<1>7. ASSUME NEW t \in Threads, FillResult(t) \/ PopObject(t) PROVE CaptureKept'
  BY <1>7 DEF FillResult, PopObject, DeletesKnown, SweptAnalysed, CaptureFirst, To, Return, locals,
     durable, jobs, world, history, TypeOK, StoreTyped, RequestTyped, JobTyped, WorldTyped
<1>8. ASSUME NEW t \in Threads, RemoveObject(t) \/ DropCache(t) PROVE CaptureKept'
  BY <1>8 DEF RemoveObject, DropCache, DeletesKnown, SweptAnalysed, CaptureFirst, To, locals, cache,
     durable, jobs, world, history, Works, Fault, TypeOK, StoreTyped, RequestTyped, JobTyped,
     WorldTyped
<1>9. ASSUME NEW t \in Threads, DropRow(t) \/ GetObject(t) PROVE CaptureKept'
  BY <1>9 DEF DropRow, GetObject, DeletesKnown, SweptAnalysed, CaptureFirst, To, Return, locals,
     cache, durable, jobs, world, history, Works, Fault, TypeOK, StoreTyped, RequestTyped, JobTyped,
     WorldTyped
<1>10. ASSUME NEW t \in Threads, Download(t) \/ FillObject(t) PROVE CaptureKept'
  BY <1>10 DEF Download, FillObject, DeletesKnown, SweptAnalysed, CaptureFirst, To, Return, locals,
     cache, durable, jobs, world, history, Works, Fault, TypeOK, StoreTyped, RequestTyped, JobTyped,
     WorldTyped
<1>11. ASSUME NEW t \in Threads, Submit(t) \/ ListSelect(t) PROVE CaptureKept'
  BY <1>11 DEF Submit, ListSelect, DeletesKnown, SweptAnalysed, CaptureFirst, To, Return, locals,
     cache, durable, jobs, world, history, Works, Fault, TypeOK, StoreTyped, RequestTyped, JobTyped,
     WorldTyped
<1>12. ASSUME NEW t \in Threads, Mark(t) PROVE CaptureKept'
  <2>1. scan[t] \in Scans
    BY <1>12 DEF Mark, Uploaded, WithoutScan
  <2>2. QED
    BY <1>12, <2>1, CacheUpdate DEF Mark, history, TypeOK, StoreTyped, RequestTyped, JobTyped,
       WorldTyped
<1>13. ASSUME NEW t \in Threads, MarkDb(t) PROVE CaptureKept'
  <2>1. scan[t] \in Scans
    BY <1>13 DEF MarkDb, Uploaded, WithoutScan
  <2>2. RowSetTo(scan[t], "parsing")
    BY <1>13, <2>1, StatusUpdate DEF MarkDb, TypeOK, WorldTyped
  <2>3. UNCHANGED <<cacheRow, cacheRes, cacheObj, dbRes, bucket, history, upc>>
    BY <1>13 DEF MarkDb, UpdateDb, cache
  <2>4. QED
    BY <1>13, <2>1, <2>2, <2>3 DEF MarkDb, RowSetTo, CaptureKept, history
<1>14. ASSUME NEW t \in Threads, ListOverwrite(t) \/ CleanupSelect(t) PROVE CaptureKept'
  BY <1>14 DEF ListOverwrite, CleanupSelect, DeletesKnown, SweptAnalysed, CaptureFirst, To, Return,
     cache, durable, jobs, world, history, Works, Fault, TypeOK, StoreTyped, RequestTyped, JobTyped,
     WorldTyped
<1>15. ASSUME NEW t \in Threads, SweepPop(t) \/ SweepRemove(t) PROVE CaptureKept'
  BY <1>15 DEF SweepPop, SweepRemove, DeletesKnown, SweptAnalysed, CaptureFirst, To, Return, cache,
     durable, jobs, world, history, Works, Fault, TypeOK, StoreTyped, RequestTyped, JobTyped,
     WorldTyped
<1>16. ASSUME NEW t \in Threads, JobStart(t) PROVE CaptureKept'
  <2>1. jscan[t] \in Scans
    BY <1>16 DEF JobStart, Uploaded, WithoutScan
  <2>2. QED
    BY <1>16, <2>1, CacheUpdate DEF JobStart, history, TypeOK, StoreTyped, RequestTyped, JobTyped,
       WorldTyped
<1>17. ASSUME NEW t \in Threads, JobStartDb(t) PROVE CaptureKept'
  <2>1. jscan[t] \in Scans
    BY <1>17 DEF JobStartDb, Uploaded, WithoutScan
  <2>2. RowSetTo(jscan[t], "parsing")
    BY <1>17, <2>1, StatusUpdate DEF JobStartDb, TypeOK, WorldTyped
  <2>3. UNCHANGED <<cacheRow, cacheRes, cacheObj, dbRes, bucket, history, upc>>
    BY <1>17 DEF JobStartDb, UpdateDb, cache
  <2>4. QED
    BY <1>17, <2>1, <2>2, <2>3 DEF JobStartDb, RowSetTo, CaptureKept, history
<1>18. ASSUME NEW t \in Threads, JobRaise(t) \/ JobResult(t) PROVE CaptureKept'
  BY <1>18 DEF JobRaise, JobResult, DeletesKnown, SweptAnalysed, CaptureFirst, cache, durable,
     request, world, history, TypeOK, StoreTyped, RequestTyped, JobTyped, WorldTyped
<1>19. ASSUME NEW t \in Threads, JobResultDb(t) PROVE CaptureKept'
  BY <1>19 DEF JobResultDb, DeletesKnown, SweptAnalysed, CaptureFirst, cache, request, world, Works,
     Fault, TypeOK, StoreTyped, RequestTyped, JobTyped, WorldTyped
<1>20. ASSUME NEW t \in Threads, JobFinish(t) PROVE CaptureKept'
  <2>1. jscan[t] \in Scans
    BY <1>20 DEF JobFinish, Uploaded, WithoutScan
  <2>2. QED
    BY <1>20, <2>1, CacheUpdate DEF JobFinish, history, TypeOK, StoreTyped, RequestTyped, JobTyped,
       WorldTyped
<1>21. ASSUME NEW t \in Threads, JobFinishDb(t) PROVE CaptureKept'
  <2>1. jscan[t] \in Scans
    BY <1>21 DEF JobFinishDb, Uploaded, WithoutScan
  <2>2. RowSetTo(jscan[t], "complete")
    BY <1>21, <2>1, StatusUpdate DEF JobFinishDb, TypeOK, WorldTyped
  <2>3. UNCHANGED <<cacheRow, cacheRes, cacheObj, dbRes, bucket, history, upc>>
    BY <1>21 DEF JobFinishDb, UpdateDb, cache
  <2>4. QED
    BY <1>21, <2>1, <2>2, <2>3 DEF JobFinishDb, RowSetTo, CaptureKept, history
<1>22. ASSUME NEW t \in Threads, JobFail(t) PROVE CaptureKept'
  <2>1. jscan[t] \in Scans
    BY <1>22 DEF JobFail, Uploaded, WithoutScan
  <2>2. QED
    BY <1>22, <2>1, CacheUpdate DEF JobFail, history, TypeOK, StoreTyped, RequestTyped, JobTyped,
       WorldTyped
<1>23. ASSUME NEW t \in Threads, JobFailDb(t) PROVE CaptureKept'
  <2>1. jscan[t] \in Scans
    BY <1>23 DEF JobFailDb, Uploaded, WithoutScan
  <2>2. RowSetTo(jscan[t], "failed")
    BY <1>23, <2>1, StatusUpdate DEF JobFailDb, TypeOK, WorldTyped
  <2>3. UNCHANGED <<cacheRow, cacheRes, cacheObj, dbRes, bucket, history, upc>>
    BY <1>23 DEF JobFailDb, UpdateDb, cache
  <2>4. QED
    BY <1>23, <2>1, <2>2, <2>3 DEF JobFailDb, RowSetTo, CaptureKept, history
<1>24. ASSUME Crash \/ TimePasses PROVE CaptureKept'
  BY <1>24 DEF Crash, TimePasses, DeletesKnown, SweptAnalysed, CaptureFirst, cache, durable,
     request, jobs, history, TypeOK, StoreTyped, RequestTyped, JobTyped, WorldTyped
<1>25. QED
  BY <1>1, <1>2, <1>3, <1>4, <1>5, <1>6, <1>7, <1>8, <1>9, <1>10, <1>11, <1>12, <1>13, <1>14, <1>15,
     <1>16, <1>17, <1>18, <1>19, <1>20, <1>21, <1>22, <1>23, <1>24 DEF Next, Upload, Request, List,
     Job

-----------------------------------------------------------------------------
(* StoreInv holds of the empty stores.                                     *)
LEMMA StoreInit == Init => StoreInv
BY StoreBounds DEF Init, StoreInv, TypeOK, StoreTyped, RequestTyped, JobTyped, WorldTyped, NoRows,
   Goals, Uploaded, WithoutScan, DeletesKnown, JobsKeepResults, DurableResult, IsComplete,
   CopiesStored, ServedComplete, SweptAnalysed, CaptureFirst, CaptureKept

(* StoreInv says nothing of anything but the variables.                    *)
LEMMA StoreStutter == StoreInv /\ UNCHANGED vars => StoreInv'
<1> SUFFICES ASSUME StoreInv, UNCHANGED vars PROVE StoreInv'
  OBVIOUS
<1> USE DEF StoreInv, vars, cache, durable, request, jobs, world, history
<1>1. TypeOK'
  BY DEF TypeOK, StoreTyped, RequestTyped, JobTyped, WorldTyped
<1>2. Uploaded' /\ DeletesKnown' /\ SweptAnalysed' /\ CaptureFirst' /\ CaptureKept'
  BY DEF Uploaded, DeletesKnown, SweptAnalysed, CaptureFirst, CaptureKept
<1>3. JobsKeepResults' /\ DurableResult' /\ CopiesStored' /\ ServedComplete'
  BY DEF JobsKeepResults, DurableResult, IsComplete, CopiesStored, ServedComplete, ResultStored
<1>4. QED
  BY <1>1, <1>2, <1>3

(* StoreInv is inductive.                                                  *)
LEMMA StoreStep == StoreInv /\ [Next]_vars => StoreInv'
BY StoreStutter, TypeStep, UploadedStep, DeletesKnownStep, JobsKeepResultsStep, DurableResultStep,
   CopiesStoredStep, ServedCompleteStep, SweptAnalysedStep, CaptureFirstStep, CaptureKeptStep
   DEF StoreInv

(* What requests, jobs, pages and sweeps hold between two steps agrees     *)
(* with the database and the bucket (db/client.py, routers/scans.py,       *)
(* worker.py), over any number of failed calls and crashes.                *)
THEOREM StoreInvariant == Safety => []StoreInv
BY StoreInit, StoreStep, PTL DEF Safety

(* A row that says "complete" has its result in the database, unless the   *)
(* write of the result failed: a process started anew can serve the scan   *)
(* (worker.py 44-47, client.py put_result).                                *)
THEOREM DurableResults == Safety => []DurableResult
<1>1. StoreInv => DurableResult
  BY DEF StoreInv
<1>2. QED
  BY <1>1, StoreInvariant, PTL

(* Whichever copy of its row a reader is given, a complete scan that was   *)
(* not deleted can be served (client.py get_scan, list_scans, get_result). *)
THEOREM CompleteIsServed == Safety => []ServedComplete
<1>1. StoreInv => ServedComplete
  BY DEF StoreInv
<1>2. QED
  BY <1>1, StoreInvariant, PTL

(* The clean-up never takes the capture of a scan that is still to be      *)
(* analysed (client.py, the clean-up of list_scans).                       *)
THEOREM CapturesKept == Safety => []CaptureKept
<1>1. StoreInv => CaptureKept
  BY DEF StoreInv
<1>2. QED
  BY <1>1, StoreInvariant, PTL
=============================================================================
