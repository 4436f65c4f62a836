----------------------------- MODULE ScanStore -----------------------------
(***************************************************************************)
(* SupabaseStore (db/client.py) and the handlers that call it: an          *)
(* in-memory cache in front of Postgres rows, result rows and a storage    *)
(* bucket.  Every store method touches the cache and the database in       *)
(* separate steps, every database call may fail and every failure is       *)
(* swallowed, and the process may die and start again with an empty cache. *)
(*                                                                         *)
(* A call that failed has not been applied: one that was applied and then  *)
(* reported an error is the same as a success, since nobody looks.  The    *)
(* admission semaphore is left to AnalysisService: here a slot is free.    *)
(***************************************************************************)
EXTENDS Integers, FiniteSets

CONSTANTS
    Scans,          \* scan ids, each uploaded at most once
    Threads,        \* slots for GET, LIST, DELETE and /analyze calls, reused
    NoScan,         \* a slot without a scan
    NoRow,          \* no row under this id
    CleanupLimit,   \* .limit(50) of the clean-up query
    Retention,      \* PCAP_RETENTION_HOURS, in clock units
    MaxClock,       \* bound: the clock stops here
    MaxFaults,      \* bound: database calls that fail
    MaxCrashes      \* bound: times the process dies

ASSUME StoreNames == NoScan \notin Scans
ASSUME StoreBounds ==
    /\ CleanupLimit \in Nat /\ Retention \in Nat
    /\ MaxClock \in Nat /\ MaxFaults \in Nat /\ MaxCrashes \in Nat

VARIABLES
    cacheRow, cacheRes, cacheObj,   \* LocalStore.scans, .results, .objects
    dbRow, dbRes, bucket,           \* public.scans, scan_results, 'pcaps'
    upc,            \* where the upload of an id is
    pc,             \* where the request of a thread is
    goal,           \* what it does with the row it asks get_scan for
    scan,           \* the scan it was called with
    snap,           \* the row it has read from the database
    page,           \* LIST: the rows it has read, by id
    sweep,          \* LIST: expired captures it has still to delete
    jpc, jscan,     \* the job a thread's /analyze call submitted
    clock, faults, crashes,
    lost,           \* history: <<table, id>> of every write that failed
    deleted         \* history: ids some DELETE was accepted for

cache == <<cacheRow, cacheRes, cacheObj>>
durable == <<dbRow, dbRes, bucket>>
request == <<pc, goal, scan, snap, page, sweep>>
jobs == <<jpc, jscan>>
world == <<clock, faults, crashes>>
history == <<lost, deleted>>
vars == <<cache, durable, upc, request, jobs, world, history>>

(* completed_at is the clock at completion; 0 stands for null before it. *)
Row == [status : {"uploaded", "parsing", "complete", "failed"}, done : 0 .. MaxClock]
Goals == {"none", "status", "summary", "delete", "remove", "analyze"}

StoreTyped ==
    /\ cacheRow \in [Scans -> Row \cup {NoRow}] /\ dbRow \in [Scans -> Row \cup {NoRow}]
    /\ cacheRes \subseteq Scans /\ cacheObj \subseteq Scans
    /\ dbRes \subseteq Scans /\ bucket \subseteq Scans
RequestTyped ==
    /\ pc \in [Threads -> {"idle", "get", "select", "fill", "result", "fillResult",
                           "popObject", "removeObject", "dropCache", "dropRow",
                           "object", "download", "fillObject", "submit", "mark", "markDb",
                           "list", "count", "cleanup", "pop", "remove"}]
    /\ goal \in [Threads -> Goals] /\ scan \in [Threads -> Scans \cup {NoScan}]
    /\ snap \in [Threads -> Row \cup {NoRow}]
    /\ page \in [Threads -> [Scans -> Row \cup {NoRow}]]
    /\ sweep \in [Threads -> SUBSET Scans]
JobTyped ==
    /\ jpc \in [Threads -> {"none", "start", "startDb", "result", "resultDb",
                            "finish", "finishDb", "fail", "failDb"}]
    /\ jscan \in [Threads -> Scans \cup {NoScan}]
WorldTyped ==
    /\ upc \in [Scans -> {"new", "bucket", "row", "insert", "done", "aborted"}]
    /\ clock \in 0 .. MaxClock /\ faults \in 0 .. MaxFaults /\ crashes \in 0 .. MaxCrashes
    /\ lost \subseteq {"row", "result", "object"} \X Scans /\ deleted \subseteq Scans
TypeOK == StoreTyped /\ RequestTyped /\ JobTyped /\ WorldTyped

NoRows == [s \in Scans |-> NoRow]

Init ==
    /\ cacheRow = NoRows /\ cacheRes = {} /\ cacheObj = {}
    /\ dbRow = NoRows /\ dbRes = {} /\ bucket = {}
    /\ upc = [s \in Scans |-> "new"]
    /\ pc = [t \in Threads |-> "idle"] /\ goal = [t \in Threads |-> "none"]
    /\ scan = [t \in Threads |-> NoScan] /\ snap = [t \in Threads |-> NoRow]
    /\ page = [t \in Threads |-> NoRows] /\ sweep = [t \in Threads |-> {}]
    /\ jpc = [t \in Threads |-> "none"] /\ jscan = [t \in Threads |-> NoScan]
    /\ clock = 0 /\ faults = 0 /\ crashes = 0
    /\ lost = {} /\ deleted = {}

-----------------------------------------------------------------------------
(* The database.  A call succeeds, or fails and is swallowed.              *)

Fault == faults < MaxFaults /\ faults' = faults + 1 /\ UNCHANGED <<clock, crashes>>
Works == UNCHANGED world

(* update_scan merges the given columns into the row, if there is one. *)
Merge(rows, s, new) == IF rows[s] = NoRow THEN rows ELSE [rows EXCEPT ![s] = new]

Parsing(r) == [r EXCEPT !.status = "parsing"]
Complete(r) == [r EXCEPT !.status = "complete", !.done = clock]
Failed(r) == [r EXCEPT !.status = "failed"]

UpdateCache(s, new) ==
    /\ cacheRow' = Merge(cacheRow, s, new)
    /\ UNCHANGED <<cacheRes, cacheObj, durable>>
UpdateDb(s, new) ==
    /\ \/ Works /\ dbRow' = Merge(dbRow, s, new)
       \/ Fault /\ UNCHANGED dbRow
    /\ UNCHANGED <<cache, dbRes, bucket>>

-----------------------------------------------------------------------------
(* The event loop runs one upload or one /analyze call at a time.          *)
LoopFree ==
    /\ \A s \in Scans : upc[s] \in {"new", "done", "aborted"}
    /\ \A t \in Threads : goal[t] # "analyze"

(* POST /scans: put_object, then create_scan. *)
UploadObject(s) ==
    /\ LoopFree /\ upc[s] = "new"
    /\ cacheObj' = cacheObj \cup {s}
    /\ upc' = [upc EXCEPT ![s] = "bucket"]
    /\ UNCHANGED <<cacheRow, cacheRes, durable, request, jobs, world, history>>

UploadBucket(s) ==
    /\ upc[s] = "bucket"
    /\ \/ Works /\ bucket' = bucket \cup {s} /\ UNCHANGED lost
       \/ Fault /\ lost' = lost \cup {<<"object", s>>} /\ UNCHANGED bucket
    /\ upc' = [upc EXCEPT ![s] = "row"]
    /\ UNCHANGED <<cache, dbRow, dbRes, request, jobs, deleted>>

UploadRow(s) ==
    /\ upc[s] = "row"
    /\ cacheRow' = [cacheRow EXCEPT ![s] = [status |-> "uploaded", done |-> 0]]
    /\ upc' = [upc EXCEPT ![s] = "insert"]
    /\ UNCHANGED <<cacheRes, cacheObj, durable, request, jobs, world, history>>

UploadInsert(s) ==
    /\ upc[s] = "insert"
    /\ \/ Works /\ dbRow' = [dbRow EXCEPT ![s] = [status |-> "uploaded", done |-> 0]]
                /\ UNCHANGED lost
       \/ Fault /\ lost' = lost \cup {<<"row", s>>} /\ UNCHANGED dbRow
    /\ upc' = [upc EXCEPT ![s] = "done"]
    /\ UNCHANGED <<cache, dbRes, bucket, request, jobs, deleted>>

-----------------------------------------------------------------------------
(* Requests.  Each one but LIST starts with get_scan.                      *)

To(t, p) == pc' = [pc EXCEPT ![t] = p]
(* The request has answered; its local variables are gone. *)
Return(t) ==
    /\ To(t, "idle")
    /\ goal' = [goal EXCEPT ![t] = "none"] /\ scan' = [scan EXCEPT ![t] = NoScan]
    /\ snap' = [snap EXCEPT ![t] = NoRow] /\ page' = [page EXCEPT ![t] = NoRows]
    /\ sweep' = [sweep EXCEPT ![t] = {}]
locals == <<goal, scan, snap, page, sweep>>

(* A client calls with an id it was given by an upload. *)
Call(t, s, g) ==
    /\ pc[t] = "idle" /\ jpc[t] = "none"
    /\ upc[s] = "done"
    /\ g = "analyze" => LoopFree
    /\ To(t, "get")
    /\ goal' = [goal EXCEPT ![t] = g] /\ scan' = [scan EXCEPT ![t] = s]
    /\ UNCHANGED <<cache, durable, upc, snap, page, sweep, jobs, world, history>>

(* What a handler does with the row get_scan has returned. *)
Got(t, r) ==
    \/ goal[t] = "status" /\ Return(t) /\ UNCHANGED deleted
    \/ goal[t] = "summary" /\ To(t, "result") /\ UNCHANGED <<locals, deleted>>
    \/ /\ goal[t] \in {"delete", "remove"}
       /\ To(t, "popObject")
       /\ deleted' = deleted \cup {scan[t]}
       /\ UNCHANGED locals
    \/ /\ goal[t] = "analyze"
       /\ IF r.status \in {"parsing", "complete"}
            THEN Return(t)                                  \* 409, or complete
            ELSE To(t, "object") /\ UNCHANGED locals
       /\ UNCHANGED deleted

(* get_scan: the cached row, or a select and then, under the lock taken    *)
(* afresh, the row that select has returned.                               *)
GetCached(t) ==
    /\ pc[t] = "get" /\ cacheRow[scan[t]] # NoRow
    /\ Got(t, cacheRow[scan[t]])
    /\ UNCHANGED <<cache, durable, upc, jobs, world, lost>>

GetMissed(t) ==
    /\ pc[t] = "get" /\ cacheRow[scan[t]] = NoRow
    /\ To(t, "select")
    /\ UNCHANGED <<cache, durable, upc, locals, jobs, world, history>>

GetSelect(t) ==
    /\ pc[t] = "select"
    /\ \/ /\ Works /\ dbRow[scan[t]] # NoRow
          /\ To(t, "fill") /\ snap' = [snap EXCEPT ![t] = dbRow[scan[t]]]
          /\ UNCHANGED <<goal, scan, page, sweep>>
       \/ Works /\ dbRow[scan[t]] = NoRow /\ Return(t)                \* 404
       \/ Fault /\ Return(t)                                          \* 404
    /\ UNCHANGED <<cache, durable, upc, jobs, history>>

GetFill(t) ==
    /\ pc[t] = "fill"
    /\ cacheRow' = [cacheRow EXCEPT ![scan[t]] = snap[t]]
    /\ Got(t, snap[t])
    /\ UNCHANGED <<cacheRes, cacheObj, durable, upc, jobs, world, lost>>

(* get_result, for every GET that serves a view of the result. *)
GetResult(t) ==
    /\ pc[t] = "result"
    /\ \/ scan[t] \in cacheRes /\ Works /\ Return(t)
       \/ /\ scan[t] \notin cacheRes /\ scan[t] \in dbRes
          /\ Works /\ To(t, "fillResult") /\ UNCHANGED locals
       \/ scan[t] \notin cacheRes \cup dbRes /\ Works /\ Return(t)    \* 409
       \/ scan[t] \notin cacheRes /\ Fault /\ Return(t)               \* 409
    /\ UNCHANGED <<cache, durable, upc, jobs, history>>

FillResult(t) ==
    /\ pc[t] = "fillResult"
    /\ cacheRes' = cacheRes \cup {scan[t]}
    /\ Return(t)
    /\ UNCHANGED <<cacheRow, cacheObj, durable, upc, jobs, world, history>>

-----------------------------------------------------------------------------
(* DELETE: delete_object, then delete_scan, which asks for the row again,  *)
(* deletes the object again, and drops the cached and the stored rows.     *)

PopObject(t) ==
    /\ pc[t] = "popObject"
    /\ cacheObj' = cacheObj \ {scan[t]}
    /\ To(t, "removeObject")
    /\ UNCHANGED <<cacheRow, cacheRes, durable, upc, locals, jobs, world, history>>

RemoveObject(t) ==
    /\ pc[t] = "removeObject"
    /\ \/ Works /\ bucket' = bucket \ {scan[t]}
       \/ Fault /\ UNCHANGED bucket
    /\ IF goal[t] = "delete"
         THEN To(t, "get") /\ goal' = [goal EXCEPT ![t] = "remove"]
         ELSE To(t, "dropCache") /\ UNCHANGED goal
    /\ UNCHANGED <<cache, dbRow, dbRes, upc, scan, snap, page, sweep, jobs, history>>

DropCache(t) ==
    /\ pc[t] = "dropCache"
    /\ cacheRow' = [cacheRow EXCEPT ![scan[t]] = NoRow]
    /\ IF cacheRow[scan[t]] = NoRow
         THEN UNCHANGED <<cacheRes, cacheObj>>
         ELSE cacheRes' = cacheRes \ {scan[t]} /\ cacheObj' = cacheObj \ {scan[t]}
    /\ To(t, "dropRow")
    /\ UNCHANGED <<durable, upc, locals, jobs, world, history>>

(* Mutant: the statement deletes the result and leaves the row. *)
DropResultOnly(t) ==
    /\ pc[t] = "dropRow"
    /\ dbRes' = dbRes \ {scan[t]}
    /\ Works /\ Return(t)
    /\ UNCHANGED <<cache, dbRow, bucket, upc, jobs, history>>

(* scan_results goes with the row: on delete cascade. *)
DropRow(t) ==
    /\ pc[t] = "dropRow"
    /\ \/ /\ Works
          /\ dbRow' = [dbRow EXCEPT ![scan[t]] = NoRow] /\ dbRes' = dbRes \ {scan[t]}
       \/ Fault /\ UNCHANGED <<dbRow, dbRes>>
    /\ Return(t)
    /\ UNCHANGED <<cache, bucket, upc, jobs, history>>

-----------------------------------------------------------------------------
(* POST /scans/{id}/analyze, after the status check.                       *)

GetObject(t) ==
    /\ pc[t] = "object"
    /\ To(t, IF scan[t] \in cacheObj THEN "submit" ELSE "download")
    /\ UNCHANGED <<cache, durable, upc, locals, jobs, world, history>>

Download(t) ==
    /\ pc[t] = "download"
    /\ \/ Works /\ scan[t] \in bucket /\ To(t, "fillObject") /\ UNCHANGED locals
       \/ Works /\ scan[t] \notin bucket /\ Return(t)                 \* 410
       \/ Fault /\ Return(t)                                          \* 410
    /\ UNCHANGED <<cache, durable, upc, jobs, history>>

FillObject(t) ==
    /\ pc[t] = "fillObject"
    /\ cacheObj' = cacheObj \cup {scan[t]}
    /\ To(t, "submit")
    /\ UNCHANGED <<cacheRow, cacheRes, durable, upc, locals, jobs, world, history>>

Submit(t) ==
    /\ pc[t] = "submit"
    /\ jpc' = [jpc EXCEPT ![t] = "start"] /\ jscan' = [jscan EXCEPT ![t] = scan[t]]
    /\ To(t, "mark")
    /\ UNCHANGED <<cache, durable, upc, locals, world, history>>

Mark(t) ==
    /\ pc[t] = "mark"
    /\ UpdateCache(scan[t], Parsing(cacheRow[scan[t]]))
    /\ To(t, "markDb")
    /\ UNCHANGED <<upc, locals, jobs, world, history>>

MarkDb(t) ==
    /\ pc[t] = "markDb"
    /\ UpdateDb(scan[t], Parsing(dbRow[scan[t]]))
    /\ Return(t)
    /\ UNCHANGED <<upc, jobs, history>>

-----------------------------------------------------------------------------
(* _run_sync on a worker thread: each write to the cache, then the         *)
(* database.  Progress reports write no column the properties look at.     *)

JobTo(t, p) == jpc' = [jpc EXCEPT ![t] = p] /\ UNCHANGED jscan
JobEnds(t) == jpc' = [jpc EXCEPT ![t] = "none"] /\ jscan' = [jscan EXCEPT ![t] = NoScan]

JobStart(t) ==
    /\ jpc[t] = "start"
    /\ UpdateCache(jscan[t], Parsing(cacheRow[jscan[t]])) /\ JobTo(t, "startDb")
    /\ UNCHANGED <<upc, request, world, history>>

JobStartDb(t) ==
    /\ jpc[t] = "startDb"
    /\ UpdateDb(jscan[t], Parsing(dbRow[jscan[t]])) /\ JobTo(t, "result")
    /\ UNCHANGED <<upc, request, history>>

(* Mutant: the final status is written in a finally clause. *)
JobRaiseFinishes(t) ==
    /\ jpc[t] = "result"
    /\ JobTo(t, "finish")
    /\ UNCHANGED <<cache, durable, upc, request, world, history>>

(* The pipeline raises. *)
JobRaise(t) ==
    /\ jpc[t] = "result"
    /\ JobTo(t, "fail")
    /\ UNCHANGED <<cache, durable, upc, request, world, history>>

(* Mutant: put_result is not overridden, and only the cache has the result. *)
JobResultCached(t) ==
    /\ jpc[t] = "result"
    /\ cacheRes' = cacheRes \cup {jscan[t]} /\ JobTo(t, "finish")
    /\ UNCHANGED <<cacheRow, cacheObj, durable, upc, request, world, history>>

JobResult(t) ==
    /\ jpc[t] = "result"
    /\ cacheRes' = cacheRes \cup {jscan[t]} /\ JobTo(t, "resultDb")
    /\ UNCHANGED <<cacheRow, cacheObj, durable, upc, request, world, history>>

(* An upsert for a scan without a row breaks the foreign key and fails.    *)
JobResultDb(t) ==
    /\ jpc[t] = "resultDb"
    /\ \/ /\ Works /\ dbRow[jscan[t]] # NoRow
          /\ dbRes' = dbRes \cup {jscan[t]} /\ UNCHANGED lost
       \/ Works /\ dbRow[jscan[t]] = NoRow /\ UNCHANGED <<dbRes, lost>>
       \/ Fault /\ lost' = lost \cup {<<"result", jscan[t]>>} /\ UNCHANGED dbRes
    /\ JobTo(t, "finish")
    /\ UNCHANGED <<cache, dbRow, bucket, upc, request, deleted>>

JobFinish(t) ==
    /\ jpc[t] = "finish"
    /\ UpdateCache(jscan[t], Complete(cacheRow[jscan[t]])) /\ JobTo(t, "finishDb")
    /\ UNCHANGED <<upc, request, world, history>>

JobFinishDb(t) ==
    /\ jpc[t] = "finishDb"
    /\ UpdateDb(jscan[t], Complete(dbRow[jscan[t]])) /\ JobEnds(t)
    /\ UNCHANGED <<upc, request, history>>

JobFail(t) ==
    /\ jpc[t] = "fail"
    /\ UpdateCache(jscan[t], Failed(cacheRow[jscan[t]])) /\ JobTo(t, "failDb")
    /\ UNCHANGED <<upc, request, world, history>>

JobFailDb(t) ==
    /\ jpc[t] = "failDb"
    /\ UpdateDb(jscan[t], Failed(dbRow[jscan[t]])) /\ JobEnds(t)
    /\ UNCHANGED <<upc, request, history>>

-----------------------------------------------------------------------------
(* GET /scans and the health probe: list_scans, then the clean-up.         *)

ListBegin(t) ==
    /\ pc[t] = "idle" /\ jpc[t] = "none"
    /\ To(t, "list")
    /\ UNCHANGED <<cache, durable, upc, locals, jobs, world, history>>

(* The limit and offset decide which rows are on the page. *)
ListSelect(t) ==
    /\ pc[t] = "list"
    /\ \/ /\ Works
          /\ \E ids \in SUBSET {s \in Scans : dbRow[s] # NoRow} :
               page' = [page EXCEPT ![t] =
                           [s \in Scans |-> IF s \in ids THEN dbRow[s] ELSE NoRow]]
          /\ To(t, "count") /\ UNCHANGED <<goal, scan, snap, sweep>>
       \/ Fault /\ Return(t)
    /\ UNCHANGED <<cache, durable, upc, jobs, history>>

(* The count is a second query; then the page replaces the cached rows. *)
ListOverwrite(t) ==
    /\ pc[t] = "count"
    /\ \/ /\ Works
          /\ cacheRow' = [s \in Scans |-> IF page[t][s] = NoRow THEN cacheRow[s] ELSE page[t][s]]
          /\ To(t, "cleanup") /\ page' = [page EXCEPT ![t] = NoRows]
          /\ UNCHANGED <<goal, scan, snap, sweep>>
       \/ Fault /\ UNCHANGED cacheRow /\ Return(t)
    /\ UNCHANGED <<cacheRes, cacheObj, durable, upc, jobs, history>>

(* Mutant: a clean-up that goes by age alone. *)
IsStored(s) == dbRow[s] # NoRow
IsComplete(s) == dbRow[s] # NoRow /\ dbRow[s].status = "complete"
Expired(s) == IsComplete(s) /\ clock - dbRow[s].done >= Retention

(* The rows the query returns: the CleanupLimit that completed first.      *)
Oldest(ids) ==
    /\ ids \subseteq {s \in Scans : IsComplete(s)}
    /\ Cardinality(ids) <= CleanupLimit
    /\ Cardinality(ids) < CleanupLimit => ids = {s \in Scans : IsComplete(s)}
    /\ \A s \in ids, u \in Scans \ ids : IsComplete(u) => dbRow[s].done <= dbRow[u].done

CleanupSelect(t) ==
    /\ pc[t] = "cleanup"
    /\ \/ /\ Works
          /\ \E ids \in SUBSET Scans :
               /\ Oldest(ids)
               /\ LET old == {s \in ids : Expired(s)} IN
                  IF old = {} THEN Return(t)
                  ELSE /\ To(t, "pop") /\ sweep' = [sweep EXCEPT ![t] = old]
                       /\ UNCHANGED <<goal, scan, snap, page>>
       \/ Fault /\ Return(t)
    /\ UNCHANGED <<cache, durable, upc, jobs, history>>

SweepPop(t) ==
    /\ pc[t] = "pop"
    /\ \E s \in sweep[t] :
         /\ scan' = [scan EXCEPT ![t] = s]
         /\ cacheObj' = cacheObj \ {s}
    /\ To(t, "remove")
    /\ UNCHANGED <<cacheRow, cacheRes, durable, upc, goal, snap, page, sweep, jobs, world, history>>

(* Mutant: the loop returns after its first object. *)
SweepOne(t) ==
    /\ pc[t] = "remove"
    /\ \/ Works /\ bucket' = bucket \ {scan[t]}
       \/ Fault /\ UNCHANGED bucket
    /\ Return(t)
    /\ UNCHANGED <<cache, dbRow, dbRes, upc, jobs, history>>

SweepRemove(t) ==
    /\ pc[t] = "remove"
    /\ \/ Works /\ bucket' = bucket \ {scan[t]}
       \/ Fault /\ UNCHANGED bucket
    /\ IF sweep[t] = {scan[t]}
         THEN Return(t)
         ELSE /\ To(t, "pop") /\ sweep' = [sweep EXCEPT ![t] = @ \ {scan[t]}]
              /\ scan' = [scan EXCEPT ![t] = NoScan]
              /\ UNCHANGED <<goal, snap, page>>
    /\ UNCHANGED <<cache, dbRow, dbRes, upc, jobs, history>>

-----------------------------------------------------------------------------
(* The process dies, and the next request finds a fresh one. *)
Crash ==
    /\ crashes < MaxCrashes /\ crashes' = crashes + 1
    /\ cacheRow' = NoRows /\ cacheRes' = {} /\ cacheObj' = {}
    /\ upc' = [s \in Scans |-> IF upc[s] \in {"new", "done"} THEN upc[s] ELSE "aborted"]
    /\ pc' = [t \in Threads |-> "idle"] /\ goal' = [t \in Threads |-> "none"]
    /\ scan' = [t \in Threads |-> NoScan] /\ snap' = [t \in Threads |-> NoRow]
    /\ page' = [t \in Threads |-> NoRows] /\ sweep' = [t \in Threads |-> {}]
    /\ jpc' = [t \in Threads |-> "none"] /\ jscan' = [t \in Threads |-> NoScan]
    /\ UNCHANGED <<durable, clock, faults, history>>

TimePasses ==
    /\ clock < MaxClock /\ clock' = clock + 1
    /\ UNCHANGED <<cache, durable, upc, request, jobs, faults, crashes, history>>

Upload(s) == UploadObject(s) \/ UploadBucket(s) \/ UploadRow(s) \/ UploadInsert(s)

Request(t) ==
    \/ GetCached(t) \/ GetMissed(t) \/ GetSelect(t) \/ GetFill(t)
    \/ GetResult(t) \/ FillResult(t)
    \/ PopObject(t) \/ RemoveObject(t) \/ DropCache(t) \/ DropRow(t)
    \/ GetObject(t) \/ Download(t) \/ FillObject(t) \/ Submit(t) \/ Mark(t) \/ MarkDb(t)

List(t) ==
    \/ ListSelect(t) \/ ListOverwrite(t) \/ CleanupSelect(t)
    \/ SweepPop(t) \/ SweepRemove(t)

Job(t) ==
    \/ JobStart(t) \/ JobStartDb(t) \/ JobRaise(t) \/ JobResult(t) \/ JobResultDb(t)
    \/ JobFinish(t) \/ JobFinishDb(t) \/ JobFail(t) \/ JobFailDb(t)

Next ==
    \/ \E s \in Scans : Upload(s)
    \/ \E t \in Threads, s \in Scans, g \in Goals \ {"none", "remove"} : Call(t, s, g)
    \/ \E t \in Threads : ListBegin(t) \/ Request(t) \/ List(t) \/ Job(t)
    \/ Crash
    \/ TimePasses

(* Threads run; and LIST keeps being called: the dashboard polls it and a  *)
(* cron job calls the health probe, which lists one row, every 10 minutes. *)
Fairness ==
    /\ \A t \in Threads : WF_vars(Request(t)) /\ WF_vars(List(t)) /\ WF_vars(Job(t))
    /\ \A t \in Threads : SF_vars(ListBegin(t))

Safety == Init /\ [][Next]_vars
Spec == Safety /\ Fairness

-----------------------------------------------------------------------------
(* A row in the database that says "complete" has its result there, over   *)
(* crashes, failed calls and racing refreshes, unless the one write of the *)
(* result failed.  So a restarted process can serve the scan.              *)
DurableResult ==
    \A s \in Scans : IsComplete(s) => s \in dbRes \/ <<"result", s>> \in lost

(* Whichever copy of the row a reader is given, a "complete" scan that was *)
(* not deleted has its result in the cache or in the database: GET         *)
(* /summary after a restart, a page refresh or a read-through does not     *)
(* answer 409.                                                             *)
ServedComplete ==
    \A s \in Scans \ deleted :
        cacheRow[s] # NoRow /\ cacheRow[s].status = "complete" =>
            s \in cacheRes \cup dbRes \/ <<"result", s>> \in lost

(* A capture that is still to be analysed is never swept: only DELETE or a *)
(* failed upload can leave an uploaded scan without its bytes.             *)
CaptureKept ==
    \A s \in Scans \ deleted :
        dbRow[s] # NoRow /\ dbRow[s].status = "uploaded" =>
            s \in bucket \/ <<"object", s>> \in lost

(* The inductive invariant behind the three: what a request, a job, a page *)
(* or a sweep holds between two of its steps still goes together with what *)
(* the database and the bucket have, whatever the others did meanwhile.    *)

(* Only what an upload has finished is called for, analysed, swept, stored *)
(* as a row: no row is inserted behind a job's back.                       *)
WithoutScan == {"idle", "list", "count", "cleanup", "pop"}
Uploaded ==
    /\ \A t \in Threads : jpc[t] # "none" => jscan[t] \in Scans /\ upc[jscan[t]] = "done"
    /\ \A t \in Threads : pc[t] \notin WithoutScan =>
                            scan[t] \in Scans /\ upc[scan[t]] = "done"
    /\ \A t \in Threads : \A s \in sweep[t] : upc[s] = "done"
    /\ \A s \in Scans : dbRow[s] # NoRow => upc[s] = "done"

(* A DELETE that takes something away has been accepted.                   *)
DeletesKnown ==
    \A t \in Threads : pc[t] \in {"popObject", "removeObject", "dropCache", "dropRow"} =>
                            scan[t] \in deleted

ResultStored(s) == s \in dbRes \/ <<"result", s>> \in lost

(* A job past put_result left a result in the cache, until a DELETE, and   *)
(* one with the row, unless the write failed.                              *)
JobsKeepResults ==
    \A t \in Threads :
        /\ jpc[t] \in {"resultDb", "finish", "finishDb"} => jscan[t] \in cacheRes \cup deleted
        /\ jpc[t] \in {"finish", "finishDb"} =>
               dbRow[jscan[t]] = NoRow \/ ResultStored(jscan[t])

(* A row that was read and is not yet in the cache.                        *)
CopiesStored ==
    \A t \in Threads :
        /\ pc[t] = "fill" /\ snap[t] # NoRow /\ snap[t].status = "complete" =>
               scan[t] \in deleted \/ ResultStored(scan[t])
        /\ \A s \in Scans \ deleted :
               page[t][s] # NoRow /\ page[t][s].status = "complete" => ResultStored(s)

(* What is swept has been analysed, and what is uploaded has its bytes.    *)
SweptAnalysed ==
    \A t \in Threads :
        /\ pc[t] = "remove" => scan[t] \in sweep[t]
        /\ \A s \in sweep[t] : dbRow[s] = NoRow \/ dbRow[s].status # "uploaded"
CaptureFirst ==
    \A s \in Scans \ deleted :
        upc[s] \in {"row", "insert"} => s \in bucket \/ <<"object", s>> \in lost

StoreInv ==
    /\ TypeOK /\ Uploaded /\ DeletesKnown
    /\ JobsKeepResults /\ DurableResult /\ CopiesStored /\ ServedComplete
    /\ SweptAnalysed /\ CaptureFirst /\ CaptureKept

(* docs/ARCHITECTURE.md:29: pcap bytes are deleted about 24 h after a scan *)
(* completes, by the clean-up that rides on list requests.                 *)
RetentionHonoured ==
    \A s \in Scans : Expired(s) /\ s \in bucket ~> ~(Expired(s) /\ s \in bucket)
=============================================================================
