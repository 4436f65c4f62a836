-------------------------- MODULE AnalysisService --------------------------
(***************************************************************************)
(* The analysis service of the backend in one process, over LocalStore:    *)
(* the HTTP handlers of routers/scans.py, the admission semaphore of       *)
(* deps.py, the bounded executor and worker thread of worker.py, and the   *)
(* rows, results and capture bytes of db/client.py.                        *)
(*                                                                         *)
(* Three kinds of actor take steps.  `async def` handlers run on the event *)
(* loop: between two awaits nothing else runs on the loop, but worker      *)
(* threads and the thread-pool DELETE handler run at any point.  The       *)
(* semaphore is an asyncio.Semaphore, whose release() is called from a     *)
(* worker thread although its methods expect the loop; they are split      *)
(* where the interpreter may switch threads, after the calls they make.    *)
(***************************************************************************)
EXTENDS Integers, Sequences, FiniteSets, SequencesExt

CONSTANTS
    Scans,      \* scan ids, fresh uuids: an id is uploaded once
    NoScan,     \* a handler or job slot with no scan
    Requests,   \* slots for calls of POST /analyze, reused once idle
    Deleters,   \* slots for calls of DELETE, reused once idle
    Slots,      \* settings.max_concurrent_analyses
    Ticks,      \* the progress values the pipeline reports, in order
    MaxLost     \* bound: nobody calls any more once so many slots are lost

ASSUME ScansAssumption == NoScan \notin Scans
ASSUME RequestsAssumption == IsFiniteSet(Requests)
ASSUME SlotsAssumption == Slots \in Nat \ {0}
ASSUME TicksAssumption == Ticks \in Seq(2 .. 99)
ASSUME MaxLostAssumption == MaxLost \in Nat

VARIABLES
    live,       \* ids in LocalStore.scans
    row,        \* the row dict of an id; frozen once the id leaves `live`
    results,    \* ids in LocalStore.results
    objects,    \* ids whose capture bytes are in LocalStore.objects
    value,      \* Semaphore._value
    waiters,    \* Semaphore._waiters: the requests whose futures are queued
    woken,      \* those whose future is done and that have not resumed
    picked,     \* what a thread found in _wake_up_next: the waiter whose
                \* future is pending, or nobody once that future is done
    lost,       \* history: slots gone with an error of set_result
    hpc,        \* where the /analyze handler of a request is
    target,     \* the scan_id a handler was called with
    jpc,        \* where the job a request submitted is
    jtarget,    \* the scan_id the job was given
    jtick,      \* how many progress values the job has reported
    execq,      \* the executor's work queue
    down,       \* the executor was shut down and takes no more work
    dpc,        \* where a DELETE handler is
    dtarget     \* the scan it deletes

store == <<live, row, results, objects>>
sem == <<value, waiters, woken, picked, lost>>
handlers == <<hpc, target>>
jobs == <<jpc, jtarget, jtick, execq, down>>
deletes == <<dpc, dtarget>>
vars == <<store, sem, handlers, jobs, deletes>>

Status == {"none", "uploaded", "parsing", "complete", "failed"}
Row == [status : Status, progress : 0 .. 100, error : BOOLEAN]

(* hpc: the point of analyze() / start_analysis() a handler has reached.   *)
HandlerState == {"idle", "checked", "fetch", "acquire", "enqueue", "waiting",
                 "rewake", "repick", "regrant", "submit", "mark",
                 "undo", "undowake", "undogrant"}
(* A handler that is idle or suspended in `await fut` leaves the loop free.*)
LoopFree == \A r \in Requests : hpc[r] \in {"idle", "waiting"}

(* jpc: the point of _release_and_run() / _run_sync() a job has reached.   *)
JobState == {"none", "queued", "start", "run", "finish", "fail", "release", "wake", "grant"}
OnThread == {r \in Requests : jpc[r] \notin {"none", "queued"}}

TypeOK ==
    /\ live \subseteq Scans
    /\ row \in [Scans -> Row]
    /\ results \subseteq Scans
    /\ objects \subseteq Scans
    /\ value \in Int
    /\ waiters \in Seq(Requests)
    /\ woken \subseteq Requests
    /\ picked \in [Requests -> SUBSET Requests]
    /\ lost \in Nat
    /\ hpc \in [Requests -> HandlerState]
    /\ target \in [Requests -> Scans \cup {NoScan}]
    /\ jpc \in [Requests -> JobState]
    /\ jtarget \in [Requests -> Scans \cup {NoScan}]
    /\ jtick \in [Requests -> 0 .. Len(Ticks)]
    /\ execq \in Seq(Requests)
    /\ down \in BOOLEAN
    /\ dpc \in [Deleters -> {"idle", "object", "scan"}]
    /\ dtarget \in [Deleters -> Scans \cup {NoScan}]

Init ==
    /\ live = {} /\ results = {} /\ objects = {}
    /\ row = [s \in Scans |-> [status |-> "none", progress |-> 0, error |-> FALSE]]
    /\ value = Slots /\ waiters = <<>> /\ woken = {}
    /\ picked = [r \in Requests |-> {}] /\ lost = 0
    /\ hpc = [r \in Requests |-> "idle"]
    /\ target = [r \in Requests |-> NoScan]
    /\ jpc = [r \in Requests |-> "none"]
    /\ jtarget = [r \in Requests |-> NoScan]
    /\ jtick = [r \in Requests |-> 0]
    /\ execq = <<>> /\ down = FALSE
    /\ dpc = [d \in Deleters |-> "idle"]
    /\ dtarget = [d \in Deleters |-> NoScan]

-----------------------------------------------------------------------------
(* LocalStore.                                                             *)

(* update_scan(s, **fields): a no-op once the row is gone. *)
UpdateScan(s, r) == row' = IF s \in live THEN [row EXCEPT ![s] = r] ELSE row

(* POST /scans: put_object, then create_scan.  Nobody knows the new id     *)
(* before the handler returns and the handler holds the loop throughout.   *)
Upload(s) ==
    /\ LoopFree
    /\ row[s].status = "none"
    /\ live' = live \cup {s}
    /\ objects' = objects \cup {s}
    /\ row' = [row EXCEPT ![s] = [status |-> "uploaded", progress |-> 0, error |-> FALSE]]
    /\ UNCHANGED <<results, sem, handlers, jobs, deletes>>

(* DELETE, on a pool thread: the 404 check, then the two store calls.      *)
DeleteBegin(d, s) ==
    /\ dpc[d] = "idle"
    /\ s \in live
    /\ dpc' = [dpc EXCEPT ![d] = "object"]
    /\ dtarget' = [dtarget EXCEPT ![d] = s]
    /\ UNCHANGED <<store, sem, handlers, jobs>>

(* Mutant: the object goes together with the result, before the row. *)
DeleteObjectAndResult(d) ==
    /\ dpc[d] = "object"
    /\ objects' = objects \ {dtarget[d]}
    /\ results' = results \ {dtarget[d]}
    /\ dpc' = [dpc EXCEPT ![d] = "scan"]
    /\ UNCHANGED <<live, row, sem, handlers, jobs, dtarget>>

DeleteObject(d) ==
    /\ dpc[d] = "object"
    /\ objects' = objects \ {dtarget[d]}
    /\ dpc' = [dpc EXCEPT ![d] = "scan"]
    /\ UNCHANGED <<live, row, results, sem, handlers, jobs, dtarget>>

(* delete_scan drops row, result and objects under the lock; it does       *)
(* nothing when another DELETE was first.                                  *)
DeleteScan(d) ==
    /\ dpc[d] = "scan"
    /\ IF dtarget[d] \in live
         THEN /\ live' = live \ {dtarget[d]}
              /\ results' = results \ {dtarget[d]}
              /\ objects' = objects \ {dtarget[d]}
         ELSE UNCHANGED <<live, results, objects>>
    /\ dpc' = [dpc EXCEPT ![d] = "idle"]
    /\ dtarget' = [dtarget EXCEPT ![d] = NoScan]
    /\ UNCHANGED <<row, sem, handlers, jobs>>

-----------------------------------------------------------------------------
(* asyncio.Semaphore, Python 3.13.                                         *)

Locked == value = 0 \/ waiters # <<>>

(* _wake_up_next looks for the oldest future with `not fut.done()`; then,  *)
(* a switch of threads later, takes a slot for it and sets its result.     *)
NonePending == ToSet(waiters) \subseteq woken
OldestPending(w) ==
    \E k \in DOMAIN waiters :
        /\ w = waiters[k] /\ w \notin woken
        /\ \A n \in 1 .. k - 1 : waiters[n] \in woken

Pick(r) ==
    /\ \E w \in Requests : OldestPending(w) /\ picked' = [picked EXCEPT ![r] = {w}]
    /\ UNCHANGED <<value, waiters, woken, lost>>

(* `_value -= 1; fut.set_result(True)`.  Whoever else found this future    *)
(* pending holds a future that is done from now on.                        *)
SetResult(r) ==
    /\ picked[r] # {}
    /\ value' = value - 1
    /\ woken' = woken \cup picked[r]
    /\ picked' = [q \in Requests |-> picked[q] \ picked[r]]
    /\ UNCHANGED <<waiters, lost>>

(* InvalidStateError: the slot was taken first and nobody gets it.         *)
SetResultRaises(r, slots) ==
    /\ picked[r] = {}
    /\ value' = value - 1
    /\ lost' = lost + slots
    /\ UNCHANGED <<waiters, woken, picked>>

-----------------------------------------------------------------------------
(* POST /scans/{id}/analyze and start_analysis, on the event loop.         *)

GoTo(r, pc) == hpc' = [hpc EXCEPT ![r] = pc]

(* 404 and 409 "analysis already running" answer without a change. *)
Begin(r, s) ==
    /\ LoopFree
    /\ hpc[r] = "idle" /\ jpc[r] = "none" /\ lost < MaxLost
    /\ s \in live
    /\ row[s].status # "parsing"
    /\ target' = [target EXCEPT ![r] = s]
    /\ GoTo(r, "checked")
    /\ UNCHANGED <<store, sem, jobs, deletes>>

(* The second reading of the row, which a worker may have changed. *)
AlreadyComplete(r) ==
    /\ hpc[r] = "checked"
    /\ row[target[r]].status = "complete"
    /\ GoTo(r, "idle")
    /\ target' = [target EXCEPT ![r] = NoScan]
    /\ UNCHANGED <<store, sem, jobs, deletes>>

NotComplete(r) ==
    /\ hpc[r] = "checked"
    /\ row[target[r]].status # "complete"
    /\ GoTo(r, "fetch")
    /\ UNCHANGED <<store, sem, target, jobs, deletes>>

(* 410: the capture bytes are gone. *)
Gone(r) ==
    /\ hpc[r] = "fetch"
    /\ target[r] \notin objects
    /\ GoTo(r, "idle")
    /\ target' = [target EXCEPT ![r] = NoScan]
    /\ UNCHANGED <<store, sem, jobs, deletes>>

Fetch(r) ==
    /\ hpc[r] = "fetch"
    /\ target[r] \in objects
    /\ GoTo(r, "acquire")
    /\ UNCHANGED <<store, sem, target, jobs, deletes>>

AcquireFast(r) ==
    /\ hpc[r] = "acquire"
    /\ ~Locked
    /\ value' = value - 1
    /\ GoTo(r, "submit")
    /\ UNCHANGED <<store, waiters, woken, picked, lost, target, jobs, deletes>>

(* locked() said yes; the future is not in the deque yet. *)
AcquireSlow(r) ==
    /\ hpc[r] = "acquire"
    /\ Locked
    /\ GoTo(r, "enqueue")
    /\ UNCHANGED <<store, sem, target, jobs, deletes>>

Enqueue(r) ==
    /\ hpc[r] = "enqueue"
    /\ waiters' = Append(waiters, r)
    /\ GoTo(r, "waiting")
    /\ UNCHANGED <<store, value, woken, picked, lost, target, jobs, deletes>>

(* `_waiters.remove(fut)`.  Two threads that set results may schedule the  *)
(* callbacks in the other order, and a future that is done before it is    *)
(* awaited needs none: not always the oldest goes on first.                *)
Resume(r) ==
    /\ LoopFree
    /\ r \in woken
    /\ \E k \in DOMAIN waiters : waiters[k] = r /\ waiters' = RemoveAt(waiters, k)
    /\ woken' = woken \ {r}
    /\ GoTo(r, "rewake")
    /\ UNCHANGED <<store, value, picked, lost, target, jobs, deletes>>

(* `while self._value > 0`: pass spare slots on before leaving acquire(). *)
Rewake(r) ==
    /\ hpc[r] = "rewake" /\ value > 0
    /\ GoTo(r, "repick")
    /\ UNCHANGED <<store, sem, target, jobs, deletes>>

Repick(r) ==
    /\ hpc[r] = "repick"
    /\ Pick(r)
    /\ GoTo(r, "regrant")
    /\ UNCHANGED <<store, target, jobs, deletes>>

Regrant(r) ==
    /\ hpc[r] = "regrant"
    /\ SetResult(r)
    /\ GoTo(r, "rewake")
    /\ UNCHANGED <<store, target, jobs, deletes>>

(* The error leaves acquire() and start_analysis, which is not yet in its  *)
(* `try`: the slot this call was woken with is not given back either.      *)
RegrantRaises(r) ==
    /\ hpc[r] = "regrant"
    /\ SetResultRaises(r, 2)
    /\ GoTo(r, "idle")
    /\ target' = [target EXCEPT ![r] = NoScan]
    /\ UNCHANGED <<store, jobs, deletes>>

Resumed(r) ==
    /\ \/ hpc[r] = "rewake" /\ value <= 0
       \/ hpc[r] = "repick" /\ NonePending
    /\ GoTo(r, "submit")
    /\ UNCHANGED <<store, sem, target, jobs, deletes>>

Submit(r) ==
    /\ hpc[r] = "submit" /\ ~down
    /\ execq' = Append(execq, r)
    /\ jpc' = [jpc EXCEPT ![r] = "queued"]
    /\ jtarget' = [jtarget EXCEPT ![r] = target[r]]
    /\ GoTo(r, "mark")
    /\ UNCHANGED <<store, sem, target, jtick, down, deletes>>

(* Mutant: start_analysis without its except clause. *)
SubmitRefusedKeepsSlot(r) ==
    /\ hpc[r] = "submit"
    /\ down' = TRUE
    /\ GoTo(r, "idle")
    /\ target' = [target EXCEPT ![r] = NoScan]
    /\ UNCHANGED <<store, sem, jpc, jtarget, jtick, execq, deletes>>

(* run_in_executor raises, the executor having been shut down: release,    *)
(* re-raise.                                                               *)
SubmitRefused(r) ==
    /\ hpc[r] = "submit"
    /\ down' = TRUE
    /\ GoTo(r, "undo")
    /\ UNCHANGED <<store, sem, target, jpc, jtarget, jtick, execq, deletes>>

Undo(r) ==
    /\ hpc[r] = "undo"
    /\ value' = value + 1
    /\ GoTo(r, "undowake")
    /\ UNCHANGED <<store, waiters, woken, picked, lost, target, jobs, deletes>>

UndoPick(r) ==
    /\ hpc[r] = "undowake"
    /\ Pick(r)
    /\ GoTo(r, "undogrant")
    /\ UNCHANGED <<store, target, jobs, deletes>>

Undone(r) ==
    /\ \/ hpc[r] = "undowake" /\ NonePending /\ UNCHANGED sem
       \/ hpc[r] = "undogrant" /\ (SetResult(r) \/ SetResultRaises(r, 1))
    /\ GoTo(r, "idle")
    /\ target' = [target EXCEPT ![r] = NoScan]
    /\ UNCHANGED <<store, jobs, deletes>>

(* The handler's own write, after the job is already in the executor. *)
Mark(r) ==
    /\ hpc[r] = "mark"
    /\ UpdateScan(target[r], [status |-> "parsing", progress |-> 1, error |-> FALSE])
    /\ GoTo(r, "idle")
    /\ target' = [target EXCEPT ![r] = NoScan]
    /\ UNCHANGED <<live, results, objects, sem, jobs, deletes>>

-----------------------------------------------------------------------------
(* _release_and_run and _run_sync, on a worker thread.                     *)

JobTo(r, pc) == jpc' = [jpc EXCEPT ![r] = pc]

(* Mutant: the pool has one thread more than there are slots. *)
PickupWider(r) ==
    /\ execq # <<>> /\ r = Head(execq)
    /\ Cardinality(OnThread) <= Slots
    /\ execq' = Tail(execq)
    /\ JobTo(r, "start")
    /\ UNCHANGED <<store, sem, handlers, jtarget, jtick, down, deletes>>

(* A free thread of the pool takes the oldest work item. *)
Pickup(r) ==
    /\ execq # <<>> /\ r = Head(execq)
    /\ Cardinality(OnThread) < Slots
    /\ execq' = Tail(execq)
    /\ JobTo(r, "start")
    /\ UNCHANGED <<store, sem, handlers, jtarget, jtick, down, deletes>>

Start(r) ==
    /\ jpc[r] = "start"
    /\ UpdateScan(jtarget[r], [row[jtarget[r]] EXCEPT !.status = "parsing"])
    /\ JobTo(r, "run")
    /\ UNCHANGED <<live, results, objects, sem, handlers, jtarget, jtick, execq, down, deletes>>

(* The progress callback, called by analyze_pcap after each stage. *)
Progress(r) ==
    /\ jpc[r] = "run" /\ jtick[r] < Len(Ticks)
    /\ UpdateScan(jtarget[r], [row[jtarget[r]] EXCEPT !.progress = Ticks[jtick[r] + 1]])
    /\ jtick' = [jtick EXCEPT ![r] = @ + 1]
    /\ UNCHANGED <<live, results, objects, sem, handlers, jpc, jtarget, execq, down, deletes>>

(* The pipeline raises in any stage, before or after any of its reports. *)
Raise(r) ==
    /\ jpc[r] = "run"
    /\ JobTo(r, "fail")
    /\ UNCHANGED <<store, sem, handlers, jtarget, jtick, execq, down, deletes>>

(* Mutant: put_result does not store and _run_sync goes on. *)
PutResultLost(r) ==
    /\ jpc[r] = "run" /\ jtick[r] = Len(Ticks)
    /\ JobTo(r, "finish")
    /\ UNCHANGED <<store, sem, handlers, jtarget, jtick, execq, down, deletes>>

(* put_result does not look whether the scan still exists. *)
PutResult(r) ==
    /\ jpc[r] = "run" /\ jtick[r] = Len(Ticks)
    /\ results' = results \cup {jtarget[r]}
    /\ JobTo(r, "finish")
    /\ UNCHANGED <<live, row, objects, sem, handlers, jtarget, jtick, execq, down, deletes>>

Finish(r) ==
    /\ jpc[r] = "finish"
    /\ UpdateScan(jtarget[r], [row[jtarget[r]] EXCEPT !.status = "complete", !.progress = 100])
    /\ JobTo(r, "release")
    /\ UNCHANGED <<live, results, objects, sem, handlers, jtarget, jtick, execq, down, deletes>>

(* Mutant: the slot is released on success only, not in a `finally`. *)
FailKeepsSlot(r) ==
    /\ jpc[r] = "fail"
    /\ UpdateScan(jtarget[r], [row[jtarget[r]] EXCEPT !.status = "failed", !.error = TRUE])
    /\ UNCHANGED <<live, results, objects, sem, handlers, jobs, deletes>>

Fail(r) ==
    /\ jpc[r] = "fail"
    /\ UpdateScan(jtarget[r], [row[jtarget[r]] EXCEPT !.status = "failed", !.error = TRUE])
    /\ JobTo(r, "release")
    /\ UNCHANGED <<live, results, objects, sem, handlers, jtarget, jtick, execq, down, deletes>>

(* Semaphore.release() from the worker thread: `_value += 1`, then         *)
(* _wake_up_next(), with the loop running in between.                      *)
Release(r) ==
    /\ jpc[r] = "release"
    /\ value' = value + 1
    /\ JobTo(r, "wake")
    /\ UNCHANGED <<store, waiters, woken, picked, lost, handlers, jtarget, jtick, execq, down, deletes>>

WakePick(r) ==
    /\ jpc[r] = "wake"
    /\ Pick(r)
    /\ JobTo(r, "grant")
    /\ UNCHANGED <<store, handlers, jtarget, jtick, execq, down, deletes>>

JobOver(r) ==
    /\ JobTo(r, "none")
    /\ jtarget' = [jtarget EXCEPT ![r] = NoScan]
    /\ jtick' = [jtick EXCEPT ![r] = 0]
    /\ UNCHANGED <<store, handlers, execq, down, deletes>>

WakeNobody(r) == jpc[r] = "wake" /\ NonePending /\ UNCHANGED sem /\ JobOver(r)

(* "deque mutated during iteration": the loop takes a future that is done  *)
(* out of the deque, or appends one, while this thread has gone past it.   *)
WakeCut(r) == jpc[r] = "wake" /\ waiters # <<>> /\ Head(waiters) \in woken /\ UNCHANGED sem /\ JobOver(r)

(* Mutant: release() returns the slot and tells nobody. *)
WakeForgets(r) == jpc[r] = "grant" /\ UNCHANGED sem /\ JobOver(r)

Wake(r) == jpc[r] = "grant" /\ SetResult(r) /\ JobOver(r)

(* The executor keeps the error in a future nobody looks at.               *)
WakeRaises(r) == jpc[r] = "grant" /\ SetResultRaises(r, 1) /\ JobOver(r)

-----------------------------------------------------------------------------
Handler(r) ==
    \/ AlreadyComplete(r) \/ NotComplete(r) \/ Gone(r) \/ Fetch(r)
    \/ AcquireFast(r) \/ AcquireSlow(r) \/ Enqueue(r)
    \/ Resume(r) \/ Rewake(r) \/ Repick(r) \/ Regrant(r) \/ RegrantRaises(r) \/ Resumed(r)
    \/ Submit(r) \/ SubmitRefused(r) \/ Undo(r) \/ UndoPick(r) \/ Undone(r) \/ Mark(r)

Worker(r) ==
    \/ Pickup(r) \/ Start(r) \/ Progress(r) \/ Raise(r) \/ PutResult(r)
    \/ Finish(r) \/ Fail(r) \/ Release(r)
    \/ WakePick(r) \/ WakeNobody(r) \/ WakeCut(r) \/ Wake(r) \/ WakeRaises(r)

Deleter(d) == DeleteObject(d) \/ DeleteScan(d)

Next ==
    \/ \E s \in Scans : Upload(s)
    \/ \E r \in Requests, s \in Scans : Begin(r, s)
    \/ \E r \in Requests : Handler(r) \/ Worker(r)
    \/ \E d \in Deleters, s \in Scans : DeleteBegin(d, s)
    \/ \E d \in Deleters : Deleter(d)

(* The pool runs every queued item, the operating system every thread, and *)
(* a handler that has the loop goes on.  The loop takes callbacks from a   *)
(* FIFO queue, so a woken waiter gets its turn however many new calls      *)
(* arrive: strong fairness.  Nobody has to upload, ask or delete.          *)
Fairness ==
    /\ \A r \in Requests : WF_vars(Handler(r)) /\ SF_vars(Resume(r)) /\ WF_vars(Worker(r))
    /\ \A d \in Deleters : WF_vars(Deleter(d))

Safety == Init /\ [][Next]_vars
Spec == Safety /\ Fairness

-----------------------------------------------------------------------------
(* Properties the code has.                                                *)

(* Who has taken a slot and not yet given it back. *)
Holders == {r \in Requests :
               \/ hpc[r] \in {"rewake", "repick", "regrant", "submit", "undo"}
               \/ jpc[r] \in {"queued", "start", "run", "finish", "fail", "release"}}

(* Whatever path a request took (fast, queued, refused, failed) and        *)
(* however the loop and the worker threads interleave: free slots, slots   *)
(* handed to woken waiters, slots in use and slots lost to an error of     *)
(* set_result add up to the configured number.  No slot is made, and none  *)
(* is lost in any other way.                                               *)
SlotsAccounted == value + Cardinality(woken) + Cardinality(Holders) + lost = Slots

(* With a pool of one thread no slot is lost while the executor works: of  *)
(* the loop and that thread one at a time wakes somebody.  With the two of *)
(* the default (config.py) both threads may pick one future, see           *)
(* SetResultRaises.                                                        *)
OneSlotKept == Slots = 1 /\ ~down => lost = 0

(* A stored scan never says "complete" without its result: results are     *)
(* written before the status, and a DELETE that lands in between takes     *)
(* both, so GET /summary on a complete scan does not answer 409.           *)
ResultBeforeComplete ==
    \A s \in live : row[s].status = "complete" => s \in results

(* The semaphore's deque lists the suspended handlers, each exactly once.  *)
WaitQueueExact ==
    /\ ToSet(waiters) = {r \in Requests : hpc[r] = "waiting"}
    /\ IsInjective(waiters)

(* Only waiters are woken.  What a thread has picked is one waiter that no *)
(* other thread has woken since, or nobody.                                *)
PicksPending ==
    /\ woken \subseteq ToSet(waiters)
    /\ \A r \in Requests :
        /\ picked[r] \subseteq ToSet(waiters) \ woken
        /\ \A a, b \in picked[r] : a = b
        /\ picked[r] # {} => jpc[r] = "grant" \/ hpc[r] \in {"regrant", "undogrant"}

(* The executor's queue holds exactly the jobs no thread has taken, once.  *)
WorkQueueExact ==
    /\ ToSet(execq) = {r \in Requests : jpc[r] = "queued"}
    /\ IsInjective(execq)

(* A handler past its checks knows its scan, a job its own; a job exists   *)
(* only after its handler has submitted it.                                *)
Phases ==
    \A r \in Requests :
        /\ hpc[r] # "idle" => target[r] \in Scans
        /\ jpc[r] # "none" => jtarget[r] \in Scans
        /\ hpc[r] \notin {"idle", "mark"} => jpc[r] = "none"

(* An id is known to handlers and jobs only once it was uploaded, and a    *)
(* job about to write "complete" has stored its result unless the scan     *)
(* was deleted since.                                                      *)
ResultsFirst ==
    /\ \A s \in Scans : row[s].status = "none" =>
           /\ s \notin live
           /\ \A r \in Requests : target[r] # s /\ jtarget[r] # s
    /\ \A r \in Requests :
           jpc[r] = "finish" /\ jtarget[r] \in live => jtarget[r] \in results

(* No more threads than slots; with one slot and a working executor, the   *)
(* thread that wakes is the only one, and what it has picked stays pending.*)
OneWaker ==
    /\ IsFiniteSet(OnThread) /\ Cardinality(OnThread) <= Slots
    /\ Slots = 1 /\ ~down =>
           /\ lost = 0
           /\ \A r \in Requests :
                 /\ hpc[r] \notin {"repick", "regrant", "undo", "undowake", "undogrant"}
                 /\ jpc[r] = "grant" => picked[r] # {}

(* The inductive invariant: each action preserves the conjunction.         *)
ServiceInv ==
    /\ TypeOK /\ Phases /\ WaitQueueExact /\ WorkQueueExact /\ PicksPending
    /\ SlotsAccounted /\ OneWaker /\ ResultsFirst /\ ResultBeforeComplete

(* Every slot comes back: whether the analysis completes, raises, is       *)
(* refused by the executor, or its scan is deleted under it.               *)
SlotComesBack == \A r \in Requests : (r \in Holders) ~> (r \notin Holders)

(* Whoever waits while a slot is in use is served: each slot that comes    *)
(* back reaches the oldest waiter, and through it the next.                *)
WaiterServed ==
    \A r \in Requests :
        (hpc[r] = "waiting" /\ Holders # {}) ~> (hpc[r] # "waiting")

-----------------------------------------------------------------------------
(* What the messages and comments of the repository promise and the code   *)
(* does not keep: each is checked by a run that finds it violated.         *)

(* A job that will still write a final status. *)
Unfinished(s) == \E r \in Requests :
    jtarget[r] = s /\ jpc[r] \in {"queued", "start", "run", "finish", "fail"}

(* routers/scans.py:119: a scan in "parsing" is refused with "analysis     *)
(* already running", so an analysis of it is running.  The handler writes  *)
(* "parsing" after it has given the job away, and the job may be over.     *)
ParsingMeansRunning == \A s \in live : row[s].status = "parsing" => Unfinished(s)

(* The same message says that a second call does not start a second        *)
(* analysis.  The status is read before the handler waits for its slot.    *)
OneAnalysisPerScan ==
    \A r1, r2 \in Requests :
        jpc[r1] = "run" /\ jpc[r2] = "run" /\ jtarget[r1] = jtarget[r2] => r1 = r2

(* worker.py:6: "/analyze returns 202 immediately"; checked in the weaker  *)
(* form that the handler returns at all.  A release between locked() and   *)
(* the append of the future finds no waiter to wake.                       *)
EveryAnalyzeAnswered == \A r \in Requests : (hpc[r] # "idle") ~> (hpc[r] = "idle")
=============================================================================
