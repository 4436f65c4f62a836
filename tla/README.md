# TLA+ models of Prahari

Prahari takes packet captures of mail traffic, reconstructs the TCP and TLS
sessions in them and grades their cryptographic posture.  A Next.js front end
uploads captures and polls; a FastAPI process stores them, runs the analyses on
a bounded thread pool and serves the results; Supabase (Postgres and a storage
bucket) keeps rows, results and captures over restarts.

This directory holds TLA+ modules of the parts whose correctness depends on
order, failure and arithmetic, the TLC runs that check them, and proofs that
TLAPS checks.  Paths are relative to the repository; line numbers of every
modelled definition are in `PROJECT.json` ("map").

## 1. The system

| Component | Source | State | Operations | Talks to |
| --- | --- | --- | --- | --- |
| Scan endpoints | `backend/app/routers/scans.py` | none of its own | upload, list, get, delete, analyze, status, result views | store, worker |
| Admission and jobs | `backend/app/worker.py`, `deps.py` | asyncio semaphore, thread pool | `start_analysis`, `_release_and_run`, `_run_sync` | store, pipeline |
| In-memory store | `db/client.py` LocalStore | dicts `scans`, `results`, `objects`, one lock | create, get, list, update, delete, put/get result and object | |
| Persistent store | `db/client.py` SupabaseStore | the same dicts as a cache; rows, result rows, bucket | the same, read-through and write-through; clean-up | Supabase |
| Reports, statistics, health | `routers/reports.py`, `main.py` | none | read a result, list | store |
| Capture reading | `pipeline/ingest.py` | frame counter | packets of a pcap or pcapng file | dpkt |
| Reassembly | `pipeline/reassembly.py` | flow table, segments and flags per direction | `add_packet`, `add`, `reassemble` | |
| Sessions | `pipeline/protocols.py`, `sessions.py` | session records | `identify`, `build_session`, `_merge_tls` | TLS parser |
| TLS parser | `pipeline/tls_parser.py` | handshake buffer, handshake facts | `parse_stream` | |
| Certificates, rules | `pipeline/certificates.py`, `rules.py` | none | `analyze_chain`, `evaluate_session` | |
| Score | `pipeline/score.py`, `runner.py` | none | session and scan score, fusion, cross-session findings | classifier |
| Features, inference | `pipeline/features.py`, `ml_runtime/predict.py` | the loaded models | `extract`, `predict_risk`, `predict_anomaly` | runner |
| Report builder | `reports/builder.py` | none | JSON, HTML and PDF of a result | |
| Corpus | `scripts/gen_traffic.py`, `gen_certs.py`, `ml/train.py` | captures and certificates on disk | the scenarios of the tests, random sessions for training | |
| Front end | `frontend/lib/api.ts`, `app/(app)/scans/new/page.tsx` | items of the upload queue, poll timers | retry ladder, sequential upload, polling | endpoints |

### How they interact, and where that is hard

* `upload_scan` and `analyze` are coroutines: they run on the event loop, one at
  a time between two awaits, and their store calls block the loop.  The other
  endpoints are plain functions and run on threads of the framework.
  Analyses run on threads of their own pool.  All of them share one store.
* `analyze` reads the status, then waits for a slot, then submits the job, and
  only then writes `parsing`.  Other calls, the job itself and deletions come
  between any two of these.
* `sem.release()` is called from the worker threads, while `asyncio.Semaphore`
  is written for the loop's thread alone: between the look at a future and the
  write to it another thread may have done the same.
* Every `SupabaseStore` method changes the cache under the lock and the
  database after it; a failing database call is swallowed; `list_scans` writes
  rows into the cache that it read two queries earlier; and it carries the
  clean-up of old captures, as nothing else runs periodically.
* The host stops the process when idle, and jobs die with it.
* In the pipeline: 32-bit sequence numbers, lost and reordered segments, caps,
  messages split over records, swallowed exceptions, rounding at grade limits.
* The client repeats a request whose answer it did not see.

What makes each component correct:

* Admission: no slot is created, and none is lost but between two wake-ups at once; a call
  that waits is served; one analysis per scan; the final status is the last one
  written.
* Store: a complete row has its result, in the database too; a reader of a
  complete scan is served; captures go when they are to go and not before.
* Reassembly: the bytes served are a contiguous piece of the bytes sent, and
  whatever is missing is flagged.
* TLS parser: the facts do not depend on how messages are cut into records.
* Sessions and rules: a conversation is judged by its own packets, whatever else
  is in the capture and in which order it was captured; what a finding shows as
  evidence belongs to it.
* Score: bounded, a worse session counts more, unchanged by the models for a
  clean capture; host findings are exact.
* Result and report: features, counters, lists and findings, computed apart, do
  not contradict each other; a reader that pages sees every session once.
* Client: every picked file is uploaded once and its state told truly.

The full list of hazards, each at its line and with the properties aimed at it,
is "hazards" in `PROJECT.json`.

## 2. Modules

### AnalysisService: admission and jobs

The handler of `POST /scans/{id}/analyze`, the semaphore, the executor and the
job, with uploads and deletions, over the in-memory store.

| Variables | Code |
| --- | --- |
| `live`, `row`, `results`, `objects` | LocalStore: ids in `scans`, their status, progress and error, `results`, `objects` |
| `value`, `waiters`, `woken` | `Semaphore._value`, `_waiters`; the futures of the deque that are done and whose coroutine has not run yet |
| `picked`, `lost` | the future a thread in `_wake_up_next` has found pending; history: slots taken for a future that was done by then |
| `hpc`, `target` | where each call of `analyze` is, and its scan |
| `execq`, `down`, `jpc`, `jtarget`, `jtick` | the executor's queue; whether it was shut down; where each job is, its scan, its next progress report |
| `dpc`, `dtarget` | where each call of `delete_scan` is, and its scan |

One action is what runs between two points at which another thread or handler
can change what it reads.  Handlers advance only while the loop is free
(`LoopFree`): from the first line to the await, and from the await to the end,
a handler keeps the loop, but worker threads and deletions interleave with
every one of its store calls.  `acquire()` is modelled by its two paths: the
test of `locked()` and the decrement are one action, since no thread switch
falls between them (CPython switches threads at calls and backward jumps; a
tighter granularity would only add behaviours to the runs that look for
violations), while the test and the append of the future are two, because
creating the future is a call.  `SubmitRefused` is `run_in_executor` raising,
which it does once the pool is shut down, and from then on (`down`).  `analyze`
reads the status of the row twice (lines 118 and 120); a job may finish in
between, so these are two actions.

The semaphore is that of Python 3.13 (`runtime.txt`).  `release()` is three
steps, on a worker thread and in the handler of a refused submission alike:
`_value += 1` (`Release`, `Undo`); the walk over the deque to the first future
that is not done (`WakePick`, `UndoPick`; `Repick` for the loop at the end of
`acquire()`); and `_value -= 1` with `set_result` (`Wake`, `Undone`,
`Regrant`).  Between the last two, `fut.done()` returns, and any other thread
may run and set the result of that very future.  Then `set_result` raises with
the slot already taken (`SetResultRaises`): nobody holds it and nobody gives it
back, and where this happens inside `acquire()` the slot the handler was woken
with goes with it, since `start_analysis` is not in its `try` yet
(`RegrantRaises`).  `lost` counts these slots.  The walk itself raises when the
loop changes the deque under it (`WakeCut`); this loses a wake-up but no slot.
The callback that resumes a waiter is scheduled by `set_result`; which of two
waiters set by two threads goes on first is left open (`Resume`).

### ScanStore: cache, database, bucket

`SupabaseStore` with all methods, the handlers that call them, and the job.

| Variables | Code |
| --- | --- |
| `cacheRow`, `cacheRes`, `cacheObj` | the dicts inherited from LocalStore |
| `dbRow`, `dbRes`, `bucket` | `public.scans`, `public.scan_results`, the bucket `pcaps` |
| `upc` | where the upload of an id is: object to cache, object to bucket, row to cache, row to database |
| `pc`, `goal`, `scan`, `snap`, `page`, `sweep` | a request of any other kind: the step it is at, what it does after `get_scan`, its scan, and its local variables |
| `jpc`, `jscan` | the job it submitted |
| `clock`, `faults`, `crashes` | the environment |
| `lost`, `deleted` | history variables, read by properties only |

A row is its status and its completion time.  Cache steps and database steps
are separate actions, as the lock is released between them.  A database step
either works or raises (`Fault`); a call that raised has not been applied, and
one that was applied and then raised is the same as one that worked, since no
caller looks.  `scan_results` has a foreign key with `on delete cascade`: the
upsert for a deleted scan fails, and a deleted row takes its result along.
`Crash` empties the cache and forgets every request and job.  `Call` needs an
id whose upload has answered.  The semaphore is left to AnalysisService; here a
slot is always free.  Progress reports change a column no property looks at and
are left out.

Both modules model the same handlers at different depths: AnalysisService has
the semaphore and every interleaving of several calls, over a store that cannot
fail; ScanStore has the failing store and restarts, with few requests.

### HonestStream and DirectionStream: one direction of a TCP connection

`HonestStream` is what `reassembly.py` promises in its docstrings: of the bytes
captured it serves, once, the longest run from the lowest one, and says whether
there is more after a hole.  `DirectionStream` is the code: `add` with its cap,
and `reassemble` with one action per iteration of its loop.

| Variables | Code |
| --- | --- |
| `segments`, `total`, `truncated`, `incomplete`, `holeAt`, `buffer` | the fields of the dataclass |
| `todo`, `first`, `out`, `expected` | the locals of `reassemble`: the sorted segments not yet looked at, `segs[0]` before the sort, the bytearray, the next offset |
| `phase` | before `reassemble`, after its sort, after the first segment, at the `break` or the end of the loop, after it returned |
| `isn`, `packets` | the environment: the sender's initial sequence number, the bound on packets |
| `seen`, `kept` | history variables: bytes in any packet, and in those that passed the cap |

A byte is its position in what the sender sent, so a byte in the wrong place is
a wrong value.  The capture is any sequence of packets, each any piece of what
was sent: losses, repetitions, other cuts, overlaps and every order are there by
choice of the pieces; acknowledgements and the SYN have no bytes.  `add` takes
place before the first call of `reassemble`, which returns the same buffer from
then on; `pipeline/runner.py` and `sessions.py` use it in this order only.  The
stable sort is a choice of any segment of the lowest offset, which covers it.

Assumed of the sender: a repeated byte is the same byte, the bytes of one
direction are within half the sequence space (2 GiB, the cap is 4 MiB), and a
SYN carries no data.  `HonestStream.incomplete` is the flag once the stream is
served, as the code sets it a step before.

`LoopMatchesPipeline` compares the loop with `Reassemble` and `Incomplete` of the
module `Reassembly`, the functions of the segments that the analysis uses
(`Pipeline`, an instance of it): both get the same segments, and must serve the
same bytes and the same mark.

### TlsSession: from a connection's bytes to the facts of a session

`tls_parser.parse_stream` on the client's stream and on the server's, then
`sessions._merge_tls`.

| Variables | Code |
| --- | --- |
| `wire` | the environment: the messages, alerts and other records the two sides sent |
| `dir`, `left`, `started` | the stream being read, what of it is not yet in a record, and whether its first message has begun in the last record |
| `hs` | the pieces of messages in `hs_buf` from `pos` on |
| `over` | the record loop was left by a `break` or an exception |
| `info` | a `HandshakeInfo` for each stream, less the fields nothing reads |
| `sess` | the fields of `Session` that the merge sets |
| `split`, `short` | history: a message was cut in two; the capture ends early |

One action is one iteration of the loop over records or of the loop over
messages.  What was sent is given by the constant `Wires`; `ReadHandshakeRecord`
chooses how many messages a record holds and whether it ends inside one, and
`EndOfStream` where the capture ends, so every cut is explored for every
connection.  A message is its type and the few fields the report depends on.

After a message that was cut, and in an encrypted one, the code reads a message
header where there is none.  It then skips to the end of the buffer or to some
later message in it (`Misread`).  Assumed: those bytes do not happen to be a
type the parser knows with a length that fits.  For encrypted alerts this is not
assumed: the two bytes are read as level and description, whatever they are.

`ReportExact` promises the exact report when no message was cut in two, the
capture is whole, no stream was refused and both are TLS to their ends: then the
events of the session are the client's, in order, and then the server's; `NothingInvented` says what holds in
every case.  Of what was sent it is assumed that a side that encrypts its
handshake goes on encrypting it, and that a TLS 1.3 server encrypts its
certificate (`EncryptionAssumption`).  `SplitCertificateSeen`, a promise the code breaks, is a run of its
own.

`ParserMatchesPipeline` compares the parser with `ParseStream` and `MergeTls` of
`TlsStreams`, which the analysis uses (`Pipeline`, an instance of it): `UnitOf`
says which unit of a stream a message is.  Suites are numbers, as in the code,
where 0 is no suite; so both sides speak of the same ones.  The comparison is made
when no message is cut, no hello is refused, the hellos of a stream are of one
side, and the ciphertext of an alert was taken for what it was.  `Read` of a
stream is a recursive function (`Reader`): what is known after n units.

### The analysis: FlowTable to Report

`runner.analyze_pcap` is one state machine; each stage is one module, and each
module extends the ones before it.

| Module | Code | Content |
| --- | --- | --- |
| `CipherSuites` | tables of `tls_parser.py` | suites, their key exchange, strength, forward secrecy |
| `Certificates` | `certificates.py`, `gen_certs.py` | a certificate as a record, `analyze_chain`, chain issues, names; the certificates of the corpus |
| `MailTraffic` | `gen_traffic.py`, class `Conv` and below | packets of a conversation, TLS messages, the words of the three protocols |
| `MailScenarios` | `gen_traffic.py`, the `sc_` functions, `random_mail_session` | the named captures and the random ones |
| `Reassembly` | `DirectionStream.reassemble` | operators from the segments of a direction to its stream and the mark of a hole |
| `FlowTable` | `ingest.py`, `reassembly.py` | frame by frame: skip, known flow, new flow, overflow, end, or the error of the reader |
| `TlsStreams` | `parse_stream`, `_merge_tls` | what is known after each unit of a stream of whole TLS messages (`Reader`), and from two streams to what the session says of TLS |
| `MailSessions` | `protocols.py`, `sessions.py` | operators from a flow to a session |
| `Rules` | `rules.py` | findings and advisories of a session; severities and weights |
| `Posture` | `score.py`, `label_of` of `train.py` | scores, grades, adjustment, fusion, host findings |
| `Analysis` | `runner.py`, `features.py`, `predict.py` | the stages, session by session, with the exceptions they swallow |
| `Report` | `builder.py`, the views of `routers/scans.py` | grouping, compliance table, summary, PDF bands, pages |
| `AnalysisProperties` | | the properties, and the invariants `EvidenceInv`, `JudgedInv` and `LocalInv` of the proofs |

| Variables | Code |
| --- | --- |
| `capture` | the environment: file format, link type, the conversations as they were sent, and the frames of the file, each a packet of one or something that is not TCP, with its time |
| `stage` | the last `tick` of `analyze_pcap`, or `raised` |
| `read`, `count`, `frame_offsets` | `frame_no` of the reader, `packet_count`, `frame_offsets` |
| `flows`, `overflowed` | `FlowTable.flows` in order of insertion, `FlowTable.overflowed` |
| `built`, `sessions` | how far the loop over the finished flows is, and the sessions it has made |
| `analysed`, `host_findings`, `evidence` | the lists of the later stages; `analysed` has what the loop over sessions finds of each: certificates, findings, advisories, features |
| `model`, `verdicts` | the loaded bundle; what it said of each session so far |
| `result` | the dictionary returned |

What is abstracted.  A stream is a sequence of units: a TLS message in a record
of its own, or a line of text with what the code looks for in it.  Sequence
numbers count units and do not wrap, `DirectionStream` has the bytes and the
wrap; messages are whole, `TlsSession` has those that are cut.  That the two
abstractions lose nothing else is checked and proved: `LoopMatchesPipeline` compares
`Reassembly` with the loop of `DirectionStream`, `ParserMatchesPipeline` compares
`TlsStreams` with the parser of `TlsSession`.  Certificates are records of what the library
yields; a signature is good or broken.  A model is a function from the label it
was trained to give (`LabelOf`) to an anomaly flag and a percentage; the three in
the run have learnt their labels, fear everything, and doubt everything, and
either may be missing or raise at any session.  Floating point: a score is
rounded to the nearest whole number, and where two are equally near, either is
possible (`Nearest`).

Where the code tries conditions in turn (grades, titles, the name of a
certificate, a suite's key exchange and strength) the model has IF and ELSE, not
CASE: TLC takes the first arm whose guard holds, but by the definition of TLA+
a CASE may take any such arm, and what is proved must be what is checked.  Lists
are put in order and picked from by `Ranked`, `Ascending` and `Selected` of
`Certificates`, which name the element at each place by the number of those
before it; a sort that is a fold says nothing to the prover.

The order of frames, their times, losses, repetitions and noise are those of the
capture: the pipeline itself is sequential, so its nondeterminism is in its
input, in the models and in the rounding.

`VerdictLocal` says that a conversation is judged by itself.  It compares its
session with that of a flow that has nothing but its data, in order (`Alone`),
and speaks of conversations that are orderly (`Orderly`): a client on a port of
its own opens it to a mail server's port, carries no data in its SYN, and each
side sends its bytes once and without a gap.  Without that there is no one thing
a conversation says: of two segments with different bytes for one place the code
takes the lower (`reassembly.py` 80-98), and who is the server is guessed from
ports and flags (`sessions.py` 155-163).  All conversations of the corpus are
orderly (`ConversationsAreOrderly`, which TLC evaluates); what happens to their
packets on the way to the file is not restricted.

### UploadQueue: the upload page and the retries

The page `scans/new` with `fetchWithWakeRetry`, against the two calls of the
engine.

| Variables | Code |
| --- | --- |
| `items`, `cleared`, `shown` | the items picked in this visit, in order; how many of them, the oldest, the Clear button took off the list; the scan the router went to |
| `captured`, `i`, `firstScanId`, `anyDone`, `pc` | the locals of `start()`: the list as its closure has it, the index, and the call it awaits |
| `request` | the attempt under way: sent or answered, and how many there were |
| `scans` | the engine: the uploads it took, and their status |
| `stray` | requests the browser gave up that may still arrive |

Every attempt may be lost before or after the engine took it, its answer may be
cut in its body, refused, or arrive when the browser has given up.  Waiting
times are left out: the next attempt comes when it comes.

`setItems([])` of the Clear button is an increment of `cleared`: the list on the
page is `Listed`, the items behind those, and only it is removed from, started
and shown.  The items that were cleared stay in `items` as history, because what
the engine took of them stays too: after a failure whose call got through, Clear
leaves copies, and perhaps an analysed scan, that no item on the page accounts
for.  `CopiesBounded` therefore counts copies against all picks of the visit, so
that clearing the list and picking the capture again is no way round the bound.
Remove and Clear are there only while the loop does not run; `router.push` is
taken as leaving the page at once.

### MC modules

`MCAnalysisService`, `MCScanStore`, `MCDirectionStream`, `MCTlsSession` and
`MCUploadQueue` extend these with the symmetry sets, the lists of progress
reports, the initial sequence numbers and the connections for TLC.
`MCAnalysis`
has the captures: the named ones, the odd chains, random sessions, the courses of
versions of one host, and what may happen to a file on its way; and the verdicts
that `tests/test_pipeline.py` expects (`ScenarioVerdict`).

## 3. Runs

| Run | What it shows |
| --- | --- |
| `service_safety` | Two slots (the default width), four calls on one scan, one DELETE: free, handed on, held and lost slots add up, a complete scan has its result, and the inductive invariant of the proofs holds. |
| `service_live` | One slot, three calls, one DELETE: no slot is lost while the executor works, every slot comes back, and a call that waits while a slot is in use is served. |
| `store` | One scan, two overlapping requests of any kind with their jobs, one failed call, one restart, one retention period: a complete scan keeps its result and is served, no capture goes before its analysis, and the inductive invariant of the proofs holds. |
| `retention_within_limit` | Two scans, clean-up limit two, one failed call: every expired capture is deleted. |
| `reassembly` | Any four packets of a stream of four bytes, sequence numbers modulo 8, cap of five bytes: `DirectionStream` implements `HonestStream`, what is missing is flagged, the analysis computes the same of the same segments, and the inductive invariant of the proofs holds. |
| `tls` | Eight connections (full and resumed TLS 1.2, TLS 1.3, HelloRetryRequest, a NULL suite with renegotiation, hellos without extensions, a refusal, plaintext), every cut and every end: the report is exact when no message is cut, nothing in it was not sent, the analysis computes the same of whole messages, and the two inductive invariants of the proofs hold. |
| `analysis` | 610 captures, from the bytes to the report: packets are accounted for, the named captures get their verdicts, a conversation is judged by itself, evidence belongs to its finding, the models stay in their bounds, host findings are exact, expiry is exclusive, the report agrees with itself and pages cover it; the three inductive invariants `EvidenceInv`, `JudgedInv` and `LocalInv` of the proofs hold. |
| `queue` | Two files, two picks, the list cleared and files removed at will, two attempts per call, every loss and delay: an item shows its own scan, copies are bounded, no status is taken back, and every file of a started upload ends done or failed; the inductive invariant of the proofs holds. |
| `parsing_means_running` | Violated: a fast job's final status is overwritten by the handler's `parsing`. |
| `one_analysis` | Violated: two calls pass the status check, and both jobs run. |
| `analyze_answered` | Violated: a release from the worker thread is lost on a waiter that is about to queue. |
| `split_certificate` | Violated: a Certificate message that needs two records is not in the report. |

The violated ones state what a document, a comment or an answer of the code
promises; "findings" in `PROJECT.json` quotes them.

Bounds.  Four calls at two slots give two jobs and two waiters: both workers may
pick the first waiter, or one each, with a done future before a pending one, and
the loop may pick at the same time.  `MaxLost` is one: nobody calls any more
once a slot is lost, though the calls under way go on and may lose more; the
proofs do not depend on it.  Liveness is checked at one slot, where no wake-up
is lost between two threads and a call can wait behind a waiter already.  One scan
is enough for what concerns one scan, and is the worst case for interference;
`one_analysis` uses two.  One progress report (of eight) gives a job states
before, between and after reports.  In `store` one fault and one restart can
fall on any step of two requests and two jobs; more of them only repeat, as the
properties relate copies of one scan's data.  The clock needs two values, before
and after the retention period.  The clean-up limit of 50 becomes 1 or 2: what
matters is whether more scans are complete than it admits.  In `reassembly` a
stream of four bytes modulo 8 is the longest for which half the space is enough,
so offsets reach both ends of the signed range; the initial numbers 0, 3, 5, 6
and 7 put the wrap nowhere, and before or after each byte of the stream.  Four
packets give a segment before the base, one that fills a hole, one that overlaps
both its neighbours and one repeated; with a cap of five bytes a capture can pass
it by repetition alone.  The connections of `tls` have each kind of message and
record the parser tells apart, and each pair of them whose order it depends on;
a stream has at most seven items, so that every cut is tried.

In `analysis` there are at most 11 flows: `BuildMixed` fills the table, and with
`HostCertSwap` behind it two more conversations overflow.  A direction holds 20
units, longer than the longest of the corpus, so that only captures sent three
times over (`Resent`) are truncated.  Pages have at most three items of up to
eleven, where the code has 200 or 500; offsets, limits and the remainder of the
last page all occur.  The captures are chosen by what may happen to a
file: each packet lost, each repeated, each two neighbours exchanged, the file
backwards, one conversation within another at every place, other frames between,
no times or a time 0, the raw, the cooked and an unknown link type, both file
formats, reused ports, and both ends on one host.  Random sessions have every
version with one or two of its suites, picked from both ends, every kind of
certificate and every protocol.  The days before and after each limit of a
validity are in `OddChains`, to the hour.

In `queue` two picks give an item before and one after any failure; the same file
may be picked twice, the second time also when the first has failed and was cleared; with two attempts a request may be late, its
successor early, and both lost.  More attempts repeat this.  The proofs do not
depend on bounds.

`CHECK_DEADLOCK FALSE` is used because scans, requests, deletions and picked
files are given from bounded sets, and a stream is done when it was served: then
the modelled system has nothing left to do and may stop.  `analysis` is checked
for deadlock: every capture reaches its result or the exception of the reader.

Every property has a mutant: an operator beside the action it alters (`Mutant:`
in a comment) that makes a plausible mistake, with which the property fails.

### Fairness

* `WF` for handlers, jobs and deletions: threads and the loop run.
* `SF` for `Resume`: the loop runs ready callbacks in FIFO order, so a
  coroutine whose future is done cannot be passed over for ever, although other
  handlers take the loop (and disable `Resume`) again and again.
* `SF` for `ListBegin` of ScanStore: the dashboard lists scans, and an external
  cron calls the health probe, which lists one row, about every ten minutes
  (`backend/app/main.py`, `docs/ARCHITECTURE.md`).  A thread slot is free again
  and again.
* `WF` for `Loop` and for `Network` of UploadQueue: JavaScript runs on, and every
  `fetch` ends in an answer or an error, as the browser gives up at some point.
  Nothing is assumed of the engine: neither a late request nor a job need end.
* Nobody is obliged to upload, to call or to delete, and neither faults nor
  restarts need happen.

## 4. Proofs

`AnalysisServiceProofs` proves for any number of scans, calls, deletions and
slots and any list of progress reports (from `ScansAssumption`,
`RequestsAssumption`, `SlotsAssumption`, `TicksAssumption`, named in the module):

| Theorem | States |
| --- | --- |
| `ServiceShape` | types, what each handler, job and deletion knows at each point, and that the queues of the semaphore and of the executor hold exactly the calls that wait in them, each once |
| `SlotsConserved` | `[]SlotsAccounted` |
| `OneSlotIsKept` | `[]OneSlotKept`: with one slot and a working executor none is lost |
| `CompleteHasResult` | `[]ResultBeforeComplete` |
| `ServiceInvariant` | `[]ServiceInv`, the conjunction the run checks |

The argument.  `SlotsAccounted` counts slots: value plus woken waiters plus calls
that hold a slot plus lost slots is `Slots`.  It is not inductive alone: when a
result is set or a waiter resumes, one needs to know that the waiter is in the
deque once, that what a thread has picked is one waiter nobody has woken since,
and that the call that resumes was not counted before.  These are
`WaitQueueExact`, `PicksPending` and, for the pool, `WorkQueueExact`; they need
in turn that a call is at the point its variables say (`Phases`).  So the proof
first establishes the shape (`ShapeInit`, `ShapeStep`, over `PickFinds` and
`ResultSet`), then the slots (`SlotStep`, over `HoldersJoin`, `HoldersLeave` and
`ResultMoves`).  `OneSlotKept` follows from both (`ThreadStep`): the pool has at
most `Slots` threads at work, so with one slot a second thread cannot wake
anybody; the loop could, but the handler that resumes holds the only slot and
finds no other to pass on (`NoSpareSlot`), and a refused submission needs the
executor shut down.  Last come the results (`ResultStep`), where `ResultsFirst`
says that a job past `put_result` has its result unless its scan was deleted; a
deletion removes the row and the result under one lock.  Lemmas on sequences
(`AppendDistinct`, `TailDistinct`, `RemoveDistinct`) and on cardinalities carry
the data part.

At the default width of two the statement stops there, and so does the code.
Two workers that release together, with a call waiting, may both pick its
future; the second then raises and its slot is gone.  Nothing documents the
opposite, so no run states it; the width shrinks by one each time, until a
restart.

`DirectionStreamProofs` proves for any even modulus, any initial sequence
numbers, any stream of at most half the modulus, any cap and any capture (from
`ModAssumption`, `IsnAssumption`, `SendAssumption`, `CapAssumption`,
`NotServedAssumption`):

| Theorem | States |
| --- | --- |
| `UnwrapDistance` | `seq_unwrap` of the numbers of two bytes is their distance, with or without a wrap between them |
| `StreamInvariant` | `[]StreamInv` |
| `ShortfallIsFlagged` | `[]ShortfallFlagged` |
| `ReassemblyHonest` | `Spec => ImplementsHonest`: every step is a step of HonestStream or a stutter |
| `LoopIsPipeline` | `[]LoopMatchesPipeline` |

The argument.  A sequence number is a residue; `UnwrapDistance` gets the
distance of two bytes back from their residues, by `Division` and the fact that
two residues within a modulus of each other differ by the distance or by the
distance and one modulus (`NearResidue`).  So offsets are positions less that of
the first segment (`Placed`), and the merge can be followed in positions: what
has been merged is an ascending run that ends at `Reached`, all segments looked
at end there or before, all others start no earlier than the one just looked at
(`OutIsRun`).  A hole is then really one: the byte at `Reached` is in no segment,
because those before end at it and those after start past it.  That makes the
run the longest (`MergedRun`).  The final cut to `MAX_STREAM_BYTES` never cuts:
the bytes kept fit under the cap (`CapKept`, by cardinality).

`LoopIsPipeline` says that `Reassemble` of the segments is the same run.  Its
bounds are CHOOSEs: the lowest unit held exists because a set of numbers has a
least one, the first unit not held because the loop has ended and `Reached` is
one.  Of a unit in several segments both take the byte that was sent there.

`ScanStoreProofs` proves for any number of scans and threads, any clean-up limit
and retention, and any number of failed calls and restarts (from `StoreNames`,
`StoreBounds`):

| Theorem | States |
| --- | --- |
| `StoreInvariant` | `[]StoreInv` |
| `DurableResults` | `[]DurableResult` |
| `CompleteIsServed` | `[]ServedComplete` |
| `CapturesKept` | `[]CaptureKept` |

The argument.  None of the three is inductive alone, as each speaks of the
copies in the stores and a step may write a copy that some thread has carried
since an earlier step.  `StoreInv` adds what is carried: only
an id whose upload has answered is called for, analysed, swept or stored as a row
(`Uploaded`); a DELETE that takes something away was accepted (`DeletesKnown`); a
job past `put_result` has left its result in the cache and with the row, but for a
DELETE or a failed write (`JobsKeepResults`); a complete row that was read and is
not yet in the cache, or is on a page that a list request has read, has its result
stored (`CopiesStored`); what a clean-up holds is no longer "uploaded"
(`SweptAnalysed`); and an upload past the bucket has its bytes there, but for a
failed write (`CaptureFirst`).  Each conjunct has a lemma with one step per
action; `Crash` forgets the carried copies and keeps the database, which the
conjuncts were chosen to survive.

`UploadQueueProofs` proves for any files, any number of picks and any number
of attempts (from `UploadQueueAssumption`):

| Theorem | States |
| --- | --- |
| `QueueInvariant` | `[]QueueInv` |
| `QueueTypes`, `ItemsShowTheirScans`, `CopiesAreBounded` | `[]TypeOK`, `[]ItemShowsItsScan`, `[]CopiesBounded` |
| `StatusesMoveOn` | the action property `StatusMovesOn` |

The argument.  The page cannot know whether a request it gave up arrives, so the
invariant counts: the copies of a file that are in the engine and the requests
that can still make one (`Copies`, `Late`) are together at most the attempts
for each item that has been tried, plus those of the call under way (`Spent`,
`CopiesCounted`).  A lost answer moves one from what is under way to what may be
late, so the sum never grows but with an attempt; nor does it when the
list is cleared, as the items that paid for it are still counted.  `LoopPlaced` ties the loop to
the list, and holds because rows cannot be removed or cleared while it runs; `CallsKnown` says
whose scan a call, an answer or a stray request is about, and with it an item
that shows a scan shows its own.

`TlsSessionProofs` proves for any set of connections of any length and any way to
cut them (from `WiresAssumption`, `EncryptionAssumption`, `SuitesAssumption`,
`NoneAssumption`):

| Theorem | States |
| --- | --- |
| `TlsInvariant` | `[]TlsInv` |
| `NothingIsInvented` | `[]NothingInvented` |
| `ReportIsExact` | `[]ReportExact` |
| `PaceInvariant` | `[]KeepsPace` |
| `ParserIsPipeline` | `[]ParserMatchesPipeline` |

The argument.  The parser's place in a stream is recovered from what is left of
it and what is in `hs_buf` (`InPlace`): the buffer holds consecutive items that
end where the rest begins, and only the last may be cut.  `Looked` is the number
of items behind it, and a `HandshakeInfo` says nothing but of those (`Known`);
while nothing was cut it says everything of them (`AllRead`).  Both pass from n
items to n + 1 with each message, and the merge takes two of them to the session.
Event number k of a stream is item k less the items that are not shown: `Ordinal`
counts, as in the definition, so no induction over sequences is needed.

The comparison with the analysis goes item by item (`KeepsPace`).  `After(d, n)`
is what the analysis knows after n units, and the unit after it is read by
`ReadUnit` (`UnitAfterUnit`; that the recursive function exists is shown by a
least counterexample).  What the parser knows agrees with it (`Agree`): each kind
of message has a lemma that one message read by both keeps the agreement
(`PaceAlert` to `PaceOther`).  Three things differ and have to be carried: the
parser leaves its loop at bytes that are no TLS without consuming them, and the
analysis counts them as a unit (`UnitsRead`); of a sealed alert the parser may
have taken any description, so the sets agree only up to those of sealed alerts
(`AlertsAgree`) until the merge, where `AlertsAsSent` says what was taken
(`SameAlerts`); and a failed handshake is taken back at the end of a stream by the
one, and after the last unit by the other (`EndAgrees`).  A message the parser
misreads is sealed, as none was cut (`MisreadSealed`), and nothing to the analysis
(`UnitsPassed`).  `MergeMatches` merges the two streams; that a missing suite is 0
in the analysis and None in the parser is where `SuitesAssumption` is needed.

`AnalysisProofs`, `SumProofs` and `PostureProofs` prove for any captures of any
length, any limits of the flow table and of a page and any models (from
`CapturesAssumption`, `ConversationsAssumption`, `FlowTableAssumption`,
`CertificatesAssumption`, `ModelsAssumption`, `PageCapAssumption`):

| Theorem | States |
| --- | --- |
| `FlowInvariant` | `[]FlowInv`, the first conjunct of `EvidenceInv` |
| `EveryPacketIsAccounted` | `[]PacketsAccounted` |
| `EvidenceInvariant` | `[]EvidenceInv` |
| `EvidenceIsOfItsSession` | `[]EvidenceBelongs` |
| `JudgedInvariant` | `[]JudgedInv` |
| `FusionIsBoundedAlways` | `[]FusionBounded` |
| `WorseCountsMoreAlways` | `[]WorseCountsMore` |
| `HostFindingsAreExact` | `[]HostFindingsExact` |
| `ExpiryIsExclusive` | `[]ExpiryExclusive` |
| `ReportAgreesAlways` | `[]ReportAgrees` |
| `PagesCoverAlways` | `[]PagesCover` |
| `LocalInvariant` | `[]LocalInv` |
| `JudgedByItself` | `[]VerdictLocal` |
| `AnalysisTypes` | `[]TypeOK` |

The argument.  The invariants follow the pipeline.  `FlowInv`: each of the
two streams of a flow holds the segments of the frames read so far that came from
its end, or says that it was cut; there is one flow for each pair of ends; the
packets without one (`Homeless`) are those that were counted, and there are some
only if the table is full.  `EvidenceInv`: a session has the ends of a flow and
all of its frames, so what is shown of it are frames of one conversation.
`JudgedInv`: the record of session i is `Analyse` of session i, whatever was
judged before it; with the models there is a verdict for each session when the
scores are fused, without them none; and the result is a function of these
records.  The case to watch is the exception of a model (`PredictRaises`): it
ends the loop, and the sessions behind it must not be left without an entry.
`SessionInv` carries what `BuildNext` and `CrossSession` assign to the later
proofs: a session is `BuildSession` of a flow of the table, so that its fields have
the types the rules and the report compute with, and the host findings are those
of the sessions and certificates that are kept.  It is a lemma
(`SessionInvariant`), as it says nothing by itself.

From these, each of the views.  Host findings: the list of a host's versions is in
the order of start times (`Ranked`, whose elements are there because the counts of
those before an element are all different), and a fall in it is one of two
sessions.  Expiry: the days to the expiry are a quotient rounded down, so a
leaf is expired before its day 0 begins; this needs dates that are whole numbers
(`CertificatesAssumption`).  The report: features, counters, groups and the
compliance table each from the findings of the sessions; the counters are
cardinalities of images, and the table counts by rule.  Pages: the k-th item of
the list is on the page its place says, by division with the limit of the answer.

`JudgedByItself` compares two runs of the pipeline.  `LocalInv` is what the flow
table and the loop over it owe a conversation: a flow that counts as opened from
an end has read the frame that did it, a stream counts what it keeps, every flow
with mail has its session, and no two sessions have the same two ends
(`OncePerEnds`, as there is one flow for each).  The rest is about the two flows.
The server is the same end of both: in a flow whose first packet came from the
server, an opening from its source would be a SYN that an orderly conversation
has not (`ServerAnswers`).  A direction carries the data of the packets that were
captured and no other (`FlowCarries`), however often and in whatever order; of
segments that follow each other no place is in two (`OwnPlaces`), so that
what stands at a place is settled (`UnitIs`) and two directions with the same
data are the same stream (`SameStream`).  If all data is there, it has no gap
(`AllThere`); if the first and the last are there and another is not, it says it is
incomplete (`GapShows`), and still begins alike (`BeginAlike`), which is all
that `identify` looks at (`SameProtocol`): so there is a session, and only one.
What the rules see of a session is what its two streams say (`SessionTold`,
`SameJudgement`).

The assumptions say what a capture is: frames in a list, with times and sequence
numbers that are natural numbers and payloads that are sequences, as
`ingest.py` unpacks them from fixed-width fields; a frame is a packet of one of
the conversations, each between two addresses; a readable certificate has two
dates and a key of some size, as `certificates.py` takes them from the library;
the page cap is the positive constant of `routers/scans.py`.

Scores are quotients of sums over as many sessions as there are.  `SumFunction`
of the community modules is defined by recursion over finite sets.  Induction is out of reach
(the library's theorems take operators as parameters), so `SumProofs` argues by a
least counterexample: the sizes of the sets for which a statement fails are a
set of natural numbers, and its least element contradicts the step
(`LeastNumber`, `SubsetInduction`; also for the existence of the recursive
function, `SumExists`).  Each statement about sums is proved that way once:
bounds, linearity, the sum of ones, and that the square of a sum is at most the
number of summands times the sum of squares (`SquareOfSum`), which is why a mean
that weighs low scores more is at most the plain mean.
`PostureProofs` puts scores and weights into them; that findings have weights
that are natural numbers needs a finite table of all findings a session can
have (`Possible`).

Proving changed the model.  `GradeOf`, `LabelOf` and five more operators were
CASEs whose guards overlapped; nothing can be proved of those, see section 2.
The sessions were made in one step by `SelectSeq`, and now are by one step for
each flow, as the loop of the code does.  `VerdictLocal` took its hypotheses from
the shape of the corpus until the proof asked for them: `Orderly` names them, and
`Alone`, which was the table's own fold over the packets, is given by its
streams.

Only model-checked:

* `SlotComesBack`, `WaiterServed`, `RetentionHonoured`, `EveryItemSettles`:
  liveness under fairness and ENABLED are outside what the prover handles.
* `ScenarioVerdict`: it is about the captures of the corpus, constants that TLC
  evaluates.

## 5. Where code and documents differ

Four disagreements are runs that TLC refutes, with their quotes in "findings".
Those below were met while modelling; the models do what the code does, and no
property states the document's version.

* Clean-up: `list_scans` selects the 50 scans that completed first, also when
  their captures are gone; with 50 of them, the 51st capture is never selected,
  although `docs/ARCHITECTURE.md` (line 29) says captures are deleted after about
  24 h.  `RetentionHonoured` fails in ScanStore with `CleanupLimit` one below
  the number of complete scans.
* Resumption: `parse_server_hello` compares its session id with that of its own
  stream, which is empty, so every hello with a session id counts as a
  resumption ("heuristic; confirmed by server", `tls_parser.py:221`); TLS 1.3
  sends one for middleboxes, and `CFG-006` is charged unless the secret is
  extended.
* Scores: `score.py:101` speaks of a ceiling implied by a critical finding; there
  is none, and ten sound sessions with one critical one score A and "STRONG
  POSTURE".  `score.py:9` says that a clean session adjusts by nothing; in the
  scan's sum it does, if another session is not clean.  Eleven sessions, one with
  a finding of weight five, round to 100.  Host findings are in no score.  A
  capture without sessions scores 100.
* The bands of the PDF (85, 70, 50) are not those of the grades (90, 75, 60, 40).
* Times: a conversation that starts at time 0 counts as one without a time, and
  on a host with both the sort raises, so that all host findings are dropped.
* `CPR-004` fires also when nothing stronger was offered (`>=`); a chain of which
  nothing can be read has no finding; if only the leaf is unreadable, the
  next certificate is taken for the leaf; a wildcard matches several labels.
* STARTTLS: the server's part of an IMAP upgrade is lost, as its answer is not
  one of those looked for; a capture that ends behind the request counts as
  stripped.  `gen_traffic.py:523` says that a capture fires `CFG-005` only;
  `PRT-001` fires as well.
* Captures: a lost first segment is not flagged; a capture of raw IP yields no
  packets and scores 100; a second connection on the same ports is merged into
  the first; when both ends are on one host, they may be confused.
* `flows_overflowed` counts packets.
* Paging: items are cut at 200 or 500, and the answer echoes the limit asked for.
* Upload page: files picked while the loop runs are not uploaded and are gone
  when it navigates; where it goes may be the scan of an item that failed; an
  `/analyze` whose answer was lost is answered 409 the second time, and the item
  is "failed" while its analysis runs; copies of a repeated upload stay; when the
  list is cleared after such a failure, its scan is analysed all the same and no
  item on the page leads to it.

## 6. Not modelled, and why

* Most of `reports/builder.py`, the pages and components of the front end:
  layout and wording.
* The arithmetic of the models, their training and their explanations, and the
  features no rule has a word on (durations, sizes, counts of bytes).
* X.509 parsing, signature checks, the framing of pcap files: libraries'.
* The filters of the result views but one, the sanitizing of names, the streaming
  of an upload to a temporary file: no shared state, or copies of a list.
* `gen_traffic.py` and `gen_certs.py` below the level of messages: bytes,
  checksums, keys.
* `get_store` falling back to LocalStore when Supabase cannot be reached at
  start: AnalysisService is that configuration, ScanStore the other.
* Fields no property reads: tickets, names of groups, timelines in the pipeline,
  evidence texts.

## 7. Plan

All modules are written, and every safety property the runs check is proved but
`ScenarioVerdict`, which is about the corpus.  Should the pipeline change, the
places to look first are the hazards without a property in `PROJECT.json`: each
is a behaviour that no document promises anything about, and becomes a property
as soon as one does.
