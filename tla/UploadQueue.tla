---------------------------- MODULE UploadQueue ----------------------------
(***************************************************************************)
(* The upload page of the front end, app/(app)/scans/new/page.tsx, with    *)
(* the retries of lib/api.ts, against an engine that may be asleep: a      *)
(* request is lost, or answered and the answer lost, or given up by the    *)
(* browser and handled all the same, later.  Of the engine there are the   *)
(* scans and the outcome of its two calls (AnalysisService has the rest).  *)
(***************************************************************************)
EXTENDS Integers, Sequences, FiniteSets

CONSTANTS
    Files,              \* the captures on the user's disk
    MaxItems,           \* bound: the files picked in one visit
    Attempts            \* fetchWithWakeRetry: 4, or 1 against a local engine

ASSUME UploadQueueAssumption == MaxItems \in Nat /\ Attempts \in Nat \ {0}

VARIABLES
    items,              \* the files picked in this visit, as the page has them
    cleared,            \* how many of them, the oldest, Clear took off its list
    captured,           \* the list as start() found it
    i,                  \* the item the loop is at
    pc,                 \* idle, next, or the call that is awaited
    request,            \* what became of the last attempt of that call
    firstScanId, anyDone,
    shown,              \* the scan the router went to; the page is then gone
    scans,              \* the engine: what was uploaded, in order
    stray               \* requests given up and not yet handled, or lost

page == <<items, cleared, captured, i, pc, firstScanId, anyDone, shown>>
vars == <<page, request, scans, stray>>

NoScan == 0
Statuses == {"queued", "uploading", "analyzing", "done", "failed"}
ScanStatuses == {"uploaded", "parsing", "complete", "failed"}

(* Mutant: what failed is taken up again by a later start. *)
SettledDone(status) == status = "done"
Settled(status) == status \in {"done", "failed"}

NoRequest == [phase |-> "none", tries |-> 0, ok |-> FALSE, scan |-> NoScan]
Sent(n, scan) == [NoRequest EXCEPT !.phase = "sent", !.tries = n, !.scan = scan]
Answer(ok, scan) == [request EXCEPT !.phase = "answered", !.ok = ok, !.scan = scan]

Init ==
    /\ items = <<>> /\ cleared = 0 /\ captured = <<>> /\ i = 0 /\ pc = "idle" /\ request = NoRequest
    /\ firstScanId = NoScan /\ anyDone = FALSE /\ shown = NoScan
    /\ scans = <<>> /\ stray = {}

-----------------------------------------------------------------------------
(* The user.  pick() also while the loop runs; the other buttons are there *)
(* only when it does not.  The list on the page are the items that were    *)
(* not cleared; its places are counted from the first item of the visit.   *)
Here == shown = NoScan
Running == pc # "idle"
Listed == cleared + 1 .. Len(items)

Pick ==
    /\ Here /\ Len(items) < MaxItems
    /\ \E f \in Files : items' = Append(items, [file |-> f, status |-> "queued", scan |-> NoScan])
    /\ UNCHANGED <<cleared, captured, i, pc, request, firstScanId, anyDone, shown, scans, stray>>

Without(k) == SubSeq(items, 1, k - 1) \o SubSeq(items, k + 1, Len(items))

(* Mutant: Remove is there while the loop runs. *)
RemoveRunning ==
    /\ Here
    /\ \E k \in Listed : items[k].status = "queued" /\ items' = Without(k)
    /\ UNCHANGED <<cleared, captured, i, pc, request, firstScanId, anyDone, shown, scans, stray>>

Remove ==
    /\ Here /\ ~Running
    /\ \E k \in Listed : items[k].status = "queued" /\ items' = Without(k)
    /\ UNCHANGED <<cleared, captured, i, pc, request, firstScanId, anyDone, shown, scans, stray>>

(* What the engine took of these items it keeps.                           *)
Clear ==
    /\ Here /\ ~Running /\ Listed # {}
    /\ cleared' = Len(items)
    /\ UNCHANGED <<items, captured, i, pc, request, firstScanId, anyDone, shown, scans, stray>>

(* The button needs an item that is not settled.                           *)
Start ==
    /\ Here /\ ~Running
    /\ \E k \in Listed : ~Settled(items[k].status)
    /\ captured' = items /\ i' = cleared + 1 /\ pc' = "next"
    /\ UNCHANGED <<items, cleared, request, firstScanId, anyDone, shown, scans, stray>>

-----------------------------------------------------------------------------
(* The loop of start(). *)
SetStatus(status) == [items EXCEPT ![i].status = status]

SkipItem ==
    /\ pc = "next" /\ i <= Len(captured) /\ Settled(captured[i].status)
    /\ i' = i + 1
    /\ UNCHANGED <<cleared, items, captured, pc, request, firstScanId, anyDone, shown, scans, stray>>

Upload ==
    /\ pc = "next" /\ i <= Len(captured) /\ ~Settled(captured[i].status)
    /\ items' = SetStatus("uploading")
    /\ pc' = "upload" /\ request' = Sent(1, NoScan)
    /\ UNCHANGED <<cleared, captured, i, firstScanId, anyDone, shown, scans, stray>>

Uploaded ==
    /\ pc = "upload" /\ request.phase = "answered" /\ request.ok
    /\ firstScanId' = IF firstScanId = NoScan THEN request.scan ELSE firstScanId
    /\ items' = [SetStatus("analyzing") EXCEPT ![i].scan = request.scan]
    /\ pc' = "analyze" /\ request' = Sent(1, request.scan)
    /\ UNCHANGED <<cleared, captured, i, anyDone, shown, scans, stray>>

Analyzed ==
    /\ pc = "analyze" /\ request.phase = "answered" /\ request.ok
    /\ items' = SetStatus("done") /\ anyDone' = TRUE
    /\ i' = i + 1 /\ pc' = "next" /\ request' = NoRequest
    /\ UNCHANGED <<cleared, captured, firstScanId, shown, scans, stray>>

(* The catch of an item: the loop goes on with the next. *)
ItemFails == items' = SetStatus("failed") /\ i' = i + 1 /\ pc' = "next" /\ request' = NoRequest

(* Mutant: the first failure ends the loop. *)
RefusedAborts ==
    /\ request.phase = "answered" /\ ~request.ok
    /\ items' = SetStatus("failed") /\ request' = NoRequest /\ pc' = "idle"
    /\ UNCHANGED <<cleared, i, captured, firstScanId, anyDone, shown, scans, stray>>

Refused ==
    /\ request.phase = "answered" /\ ~request.ok
    /\ ItemFails
    /\ UNCHANGED <<cleared, captured, firstScanId, anyDone, shown, scans, stray>>

(* The locals of start() end with it. *)
LoopEnds ==
    /\ pc = "next" /\ i > Len(captured)
    /\ pc' = "idle" /\ shown' = IF anyDone THEN firstScanId ELSE NoScan
    /\ captured' = <<>> /\ i' = 0 /\ firstScanId' = NoScan /\ anyDone' = FALSE
    /\ UNCHANGED <<cleared, items, request, scans, stray>>

-----------------------------------------------------------------------------
(* fetchWithWakeRetry: an attempt without an answer is made again.         *)
ScanOfCall == IF pc = "analyze" THEN request.scan ELSE NoScan
TryAgain == request' = Sent(request.tries + 1, ScanOfCall) /\ UNCHANGED <<items, i, pc>>

(* Mutant: one attempt too many. *)
AttemptFailsLate == IF request.tries <= Attempts THEN TryAgain ELSE ItemFails
AttemptFails == IF request.tries < Attempts THEN TryAgain ELSE ItemFails

Call == [kind |-> pc, file |-> captured[i].file, scan |-> ScanOfCall, item |-> i, tries |-> request.tries]

(* It never arrives, or arrives when the browser has given it up. *)
RequestLost ==
    /\ request.phase = "sent"
    /\ AttemptFails
    /\ stray' \in {stray, stray \cup {Call}}
    /\ UNCHANGED <<cleared, captured, firstScanId, anyDone, shown, scans>>

AnswerLost ==
    /\ request.phase = "answered"
    /\ AttemptFails
    /\ UNCHANGED <<cleared, captured, firstScanId, anyDone, shown, scans, stray>>

(* The connection breaks within the body of the answer: res.text() throws, *)
(* and that is not tried again.                                            *)
AnswerCut ==
    /\ request.phase = "answered" /\ request.ok
    /\ request' = Answer(FALSE, ScanOfCall)
    /\ UNCHANGED <<page, scans, stray>>

-----------------------------------------------------------------------------
(* The engine (routers/scans.py). *)
UploadScan(f) == Append(scans, [file |-> f, status |-> "uploaded"])
Startable(k) == scans[k].status \in {"uploaded", "failed"}
Analyze(k) == IF Startable(k) THEN [scans EXCEPT ![k].status = "parsing"] ELSE scans

HandleUpload ==
    /\ pc = "upload" /\ request.phase = "sent"
    /\ scans' = UploadScan(captured[i].file)
    /\ request' = Answer(TRUE, Len(scans) + 1)
    /\ UNCHANGED <<page, stray>>

(* 409 while it is parsing, and nothing to do when it is complete.         *)
HandleAnalyze ==
    /\ pc = "analyze" /\ request.phase = "sent"
    /\ scans' = Analyze(request.scan)
    /\ request' = Answer(scans[request.scan].status # "parsing", request.scan)
    /\ UNCHANGED <<page, stray>>

(* 400, 404, 410, 413, 500. *)
Refuse ==
    /\ request.phase = "sent"
    /\ request' = Answer(FALSE, ScanOfCall)
    /\ UNCHANGED <<page, scans, stray>>

HandleStray ==
    /\ \E c \in stray :
        /\ stray' = stray \ {c}
        /\ scans' = IF c.kind = "upload" THEN UploadScan(c.file) ELSE Analyze(c.scan)
    /\ UNCHANGED <<page, request>>

JobEnds ==
    /\ \E k \in DOMAIN scans, end \in {"complete", "failed"} :
           scans[k].status = "parsing" /\ scans' = [scans EXCEPT ![k].status = end]
    /\ UNCHANGED <<page, request, stray>>

User == Pick \/ Remove \/ Clear \/ Start
Loop == SkipItem \/ Upload \/ Uploaded \/ Analyzed \/ Refused \/ LoopEnds
Network == RequestLost \/ AnswerLost \/ AnswerCut \/ HandleUpload \/ HandleAnalyze \/ Refuse
Engine == HandleStray \/ JobEnds
Next == User \/ Loop \/ Network \/ Engine

(* The loop runs on, and of every attempt the browser hears or gives it    *)
(* up.  Neither the user nor the engine need do anything.                  *)
Spec == Init /\ [][Next]_vars /\ WF_vars(Loop) /\ WF_vars(Network)

-----------------------------------------------------------------------------
Item == [file : Files, status : Statuses, scan : Nat]
TypeOK ==
    /\ items \in Seq(Item) /\ captured \in Seq(Item) /\ Len(items) <= MaxItems
    /\ cleared \in 0 .. Len(items)
    /\ scans \in Seq([file : Files, status : ScanStatuses])
    /\ pc \in {"idle", "next", "upload", "analyze"} /\ i \in Nat
    /\ request \in [phase : {"none", "sent", "answered"}, tries : 0 .. Attempts,
                    ok : BOOLEAN, scan : Nat]
    /\ firstScanId \in Nat /\ anyDone \in BOOLEAN /\ shown \in Nat
    /\ stray \subseteq [kind : {"upload", "analyze"}, file : Files, scan : Nat,
                       item : Nat, tries : 0 .. Attempts]
    /\ IsFiniteSet(stray)

(* An item shows the scan of its own file, whatever was picked, removed,   *)
(* cleared or sent again meanwhile; the page goes to a scan of an item on  *)
(* its list; done says that the engine took its analysis up (page.tsx      *)
(* 77-107).                                                                *)
ItemShowsItsScan ==
    /\ \A k \in DOMAIN items : items[k].scan # NoScan => scans[items[k].scan].file = items[k].file
    /\ \A k \in DOMAIN items :
          items[k].status = "done" => items[k].scan # NoScan /\ scans[items[k].scan].status # "uploaded"
    /\ shown # NoScan => \E k \in Listed : items[k].scan = shown

(* Requests that are sent again leave copies of a capture in the engine,   *)
(* for each time it was picked no more than were sent, and also when the   *)
(* list is cleared and the capture picked again; of the copies of one item *)
(* one at most is ever analysed (api.ts 42-61).                            *)
Copies(f) == Cardinality({k \in DOMAIN scans : scans[k].file = f})
CopiesBounded ==
    /\ \A f \in Files : Copies(f) <= Attempts * Cardinality({k \in DOMAIN items : items[k].file = f})
    /\ \A k \in DOMAIN scans :
          scans[k].status # "uploaded" => \E n \in DOMAIN items : items[n].scan = k

(* The page never takes back what it said of a file: a status moves on,    *)
(* and done or failed is final (page.tsx 85-117).                          *)
Rank == [queued |-> 0, uploading |-> 1, analyzing |-> 2, done |-> 3, failed |-> 3]
StatusMovesOn ==
    [][\A k \in DOMAIN items :
          Running => /\ k \in DOMAIN items'
                     /\ items'[k].file = items[k].file
                     /\ \/ items'[k].status = items[k].status
                        \/ Rank[items'[k].status] > Rank[items[k].status]]_vars

(* The inductive invariant behind the three.                               *)
Awaiting == pc \in {"upload", "analyze"}
LoopPlaced ==
    /\ IF Running THEN i \in cleared + 1 .. Len(captured) + 1 /\ Len(captured) <= Len(items) /\ Here
                  ELSE captured = <<>> /\ i = 0 /\ firstScanId = NoScan /\ ~anyDone
    /\ IF Awaiting THEN i <= Len(captured) /\ request.phase # "none" /\ request.tries >= 1
                   ELSE request = NoRequest

(* Only the item at hand is under way; those behind it are as captured.    *)
ItemsUnderWay ==
    /\ \A k \in DOMAIN items :
          /\ items[k].status = "uploading" <=> pc = "upload" /\ k = i
          /\ items[k].status = "analyzing" <=> pc = "analyze" /\ k = i
          /\ items[k].status \in {"queued", "uploading"} => items[k].scan = NoScan
    /\ \A k \in DOMAIN captured :
          /\ items[k].file = captured[k].file
          /\ k > i \/ (k = i /\ pc = "next") => items[k] = captured[k]

(* A call is about the item at hand, and a late one about one that is kept.*)
Shown(s) == s # NoScan /\ \E k \in DOMAIN items : items[k].scan = s
CallsKnown ==
    /\ pc = "upload" /\ request.phase = "answered" /\ request.ok =>
          request.scan \in DOMAIN scans /\ scans[request.scan].file = captured[i].file
    /\ pc = "analyze" =>
          /\ request.scan # NoScan /\ request.scan = items[i].scan
          /\ request.phase = "answered" /\ request.ok => scans[request.scan].status # "uploaded"
    /\ firstScanId # NoScan => \E k \in Listed : items[k].scan = firstScanId
    /\ \A c \in stray : c.kind = "analyze" => Shown(c.scan)
    /\ \A k \in DOMAIN items : items[k].scan \in 0 .. Len(scans)

(* Uploads that were handled or may still be, against those that were sent.*)
Late(f) == Cardinality({c \in stray : c.kind = "upload" /\ c.file = f})
Tried(f) == Cardinality({k \in DOMAIN items :
                items[k].file = f /\ items[k].status \notin {"queued", "uploading"}})
Spent(f) ==
    IF pc = "upload" /\ captured[i].file = f
    THEN IF request.phase = "sent" THEN request.tries - 1 ELSE request.tries
    ELSE 0
CopiesCounted == \A f \in Files : Copies(f) + Late(f) <= Attempts * Tried(f) + Spent(f)

QueueInv ==
    /\ TypeOK /\ LoopPlaced /\ ItemsUnderWay /\ CallsKnown /\ CopiesCounted
    /\ ItemShowsItsScan /\ CopiesBounded

(* Whatever is lost, refused or late, every file that was in the list when *)
(* the upload started is done or failed in the end, and the page is free   *)
(* again: one failure never aborts the rest (page.tsx 81-84).              *)
EveryItemSettles ==
    /\ Running ~> ~Running
    /\ \A k \in 1 .. MaxItems :
          Running /\ k > cleared /\ k <= Len(captured) ~> k \in DOMAIN items /\ Settled(items[k].status)
=============================================================================
