------------------------- MODULE UploadQueueProofs -------------------------
(* Proofs about UploadQueue, for any files, any number of picks and any    *)
(* number of attempts.                                                     *)
EXTENDS UploadQueue, SequenceTheorems, FiniteSetTheorems, TLAPS

-----------------------------------------------------------------------------
(* Lists.                                                                  *)

Scan == [file : Files, status : ScanStatuses]

(* Indices and members.                                                    *)
LEMMA Lists ==
    ASSUME TypeOK
    PROVE  /\ items \in Seq(Item) /\ Len(items) \in Nat /\ DOMAIN items = 1 .. Len(items)
           /\ \A k \in DOMAIN items : items[k] \in Item
           /\ captured \in Seq(Item) /\ Len(captured) \in Nat /\ DOMAIN captured = 1 .. Len(captured)
           /\ \A k \in DOMAIN captured : captured[k] \in Item
           /\ scans \in Seq(Scan) /\ Len(scans) \in Nat /\ DOMAIN scans = 1 .. Len(scans)
           /\ \A k \in DOMAIN scans : scans[k] \in Scan
<1>1. items \in Seq(Item) /\ captured \in Seq(Item) /\ scans \in Seq(Scan)
  BY DEF TypeOK, Scan
<1> HIDE DEF Scan
<1>2. QED
  BY <1>1, LenProperties, ElementOfSeq

(* The item at hand gets a status and a scan, every other stays as it is. *)
ItemSetTo(status, s) ==
    /\ items' \in Seq(Item) /\ Len(items') = Len(items) /\ DOMAIN items' = DOMAIN items
    /\ \A k \in DOMAIN items : k # i => items'[k] = items[k]
    /\ items'[i] = [file |-> items[i].file, status |-> status, scan |-> s]

(* What setStatus writes (page.tsx 77-79).                                 *)
LEMMA ItemEdits ==
    ASSUME TypeOK, i \in DOMAIN items, NEW status \in Statuses
    PROVE  /\ items' = SetStatus(status) => ItemSetTo(status, items[i].scan)
           /\ \A s \in Nat : items' = [SetStatus(status) EXCEPT ![i].scan = s] => ItemSetTo(status, s)
<1>1. ASSUME NEW s \in Nat, NEW e, e = [file |-> items[i].file, status |-> status, scan |-> s],
             items' = [items EXCEPT ![i] = e]
      PROVE  ItemSetTo(status, s)
  <2>1. e \in Item /\ i \in 1 .. Len(items)
    BY <1>1, Lists DEF Item
  <2>2. QED
    BY <1>1, <2>1, Lists, ExceptSeq DEF ItemSetTo
<1>2. ASSUME items' = SetStatus(status) PROVE ItemSetTo(status, items[i].scan)
  <2> DEFINE e == [file |-> items[i].file, status |-> status, scan |-> items[i].scan]
  <2>1. items[i].scan \in Nat /\ [items[i] EXCEPT !.status = status] = e
    BY Lists DEF Item
  <2>2. items' = [items EXCEPT ![i] = e]
    BY <1>2, <2>1, Lists DEF SetStatus
  <2>3. QED
    BY <1>1, <2>1, <2>2
<1>3. ASSUME NEW s \in Nat, items' = [SetStatus(status) EXCEPT ![i].scan = s]
      PROVE  ItemSetTo(status, s)
  <2> DEFINE e == [file |-> items[i].file, status |-> status, scan |-> s]
           d == [items[i] EXCEPT !.status = status]
  <2>1. items[i] \in Item
    BY Lists
  <2>2. d = [file |-> items[i].file, status |-> status, scan |-> items[i].scan]
    BY <2>1 DEF Item
  <2>3. SetStatus(status) = [items EXCEPT ![i] = d]
    BY DEF SetStatus
  <2>4. SetStatus(status)[i] = d
    BY <2>3, Lists
  <2>5. items' = [items EXCEPT ![i] = [d EXCEPT !.scan = s]]
    BY <1>3, <2>3, <2>4
  <2> HIDE DEF d
  <2>6. [d EXCEPT !.scan = s] = e
    BY <2>2
  <2>7. QED
    BY <1>1, <2>5, <2>6
<1>4. QED
  BY <1>2, <1>3

(* What pick() writes: one queued item more.                               *)
LEMMA ItemPicked ==
    ASSUME TypeOK, NEW f \in Files,
           items' = Append(items, [file |-> f, status |-> "queued", scan |-> NoScan])
    PROVE  /\ items' \in Seq(Item) /\ Len(items') = Len(items) + 1
           /\ DOMAIN items' = 1 .. Len(items) + 1
           /\ \A k \in DOMAIN items : items'[k] = items[k]
           /\ items'[Len(items) + 1] = [file |-> f, status |-> "queued", scan |-> NoScan]
<1>1. [file |-> f, status |-> "queued", scan |-> NoScan] \in Item
  BY DEF Item, Statuses, NoScan
<1>2. QED
  BY <1>1, Lists, AppendProperties, LenProperties

(* Removal closes the gap: what was behind the item moves up by one.       *)
Moved(k, j) == IF j < k THEN j ELSE j + 1
(* Removing the item at k from the list (page.tsx, removeFile) keeps the   *)
(* others in their order.                                                  *)
LEMMA ItemRemoved ==
    ASSUME TypeOK, NEW k \in DOMAIN items, items' = Without(k)
    PROVE  /\ items' \in Seq(Item) /\ Len(items') = Len(items) - 1
           /\ DOMAIN items' = 1 .. Len(items) - 1
           /\ \A j \in 1 .. Len(items) - 1 : items'[j] = items[Moved(k, j)]
<1> DEFINE n == Len(items)
           a == SubSeq(items, 1, k - 1)
           b == SubSeq(items, k + 1, n)
<1>1. n \in Nat /\ k \in 1 .. n /\ \A j \in 1 .. n : items[j] \in Item
  BY Lists
<1>2. a \in Seq(Item) /\ Len(a) = k - 1 /\ \A j \in 1 .. k - 1 : a[j] = items[j]
  <2>1. 1 \in Int /\ k - 1 \in Int /\ \A j \in 1 .. k - 1 : items[j] \in Item
    BY <1>1
  <2>2. /\ a \in Seq(Item) /\ Len(a) = IF 1 <= k - 1 THEN k - 1 - 1 + 1 ELSE 0
        /\ \A j \in 1 .. k - 1 - 1 + 1 : a[j] = items[1 + j - 1]
    BY <2>1, SubSeqProperties
  <2>3. QED
    BY <1>1, <2>2
<1>3. b \in Seq(Item) /\ Len(b) = n - k /\ \A j \in 1 .. n - k : b[j] = items[k + j]
  <2>1. k + 1 \in Int /\ n \in Int /\ \A j \in k + 1 .. n : items[j] \in Item
    BY <1>1
  <2>2. /\ b \in Seq(Item) /\ Len(b) = IF k + 1 <= n THEN n - (k + 1) + 1 ELSE 0
        /\ \A j \in 1 .. n - (k + 1) + 1 : b[j] = items[k + 1 + j - 1]
    BY <2>1, SubSeqProperties, SMTT(30)
  <2>3. QED
    BY <1>1, <2>2
<1>4. items' = a \o b
  BY DEF Without
<1> HIDE DEF a, b
<1>5. /\ items' \in Seq(Item) /\ Len(items') = Len(a) + Len(b)
      /\ \A j \in 1 .. Len(a) + Len(b) : items'[j] = IF j <= Len(a) THEN a[j] ELSE b[j - Len(a)]
  BY <1>2, <1>3, <1>4, ConcatProperties
<1>6. Len(a) + Len(b) = n - 1
  BY <1>1, <1>2, <1>3
<1>7. DOMAIN items' = 1 .. n - 1
  BY <1>5, <1>6, LenProperties
<1>8. ASSUME NEW j \in 1 .. n - 1 PROVE items'[j] = items[Moved(k, j)]
  <2>1. CASE j < k
    BY <1>1, <1>2, <1>5, <1>6, <2>1 DEF Moved
  <2>2. CASE j >= k
    <3>1. j - Len(a) \in 1 .. n - k /\ ~(j <= Len(a)) /\ k + (j - Len(a)) = j + 1
      BY <1>1, <1>2, <2>2
    <3>2. items'[j] = b[j - Len(a)]
      BY <1>5, <1>6, <3>1
    <3>3. items'[j] = items[j + 1]
      BY <1>3, <3>1, <3>2
    <3>4. QED
      BY <1>1, <2>2, <3>3 DEF Moved
  <2>3. QED
    BY <1>1, <2>1, <2>2
<1>9. QED
  BY <1>5, <1>6, <1>7, <1>8

(* The engine: a capture is uploaded, or a scan gets another status.       *)
LEMMA ScanAdded ==
    ASSUME TypeOK, NEW f \in Files, scans' = UploadScan(f)
    PROVE  /\ scans' \in Seq(Scan) /\ Len(scans') = Len(scans) + 1
           /\ DOMAIN scans' = 1 .. Len(scans) + 1
           /\ \A k \in DOMAIN scans : scans'[k] = scans[k]
           /\ scans'[Len(scans) + 1] = [file |-> f, status |-> "uploaded"]
<1>1. [file |-> f, status |-> "uploaded"] \in Scan
  BY DEF Scan, ScanStatuses
<1>2. QED
  BY <1>1, Lists, AppendProperties, LenProperties DEF UploadScan

ScanSetTo(k, status) ==
    /\ scans' \in Seq(Scan) /\ Len(scans') = Len(scans) /\ DOMAIN scans' = DOMAIN scans
    /\ \A n \in DOMAIN scans : scans'[n].file = scans[n].file
    /\ \A n \in DOMAIN scans : n # k => scans'[n] = scans[n]
    /\ scans'[k].status = status

(* The end of a job changes the status of one scan.                        *)
LEMMA ScanEdits ==
    ASSUME TypeOK, NEW k \in DOMAIN scans, NEW status \in ScanStatuses,
           scans' = [scans EXCEPT ![k].status = status]
    PROVE  ScanSetTo(k, status)
<1> DEFINE e == [scans[k] EXCEPT !.status = status]
<1>1. e \in Scan /\ e.file = scans[k].file /\ e.status = status /\ k \in 1 .. Len(scans)
  BY Lists DEF Scan
<1>2. scans' = [scans EXCEPT ![k] = e]
  BY Lists
<1> HIDE DEF e
<1>3. scans \in Seq(Scan) /\ DOMAIN scans = 1 .. Len(scans)
  BY Lists
<1>4. /\ scans' \in Seq(Scan) /\ Len(scans') = Len(scans)
      /\ \A j \in 1 .. Len(scans) : scans'[j] = IF j = k THEN e ELSE scans[j]
  BY <1>1, <1>2, <1>3, ExceptSeq
<1>5. DOMAIN scans' = DOMAIN scans
  BY <1>2
<1>6. QED
  BY <1>1, <1>3, <1>4, <1>5 DEF ScanSetTo

(* After an analyze call its scan is not merely uploaded any more.         *)
LEMMA Analysed ==
    ASSUME TypeOK, NEW k \in DOMAIN scans, scans' = Analyze(k)
    PROVE  /\ scans' \in Seq(Scan) /\ Len(scans') = Len(scans) /\ DOMAIN scans' = DOMAIN scans
           /\ \A n \in DOMAIN scans : scans'[n].file = scans[n].file
           /\ \A n \in DOMAIN scans : n # k => scans'[n] = scans[n]
           /\ scans'[k].status # "uploaded"
<1>1. CASE Startable(k)
  BY <1>1, ScanEdits DEF Analyze, ScanSetTo, ScanStatuses
<1>2. CASE ~Startable(k)
  BY <1>2, Lists DEF Analyze, Startable
<1>3. QED
  BY <1>1, <1>2

-----------------------------------------------------------------------------
(* Where the loop is.                                                      *)

(* While a call is awaited, or an item is next, it is in both lists.       *)
LEMMA AtHand ==
    ASSUME TypeOK, LoopPlaced, Awaiting \/ (pc = "next" /\ i <= Len(captured))
    PROVE  /\ i \in DOMAIN items /\ i \in DOMAIN captured /\ i \in Listed
           /\ i \in 1 .. Len(items) /\ i <= Len(captured) /\ Len(captured) <= Len(items)
           /\ i + 1 \in cleared + 1 .. Len(captured) + 1 /\ pc # "idle" /\ Here
<1>1. /\ pc # "idle" /\ i \in cleared + 1 .. Len(captured) + 1
      /\ i <= Len(captured) /\ Len(captured) <= Len(items) /\ Here
  BY DEF LoopPlaced, Awaiting, Running
<1>2. cleared \in Nat /\ Len(items) \in Nat /\ Len(captured) \in Nat
      /\ DOMAIN items = 1 .. Len(items) /\ DOMAIN captured = 1 .. Len(captured)
  BY Lists DEF TypeOK
<1>3. QED
  BY <1>1, <1>2 DEF Listed

(* Only while a call is awaited is there a request.                        *)
LEMMA RequestAwaited ==
    ASSUME TypeOK, LoopPlaced, request.phase # "none"
    PROVE  Awaiting /\ request.tries \in 1 .. Attempts /\ request.tries \in Nat
BY UploadQueueAssumption DEF LoopPlaced, NoRequest, Awaiting, TypeOK

(* A lost attempt is made again, or the item fails after the last of them. *)
Again ==
    /\ request' = Sent(request.tries + 1, ScanOfCall) /\ request.tries < Attempts
    /\ UNCHANGED page
GivenUp ==
    /\ request' = NoRequest /\ pc' = "next" /\ i' = i + 1 /\ ItemSetTo("failed", items[i].scan)
    /\ UNCHANGED <<cleared, captured, firstScanId, anyDone, shown>>

(* A lost call is sent again or given up; a refused one is given up.       *)
LEMMA AttemptOutcome ==
    ASSUME TypeOK, LoopPlaced, request.phase # "none"
    PROVE  /\ RequestLost => (/\ request.phase = "sent" /\ (Again \/ GivenUp) /\ UNCHANGED scans
                              /\ stray' \in {stray, stray \cup {Call}})
           /\ AnswerLost => request.phase = "answered" /\ (Again \/ GivenUp) /\ UNCHANGED <<scans, stray>>
           /\ Refused => request.phase = "answered" /\ GivenUp /\ UNCHANGED <<scans, stray>>
<1>1. i \in DOMAIN items /\ "failed" \in Statuses
  BY RequestAwaited, AtHand DEF Statuses
<1>2. ASSUME ItemFails, UNCHANGED <<cleared, captured, firstScanId, anyDone, shown>> PROVE GivenUp
  BY <1>1, <1>2, ItemEdits DEF ItemFails, GivenUp
<1>3. ASSUME AttemptFails, UNCHANGED <<cleared, captured, firstScanId, anyDone, shown>>
      PROVE  Again \/ GivenUp
  BY <1>2, <1>3 DEF AttemptFails, TryAgain, Again, page
<1>4. QED
  BY <1>2, <1>3 DEF RequestLost, AnswerLost, Refused

(* The scan a call names is in the engine.                                 *)
LEMMA AnalysedKnown ==
    ASSUME TypeOK, LoopPlaced, CallsKnown, pc = "analyze"
    PROVE  request.scan \in DOMAIN scans /\ request.scan = items[i].scan
<1>1. i \in DOMAIN items
  BY AtHand DEF Awaiting
<1>2. request.scan # NoScan /\ request.scan = items[i].scan /\ items[i].scan \in 0 .. Len(scans)
  BY <1>1 DEF CallsKnown
<1>3. QED
  BY <1>2, Lists DEF NoScan

(* So is the scan a late call names, and an item shows it.                 *)
LEMMA StrayKnown ==
    ASSUME TypeOK, CallsKnown, NEW c \in stray, c.kind = "analyze"
    PROVE  c.scan \in DOMAIN scans /\ \E k \in DOMAIN items : items[k].scan = c.scan
BY Lists DEF CallsKnown, Shown, NoScan

-----------------------------------------------------------------------------
(* Types.                                                                  *)

Requests == [phase : {"none", "sent", "answered"}, tries : 0 .. Attempts, ok : BOOLEAN, scan : Nat]
Calls == [kind : {"upload", "analyze"}, file : Files, scan : Nat, item : Nat, tries : 0 .. Attempts]

(* The values a request takes.                                             *)
LEMMA RequestValues ==
    ASSUME TypeOK
    PROVE  /\ NoRequest \in Requests /\ ScanOfCall \in Nat
           /\ \A n \in 1 .. Attempts, s \in Nat : Sent(n, s) \in Requests
           /\ \A ok \in BOOLEAN, s \in Nat : Answer(ok, s) \in Requests
<1>1. request \in Requests /\ 0 \in 0 .. Attempts /\ (1 .. Attempts) \subseteq (0 .. Attempts) /\ NoScan \in Nat
  BY UploadQueueAssumption DEF TypeOK, Requests, NoScan
<1>2. NoRequest = [phase |-> "none", tries |-> 0, ok |-> FALSE, scan |-> NoScan]
  BY DEF NoRequest
<1>3. NoRequest \in Requests
  BY <1>1, <1>2 DEF Requests
<1>4. request.scan \in Nat /\ ScanOfCall \in Nat
  BY <1>1 DEF Requests, ScanOfCall
<1>5. ASSUME NEW n \in 1 .. Attempts, NEW s \in Nat PROVE Sent(n, s) \in Requests
  BY <1>1, <1>3 DEF Sent, Requests
<1>6. ASSUME NEW ok \in BOOLEAN, NEW s \in Nat PROVE Answer(ok, s) \in Requests
  BY <1>1 DEF Answer, Requests
<1>7. QED
  BY <1>3, <1>4, <1>5, <1>6

(* A call that goes astray names the item at hand.                         *)
LEMMA CallValue ==
    ASSUME TypeOK, LoopPlaced, request.phase # "none"
    PROVE  Call \in Calls
<1>1. pc \in {"upload", "analyze"} /\ i \in Nat /\ request.tries \in 0 .. Attempts
  BY RequestAwaited DEF Awaiting, TypeOK
<1>2. captured[i].file \in Files
  BY RequestAwaited, AtHand, Lists DEF Item
<1>3. QED
  BY <1>1, <1>2, RequestValues DEF Call, Calls

(* Every step keeps the types.                                             *)
LEMMA TypeStep == TypeOK /\ LoopPlaced /\ CallsKnown /\ Next => TypeOK'
<1> SUFFICES ASSUME TypeOK, LoopPlaced, CallsKnown, Next PROVE TypeOK'
  OBVIOUS
<1> DEFINE ItemsTyped == items \in Seq(Item) /\ captured \in Seq(Item) /\ Len(items) <= MaxItems
                         /\ cleared \in 0 .. Len(items)
           ScansTyped == scans \in Seq(Scan)
           LoopTyped  == /\ pc \in {"idle", "next", "upload", "analyze"} /\ i \in Nat
                         /\ firstScanId \in Nat /\ anyDone \in BOOLEAN /\ shown \in Nat
           CallTyped  == request \in Requests
           StrayTyped == stray \subseteq Calls /\ IsFiniteSet(stray)
<1>a. ItemsTyped /\ ScansTyped /\ LoopTyped /\ CallTyped /\ StrayTyped
  BY DEF TypeOK, Scan, Requests, Calls
<1>b. (ItemsTyped /\ ScansTyped /\ LoopTyped /\ CallTyped /\ StrayTyped)' => TypeOK'
  BY DEF TypeOK, Scan, Requests, Calls
<1> HIDE DEF ItemsTyped, ScansTyped, LoopTyped, CallTyped, StrayTyped
<1>1. ItemsTyped'
  <2>1. ASSUME UNCHANGED <<cleared, items, captured>> PROVE ItemsTyped'
    BY <1>a, <2>1 DEF ItemsTyped
  <2>2. ASSUME NEW status \in Statuses, NEW s \in Nat, ItemSetTo(status, s), UNCHANGED <<cleared, captured>>
        PROVE  ItemsTyped'
    BY <1>a, <2>2 DEF ItemsTyped, ItemSetTo
  <2>3. CASE Pick
    BY <1>a, <2>3, ItemPicked, Lists, UploadQueueAssumption DEF Pick, ItemsTyped
  <2>4. CASE Remove
    <3>1. PICK k \in DOMAIN items : items' = Without(k) /\ cleared < k
      BY <2>4, <1>a, Lists DEF Remove, Listed, ItemsTyped
    <3>2. items' \in Seq(Item) /\ Len(items') = Len(items) - 1 /\ Len(items) \in Nat /\ MaxItems \in Nat
      BY <3>1, ItemRemoved, Lists, UploadQueueAssumption
    <3>3. captured' = captured /\ cleared' = cleared
      BY <2>4 DEF Remove
    <3>4. cleared \in 0 .. Len(items) - 1
      BY <1>a, <3>1, <3>2, Lists DEF ItemsTyped
    <3>5. QED
      BY <1>a, <3>2, <3>3, <3>4 DEF ItemsTyped
  <2>5. CASE Clear \/ Start
    BY <1>a, <2>5, Lists DEF Clear, Start, ItemsTyped
  <2>6. CASE Upload
    <3>1. i \in DOMAIN items /\ "uploading" \in Statuses /\ items[i].scan \in Nat
      BY <2>6, AtHand, Lists DEF Upload, Statuses, Item
    <3>2. QED
      BY <2>2, <2>6, <3>1, ItemEdits DEF Upload
  <2>7. CASE Uploaded
    <3>1. i \in DOMAIN items /\ "analyzing" \in Statuses /\ request.scan \in Nat
      BY <2>7, AtHand, <1>a DEF Uploaded, Statuses, Awaiting, CallTyped, Requests
    <3>2. QED
      BY <2>2, <2>7, <3>1, ItemEdits DEF Uploaded
  <2>8. CASE Analyzed
    <3>1. i \in DOMAIN items /\ "done" \in Statuses /\ items[i].scan \in Nat
      BY <2>8, AtHand, Lists DEF Analyzed, Statuses, Awaiting, Item
    <3>2. QED
      BY <2>2, <2>8, <3>1, ItemEdits DEF Analyzed
  <2>9. CASE LoopEnds
    BY <1>a, <2>9, EmptySeq DEF LoopEnds, ItemsTyped
  <2>10. CASE RequestLost \/ AnswerLost \/ Refused
    <3>1. request.phase # "none"
      BY <2>10 DEF RequestLost, AnswerLost, Refused
    <3>2. items[i].scan \in Nat /\ "failed" \in Statuses
      BY <3>1, RequestAwaited, AtHand, Lists DEF Statuses, Item
    <3>3. Again \/ GivenUp
      BY <2>10, <3>1, AttemptOutcome
    <3>4. QED
      BY <2>1, <2>2, <3>2, <3>3 DEF Again, GivenUp, page
  <2>11. CASE SkipItem \/ AnswerCut \/ HandleUpload \/ HandleAnalyze \/ Refuse \/ HandleStray \/ JobEnds
    BY <2>1, <2>11 DEF SkipItem, AnswerCut, HandleUpload, HandleAnalyze, Refuse, HandleStray,
       JobEnds, page
  <2>12. QED
    BY <2>3, <2>4, <2>5, <2>6, <2>7, <2>8, <2>9, <2>10, <2>11 DEF Next, User, Loop, Network, Engine
<1>2. ScansTyped'
  <2>1. ASSUME UNCHANGED scans PROVE ScansTyped'
    BY <1>a, <2>1 DEF ScansTyped
  <2>2. CASE HandleUpload
    <3>1. captured[i].file \in Files
      BY <2>2, AtHand, Lists DEF HandleUpload, Awaiting, Item
    <3>2. QED
      BY <2>2, <3>1, ScanAdded DEF HandleUpload, ScansTyped
  <2>3. CASE HandleAnalyze
    BY <2>3, AnalysedKnown, Analysed DEF HandleAnalyze, ScansTyped
  <2>4. CASE HandleStray
    <3>1. PICK c \in stray : scans' = IF c.kind = "upload" THEN UploadScan(c.file) ELSE Analyze(c.scan)
      BY <2>4 DEF HandleStray
    <3>2. c.file \in Files /\ c.kind \in {"upload", "analyze"}
      BY <1>a DEF StrayTyped, Calls
    <3>3. CASE c.kind = "upload"
      BY <3>1, <3>2, <3>3, ScanAdded DEF ScansTyped
    <3>4. CASE c.kind = "analyze"
      BY <3>1, <3>4, StrayKnown, Analysed DEF ScansTyped
    <3>5. QED
      BY <3>2, <3>3, <3>4
  <2>5. CASE JobEnds
    BY <2>5, ScanEdits DEF JobEnds, ScanSetTo, ScansTyped, ScanStatuses
  <2>6. CASE RequestLost \/ AnswerLost \/ AnswerCut \/ Refuse
    BY <2>1, <2>6 DEF RequestLost, AnswerLost, AnswerCut, Refuse
  <2>7. CASE User \/ Loop
    BY <2>1, <2>7 DEF User, Loop, Pick, Remove, Clear, Start, SkipItem, Upload, Uploaded, Analyzed,
       Refused, LoopEnds
  <2>8. QED
    BY <2>2, <2>3, <2>4, <2>5, <2>6, <2>7 DEF Next, Network, Engine
<1>3. LoopTyped'
  <2>1. request.scan \in Nat /\ i + 1 \in Nat /\ i \in Nat
    BY <1>a DEF CallTyped, Requests, LoopTyped
  <2>2. CASE User
    <3>1. i' = i \/ i' = cleared + 1
      BY <2>2 DEF User, Pick, Remove, Clear, Start
    <3>2. i' \in Nat
      BY <2>1, <3>1 DEF TypeOK
    <3>3. UNCHANGED <<firstScanId, anyDone, shown>> /\ (pc' = pc \/ pc' = "next")
      BY <2>2 DEF User, Pick, Remove, Clear, Start
    <3>4. QED
      BY <1>a, <3>2, <3>3 DEF LoopTyped
  <2>3. CASE SkipItem \/ Upload \/ Uploaded \/ Analyzed \/ LoopEnds
    <3>1. CASE SkipItem \/ Upload
      BY <1>a, <2>1, <3>1 DEF SkipItem, Upload, LoopTyped
    <3>2. CASE Uploaded \/ Analyzed
      BY <1>a, <2>1, <3>2 DEF Uploaded, Analyzed, LoopTyped
    <3>3. CASE LoopEnds
      BY <1>a, <3>3 DEF LoopEnds, LoopTyped, NoScan
    <3>4. QED
      BY <2>3, <3>1, <3>2, <3>3
  <2>4. CASE RequestLost \/ AnswerLost \/ Refused
    <3>1. request.phase # "none"
      BY <2>4 DEF RequestLost, AnswerLost, Refused
    <3>2. Again \/ GivenUp
      BY <2>4, <3>1, AttemptOutcome
    <3>3. QED
      BY <1>a, <2>1, <3>2 DEF Again, GivenUp, page, LoopTyped
  <2>5. CASE AnswerCut \/ HandleUpload \/ HandleAnalyze \/ Refuse \/ Engine
    BY <1>a, <2>5 DEF AnswerCut, HandleUpload, HandleAnalyze, Refuse, Engine, HandleStray, JobEnds,
       page, LoopTyped
  <2>6. QED
    BY <2>2, <2>3, <2>4, <2>5 DEF Next, Loop, Network
<1>4. CallTyped'
  <2>1. ASSUME UNCHANGED request PROVE CallTyped'
    BY <1>a, <2>1 DEF CallTyped
  <2>2. request.scan \in Nat /\ Len(scans) + 1 \in Nat /\ 1 \in 1 .. Attempts
    BY <1>a, Lists, UploadQueueAssumption DEF CallTyped, Requests
  <2>3. CASE RequestLost \/ AnswerLost
    <3>1. request.phase # "none"
      BY <2>3 DEF RequestLost, AnswerLost
    <3>2. Again \/ GivenUp
      BY <2>3, <3>1, AttemptOutcome
    <3>3. request.tries < Attempts => request.tries + 1 \in 1 .. Attempts
      BY <3>1, RequestAwaited, UploadQueueAssumption
    <3>4. QED
      BY <3>2, <3>3, RequestValues DEF Again, GivenUp, CallTyped
  <2>4. CASE AnswerCut \/ Refuse \/ HandleUpload \/ HandleAnalyze
    BY <2>2, <2>4, RequestValues DEF AnswerCut, Refuse, HandleUpload, HandleAnalyze, CallTyped
  <2>5. CASE Upload \/ Uploaded \/ Analyzed \/ Refused
    BY <2>2, <2>5, RequestValues DEF Upload, Uploaded, Analyzed, Refused, ItemFails, CallTyped,
       NoScan
  <2>6. CASE User \/ SkipItem \/ LoopEnds \/ Engine
    BY <2>1, <2>6 DEF User, Pick, Remove, Clear, Start, SkipItem, LoopEnds, Engine, HandleStray, JobEnds
  <2>7. QED
    BY <2>3, <2>4, <2>5, <2>6 DEF Next, Loop, Network
<1>5. StrayTyped'
  <2>1. ASSUME UNCHANGED stray PROVE StrayTyped'
    BY <1>a, <2>1 DEF StrayTyped
  <2>2. CASE RequestLost
    <3>1. request.phase # "none" /\ stray' \in {stray, stray \cup {Call}}
      BY <2>2 DEF RequestLost
    <3>2. QED
      BY <1>a, <3>1, CallValue, FS_AddElement DEF StrayTyped
  <2>3. CASE HandleStray
    BY <1>a, <2>3, FS_RemoveElement DEF HandleStray, StrayTyped
  <2>4. CASE AnswerLost \/ AnswerCut \/ HandleUpload \/ HandleAnalyze \/ Refuse \/ JobEnds
    BY <2>1, <2>4 DEF AnswerLost, AnswerCut, HandleUpload, HandleAnalyze, Refuse, JobEnds
  <2>5. CASE User \/ Loop
    BY <2>1, <2>5 DEF User, Loop, Pick, Remove, Clear, Start, SkipItem, Upload, Uploaded, Analyzed,
       Refused, LoopEnds
  <2>6. QED
    BY <2>2, <2>3, <2>4, <2>5 DEF Next, Network, Engine
<1>6. QED
  BY <1>1, <1>2, <1>3, <1>4, <1>5, <1>b

-----------------------------------------------------------------------------
(* What each action does to the list, said once.                           *)
Unmoved == UNCHANGED <<items, captured, i, pc, firstScanId, anyDone, shown>>

(* Every step is one of these.                                             *)
LEMMA ActionEffects ==
    ASSUME TypeOK, LoopPlaced, Next
    PROVE  \/ /\ Pick /\ Len(items') = Len(items) + 1 /\ DOMAIN items' = 1 .. Len(items) + 1
              /\ \A k \in DOMAIN items : items'[k] = items[k]
              /\ items'[Len(items) + 1].status = "queued" /\ items'[Len(items) + 1].scan = NoScan
           \/ /\ Remove
              /\ \E k \in DOMAIN items :
                    /\ items[k].status = "queued" /\ Len(items') = Len(items) - 1
                    /\ DOMAIN items' = 1 .. Len(items) - 1
                    /\ \A j \in 1 .. Len(items) - 1 : items'[j] = items[Moved(k, j)]
           \/ Clear /\ Unmoved
           \/ Start
           \/ SkipItem
           \/ Upload /\ ItemSetTo("uploading", items[i].scan)
           \/ Uploaded /\ ItemSetTo("analyzing", request.scan)
           \/ Analyzed /\ ItemSetTo("done", items[i].scan)
           \/ LoopEnds
           \/ /\ Again /\ request.phase # "none" /\ UNCHANGED scans
              /\ stray' = stray \/ (request.phase = "sent" /\ stray' = stray \cup {Call})
           \/ /\ GivenUp /\ request.phase # "none" /\ UNCHANGED scans
              /\ stray' = stray \/ (request.phase = "sent" /\ stray' = stray \cup {Call})
           \/ AnswerCut /\ Unmoved
           \/ HandleUpload /\ Unmoved
           \/ HandleAnalyze /\ Unmoved
           \/ Refuse /\ Unmoved
           \/ HandleStray /\ Unmoved
           \/ JobEnds /\ Unmoved
<1>1. ASSUME Pick
      PROVE  /\ Len(items') = Len(items) + 1 /\ DOMAIN items' = 1 .. Len(items) + 1
             /\ \A k \in DOMAIN items : items'[k] = items[k]
             /\ items'[Len(items) + 1].status = "queued" /\ items'[Len(items) + 1].scan = NoScan
  BY <1>1, ItemPicked DEF Pick
<1>2. ASSUME Remove
      PROVE  \E k \in DOMAIN items :
                    /\ items[k].status = "queued" /\ Len(items') = Len(items) - 1
                    /\ DOMAIN items' = 1 .. Len(items) - 1
                    /\ \A j \in 1 .. Len(items) - 1 : items'[j] = items[Moved(k, j)]
  <2>1. Listed \subseteq DOMAIN items
    BY Lists DEF Listed, TypeOK
  <2>2. PICK k \in DOMAIN items : items[k].status = "queued" /\ items' = Without(k)
    BY <1>2, <2>1 DEF Remove
  <2>3. QED
    BY <2>2, ItemRemoved
<1>3. ASSUME Upload PROVE ItemSetTo("uploading", items[i].scan)
  <2>1. i \in DOMAIN items /\ "uploading" \in Statuses
    BY <1>3, AtHand DEF Upload, Statuses
  <2>2. QED
    BY <1>3, <2>1, ItemEdits DEF Upload
<1>4. ASSUME Uploaded PROVE ItemSetTo("analyzing", request.scan)
  <2>1. i \in DOMAIN items /\ "analyzing" \in Statuses /\ request.scan \in Nat
    BY <1>4, AtHand DEF Uploaded, Statuses, Awaiting, TypeOK
  <2>2. QED
    BY <1>4, <2>1, ItemEdits DEF Uploaded
<1>5. ASSUME Analyzed PROVE ItemSetTo("done", items[i].scan)
  <2>1. i \in DOMAIN items /\ "done" \in Statuses
    BY <1>5, AtHand DEF Analyzed, Statuses, Awaiting
  <2>2. QED
    BY <1>5, <2>1, ItemEdits DEF Analyzed
<1>6. ASSUME RequestLost \/ AnswerLost \/ Refused
      PROVE  /\ Again \/ GivenUp
             /\ request.phase # "none" /\ UNCHANGED scans
             /\ stray' = stray \/ (request.phase = "sent" /\ stray' = stray \cup {Call})
  <2>1. request.phase # "none"
    BY <1>6 DEF RequestLost, AnswerLost, Refused
  <2>2. QED
    BY <1>6, <2>1, AttemptOutcome
<1>7. ASSUME Clear \/ AnswerCut \/ HandleUpload \/ HandleAnalyze \/ Refuse \/ HandleStray \/ JobEnds
      PROVE  Unmoved
  BY <1>7 DEF Clear, AnswerCut, HandleUpload, HandleAnalyze, Refuse, HandleStray, JobEnds, page, Unmoved
<1>8. QED
  BY <1>1, <1>2, <1>3, <1>4, <1>5, <1>6, <1>7 DEF Next, User, Loop, Network, Engine

-----------------------------------------------------------------------------
(* The loop's index and item stay consistent with the captured list.       *)
LEMMA PlacedStep == TypeOK /\ LoopPlaced /\ Next => LoopPlaced'
<1> SUFFICES ASSUME TypeOK, LoopPlaced, Next PROVE LoopPlaced'
  OBVIOUS
<1> DEFINE InLoop == i \in cleared + 1 .. Len(captured) + 1 /\ Len(captured) <= Len(items) /\ Here
           Idle == captured = <<>> /\ i = 0 /\ firstScanId = NoScan /\ ~anyDone
           Asked == i <= Len(captured) /\ request.phase # "none" /\ request.tries >= 1
<1> USE DEF Running, Awaiting
<1>a. /\ pc # "idle" => InLoop
      /\ pc = "idle" => Idle
      /\ pc \in {"upload", "analyze"} => Asked
      /\ pc \notin {"upload", "analyze"} => request = NoRequest
  BY DEF LoopPlaced
<1>b. ASSUME pc' # "idle" => InLoop', pc' = "idle" => Idle',
             pc' \in {"upload", "analyze"} => Asked', pc' \notin {"upload", "analyze"} => request' = NoRequest
      PROVE  LoopPlaced'
  BY <1>b DEF LoopPlaced
<1>c. Len(items) \in Nat /\ Len(captured) \in Nat /\ cleared \in 0 .. Len(items)
  BY Lists DEF TypeOK
<1>d. \A s \in Nat : Sent(1, s).phase # "none" /\ Sent(1, s).tries = 1
  BY DEF Sent, NoRequest
<1>e. ASSUME UNCHANGED <<cleared, captured, i, pc, firstScanId, anyDone, shown, request>>, Len(items') >= Len(captured)
      PROVE  LoopPlaced'
  <2>1. InLoop => InLoop'
    BY <1>e, Lists DEF Here
  <2>2. QED
    BY <1>a, <1>b, <1>e, <2>1
<1>1. CASE Pick /\ Len(items') = Len(items) + 1
  <2>1. Len(items') >= Len(captured)
    <3>1. pc = "idle" => Len(captured) = 0
      BY <1>a
    <3>2. QED
      BY <1>a, <1>c, <1>1, <3>1
  <2>2. QED
    BY <1>e, <1>1, <2>1 DEF Pick
<1>2. CASE Remove /\ Len(items') = Len(items) - 1 /\ items # <<>>
  <2>1. pc = "idle" /\ captured = <<>> /\ Len(items) >= 1
    BY <1>a, <1>2, Lists, EmptySeq DEF Remove
  <2>2. Len(items') >= Len(captured)
    BY <1>c, <1>2, <2>1
  <2>3. QED
    BY <1>e, <1>2, <2>2 DEF Remove
<1>3. CASE Start
  BY <1>a, <1>b, <1>c, <1>3 DEF Start, Here
<1>4. CASE SkipItem
  BY <1>a, <1>b, <1>c, <1>4 DEF SkipItem, Here
<1>5. CASE Upload /\ ItemSetTo("uploading", items[i].scan)
  BY <1>a, <1>b, <1>c, <1>d, <1>5 DEF Upload, Here, ItemSetTo, NoScan
<1>6. CASE Uploaded /\ ItemSetTo("analyzing", request.scan)
  <2>1. request.scan \in Nat
    BY DEF TypeOK
  <2>2. QED
    BY <1>a, <1>b, <1>c, <1>d, <1>6, <2>1 DEF Uploaded, Here, ItemSetTo
<1>7. CASE Analyzed /\ ItemSetTo("done", items[i].scan)
  BY <1>a, <1>b, <1>c, <1>7 DEF Analyzed, Here, ItemSetTo
<1>8. CASE LoopEnds
  BY <1>a, <1>b, <1>8 DEF LoopEnds
<1>9. CASE Again /\ request.phase # "none"
  <2>1. request.tries \in Nat
    BY <1>9, RequestAwaited
  <2>2. request'.phase = "sent" /\ request'.tries = request.tries + 1
    BY <1>9 DEF Again, Sent, NoRequest
  <2>3. UNCHANGED <<items, cleared, captured, i, pc, firstScanId, anyDone, shown>>
    BY <1>9 DEF Again, page
  <2>4. pc \in {"upload", "analyze"}
    BY <1>9, RequestAwaited
  <2>5. QED
    BY <1>a, <1>b, <2>1, <2>2, <2>3, <2>4 DEF Here
<1>10. CASE GivenUp /\ request.phase # "none"
  <2>1. i + 1 \in cleared + 1 .. Len(captured) + 1 /\ pc # "idle"
    BY <1>10, RequestAwaited, AtHand
  <2>2. QED
    BY <1>a, <1>b, <1>10, <2>1 DEF GivenUp, Here, ItemSetTo
<1>11. ASSUME NEW ok, NEW s, request' = Answer(ok, s), UNCHANGED page, request.phase # "none"
      PROVE  LoopPlaced'
  <2>1. request'.phase = "answered" /\ request'.tries = request.tries /\ request.tries \in Nat
    BY <1>11 DEF Answer, TypeOK
  <2>2. UNCHANGED <<items, cleared, captured, i, pc, firstScanId, anyDone, shown>>
    BY <1>11 DEF page
  <2>3. pc \in {"upload", "analyze"}
    BY <1>11, RequestAwaited
  <2>4. QED
    BY <1>a, <1>b, <2>1, <2>2, <2>3 DEF Here
<1>12. CASE (AnswerCut \/ HandleUpload \/ HandleAnalyze \/ Refuse) /\ Unmoved
  BY <1>11, <1>12 DEF AnswerCut, HandleUpload, HandleAnalyze, Refuse
<1>13. CASE (HandleStray \/ JobEnds) /\ Unmoved
  BY <1>a, <1>b, <1>13 DEF HandleStray, JobEnds, page, Here
<1>14. Remove => items # <<>>
  <2>1. ASSUME items = <<>> PROVE Listed = {}
    BY <1>c, <2>1, Lists, EmptySeq DEF Listed
  <2>2. QED
    BY <2>1 DEF Remove
<1>15. CASE Clear
  BY <1>a, <1>b, <1>15 DEF Clear
<1>16. QED
  BY <1>1, <1>2, <1>3, <1>4, <1>5, <1>6, <1>7, <1>8, <1>9, <1>10, <1>12, <1>13, <1>14, <1>15,
     ActionEffects

-----------------------------------------------------------------------------
(* The item at hand is set: the items before it and behind it are as they  *)
(* were, and it alone may be under way.                                    *)
LEMMA UnderWaySet ==
    ASSUME TypeOK, LoopPlaced, ItemsUnderWay, i \in DOMAIN items, i \in DOMAIN captured,
           NEW status \in Statuses, NEW s \in Nat, ItemSetTo(status, s), captured' = captured,
           \/ status = "uploading" /\ pc' = "upload" /\ i' = i /\ s = NoScan
           \/ status = "analyzing" /\ pc' = "analyze" /\ i' = i
           \/ status \in {"done", "failed"} /\ pc' = "next" /\ i' = i + 1
    PROVE  ItemsUnderWay'
<1> DEFINE T(k) == /\ items[k].status = "uploading" <=> pc = "upload" /\ k = i
                   /\ items[k].status = "analyzing" <=> pc = "analyze" /\ k = i
                   /\ items[k].status \in {"queued", "uploading"} => items[k].scan = NoScan
           C(k) == /\ items[k].file = captured[k].file
                   /\ k > i \/ (k = i /\ pc = "next") => items[k] = captured[k]
<1>1. /\ \A k \in DOMAIN items : T(k)
      /\ \A k \in DOMAIN captured : C(k)
  BY DEF ItemsUnderWay
<1>2. i \in Nat /\ DOMAIN items \subseteq Nat /\ DOMAIN captured \subseteq DOMAIN items
      /\ DOMAIN items' = DOMAIN items
  <2>1. Len(captured) <= Len(items)
    <3>1. CASE Running
      BY <3>1 DEF LoopPlaced
    <3>2. CASE ~Running
      <4>1. captured = <<>>
        BY <3>2 DEF LoopPlaced
      <4>2. QED
        BY <4>1, Lists, EmptySeq
    <3>3. QED
      BY <3>1, <3>2
  <2>2. i \in Nat
    BY DEF TypeOK
  <2>3. QED
    BY <2>1, <2>2, Lists DEF ItemSetTo
<1>3. items'[i].file = items[i].file /\ items'[i].status = status /\ items'[i].scan = s
  BY DEF ItemSetTo
<1>4. \A k \in DOMAIN items : k # i => items'[k] = items[k]
  BY DEF ItemSetTo
<1>5. ASSUME NEW k \in DOMAIN items PROVE T(k)'
  <2>1. CASE k = i
    BY <1>2, <1>3, <2>1 DEF NoScan
  <2>2. CASE k # i
    <3>1. items'[k] = items[k] /\ T(k)
      BY <1>1, <1>4, <2>2
    <3>2. items[k].status \notin {"uploading", "analyzing"}
      BY <2>2, <3>1
    <3>3. k # i' \/ pc' = "next"
      BY <2>2
    <3>4. QED
      BY <3>1, <3>2, <3>3
  <2>3. QED
    BY <2>1, <2>2
<1>6. ASSUME NEW k \in DOMAIN captured PROVE C(k)'
  <2>1. CASE k = i
    BY <1>1, <1>2, <1>3, <2>1
  <2>2. CASE k # i
    <3>1. items'[k] = items[k] /\ C(k) /\ k \in Nat
      BY <1>1, <1>2, <1>4, <2>2
    <3>2. (k > i' \/ (k = i' /\ pc' = "next")) => k > i
      BY <1>2, <2>2, <3>1
    <3>3. QED
      BY <3>1, <3>2
  <2>3. QED
    BY <2>1, <2>2
<1>7. QED
  BY <1>2, <1>5, <1>6 DEF ItemsUnderWay

(* One item at most is under way, and those behind it are as captured.     *)
LEMMA UnderWayStep == TypeOK /\ LoopPlaced /\ ItemsUnderWay /\ Next => ItemsUnderWay'
<1> SUFFICES ASSUME TypeOK, LoopPlaced, ItemsUnderWay, Next PROVE ItemsUnderWay'
  OBVIOUS
<1>a. /\ i \in Nat /\ Len(items) \in Nat /\ DOMAIN items = 1 .. Len(items)
      /\ Len(captured) \in Nat /\ DOMAIN captured = 1 .. Len(captured)
      /\ pc # "idle" => DOMAIN captured \subseteq DOMAIN items
      /\ pc = "idle" => captured = <<>> /\ DOMAIN captured = {}
  <2>1. pc = "idle" => captured = <<>>
    BY DEF LoopPlaced, Running
  <2>2. DOMAIN <<>> = {}
    OBVIOUS
  <2>3. pc # "idle" => Len(captured) <= Len(items)
    BY DEF LoopPlaced, Running
  <2>4. QED
    BY <2>1, <2>2, <2>3, Lists DEF TypeOK
<1>b. ASSUME UNCHANGED <<items, captured, i, pc>> PROVE ItemsUnderWay'
  BY <1>b DEF ItemsUnderWay
<1>1. CASE /\ Pick /\ Len(items') = Len(items) + 1 /\ DOMAIN items' = 1 .. Len(items) + 1
           /\ \A k \in DOMAIN items : items'[k] = items[k]
           /\ items'[Len(items) + 1].status = "queued" /\ items'[Len(items) + 1].scan = NoScan
  <2>1. UNCHANGED <<captured, i, pc>>
    BY <1>1 DEF Pick
  <2>2. pc \in {"upload", "analyze"} => i # Len(items) + 1
    <3>1. pc \in {"upload", "analyze"} => i <= Len(items)
      BY AtHand DEF Awaiting
    <3>2. QED
      BY <1>a, <3>1
  <2>3. \A k \in DOMAIN items' : k \in DOMAIN items \/ k = Len(items) + 1
    BY <1>1, <1>a
  <2>4. DOMAIN captured \subseteq DOMAIN items
    BY <1>a
  <2>5. QED
    BY <1>1, <2>1, <2>2, <2>3, <2>4 DEF ItemsUnderWay
<1>2. CASE /\ Remove
           /\ \E k \in DOMAIN items :
                    /\ items[k].status = "queued" /\ Len(items') = Len(items) - 1
                    /\ DOMAIN items' = 1 .. Len(items) - 1
                    /\ \A j \in 1 .. Len(items) - 1 : items'[j] = items[Moved(k, j)]
  <2>1. UNCHANGED <<captured, pc>> /\ pc = "idle" /\ DOMAIN captured = {}
    BY <1>2, <1>a DEF Remove, Running
  <2>2. PICK k \in DOMAIN items : /\ DOMAIN items' = 1 .. Len(items) - 1
                                  /\ \A j \in 1 .. Len(items) - 1 : items'[j] = items[Moved(k, j)]
    BY <1>2
  <2>3. \A j \in DOMAIN items' : Moved(k, j) \in DOMAIN items /\ items'[j] = items[Moved(k, j)]
    BY <1>a, <2>2 DEF Moved
  <2>4. QED
    BY <2>1, <2>3 DEF ItemsUnderWay
<1>3. CASE Start
  BY <1>3, <1>a DEF Start, ItemsUnderWay, Running
<1>4. CASE SkipItem
  BY <1>4, <1>a DEF SkipItem, ItemsUnderWay
<1>5. CASE Upload /\ ItemSetTo("uploading", items[i].scan)
  <2>1. pc = "next" /\ i <= Len(captured) /\ ~Settled(captured[i].status)
    BY <1>5 DEF Upload
  <2>2. i \in DOMAIN items /\ i \in DOMAIN captured
    BY <2>1, AtHand
  <2>3. items[i] = captured[i] /\ items[i].status \in Statuses
    BY <2>1, <2>2, Lists DEF ItemsUnderWay, Item
  <2>4. items[i].status = "queued"
    BY <2>1, <2>2, <2>3 DEF ItemsUnderWay, Settled, Statuses
  <2>5. items[i].scan = NoScan /\ NoScan \in Nat /\ "uploading" \in Statuses
    BY <2>2, <2>4 DEF ItemsUnderWay, NoScan, Statuses
  <2>6. captured' = captured /\ pc' = "upload" /\ i' = i
    BY <1>5 DEF Upload
  <2>7. QED
    BY <1>5, <2>2, <2>5, <2>6, UnderWaySet
<1>6. CASE Uploaded /\ ItemSetTo("analyzing", request.scan)
  <2>1. i \in DOMAIN items /\ i \in DOMAIN captured /\ request.scan \in Nat /\ "analyzing" \in Statuses
    BY <1>6, AtHand DEF Uploaded, Awaiting, TypeOK, Statuses
  <2>2. captured' = captured /\ pc' = "analyze" /\ i' = i
    BY <1>6 DEF Uploaded
  <2>3. QED
    BY <1>6, <2>1, <2>2, UnderWaySet
<1>7. CASE Analyzed /\ ItemSetTo("done", items[i].scan)
  <2>1. i \in DOMAIN items /\ i \in DOMAIN captured /\ items[i].scan \in Nat /\ "done" \in Statuses
    BY <1>7, AtHand, Lists DEF Analyzed, Awaiting, Item, Statuses
  <2>2. captured' = captured /\ pc' = "next" /\ i' = i + 1
    BY <1>7 DEF Analyzed
  <2>3. QED
    BY <1>7, <2>1, <2>2, UnderWaySet
<1>8. CASE LoopEnds
  <2>1. DOMAIN captured' = {} /\ items' = items /\ pc' = "idle" /\ pc = "next"
    BY <1>8 DEF LoopEnds
  <2>2. QED
    BY <2>1 DEF ItemsUnderWay
<1>9. CASE Again
  BY <1>b, <1>9 DEF Again, page
<1>10. CASE GivenUp /\ request.phase # "none"
  <2>1. i \in DOMAIN items /\ i \in DOMAIN captured /\ items[i].scan \in Nat /\ "failed" \in Statuses
    BY <1>10, RequestAwaited, AtHand, Lists DEF Item, Statuses
  <2>2. captured' = captured /\ pc' = "next" /\ i' = i + 1 /\ ItemSetTo("failed", items[i].scan)
    BY <1>10 DEF GivenUp
  <2>3. QED
    BY <2>1, <2>2, UnderWaySet
<1>11. CASE Unmoved
  BY <1>b, <1>11 DEF Unmoved
<1>12. QED
  BY <1>1, <1>2, <1>3, <1>4, <1>5, <1>6, <1>7, <1>8, <1>9, <1>10, <1>11, ActionEffects

-----------------------------------------------------------------------------
(* What was said of a scan stays true: it keeps its capture, is never      *)
(* uploaded again, and an item that shows it goes on showing it.           *)
ScansGrow ==
    /\ Len(scans') >= Len(scans) /\ DOMAIN scans \subseteq DOMAIN scans'
    /\ \A k \in DOMAIN scans : /\ scans'[k].file = scans[k].file
                               /\ scans[k].status # "uploaded" => scans'[k].status # "uploaded"

(* Every step only adds scans or moves them past uploaded.                 *)
LEMMA ScansKept == TypeOK /\ LoopPlaced /\ CallsKnown /\ Next => ScansGrow
<1> SUFFICES ASSUME TypeOK, LoopPlaced, CallsKnown, Next PROVE ScansGrow
  OBVIOUS
<1>a. Len(scans) \in Nat /\ DOMAIN scans = 1 .. Len(scans)
  BY Lists
<1>1. ASSUME UNCHANGED scans PROVE ScansGrow
  BY <1>1, <1>a DEF ScansGrow
<1>2. ASSUME NEW f \in Files, scans' = UploadScan(f) PROVE ScansGrow
  <2>1. Len(scans') = Len(scans) + 1 /\ DOMAIN scans' = 1 .. Len(scans) + 1
        /\ \A k \in DOMAIN scans : scans'[k] = scans[k]
    BY <1>2, ScanAdded
  <2>2. QED
    BY <1>a, <2>1 DEF ScansGrow
<1>3. ASSUME NEW k \in DOMAIN scans, scans' = Analyze(k) PROVE ScansGrow
  <2>1. /\ Len(scans') = Len(scans) /\ DOMAIN scans' = DOMAIN scans
        /\ \A n \in DOMAIN scans : scans'[n].file = scans[n].file
        /\ \A n \in DOMAIN scans : n # k => scans'[n] = scans[n]
        /\ scans'[k].status # "uploaded"
    BY <1>3, Analysed
  <2>2. QED
    BY <1>a, <2>1 DEF ScansGrow
<1>4. CASE HandleUpload
  <2>1. captured[i].file \in Files
    BY <1>4, AtHand, Lists DEF HandleUpload, Awaiting, Item
  <2>2. QED
    BY <1>2, <1>4, <2>1 DEF HandleUpload
<1>5. CASE HandleAnalyze
  BY <1>3, <1>5, AnalysedKnown DEF HandleAnalyze
<1>6. CASE HandleStray
  <2>1. PICK c \in stray : scans' = IF c.kind = "upload" THEN UploadScan(c.file) ELSE Analyze(c.scan)
    BY <1>6 DEF HandleStray
  <2>2. c.file \in Files /\ c.kind \in {"upload", "analyze"}
    BY DEF TypeOK
  <2>3. CASE c.kind = "upload"
    BY <1>2, <2>1, <2>2, <2>3
  <2>4. CASE c.kind = "analyze"
    BY <1>3, <2>1, <2>4, StrayKnown
  <2>5. QED
    BY <2>2, <2>3, <2>4
<1>7. CASE JobEnds
  <2>1. PICK k \in DOMAIN scans, end \in {"complete", "failed"} : scans' = [scans EXCEPT ![k].status = end]
    BY <1>7 DEF JobEnds
  <2>2. ScanSetTo(k, end) /\ end # "uploaded"
    BY <2>1, ScanEdits DEF ScanStatuses
  <2>3. QED
    BY <1>a, <2>2 DEF ScanSetTo, ScansGrow
<1>8. CASE RequestLost \/ AnswerLost \/ AnswerCut \/ Refuse \/ User \/ Loop
  BY <1>1, <1>8 DEF RequestLost, AnswerLost, AnswerCut, Refuse, User, Loop, Pick, Remove, Clear, Start,
     SkipItem, Upload, Uploaded, Analyzed, Refused, LoopEnds
<1>9. QED
  BY <1>4, <1>5, <1>6, <1>7, <1>8 DEF Next, Network, Engine

(* A scan that an item shows is shown after every step.                    *)
LEMMA ShownStays ==
    ASSUME TypeOK, LoopPlaced, ItemsUnderWay, Next, NEW s, Shown(s)
    PROVE  Shown(s)'
<1>1. PICK n \in DOMAIN items : items[n].scan = s /\ s # NoScan
  BY DEF Shown
<1>2. ASSUME NEW m \in DOMAIN items', items'[m].scan = s PROVE Shown(s)'
  BY <1>1, <1>2 DEF Shown
<1>3. ASSUME NEW status, ItemSetTo(status, items[i].scan), i \in DOMAIN items PROVE Shown(s)'
  <2>1. n \in DOMAIN items' /\ items'[n].scan = items[n].scan
    BY <1>3 DEF ItemSetTo
  <2>2. QED
    BY <1>1, <1>2, <2>1
<1>4. ASSUME UNCHANGED items PROVE Shown(s)'
  BY <1>1, <1>2, <1>4
<1>5. CASE Pick /\ DOMAIN items' = 1 .. Len(items) + 1 /\ \A k \in DOMAIN items : items'[k] = items[k]
  <2>1. n \in DOMAIN items'
    BY <1>5, Lists
  <2>2. QED
    BY <1>1, <1>2, <1>5, <2>1
<1>6. CASE \E k \in DOMAIN items :
                    /\ items[k].status = "queued" /\ Len(items') = Len(items) - 1
                    /\ DOMAIN items' = 1 .. Len(items) - 1
                    /\ \A j \in 1 .. Len(items) - 1 : items'[j] = items[Moved(k, j)]
  <2>1. PICK k \in DOMAIN items : /\ items[k].status = "queued"
                                  /\ DOMAIN items' = 1 .. Len(items) - 1
                                  /\ \A j \in 1 .. Len(items) - 1 : items'[j] = items[Moved(k, j)]
    BY <1>6
  <2>2. n # k
    BY <1>1, <2>1 DEF ItemsUnderWay
  <2> DEFINE m == IF n < k THEN n ELSE n - 1
  <2>3. m \in 1 .. Len(items) - 1 /\ Moved(k, m) = n
    BY <2>2, Lists DEF Moved
  <2>4. QED
    BY <1>1, <1>2, <2>1, <2>3
<1>7. CASE Upload /\ ItemSetTo("uploading", items[i].scan)
  BY <1>3, <1>7, AtHand DEF Upload
<1>8. CASE Uploaded /\ ItemSetTo("analyzing", request.scan)
  <2>1. i \in DOMAIN items /\ pc = "upload"
    BY <1>8, AtHand DEF Uploaded, Awaiting
  <2>2. items[i].scan = NoScan
    BY <2>1 DEF ItemsUnderWay
  <2>3. n # i /\ n \in DOMAIN items' /\ items'[n] = items[n]
    BY <1>1, <1>8, <2>2 DEF ItemSetTo
  <2>4. QED
    BY <1>1, <1>2, <2>3
<1>9. CASE Analyzed /\ ItemSetTo("done", items[i].scan)
  BY <1>3, <1>9, AtHand DEF Analyzed, Awaiting
<1>10. CASE GivenUp /\ request.phase # "none"
  BY <1>3, <1>10, RequestAwaited, AtHand DEF GivenUp
<1>11. CASE Start \/ SkipItem \/ LoopEnds \/ Again \/ Unmoved
  BY <1>4, <1>11 DEF Start, SkipItem, LoopEnds, Again, page, Unmoved
<1>12. QED
  BY <1>5, <1>6, <1>7, <1>8, <1>9, <1>10, <1>11, ActionEffects

(* While the loop runs, and when the page has gone to a scan, an item that *)
(* shows a scan stays on the list, in its place, and shows it.             *)
LEMMA ListedStays ==
    ASSUME TypeOK, LoopPlaced, ItemsUnderWay, Next, Running \/ ~Here,
           NEW k \in Listed, items[k].scan # NoScan
    PROVE  k \in Listed' /\ items'[k].scan = items[k].scan
<1>1. cleared' = cleared /\ ~Remove /\ ~Clear /\ ~Start
  <2>1. ~Remove /\ ~Clear /\ ~Start
    BY DEF Remove, Clear, Start
  <2>2. CASE User \/ Engine
    BY <2>1, <2>2 DEF User, Pick, Engine, HandleStray, JobEnds, page
  <2>3. CASE Loop
    BY <2>1, <2>3 DEF Loop, SkipItem, Upload, Uploaded, Analyzed, Refused, LoopEnds
  <2>4. CASE Network
    BY <2>1, <2>4 DEF Network, RequestLost, AnswerLost, AnswerCut, HandleUpload, HandleAnalyze, Refuse, page
  <2>5. QED
    BY <2>1, <2>2, <2>3, <2>4 DEF Next
<1>2. /\ Len(items) \in Nat /\ cleared \in Nat /\ k \in cleared + 1 .. Len(items)
      /\ k \in DOMAIN items
  BY Lists DEF TypeOK, Listed
<1>a. ASSUME Len(items') >= Len(items), Len(items') \in Nat PROVE k \in Listed'
  BY <1>1, <1>2, <1>a DEF Listed
<1>b. ASSUME NEW status, NEW s, ItemSetTo(status, s), s = items[i].scan \/ items[i].scan = NoScan
      PROVE  k \in Listed' /\ items'[k].scan = items[k].scan
  <2>1. k \in Listed'
    BY <1>2, <1>a, <1>b DEF ItemSetTo
  <2>2. k = i => items'[k].scan = items[k].scan
    BY <1>b DEF ItemSetTo
  <2>3. k # i => items'[k] = items[k]
    BY <1>2, <1>b DEF ItemSetTo
  <2>4. QED
    BY <2>1, <2>2, <2>3
<1>3. CASE /\ Len(items') = Len(items) + 1 /\ \A n \in DOMAIN items : items'[n] = items[n]
  BY <1>2, <1>3, <1>a
<1>4. CASE Upload /\ ItemSetTo("uploading", items[i].scan)
  BY <1>4, <1>b
<1>5. CASE Uploaded /\ ItemSetTo("analyzing", request.scan)
  <2>1. i \in DOMAIN items /\ pc = "upload"
    BY <1>5, AtHand DEF Uploaded, Awaiting
  <2>2. items[i].scan = NoScan
    BY <2>1 DEF ItemsUnderWay
  <2>3. QED
    BY <1>5, <1>b, <2>2
<1>6. CASE Analyzed /\ ItemSetTo("done", items[i].scan)
  BY <1>6, <1>b
<1>7. CASE GivenUp
  BY <1>7, <1>b DEF GivenUp
<1>8. CASE SkipItem \/ LoopEnds \/ Again \/ Unmoved
  <2>1. items' = items
    BY <1>8 DEF SkipItem, LoopEnds, Again, page, Unmoved
  <2>2. QED
    BY <1>2, <1>a, <2>1
<1>9. QED
  BY <1>1, <1>3, <1>4, <1>5, <1>6, <1>7, <1>8, ActionEffects

-----------------------------------------------------------------------------
(* What a call or an answer speaks of.                                     *)
KnowsUpload ==
    pc = "upload" /\ request.phase = "answered" /\ request.ok =>
        request.scan \in DOMAIN scans /\ scans[request.scan].file = captured[i].file
KnowsAnalyze ==
    pc = "analyze" =>
        /\ request.scan # NoScan /\ request.scan = items[i].scan
        /\ request.phase = "answered" /\ request.ok => scans[request.scan].status # "uploaded"
ScansOfItems == \A k \in DOMAIN items : items[k].scan \in 0 .. Len(scans)

(* What a call that is sent, or answered, says.                            *)
LEMMA SentCalls ==
    /\ \A n, s : Sent(n, s).phase = "sent" /\ Sent(n, s).scan = s
    /\ TypeOK => \A ok, s : /\ Answer(ok, s).phase = "answered"
                            /\ Answer(ok, s).ok = ok /\ Answer(ok, s).scan = s
BY DEF Sent, NoRequest, Answer, TypeOK

(* What a refusal says.                                                    *)
LEMMA RefusedCall ==
    ASSUME TypeOK, NEW s, request' = Answer(FALSE, s)
    PROVE  ~request'.ok /\ request'.scan = s
BY DEF Answer, TypeOK

(* The answer to an upload names a scan of the same file.                  *)
LEMMA KnowsUploadStep ==
    TypeOK /\ LoopPlaced /\ CallsKnown /\ Next => KnowsUpload'
<1> SUFFICES ASSUME TypeOK, LoopPlaced, CallsKnown, Next PROVE KnowsUpload'
  OBVIOUS
<1>a. KnowsUpload /\ ScansGrow
  BY ScansKept DEF CallsKnown, KnowsUpload
<1>b. ASSUME UNCHANGED <<pc, request, captured, i>> PROVE KnowsUpload'
  BY <1>a, <1>b DEF KnowsUpload, ScansGrow
<1>c. ASSUME pc' # "upload" \/ request'.phase = "sent" \/ ~request'.ok PROVE KnowsUpload'
  BY <1>c DEF KnowsUpload
<1>1. CASE HandleUpload
  <2>1. captured[i].file \in Files
    BY <1>1, AtHand, Lists DEF HandleUpload, Awaiting, Item
  <2>2. /\ DOMAIN scans' = 1 .. Len(scans) + 1 /\ Len(scans) \in Nat
        /\ scans'[Len(scans) + 1] = [file |-> captured[i].file, status |-> "uploaded"]
    BY <1>1, <2>1, ScanAdded, Lists DEF HandleUpload
  <2>3. request'.scan = Len(scans) + 1 /\ captured' = captured /\ i' = i
    BY <1>1, SentCalls, ZenonT(40) DEF HandleUpload, page
  <2>4. QED
    BY <2>2, <2>3 DEF KnowsUpload
<1>2. CASE HandleAnalyze \/ AnswerCut \/ Refuse
  <2>1. CASE HandleAnalyze
    BY <1>c, <2>1 DEF HandleAnalyze, page
  <2>2. CASE AnswerCut \/ Refuse
    BY <1>c, <2>2, RefusedCall DEF AnswerCut, Refuse
  <2>3. QED
    BY <1>2, <2>1, <2>2
<1>3. CASE RequestLost \/ AnswerLost
  <2>1. request.phase # "none"
    BY <1>3 DEF RequestLost, AnswerLost
  <2>2. Again \/ GivenUp
    BY <1>3, <2>1, AttemptOutcome
  <2>3. QED
    BY <1>c, <2>2, SentCalls DEF Again, GivenUp
<1>4. CASE Upload \/ Uploaded \/ Analyzed \/ Refused
  BY <1>4, <1>c, SentCalls DEF Upload, Uploaded, Analyzed, Refused, ItemFails
<1>5. CASE Start \/ SkipItem \/ LoopEnds
  BY <1>5, <1>c DEF Start, SkipItem, LoopEnds
<1>6. CASE Pick \/ Remove \/ Clear \/ Engine
  BY <1>6, <1>b DEF Pick, Remove, Clear, Engine, HandleStray, JobEnds, page
<1>7. QED
  BY <1>1, <1>2, <1>3, <1>4, <1>5, <1>6 DEF Next, User, Loop, Network

(* An analyze call is about the scan of the item at hand.                  *)
LEMMA KnowsAnalyzeStep ==
    TypeOK /\ LoopPlaced /\ CallsKnown /\ Next => KnowsAnalyze'
<1> SUFFICES ASSUME TypeOK, LoopPlaced, CallsKnown, Next PROVE KnowsAnalyze'
  OBVIOUS
<1>a. KnowsAnalyze /\ ScansGrow
  BY ScansKept DEF CallsKnown, KnowsAnalyze
<1>b. ASSUME UNCHANGED <<pc, request, i>>, pc = "analyze" => items'[i] = items[i] PROVE KnowsAnalyze'
  BY <1>a, <1>b, AnalysedKnown DEF KnowsAnalyze, ScansGrow
<1>c. ASSUME pc' # "analyze" PROVE KnowsAnalyze'
  BY <1>c DEF KnowsAnalyze
<1>d. ASSUME UNCHANGED <<pc, items, i>>, request'.scan = ScanOfCall, request'.phase = "sent" \/ ~request'.ok
      PROVE  KnowsAnalyze'
  BY <1>a, <1>d DEF KnowsAnalyze, ScanOfCall
<1>1. CASE Pick /\ DOMAIN items' = 1 .. Len(items) + 1 /\ \A k \in DOMAIN items : items'[k] = items[k]
  BY <1>b, <1>1, AtHand DEF Pick, Awaiting
<1>2. CASE Remove \/ Clear \/ Start \/ SkipItem \/ LoopEnds \/ Upload \/ Analyzed \/ GivenUp
  BY <1>c, <1>2 DEF Remove, Clear, Start, SkipItem, LoopEnds, Upload, Analyzed, GivenUp, Running
<1>3. CASE Uploaded /\ ItemSetTo("analyzing", request.scan)
  <2>1. request.scan # NoScan
    BY <1>3, Lists DEF Uploaded, CallsKnown, NoScan
  <2>2. i' = i /\ items'[i].scan = request.scan /\ request'.scan = request.scan /\ request'.phase = "sent"
    BY <1>3, SentCalls DEF Uploaded, ItemSetTo
  <2>3. QED
    BY <2>1, <2>2 DEF KnowsAnalyze
<1>4. CASE Again
  BY <1>d, <1>4, SentCalls DEF Again, page
<1>5. CASE (AnswerCut \/ Refuse) /\ Unmoved
  BY <1>d, <1>5, RefusedCall DEF AnswerCut, Refuse, Unmoved
<1>6. CASE HandleUpload
  BY <1>c, <1>6 DEF HandleUpload, page
<1>7. CASE HandleAnalyze /\ Unmoved
  <2>1. request.scan \in DOMAIN scans /\ request.scan = items[i].scan
    BY <1>7, AnalysedKnown DEF HandleAnalyze
  <2>2. scans'[request.scan].status # "uploaded"
    BY <1>7, <2>1, Analysed DEF HandleAnalyze
  <2>3. request'.scan = request.scan
    BY <1>7, SentCalls DEF HandleAnalyze
  <2>4. request.scan # NoScan
    BY <2>1, Lists DEF NoScan
  <2>5. QED
    BY <1>7, <2>1, <2>2, <2>3, <2>4 DEF KnowsAnalyze, Unmoved
<1>8. CASE (HandleStray \/ JobEnds) /\ Unmoved
  BY <1>b, <1>8 DEF HandleStray, JobEnds, Unmoved
<1>9. QED
  BY <1>1, <1>2, <1>3, <1>4, <1>5, <1>6, <1>7, <1>8, ActionEffects

(* The scans of items are in the engine.                                   *)
LEMMA ScansOfItemsStep ==
    TypeOK /\ LoopPlaced /\ CallsKnown /\ Next => ScansOfItems'
<1> SUFFICES ASSUME TypeOK, LoopPlaced, CallsKnown, Next PROVE ScansOfItems'
  OBVIOUS
<1>a. ScansOfItems /\ Len(scans') >= Len(scans) /\ Len(scans) \in Nat /\ Len(scans') \in Nat
  <2>1. Len(scans') \in Nat
    BY TypeStep, LenProperties DEF TypeOK
  <2>2. QED
    BY <2>1, ScansKept, Lists DEF CallsKnown, ScansOfItems, ScansGrow
<1>b. \A s \in 0 .. Len(scans) : s \in 0 .. Len(scans')
  BY <1>a
<1>c. ASSUME NEW status, NEW s \in 0 .. Len(scans), ItemSetTo(status, s) PROVE ScansOfItems'
  BY <1>a, <1>b, <1>c DEF ScansOfItems, ItemSetTo
<1>1. CASE /\ DOMAIN items' = 1 .. Len(items) + 1 /\ \A k \in DOMAIN items : items'[k] = items[k]
           /\ items'[Len(items) + 1].scan = NoScan
  <2>1. \A k \in DOMAIN items' : k \in DOMAIN items \/ k = Len(items) + 1
    BY <1>1, Lists
  <2>2. NoScan \in 0 .. Len(scans')
    BY <1>a DEF NoScan
  <2>3. QED
    BY <1>a, <1>b, <1>1, <2>1, <2>2 DEF ScansOfItems
<1>2. CASE \E k \in DOMAIN items :
              /\ DOMAIN items' = 1 .. Len(items) - 1
              /\ \A j \in 1 .. Len(items) - 1 : items'[j] = items[Moved(k, j)]
  <2>1. PICK k \in DOMAIN items : /\ DOMAIN items' = 1 .. Len(items) - 1
                                  /\ \A j \in 1 .. Len(items) - 1 : items'[j] = items[Moved(k, j)]
    BY <1>2
  <2>2. \A j \in DOMAIN items' : Moved(k, j) \in DOMAIN items /\ items'[j] = items[Moved(k, j)]
    BY <2>1, Lists DEF Moved
  <2>3. QED
    BY <1>a, <1>b, <2>2 DEF ScansOfItems
<1>3. CASE Upload /\ ItemSetTo("uploading", items[i].scan)
  BY <1>a, <1>c, <1>3, AtHand DEF Upload, ScansOfItems
<1>4. CASE Uploaded /\ ItemSetTo("analyzing", request.scan)
  <2>1. request.scan \in 0 .. Len(scans)
    BY <1>4, Lists DEF Uploaded, CallsKnown
  <2>2. QED
    BY <1>c, <1>4, <2>1
<1>5. CASE Analyzed /\ ItemSetTo("done", items[i].scan)
  BY <1>a, <1>c, <1>5, AtHand DEF Analyzed, Awaiting, ScansOfItems
<1>6. CASE GivenUp /\ request.phase # "none"
  BY <1>a, <1>c, <1>6, RequestAwaited, AtHand DEF GivenUp, ScansOfItems
<1>7. CASE Start \/ SkipItem \/ LoopEnds \/ Again \/ Unmoved
  BY <1>a, <1>b, <1>7 DEF Start, SkipItem, LoopEnds, Again, page, Unmoved, ScansOfItems
<1>8. QED
  BY <1>1, <1>2, <1>3, <1>4, <1>5, <1>6, <1>7, ActionEffects

(* All that calls, answers and late calls speak of is known.               *)
LEMMA CallsKnownStep ==
    TypeOK /\ LoopPlaced /\ ItemsUnderWay /\ CallsKnown /\ Next => CallsKnown'
<1> SUFFICES ASSUME TypeOK, LoopPlaced, ItemsUnderWay, CallsKnown, Next PROVE CallsKnown'
  OBVIOUS
<1>1. KnowsUpload' /\ KnowsAnalyze' /\ ScansOfItems'
  BY KnowsUploadStep, KnowsAnalyzeStep, ScansOfItemsStep
<1>2. (firstScanId # NoScan => \E k \in Listed : items[k].scan = firstScanId)'
  <2>1. CASE UNCHANGED firstScanId
    <3>1. firstScanId # NoScan => Running
      BY DEF LoopPlaced
    <3>2. QED
      BY <2>1, <3>1, ListedStays DEF CallsKnown
  <2>2. CASE LoopEnds
    BY <2>2 DEF LoopEnds
  <2>3. CASE Uploaded
    <3>1. CASE firstScanId' = firstScanId
      BY <3>1, <2>1
    <3>2. CASE firstScanId' = request.scan
      <4>1. i \in DOMAIN items /\ i \in Listed /\ "analyzing" \in Statuses /\ request.scan \in Nat
        BY <2>3, AtHand DEF Uploaded, Awaiting, Statuses, TypeOK
      <4>2. ItemSetTo("analyzing", request.scan)
        BY <2>3, <4>1, ItemEdits DEF Uploaded
      <4>3. Listed' = Listed /\ items'[i].scan = request.scan
        BY <2>3, <4>2 DEF Uploaded, Listed, ItemSetTo
      <4>4. QED
        BY <3>2, <4>1, <4>3
    <3>3. QED
      BY <2>3, <3>1, <3>2 DEF Uploaded
  <2>4. CASE User \/ SkipItem \/ Upload \/ Analyzed \/ Refused
    BY <2>1, <2>4 DEF User, Pick, Remove, Clear, Start, SkipItem, Upload, Analyzed, Refused
  <2>5. CASE Network \/ Engine
    BY <2>1, <2>5 DEF Network, Engine, RequestLost, AnswerLost, AnswerCut, HandleUpload,
       HandleAnalyze,
       Refuse, HandleStray, JobEnds, page
  <2>6. QED
    BY <2>2, <2>3, <2>4, <2>5 DEF Next, Loop
<1>3. (\A c \in stray : c.kind = "analyze" => Shown(c.scan))'
  <2>1. ASSUME NEW c \in stray', c.kind = "analyze" PROVE Shown(c.scan)'
    <3>1. CASE c \in stray
      BY <2>1, <3>1, ShownStays DEF CallsKnown
    <3>2. CASE c = Call /\ request.phase = "sent"
      <4>1. pc = "analyze" /\ c.scan = request.scan
        BY <2>1, <3>2 DEF Call, ScanOfCall
      <4>2. i \in DOMAIN items /\ request.scan = items[i].scan /\ request.scan # NoScan
        BY <4>1, AtHand DEF CallsKnown, Awaiting
      <4>3. Shown(c.scan)
        BY <4>1, <4>2 DEF Shown
      <4>4. QED
        BY <4>3, ShownStays
    <3>3. stray' \subseteq stray \/ (request.phase = "sent" /\ stray' = stray \cup {Call})
      BY DEF Next, User, Pick, Remove, Clear, Start, Loop, SkipItem, Upload, Uploaded, Analyzed, Refused,
         LoopEnds, Network,
         RequestLost, AnswerLost, AnswerCut, HandleUpload, HandleAnalyze, Refuse, Engine, HandleStray, JobEnds
    <3>4. QED
      BY <3>1, <3>2, <3>3
  <2>2. QED
    BY <2>1
<1>4. QED
  BY <1>1, <1>2, <1>3 DEF KnowsUpload, KnowsAnalyze, ScansOfItems, CallsKnown

-----------------------------------------------------------------------------
(* An item shows the scan of its own file.                                 *)
ShowsOwn(m, s) ==
    /\ m.scan # NoScan => s[m.scan].file = m.file
    /\ m.status = "done" => m.scan # NoScan /\ s[m.scan].status # "uploaded"

(* No step makes an item show the scan of another file.                    *)
LEMMA ShowsStep ==
    TypeOK /\ LoopPlaced /\ ItemsUnderWay /\ CallsKnown /\ ItemShowsItsScan /\ Next => ItemShowsItsScan'
<1> SUFFICES ASSUME TypeOK, LoopPlaced, ItemsUnderWay, CallsKnown, ItemShowsItsScan, Next
             PROVE  ItemShowsItsScan'
  OBVIOUS
<1>a. ASSUME NEW m, m.scan \in 0 .. Len(scans), ShowsOwn(m, scans) PROVE ShowsOwn(m, scans')
  <2>1. m.scan # NoScan => m.scan \in DOMAIN scans
    BY <1>a, Lists DEF NoScan
  <2>2. QED
    BY <1>a, <2>1, ScansKept DEF ShowsOwn, ScansGrow
<1>b. \A k \in DOMAIN items : ShowsOwn(items[k], scans')
  BY <1>a DEF ItemShowsItsScan, CallsKnown, ShowsOwn
<1>c. ASSUME NEW status, NEW s \in 0 .. Len(scans), ItemSetTo(status, s), i \in DOMAIN items,
             s # NoScan => scans[s].file = items[i].file,
             status = "done" => s # NoScan /\ scans[s].status # "uploaded"
      PROVE  \A k \in DOMAIN items' : ShowsOwn(items'[k], scans')
  <2>1. DOMAIN items' = DOMAIN items /\ \A k \in DOMAIN items : k # i => items'[k] = items[k]
    BY <1>c DEF ItemSetTo
  <2>2. items'[i] = [file |-> items[i].file, status |-> status, scan |-> s]
    BY <1>c DEF ItemSetTo
  <2>3. ShowsOwn(items'[i], scans) /\ items'[i].scan \in 0 .. Len(scans)
    BY <1>c, <2>2 DEF ShowsOwn
  <2>4. ShowsOwn(items'[i], scans')
    BY <1>a, <2>3
  <2>5. QED
    BY <1>b, <2>1, <2>4
<1>1. \A k \in DOMAIN items' : ShowsOwn(items'[k], scans')
  <2>1. CASE /\ DOMAIN items' = 1 .. Len(items) + 1 /\ \A k \in DOMAIN items : items'[k] = items[k]
             /\ items'[Len(items) + 1].status = "queued" /\ items'[Len(items) + 1].scan = NoScan
    <3>1. \A k \in DOMAIN items' : k \in DOMAIN items \/ k = Len(items) + 1
      BY <2>1, Lists
    <3>2. ShowsOwn(items'[Len(items) + 1], scans')
      BY <2>1 DEF ShowsOwn
    <3>3. QED
      BY <1>b, <2>1, <3>1, <3>2
  <2>2. CASE \E k \in DOMAIN items :
              /\ DOMAIN items' = 1 .. Len(items) - 1
              /\ \A j \in 1 .. Len(items) - 1 : items'[j] = items[Moved(k, j)]
    <3>1. PICK k \in DOMAIN items : /\ DOMAIN items' = 1 .. Len(items) - 1
                                    /\ \A j \in 1 .. Len(items) - 1 : items'[j] = items[Moved(k, j)]
      BY <2>2
    <3>2. \A j \in DOMAIN items' : Moved(k, j) \in DOMAIN items /\ items'[j] = items[Moved(k, j)]
      BY <3>1, Lists DEF Moved
    <3>3. QED
      BY <1>b, <3>2
  <2>3. CASE Upload /\ ItemSetTo("uploading", items[i].scan)
    BY <1>c, <2>3, AtHand DEF Upload, ItemShowsItsScan, CallsKnown
  <2>4. CASE Uploaded /\ ItemSetTo("analyzing", request.scan)
    <3>1. i \in DOMAIN items /\ i \in DOMAIN captured
      BY <2>4, AtHand DEF Uploaded, Awaiting
    <3>2. request.scan \in DOMAIN scans /\ scans[request.scan].file = captured[i].file
      BY <2>4 DEF Uploaded, CallsKnown
    <3>3. captured[i].file = items[i].file /\ request.scan \in 0 .. Len(scans)
      BY <3>1, <3>2, Lists DEF ItemsUnderWay
    <3>4. QED
      BY <1>c, <2>4, <3>1, <3>2, <3>3
  <2>5. CASE Analyzed /\ ItemSetTo("done", items[i].scan)
    <3>1. i \in DOMAIN items
      BY <2>5, AtHand DEF Analyzed, Awaiting
    <3>2. items[i].scan # NoScan /\ scans[items[i].scan].status # "uploaded"
      BY <2>5 DEF Analyzed, CallsKnown
    <3>3. items[i].scan \in 0 .. Len(scans) /\ scans[items[i].scan].file = items[i].file
      BY <3>1, <3>2 DEF CallsKnown, ItemShowsItsScan
    <3>4. QED
      BY <1>c, <2>5, <3>1, <3>2, <3>3
  <2>6. CASE GivenUp /\ request.phase # "none"
    <3>1. i \in DOMAIN items /\ ItemSetTo("failed", items[i].scan)
      BY <2>6, RequestAwaited, AtHand DEF GivenUp
    <3>2. items[i].scan \in 0 .. Len(scans) /\ (items[i].scan # NoScan => scans[items[i].scan].file = items[i].file)
      BY <3>1 DEF CallsKnown, ItemShowsItsScan
    <3>3. QED
      BY <1>c, <3>1, <3>2
  <2>7. CASE UNCHANGED items
    BY <1>b, <2>7
  <2>8. Start \/ SkipItem \/ LoopEnds \/ Again \/ Unmoved => UNCHANGED items
    BY DEF Start, SkipItem, LoopEnds, Again, page, Unmoved
  <2>9. QED
    BY <2>1, <2>2, <2>3, <2>4, <2>5, <2>6, <2>7, <2>8, ActionEffects
<1>2. (shown # NoScan => \E k \in Listed : items[k].scan = shown)'
  <2>1. CASE UNCHANGED shown
    <3>1. shown # NoScan => ~Here
      BY DEF Here
    <3>2. QED
      BY <2>1, <3>1, ListedStays DEF ItemShowsItsScan
  <2>2. CASE LoopEnds
    <3>1. shown' # NoScan => shown' = firstScanId
      BY <2>2 DEF LoopEnds
    <3>2. Running
      BY <2>2 DEF LoopEnds, Running
    <3>3. QED
      BY <3>1, <3>2, ListedStays DEF CallsKnown
  <2>3. CASE User \/ SkipItem \/ Upload \/ Uploaded \/ Analyzed \/ Refused
    BY <2>1, <2>3 DEF User, Pick, Remove, Clear, Start, SkipItem, Upload, Uploaded, Analyzed, Refused
  <2>4. CASE Network \/ Engine
    BY <2>1, <2>4 DEF Network, Engine, RequestLost, AnswerLost, AnswerCut, HandleUpload,
       HandleAnalyze,
       Refuse, HandleStray, JobEnds, page
  <2>5. QED
    BY <2>2, <2>3, <2>4 DEF Next, Loop
<1>3. QED
  BY <1>1, <1>2 DEF ItemShowsItsScan, ShowsOwn

(* A scan that was ever analysed is that of an item. *)
AnalysedShown == \A k \in DOMAIN scans : scans[k].status # "uploaded" => Shown(k)

(* A step analyses no scan but one that an item shows.                     *)
LEMMA AnalysedShownStep ==
    TypeOK /\ LoopPlaced /\ ItemsUnderWay /\ CallsKnown /\ AnalysedShown /\ Next => AnalysedShown'
<1> SUFFICES ASSUME TypeOK, LoopPlaced, ItemsUnderWay, CallsKnown, AnalysedShown, Next,
                    NEW k \in DOMAIN scans', scans'[k].status # "uploaded"
             PROVE  Shown(k)'
  BY DEF AnalysedShown
<1>a. ASSUME k \in DOMAIN scans, scans[k].status # "uploaded" PROVE Shown(k)'
  BY <1>a, ShownStays DEF AnalysedShown
<1>1. ASSUME UNCHANGED scans PROVE Shown(k)'
  BY <1>1, <1>a
<1>2. ASSUME NEW f \in Files, scans' = UploadScan(f) PROVE Shown(k)'
  <2>1. /\ DOMAIN scans' = 1 .. Len(scans) + 1 /\ \A n \in DOMAIN scans : scans'[n] = scans[n]
        /\ scans'[Len(scans) + 1] = [file |-> f, status |-> "uploaded"]
    BY <1>2, ScanAdded
  <2>2. k \in DOMAIN scans
    <3>1. k # Len(scans) + 1
      BY <2>1
    <3>2. QED
      BY <2>1, <3>1, Lists
  <2>3. QED
    BY <1>a, <2>1, <2>2
<1>3. ASSUME NEW n \in DOMAIN scans, Shown(n), scans' = Analyze(n) PROVE Shown(k)'
  <2>1. DOMAIN scans' = DOMAIN scans /\ \A m \in DOMAIN scans : m # n => scans'[m] = scans[m]
    BY <1>3, Analysed
  <2>2. CASE k = n
    BY <1>3, <2>2, ShownStays
  <2>3. CASE k # n
    BY <1>a, <2>1, <2>3
  <2>4. QED
    BY <2>2, <2>3
<1>4. CASE HandleUpload
  <2>1. captured[i].file \in Files
    BY <1>4, AtHand, Lists DEF HandleUpload, Awaiting, Item
  <2>2. QED
    BY <1>2, <1>4, <2>1 DEF HandleUpload
<1>5. CASE HandleAnalyze
  <2>1. request.scan \in DOMAIN scans /\ request.scan = items[i].scan /\ i \in DOMAIN items
    BY <1>5, AnalysedKnown, AtHand DEF HandleAnalyze, Awaiting
  <2>2. Shown(request.scan)
    BY <2>1, Lists DEF Shown, NoScan
  <2>3. QED
    BY <1>3, <1>5, <2>1, <2>2 DEF HandleAnalyze
<1>6. CASE HandleStray
  <2>1. PICK c \in stray : scans' = IF c.kind = "upload" THEN UploadScan(c.file) ELSE Analyze(c.scan)
    BY <1>6 DEF HandleStray
  <2>2. c.file \in Files /\ c.kind \in {"upload", "analyze"}
    BY DEF TypeOK
  <2>3. CASE c.kind = "upload"
    BY <1>2, <2>1, <2>2, <2>3
  <2>4. CASE c.kind = "analyze"
    BY <1>3, <2>1, <2>4, StrayKnown DEF CallsKnown
  <2>5. QED
    BY <2>2, <2>3, <2>4
<1>7. CASE JobEnds
  <2>1. PICK n \in DOMAIN scans, end \in {"complete", "failed"} :
            scans[n].status = "parsing" /\ scans' = [scans EXCEPT ![n].status = end]
    BY <1>7 DEF JobEnds
  <2>2. ScanSetTo(n, end)
    BY <2>1, ScanEdits DEF ScanStatuses
  <2>3. CASE k = n
    BY <1>a, <2>1, <2>3
  <2>4. CASE k # n
    BY <1>a, <2>2, <2>4 DEF ScanSetTo
  <2>5. QED
    BY <2>3, <2>4
<1>8. CASE RequestLost \/ AnswerLost \/ AnswerCut \/ Refuse \/ User \/ Loop
  BY <1>1, <1>8 DEF RequestLost, AnswerLost, AnswerCut, Refuse, User, Loop, Pick, Remove, Clear, Start,
     SkipItem, Upload, Uploaded, Analyzed, Refused, LoopEnds
<1>9. QED
  BY <1>4, <1>5, <1>6, <1>7, <1>8 DEF Next, Network, Engine

-----------------------------------------------------------------------------
(* Counting copies, late calls and items.                                  *)
CopySet(f) == {k \in DOMAIN scans : scans[k].file = f}
LateSet(f) == {c \in stray : c.kind = "upload" /\ c.file = f}
TriedSet(f) == {k \in DOMAIN items : items[k].file = f /\ items[k].status \notin {"queued", "uploading"}}
FileSet(f) == {k \in DOMAIN items : items[k].file = f}

(* The sets that are counted are finite.                                   *)
LEMMA Counted ==
    ASSUME TypeOK, NEW f
    PROVE  /\ IsFiniteSet(CopySet(f)) /\ Copies(f) = Cardinality(CopySet(f)) /\ Copies(f) \in Nat
           /\ IsFiniteSet(LateSet(f)) /\ Late(f) = Cardinality(LateSet(f)) /\ Late(f) \in Nat
           /\ IsFiniteSet(TriedSet(f)) /\ Tried(f) = Cardinality(TriedSet(f)) /\ Tried(f) \in Nat
           /\ IsFiniteSet(FileSet(f)) /\ Cardinality(FileSet(f)) \in Nat
<1>1. IsFiniteSet(DOMAIN scans) /\ IsFiniteSet(DOMAIN items) /\ IsFiniteSet(stray)
  BY Lists, FS_Interval DEF TypeOK
<1>2. /\ CopySet(f) \in SUBSET DOMAIN scans /\ TriedSet(f) \in SUBSET DOMAIN items
      /\ LateSet(f) \in SUBSET stray /\ FileSet(f) \in SUBSET DOMAIN items
  BY DEF CopySet, TriedSet, LateSet, FileSet
<1>3. IsFiniteSet(CopySet(f)) /\ IsFiniteSet(TriedSet(f)) /\ IsFiniteSet(LateSet(f)) /\ IsFiniteSet(FileSet(f))
  BY <1>1, <1>2, FS_Subset
<1>4. Copies(f) = Cardinality(CopySet(f)) /\ Late(f) = Cardinality(LateSet(f)) /\ Tried(f) = Cardinality(TriedSet(f))
  BY DEF Copies, Late, Tried, CopySet, LateSet, TriedSet
<1>5. QED
  BY <1>3, <1>4, FS_CardinalityType

(* Copies of f are as many while the scans keep their captures.            *)
LEMMA CopiesSame ==
    ASSUME NEW f, DOMAIN scans' = DOMAIN scans, \A k \in DOMAIN scans : scans'[k].file = scans[k].file
    PROVE  Copies(f)' = Copies(f)
<1>1. {k \in DOMAIN scans : scans[k].file = f}' = {k \in DOMAIN scans : scans[k].file = f}
  OBVIOUS
<1>2. QED
  BY <1>1 DEF Copies

(* A handled upload is one copy more, of its own capture.                  *)
LEMMA CopyAdded ==
    ASSUME TypeOK, NEW f \in Files, scans' = UploadScan(f), NEW g
    PROVE  Copies(g)' = Copies(g) + (IF g = f THEN 1 ELSE 0)
<1> DEFINE n == Len(scans) + 1
<1>1. /\ DOMAIN scans' = DOMAIN scans \cup {n} /\ n \notin DOMAIN scans
      /\ \A k \in DOMAIN scans : scans'[k] = scans[k]
      /\ scans'[n] = [file |-> f, status |-> "uploaded"]
  <2>1. /\ DOMAIN scans' = 1 .. n /\ \A k \in DOMAIN scans : scans'[k] = scans[k]
        /\ scans'[n] = [file |-> f, status |-> "uploaded"]
    BY ScanAdded
  <2>2. DOMAIN scans = 1 .. n - 1 /\ n \in Nat \ {0}
    BY Lists
  <2>3. 1 .. n = (1 .. n - 1) \cup {n} /\ n \notin 1 .. n - 1
    BY <2>2
  <2>4. QED
    BY <2>1, <2>2, <2>3
<1> HIDE DEF n
<1>2. Copies(g)' = Cardinality(CopySet(g)') /\ Copies(g) = Cardinality(CopySet(g))
  BY DEF Copies, CopySet
<1>3. CASE g = f
  <2>1. CopySet(g)' = CopySet(g) \cup {n} /\ n \notin CopySet(g)
    BY <1>1, <1>3 DEF CopySet
  <2>2. IsFiniteSet(CopySet(g))
    BY Counted
  <2>3. Cardinality(CopySet(g) \cup {n}) = Cardinality(CopySet(g)) + 1
    BY <2>1, <2>2, FS_AddElement
  <2>4. QED
    BY <1>2, <1>3, <2>1, <2>3
<1>4. CASE g # f
  <2>1. CopySet(g)' = CopySet(g)
    BY <1>1, <1>4 DEF CopySet
  <2>2. QED
    BY <1>2, <1>4, <2>1, Counted
<1>5. QED
  BY <1>3, <1>4

(* A request that is given up is at most one late call more.               *)
LEMMA LateAdded ==
    ASSUME TypeOK, NEW c, stray' = stray \cup {c}, NEW f
    PROVE  Late(f)' <= Late(f) + (IF c.kind = "upload" /\ c.file = f THEN 1 ELSE 0)
<1>1. Late(f)' = Cardinality(LateSet(f)') /\ Late(f) = Cardinality(LateSet(f)) /\ Late(f) \in Nat
  BY Counted DEF Late, LateSet
<1>2. CASE c.kind = "upload" /\ c.file = f
  <2>1. LateSet(f)' = LateSet(f) \cup {c}
    BY <1>2 DEF LateSet
  <2>2. IsFiniteSet(LateSet(f))
    BY Counted
  <2>3. Cardinality(LateSet(f) \cup {c}) \in {Cardinality(LateSet(f)), Cardinality(LateSet(f)) + 1}
    BY <2>2, FS_AddElement
  <2>4. QED
    BY <1>1, <1>2, <2>1, <2>3
<1>3. CASE ~(c.kind = "upload" /\ c.file = f)
  <2>1. LateSet(f)' = LateSet(f)
    BY <1>3 DEF LateSet
  <2>2. QED
    BY <1>1, <1>3, <2>1
<1>4. QED
  BY <1>2, <1>3

(* A late call that is handled is one less.                                *)
LEMMA LateHandled ==
    ASSUME TypeOK, NEW c \in stray, stray' = stray \ {c}, NEW f
    PROVE  Late(f)' = Late(f) - (IF c.kind = "upload" /\ c.file = f THEN 1 ELSE 0)
<1>1. Late(f)' = Cardinality(LateSet(f)') /\ Late(f) = Cardinality(LateSet(f)) /\ Late(f) \in Nat
  BY Counted DEF Late, LateSet
<1>2. CASE c.kind = "upload" /\ c.file = f
  <2>1. LateSet(f)' = LateSet(f) \ {c} /\ c \in LateSet(f)
    BY <1>2 DEF LateSet
  <2>2. QED
    BY <1>1, <1>2, <2>1, Counted, FS_RemoveElement
<1>3. CASE ~(c.kind = "upload" /\ c.file = f)
  <2>1. LateSet(f)' = LateSet(f)
    BY <1>3 DEF LateSet
  <2>2. QED
    BY <1>1, <1>3, <2>1
<1>4. QED
  BY <1>2, <1>3

(* A picked item was not tried.                                            *)
LEMMA TriedPicked ==
    ASSUME TypeOK, DOMAIN items' = 1 .. Len(items) + 1, \A k \in DOMAIN items : items'[k] = items[k],
           items'[Len(items) + 1].status = "queued", NEW f
    PROVE  Tried(f)' = Tried(f)
<1>1. \A k : k \in DOMAIN items' <=> k \in DOMAIN items \/ k = Len(items) + 1
  BY Lists
<1>2. TriedSet(f)' = TriedSet(f)
  BY <1>1 DEF TriedSet
<1>3. QED
  BY <1>2 DEF Tried, TriedSet

(* Only a queued item is removed: those that were tried are as many.       *)
LEMMA TriedRemoved ==
    ASSUME TypeOK, TypeOK', NEW k \in DOMAIN items, items[k].status = "queued",
           DOMAIN items' = 1 .. Len(items) - 1,
           \A j \in 1 .. Len(items) - 1 : items'[j] = items[Moved(k, j)], NEW f
    PROVE  Tried(f)' >= Tried(f)
<1> DEFINE back == [j \in TriedSet(f) |-> IF j < k THEN j ELSE j - 1]
<1>1. ASSUME NEW j \in TriedSet(f)
      PROVE  /\ j \in Nat /\ j # k /\ back[j] \in TriedSet(f)'
             /\ back[j] = IF j < k THEN j ELSE j - 1
  <2>1. j \in DOMAIN items /\ items[j].file = f /\ items[j].status \notin {"queued", "uploading"}
    BY DEF TriedSet
  <2>2. j # k
    BY <2>1
  <2>3. back[j] \in 1 .. Len(items) - 1 /\ Moved(k, back[j]) = j
    BY <2>1, <2>2, Lists DEF Moved
  <2>4. back[j] \in DOMAIN items' /\ items'[back[j]] = items[j]
    BY <2>3
  <2>5. back[j] \in TriedSet(f)'
    BY <2>1, <2>4 DEF TriedSet
  <2>6. QED
    BY <2>1, <2>2, <2>5, Lists
<1>2. k \in Nat
  BY Lists
<1> HIDE DEF back
<1>3. back \in [TriedSet(f) -> TriedSet(f)']
  <2>1. back = [j \in TriedSet(f) |-> IF j < k THEN j ELSE j - 1]
    BY DEF back
  <2>2. QED
    BY <1>1, <2>1
<1>4. \A a, b \in TriedSet(f) : back[a] = back[b] => a = b
  BY <1>1, <1>2
<1>5. back \in Injection(TriedSet(f), TriedSet(f)')
  BY <1>3, <1>4 DEF Injection, IsInjective
<1>6. IsFiniteSet(TriedSet(f)')
  <2>1. DOMAIN items' \in SUBSET (1 .. Len(items')) /\ Len(items') \in Int
    <3>1. items' \in Seq(Item)
      BY DEF TypeOK
    <3>2. QED
      BY <3>1, LenProperties
  <2>2. IsFiniteSet(DOMAIN items') /\ TriedSet(f)' \in SUBSET DOMAIN items'
    BY <2>1, FS_Interval, FS_Subset DEF TriedSet
  <2>3. QED
    BY <2>2, FS_Subset
<1>7. Cardinality(TriedSet(f)) <= Cardinality(TriedSet(f)')
  BY <1>5, <1>6, FS_Injection
<1>8. Cardinality(TriedSet(f)) \in Nat /\ Cardinality(TriedSet(f)') \in Nat
  BY <1>6, Counted, FS_CardinalityType
<1>9. QED
  BY <1>7, <1>8 DEF Tried, TriedSet

(* An item counts as tried when it stops uploading.                        *)
LEMMA TriedSetTo ==
    ASSUME TypeOK, i \in DOMAIN items, NEW status, NEW s, ItemSetTo(status, s), NEW f
    PROVE  /\ status = "uploading" /\ items[i].status = "queued" => Tried(f)' = Tried(f)
           /\ status \notin {"queued", "uploading"} /\ items[i].status = "uploading" =>
                  Tried(f)' = Tried(f) + (IF items[i].file = f THEN 1 ELSE 0)
           /\ status \notin {"queued", "uploading"} /\ items[i].status = "analyzing" =>
                  Tried(f)' = Tried(f)
<1>1. /\ DOMAIN items' = DOMAIN items /\ \A k \in DOMAIN items : k # i => items'[k] = items[k]
      /\ items'[i].file = items[i].file /\ items'[i].status = status
  BY DEF ItemSetTo
<1>2. Tried(f)' = Cardinality(TriedSet(f)') /\ Tried(f) = Cardinality(TriedSet(f))
  BY DEF Tried, TriedSet
<1>3. ASSUME status = "uploading", items[i].status = "queued" PROVE Tried(f)' = Tried(f)
  <2>1. TriedSet(f)' = TriedSet(f)
    BY <1>1, <1>3 DEF TriedSet
  <2>2. QED
    BY <1>2, <2>1
<1>4. ASSUME status \notin {"queued", "uploading"}, items[i].status = "uploading"
      PROVE  Tried(f)' = Tried(f) + (IF items[i].file = f THEN 1 ELSE 0)
  <2>1. CASE items[i].file = f
    <3>1. TriedSet(f)' = TriedSet(f) \cup {i} /\ i \notin TriedSet(f)
      BY <1>1, <1>4, <2>1 DEF TriedSet
    <3>2. IsFiniteSet(TriedSet(f))
      BY Counted
    <3>3. Cardinality(TriedSet(f) \cup {i}) = Cardinality(TriedSet(f)) + 1
      BY <3>1, <3>2, FS_AddElement
    <3>4. QED
      BY <1>2, <2>1, <3>1, <3>3
  <2>2. CASE items[i].file # f
    <3>1. TriedSet(f)' = TriedSet(f)
      BY <1>1, <1>4, <2>2 DEF TriedSet
    <3>2. QED
      BY <1>2, <2>2, <3>1, Counted
  <2>3. QED
    BY <2>1, <2>2
<1>5. ASSUME status \notin {"queued", "uploading"}, items[i].status = "analyzing"
      PROVE  Tried(f)' = Tried(f)
  <2>1. TriedSet(f)' = TriedSet(f)
    BY <1>1, <1>5 DEF TriedSet
  <2>2. QED
    BY <1>2, <2>1
<1>6. QED
  BY <1>3, <1>4, <1>5

(* The arithmetic of attempts.                                             *)
LEMMA Times ==
    ASSUME NEW a \in Nat, NEW m \in Nat, NEW n \in Nat
    PROVE  /\ a * m \in Nat
           /\ a * (m + 1) = a * m + a
           /\ m <= n => a * m <= a * n
<1>1. a * m \in Nat /\ a * (m + 1) = a * m + a
  OBVIOUS
<1>2. ASSUME m <= n PROVE a * m <= a * n
  <2>1. n - m \in Nat /\ n = m + (n - m)
    BY <1>2
  <2>2. a * n = a * m + a * (n - m) /\ a * (n - m) \in Nat /\ a * n \in Nat
    BY <2>1
  <2>3. QED
    BY <1>1, <2>2
<1>3. QED
  BY <1>1, <1>2

-----------------------------------------------------------------------------
(* The attempts spent on a file are at most the attempts the client        *)
(* makes.                                                                  *)
LEMMA SpentBound ==
    ASSUME TypeOK, LoopPlaced, NEW f
    PROVE  /\ Spent(f) \in Nat
           /\ Spent(f) <= Attempts
           /\ ~(pc = "upload" /\ captured[i].file = f) => Spent(f) = 0
<1>1. CASE pc = "upload" /\ captured[i].file = f
  <2>1. request.phase # "none"
    BY <1>1 DEF LoopPlaced, Awaiting
  <2>2. request.tries \in 1 .. Attempts
    BY <2>1, RequestAwaited
  <2>3. QED
    BY <1>1, <2>2, UploadQueueAssumption DEF Spent
<1>2. CASE ~(pc = "upload" /\ captured[i].file = f)
  BY <1>2, UploadQueueAssumption DEF Spent
<1>3. QED
  BY <1>1, <1>2

(* An upload that ends, whatever its end, is paid by the item it was tried *)
(* for.                                                                    *)
LEMMA PaidByItem ==
    ASSUME TypeOK, LoopPlaced, ItemsUnderWay, CopiesCounted, NEW f \in Files,
           Awaiting, NEW status, status \notin {"queued", "uploading"}, NEW s, ItemSetTo(status, s),
           NEW n \in 0 .. 1, Copies(f)' = Copies(f), Late(f)' <= Late(f) + n, Late(f)' \in Int,
           n = 1 => pc = "upload" /\ captured[i].file = f /\ request.phase = "sent",
           pc' # "upload"
    PROVE  Copies(f)' + Late(f)' <= Attempts * Tried(f)' + Spent(f)'
<1>1. i \in DOMAIN items /\ i \in DOMAIN captured
  BY AtHand
<1>2. items[i].file = captured[i].file
      /\ (pc = "upload" => items[i].status = "uploading")
      /\ (pc = "analyze" => items[i].status = "analyzing")
  BY <1>1 DEF ItemsUnderWay
<1>3. Spent(f)' = 0
  BY DEF Spent
<1>4. Copies(f) \in Nat /\ Late(f) \in Nat /\ Tried(f) \in Nat /\ Attempts \in Nat
  BY Counted, UploadQueueAssumption
<1>5. Copies(f) + Late(f) <= Attempts * Tried(f) + Spent(f)
  BY DEF CopiesCounted
<1>6. Attempts * Tried(f) \in Nat /\ Attempts * (Tried(f) + 1) = Attempts * Tried(f) + Attempts
  BY <1>4, Times
<1>7. CASE pc = "upload" /\ captured[i].file = f
  <2>1. Tried(f)' = Tried(f) + 1
    BY <1>1, <1>2, <1>7, TriedSetTo
  <2>2. request.tries \in 1 .. Attempts /\ Spent(f) = IF request.phase = "sent" THEN request.tries - 1 ELSE request.tries
    <3>1. request.phase # "none"
      BY DEF LoopPlaced
    <3>2. QED
      BY <1>7, <3>1, RequestAwaited DEF Spent
  <2>3. Spent(f) + n <= Attempts /\ Spent(f) \in Nat
    BY <1>4, <2>2
  <2>4. Attempts * Tried(f)' = Attempts * Tried(f) + Attempts
    BY <1>6, <2>1
  <2>5. QED
    BY <1>3, <1>4, <1>5, <1>6, <2>3, <2>4
<1>8. CASE ~(pc = "upload" /\ captured[i].file = f)
  <2>1. Tried(f)' = Tried(f)
    <3>1. CASE pc = "upload"
      BY <1>1, <1>2, <1>4, <1>8, <3>1, TriedSetTo
    <3>2. CASE pc = "analyze"
      BY <1>1, <1>2, <3>2, TriedSetTo
    <3>3. QED
      BY <3>1, <3>2 DEF Awaiting
  <2>2. Spent(f) = 0 /\ n = 0
    BY <1>8, SpentBound
  <2>3. QED
    BY <1>3, <1>4, <1>5, <1>6, <2>1, <2>2
<1>9. QED
  BY <1>7, <1>8

(* No step makes more copies than the attempts that were paid for.         *)
LEMMA CountedStep ==
    TypeOK /\ LoopPlaced /\ ItemsUnderWay /\ CallsKnown /\ CopiesCounted /\ Next => CopiesCounted'
<1> SUFFICES ASSUME TypeOK, LoopPlaced, ItemsUnderWay, CallsKnown, CopiesCounted, Next, NEW f \in Files
             PROVE  Copies(f)' + Late(f)' <= Attempts * Tried(f)' + Spent(f)'
  BY DEF CopiesCounted
<1>a. TypeOK' /\ LoopPlaced'
  BY TypeStep, PlacedStep
<1>b. Copies(f) \in Nat /\ Late(f) \in Nat /\ Tried(f) \in Nat /\ Spent(f) \in Nat /\ Attempts \in Nat
  BY Counted, SpentBound, UploadQueueAssumption
<1>c. Late(f)' \in Nat /\ Tried(f)' \in Nat
  <2>1. IsFiniteSet(LateSet(f)') /\ IsFiniteSet(TriedSet(f)')
    <3>1. IsFiniteSet(stray') /\ IsFiniteSet(DOMAIN items')
      <4>1. DOMAIN items' = 1 .. Len(items') /\ Len(items') \in Int
        BY <1>a, LenProperties DEF TypeOK
      <4>2. QED
        BY <1>a, <4>1, FS_Interval DEF TypeOK
    <3>2. LateSet(f)' \in SUBSET stray' /\ TriedSet(f)' \in SUBSET DOMAIN items'
      BY DEF LateSet, TriedSet
    <3>3. QED
      BY <3>1, <3>2, FS_Subset
  <2>2. QED
    BY <2>1, FS_CardinalityType DEF Late, LateSet, Tried, TriedSet
<1>d. Copies(f) + Late(f) <= Attempts * Tried(f) + Spent(f) /\ Attempts * Tried(f) \in Nat
  BY <1>b, Times DEF CopiesCounted
<1>e. UNCHANGED items => Tried(f)' = Tried(f)
  BY DEF Tried
<1>f. UNCHANGED stray => Late(f)' = Late(f)
  BY DEF Late
<1>g. UNCHANGED scans => Copies(f)' = Copies(f)
  BY DEF Copies
<1>h. pc # "upload" => Spent(f) = 0
  BY DEF Spent
<1>i. pc' # "upload" => Spent(f)' = 0
  BY DEF Spent
<1>j. UNCHANGED <<pc, captured, i, request>> => Spent(f)' = Spent(f)
  BY DEF Spent
<1>k. "analyzing" \notin {"queued", "uploading"} /\ "done" \notin {"queued", "uploading"} /\ "failed" \notin {"queued", "uploading"}
      /\ 0 \in 0 .. 1 /\ 1 \in 0 .. 1
  OBVIOUS
<1>1. CASE /\ Pick /\ DOMAIN items' = 1 .. Len(items) + 1 /\ \A k \in DOMAIN items : items'[k] = items[k]
           /\ items'[Len(items) + 1].status = "queued"
  <2>1. Tried(f)' = Tried(f)
    BY <1>1, TriedPicked
  <2>2. UNCHANGED <<pc, captured, i, request, scans, stray>>
    BY <1>1 DEF Pick
  <2>3. QED
    BY <1>b, <1>d, <1>f, <1>g, <1>j, <2>1, <2>2
<1>2. CASE /\ Remove
           /\ \E k \in DOMAIN items :
                    /\ items[k].status = "queued" /\ Len(items') = Len(items) - 1
                    /\ DOMAIN items' = 1 .. Len(items) - 1
                    /\ \A j \in 1 .. Len(items) - 1 : items'[j] = items[Moved(k, j)]
  <2>1. Tried(f)' >= Tried(f)
    BY <1>a, <1>2, TriedRemoved
  <2>2. UNCHANGED <<pc, captured, i, request, scans, stray>>
    BY <1>2 DEF Remove
  <2>3. Attempts * Tried(f)' >= Attempts * Tried(f) /\ Attempts * Tried(f)' \in Nat
    BY <1>b, <1>c, <2>1, Times
  <2>4. QED
    BY <1>b, <1>d, <1>f, <1>g, <1>j, <2>2, <2>3
<1>3. CASE Clear \/ Start \/ SkipItem \/ LoopEnds
  <2>1. UNCHANGED <<items, scans, stray>> /\ pc # "upload" /\ pc' # "upload"
    BY <1>3 DEF Clear, Start, SkipItem, LoopEnds, Running
  <2>2. QED
    BY <1>b, <1>d, <1>e, <1>f, <1>g, <1>h, <1>i, <2>1
<1>4. CASE Upload /\ ItemSetTo("uploading", items[i].scan)
  <2>1. i \in DOMAIN items /\ i \in DOMAIN captured /\ pc = "next" /\ ~Settled(captured[i].status)
    BY <1>4, AtHand DEF Upload
  <2>2. items[i] = captured[i] /\ items[i].status \in Statuses
    BY <2>1, Lists DEF ItemsUnderWay, Item
  <2>3. items[i].status = "queued"
    BY <2>1, <2>2 DEF ItemsUnderWay, Settled, Statuses
  <2>4. Tried(f)' = Tried(f)
    BY <1>4, <2>1, <2>3, TriedSetTo
  <2>5. UNCHANGED <<scans, stray>> /\ request' = Sent(1, NoScan)
    BY <1>4 DEF Upload
  <2>6. request'.phase = "sent" /\ request'.tries = 1
    BY <2>5 DEF Sent, NoRequest
  <2>7. Spent(f)' = 0
    BY <2>6 DEF Spent
  <2>8. QED
    BY <1>b, <1>d, <1>f, <1>g, <1>h, <2>1, <2>4, <2>5, <2>7
<1>5. CASE Uploaded /\ ItemSetTo("analyzing", request.scan)
  <2>1. Awaiting /\ pc' # "upload" /\ UNCHANGED <<scans, stray>>
    BY <1>5 DEF Uploaded, Awaiting
  <2>2. QED
    BY <1>5, <1>b, <1>f, <1>g, <1>k, <2>1, PaidByItem
<1>6. CASE Analyzed /\ ItemSetTo("done", items[i].scan)
  <2>1. Awaiting /\ pc' # "upload" /\ UNCHANGED <<scans, stray>>
    BY <1>6 DEF Analyzed, Awaiting
  <2>2. QED
    BY <1>6, <1>b, <1>f, <1>g, <1>k, <2>1, PaidByItem
<1>7. ASSUME request.phase # "none", NEW n \in 0 .. 1, Late(f)' <= Late(f) + n, UNCHANGED scans,
             n = 1 => pc = "upload" /\ captured[i].file = f /\ request.phase = "sent",
             Again \/ GivenUp
      PROVE  Copies(f)' + Late(f)' <= Attempts * Tried(f)' + Spent(f)'
  <2>1. CASE GivenUp
    <3>1. Awaiting /\ pc' # "upload" /\ ItemSetTo("failed", items[i].scan)
      BY <1>7, <2>1, RequestAwaited DEF GivenUp
    <3>2. QED
      BY <1>7, <1>c, <1>g, <1>k, <3>1, PaidByItem
  <2>2. CASE Again
    <3>1. UNCHANGED <<items, pc, captured, i>> /\ request' = Sent(request.tries + 1, ScanOfCall)
      BY <2>2 DEF Again, page
    <3>2. request'.phase = "sent" /\ request'.tries = request.tries + 1
      BY <3>1 DEF Sent, NoRequest
    <3>3. request.tries \in 1 .. Attempts
      BY <1>7, RequestAwaited
    <3>4. Spent(f)' >= Spent(f) + n /\ Spent(f)' \in Nat
      <4>1. CASE pc = "upload" /\ captured[i].file = f
        <5>1. Spent(f)' = request.tries
          BY <1>b, <3>1, <3>2, <3>3, <4>1 DEF Spent
        <5>2. Spent(f) = IF request.phase = "sent" THEN request.tries - 1 ELSE request.tries
          BY <4>1 DEF Spent
        <5>3. QED
          BY <1>7, <1>b, <3>3, <5>1, <5>2
      <4>2. CASE ~(pc = "upload" /\ captured[i].file = f)
        <5>1. n = 0 /\ Spent(f) = 0 /\ Spent(f)' = 0
          BY <1>7, <3>1, <4>2 DEF Spent
        <5>2. QED
          BY <5>1
      <4>3. QED
        BY <4>1, <4>2
    <3>5. Tried(f)' = Tried(f) /\ Copies(f)' = Copies(f)
      BY <1>7, <1>e, <1>g, <3>1
    <3>6. QED
      BY <1>7, <1>b, <1>c, <1>d, <3>4, <3>5
  <2>3. QED
    BY <1>7, <2>1, <2>2
<1>8. CASE /\ Again \/ GivenUp
           /\ request.phase # "none" /\ UNCHANGED scans
           /\ stray' = stray \/ (request.phase = "sent" /\ stray' = stray \cup {Call})
  <2>1. CASE stray' = stray
    BY <1>7, <1>8, <1>b, <1>f, <1>k, <2>1
  <2>2. CASE request.phase = "sent" /\ stray' = stray \cup {Call}
    <3>1. Call.kind = pc /\ Call.file = captured[i].file
      BY DEF Call
    <3>2. CASE pc = "upload" /\ captured[i].file = f
      <4>1. Late(f)' <= Late(f) + 1
        BY <2>2, <3>1, <3>2, LateAdded
      <4>2. QED
        BY <1>7, <1>8, <1>k, <2>2, <3>2, <4>1
    <3>3. CASE ~(pc = "upload" /\ captured[i].file = f)
      <4>1. Late(f)' <= Late(f) + 0
        BY <2>2, <3>1, <3>3, LateAdded
      <4>2. QED
        BY <1>7, <1>8, <1>k, <4>1
    <3>4. QED
      BY <3>2, <3>3
  <2>3. QED
    BY <1>8, <2>1, <2>2
<1>9. CASE HandleUpload
  <2>1. pc = "upload" /\ request.phase = "sent" /\ scans' = UploadScan(captured[i].file)
        /\ UNCHANGED <<items, captured, i, pc, stray>> /\ request' = Answer(TRUE, Len(scans) + 1)
    BY <1>9 DEF HandleUpload, page
  <2>2. captured[i].file \in Files /\ request.tries \in 1 .. Attempts
    BY <2>1, AtHand, Lists, RequestAwaited DEF Awaiting, Item
  <2>3. request'.phase = "answered" /\ request'.tries = request.tries
    BY <2>1 DEF Answer, TypeOK
  <2>4. Copies(f)' = Copies(f) + (IF captured[i].file = f THEN 1 ELSE 0)
    BY <2>1, <2>2, CopyAdded
  <2>5. Spent(f)' = Spent(f) + (IF captured[i].file = f THEN 1 ELSE 0)
    <3>1. CASE captured[i].file = f
      <4>1. Spent(f)' = request.tries
        BY <2>1, <2>3, <3>1 DEF Spent
      <4>2. Spent(f) = request.tries - 1
        BY <2>1, <3>1 DEF Spent
      <4>3. QED
        BY <2>2, <3>1, <4>1, <4>2
    <3>2. CASE captured[i].file # f
      BY <2>1, <3>2 DEF Spent
    <3>3. QED
      BY <3>1, <3>2
  <2>6. QED
    BY <1>b, <1>d, <1>e, <1>f, <2>1, <2>4, <2>5
<1>10. ASSUME Unmoved, UNCHANGED stray, Copies(f)' = Copies(f), request' = request \/ \E ok, s : request' = Answer(ok, s) /\
              (pc = "upload" => request.phase \in {"sent", "answered"})
       PROVE  Copies(f)' + Late(f)' <= Attempts * Tried(f)' + Spent(f)'
  <2>1. UNCHANGED <<items, captured, i, pc>>
    BY <1>10 DEF Unmoved
  <2>2. Spent(f)' >= Spent(f) /\ Spent(f)' \in Nat
    <3>1. CASE request' = request
      BY <1>b, <1>j, <2>1, <3>1
    <3>2. CASE request' # request
      <4>1. request'.phase = "answered" /\ request'.tries = request.tries
        BY <1>10, <3>2 DEF Answer, TypeOK
      <4>2. pc = "upload" => request.tries \in 1 .. Attempts
        BY RequestAwaited DEF LoopPlaced, Awaiting
      <4>3. QED
        BY <1>b, <2>1, <4>1, <4>2 DEF Spent
    <3>3. QED
      BY <3>1, <3>2
  <2>3. QED
    BY <1>10, <1>b, <1>d, <1>e, <1>f, <2>1, <2>2
<1>11. CASE (AnswerCut \/ Refuse) /\ Unmoved
  <2>1. request.phase \in {"sent", "answered"} /\ request' = Answer(FALSE, ScanOfCall) /\ UNCHANGED <<scans, stray>>
    BY <1>11 DEF AnswerCut, Refuse
  <2>2. QED
    BY <1>10, <1>11, <1>g, <2>1
<1>12. CASE HandleAnalyze /\ Unmoved
  <2>1. request.scan \in DOMAIN scans /\ scans' = Analyze(request.scan)
    BY <1>12, AnalysedKnown DEF HandleAnalyze
  <2>2. DOMAIN scans' = DOMAIN scans /\ \A k \in DOMAIN scans : scans'[k].file = scans[k].file
    BY <2>1, Analysed
  <2>3. Copies(f)' = Copies(f)
    BY <2>2, CopiesSame
  <2>4. \E ok, s : request' = Answer(ok, s) /\ (pc = "upload" => request.phase \in {"sent", "answered"})
    BY <1>12 DEF HandleAnalyze
  <2>5. UNCHANGED stray
    BY <1>12 DEF HandleAnalyze
  <2>6. QED
    BY <1>10, <1>12, <2>3, <2>4, <2>5
<1>13. CASE HandleStray /\ Unmoved
  <2>1. PICK c \in stray : /\ scans' = IF c.kind = "upload" THEN UploadScan(c.file) ELSE Analyze(c.scan)
                           /\ stray' = stray \ {c}
    BY <1>13 DEF HandleStray
  <2>2. c.file \in Files /\ c.kind \in {"upload", "analyze"}
    BY DEF TypeOK
  <2>3. UNCHANGED <<items, captured, i, pc, request>>
    BY <1>13 DEF HandleStray, Unmoved
  <2>4. Late(f)' = Late(f) - (IF c.kind = "upload" /\ c.file = f THEN 1 ELSE 0)
    BY <2>1, LateHandled
  <2>5. Copies(f)' = Copies(f) + (IF c.kind = "upload" /\ c.file = f THEN 1 ELSE 0)
    <3>1. CASE c.kind = "upload"
      BY <2>1, <2>2, <3>1, CopyAdded
    <3>2. CASE c.kind = "analyze"
      <4>1. DOMAIN scans' = DOMAIN scans /\ \A k \in DOMAIN scans : scans'[k].file = scans[k].file
        BY <2>1, <3>2, StrayKnown, Analysed
      <4>2. Copies(f)' = Copies(f)
        BY <4>1, CopiesSame
      <4>3. QED
        BY <1>b, <3>2, <4>2
    <3>3. QED
      BY <2>2, <3>1, <3>2
  <2>6. QED
    BY <1>b, <1>d, <1>e, <1>j, <2>3, <2>4, <2>5
<1>14. CASE JobEnds /\ Unmoved
  <2>1. PICK k \in DOMAIN scans, end \in {"complete", "failed"} : scans' = [scans EXCEPT ![k].status = end]
    BY <1>14 DEF JobEnds
  <2>2. ScanSetTo(k, end)
    BY <2>1, ScanEdits DEF ScanStatuses
  <2>3. Copies(f)' = Copies(f)
    BY <2>2, CopiesSame DEF ScanSetTo
  <2>4. UNCHANGED <<request, stray>>
    BY <1>14 DEF JobEnds
  <2>5. QED
    BY <1>10, <1>14, <2>3, <2>4
<1>15. QED
  BY <1>1, <1>2, <1>3, <1>4, <1>5, <1>6, <1>8, <1>9, <1>11, <1>12, <1>13, <1>14, ActionEffects

-----------------------------------------------------------------------------
(* The bound on the copies follows from the count.                         *)
LEMMA CountBoundsCopies ==
    ASSUME TypeOK, LoopPlaced, ItemsUnderWay, CopiesCounted, NEW f \in Files
    PROVE  Copies(f) <= Attempts * Cardinality(FileSet(f))
<1>1. Copies(f) \in Nat /\ Late(f) \in Nat /\ Tried(f) \in Nat /\ Attempts \in Nat
      /\ Cardinality(FileSet(f)) \in Nat /\ IsFiniteSet(FileSet(f)) /\ IsFiniteSet(TriedSet(f))
      /\ Tried(f) = Cardinality(TriedSet(f)) /\ Spent(f) \in Nat /\ Spent(f) <= Attempts
  BY Counted, SpentBound, UploadQueueAssumption
<1>2. Copies(f) + Late(f) <= Attempts * Tried(f) + Spent(f)
  BY DEF CopiesCounted
<1>3. TriedSet(f) \in SUBSET FileSet(f)
  BY DEF TriedSet, FileSet
<1>4. CASE pc = "upload" /\ captured[i].file = f
  <2>1. i \in DOMAIN items /\ i \in DOMAIN captured
    BY <1>4, AtHand DEF Awaiting
  <2>2. items[i].status = "uploading" /\ items[i].file = f
    BY <1>4, <2>1 DEF ItemsUnderWay
  <2>3. i \notin TriedSet(f) /\ TriedSet(f) \cup {i} \in SUBSET FileSet(f)
    BY <1>3, <2>1, <2>2 DEF TriedSet, FileSet
  <2>4. Cardinality(TriedSet(f) \cup {i}) = Tried(f) + 1
    BY <1>1, <2>3, FS_AddElement
  <2>5. Tried(f) + 1 <= Cardinality(FileSet(f))
    BY <1>1, <2>3, <2>4, FS_Subset
  <2>6. Attempts * (Tried(f) + 1) <= Attempts * Cardinality(FileSet(f)) /\ Tried(f) + 1 \in Nat
    BY <1>1, <2>5, Times
  <2>7. Attempts * (Tried(f) + 1) = Attempts * Tried(f) + Attempts /\ Attempts * Tried(f) \in Nat
        /\ Attempts * Cardinality(FileSet(f)) \in Nat
    BY <1>1, Times
  <2>8. QED
    BY <1>1, <1>2, <2>6, <2>7
<1>5. CASE ~(pc = "upload" /\ captured[i].file = f)
  <2>1. Spent(f) = 0
    BY <1>5, SpentBound
  <2>2. Tried(f) <= Cardinality(FileSet(f))
    BY <1>1, <1>3, FS_Subset
  <2>3. Attempts * Tried(f) <= Attempts * Cardinality(FileSet(f)) /\ Attempts * Tried(f) \in Nat
        /\ Attempts * Cardinality(FileSet(f)) \in Nat
    BY <1>1, <2>2, Times
  <2>4. QED
    BY <1>1, <1>2, <2>1, <2>3
<1>6. QED
  BY <1>4, <1>5

(* QueueInv without the bound, which follows from the count.               *)
LEMMA QueueInvParts ==
    /\ QueueInv => AnalysedShown
    /\ TypeOK /\ LoopPlaced /\ ItemsUnderWay /\ CallsKnown /\ CopiesCounted /\ ItemShowsItsScan
       /\ AnalysedShown => QueueInv
<1>1. ASSUME QueueInv PROVE AnalysedShown
  BY <1>1, Lists DEF QueueInv, CopiesBounded, AnalysedShown, Shown, NoScan
<1>2. ASSUME TypeOK, LoopPlaced, ItemsUnderWay, CallsKnown, CopiesCounted, ItemShowsItsScan, AnalysedShown
      PROVE  QueueInv
  BY <1>2, CountBoundsCopies DEF QueueInv, CopiesBounded, AnalysedShown, Shown, FileSet
<1>3. QED
  BY <1>1, <1>2

(* The empty page.                                                         *)
LEMMA QueueInvInit == Init => QueueInv
<1> SUFFICES ASSUME Init PROVE QueueInv
  OBVIOUS
<1> USE UploadQueueAssumption DEF Init
<1>1. /\ \A S : <<>> \in Seq(S)
      /\ DOMAIN items = {} /\ DOMAIN captured = {} /\ DOMAIN scans = {} /\ Len(items) = 0 /\ Len(scans) = 0
  BY EmptySeq
<1>2. TypeOK
  <2>1. request \in Requests
    BY DEF Requests, NoRequest, NoScan
  <2>2. IsFiniteSet(stray) /\ stray \subseteq Calls
    BY FS_EmptySet
  <2>3. /\ items \in Seq(Item) /\ captured \in Seq(Item) /\ scans \in Seq([file : Files, status : ScanStatuses])
        /\ Len(items) <= MaxItems
    BY <1>1
  <2>4. cleared \in 0 .. Len(items)
    BY <1>1
  <2>5. i \in Nat /\ firstScanId \in Nat /\ shown \in Nat /\ anyDone \in BOOLEAN /\ pc = "idle"
    BY DEF NoScan
  <2> HIDE DEF Init
  <2>6. QED
    BY <2>1, <2>2, <2>3, <2>4, <2>5 DEF TypeOK, Requests, Calls
<1>3. LoopPlaced /\ ItemsUnderWay /\ CallsKnown /\ ItemShowsItsScan /\ AnalysedShown
  BY <1>1 DEF LoopPlaced, Running, Awaiting, ItemsUnderWay, CallsKnown, ItemShowsItsScan,
     AnalysedShown
<1>4. CopiesCounted
  <2>1. ASSUME NEW f \in Files PROVE Copies(f) + Late(f) <= Attempts * Tried(f) + Spent(f)
    <3>1. CopySet(f) = {} /\ LateSet(f) = {} /\ TriedSet(f) = {}
      BY <1>1 DEF CopySet, LateSet, TriedSet
    <3>2. Copies(f) = 0 /\ Late(f) = 0 /\ Tried(f) = 0
      BY <1>2, <3>1, Counted, FS_EmptySet
    <3>3. Spent(f) = 0
      BY DEF Spent
    <3>4. QED
      BY <3>2, <3>3
  <2>2. QED
    BY <2>1 DEF CopiesCounted
<1>5. QED
  BY <1>2, <1>3, <1>4, QueueInvParts

(* QueueInv is inductive.                                                  *)
LEMMA QueueInvStep == QueueInv /\ [Next]_vars => QueueInv'
<1> SUFFICES ASSUME QueueInv, [Next]_vars PROVE QueueInv'
  OBVIOUS
<1>a. TypeOK /\ LoopPlaced /\ ItemsUnderWay /\ CallsKnown /\ CopiesCounted /\ ItemShowsItsScan /\ AnalysedShown
  BY QueueInvParts DEF QueueInv
<1>1. CASE Next
  <2>1. TypeOK' /\ LoopPlaced' /\ ItemsUnderWay' /\ CallsKnown' /\ CopiesCounted' /\ ItemShowsItsScan' /\ AnalysedShown'
    BY <1>a, <1>1, TypeStep, PlacedStep, UnderWayStep, CallsKnownStep, CountedStep, ShowsStep,
       AnalysedShownStep
  <2>2. (TypeOK /\ LoopPlaced /\ ItemsUnderWay /\ CallsKnown /\ CopiesCounted /\ ItemShowsItsScan
         /\ AnalysedShown => QueueInv)'
    BY QueueInvParts, PTL
  <2>3. QED
    BY <2>1, <2>2
<1>2. CASE UNCHANGED vars
  <2>1. UNCHANGED <<items, cleared, captured, i, pc, firstScanId, anyDone, shown, request, scans, stray>>
    BY <1>2 DEF vars, page
  <2>2. TypeOK' /\ LoopPlaced' /\ ItemsUnderWay' /\ CallsKnown' /\ ItemShowsItsScan'
    BY <1>a, <2>1 DEF TypeOK, LoopPlaced, Running, Here, Awaiting, ItemsUnderWay, CallsKnown, Shown,
       Listed, ItemShowsItsScan
  <2>3. CopiesCounted'
    BY <1>a, <2>1 DEF CopiesCounted, Copies, Late, Tried, Spent
  <2>4. CopiesBounded'
    BY <2>1 DEF QueueInv, CopiesBounded, Copies
  <2>5. QED
    BY <2>2, <2>3, <2>4 DEF QueueInv
<1>3. QED
  BY <1>1, <1>2

(* The inductive invariant holds in every state the page and the engine    *)
(* come to (page.tsx 77-125, api.ts 42-61).                                *)
THEOREM QueueInvariant == Spec => []QueueInv
<1>1. QED
  BY QueueInvInit, QueueInvStep, PTL DEF Spec

(* Types, for any number of picks and attempts. *)
THEOREM QueueTypes == Spec => []TypeOK
<1>1. QueueInv => TypeOK
  BY DEF QueueInv
<1>2. QED
  BY <1>1, QueueInvariant, PTL

(* An item shows the scan of its own file, and done means analysed         *)
(* (page.tsx 77-107).                                                      *)
THEOREM ItemsShowTheirScans == Spec => []ItemShowsItsScan
<1>1. QueueInv => ItemShowsItsScan
  BY DEF QueueInv
<1>2. QED
  BY <1>1, QueueInvariant, PTL

(* However often a call is sent again, or handled late, no more copies of  *)
(* a capture are in the engine than its items times the attempts, and only *)
(* the copy an item shows is ever analysed (api.ts 42-61).                 *)
THEOREM CopiesAreBounded == Spec => []CopiesBounded
<1>1. QueueInv => CopiesBounded
  BY DEF QueueInv
<1>2. QED
  BY <1>1, QueueInvariant, PTL

(* One step of StatusMovesOn. *)
MovesOn ==
    \A k \in DOMAIN items :
        Running => /\ k \in DOMAIN items'
                   /\ items'[k].file = items[k].file
                   /\ \/ items'[k].status = items[k].status
                      \/ Rank[items'[k].status] > Rank[items[k].status]

(* From QueueInv, a step moves a status on or leaves it.                   *)
LEMMA MovesOnStep == QueueInv /\ [Next]_vars => MovesOn
<1> SUFFICES ASSUME QueueInv, [Next]_vars, Running PROVE MovesOn
  BY DEF MovesOn
<1>a. TypeOK /\ LoopPlaced /\ ItemsUnderWay
  BY DEF QueueInv
<1>b. ASSUME UNCHANGED items PROVE MovesOn
  BY <1>b DEF MovesOn
<1>c. ASSUME NEW status, NEW s, ItemSetTo(status, s), Rank[status] > Rank[items[i].status] PROVE MovesOn
  BY <1>c DEF MovesOn, ItemSetTo
<1>1. CASE UNCHANGED vars
  BY <1>b, <1>1 DEF vars, page
<1>2. CASE Next
  <2>1. CASE Pick /\ DOMAIN items' = 1 .. Len(items) + 1 /\ \A k \in DOMAIN items : items'[k] = items[k]
    BY <1>a, <2>1, Lists DEF MovesOn
  <2>2. ~Remove
    BY DEF Remove
  <2>3. CASE Upload /\ ItemSetTo("uploading", items[i].scan)
    <3>1. i \in DOMAIN items /\ i \in DOMAIN captured /\ pc = "next" /\ ~Settled(captured[i].status)
      BY <1>a, <2>3, AtHand DEF Upload
    <3>2. items[i] = captured[i] /\ items[i].status \in Statuses
      BY <1>a, <3>1, Lists DEF ItemsUnderWay, Item
    <3>3. items[i].status = "queued"
      BY <1>a, <3>1, <3>2 DEF ItemsUnderWay, Settled, Statuses
    <3>4. QED
      BY <1>c, <2>3, <3>3 DEF Rank
  <2>4. CASE Uploaded /\ ItemSetTo("analyzing", request.scan)
    <3>1. items[i].status = "uploading"
      BY <1>a, <2>4, AtHand DEF Uploaded, Awaiting, ItemsUnderWay
    <3>2. QED
      BY <1>c, <2>4, <3>1 DEF Rank
  <2>5. CASE Analyzed /\ ItemSetTo("done", items[i].scan)
    <3>1. items[i].status = "analyzing"
      BY <1>a, <2>5, AtHand DEF Analyzed, Awaiting, ItemsUnderWay
    <3>2. QED
      BY <1>c, <2>5, <3>1 DEF Rank
  <2>6. CASE GivenUp /\ request.phase # "none"
    <3>1. i \in DOMAIN items /\ pc \in {"upload", "analyze"} /\ ItemSetTo("failed", items[i].scan)
      BY <1>a, <2>6, RequestAwaited, AtHand DEF GivenUp, Awaiting
    <3>2. items[i].status \in {"uploading", "analyzing"}
      BY <1>a, <3>1 DEF ItemsUnderWay
    <3>3. QED
      BY <1>c, <3>1, <3>2 DEF Rank
  <2>7. CASE Start \/ SkipItem \/ LoopEnds \/ Again \/ Unmoved
    BY <1>b, <2>7 DEF Start, SkipItem, LoopEnds, Again, page, Unmoved
  <2>8. QED
    BY <1>a, <1>2, <2>1, <2>2, <2>3, <2>4, <2>5, <2>6, <2>7, ActionEffects
<1>3. QED
  BY <1>1, <1>2

(* While the loop runs no item leaves the list or takes another file, and  *)
(* no status goes back (page.tsx 85-117).                                  *)
THEOREM StatusesMoveOn == Spec => StatusMovesOn
<1>1. QueueInv /\ [Next]_vars => [MovesOn]_vars
  BY MovesOnStep
<1>2. QED
  BY <1>1, QueueInvariant, PTL DEF Spec, StatusMovesOn, MovesOn

=============================================================================
