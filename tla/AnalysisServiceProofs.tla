----------------------- MODULE AnalysisServiceProofs -----------------------
(* Proofs about AnalysisService, for any number of scans, requests,        *)
(* deleters and slots and any sequence of progress values.                 *)
EXTENDS AnalysisService, SequenceTheorems, FiniteSetTheorems, TLAPS

(* Appending a new element to a duplicate-free queue adds just it. *)
LEMMA AppendDistinct ==
    ASSUME NEW S, NEW q \in Seq(S), IsInjective(q), NEW e \in S, e \notin ToSet(q)
    PROVE  /\ Append(q, e) \in Seq(S)
           /\ Len(Append(q, e)) = Len(q) + 1
           /\ ToSet(Append(q, e)) = ToSet(q) \cup {e}
           /\ IsInjective(Append(q, e))
<1> DEFINE n == Len(q)
           a == Append(q, e)
<1>1. /\ a \in Seq(S)
      /\ Len(a) = n + 1
      /\ \A i \in 1 .. n : a[i] = q[i]
      /\ a[n + 1] = e
  BY AppendProperties
<1>2. n \in Nat /\ DOMAIN q = 1 .. n /\ DOMAIN a = 1 .. n + 1
  BY <1>1, LenProperties
<1>3. 1 .. n + 1 = (1 .. n) \cup {n + 1}
  BY <1>2
<1> HIDE DEF n, a
<1>4. ToSet(a) = ToSet(q) \cup {e}
  BY <1>1, <1>2, <1>3 DEF ToSet
<1>5. IsInjective(a)
  BY <1>1, <1>2, <1>3 DEF ToSet, IsInjective
<1>6. QED
  BY <1>1, <1>4, <1>5 DEF n, a

(* Taking the head of a duplicate-free queue removes just it. *)
LEMMA TailDistinct ==
    ASSUME NEW S, NEW q \in Seq(S), IsInjective(q), q # <<>>
    PROVE  /\ Head(q) \in S /\ Head(q) \in ToSet(q)
           /\ Tail(q) \in Seq(S)
           /\ Len(Tail(q)) = Len(q) - 1
           /\ ToSet(Tail(q)) = ToSet(q) \ {Head(q)}
           /\ IsInjective(Tail(q))
<1> DEFINE n == Len(q)
           t == Tail(q)
           h == Head(q)
<1>1. /\ h \in S
      /\ t \in Seq(S)
      /\ Len(t) = n - 1
      /\ \A i \in 1 .. n - 1 : t[i] = q[i + 1]
  BY HeadTailProperties
<1>2. n \in Nat \ {0} /\ DOMAIN q = 1 .. n /\ DOMAIN t = 1 .. n - 1
  BY <1>1, LenProperties, EmptySeq
<1>3. h = q[1]
  OBVIOUS
<1> HIDE DEF n, t, h
<1>4. h \in ToSet(q)
  BY <1>2, <1>3 DEF ToSet
<1>5. IsInjective(t)
  <2>1. SUFFICES ASSUME NEW i \in 1 .. n - 1, NEW j \in 1 .. n - 1, t[i] = t[j]
                 PROVE  i = j
    BY <1>2 DEF IsInjective
  <2>2. q[i + 1] = q[j + 1] /\ i + 1 \in 1 .. n /\ j + 1 \in 1 .. n
    BY <1>1, <1>2, <2>1
  <2>3. QED
    BY <1>2, <2>2 DEF IsInjective
<1>6. ToSet(t) \subseteq ToSet(q) \ {h}
  BY <1>1, <1>2, <1>3 DEF ToSet, IsInjective
<1>7. ASSUME NEW x \in ToSet(q) \ {h}
      PROVE  x \in ToSet(t)
  <2>1. PICK i \in 2 .. n : q[i] = x
    BY <1>2, <1>3 DEF ToSet
  <2>2. i - 1 \in 1 .. n - 1 /\ t[i - 1] = x
    BY <1>1, <1>2, <2>1
  <2>3. QED
    BY <1>2, <2>2 DEF ToSet
<1>8. QED
  BY <1>1, <1>4, <1>5, <1>6, <1>7 DEF n, t, h
(* Taking any place out of a duplicate-free queue removes its element.     *)
LEMMA RemoveDistinct ==
    ASSUME NEW S, NEW q \in Seq(S), IsInjective(q), NEW k \in DOMAIN q
    PROVE  /\ RemoveAt(q, k) \in Seq(S)
           /\ ToSet(RemoveAt(q, k)) = ToSet(q) \ {q[k]}
           /\ IsInjective(RemoveAt(q, k))
<1> DEFINE n == Len(q)
           a == SubSeq(q, 1, k - 1)
           b == SubSeq(q, k + 1, n)
           c == RemoveAt(q, k)
           Old(j) == IF j < k THEN j ELSE j + 1
<1>1. n \in Nat /\ DOMAIN q = 1 .. n /\ k \in 1 .. n /\ \A j \in 1 .. n : q[j] \in S
  BY LenProperties, ElementOfSeq
<1>2. a \in Seq(S) /\ Len(a) = k - 1 /\ \A j \in 1 .. k - 1 : a[j] = q[j]
  <2>1. 1 \in Int /\ k - 1 \in Int /\ \A j \in 1 .. k - 1 : q[j] \in S
    BY <1>1
  <2>2. /\ a \in Seq(S) /\ Len(a) = IF 1 <= k - 1 THEN k - 1 - 1 + 1 ELSE 0
        /\ \A j \in 1 .. k - 1 - 1 + 1 : a[j] = q[1 + j - 1]
    BY <2>1, SubSeqProperties
  <2>3. QED
    BY <1>1, <2>2
<1>3. b \in Seq(S) /\ Len(b) = n - k /\ \A j \in 1 .. n - k : b[j] = q[k + j]
  <2>1. k + 1 \in Int /\ n \in Int /\ \A j \in k + 1 .. n : q[j] \in S
    BY <1>1
  <2>2. /\ b \in Seq(S) /\ Len(b) = IF k + 1 <= n THEN n - (k + 1) + 1 ELSE 0
        /\ \A j \in 1 .. n - (k + 1) + 1 : b[j] = q[k + 1 + j - 1]
    BY <2>1, SubSeqProperties
  <2> HIDE DEF b
  <2>3. Len(b) = n - k
    BY <1>1, <2>2
  <2>4. ASSUME NEW j \in 1 .. n - k PROVE b[j] = q[k + j]
    <3>1. j \in 1 .. n - (k + 1) + 1 /\ k + 1 + j - 1 = k + j
      BY <1>1
    <3>2. QED
      BY <2>2, <3>1
  <2>5. QED
    BY <2>2, <2>3, <2>4
<1>4. c = a \o b
  BY DEF RemoveAt
<1> HIDE DEF n, a, b, c
<1>5. /\ c \in Seq(S) /\ Len(c) = Len(a) + Len(b)
      /\ \A j \in 1 .. Len(a) + Len(b) : c[j] = IF j <= Len(a) THEN a[j] ELSE b[j - Len(a)]
  BY <1>2, <1>3, <1>4, ConcatProperties
<1>6. DOMAIN c = 1 .. n - 1
  BY <1>1, <1>2, <1>3, <1>5, LenProperties
<1>7. ASSUME NEW j \in 1 .. n - 1 PROVE c[j] = q[Old(j)] /\ Old(j) \in (1 .. n) \ {k}
  <2>1. CASE j < k
    BY <1>1, <1>2, <1>3, <1>5, <2>1
  <2>2. CASE j >= k
    <3>1. j - Len(a) \in 1 .. n - k /\ ~(j <= Len(a)) /\ k + (j - Len(a)) = j + 1
      BY <1>1, <1>2, <2>2
    <3>2. j \in 1 .. Len(a) + Len(b)
      BY <1>1, <1>2, <1>3
    <3>3. c[j] = b[j - Len(a)]
      BY <1>5, <3>1, <3>2
    <3>4. b[j - Len(a)] = q[k + (j - Len(a))]
      BY <1>3, <3>1
    <3>5. c[j] = q[j + 1]
      BY <3>1, <3>3, <3>4
    <3>6. Old(j) = j + 1 /\ j + 1 \in (1 .. n) \ {k}
      BY <1>1, <2>2
    <3>7. QED
      BY <3>5, <3>6
  <2>3. QED
    BY <1>1, <2>1, <2>2
<1>8. ToSet(c) \subseteq ToSet(q) \ {q[k]}
  <2>1. SUFFICES ASSUME NEW j \in 1 .. n - 1 PROVE c[j] \in ToSet(q) \ {q[k]}
    BY <1>6 DEF ToSet
  <2>2. c[j] = q[Old(j)] /\ Old(j) \in (1 .. n) \ {k}
    BY <1>7
  <2>3. q[Old(j)] # q[k]
    BY <1>1, <2>2 DEF IsInjective
  <2>4. QED
    BY <1>1, <2>2, <2>3 DEF ToSet
<1>9. ASSUME NEW x \in ToSet(q) \ {q[k]} PROVE x \in ToSet(c)
  <2>1. PICK i \in (1 .. n) \ {k} : q[i] = x
    BY <1>1 DEF ToSet
  <2>2. PICK j \in 1 .. n - 1 : Old(j) = i
    <3>1. CASE i < k
      BY <1>1, <3>1
    <3>2. CASE i > k
      <4>1. i - 1 \in 1 .. n - 1 /\ Old(i - 1) = i
        BY <1>1, <3>2
      <4>2. QED
        BY <4>1
    <3>3. QED
      BY <1>1, <2>1, <3>1, <3>2
  <2>3. QED
    BY <1>6, <1>7, <2>1, <2>2 DEF ToSet
<1>10. IsInjective(c)
  <2>1. SUFFICES ASSUME NEW i \in 1 .. n - 1, NEW j \in 1 .. n - 1, c[i] = c[j] PROVE i = j
    BY <1>6 DEF IsInjective
  <2>2. Old(i) = Old(j)
    BY <1>1, <1>7, <2>1 DEF IsInjective
  <2>3. QED
    BY <1>1, <2>2
<1>11. QED
  BY <1>5, <1>8, <1>9, <1>10 DEF c
-----------------------------------------------------------------------------
(* The shape of a state: types, what a handler or job at a given point     *)
(* knows, the two queues, and what the threads have picked.                *)
Shape == TypeOK /\ Phases /\ WaitQueueExact /\ WorkQueueExact /\ PicksPending

(* Shape holds when the service starts.                                    *)
LEMMA ShapeInit == Init => Shape
<1> SUFFICES ASSUME Init PROVE Shape
  OBVIOUS
<1>1. TypeOK
  <2>1. row \in [Scans -> Row]
    BY DEF Init, Row, Status
  <2>2. jtick \in [Requests -> 0 .. Len(Ticks)]
    BY TicksAssumption, LenProperties DEF Init
  <2>3. waiters \in Seq(Requests) /\ execq \in Seq(Requests)
    BY EmptySeq DEF Init
  <2>4. picked \in [Requests -> SUBSET Requests]
    BY DEF Init
  <2>5. hpc \in [Requests -> HandlerState] /\ jpc \in [Requests -> JobState]
    BY DEF Init, HandlerState, JobState
  <2>6. /\ target \in [Requests -> Scans \cup {NoScan}]
        /\ jtarget \in [Requests -> Scans \cup {NoScan}]
        /\ dtarget \in [Deleters -> Scans \cup {NoScan}]
        /\ dpc \in [Deleters -> {"idle", "object", "scan"}]
    BY DEF Init
  <2>7. /\ live \subseteq Scans /\ results \subseteq Scans /\ objects \subseteq Scans
        /\ woken \subseteq Requests /\ down \in BOOLEAN
    BY Zenon DEF Init
  <2>8. value \in Int /\ lost \in Nat
    BY SlotsAssumption DEF Init
  <2>9. QED
    BY <2>1, <2>2, <2>3, <2>4, <2>5, <2>6, <2>7, <2>8 DEF TypeOK
<1>2. WaitQueueExact /\ WorkQueueExact
  BY DEF Init, WaitQueueExact, WorkQueueExact, ToSet, IsInjective
<1>3. Phases /\ PicksPending
  BY DEF Init, Phases, PicksPending
<1>4. QED
  BY <1>1, <1>2, <1>3 DEF Shape

(* update_scan with a well-formed row keeps the table well-formed. *)
LEMMA UpdateTyped ==
    ASSUME row \in [Scans -> Row], NEW s, NEW new, s \in live => new \in Row, UpdateScan(s, new)
    PROVE  row' \in [Scans -> Row]
BY DEF UpdateScan

(* The edits that the worker makes to a row give a row.                    *)
LEMMA RowEdits ==
    ASSUME NEW w \in Row
    PROVE  /\ [w EXCEPT !.status = "parsing"] \in Row
           /\ \A p \in 0 .. 100 : [w EXCEPT !.progress = p] \in Row
           /\ [w EXCEPT !.status = "complete", !.progress = 100] \in Row
           /\ [w EXCEPT !.status = "failed", !.error = TRUE] \in Row
<1>1. [w EXCEPT !.status = "parsing"] \in Row
  BY DEF Row, Status
<1>2. ASSUME NEW p \in 0 .. 100 PROVE [w EXCEPT !.progress = p] \in Row
  BY DEF Row
<1>3. ASSUME NEW p \in 0 .. 100 PROVE [w EXCEPT !.status = "complete", !.progress = p] \in Row
  BY DEF Row, Status
<1>4. [w EXCEPT !.status = "failed", !.error = TRUE] \in Row
  BY DEF Row, Status
<1>5. QED
  BY <1>1, <1>2, <1>3, <1>4

(* A thread that looks for a waiter finds one whose future is pending.     *)
LEMMA PickFinds ==
    ASSUME Shape, NEW r \in Requests, Pick(r)
    PROVE  /\ UNCHANGED <<value, waiters, woken, lost>>
           /\ picked' \in [Requests -> SUBSET Requests]
           /\ \E w \in ToSet(waiters) \ woken : picked'[r] = {w}
           /\ \A q \in Requests \ {r} : picked'[q] = picked[q]
<1>1. PICK w \in Requests : OldestPending(w) /\ picked' = [picked EXCEPT ![r] = {w}]
  BY DEF Pick
<1>2. w \in ToSet(waiters) \ woken
  BY <1>1 DEF OldestPending, ToSet
<1>3. QED
  BY <1>1, <1>2 DEF Pick, Shape, TypeOK

(* A set_result wakes the one waiter the thread has picked.                *)
LEMMA ResultSet ==
    ASSUME Shape, NEW r \in Requests, SetResult(r)
    PROVE  /\ value' = value - 1 /\ value' \in Int /\ UNCHANGED <<waiters, lost>>
           /\ \E w \in ToSet(waiters) \ woken : picked[r] = {w} /\ woken' = woken \cup {w}
           /\ woken' \subseteq Requests
           /\ picked' \in [Requests -> SUBSET Requests]
           /\ picked'[r] = {}
           /\ \A q \in Requests : picked'[q] = picked[q] \ picked[r]
<1>1. PICK w : w \in picked[r]
  BY DEF SetResult
<1>2. picked[r] = {w} /\ w \in ToSet(waiters) \ woken /\ w \in Requests
  BY <1>1 DEF Shape, PicksPending, TypeOK
<1>3. value - 1 \in Int
  BY DEF Shape, TypeOK
<1>4. QED
  BY <1>2, <1>3 DEF SetResult, Shape, TypeOK

(* The end of a job leaves its record well-formed.                         *)
LEMMA JobOverTyped ==
    ASSUME TypeOK, NEW r \in Requests, JobOver(r)
    PROVE  /\ jpc' \in [Requests -> JobState]
           /\ jtarget' \in [Requests -> Scans \cup {NoScan}]
           /\ jtick' \in [Requests -> 0 .. Len(Ticks)]
BY TicksAssumption, LenProperties DEF JobOver, JobTo, TypeOK, JobState

(* Shape is inductive.                                                     *)
LEMMA ShapeStep == Shape /\ [Next]_vars => Shape'
<1> SUFFICES ASSUME Shape, [Next]_vars PROVE Shape'
  OBVIOUS
<1> USE DEF Shape
<1>1. ASSUME NEW s \in Scans, Upload(s) PROVE Shape'
  <2>1. TypeOK'
    BY <1>1 DEF Upload, TypeOK, Row, Status, sem, handlers, jobs, deletes
  <2>2. QED
    BY <1>1, <2>1 DEF Upload, Phases, WaitQueueExact, WorkQueueExact, PicksPending, sem, handlers, jobs
<1>2. ASSUME NEW d \in Deleters, NEW s \in Scans, DeleteBegin(d, s) PROVE Shape'
  <2>1. TypeOK'
    BY <1>2 DEF DeleteBegin, TypeOK, store, sem, handlers, jobs
  <2>2. QED
    BY <1>2, <2>1 DEF DeleteBegin, Phases, WaitQueueExact, WorkQueueExact, PicksPending, sem, handlers, jobs
<1>3. ASSUME NEW d \in Deleters, Deleter(d) PROVE Shape'
  <2>1. TypeOK'
    BY <1>3 DEF Deleter, DeleteObject, DeleteScan, TypeOK, sem, handlers, jobs
  <2>2. QED
    BY <1>3, <2>1 DEF Deleter, DeleteObject, DeleteScan, Phases, WaitQueueExact, WorkQueueExact,
          PicksPending, sem, handlers, jobs
<1>4. ASSUME NEW r \in Requests, NEW s \in Scans, Begin(r, s) PROVE Shape'
  <2>1. TypeOK'
    BY <1>4 DEF Begin, GoTo, TypeOK, HandlerState, store, sem, jobs, deletes
  <2>2. Phases'
    BY <1>4 DEF Begin, GoTo, TypeOK, Phases, jobs
  <2>3. WaitQueueExact'
    BY <1>4 DEF Begin, GoTo, TypeOK, WaitQueueExact, sem
  <2>4. WorkQueueExact'
    BY <1>4 DEF Begin, WorkQueueExact, jobs
  <2>5. PicksPending'
    BY <1>4 DEF Begin, GoTo, TypeOK, PicksPending, sem, jobs
  <2>6. QED
    BY <2>1, <2>2, <2>3, <2>4, <2>5
<1>5. ASSUME NEW r \in Requests, Handler(r) PROVE Shape'
  <2>1. CASE AlreadyComplete(r)
    <3>1. TypeOK'
      BY <2>1 DEF AlreadyComplete, GoTo, TypeOK, Phases, HandlerState, store, sem, handlers, jobs, deletes
    <3>2. Phases'
      BY <2>1 DEF AlreadyComplete, GoTo, TypeOK, Phases, handlers, jobs
    <3>3. WaitQueueExact'
      BY <2>1 DEF AlreadyComplete, GoTo, TypeOK, WaitQueueExact, sem, handlers
    <3>4. WorkQueueExact'
      BY <2>1 DEF AlreadyComplete, GoTo, TypeOK, WorkQueueExact, jobs
    <3>5. PicksPending'
      BY <2>1 DEF AlreadyComplete, GoTo, TypeOK, Phases, PicksPending, handlers, jobs, sem
    <3>6. QED
      BY <3>1, <3>2, <3>3, <3>4, <3>5
  <2>2. CASE NotComplete(r)
    <3>1. TypeOK'
      BY <2>2 DEF NotComplete, GoTo, TypeOK, Phases, HandlerState, store, sem, handlers, jobs, deletes
    <3>2. Phases'
      BY <2>2 DEF NotComplete, GoTo, TypeOK, Phases, handlers, jobs
    <3>3. WaitQueueExact'
      BY <2>2 DEF NotComplete, GoTo, TypeOK, WaitQueueExact, sem, handlers
    <3>4. WorkQueueExact'
      BY <2>2 DEF NotComplete, GoTo, TypeOK, WorkQueueExact, jobs
    <3>5. PicksPending'
      BY <2>2 DEF NotComplete, GoTo, TypeOK, Phases, PicksPending, handlers, jobs, sem
    <3>6. QED
      BY <3>1, <3>2, <3>3, <3>4, <3>5
  <2>3. CASE Gone(r)
    <3>1. TypeOK'
      BY <2>3 DEF Gone, GoTo, TypeOK, Phases, HandlerState, store, sem, handlers, jobs, deletes
    <3>2. Phases'
      BY <2>3 DEF Gone, GoTo, TypeOK, Phases, handlers, jobs
    <3>3. WaitQueueExact'
      BY <2>3 DEF Gone, GoTo, TypeOK, WaitQueueExact, sem, handlers
    <3>4. WorkQueueExact'
      BY <2>3 DEF Gone, GoTo, TypeOK, WorkQueueExact, jobs
    <3>5. PicksPending'
      BY <2>3 DEF Gone, GoTo, TypeOK, Phases, PicksPending, handlers, jobs, sem
    <3>6. QED
      BY <3>1, <3>2, <3>3, <3>4, <3>5
  <2>4. CASE Fetch(r)
    <3>1. TypeOK'
      BY <2>4 DEF Fetch, GoTo, TypeOK, Phases, HandlerState, store, sem, handlers, jobs, deletes
    <3>2. Phases'
      BY <2>4 DEF Fetch, GoTo, TypeOK, Phases, handlers, jobs
    <3>3. WaitQueueExact'
      BY <2>4 DEF Fetch, GoTo, TypeOK, WaitQueueExact, sem, handlers
    <3>4. WorkQueueExact'
      BY <2>4 DEF Fetch, GoTo, TypeOK, WorkQueueExact, jobs
    <3>5. PicksPending'
      BY <2>4 DEF Fetch, GoTo, TypeOK, Phases, PicksPending, handlers, jobs, sem
    <3>6. QED
      BY <3>1, <3>2, <3>3, <3>4, <3>5
  <2>5. CASE AcquireFast(r)
    <3>1. TypeOK'
      BY <2>5 DEF AcquireFast, GoTo, TypeOK, Phases, HandlerState, store, sem, handlers, jobs, deletes
    <3>2. Phases'
      BY <2>5 DEF AcquireFast, GoTo, TypeOK, Phases, handlers, jobs
    <3>3. WaitQueueExact'
      BY <2>5 DEF AcquireFast, GoTo, TypeOK, WaitQueueExact, sem, handlers
    <3>4. WorkQueueExact'
      BY <2>5 DEF AcquireFast, GoTo, TypeOK, WorkQueueExact, jobs
    <3>5. PicksPending'
      BY <2>5 DEF AcquireFast, GoTo, TypeOK, Phases, PicksPending, handlers, jobs, sem
    <3>6. QED
      BY <3>1, <3>2, <3>3, <3>4, <3>5
  <2>6. CASE AcquireSlow(r)
    <3>1. TypeOK'
      BY <2>6 DEF AcquireSlow, GoTo, TypeOK, Phases, HandlerState, store, sem, handlers, jobs, deletes
    <3>2. Phases'
      BY <2>6 DEF AcquireSlow, GoTo, TypeOK, Phases, handlers, jobs
    <3>3. WaitQueueExact'
      BY <2>6 DEF AcquireSlow, GoTo, TypeOK, WaitQueueExact, sem, handlers
    <3>4. WorkQueueExact'
      BY <2>6 DEF AcquireSlow, GoTo, TypeOK, WorkQueueExact, jobs
    <3>5. PicksPending'
      BY <2>6 DEF AcquireSlow, GoTo, TypeOK, Phases, PicksPending, handlers, jobs, sem
    <3>6. QED
      BY <3>1, <3>2, <3>3, <3>4, <3>5
  <2>7. CASE Enqueue(r)
    <3>0. /\ waiters' \in Seq(Requests) /\ Len(waiters') = Len(waiters) + 1
          /\ ToSet(waiters') = ToSet(waiters) \cup {r} /\ IsInjective(waiters')
      BY <2>7, AppendDistinct DEF Enqueue, TypeOK, WaitQueueExact
    <3>1. TypeOK'
      BY <2>7, <3>0 DEF Enqueue, GoTo, TypeOK, Phases, HandlerState, store, sem, handlers, jobs, deletes
    <3>2. Phases'
      BY <2>7, <3>0 DEF Enqueue, GoTo, TypeOK, Phases, handlers, jobs
    <3>3. WaitQueueExact'
      BY <2>7, <3>0 DEF Enqueue, GoTo, TypeOK, WaitQueueExact, sem, handlers
    <3>4. WorkQueueExact'
      BY <2>7, <3>0 DEF Enqueue, GoTo, TypeOK, WorkQueueExact, jobs
    <3>5. PicksPending'
      BY <2>7, <3>0 DEF Enqueue, GoTo, TypeOK, Phases, PicksPending, handlers, jobs, sem
    <3>6. QED
      BY <3>1, <3>2, <3>3, <3>4, <3>5
  <2>8. CASE Resume(r)
    <3>0. /\ hpc[r] = "waiting" /\ r \in ToSet(waiters)
          /\ waiters' \in Seq(Requests) /\ ToSet(waiters') = ToSet(waiters) \ {r}
          /\ IsInjective(waiters')
      BY <2>8, RemoveDistinct DEF Resume, TypeOK, WaitQueueExact, PicksPending
    <3>1. TypeOK'
      BY <2>8, <3>0 DEF Resume, GoTo, TypeOK, Phases, HandlerState, store, sem, handlers, jobs, deletes
    <3>2. Phases'
      BY <2>8, <3>0 DEF Resume, GoTo, TypeOK, Phases, handlers, jobs
    <3>3. WaitQueueExact'
      BY <2>8, <3>0 DEF Resume, GoTo, TypeOK, WaitQueueExact, sem, handlers
    <3>4. WorkQueueExact'
      BY <2>8, <3>0 DEF Resume, GoTo, TypeOK, WorkQueueExact, jobs
    <3>5. PicksPending'
      BY <2>8, <3>0 DEF Resume, GoTo, TypeOK, Phases, PicksPending, sem, handlers, jobs
    <3>6. QED
      BY <3>1, <3>2, <3>3, <3>4, <3>5
  <2>9. CASE Rewake(r)
    <3>1. TypeOK'
      BY <2>9 DEF Rewake, GoTo, TypeOK, Phases, HandlerState, store, sem, handlers, jobs, deletes
    <3>2. Phases'
      BY <2>9 DEF Rewake, GoTo, TypeOK, Phases, handlers, jobs
    <3>3. WaitQueueExact'
      BY <2>9 DEF Rewake, GoTo, TypeOK, WaitQueueExact, sem, handlers
    <3>4. WorkQueueExact'
      BY <2>9 DEF Rewake, GoTo, TypeOK, WorkQueueExact, jobs
    <3>5. PicksPending'
      BY <2>9 DEF Rewake, GoTo, TypeOK, Phases, PicksPending, sem, handlers, jobs
    <3>6. QED
      BY <3>1, <3>2, <3>3, <3>4, <3>5
  <2>10. CASE Repick(r)
    <3>0. /\ UNCHANGED <<value, waiters, woken, lost>>
          /\ picked' \in [Requests -> SUBSET Requests]
          /\ \E w \in ToSet(waiters) \ woken : picked'[r] = {w}
          /\ \A q \in Requests \ {r} : picked'[q] = picked[q]
      BY <2>10, PickFinds DEF Repick
    <3>1. TypeOK'
      BY <2>10, <3>0 DEF Repick, GoTo, TypeOK, Phases, HandlerState, store, sem, handlers, jobs, deletes
    <3>2. Phases'
      BY <2>10, <3>0 DEF Repick, GoTo, TypeOK, Phases, handlers, jobs
    <3>3. WaitQueueExact'
      BY <2>10, <3>0 DEF Repick, GoTo, TypeOK, WaitQueueExact, sem, handlers
    <3>4. WorkQueueExact'
      BY <2>10, <3>0 DEF Repick, GoTo, TypeOK, WorkQueueExact, jobs
    <3>5. PicksPending'
      BY <2>10, <3>0 DEF Repick, GoTo, TypeOK, Phases, PicksPending, sem, handlers, jobs
    <3>6. QED
      BY <3>1, <3>2, <3>3, <3>4, <3>5
  <2>11. CASE Regrant(r)
    <3>0. /\ value' = value - 1 /\ value' \in Int /\ UNCHANGED <<waiters, lost>>
          /\ \E w \in ToSet(waiters) \ woken : picked[r] = {w} /\ woken' = woken \cup {w}
          /\ woken' \subseteq Requests
          /\ picked' \in [Requests -> SUBSET Requests]
          /\ picked'[r] = {}
          /\ \A q \in Requests : picked'[q] = picked[q] \ picked[r]
      BY <2>11, ResultSet DEF Regrant
    <3>1. TypeOK'
      BY <2>11, <3>0 DEF Regrant, GoTo, TypeOK, Phases, HandlerState, store, sem, handlers, jobs, deletes
    <3>2. Phases'
      BY <2>11, <3>0 DEF Regrant, GoTo, TypeOK, Phases, handlers, jobs
    <3>3. WaitQueueExact'
      BY <2>11, <3>0 DEF Regrant, GoTo, TypeOK, WaitQueueExact, sem, handlers
    <3>4. WorkQueueExact'
      BY <2>11, <3>0 DEF Regrant, GoTo, TypeOK, WorkQueueExact, jobs
    <3>5. PicksPending'
      BY <2>11, <3>0 DEF Regrant, GoTo, TypeOK, Phases, PicksPending, sem, handlers, jobs
    <3>6. QED
      BY <3>1, <3>2, <3>3, <3>4, <3>5
  <2>12. CASE RegrantRaises(r)
    <3>1. TypeOK'
      BY <2>12 DEF RegrantRaises, GoTo, SetResultRaises, TypeOK, Phases, HandlerState, store, sem, handlers, jobs, deletes
    <3>2. Phases'
      BY <2>12 DEF RegrantRaises, GoTo, SetResultRaises, TypeOK, Phases, handlers, jobs
    <3>3. WaitQueueExact'
      BY <2>12 DEF RegrantRaises, GoTo, SetResultRaises, TypeOK, WaitQueueExact, sem, handlers
    <3>4. WorkQueueExact'
      BY <2>12 DEF RegrantRaises, GoTo, SetResultRaises, TypeOK, WorkQueueExact, jobs
    <3>5. PicksPending'
      BY <2>12 DEF RegrantRaises, GoTo, SetResultRaises, TypeOK, Phases, PicksPending, sem, handlers, jobs
    <3>6. QED
      BY <3>1, <3>2, <3>3, <3>4, <3>5
  <2>13. CASE Resumed(r)
    <3>1. TypeOK'
      BY <2>13 DEF Resumed, GoTo, TypeOK, Phases, HandlerState, store, sem, handlers, jobs, deletes
    <3>2. Phases'
      BY <2>13 DEF Resumed, GoTo, TypeOK, Phases, handlers, jobs
    <3>3. WaitQueueExact'
      BY <2>13 DEF Resumed, GoTo, TypeOK, WaitQueueExact, sem, handlers
    <3>4. WorkQueueExact'
      BY <2>13 DEF Resumed, GoTo, TypeOK, WorkQueueExact, jobs
    <3>5. PicksPending'
      BY <2>13 DEF Resumed, GoTo, TypeOK, PicksPending, handlers, jobs, sem
    <3>6. QED
      BY <3>1, <3>2, <3>3, <3>4, <3>5
  <2>14. CASE Submit(r)
    <3>0. /\ execq' \in Seq(Requests)
          /\ ToSet(execq') = ToSet(execq) \cup {r} /\ IsInjective(execq')
      <4>1. r \notin ToSet(execq)
        BY <2>14 DEF Submit, Phases, WorkQueueExact
      <4>2. QED
        BY <2>14, <4>1, AppendDistinct DEF Submit, TypeOK, WorkQueueExact
    <3>1. TypeOK'
      BY <2>14, <3>0 DEF Submit, GoTo, TypeOK, Phases, HandlerState, JobState, store, sem, handlers, jobs, deletes
    <3>2. Phases'
      BY <2>14, <3>0 DEF Submit, GoTo, TypeOK, Phases, handlers, jobs
    <3>3. WaitQueueExact'
      BY <2>14, <3>0 DEF Submit, GoTo, TypeOK, WaitQueueExact, sem, handlers
    <3>4. WorkQueueExact'
      BY <2>14, <3>0 DEF Submit, GoTo, TypeOK, WorkQueueExact, jobs
    <3>5. PicksPending'
      BY <2>14 DEF Submit, GoTo, TypeOK, Phases, PicksPending, handlers, jobs, sem
    <3>6. QED
      BY <3>1, <3>2, <3>3, <3>4, <3>5
  <2>15. CASE SubmitRefused(r)
    <3>1. TypeOK'
      BY <2>15 DEF SubmitRefused, GoTo, TypeOK, Phases, HandlerState, store, sem, handlers, jobs, deletes
    <3>2. Phases'
      BY <2>15 DEF SubmitRefused, GoTo, TypeOK, Phases, handlers, jobs
    <3>3. WaitQueueExact'
      BY <2>15 DEF SubmitRefused, GoTo, TypeOK, WaitQueueExact, sem, handlers
    <3>4. WorkQueueExact'
      BY <2>15 DEF SubmitRefused, GoTo, TypeOK, WorkQueueExact, jobs
    <3>5. PicksPending'
      BY <2>15 DEF SubmitRefused, GoTo, TypeOK, Phases, PicksPending, handlers, jobs, sem
    <3>6. QED
      BY <3>1, <3>2, <3>3, <3>4, <3>5
  <2>16. CASE Undo(r)
    <3>1. TypeOK'
      BY <2>16 DEF Undo, GoTo, TypeOK, Phases, HandlerState, store, sem, handlers, jobs, deletes
    <3>2. Phases'
      BY <2>16 DEF Undo, GoTo, TypeOK, Phases, handlers, jobs
    <3>3. WaitQueueExact'
      BY <2>16 DEF Undo, GoTo, TypeOK, WaitQueueExact, sem, handlers
    <3>4. WorkQueueExact'
      BY <2>16 DEF Undo, GoTo, TypeOK, WorkQueueExact, jobs
    <3>5. PicksPending'
      BY <2>16 DEF Undo, GoTo, TypeOK, Phases, PicksPending, handlers, jobs, sem
    <3>6. QED
      BY <3>1, <3>2, <3>3, <3>4, <3>5
  <2>17. CASE UndoPick(r)
    <3>0. /\ UNCHANGED <<value, waiters, woken, lost>>
          /\ picked' \in [Requests -> SUBSET Requests]
          /\ \E w \in ToSet(waiters) \ woken : picked'[r] = {w}
          /\ \A q \in Requests \ {r} : picked'[q] = picked[q]
      BY <2>17, PickFinds DEF UndoPick
    <3>1. TypeOK'
      BY <2>17, <3>0 DEF UndoPick, GoTo, TypeOK, Phases, HandlerState, store, sem, handlers, jobs, deletes
    <3>2. Phases'
      BY <2>17, <3>0 DEF UndoPick, GoTo, TypeOK, Phases, handlers, jobs
    <3>3. WaitQueueExact'
      BY <2>17, <3>0 DEF UndoPick, GoTo, TypeOK, WaitQueueExact, sem, handlers
    <3>4. WorkQueueExact'
      BY <2>17, <3>0 DEF UndoPick, GoTo, TypeOK, WorkQueueExact, jobs
    <3>5. PicksPending'
      BY <2>17, <3>0 DEF UndoPick, GoTo, TypeOK, Phases, PicksPending, sem, handlers, jobs
    <3>6. QED
      BY <3>1, <3>2, <3>3, <3>4, <3>5
  <2>18. CASE Undone(r)
    <3>0. /\ UNCHANGED waiters /\ value' \in Int /\ lost' \in Nat
          /\ woken' \subseteq ToSet(waiters) /\ woken' \subseteq Requests
          /\ picked' \in [Requests -> SUBSET Requests]
          /\ picked'[r] = {}
          /\ \A q \in Requests : picked'[q] \subseteq picked[q] \ woken'
      <4>1. CASE hpc[r] = "undowake" /\ UNCHANGED sem
        BY <2>18, <4>1 DEF sem, TypeOK, Phases, PicksPending
      <4>2. CASE SetResult(r)
        BY <4>2, ResultSet DEF TypeOK, PicksPending
      <4>3. CASE SetResultRaises(r, 1)
        BY <4>3 DEF SetResultRaises, TypeOK, PicksPending
      <4>4. QED
        BY <2>18, <4>1, <4>2, <4>3 DEF Undone
    <3>1. TypeOK'
      BY <2>18, <3>0 DEF Undone, GoTo, TypeOK, Phases, HandlerState, store, sem, handlers, jobs, deletes
    <3>2. Phases'
      BY <2>18, <3>0 DEF Undone, GoTo, TypeOK, Phases, handlers, jobs
    <3>3. WaitQueueExact'
      BY <2>18, <3>0 DEF Undone, GoTo, TypeOK, WaitQueueExact, sem, handlers
    <3>4. WorkQueueExact'
      BY <2>18, <3>0 DEF Undone, GoTo, TypeOK, WorkQueueExact, jobs
    <3>5. PicksPending'
      BY <2>18, <3>0 DEF Undone, GoTo, TypeOK, Phases, PicksPending, sem, handlers, jobs
    <3>6. QED
      BY <3>1, <3>2, <3>3, <3>4, <3>5
  <2>19. CASE Mark(r)
    <3>1. TypeOK'
      BY <2>19 DEF Mark, UpdateScan, GoTo, TypeOK, Phases, Row, Status, HandlerState, store, sem, handlers, jobs, deletes
    <3>2. Phases'
      BY <2>19 DEF Mark, UpdateScan, GoTo, TypeOK, Phases, handlers, jobs
    <3>3. WaitQueueExact'
      BY <2>19 DEF Mark, UpdateScan, GoTo, TypeOK, WaitQueueExact, sem, handlers
    <3>4. WorkQueueExact'
      BY <2>19 DEF Mark, UpdateScan, GoTo, TypeOK, WorkQueueExact, jobs
    <3>5. PicksPending'
      BY <2>19 DEF Mark, UpdateScan, GoTo, TypeOK, Phases, PicksPending, handlers, jobs, sem
    <3>6. QED
      BY <3>1, <3>2, <3>3, <3>4, <3>5
  <2>20. QED
    BY <1>5, <2>1, <2>2, <2>3, <2>4, <2>5, <2>6, <2>7, <2>8, <2>9, <2>10,
        <2>11, <2>12, <2>13, <2>14, <2>15, <2>16, <2>17, <2>18, <2>19 DEF Handler
<1>6. ASSUME NEW r \in Requests, Worker(r) PROVE Shape'
  <2>1. CASE Pickup(r)
    <3>0. /\ jpc[r] = "queued" /\ execq' \in Seq(Requests)
          /\ ToSet(execq') = ToSet(execq) \ {r} /\ IsInjective(execq')
      BY <2>1, TailDistinct DEF Pickup, TypeOK, WorkQueueExact
    <3>1. TypeOK'
      BY <2>1, <3>0 DEF Pickup, JobTo, TypeOK, Phases, JobState, store, sem, handlers, jobs, deletes
    <3>2. Phases'
      BY <2>1, <3>0 DEF Pickup, JobTo, TypeOK, Phases, handlers, jobs
    <3>3. WaitQueueExact'
      BY <2>1, <3>0 DEF Pickup, JobTo, TypeOK, WaitQueueExact, sem, handlers
    <3>4. WorkQueueExact'
      BY <2>1, <3>0 DEF Pickup, JobTo, TypeOK, WorkQueueExact, jobs
    <3>5. PicksPending'
      BY <2>1, <3>0 DEF Pickup, JobTo, TypeOK, PicksPending, handlers, jobs, sem
    <3>6. QED
      BY <3>1, <3>2, <3>3, <3>4, <3>5
  <2>2. CASE Start(r)
    <3>0. row' \in [Scans -> Row]
      <4>1. jtarget[r] \in live => row[jtarget[r]] \in Row
        BY DEF TypeOK
      <4>2. jtarget[r] \in live => [row[jtarget[r]] EXCEPT !.status = "parsing"] \in Row
        BY <4>1, RowEdits
      <4>3. QED
        BY <2>2, <4>2, UpdateTyped DEF Start, TypeOK
    <3>1. TypeOK'
      BY <2>2, <3>0 DEF Start, JobTo, TypeOK, Phases, JobState, store, sem, handlers, jobs, deletes
    <3>2. Phases'
      BY <2>2, <3>0 DEF Start, UpdateScan, JobTo, TypeOK, Phases, handlers, jobs
    <3>3. WaitQueueExact'
      BY <2>2, <3>0 DEF Start, UpdateScan, JobTo, TypeOK, WaitQueueExact, sem, handlers
    <3>4. WorkQueueExact'
      BY <2>2, <3>0 DEF Start, UpdateScan, JobTo, TypeOK, WorkQueueExact, jobs
    <3>5. PicksPending'
      BY <2>2, <3>0 DEF Start, UpdateScan, JobTo, TypeOK, PicksPending, handlers, jobs, sem
    <3>6. QED
      BY <3>1, <3>2, <3>3, <3>4, <3>5
  <2>3. CASE Progress(r)
    <3>0. row' \in [Scans -> Row]
      <4>0. Ticks[jtick[r] + 1] \in 2 .. 99
        <5>1. jtick[r] + 1 \in 1 .. Len(Ticks)
          BY <2>3, TicksAssumption, LenProperties DEF Progress, TypeOK
        <5>2. QED
          BY <5>1, TicksAssumption, ElementOfSeq
      <4>5. Ticks[jtick[r] + 1] \in 0 .. 100
        BY <4>0
      <4>1. jtarget[r] \in live => row[jtarget[r]] \in Row
        BY DEF TypeOK
      <4>2. jtarget[r] \in live => [row[jtarget[r]] EXCEPT !.progress = Ticks[jtick[r] + 1]] \in Row
        BY <4>1, RowEdits, <4>5
      <4>3. QED
        BY <2>3, <4>2, UpdateTyped DEF Progress, TypeOK
    <3>1. TypeOK'
      BY <2>3, <3>0, TicksAssumption DEF Progress, TypeOK, Phases, JobState, store, sem, handlers, jobs, deletes
    <3>2. Phases'
      BY <2>3, <3>0 DEF Progress, UpdateScan, TypeOK, Phases, handlers, jobs
    <3>3. WaitQueueExact'
      BY <2>3, <3>0 DEF Progress, UpdateScan, TypeOK, WaitQueueExact, sem, handlers
    <3>4. WorkQueueExact'
      BY <2>3, <3>0 DEF Progress, UpdateScan, TypeOK, WorkQueueExact, jobs
    <3>5. PicksPending'
      BY <2>3, <3>0 DEF Progress, UpdateScan, TypeOK, PicksPending, handlers, jobs, sem
    <3>6. QED
      BY <3>1, <3>2, <3>3, <3>4, <3>5
  <2>4. CASE Raise(r)
    <3>1. TypeOK'
      BY <2>4 DEF Raise, JobTo, TypeOK, Phases, JobState, store, sem, handlers, jobs, deletes
    <3>2. Phases'
      BY <2>4 DEF Raise, JobTo, TypeOK, Phases, handlers, jobs
    <3>3. WaitQueueExact'
      BY <2>4 DEF Raise, JobTo, TypeOK, WaitQueueExact, sem, handlers
    <3>4. WorkQueueExact'
      BY <2>4 DEF Raise, JobTo, TypeOK, WorkQueueExact, jobs
    <3>5. PicksPending'
      BY <2>4 DEF Raise, JobTo, TypeOK, PicksPending, handlers, jobs, sem
    <3>6. QED
      BY <3>1, <3>2, <3>3, <3>4, <3>5
  <2>5. CASE PutResult(r)
    <3>1. TypeOK'
      BY <2>5 DEF PutResult, JobTo, TypeOK, Phases, JobState, store, sem, handlers, jobs, deletes
    <3>2. Phases'
      BY <2>5 DEF PutResult, JobTo, TypeOK, Phases, handlers, jobs
    <3>3. WaitQueueExact'
      BY <2>5 DEF PutResult, JobTo, TypeOK, WaitQueueExact, sem, handlers
    <3>4. WorkQueueExact'
      BY <2>5 DEF PutResult, JobTo, TypeOK, WorkQueueExact, jobs
    <3>5. PicksPending'
      BY <2>5 DEF PutResult, JobTo, TypeOK, PicksPending, handlers, jobs, sem
    <3>6. QED
      BY <3>1, <3>2, <3>3, <3>4, <3>5
  <2>6. CASE Finish(r)
    <3>0. row' \in [Scans -> Row]
      <4>1. jtarget[r] \in live => row[jtarget[r]] \in Row
        BY DEF TypeOK
      <4>2. jtarget[r] \in live => [row[jtarget[r]] EXCEPT !.status = "complete", !.progress = 100] \in Row
        BY <4>1, RowEdits
      <4>3. QED
        BY <2>6, <4>2, UpdateTyped DEF Finish, TypeOK
    <3>1. TypeOK'
      BY <2>6, <3>0 DEF Finish, JobTo, TypeOK, Phases, JobState, store, sem, handlers, jobs, deletes
    <3>2. Phases'
      BY <2>6, <3>0 DEF Finish, UpdateScan, JobTo, TypeOK, Phases, handlers, jobs
    <3>3. WaitQueueExact'
      BY <2>6, <3>0 DEF Finish, UpdateScan, JobTo, TypeOK, WaitQueueExact, sem, handlers
    <3>4. WorkQueueExact'
      BY <2>6, <3>0 DEF Finish, UpdateScan, JobTo, TypeOK, WorkQueueExact, jobs
    <3>5. PicksPending'
      BY <2>6, <3>0 DEF Finish, UpdateScan, JobTo, TypeOK, PicksPending, handlers, jobs, sem
    <3>6. QED
      BY <3>1, <3>2, <3>3, <3>4, <3>5
  <2>7. CASE Fail(r)
    <3>0. row' \in [Scans -> Row]
      <4>1. jtarget[r] \in live => row[jtarget[r]] \in Row
        BY DEF TypeOK
      <4>2. jtarget[r] \in live => [row[jtarget[r]] EXCEPT !.status = "failed", !.error = TRUE] \in Row
        BY <4>1, RowEdits
      <4>3. QED
        BY <2>7, <4>2, UpdateTyped DEF Fail, TypeOK
    <3>1. TypeOK'
      BY <2>7, <3>0 DEF Fail, JobTo, TypeOK, Phases, JobState, store, sem, handlers, jobs, deletes
    <3>2. Phases'
      BY <2>7, <3>0 DEF Fail, UpdateScan, JobTo, TypeOK, Phases, handlers, jobs
    <3>3. WaitQueueExact'
      BY <2>7, <3>0 DEF Fail, UpdateScan, JobTo, TypeOK, WaitQueueExact, sem, handlers
    <3>4. WorkQueueExact'
      BY <2>7, <3>0 DEF Fail, UpdateScan, JobTo, TypeOK, WorkQueueExact, jobs
    <3>5. PicksPending'
      BY <2>7, <3>0 DEF Fail, UpdateScan, JobTo, TypeOK, PicksPending, handlers, jobs, sem
    <3>6. QED
      BY <3>1, <3>2, <3>3, <3>4, <3>5
  <2>8. CASE Release(r)
    <3>1. TypeOK'
      BY <2>8 DEF Release, JobTo, TypeOK, Phases, JobState, store, sem, handlers, jobs, deletes
    <3>2. Phases'
      BY <2>8 DEF Release, JobTo, TypeOK, Phases, handlers, jobs
    <3>3. WaitQueueExact'
      BY <2>8 DEF Release, JobTo, TypeOK, WaitQueueExact, sem, handlers
    <3>4. WorkQueueExact'
      BY <2>8 DEF Release, JobTo, TypeOK, WorkQueueExact, jobs
    <3>5. PicksPending'
      BY <2>8 DEF Release, JobTo, TypeOK, PicksPending, handlers, jobs, sem
    <3>6. QED
      BY <3>1, <3>2, <3>3, <3>4, <3>5
  <2>9. CASE WakePick(r)
    <3>0. /\ UNCHANGED <<value, waiters, woken, lost>>
          /\ picked' \in [Requests -> SUBSET Requests]
          /\ \E w \in ToSet(waiters) \ woken : picked'[r] = {w}
          /\ \A q \in Requests \ {r} : picked'[q] = picked[q]
      BY <2>9, PickFinds DEF WakePick
    <3>1. TypeOK'
      BY <2>9, <3>0 DEF WakePick, JobOver, JobTo, TypeOK, Phases, JobState, store, sem, handlers, jobs, deletes
    <3>2. Phases'
      BY <2>9, <3>0 DEF WakePick, JobOver, JobTo, TypeOK, Phases, handlers, jobs
    <3>3. WaitQueueExact'
      BY <2>9, <3>0 DEF WakePick, JobOver, JobTo, TypeOK, WaitQueueExact, sem, handlers
    <3>4. WorkQueueExact'
      BY <2>9, <3>0 DEF WakePick, JobOver, JobTo, TypeOK, WorkQueueExact, jobs
    <3>5. PicksPending'
      BY <2>9, <3>0 DEF WakePick, JobOver, JobTo, TypeOK, Phases, PicksPending, sem, handlers, jobs
    <3>6. QED
      BY <3>1, <3>2, <3>3, <3>4, <3>5
  <2>10. CASE WakeNobody(r)
    <3>j. /\ jpc' \in [Requests -> JobState]
          /\ jtarget' \in [Requests -> Scans \cup {NoScan}]
          /\ jtick' \in [Requests -> 0 .. Len(Ticks)]
      BY <2>10, JobOverTyped DEF WakeNobody
    <3>1. TypeOK'
      BY <2>10, <3>j DEF WakeNobody, JobOver, TypeOK, Phases, JobState, store, sem, handlers, jobs, deletes
    <3>2. Phases'
      BY <2>10 DEF WakeNobody, JobOver, JobTo, TypeOK, Phases, handlers, jobs
    <3>3. WaitQueueExact'
      BY <2>10 DEF WakeNobody, JobOver, JobTo, TypeOK, WaitQueueExact, sem, handlers
    <3>4. WorkQueueExact'
      BY <2>10 DEF WakeNobody, JobOver, JobTo, TypeOK, WorkQueueExact, jobs
    <3>5. PicksPending'
      BY <2>10 DEF WakeNobody, JobOver, JobTo, TypeOK, Phases, PicksPending, sem, handlers, jobs
    <3>6. QED
      BY <3>1, <3>2, <3>3, <3>4, <3>5
  <2>11. CASE WakeCut(r)
    <3>j. /\ jpc' \in [Requests -> JobState]
          /\ jtarget' \in [Requests -> Scans \cup {NoScan}]
          /\ jtick' \in [Requests -> 0 .. Len(Ticks)]
      BY <2>11, JobOverTyped DEF WakeCut
    <3>1. TypeOK'
      BY <2>11, <3>j DEF WakeCut, JobOver, TypeOK, Phases, JobState, store, sem, handlers, jobs, deletes
    <3>2. Phases'
      BY <2>11 DEF WakeCut, JobOver, JobTo, TypeOK, Phases, handlers, jobs
    <3>3. WaitQueueExact'
      BY <2>11 DEF WakeCut, JobOver, JobTo, TypeOK, WaitQueueExact, sem, handlers
    <3>4. WorkQueueExact'
      BY <2>11 DEF WakeCut, JobOver, JobTo, TypeOK, WorkQueueExact, jobs
    <3>5. PicksPending'
      BY <2>11 DEF WakeCut, JobOver, JobTo, TypeOK, Phases, PicksPending, sem, handlers, jobs
    <3>6. QED
      BY <3>1, <3>2, <3>3, <3>4, <3>5
  <2>12. CASE Wake(r)
    <3>0. /\ value' = value - 1 /\ value' \in Int /\ UNCHANGED <<waiters, lost>>
          /\ \E w \in ToSet(waiters) \ woken : picked[r] = {w} /\ woken' = woken \cup {w}
          /\ woken' \subseteq Requests
          /\ picked' \in [Requests -> SUBSET Requests]
          /\ picked'[r] = {}
          /\ \A q \in Requests : picked'[q] = picked[q] \ picked[r]
      BY <2>12, ResultSet DEF Wake
    <3>j. /\ jpc' \in [Requests -> JobState]
          /\ jtarget' \in [Requests -> Scans \cup {NoScan}]
          /\ jtick' \in [Requests -> 0 .. Len(Ticks)]
      BY <2>12, JobOverTyped DEF Wake
    <3>1. TypeOK'
      BY <2>12, <3>0, <3>j DEF Wake, JobOver, TypeOK, Phases, JobState, store, sem, handlers, jobs, deletes
    <3>2. Phases'
      BY <2>12, <3>0 DEF Wake, JobOver, JobTo, TypeOK, Phases, handlers, jobs
    <3>3. WaitQueueExact'
      BY <2>12, <3>0 DEF Wake, JobOver, JobTo, TypeOK, WaitQueueExact, sem, handlers
    <3>4. WorkQueueExact'
      BY <2>12, <3>0 DEF Wake, JobOver, JobTo, TypeOK, WorkQueueExact, jobs
    <3>5. PicksPending'
      BY <2>12, <3>0 DEF Wake, JobOver, JobTo, TypeOK, Phases, PicksPending, sem, handlers, jobs
    <3>6. QED
      BY <3>1, <3>2, <3>3, <3>4, <3>5
  <2>13. CASE WakeRaises(r)
    <3>j. /\ jpc' \in [Requests -> JobState]
          /\ jtarget' \in [Requests -> Scans \cup {NoScan}]
          /\ jtick' \in [Requests -> 0 .. Len(Ticks)]
      BY <2>13, JobOverTyped DEF WakeRaises
    <3>1. TypeOK'
      BY <2>13, <3>j DEF WakeRaises, JobOver, SetResultRaises, TypeOK, Phases, JobState, store, sem, handlers, jobs, deletes
    <3>2. Phases'
      BY <2>13 DEF WakeRaises, JobOver, JobTo, SetResultRaises, TypeOK, Phases, handlers, jobs
    <3>3. WaitQueueExact'
      BY <2>13 DEF WakeRaises, JobOver, JobTo, SetResultRaises, TypeOK, WaitQueueExact, sem, handlers
    <3>4. WorkQueueExact'
      BY <2>13 DEF WakeRaises, JobOver, JobTo, SetResultRaises, TypeOK, WorkQueueExact, jobs
    <3>5. PicksPending'
      BY <2>13 DEF WakeRaises, JobOver, JobTo, SetResultRaises, TypeOK, Phases, PicksPending, sem, handlers, jobs
    <3>6. QED
      BY <3>1, <3>2, <3>3, <3>4, <3>5
  <2>14. QED
    BY <1>6, <2>1, <2>2, <2>3, <2>4, <2>5, <2>6, <2>7, <2>8, <2>9, <2>10, <2>11, <2>12, <2>13 DEF Worker
<1>7. CASE UNCHANGED vars
  BY <1>7 DEF vars, store, sem, handlers, jobs, deletes, TypeOK, Phases, WaitQueueExact, WorkQueueExact, PicksPending
<1>8. QED
  BY <1>1, <1>2, <1>3, <1>4, <1>5, <1>6, <1>7 DEF Next

(* Type correctness of every reachable state. *)
THEOREM ServiceShape == Safety => []Shape
BY ShapeInit, ShapeStep, PTL DEF Safety
-----------------------------------------------------------------------------
(* Slot accounting.                                                        *)

(* The requests that hold a slot, and those that are handed one, are       *)
(* finitely many.                                                          *)
LEMMA SlotCounts ==
    ASSUME Shape
    PROVE  /\ IsFiniteSet(Holders) /\ Cardinality(Holders) \in Nat
           /\ IsFiniteSet(woken) /\ Cardinality(woken) \in Nat
<1>1. Holders \subseteq Requests /\ woken \subseteq Requests
  BY DEF Holders, Shape, TypeOK
<1>2. QED
  BY <1>1, RequestsAssumption, FS_Subset, FS_CardinalityType

(* A request that takes a slot adds one to the holders.                    *)
LEMMA HoldersJoin ==
    ASSUME Shape, NEW r \in Requests, r \notin Holders, Holders' = Holders \cup {r}
    PROVE  Cardinality(Holders') = Cardinality(Holders) + 1
BY SlotCounts, FS_AddElement

(* A request that gives its slot back takes one from the holders.          *)
LEMMA HoldersLeave ==
    ASSUME Shape, NEW r \in Requests, r \in Holders, Holders' = Holders \ {r}
    PROVE  Cardinality(Holders') = Cardinality(Holders) - 1
BY SlotCounts, FS_RemoveElement

(* A set_result moves a slot from `value` to the waiters woken.            *)
LEMMA ResultMoves ==
    ASSUME Shape, NEW r \in Requests, SetResult(r)
    PROVE  /\ value' = value - 1 /\ lost' = lost
           /\ Cardinality(woken') = Cardinality(woken) + 1
<1>1. PICK w \in ToSet(waiters) \ woken : woken' = woken \cup {w}
  BY ResultSet
<1>2. Cardinality(woken \cup {w}) = Cardinality(woken) + 1
  BY <1>1, SlotCounts, FS_AddElement
<1>3. QED
  BY <1>1, <1>2, ResultSet

(* No slot is taken when the service starts.                               *)
LEMMA SlotInit == Init => SlotsAccounted
<1> SUFFICES ASSUME Init PROVE SlotsAccounted
  OBVIOUS
<1>1. Holders = {} /\ woken = {}
  BY DEF Init, Holders
<1>2. QED
  BY <1>1, FS_EmptySet, SlotsAssumption DEF Init, SlotsAccounted

(* Every step keeps the slots that are free, handed on, held and lost in   *)
(* balance.                                                                *)
LEMMA SlotStep == Shape /\ SlotsAccounted /\ [Next]_vars => SlotsAccounted'
<1> SUFFICES ASSUME Shape, SlotsAccounted, [Next]_vars PROVE SlotsAccounted'
  OBVIOUS
<1>n. /\ value \in Int /\ lost \in Nat /\ Slots \in Nat
      /\ hpc \in [Requests -> HandlerState] /\ jpc \in [Requests -> JobState]
      /\ Cardinality(Holders) \in Nat /\ Cardinality(woken) \in Nat
      /\ value + Cardinality(woken) + Cardinality(Holders) + lost = Slots
  BY SlotCounts, SlotsAssumption DEF Shape, TypeOK, SlotsAccounted
<1>s. ASSUME Holders' = Holders, UNCHANGED <<value, woken, lost>>
      PROVE  SlotsAccounted'
  BY <1>n, <1>s DEF SlotsAccounted
<1>g. ASSUME NEW r \in Requests, SetResult(r), Holders' = Holders
      PROVE  SlotsAccounted'
  BY <1>n, <1>g, ResultMoves DEF SlotsAccounted
<1>1. CASE \/ \E s \in Scans : Upload(s)
           \/ \E d \in Deleters, s \in Scans : DeleteBegin(d, s)
           \/ \E d \in Deleters : Deleter(d)
  BY <1>1, <1>n DEF Upload, DeleteBegin, Deleter, DeleteObject, DeleteScan, SlotsAccounted,
        Holders, sem, handlers, jobs
<1>2. ASSUME NEW r \in Requests, NEW s \in Scans, Begin(r, s) PROVE SlotsAccounted'
  BY <1>2, <1>n, <1>s DEF Begin, GoTo, Holders, sem, jobs
<1>3. ASSUME NEW r \in Requests, Handler(r) PROVE SlotsAccounted'
  <2>1. CASE AlreadyComplete(r)
    BY <2>1, <1>n, <1>s DEF AlreadyComplete, GoTo, Shape, Phases, Holders, sem, jobs, handlers
  <2>2. CASE NotComplete(r)
    BY <2>2, <1>n, <1>s DEF NotComplete, GoTo, Shape, Phases, Holders, sem, jobs, handlers
  <2>3. CASE Gone(r)
    BY <2>3, <1>n, <1>s DEF Gone, GoTo, Shape, Phases, Holders, sem, jobs, handlers
  <2>4. CASE Fetch(r)
    BY <2>4, <1>n, <1>s DEF Fetch, GoTo, Shape, Phases, Holders, sem, jobs, handlers
  <2>5. CASE AcquireFast(r)
    <3>1. r \notin Holders /\ Holders' = Holders \cup {r}
      BY <2>5, <1>n DEF AcquireFast, GoTo, Shape, Phases, Holders, jobs, handlers
    <3>2. Cardinality(Holders') = Cardinality(Holders) + 1
      BY <3>1, HoldersJoin
    <3>3. value' = value - 1 /\ woken' = woken /\ lost' = lost
      BY <2>5, <1>n DEF AcquireFast
    <3>4. QED
      BY <1>n, <3>2, <3>3 DEF SlotsAccounted
  <2>6. CASE AcquireSlow(r)
    BY <2>6, <1>n, <1>s DEF AcquireSlow, GoTo, Shape, Phases, Holders, sem, jobs, handlers
  <2>7. CASE Enqueue(r)
    BY <2>7, <1>n, <1>s DEF Enqueue, GoTo, Shape, Phases, Holders, sem, jobs, handlers
  <2>8. CASE Resume(r)
    <3>0. hpc[r] = "waiting"
      BY <2>8 DEF Resume, Shape, WaitQueueExact, PicksPending
    <3>w. Cardinality(woken') = Cardinality(woken) - 1
      BY <2>8, SlotCounts, FS_RemoveElement DEF Resume
    <3>1. r \notin Holders /\ Holders' = Holders \cup {r}
      BY <2>8, <1>n, <3>0 DEF Resume, GoTo, Shape, Phases, Holders, jobs, handlers
    <3>2. Cardinality(Holders') = Cardinality(Holders) + 1
      BY <3>1, HoldersJoin
    <3>3. /\ value' = value /\ lost' = lost
          /\ Cardinality(woken') = Cardinality(woken) - 1
      BY <2>8, <1>n, <3>w DEF Resume
    <3>4. QED
      BY <1>n, <3>2, <3>3 DEF SlotsAccounted
  <2>9. CASE Rewake(r)
    BY <2>9, <1>n, <1>s DEF Rewake, GoTo, Shape, Phases, Holders, sem, jobs, handlers
  <2>10. CASE Repick(r)
    BY <2>10, <1>n, <1>s DEF Repick, Pick, GoTo, Shape, Phases, Holders, jobs, handlers
  <2>11. CASE Regrant(r)
    <3>1. Holders' = Holders
      BY <2>11, <1>n DEF Regrant, GoTo, Holders, jobs
    <3>2. QED
      BY <2>11, <3>1, <1>g DEF Regrant
  <2>12. CASE RegrantRaises(r)
    <3>1. r \in Holders /\ Holders' = Holders \ {r}
      BY <2>12, <1>n DEF RegrantRaises, GoTo, Shape, Phases, Holders, jobs, handlers
    <3>2. Cardinality(Holders') = Cardinality(Holders) - 1
      BY <3>1, HoldersLeave
    <3>3. value' = value - 1 /\ woken' = woken /\ lost' = lost + 2
      BY <2>12, <1>n DEF RegrantRaises, SetResultRaises
    <3>4. QED
      BY <1>n, <3>2, <3>3 DEF SlotsAccounted
  <2>13. CASE Resumed(r)
    BY <2>13, <1>n, <1>s DEF Resumed, GoTo, Shape, Phases, Holders, sem, jobs, handlers
  <2>14. CASE Submit(r)
    BY <2>14, <1>n, <1>s DEF Submit, GoTo, Shape, Phases, Holders, sem, jobs, handlers
  <2>15. CASE SubmitRefused(r)
    BY <2>15, <1>n, <1>s DEF SubmitRefused, GoTo, Shape, Phases, Holders, sem, jobs, handlers
  <2>16. CASE Undo(r)
    <3>1. r \in Holders /\ Holders' = Holders \ {r}
      BY <2>16, <1>n DEF Undo, GoTo, Shape, Phases, Holders, jobs, handlers
    <3>2. Cardinality(Holders') = Cardinality(Holders) - 1
      BY <3>1, HoldersLeave
    <3>3. value' = value + 1 /\ woken' = woken /\ lost' = lost
      BY <2>16, <1>n DEF Undo
    <3>4. QED
      BY <1>n, <3>2, <3>3 DEF SlotsAccounted
  <2>17. CASE UndoPick(r)
    BY <2>17, <1>n, <1>s DEF UndoPick, Pick, GoTo, Shape, Phases, Holders, jobs, handlers
  <2>18. CASE Undone(r)
    <3>1. Holders' = Holders
      BY <2>18, <1>n DEF Undone, GoTo, Shape, Phases, Holders, jobs
    <3>2. CASE UNCHANGED sem
      BY <3>1, <3>2, <1>s DEF sem
    <3>3. CASE SetResult(r)
      BY <3>1, <3>3, <1>g
    <3>4. CASE SetResultRaises(r, 1)
      BY <1>n, <3>1, <3>4 DEF SetResultRaises, SlotsAccounted
    <3>5. QED
      BY <2>18, <3>2, <3>3, <3>4 DEF Undone
  <2>19. CASE Mark(r)
    BY <2>19, <1>n, <1>s DEF Mark, GoTo, Shape, Phases, Holders, sem, jobs, handlers
  <2>20. QED
    BY <1>3, <2>1, <2>2, <2>3, <2>4, <2>5, <2>6, <2>7, <2>8, <2>9, <2>10,
        <2>11, <2>12, <2>13, <2>14, <2>15, <2>16, <2>17, <2>18, <2>19 DEF Handler
<1>4. ASSUME NEW r \in Requests, Worker(r) PROVE SlotsAccounted'
  <2>1. CASE Pickup(r)
    <3>1. jpc[r] = "queued"
      BY <2>1, TailDistinct DEF Pickup, Shape, TypeOK, WorkQueueExact
    <3>2. QED
      BY <2>1, <3>1, <1>n, <1>s DEF Pickup, JobTo, Holders, sem, handlers
  <2>2. CASE Start(r)
    BY <2>2, <1>n, <1>s DEF Start, JobTo, Shape, Phases, Holders, sem, jobs, handlers
  <2>3. CASE Progress(r)
    BY <2>3, <1>n, <1>s DEF Progress, Shape, Phases, Holders, sem, jobs, handlers
  <2>4. CASE Raise(r)
    BY <2>4, <1>n, <1>s DEF Raise, JobTo, Shape, Phases, Holders, sem, jobs, handlers
  <2>5. CASE PutResult(r)
    BY <2>5, <1>n, <1>s DEF PutResult, JobTo, Shape, Phases, Holders, sem, jobs, handlers
  <2>6. CASE Finish(r)
    BY <2>6, <1>n, <1>s DEF Finish, JobTo, Shape, Phases, Holders, sem, jobs, handlers
  <2>7. CASE Fail(r)
    BY <2>7, <1>n, <1>s DEF Fail, JobTo, Shape, Phases, Holders, sem, jobs, handlers
  <2>8. CASE Release(r)
    <3>1. r \in Holders /\ Holders' = Holders \ {r}
      BY <2>8, <1>n DEF Release, JobTo, Shape, Phases, Holders, jobs, handlers
    <3>2. Cardinality(Holders') = Cardinality(Holders) - 1
      BY <3>1, HoldersLeave
    <3>3. value' = value + 1 /\ woken' = woken /\ lost' = lost
      BY <2>8, <1>n DEF Release
    <3>4. QED
      BY <1>n, <3>2, <3>3 DEF SlotsAccounted
  <2>9. CASE WakePick(r)
    BY <2>9, <1>n, <1>s DEF WakePick, Pick, JobTo, Shape, Phases, Holders, handlers
  <2>10. CASE WakeNobody(r)
    BY <2>10, <1>n, <1>s DEF WakeNobody, JobOver, JobTo, Shape, Phases, Holders, sem, jobs, handlers
  <2>11. CASE WakeCut(r)
    BY <2>11, <1>n, <1>s DEF WakeCut, JobOver, JobTo, Shape, Phases, Holders, sem, jobs, handlers
  <2>12. CASE Wake(r)
    <3>1. Holders' = Holders
      BY <2>12, <1>n DEF Wake, JobOver, JobTo, Shape, Phases, Holders, handlers
    <3>2. QED
      BY <2>12, <3>1, <1>g DEF Wake
  <2>13. CASE WakeRaises(r)
    <3>1. Holders' = Holders
      BY <2>13, <1>n DEF WakeRaises, JobOver, JobTo, Shape, Phases, Holders, handlers
    <3>2. QED
      BY <2>13, <1>n, <3>1 DEF WakeRaises, SetResultRaises, SlotsAccounted
  <2>14. QED
    BY <1>4, <2>1, <2>2, <2>3, <2>4, <2>5, <2>6, <2>7, <2>8, <2>9, <2>10, <2>11, <2>12, <2>13 DEF Worker
<1>5. CASE UNCHANGED vars
  BY <1>5 DEF vars, sem, handlers, jobs, SlotsAccounted, Holders
<1>6. QED
  BY <1>1, <1>2, <1>3, <1>4, <1>5 DEF Next

(* No interleaving of the event loop with the worker threads makes an      *)
(* admission slot, and none loses one but by an error of set_result, for   *)
(* any number of requests and any width.                                   *)
THEOREM SlotsConserved == Safety => []SlotsAccounted
BY SlotInit, SlotStep, ServiceShape, PTL DEF Safety
-----------------------------------------------------------------------------
(* With one slot nobody is woken twice.                                    *)

(* The threads at work are finitely many.                                  *)
LEMMA ThreadsFinite == IsFiniteSet(OnThread) /\ Cardinality(OnThread) \in Nat
<1>1. OnThread \subseteq Requests
  BY DEF OnThread
<1>2. QED
  BY <1>1, RequestsAssumption, FS_Subset, FS_CardinalityType

(* A pool of one thread has one job at work.                               *)
LEMMA OneThread ==
    ASSUME Slots = 1, OneWaker, NEW q \in OnThread, NEW r \in OnThread
    PROVE  q = r
<1> SUFFICES ASSUME q # r PROVE FALSE
  OBVIOUS
<1>1. Cardinality({q}) = 1 /\ IsFiniteSet({q})
  BY FS_Singleton
<1>2. Cardinality({q} \cup {r}) = 2
  BY <1>1, FS_AddElement
<1>3. {q} \cup {r} \subseteq OnThread
  OBVIOUS
<1>4. Cardinality({q} \cup {r}) <= Cardinality(OnThread)
  BY <1>3, ThreadsFinite, FS_Subset
<1>5. QED
  BY <1>2, <1>4, ThreadsFinite DEF OneWaker

(* The handler that resumes with the only slot has none to pass on.        *)
LEMMA NoSpareSlot ==
    ASSUME Shape, SlotsAccounted, Slots = 1, NEW r \in Requests, hpc[r] = "rewake"
    PROVE  ~(value > 0)
<1>1. r \in Holders
  BY DEF Holders
<1>2. Cardinality(Holders) # 0
  BY <1>1, SlotCounts, FS_EmptySet
<1>3. QED
  BY <1>2, SlotCounts DEF SlotsAccounted, Shape, TypeOK

(* No thread works when the service starts.                                *)
LEMMA ThreadInit == Init => OneWaker
<1> SUFFICES ASSUME Init PROVE OneWaker
  OBVIOUS
<1>1. OnThread = {}
  BY DEF Init, OnThread
<1>2. QED
  BY <1>1, FS_EmptySet, SlotsAssumption DEF Init, OneWaker

(* The pool never runs more threads than slots, and with one slot each     *)
(* wake-up finds its waiter as it was picked.                              *)
LEMMA ThreadStep == Shape /\ SlotsAccounted /\ OneWaker /\ [Next]_vars => OneWaker'
<1> SUFFICES ASSUME Shape, SlotsAccounted, OneWaker, [Next]_vars PROVE OneWaker'
  OBVIOUS
<1> DEFINE One == Slots = 1 /\ ~down
           Quiet(r) == hpc[r] \notin {"repick", "regrant", "undo", "undowake", "undogrant"}
           Kept(r) == jpc[r] = "grant" => picked[r] # {}
<1>n. /\ hpc \in [Requests -> HandlerState] /\ jpc \in [Requests -> JobState]
      /\ IsFiniteSet(OnThread) /\ Cardinality(OnThread) \in Nat /\ Slots \in Nat
      /\ Cardinality(OnThread) <= Slots
  BY ThreadsFinite, SlotsAssumption DEF Shape, TypeOK, OneWaker
<1>o. ASSUME One PROVE lost = 0 /\ \A r \in Requests : Quiet(r) /\ Kept(r)
  BY <1>o DEF OneWaker
<1>w. ASSUME IsFiniteSet(OnThread'), Cardinality(OnThread') <= Slots,
             One' => lost' = 0 /\ \A r \in Requests : Quiet(r)' /\ Kept(r)'
      PROVE  OneWaker'
  BY <1>w DEF OneWaker
<1>f. ASSUME OnThread' \subseteq OnThread
      PROVE  IsFiniteSet(OnThread') /\ Cardinality(OnThread') <= Slots
  <2>1. IsFiniteSet(OnThread') /\ Cardinality(OnThread') <= Cardinality(OnThread)
    BY <1>n, <1>f, FS_Subset
  <2>2. Cardinality(OnThread') \in Nat
    BY <2>1, FS_CardinalityType
  <2>3. QED
    BY <1>n, <2>1, <2>2
<1>s. ASSUME OnThread' \subseteq OnThread, UNCHANGED lost, One' => One,
             One' => \A r \in Requests : Quiet(r)' /\ Kept(r)'
      PROVE  OneWaker'
  BY <1>f, <1>o, <1>s, <1>w
<1> HIDE DEF One
<1>1. CASE \/ \E s \in Scans : Upload(s)
           \/ \E d \in Deleters, s \in Scans : DeleteBegin(d, s)
           \/ \E d \in Deleters : Deleter(d)
  BY <1>1 DEF Upload, DeleteBegin, Deleter, DeleteObject, DeleteScan, OneWaker, OnThread,
        sem, handlers, jobs
<1>2. ASSUME NEW r \in Requests, NEW s \in Scans, Begin(r, s) PROVE OneWaker'
  BY <1>2, <1>n, <1>o, <1>s DEF Begin, GoTo, One, OnThread, sem, jobs
<1>3. ASSUME NEW r \in Requests, Handler(r) PROVE OneWaker'
  <2>1. CASE AlreadyComplete(r)
    BY <2>1, <1>n, <1>o, <1>s DEF AlreadyComplete, GoTo, One, OnThread, sem, handlers, jobs
  <2>2. CASE NotComplete(r)
    BY <2>2, <1>n, <1>o, <1>s DEF NotComplete, GoTo, One, OnThread, sem, handlers, jobs
  <2>3. CASE Gone(r)
    BY <2>3, <1>n, <1>o, <1>s DEF Gone, GoTo, One, OnThread, sem, handlers, jobs
  <2>4. CASE Fetch(r)
    BY <2>4, <1>n, <1>o, <1>s DEF Fetch, GoTo, One, OnThread, sem, handlers, jobs
  <2>5. CASE AcquireFast(r)
    BY <2>5, <1>n, <1>o, <1>s DEF AcquireFast, GoTo, One, OnThread, sem, handlers, jobs
  <2>6. CASE AcquireSlow(r)
    BY <2>6, <1>n, <1>o, <1>s DEF AcquireSlow, GoTo, One, OnThread, sem, handlers, jobs
  <2>7. CASE Enqueue(r)
    BY <2>7, <1>n, <1>o, <1>s DEF Enqueue, GoTo, One, OnThread, sem, handlers, jobs
  <2>8. CASE Resume(r)
    BY <2>8, <1>n, <1>o, <1>s DEF Resume, GoTo, One, OnThread, sem, handlers, jobs
  <2>9. CASE Rewake(r)
    <3>1. ~One
      BY <2>9, NoSpareSlot DEF Rewake, One
    <3>2. QED
      BY <2>9, <3>1, <1>n, <1>s DEF Rewake, One, OnThread, sem, jobs
  <2>10. CASE Repick(r)
    <3>1. ~One'
      BY <2>10, <1>o DEF Repick, One, jobs
    <3>2. OnThread' = OnThread
      BY <2>10 DEF Repick, OnThread, jobs
    <3>3. QED
      BY <3>1, <3>2, <1>f, <1>w
  <2>11. CASE Regrant(r)
    <3>1. ~One'
      BY <2>11, <1>o DEF Regrant, One, jobs
    <3>2. OnThread' = OnThread
      BY <2>11 DEF Regrant, OnThread, jobs
    <3>3. QED
      BY <3>1, <3>2, <1>f, <1>w
  <2>12. CASE RegrantRaises(r)
    <3>1. ~One'
      BY <2>12, <1>o DEF RegrantRaises, One, jobs
    <3>2. OnThread' = OnThread
      BY <2>12 DEF RegrantRaises, OnThread, jobs
    <3>3. QED
      BY <3>1, <3>2, <1>f, <1>w
  <2>13. CASE Resumed(r)
    BY <2>13, <1>n, <1>o, <1>s DEF Resumed, GoTo, One, OnThread, sem, handlers, jobs
  <2>14. CASE Submit(r)
    BY <2>14, <1>n, <1>o, <1>s DEF Submit, GoTo, One, OnThread, sem, handlers, jobs
  <2>15. CASE SubmitRefused(r)
    <3>1. ~One'
      BY <2>15 DEF SubmitRefused, One
    <3>2. OnThread' = OnThread
      BY <2>15 DEF SubmitRefused, OnThread
    <3>3. QED
      BY <3>1, <3>2, <1>f, <1>w
  <2>16. CASE Undo(r)
    <3>1. ~One'
      BY <2>16, <1>o DEF Undo, One, jobs
    <3>2. OnThread' = OnThread
      BY <2>16 DEF Undo, OnThread, jobs
    <3>3. QED
      BY <3>1, <3>2, <1>f, <1>w
  <2>17. CASE UndoPick(r)
    <3>1. ~One'
      BY <2>17, <1>o DEF UndoPick, One, jobs
    <3>2. OnThread' = OnThread
      BY <2>17 DEF UndoPick, OnThread, jobs
    <3>3. QED
      BY <3>1, <3>2, <1>f, <1>w
  <2>18. CASE Undone(r)
    <3>1. ~One'
      BY <2>18, <1>o DEF Undone, One, jobs
    <3>2. OnThread' = OnThread
      BY <2>18 DEF Undone, OnThread, jobs
    <3>3. QED
      BY <3>1, <3>2, <1>f, <1>w
  <2>19. CASE Mark(r)
    BY <2>19, <1>n, <1>o, <1>s DEF Mark, GoTo, One, OnThread, sem, handlers, jobs
  <2>20. QED
    BY <1>3, <2>1, <2>2, <2>3, <2>4, <2>5, <2>6, <2>7, <2>8, <2>9, <2>10,
        <2>11, <2>12, <2>13, <2>14, <2>15, <2>16, <2>17, <2>18, <2>19 DEF Handler
<1>4. ASSUME NEW r \in Requests, Worker(r) PROVE OneWaker'
  <2>1. CASE Pickup(r)
    <3>1. OnThread' = OnThread \cup {r}
      BY <2>1, <1>n DEF Pickup, JobTo, OnThread
    <3>2. IsFiniteSet(OnThread') /\ Cardinality(OnThread') <= Cardinality(OnThread) + 1
      <4>1. /\ IsFiniteSet(OnThread \cup {r})
            /\ \/ Cardinality(OnThread \cup {r}) = Cardinality(OnThread)
               \/ Cardinality(OnThread \cup {r}) = Cardinality(OnThread) + 1
        BY <1>n, FS_AddElement, Zenon
      <4>2. QED
        BY <1>n, <3>1, <4>1
    <3>3. Cardinality(OnThread') \in Nat
      BY <3>2, FS_CardinalityType
    <3>4. Cardinality(OnThread') <= Slots
      BY <2>1, <1>n, <3>2, <3>3 DEF Pickup
    <3>5. One' => lost' = 0 /\ \A q \in Requests : Quiet(q)' /\ Kept(q)'
      BY <2>1, <1>n, <1>o DEF Pickup, JobTo, One, sem, handlers
    <3>6. QED
      BY <3>2, <3>4, <3>5, <1>w
  <2>2. CASE Start(r)
    BY <2>2, <1>n, <1>o, <1>s DEF Start, JobTo, One, OnThread, sem, handlers, jobs
  <2>3. CASE Progress(r)
    BY <2>3, <1>n, <1>o, <1>s DEF Progress, One, OnThread, sem, handlers, jobs
  <2>4. CASE Raise(r)
    BY <2>4, <1>n, <1>o, <1>s DEF Raise, JobTo, One, OnThread, sem, handlers, jobs
  <2>5. CASE PutResult(r)
    BY <2>5, <1>n, <1>o, <1>s DEF PutResult, JobTo, One, OnThread, sem, handlers, jobs
  <2>6. CASE Finish(r)
    BY <2>6, <1>n, <1>o, <1>s DEF Finish, JobTo, One, OnThread, sem, handlers, jobs
  <2>7. CASE Fail(r)
    BY <2>7, <1>n, <1>o, <1>s DEF Fail, JobTo, One, OnThread, sem, handlers, jobs
  <2>8. CASE Release(r)
    BY <2>8, <1>n, <1>o, <1>s DEF Release, JobTo, One, OnThread, sem, handlers, jobs
  <2>9. CASE WakePick(r)
    <3>1. picked'[r] # {} /\ \A q \in Requests \ {r} : picked'[q] = picked[q]
      BY <2>9, PickFinds DEF WakePick
    <3>2. OnThread' \subseteq OnThread
      BY <2>9, <1>n DEF WakePick, JobTo, OnThread
    <3>3. One' => \A q \in Requests : Quiet(q)' /\ Kept(q)'
      BY <2>9, <1>n, <1>o, <3>1 DEF WakePick, JobTo, One, handlers
    <3>4. QED
      BY <2>9, <3>2, <3>3, <1>s DEF WakePick, Pick, One
  <2>10. CASE WakeNobody(r)
    BY <2>10, <1>n, <1>o, <1>s DEF WakeNobody, JobOver, JobTo, One, OnThread, sem, handlers, jobs
  <2>11. CASE WakeCut(r)
    BY <2>11, <1>n, <1>o, <1>s DEF WakeCut, JobOver, JobTo, One, OnThread, sem, handlers, jobs
  <2>12. CASE Wake(r)
    <3>1. OnThread' \subseteq OnThread /\ r \in OnThread
      BY <2>12, <1>n DEF Wake, JobOver, JobTo, OnThread
    <3>2. ASSUME One', NEW q \in Requests, q # r PROVE jpc[q] # "grant"
      BY <2>12, <3>1, <3>2, OneThread DEF OnThread, One
    <3>3. One' => \A q \in Requests : Quiet(q)' /\ Kept(q)'
      BY <2>12, <1>n, <1>o, <3>2 DEF Wake, JobOver, JobTo, One, handlers
    <3>4. QED
      BY <2>12, <3>1, <3>3, <1>s DEF Wake, SetResult, JobOver, One
  <2>13. CASE WakeRaises(r)
    <3>1. ~One'
      BY <2>13, <1>o DEF WakeRaises, SetResultRaises, JobOver, One
    <3>2. OnThread' \subseteq OnThread
      BY <2>13, <1>n DEF WakeRaises, JobOver, JobTo, OnThread
    <3>3. QED
      BY <3>1, <3>2, <1>f, <1>w
  <2>14. QED
    BY <1>4, <2>1, <2>2, <2>3, <2>4, <2>5, <2>6, <2>7, <2>8, <2>9, <2>10, <2>11, <2>12, <2>13 DEF Worker
<1>5. CASE UNCHANGED vars
  BY <1>5 DEF vars, sem, handlers, jobs, OneWaker, OnThread
<1>6. QED
  BY <1>1, <1>2, <1>3, <1>4, <1>5 DEF Next

(* With one slot no wake-up is ever lost to an error while the executor    *)
(* takes work, for any number of requests.                                 *)
THEOREM OneSlotIsKept == Safety => []OneSlotKept
<1>1. OneWaker => OneSlotKept
  BY DEF OneWaker, OneSlotKept
<1>2. QED
  BY <1>1, ThreadInit, ThreadStep, ServiceShape, SlotsConserved, PTL DEF Safety
-----------------------------------------------------------------------------
(* A complete scan has its result.                                         *)

ResultInv == ResultsFirst /\ ResultBeforeComplete

(* No result exists when the service starts.                               *)
LEMMA ResultInit == Init => ResultInv
BY ScansAssumption DEF Init, ResultInv, ResultsFirst, ResultBeforeComplete

(* update_scan preserves ResultInv when it writes a real status, and       *)
(* "complete" only to a scan that has its result.                          *)
LEMMA UpdateKeeps ==
    ASSUME Shape, ResultInv, NEW s, NEW new, UpdateScan(s, new), new.status # "none",
           s \in live /\ new.status = "complete" => s \in results,
           UNCHANGED <<live, results, jtarget>>,
           \A r \in Requests : target'[r] \in {target[r], NoScan},
           \A r \in Requests : jpc'[r] = "finish" => jpc[r] = "finish"
    PROVE  ResultInv'
<1>1. \A q \in Scans : /\ q \in live
                       /\ q # s \/ s \notin live
                       => row'[q] = row[q]
  BY DEF UpdateScan, Shape, TypeOK
<1>2. s \in live => row'[s] = new
  BY DEF UpdateScan, Shape, TypeOK
<1>3. \A q \in Scans : row'[q].status = "none" => row[q].status = "none"
  BY DEF UpdateScan, Shape, TypeOK
<1>4. live \subseteq Scans
  BY DEF Shape, TypeOK
<1>5. ResultsFirst'
  BY <1>3, ScansAssumption DEF ResultInv, ResultsFirst
<1>6. ResultBeforeComplete'
  BY <1>1, <1>2, <1>4 DEF ResultInv, ResultBeforeComplete
<1>7. QED
  BY <1>5, <1>6 DEF ResultInv

(* ResultInv is inductive relative to Shape.                               *)
LEMMA ResultStep == Shape /\ ResultInv /\ [Next]_vars => ResultInv'
<1> SUFFICES ASSUME Shape, ResultInv, [Next]_vars PROVE ResultInv'
  OBVIOUS
<1>n. /\ live \subseteq Scans /\ row \in [Scans -> Row] /\ NoScan \notin Scans
      /\ target \in [Requests -> Scans \cup {NoScan}]
      /\ jtarget \in [Requests -> Scans \cup {NoScan}]
      /\ jpc \in [Requests -> JobState]
  BY ScansAssumption DEF Shape, TypeOK
<1>1. ASSUME NEW s \in Scans, Upload(s) PROVE ResultInv'
  <2>1. s \notin live /\ \A r \in Requests : target[r] # s /\ jtarget[r] # s
    BY <1>1 DEF Upload, ResultInv, ResultsFirst
  <2>2. row'[s].status = "uploaded" /\ \A q \in Scans \ {s} : row'[q] = row[q]
    BY <1>1, <1>n DEF Upload
  <2>3. ResultsFirst'
    BY <1>1, <1>n, <2>1, <2>2 DEF Upload, ResultInv, ResultsFirst, handlers, jobs
  <2>4. ResultBeforeComplete'
    BY <1>1, <1>n, <2>1, <2>2 DEF Upload, ResultInv, ResultBeforeComplete
  <2>5. QED
    BY <2>3, <2>4 DEF ResultInv
<1>2. ASSUME NEW d \in Deleters, NEW s \in Scans, DeleteBegin(d, s) PROVE ResultInv'
  BY <1>2 DEF DeleteBegin, ResultInv, ResultsFirst, ResultBeforeComplete, store, handlers, jobs
<1>3. ASSUME NEW d \in Deleters, Deleter(d) PROVE ResultInv'
  BY <1>3 DEF Deleter, DeleteObject, DeleteScan, ResultInv, ResultsFirst, ResultBeforeComplete,
        handlers, jobs
<1>4. ASSUME NEW r \in Requests, NEW s \in Scans, Begin(r, s) PROVE ResultInv'
  BY <1>4, <1>n DEF Begin, GoTo, ResultInv, ResultsFirst, ResultBeforeComplete, store, jobs
<1>5. ASSUME NEW r \in Requests, Handler(r) PROVE ResultInv'
  <2>1. CASE AlreadyComplete(r)
    BY <2>1, <1>n DEF AlreadyComplete, GoTo, ResultInv, ResultsFirst, ResultBeforeComplete, store, jobs, handlers
  <2>2. CASE NotComplete(r)
    BY <2>2, <1>n DEF NotComplete, GoTo, ResultInv, ResultsFirst, ResultBeforeComplete, store, jobs, handlers
  <2>3. CASE Gone(r)
    BY <2>3, <1>n DEF Gone, GoTo, ResultInv, ResultsFirst, ResultBeforeComplete, store, jobs, handlers
  <2>4. CASE Fetch(r)
    BY <2>4, <1>n DEF Fetch, GoTo, ResultInv, ResultsFirst, ResultBeforeComplete, store, jobs, handlers
  <2>5. CASE AcquireFast(r)
    BY <2>5, <1>n DEF AcquireFast, GoTo, ResultInv, ResultsFirst, ResultBeforeComplete, store, jobs, handlers
  <2>6. CASE AcquireSlow(r)
    BY <2>6, <1>n DEF AcquireSlow, GoTo, ResultInv, ResultsFirst, ResultBeforeComplete, store, jobs, handlers
  <2>7. CASE Enqueue(r)
    BY <2>7, <1>n DEF Enqueue, GoTo, ResultInv, ResultsFirst, ResultBeforeComplete, store, jobs, handlers
  <2>8. CASE Resume(r)
    BY <2>8, <1>n DEF Resume, GoTo, ResultInv, ResultsFirst, ResultBeforeComplete, store, jobs, handlers
  <2>9. CASE Rewake(r)
    BY <2>9, <1>n DEF Rewake, GoTo, ResultInv, ResultsFirst, ResultBeforeComplete, store, jobs, handlers
  <2>10. CASE Repick(r)
    BY <2>10, <1>n DEF Repick, GoTo, ResultInv, ResultsFirst, ResultBeforeComplete, store, jobs, handlers
  <2>11. CASE Regrant(r)
    BY <2>11, <1>n DEF Regrant, GoTo, ResultInv, ResultsFirst, ResultBeforeComplete, store, jobs, handlers
  <2>12. CASE RegrantRaises(r)
    BY <2>12, <1>n DEF RegrantRaises, GoTo, ResultInv, ResultsFirst, ResultBeforeComplete, store, jobs, handlers
  <2>13. CASE Resumed(r)
    BY <2>13, <1>n DEF Resumed, GoTo, ResultInv, ResultsFirst, ResultBeforeComplete, store, jobs, handlers
  <2>14. CASE Submit(r)
    BY <2>14, <1>n DEF Submit, GoTo, ResultInv, ResultsFirst, ResultBeforeComplete, store
  <2>15. CASE SubmitRefused(r)
    BY <2>15, <1>n DEF SubmitRefused, GoTo, ResultInv, ResultsFirst, ResultBeforeComplete, store, jobs, handlers
  <2>16. CASE Undo(r)
    BY <2>16, <1>n DEF Undo, GoTo, ResultInv, ResultsFirst, ResultBeforeComplete, store, jobs, handlers
  <2>17. CASE UndoPick(r)
    BY <2>17, <1>n DEF UndoPick, GoTo, ResultInv, ResultsFirst, ResultBeforeComplete, store, jobs, handlers
  <2>18. CASE Undone(r)
    BY <2>18, <1>n DEF Undone, GoTo, ResultInv, ResultsFirst, ResultBeforeComplete, store, jobs, handlers
  <2>19. CASE Mark(r)
    <3> DEFINE new == [status |-> "parsing", progress |-> 1, error |-> FALSE]
    <3>1. /\ UpdateScan(target[r], new) /\ new.status = "parsing"
          /\ UNCHANGED <<live, results, jtarget, jpc>>
          /\ \A q \in Requests : target'[q] \in {target[q], NoScan}
      BY <2>19, <1>n DEF Mark, jobs
    <3> HIDE DEF new
    <3>2. QED
      BY <3>1, UpdateKeeps
  <2>20. QED
    BY <1>5, <2>1, <2>2, <2>3, <2>4, <2>5, <2>6, <2>7, <2>8, <2>9, <2>10,
        <2>11, <2>12, <2>13, <2>14, <2>15, <2>16, <2>17, <2>18, <2>19 DEF Handler
<1>6. ASSUME NEW r \in Requests, Worker(r) PROVE ResultInv'
  <2>1. CASE Pickup(r)
    BY <2>1, <1>n DEF Pickup, JobTo, ResultInv, ResultsFirst, ResultBeforeComplete, store, jobs, handlers
  <2>2. CASE Start(r)
    <3> DEFINE new == [row[jtarget[r]] EXCEPT !.status = "parsing"]
    <3>1. CASE jtarget[r] \notin live
      BY <2>2, <3>1, <1>n DEF Start, JobTo, UpdateScan, ResultInv, ResultsFirst, ResultBeforeComplete,
            handlers
    <3>2. CASE jtarget[r] \in live
      <4>1. new.status = "parsing"
        BY <3>2, <1>n DEF Row
      <4>2. /\ UpdateScan(jtarget[r], new)
            /\ UNCHANGED <<live, results, jtarget, target>>
            /\ \A q \in Requests : jpc'[q] = "finish" => jpc[q] = "finish"
        BY <2>2, <1>n DEF Start, JobTo, handlers
      <4> HIDE DEF new
      <4>4. QED
        BY <4>1, <4>2, UpdateKeeps
    <3>3. QED
      BY <3>1, <3>2
  <2>3. CASE Progress(r)
    <3> DEFINE new == [row[jtarget[r]] EXCEPT !.progress = Ticks[jtick[r] + 1]]
    <3>1. CASE jtarget[r] \notin live
      BY <2>3, <3>1 DEF Progress, UpdateScan, ResultInv, ResultsFirst, ResultBeforeComplete,
            handlers
    <3>2. CASE jtarget[r] \in live
      <4>1. new.status = row[jtarget[r]].status
        BY <3>2, <1>n DEF Row
      <4>2. /\ UpdateScan(jtarget[r], new)
            /\ UNCHANGED <<live, results, jtarget, target, jpc>>
        BY <2>3 DEF Progress, handlers
      <4>3. row[jtarget[r]].status # "none"
        BY <3>2, <1>n DEF ResultInv, ResultsFirst
      <4>4. row[jtarget[r]].status = "complete" => jtarget[r] \in results
        BY <3>2 DEF ResultInv, ResultBeforeComplete
      <4> HIDE DEF new
      <4>5. QED
        BY <4>1, <4>2, <4>3, <4>4, UpdateKeeps
    <3>3. QED
      BY <3>1, <3>2
  <2>4. CASE Raise(r)
    BY <2>4, <1>n DEF Raise, JobTo, ResultInv, ResultsFirst, ResultBeforeComplete, store, jobs, handlers
  <2>5. CASE PutResult(r)
    BY <2>5, <1>n DEF PutResult, JobTo, ResultInv, ResultsFirst, ResultBeforeComplete, store, jobs, handlers
  <2>6. CASE Finish(r)
    <3> DEFINE new == [row[jtarget[r]] EXCEPT !.status = "complete", !.progress = 100]
    <3>1. CASE jtarget[r] \notin live
      BY <2>6, <3>1, <1>n DEF Finish, JobTo, UpdateScan, ResultInv, ResultsFirst, ResultBeforeComplete,
            handlers
    <3>2. CASE jtarget[r] \in live
      <4>1. new.status = "complete"
        BY <3>2, <1>n DEF Row
      <4>2. /\ UpdateScan(jtarget[r], new)
            /\ UNCHANGED <<live, results, jtarget, target>>
            /\ \A q \in Requests : jpc'[q] = "finish" => jpc[q] = "finish"
        BY <2>6, <1>n DEF Finish, JobTo, handlers
      <4>3. jtarget[r] \in results
        BY <2>6, <3>2 DEF Finish, ResultInv, ResultsFirst
      <4> HIDE DEF new
      <4>4. QED
        BY <4>1, <4>2, <4>3, UpdateKeeps
    <3>3. QED
      BY <3>1, <3>2
  <2>7. CASE Fail(r)
    <3> DEFINE new == [row[jtarget[r]] EXCEPT !.status = "failed", !.error = TRUE]
    <3>1. CASE jtarget[r] \notin live
      BY <2>7, <3>1, <1>n DEF Fail, JobTo, UpdateScan, ResultInv, ResultsFirst, ResultBeforeComplete,
            handlers
    <3>2. CASE jtarget[r] \in live
      <4>1. new.status = "failed"
        BY <3>2, <1>n DEF Row
      <4>2. /\ UpdateScan(jtarget[r], new)
            /\ UNCHANGED <<live, results, jtarget, target>>
            /\ \A q \in Requests : jpc'[q] = "finish" => jpc[q] = "finish"
        BY <2>7, <1>n DEF Fail, JobTo, handlers
      <4> HIDE DEF new
      <4>4. QED
        BY <4>1, <4>2, UpdateKeeps
    <3>3. QED
      BY <3>1, <3>2
  <2>8. CASE Release(r)
    BY <2>8, <1>n DEF Release, JobTo, ResultInv, ResultsFirst, ResultBeforeComplete, store, jobs, handlers
  <2>9. CASE WakePick(r)
    BY <2>9, <1>n DEF WakePick, JobTo, ResultInv, ResultsFirst, ResultBeforeComplete, store, jobs, handlers
  <2>10. CASE WakeNobody(r)
    BY <2>10, <1>n DEF WakeNobody, JobOver, JobTo, ResultInv, ResultsFirst, ResultBeforeComplete, store, jobs, handlers
  <2>11. CASE WakeCut(r)
    BY <2>11, <1>n DEF WakeCut, JobOver, JobTo, ResultInv, ResultsFirst, ResultBeforeComplete, store, jobs, handlers
  <2>12. CASE Wake(r)
    BY <2>12, <1>n DEF Wake, JobOver, JobTo, ResultInv, ResultsFirst, ResultBeforeComplete, store, jobs, handlers
  <2>13. CASE WakeRaises(r)
    BY <2>13, <1>n DEF WakeRaises, JobOver, JobTo, ResultInv, ResultsFirst, ResultBeforeComplete, store, jobs, handlers
  <2>14. QED
    BY <1>6, <2>1, <2>2, <2>3, <2>4, <2>5, <2>6, <2>7, <2>8, <2>9, <2>10, <2>11, <2>12, <2>13 DEF Worker
<1>7. CASE UNCHANGED vars
  BY <1>7 DEF vars, store, handlers, jobs, ResultInv, ResultsFirst, ResultBeforeComplete
<1>8. QED
  BY <1>1, <1>2, <1>3, <1>4, <1>5, <1>6, <1>7 DEF Next

(* A stored scan that says "complete" has its result, whatever analyses,   *)
(* failures and deletions of it overlap.                                   *)
THEOREM CompleteHasResult == Safety => []ResultBeforeComplete
BY ResultInit, ResultStep, ServiceShape, PTL DEF Safety, ResultInv

(* The whole inductive invariant the runs check.                           *)
THEOREM ServiceInvariant == Safety => []ServiceInv
BY ServiceShape, SlotsConserved, ThreadInit, ThreadStep, ResultInit, ResultStep, PTL
    DEF Safety, Shape, ResultInv, ServiceInv
=============================================================================
