----------------------- MODULE DirectionStreamProofs -----------------------
(* Proofs about DirectionStream, for any modulus, initial sequence number, *)
(* stream length, cap and capture.                                         *)
EXTENDS DirectionStream, SumProofs, SequenceTheorems, FiniteSetTheorems, TLAPS

-----------------------------------------------------------------------------
(* Arithmetic of sequence numbers.                                         *)

(* A number is its quotient times the modulus plus its remainder. *)
LEMMA Division ==
    ASSUME NEW a \in Int, NEW m \in Nat, m > 0
    PROVE  /\ a % m \in 0 .. m - 1
           /\ a \div m \in Int
           /\ a = (m * (a \div m)) + (a % m)
  BY SMT

(* Two residues that are less than a modulus from each other. *)
LEMMA NearResidue ==
    ASSUME NEW m \in Nat, m > 0, NEW q \in Int, NEW d \in Int, NEW r \in Int,
           r = (m * q) + d, -m < d, d < m, 0 <= r, r < m
    PROVE  r = d \/ r = d + m
<1>1. q = 0 \/ q = 1 \/ q >= 2 \/ q <= -1
  OBVIOUS
<1>2. CASE q >= 2
  <2>1. m * q >= m * 2
    BY <1>2
  <2>2. QED
    BY <2>1
<1>3. CASE q <= -1
  <2>1. m * q <= -m
    BY <1>3
  <2>2. QED
    BY <2>1
<1>4. QED
  BY <1>1, <1>2, <1>3

(* seq_unwrap finds the distance of two bytes of the stream, whichever of  *)
(* them the sequence numbers are relative to and wherever they wrap.       *)
LEMMA UnwrapDistance ==
    ASSUME isn \in Isns, NEW a \in Positions, NEW b \in Positions
    PROVE  SeqUnwrap(SeqOf(a), SeqOf(b)) = b - a
<1> DEFINE x == isn + 1 + a
           y == isn + 1 + b
           z == (y % Mod) - (x % Mod)
           delta == z % Mod
<1>1. Mod \in Nat /\ Mod > 0 /\ 2 * (Mod \div 2) = Mod /\ Mod \div 2 \in Int
  BY ModAssumption
<1>2. isn \in Int /\ a \in Int /\ b \in Int /\ x \in Int /\ y \in Int
  BY IsnAssumption, SendAssumption, <1>1 DEF Positions
<1>3. /\ x % Mod \in Int /\ y % Mod \in Int
      /\ x \div Mod \in Int /\ x = (Mod * (x \div Mod)) + (x % Mod)
      /\ y \div Mod \in Int /\ y = (Mod * (y \div Mod)) + (y % Mod)
  BY <1>1, <1>2, Division
<1>4. /\ z \in Int /\ delta \in 0 .. Mod - 1
      /\ z \div Mod \in Int /\ z = (Mod * (z \div Mod)) + delta
  <2>1. z \in Int
    BY <1>3
  <2> HIDE DEF z
  <2>2. QED
    BY <2>1, <1>1, Division
<1> DEFINE q == (x \div Mod) - (y \div Mod) - (z \div Mod)
           d == b - a
<1>5. q \in Int /\ d \in Int /\ y - x = d
  BY <1>2, <1>3, <1>4
<1>6. delta = (Mod * q) + d
  <2>1. Mod * q = (Mod * (x \div Mod)) - (Mod * (y \div Mod)) - (Mod * (z \div Mod))
    BY <1>1, <1>3, <1>4
  <2>2. QED
    BY <2>1, <1>1, <1>3, <1>4, <1>5
<1>7. -Mod < 2 * d /\ 2 * d < Mod
  BY SendAssumption, <1>1, <1>2 DEF Positions
<1>8. delta = d \/ delta = d + Mod
  <2> HIDE DEF delta, d, q
  <2>1. QED
    BY <1>1, <1>4, <1>5, <1>6, <1>7, NearResidue
<1>9. SeqUnwrap(SeqOf(a), SeqOf(b)) = IF delta < Mod \div 2 THEN delta ELSE delta - Mod
  BY DEF SeqUnwrap, SeqOf
<1> HIDE DEF delta, d
<1>10. SeqUnwrap(SeqOf(a), SeqOf(b)) = d
  BY <1>1, <1>4, <1>5, <1>7, <1>8, <1>9
<1>11. QED
  BY <1>10 DEF d

-----------------------------------------------------------------------------
(* Runs of bytes.                                                          *)

(* An ascending sequence holds the interval from its first element on. *)
LEMMA AscendingInterval ==
    ASSUME NEW s \in Seq(Positions), s # <<>>, Honest!Ascending(s)
    PROVE  Honest!Contents(s) = s[1] .. s[1] + Len(s) - 1
<1> DEFINE n == Len(s)
           lo == s[1]
<1>1. n \in Nat /\ n > 0 /\ lo \in Int
  <2>1. n \in Nat /\ n > 0 /\ lo \in Positions
    BY EmptySeq, LenProperties, ElementOfSeq
  <2>2. QED
    BY <2>1 DEF Positions
<1>2. \A k \in 1 .. n : s[k] = lo + k - 1
  BY DEF Honest!Ascending
<1> HIDE DEF n, lo
<1>3. {s[k] : k \in 1 .. n} = lo .. lo + n - 1
  <2>1. ASSUME NEW k \in 1 .. n
        PROVE  s[k] \in lo .. lo + n - 1
    BY <1>1, <1>2
  <2>2. ASSUME NEW p \in lo .. lo + n - 1
        PROVE  \E k \in 1 .. n : s[k] = p
    <3>1. p - lo + 1 \in 1 .. n
      BY <1>1
    <3>2. s[p - lo + 1] = p
      BY <3>1, <1>1, <1>2
    <3>3. QED
      BY <3>1, <3>2
  <2>3. QED
    BY <2>1, <2>2
<1>4. QED
  BY <1>3 DEF Honest!Contents, n, lo

(* The bytes of one segment, as the first iteration copies them. *)
LEMMA SegmentRun ==
    ASSUME NEW at \in Positions, NEW len \in Nat, len > 0, at + len <= SendLen
    PROVE  LET t == [k \in 1 .. len |-> at + k - 1]
           IN  /\ t \in Seq(Positions) /\ t # <<>> /\ Honest!Ascending(t)
               /\ t[1] = at /\ Len(t) = len
<1> DEFINE t == [k \in 1 .. len |-> at + k - 1]
<1>1. \A k \in 1 .. len : at + k - 1 \in Positions
  BY SendAssumption DEF Positions
<1>2. t \in Seq(Positions) /\ Len(t) = len
  BY <1>1
<1>3. \A k \in 1 .. len : t[k] = at + k - 1
  OBVIOUS
<1>4. t[1] = at /\ t # <<>>
  BY <1>2, <1>3 DEF Positions
<1> HIDE DEF t
<1>5. Honest!Ascending(t)
  BY <1>2, <1>3, <1>4 DEF Honest!Ascending, Positions
<1>6. QED
  BY <1>2, <1>4, <1>5 DEF t

(* Appending the bytes that come next to a run makes a longer run. *)
LEMMA LongerRun ==
    ASSUME NEW s \in Seq(Positions), s # <<>>, Honest!Ascending(s),
           NEW x \in Int, x = s[1] + Len(s), NEW n \in Nat, x + n <= SendLen
    PROVE  LET t == s \o [k \in 1 .. n |-> x + k - 1]
           IN  /\ t \in Seq(Positions) /\ t # <<>> /\ Honest!Ascending(t)
               /\ t[1] = s[1] /\ Len(t) = Len(s) + n
<1> DEFINE u == [k \in 1 .. n |-> x + k - 1]
           t == s \o u
           m == Len(s)
<1>1. m \in Nat /\ m > 0 /\ s[1] \in Positions
  BY EmptySeq, LenProperties, ElementOfSeq
<1>2. \A k \in 1 .. n : x + k - 1 \in Positions
  <2>1. x > 0 /\ SendLen \in Nat
    BY <1>1, SendAssumption DEF Positions
  <2> HIDE DEF u, t, m
  <2>2. \A k \in 1 .. n : x + k - 1 \in 0 .. SendLen - 1
    BY <2>1
  <2>3. QED
    BY <2>2 DEF Positions
<1>3. u \in Seq(Positions) /\ Len(u) = n
  BY <1>2
<1>4. \A k \in 1 .. n : u[k] = x + k - 1
  OBVIOUS
<1>5. \A k \in 1 .. m : s[k] = s[1] + k - 1
  BY DEF Honest!Ascending
<1> HIDE DEF u
<1>6. t \in Seq(Positions)
  BY <1>3, ConcatProperties
<1>7. /\ Len(t) = m + n
      /\ \A k \in 1 .. m + n : t[k] = IF k <= m THEN s[k] ELSE u[k - m]
  BY <1>3, ConcatProperties
<1> HIDE DEF t, m
<1>8. x = s[1] + m
  BY DEF m
<1>9. t[1] = s[1] /\ t # <<>>
  <2>1. 1 \in 1 .. m + n
    BY <1>1
  <2>2. t[1] = s[1]
    BY <2>1, <1>1, <1>7
  <2>3. Len(t) # 0
    BY <1>1, <1>7
  <2>4. QED
    BY <2>2, <2>3
<1>10. Honest!Ascending(t)
  <2>1. ASSUME NEW k \in 1 .. m + n
        PROVE  t[k] = t[1] + k - 1
    <3>1. CASE k <= m
      BY <3>1, <1>1, <1>5, <1>7, <1>9
    <3>2. CASE k > m
      <4>1. k - m \in 1 .. n
        BY <3>2, <1>1
      <4>2. t[k] = u[k - m]
        BY <3>2, <1>1, <1>7
      <4>3. u[k - m] = x + (k - m) - 1
        BY <4>1, <1>4
      <4>4. QED
        BY <4>2, <4>3, <1>1, <1>8, <1>9 DEF Positions
    <3>3. QED
      BY <3>1, <3>2, <1>1
  <2>2. QED
    BY <2>1, <1>7 DEF Honest!Ascending
<1>11. QED
  BY <1>6, <1>7, <1>9, <1>10 DEF t, m, u

-----------------------------------------------------------------------------
(* The segments held.                                                      *)

(* Offsets are distances from the segment the base was taken from. *)
LEMMA Placed ==
    ASSUME TypeOK, SegmentsTrue, first \in HasData, NEW i \in HasData
    PROVE  /\ i \in Nat /\ segments[i].at \in Positions
           /\ segments[i].len \in Nat /\ segments[i].len > 0
           /\ segments[i].at + segments[i].len <= SendLen
           /\ segments[first].at \in Positions
           /\ Off(i) = segments[i].at - segments[first].at
           /\ End(i) = segments[i].at + segments[i].len - segments[first].at
<1>1. \A j \in HasData : /\ j \in 1 .. Len(segments) /\ segments[j] \in Segment
                         /\ segments[j].len > 0
  BY DEF TypeOK, HasData
<1>2. \A j \in HasData : /\ segments[j].at \in Positions /\ segments[j].len \in Nat
                         /\ segments[j].at + segments[j].len <= SendLen
  BY <1>1, SendAssumption DEF SegmentsTrue, Segment, Positions
<1>3. Off(i) = SeqUnwrap(SeqOf(segments[first].at), SeqOf(segments[i].at))
  BY DEF Off, Base, SegmentsTrue
<1>4. Off(i) = segments[i].at - segments[first].at
  BY <1>2, <1>3, UnwrapDistance DEF TypeOK
<1>5. End(i) = segments[i].at + segments[i].len - segments[first].at
  BY <1>2, <1>4 DEF End, Positions
<1>6. i \in Nat
  BY <1>1, LenProperties DEF TypeOK
<1>7. QED
  BY <1>1, <1>2, <1>4, <1>5, <1>6

(* What the merge steps leave alone: all they touch is their own state.    *)
LEMMA MergingFrame ==
    ASSUME StreamInv, phase # "done", phase' # "done",
           UNCHANGED <<isn, segments, total, truncated, packets, history>>
    PROVE  SegmentsTrue' /\ KeptHeld' /\ WithinCap' /\ Served'
<1>1. HasData' = HasData
  BY DEF HasData
<1>2. \A i : Bytes(segments[i])' = Bytes(segments[i])
  BY DEF Bytes
<1>3. SegmentsTrue'
  BY <1>1 DEF StreamInv, SegmentsTrue, SeqOf
<1>4. KeptHeld'
  BY <1>1, <1>2 DEF StreamInv, KeptHeld, history
<1>5. WithinCap'
  BY DEF StreamInv, WithinCap, history
<1>6. QED
  BY <1>3, <1>4, <1>5 DEF Served

-----------------------------------------------------------------------------
(* The invariant, action by action.                                        *)

(* StreamInv holds of the empty stream.                                    *)
LEMMA StreamInit == Init => StreamInv
<1> SUFFICES ASSUME Init PROVE StreamInv
  OBVIOUS
<1>1. segments \in Seq(Segment) /\ Len(segments) = 0 /\ out \in Seq(Positions)
  BY EmptySeq DEF Init
<1>2. HasData = {}
  BY <1>1 DEF HasData
<1>3. TypeOK
  <2>1. isn \in Isns /\ buffer \in Seq(Positions) \cup {NotServed}
    BY DEF Init
  <2>2. truncated \in BOOLEAN /\ incomplete \in BOOLEAN
    BY Zenon DEF Init
  <2>3. /\ total \in Nat /\ holeAt \in Int /\ first \in Nat /\ expected \in Int /\ packets \in Nat
        /\ phase = "capture" /\ todo = {} /\ kept = {} /\ seen = {}
    BY DEF Init
  <2>4. QED
    BY <1>1, <2>1, <2>2, <2>3 DEF TypeOK
<1>4. WithinCap
  BY FS_EmptySet, CapAssumption DEF Init, WithinCap
<1>5. SegmentsTrue /\ KeptHeld /\ Phases /\ Served
  BY <1>2 DEF Init, SegmentsTrue, KeptHeld, Phases, Served
<1>6. QED
  BY <1>3, <1>4, <1>5 DEF StreamInv

(* A new segment brings at most its length of new bytes under the cap.     *)
LEMMA CapKept ==
    ASSUME TypeOK, WithinCap, NEW s \in Segment, s.at + s.len <= SendLen, Add(s),
           seen' = seen \cup Bytes(s)
    PROVE  WithinCap'
<1>1. s.at \in Nat /\ s.len \in Nat /\ total \in Nat /\ Cap \in Nat
  BY CapAssumption, SendAssumption DEF TypeOK, Segment
<1>2. IsFiniteSet(kept) /\ IsFiniteSet(Bytes(s)) /\ Cardinality(Bytes(s)) = s.len
  <2>1. IsFiniteSet(Positions)
    BY FS_Interval, SendAssumption DEF Positions
  <2>2. IsFiniteSet(kept)
    BY <2>1, FS_Subset DEF TypeOK
  <2>3. /\ IsFiniteSet(Bytes(s))
        /\ Cardinality(Bytes(s)) = IF s.at > s.at + s.len - 1 THEN 0
                                   ELSE (s.at + s.len - 1) - s.at + 1
    <3> DEFINE lo == s.at
               hi == s.at + s.len - 1
    <3>1. lo \in Int /\ hi \in Int /\ Bytes(s) = lo .. hi
      BY <1>1 DEF Bytes
    <3> HIDE DEF lo, hi
    <3>2. /\ IsFiniteSet(Bytes(s))
          /\ Cardinality(Bytes(s)) = IF lo > hi THEN 0 ELSE hi - lo + 1
      BY <3>1, FS_Interval
    <3>3. QED
      BY <3>2 DEF lo, hi
  <2>4. QED
    BY <1>1, <2>2, <2>3
<1>3. /\ Cardinality(kept) \in Nat
      /\ Cardinality(kept \cup Bytes(s)) \in Nat
      /\ Cardinality(kept \cup Bytes(s)) <= Cardinality(kept) + s.len
  <2>1. /\ IsFiniteSet(kept \cup Bytes(s)) /\ IsFiniteSet(kept \cap Bytes(s))
        /\ Cardinality(kept \cup Bytes(s))
             = Cardinality(kept) + Cardinality(Bytes(s)) - Cardinality(kept \cap Bytes(s))
    BY <1>2, FS_Union, FS_Intersection
  <2>2. /\ Cardinality(kept) \in Nat /\ Cardinality(kept \cup Bytes(s)) \in Nat
        /\ Cardinality(kept \cap Bytes(s)) \in Nat
    BY <1>2, <2>1, FS_CardinalityType
  <2>3. QED
    BY <1>1, <1>2, <2>1, <2>2
<1>4. CASE total + s.len > Cap
  BY <1>1, <1>3, <1>4 DEF Add, WithinCap
<1>5. CASE total + s.len <= Cap
  <2>1. ~truncated
    BY <1>1, <1>5 DEF WithinCap
  <2>2. ~truncated' /\ total' = total + s.len /\ kept' = kept \cup Bytes(s)
    BY <1>1, <1>5, <2>1 DEF Add
  <2>3. Cardinality(kept) <= total /\ seen = kept
    BY <2>1 DEF WithinCap
  <2>4. QED
    BY <1>1, <1>3, <1>5, <2>2, <2>3 DEF WithinCap
<1>6. QED
  BY <1>1, <1>4, <1>5

(* Capturing a segment that is part of what was sent keeps StreamInv.      *)
LEMMA CaptureStep ==
    ASSUME StreamInv, NEW s \in Segment, s.at + s.len <= SendLen, s.len > 0 => s.seq = SeqOf(s.at),
           s.syn => s.len = 0, Capture(s)
    PROVE  StreamInv'
<1> USE DEF StreamInv
<1>1. /\ phase = "capture" /\ phase' = "capture" /\ total' = total + s.len
      /\ seen' = seen \cup Bytes(s) /\ packets' = packets + 1
      /\ UNCHANGED <<isn, incomplete, holeAt, buffer, todo, first, out, expected>>
  BY DEF Capture, Add, result, merging
<1>2. s.at \in Nat /\ s.len \in Nat /\ s.at \in Int /\ SendLen \in Nat
  BY SendAssumption DEF Segment
<1>3. Bytes(s) \subseteq Positions
  BY <1>2 DEF Bytes, Positions
<1>4. WithinCap'
  BY <1>1, CapKept DEF Capture
<1>5. \/ UNCHANGED <<segments, kept>>
      \/ segments' = Append(segments, s) /\ kept' = kept \cup Bytes(s)
  BY DEF Capture, Add
<1>6. /\ segments' \in Seq(Segment)
      /\ kept' \subseteq seen' /\ seen' \subseteq Positions
      /\ truncated' \in BOOLEAN
  <2>1. segments \in Seq(Segment) /\ kept \subseteq seen /\ seen \subseteq Positions
    BY DEF TypeOK
  <2>2. segments' \in Seq(Segment)
    BY <1>5, <2>1, AppendProperties
  <2>3. kept' \subseteq seen' /\ seen' \subseteq Positions
    BY <1>1, <1>3, <1>5, <2>1
  <2>4. truncated' \in BOOLEAN
    BY Zenon DEF Capture, Add, TypeOK
  <2>5. QED
    BY <2>2, <2>3, <2>4
<1>7. TypeOK'
  <2>1. total' \in Nat /\ packets' \in Nat
    BY <1>1, <1>2 DEF TypeOK
  <2>2. QED
    BY <1>1, <1>6, <2>1, Zenon DEF TypeOK
<1>8. SegmentsTrue' /\ KeptHeld'
  <2>1. CASE UNCHANGED <<segments, kept>>
    <3>1. HasData' = HasData /\ (\A i : Bytes(segments[i])' = Bytes(segments[i]))
      BY <2>1 DEF HasData, Bytes
    <3>2. QED
      BY <1>1, <2>1, <3>1 DEF SegmentsTrue, KeptHeld, SeqOf
  <2>2. CASE segments' = Append(segments, s) /\ kept' = kept \cup Bytes(s)
    <3> DEFINE n == Len(segments)
               new == IF s.len > 0 THEN {n + 1} ELSE {}
    <3>1. /\ n \in Nat /\ Len(segments') = n + 1 /\ segments'[n + 1] = s
          /\ \A i \in 1 .. n : segments'[i] = segments[i]
      BY <2>2, AppendProperties, LenProperties DEF TypeOK
    <3> HIDE DEF n
    <3>2. HasData = {i \in 1 .. n : segments[i].len > 0 /\ ~segments[i].syn}
      BY DEF HasData, n
    <3>3. HasData' = HasData \cup new
      <4>1. HasData' = {i \in 1 .. n + 1 : segments'[i].len > 0 /\ ~segments'[i].syn}
        BY <3>1 DEF HasData
      <4>2. s.len > 0 => ~s.syn
        BY <1>2
      <4>3. QED
        BY <3>1, <3>2, <4>1, <4>2
    <3>4. \A i \in HasData : i # n + 1 /\ segments'[i] = segments[i]
      BY <3>1, <3>2
    <3>5. SegmentsTrue'
      <4>1. ASSUME NEW i \in HasData'
            PROVE  /\ segments'[i].seq = SeqOf(segments[i].at)'
                   /\ segments'[i].at + segments'[i].len <= SendLen
        <5>1. CASE i \in HasData
          BY <1>1, <3>4, <5>1 DEF SegmentsTrue, SeqOf
        <5>2. CASE i \in new
          BY <1>1, <3>1, <5>2 DEF SeqOf
        <5>3. QED
          BY <3>3, <5>1, <5>2
      <4>2. QED
        BY <4>1 DEF SegmentsTrue
    <3>6. KeptHeld'
      <4>1. \A p \in Positions : p \in kept <=> \E i \in HasData : p \in Bytes(segments[i])
        BY <1>1 DEF KeptHeld
      <4>2. \A i \in HasData : Bytes(segments'[i]) = Bytes(segments[i])
        BY <3>4
      <4>3. \A i \in new : Bytes(segments'[i]) = Bytes(s)
        BY <3>1
      <4>4. \A p : p \in Bytes(s) => new = {n + 1}
        BY <1>2 DEF Bytes
      <4>5. ASSUME NEW p \in Positions
            PROVE  p \in kept' <=> \E i \in HasData' : p \in Bytes(segments'[i])
        <5>1. p \in kept' <=> p \in kept \/ p \in Bytes(s)
          BY <2>2
        <5>2. (\E i \in HasData' : p \in Bytes(segments'[i]))
                <=> (\E i \in HasData : p \in Bytes(segments[i])) \/ p \in Bytes(s)
          <6> HIDE DEF new
          <6>1. QED
            BY <3>3, <4>2, <4>3, <4>4
        <5>3. QED
          BY <4>1, <5>1, <5>2
      <4>6. QED
        BY <4>5 DEF KeptHeld, Bytes
    <3>7. QED
      BY <3>5, <3>6
  <2>3. QED
    BY <1>5, <2>1, <2>2
<1>9. Phases' /\ Served'
  BY <1>1 DEF Phases, Served
<1>10. QED
  BY <1>4, <1>7, <1>8, <1>9

(* Nothing was captured but acknowledgements. *)
LEMMA NothingStep ==
    ASSUME StreamInv, ReassembleNothing
    PROVE  StreamInv'
<1> USE DEF StreamInv
<1>1. /\ HasData = {} /\ phase = "capture" /\ phase' = "done"
      /\ buffer' = <<>> /\ segments' = <<>>
      /\ UNCHANGED <<isn, total, truncated, incomplete, holeAt, todo, first, out, expected,
                     packets, seen, kept>>
  BY DEF ReassembleNothing, merging, history
<1>2. kept = {}
  BY <1>1 DEF KeptHeld, TypeOK
<1>3. TypeOK'
  <2>1. segments' \in Seq(Segment) /\ buffer' \in Seq(Positions)
    BY <1>1, EmptySeq
  <2>2. QED
    BY <1>1, <2>1, Zenon DEF TypeOK
<1>4. HasData' = {}
  BY <1>1 DEF HasData
<1>5. SegmentsTrue' /\ KeptHeld' /\ WithinCap'
  BY <1>1, <1>4 DEF SegmentsTrue, KeptHeld, WithinCap
<1>6. Phases'
  BY <1>1 DEF Phases
<1>7. Served'
  <2>1. buffer' \in Seq(kept') /\ Len(buffer') = 0
    BY <1>1, EmptySeq
  <2>2. Honest!Ascending(buffer') /\ Honest!Contents(buffer') = {} /\ Honest!Run(kept') = {}
    BY <1>1, <1>2, <2>1 DEF Honest!Ascending, Honest!Contents, Honest!Run
  <2>3. ~incomplete'
    BY <1>1 DEF Phases
  <2>4. QED
    BY <1>1, <1>2, <2>1, <2>2, <2>3 DEF Served
<1>8. QED
  BY <1>3, <1>5, <1>6, <1>7

(* Sorting the held segments keeps StreamInv.                              *)
LEMMA SortStep ==
    ASSUME StreamInv, Sort
    PROVE  StreamInv'
<1> USE DEF StreamInv
<1>1. /\ phase = "capture" /\ phase' = "first"
      /\ first' \in HasData /\ todo' = HasData
      /\ UNCHANGED <<isn, segments, total, truncated, incomplete, holeAt, buffer, out, expected,
                     packets, history>>
  BY DEF Sort, result
<1>2. SegmentsTrue' /\ KeptHeld' /\ WithinCap' /\ Served'
  BY <1>1, MergingFrame
<1>3. HasData' = HasData /\ HasData \subseteq Nat
  <2>1. HasData' = HasData
    BY <1>1 DEF HasData
  <2>2. HasData \subseteq Nat
    BY LenProperties DEF HasData, TypeOK
  <2>3. QED
    BY <2>1, <2>2
<1>4. TypeOK'
  BY <1>1, <1>3, Zenon DEF TypeOK, history
<1>5. Phases'
  BY <1>1, <1>3 DEF Phases
<1>6. QED
  BY <1>2, <1>4, <1>5

(* Starting the merge at the lowest segment keeps StreamInv.               *)
LEMMA MergeFirstStep ==
    ASSUME StreamInv, NEW i \in todo, MergeFirst(i)
    PROVE  StreamInv'
<1> USE DEF StreamInv
<1>1. /\ phase = "first" /\ phase' = "merge" /\ Lowest(i)
      /\ out' = [k \in 1 .. segments[i].len |-> segments[i].at + k - 1]
      /\ expected' = End(i) /\ todo' = todo \ {i}
      /\ UNCHANGED <<isn, segments, total, truncated, incomplete, holeAt, buffer, first,
                     packets, history>>
  BY DEF MergeFirst, result
<1>2. SegmentsTrue' /\ KeptHeld' /\ WithinCap' /\ Served'
  BY <1>1, MergingFrame
<1>3. first \in HasData /\ todo = HasData /\ HasData' = HasData
  BY <1>1 DEF Phases, HasData
<1> DEFINE at == segments[i].at
           len == segments[i].len
<1>4. /\ at \in Positions /\ at \in Int /\ len \in Nat /\ len > 0 /\ at + len <= SendLen
      /\ segments[first].at \in Int
      /\ End(i) = at + len - segments[first].at
  BY <1>3, Placed DEF Positions
<1>5. /\ out' \in Seq(Positions) /\ out' # <<>> /\ Honest!Ascending(out')
      /\ out'[1] = at /\ Len(out') = len
  <2> HIDE DEF at, len
  <2>1. out' = [k \in 1 .. len |-> at + k - 1]
    BY <1>1 DEF at, len
  <2>2. QED
    BY <1>4, <2>1, SegmentRun
<1>6. Reached' = at + len /\ expected' \in Int
  BY <1>1, <1>4 DEF Reached
<1>7. TypeOK'
  <2>1. todo' \subseteq Nat
    BY <1>1 DEF TypeOK
  <2>2. QED
    BY <1>1, <1>5, <1>6, <2>1, Zenon DEF TypeOK, history
<1>8. OutIsRun'
  <2>1. out'[1] + Len(out') = Reached'
    BY <1>4, <1>5, <1>6
  <2>2. Honest!Contents(out') \subseteq kept'
    <3>1. Honest!Contents(out') = at .. at + len - 1
      <4> HIDE DEF at, len
      <4>1. QED
        BY <1>5, AscendingInterval
    <3>2. at .. at + len - 1 \subseteq Positions
      <4> HIDE DEF at, len
      <4>1. at \in 0 .. SendLen - 1 /\ SendLen \in Nat
        BY <1>4, SendAssumption DEF Positions
      <4>2. \A p \in at .. at + len - 1 : p \in 0 .. SendLen - 1
        BY <1>4, <4>1
      <4>3. QED
        BY <4>2 DEF Positions
    <3>3. at .. at + len - 1 \subseteq kept
      BY <1>1, <1>3, <3>2 DEF KeptHeld, Bytes
    <3>4. QED
      BY <1>1, <3>1, <3>3 DEF history
  <2>3. \A j \in HasData : at <= segments[j].at
    <3>1. ASSUME NEW j \in HasData
          PROVE  at <= segments[j].at
      <4>1. Off(i) <= Off(j)
        BY <1>1, <1>3 DEF Lowest
      <4>2. Off(i) = at - segments[first].at /\ Off(j) = segments[j].at - segments[first].at
        BY <1>3, Placed
      <4>3. segments[j].at \in Int
        BY <1>3, Placed DEF Positions
      <4>4. QED
        BY <1>4, <4>1, <4>2, <4>3
    <3>2. QED
      BY <3>1
  <2>4. HasData \ todo' = {i}
    BY <1>1, <1>3
  <2>5. at + len <= Reached'
    BY <1>4, <1>6
  <2>6. QED
    BY <1>1, <1>3, <1>5, <2>1, <2>2, <2>3, <2>4, <2>5 DEF OutIsRun
<1>9. Phases'
  BY <1>1, <1>3, <1>8 DEF Phases
<1>10. QED
  BY <1>2, <1>7, <1>9

(* A segment that brings nothing new is passed over. *)
LEMMA RetransmittedStep ==
    ASSUME StreamInv, NEW i \in todo, Retransmitted(i)
    PROVE  StreamInv'
<1> USE DEF StreamInv
<1>1. /\ phase = "merge" /\ phase' = "merge" /\ End(i) <= expected /\ todo' = todo \ {i}
      /\ UNCHANGED <<isn, segments, total, truncated, incomplete, holeAt, buffer, first, out,
                     expected, packets, history>>
  BY DEF Retransmitted, result
<1>2. SegmentsTrue' /\ KeptHeld' /\ WithinCap' /\ Served'
  BY <1>1, MergingFrame
<1>3. first \in HasData /\ todo \subseteq HasData /\ HasData' = HasData /\ OutIsRun
  BY <1>1 DEF Phases, HasData
<1>4. TypeOK'
  BY <1>1, Zenon DEF TypeOK, history
<1>5. segments[i].at + segments[i].len <= Reached
  <2>1. /\ End(i) = segments[i].at + segments[i].len - segments[first].at
        /\ segments[i].at \in Int /\ segments[i].len \in Int /\ segments[first].at \in Int
    BY <1>3, Placed DEF Positions
  <2>2. expected \in Int
    BY DEF TypeOK
  <2>3. QED
    BY <1>1, <2>1, <2>2 DEF Reached
<1>6. OutIsRun'
  <2>1. Reached' = Reached /\ kept' = kept
    BY <1>1 DEF Reached, history
  <2>2. \A j \in HasData \ todo' : segments[j].at + segments[j].len <= Reached
    BY <1>1, <1>3, <1>5 DEF OutIsRun
  <2>3. QED
    BY <1>1, <1>3, <2>1, <2>2 DEF OutIsRun
<1>7. Phases'
  BY <1>1, <1>3, <1>6 DEF Phases
<1>8. QED
  BY <1>2, <1>4, <1>7

(* A segment that starts in or right after what is there extends it. *)
LEMMA MergeStep ==
    ASSUME StreamInv, NEW i \in todo, Merge(i)
    PROVE  StreamInv'
<1> USE DEF StreamInv
<1> DEFINE skip == expected - Off(i)
           at == segments[i].at
           len == segments[i].len
           n == len - skip
<1>1. /\ phase = "merge" /\ phase' = "merge" /\ Off(i) <= expected /\ End(i) > expected
      /\ out' = out \o [k \in 1 .. n |-> at + skip + k - 1]
      /\ expected' = End(i) /\ todo' = todo \ {i}
      /\ UNCHANGED <<isn, segments, total, truncated, incomplete, holeAt, buffer, first,
                     packets, history>>
  BY DEF Merge, result
<1>2. SegmentsTrue' /\ KeptHeld' /\ WithinCap' /\ Served'
  BY <1>1, MergingFrame
<1>3. i \in HasData /\ first \in HasData /\ todo \subseteq HasData /\ HasData' = HasData /\ OutIsRun
  BY <1>1 DEF Phases, HasData
<1>4. /\ at \in Int /\ len \in Int /\ at >= 0 /\ len > 0 /\ at + len <= SendLen
      /\ segments[first].at \in Int /\ expected \in Int /\ SendLen \in Nat
      /\ Off(i) = at - segments[first].at
      /\ End(i) = at + len - segments[first].at
  BY <1>3, Placed, SendAssumption, SMTT(30) DEF Positions, TypeOK
<1>5. /\ Reached \in Int /\ n \in Nat /\ at <= Reached
      /\ at + skip = Reached /\ Reached + n = at + len /\ Reached' = at + len
      /\ expected' \in Int /\ Reached <= at + len
  <2>1. Reached = segments[first].at + expected /\ Reached' = segments[first].at + expected'
    BY <1>1 DEF Reached
  <2> DEFINE base == segments[first].at
  <2>2. base \in Int /\ Reached = base + expected /\ Reached' = base + expected'
        /\ skip = expected - (at - base) /\ expected' = at + len - base
        /\ at - base <= expected /\ at + len - base > expected
    BY <1>1, <1>4, <2>1
  <2>3. at \in Int /\ len \in Int /\ expected \in Int /\ n = len - skip
    BY <1>4
  <2> HIDE DEF base, skip, at, len, n
  <2>4. QED
    BY <2>2, <2>3
<1>6. /\ out \in Seq(Positions) /\ out # <<>> /\ Honest!Ascending(out)
      /\ Reached = out[1] + Len(out)
  BY <1>3 DEF TypeOK, OutIsRun
<1>7. /\ out' \in Seq(Positions) /\ out' # <<>> /\ Honest!Ascending(out')
      /\ out'[1] = out[1] /\ Len(out') = Len(out) + n
  <2>1. Reached + n <= SendLen
    BY <1>4, <1>5
  <2>2. out' = out \o [k \in 1 .. n |-> Reached + k - 1]
    BY <1>1, <1>5
  <2> HIDE DEF n, skip, at, len
  <2>3. QED
    BY <1>5, <1>6, <2>1, <2>2, LongerRun
<1>8. TypeOK'
  <2>1. todo' \subseteq Nat
    BY <1>1 DEF TypeOK
  <2>2. QED
    BY <1>1, <1>5, <1>7, <2>1, Zenon DEF TypeOK, history
<1>9. out[1] \in Int /\ Len(out) \in Nat /\ out[1] >= 0
  <2>1. out[1] \in Positions /\ Len(out) \in Nat
    BY <1>6, EmptySeq, LenProperties, ElementOfSeq
  <2>2. QED
    BY <2>1 DEF Positions
<1>10. Honest!Contents(out') \subseteq kept'
  <2> HIDE DEF n, skip, at, len
  <2>1. /\ Honest!Contents(out') = out'[1] .. out'[1] + Len(out') - 1
        /\ Honest!Contents(out) = out[1] .. out[1] + Len(out) - 1
    BY <1>6, <1>7, AscendingInterval
  <2>2. \A p \in Honest!Contents(out') : p \in Honest!Contents(out) \/ p \in at .. at + len - 1
    <3> DEFINE lo == out[1]
               l == Len(out)
    <3>1. /\ lo \in Int /\ l \in Int /\ at \in Int /\ len \in Int /\ n \in Int
          /\ at <= lo + l /\ lo + l + n = at + len
          /\ Honest!Contents(out') = lo .. lo + (l + n) - 1
          /\ Honest!Contents(out) = lo .. lo + l - 1
      BY <1>4, <1>5, <1>6, <1>7, <1>9, <2>1
    <3> HIDE DEF lo, l
    <3>2. QED
      BY <3>1
  <2>3. at .. at + len - 1 \subseteq Positions
    <3>1. \A p \in at .. at + len - 1 : p \in 0 .. SendLen - 1
      BY <1>4
    <3>2. QED
      BY <3>1 DEF Positions
  <2>4. at .. at + len - 1 \subseteq kept
    BY <1>1, <1>3, <2>3 DEF KeptHeld, Bytes, at, len
  <2>5. QED
    BY <1>1, <1>3, <2>2, <2>4 DEF OutIsRun, history
<1>11. OutIsRun'
  <2>1. out'[1] + Len(out') = Reached'
    BY <1>5, <1>6, <1>7, <1>9
  <2>2. \A j \in HasData : out'[1] <= segments[j].at
    BY <1>3, <1>7 DEF OutIsRun
  <2>3. \A j \in HasData \ todo' : segments[j].at + segments[j].len <= Reached'
    <3>1. ASSUME NEW j \in HasData \ todo'
          PROVE  segments[j].at + segments[j].len <= Reached'
      <4>1. CASE j = i
        BY <1>4, <1>5, <4>1
      <4>2. CASE j \in HasData \ todo
        <5>1. segments[j].at + segments[j].len <= Reached
          BY <1>3, <4>2 DEF OutIsRun
        <5>2. segments[j].at \in Int /\ segments[j].len \in Int
          BY <1>3, Placed DEF Positions
        <5>3. QED
          BY <1>4, <1>5, <5>1, <5>2
      <4>3. QED
        BY <1>1, <4>1, <4>2
    <3>2. QED
      BY <3>1
  <2>4. QED
    BY <1>1, <1>3, <1>7, <1>10, <2>1, <2>2, <2>3 DEF OutIsRun
<1>12. Phases'
  BY <1>1, <1>3, <1>11 DEF Phases
<1>13. QED
  BY <1>2, <1>8, <1>12

(* The first gap stops the merge: everything not yet looked at starts      *)
(* after it, everything looked at ends before it.                          *)
LEMMA HoleStep ==
    ASSUME StreamInv, NEW i \in todo, Hole(i)
    PROVE  StreamInv'
<1> USE DEF StreamInv
<1>1. /\ phase = "merge" /\ phase' = "store" /\ Lowest(i) /\ Off(i) > expected
      /\ incomplete' = TRUE /\ holeAt' = expected
      /\ UNCHANGED <<isn, segments, total, truncated, buffer, todo, first, out, expected,
                     packets, history>>
  BY DEF Hole, merging
<1>2. SegmentsTrue' /\ KeptHeld' /\ WithinCap' /\ Served'
  BY <1>1, MergingFrame
<1>3. i \in HasData /\ first \in HasData /\ todo \subseteq HasData /\ HasData' = HasData /\ OutIsRun
  BY <1>1 DEF Phases, HasData
<1>4. TypeOK'
  <2>1. incomplete' \in BOOLEAN /\ holeAt' \in Int
    BY <1>1 DEF TypeOK
  <2>2. QED
    BY <1>1, <2>1, Zenon DEF TypeOK, history
<1>5. expected \in Int /\ segments[first].at \in Int /\ Reached \in Int
  BY <1>3, Placed DEF TypeOK, Reached, Positions
<1>6. \A j \in HasData : /\ segments[j].at \in Positions /\ segments[j].at \in Int
                         /\ segments[j].len \in Nat /\ segments[j].len > 0
                         /\ Off(j) = segments[j].at - segments[first].at
  BY <1>3, Placed DEF Positions
<1>7. \A j \in todo : segments[j].at > Reached
  <2>1. ASSUME NEW j \in todo
        PROVE  segments[j].at > Reached
    <3>1. Off(i) <= Off(j)
      BY <1>1 DEF Lowest
    <3>2. /\ Off(i) = segments[i].at - segments[first].at
          /\ Off(j) = segments[j].at - segments[first].at
          /\ segments[i].at \in Int /\ segments[j].at \in Int
      BY <1>3, <1>6
    <3>3. QED
      BY <1>1, <1>5, <3>1, <3>2 DEF Reached
  <2>2. QED
    BY <2>1
<1>8. \A j \in HasData \ todo : segments[j].at + segments[j].len <= Reached
  BY <1>3 DEF OutIsRun
<1>9. Reached \notin kept
  <2>1. ASSUME NEW j \in HasData
        PROVE  Reached \notin Bytes(segments[j])
    <3>1. segments[j].at > Reached \/ segments[j].at + segments[j].len <= Reached
      BY <1>7, <1>8
    <3>2. segments[j].at \in Int /\ segments[j].len \in Int
      BY <1>6
    <3>3. QED
      BY <1>5, <3>1, <3>2 DEF Bytes
  <2>2. QED
    BY <1>1, <2>1 DEF KeptHeld, TypeOK
<1>10. segments[i].at \in kept
  <2>1. segments[i].at \in Bytes(segments[i])
    BY <1>3, <1>6 DEF Bytes
  <2>2. QED
    BY <1>1, <1>3, <1>6, <2>1 DEF KeptHeld
<1>11. Reached' = Reached /\ kept' = kept
  BY <1>1 DEF Reached, history
<1>12. OutIsRun'
  BY <1>1, <1>3, <1>11 DEF OutIsRun
<1>13. Phases'
  BY <1>1, <1>3, <1>7, <1>9, <1>10, <1>11, <1>12 DEF Phases
<1>14. QED
  BY <1>2, <1>4, <1>13

(* When the merge ends, out is a run of kept bytes with nothing before it, *)
(* the next byte is not kept, and the flag says whether there is a later.  *)
LEMMA WhereItEnds ==
    ASSUME StreamInv, phase = "store" \/ (phase = "merge" /\ todo = {})
    PROVE  /\ out \in Seq(Positions) /\ out[1] \in Int /\ Reached \in Int
           /\ Len(out) \in Nat /\ out[1] + Len(out) = Reached /\ out[1] < Reached
           /\ \A k \in 1 .. Len(out) : out[k] = out[1] + k - 1
           /\ Honest!Contents(out) = out[1] .. Reached - 1 /\ out[1] .. Reached - 1 \subseteq kept
           /\ kept \subseteq Int /\ \A p \in kept : out[1] <= p
           /\ Reached \notin kept /\ (incomplete <=> \E p \in kept : p > Reached)
<1> USE DEF StreamInv
<1> DEFINE lo == out[1]
           l == Len(out)
<1>1. /\ out \in Seq(Positions) /\ out # <<>> /\ Honest!Ascending(out)
      /\ lo + l = Reached /\ Honest!Contents(out) \subseteq kept /\ first \in HasData
      /\ \A i \in HasData : lo <= segments[i].at
      /\ \A i \in HasData \ todo : segments[i].at + segments[i].len <= Reached
  BY DEF TypeOK, Phases, OutIsRun
<1>2. lo \in Int /\ l \in Nat /\ l > 0 /\ Reached \in Int
  <2>1. lo \in Positions /\ l \in Nat /\ l > 0
    BY <1>1, EmptySeq, LenProperties, ElementOfSeq
  <2>2. QED
    BY <1>1, <2>1 DEF Positions
<1>3. Honest!Contents(out) = lo .. Reached - 1
  <2>1. Honest!Contents(out) = lo .. lo + l - 1
    BY <1>1, AscendingInterval
  <2>2. lo + l = Reached
    BY <1>1
  <2> HIDE DEF lo, l
  <2>3. QED
    BY <1>2, <2>1, <2>2
<1>4. kept \subseteq Positions /\ kept \subseteq Int
  BY DEF TypeOK, Positions
<1>5. \A p \in kept : \E i \in HasData : p \in Bytes(segments[i])
  BY <1>4 DEF KeptHeld
<1>6. \A i \in HasData : segments[i].at \in Int /\ segments[i].len \in Int
  BY <1>1, Placed DEF Positions
<1>7. \A p \in kept : lo <= p
  <2>1. ASSUME NEW p \in kept, NEW i \in HasData, p \in Bytes(segments[i])
        PROVE  lo <= p
    <3>1. p \in Int /\ segments[i].at <= p /\ lo <= segments[i].at
      BY <1>1, <1>4, <1>6, <2>1 DEF Bytes
    <3>2. QED
      BY <1>2, <1>6, <3>1
  <2>2. QED
    BY <1>5, <2>1
<1>8. /\ Reached \notin kept
      /\ incomplete <=> \E p \in kept : p > Reached
  <2>1. CASE phase = "store"
    BY <2>1 DEF Phases
  <2>2. CASE phase = "merge" /\ todo = {}
    <3>1. ASSUME NEW p \in kept, NEW i \in HasData, p \in Bytes(segments[i])
          PROVE  p < Reached
      <4>1. segments[i].at + segments[i].len <= Reached
        BY <1>1, <2>2
      <4>2. p \in Int /\ p <= segments[i].at + segments[i].len - 1
        BY <1>4, <1>6, <3>1 DEF Bytes
      <4>3. QED
        BY <1>2, <1>6, <4>1, <4>2
    <3>2. \A p \in kept : p \in Int /\ p < Reached
      BY <1>4, <1>5, <3>1
    <3>3. ~incomplete
      BY <2>2 DEF Phases
    <3>4. QED
      BY <1>2, <3>2, <3>3
  <2>3. QED
    BY <2>1, <2>2
<1> HIDE DEF lo, l
<1>9. lo .. Reached - 1 \subseteq kept /\ lo \in kept /\ lo < Reached
  <2>1. lo < Reached
    BY <1>1, <1>2
  <2>2. lo \in lo .. Reached - 1
    BY <1>2, <2>1
  <2>3. QED
    BY <1>1, <1>3, <2>1, <2>2
<1>10. QED
  BY <1>1, <1>2, <1>3, <1>4, <1>7, <1>8, <1>9 DEF lo, l, Honest!Ascending

(* When the merge ends, out is the run of kept bytes the stream promises.  *)
LEMMA MergedRun ==
    ASSUME StreamInv, phase = "store" \/ (phase = "merge" /\ todo = {})
    PROVE  /\ out \in Seq(kept) /\ Honest!Ascending(out)
           /\ Honest!Contents(out) = Honest!Run(kept)
           /\ Len(out) \in Nat /\ Len(out) <= Cap
           /\ incomplete <=> Honest!Run(kept) # kept
<1> USE DEF StreamInv
<1> DEFINE lo == out[1]
           l == Len(out)
<1>1. /\ out \in Seq(Positions) /\ lo + l = Reached /\ Honest!Contents(out) = lo .. Reached - 1
      /\ \A p \in kept : lo <= p
  BY WhereItEnds
<1>2. lo \in Int /\ l \in Nat /\ Reached \in Int /\ lo < Reached
  BY WhereItEnds
<1>3. Honest!Ascending(out)
  BY WhereItEnds DEF Honest!Ascending
<1>4. kept \subseteq Positions /\ kept \subseteq Int
  BY DEF TypeOK, Positions
<1>7. \A p \in kept : lo <= p
  BY <1>1
<1>8. Reached \notin kept /\ (incomplete <=> \E p \in kept : p > Reached)
  BY WhereItEnds
<1>9. lo .. Reached - 1 \subseteq kept /\ lo \in kept /\ lo < Reached
  <2>1. lo .. Reached - 1 \subseteq kept
    BY WhereItEnds
  <2> QED
    BY <1>2, <2>1
<1> HIDE DEF lo, l
<1>10. Honest!Run(kept) = lo .. Reached - 1
  <2>1. ASSUME NEW p \in lo .. Reached - 1, NEW q \in kept
        PROVE  q .. p \subseteq kept
    <3>1. q \in Int /\ lo <= q
      BY <1>4, <1>7
    <3>2. \A k \in q .. p : k \in lo .. Reached - 1
      BY <1>2, <3>1
    <3>3. QED
      BY <1>9, <3>2
  <2>2. ASSUME NEW p \in kept, \A q \in kept : q .. p \subseteq kept
        PROVE  p \in lo .. Reached - 1
    <3>1. lo .. p \subseteq kept /\ p \in Int /\ lo <= p
      BY <1>4, <1>7, <1>9, <2>2
    <3>2. Reached \notin lo .. p
      BY <1>8, <3>1
    <3>3. QED
      BY <1>2, <1>9, <3>1, <3>2
  <2>3. QED
    BY <1>9, <2>1, <2>2 DEF Honest!Run
<1>11. incomplete <=> Honest!Run(kept) # kept
  <2>1. (\E p \in kept : p > Reached) <=> (lo .. Reached - 1 # kept)
    <3>1. ASSUME NEW p \in kept, p > Reached
          PROVE  lo .. Reached - 1 # kept
      <4>1. p \notin lo .. Reached - 1
        BY <1>2, <1>4, <3>1
      <4>2. QED
        BY <4>1
    <3>2. ASSUME \A p \in kept : ~(p > Reached)
          PROVE  lo .. Reached - 1 = kept
      <4>1. \A p \in kept : p \in lo .. Reached - 1
        <5>1. \A p \in kept : p \in Int /\ p # Reached /\ lo <= p /\ ~(p > Reached)
          BY <1>4, <1>7, <1>8, <3>2
        <5>2. QED
          BY <1>2, <5>1
      <4>2. QED
        BY <1>9, <4>1
    <3>3. QED
      BY <3>1, <3>2
  <2>2. QED
    BY <1>8, <1>10, <2>1
<1>12. l <= Cap
  <2>1. IsFiniteSet(kept)
    <3>1. IsFiniteSet(Positions)
      BY FS_Interval, SendAssumption DEF Positions
    <3>2. QED
      BY <1>4, <3>1, FS_Subset
  <2>2. Cardinality(lo .. Reached - 1) = l
    <3>1. Reached - 1 \in Int /\ ~(lo > Reached - 1)
      BY <1>2, <1>9
    <3>2. Cardinality(lo .. Reached - 1) = (Reached - 1) - lo + 1
      BY <1>2, <3>1, FS_Interval
    <3>3. QED
      BY <1>1, <1>2, <3>2 DEF lo, l
  <2>3. Cardinality(lo .. Reached - 1) <= Cardinality(kept)
    BY <1>9, <2>1, FS_Subset
  <2>4. Cardinality(kept) \in Nat /\ Cardinality(kept) <= Cap
    BY <2>1, FS_CardinalityType DEF WithinCap
  <2>5. QED
    BY <1>2, <2>2, <2>3, <2>4, CapAssumption
<1>13. out \in Seq(kept)
  <2>1. \A k \in 1 .. Len(out) : out[k] \in kept
    BY <1>1, <1>9 DEF Honest!Contents
  <2>2. QED
    BY <1>1, <2>1
<1>14. QED
  BY <1>1, <1>2, <1>3, <1>10, <1>11, <1>12, <1>13 DEF l

(* Cutting the merged bytes at the cap keeps StreamInv.                    *)
LEMMA StoreStep ==
    ASSUME StreamInv, Store
    PROVE  StreamInv'
<1> USE DEF StreamInv
<1>1. /\ phase = "store" \/ (phase = "merge" /\ todo = {})
      /\ phase' = "done" /\ segments' = <<>>
      /\ buffer' = SubSeq(out, 1, IF Len(out) < Cap THEN Len(out) ELSE Cap)
      /\ UNCHANGED <<isn, total, truncated, incomplete, holeAt, todo, first, out, expected,
                     packets, seen, kept>>
  BY DEF Store, merging, history
<1>2. /\ out \in Seq(kept) /\ Honest!Ascending(out)
      /\ Honest!Contents(out) = Honest!Run(kept)
      /\ Len(out) \in Nat /\ Len(out) <= Cap
      /\ incomplete <=> Honest!Run(kept) # kept
  BY <1>1, MergedRun
<1>3. buffer' = out
  <2>1. buffer' = SubSeq(out, 1, Len(out))
    BY <1>1, <1>2, CapAssumption
  <2>2. QED
    BY <1>2, <2>1, SubSeqFull
<1>4. TypeOK'
  <2>1. buffer' \in Seq(Positions) /\ segments' \in Seq(Segment)
    BY <1>1, <1>3, EmptySeq DEF TypeOK
  <2>2. QED
    BY <1>1, <2>1, Zenon DEF TypeOK
<1>5. HasData' = {}
  <2>1. Len(segments') = 0
    BY <1>1
  <2>2. QED
    BY <2>1 DEF HasData
<1>6. SegmentsTrue' /\ KeptHeld' /\ WithinCap' /\ Phases'
  BY <1>1, <1>5 DEF SegmentsTrue, KeptHeld, WithinCap, Phases
<1>7. Served'
  <2>1. buffer' \in Seq(kept') /\ kept' = kept /\ incomplete' = incomplete
    BY <1>1, <1>2, <1>3
  <2>2. Honest!Ascending(buffer)'
    BY <1>2, <1>3 DEF Honest!Ascending
  <2>3. Honest!Contents(buffer)' = Honest!Contents(out) /\ Honest!Run(kept)' = Honest!Run(kept)
    BY <1>3, <2>1 DEF Honest!Contents, Honest!Run
  <2>4. QED
    BY <1>2, <2>1, <2>2, <2>3, Zenon DEF Served
<1>8. QED
  BY <1>4, <1>6, <1>7

(* Each kind of packet of the capture is a segment of this direction.      *)
LEMMA SegmentsCaptured ==
    ASSUME StreamInv, CaptureSyn \/ CaptureData
    PROVE  \E s \in Segment : /\ s.at + s.len <= SendLen
                              /\ s.len > 0 => s.seq = SeqOf(s.at)
                              /\ s.syn => s.len = 0
                              /\ Capture(s)
<1>1. Mod \in Nat /\ Mod > 0 /\ SendLen \in Nat /\ isn \in 0 .. Mod - 1
  BY ModAssumption, IsnAssumption, SendAssumption DEF StreamInv, TypeOK
<1>2. CASE CaptureSyn
  <2> DEFINE s == [seq |-> isn, at |-> 0, len |-> 0, syn |-> TRUE]
  <2>1. s \in Segment
    BY <1>1 DEF Segment
  <2>2. s.len = 0 /\ s.at = 0 /\ Capture(s)
    BY <1>2 DEF CaptureSyn
  <2> HIDE DEF s
  <2>3. QED
    BY <1>1, <2>1, <2>2
<1>3. CASE CaptureData
  <2>0. PICK at \in 0 .. SendLen : \E len \in 0 .. SendLen - at :
             Capture([seq |-> SeqOf(at), at |-> at, len |-> len, syn |-> FALSE])
    BY <1>3 DEF CaptureData
  <2>1. PICK len \in 0 .. SendLen - at :
             Capture([seq |-> SeqOf(at), at |-> at, len |-> len, syn |-> FALSE])
    BY <2>0
  <2> DEFINE s == [seq |-> SeqOf(at), at |-> at, len |-> len, syn |-> FALSE]
  <2>2. SeqOf(at) \in 0 .. Mod - 1
    BY <1>1 DEF SeqOf
  <2>3. len \in 0 .. SendLen /\ at + len <= SendLen
    BY <1>1
  <2>4. s \in Segment
    BY <2>2, <2>3 DEF Segment
  <2>5. s.seq = SeqOf(s.at) /\ s.at + s.len <= SendLen /\ ~s.syn /\ Capture(s)
    BY <2>1, <2>3
  <2> HIDE DEF s
  <2>6. QED
    BY <2>4, <2>5
<1>4. QED
  BY <1>2, <1>3

(* StreamInv is inductive.                                                 *)
LEMMA StreamStep == StreamInv /\ [Next]_vars => StreamInv'
<1> SUFFICES ASSUME StreamInv, [Next]_vars
             PROVE  StreamInv'
  OBVIOUS
<1>1. CASE CaptureSyn \/ CaptureData
  BY <1>1, SegmentsCaptured, CaptureStep
<1>2. CASE ReassembleNothing
  BY <1>2, NothingStep
<1>3. CASE Sort
  BY <1>3, SortStep
<1>4. CASE Store
  BY <1>4, StoreStep
<1>5. ASSUME NEW i \in todo, MergeFirst(i) \/ Retransmitted(i) \/ Merge(i) \/ Hole(i)
      PROVE  StreamInv'
  BY <1>5, MergeFirstStep, RetransmittedStep, MergeStep, HoleStep
<1>6. CASE UNCHANGED vars
  <2>1. /\ isn' = isn /\ segments' = segments /\ total' = total /\ truncated' = truncated
        /\ incomplete' = incomplete /\ holeAt' = holeAt /\ buffer' = buffer /\ phase' = phase
        /\ todo' = todo /\ first' = first /\ out' = out /\ expected' = expected
        /\ packets' = packets /\ seen' = seen /\ kept' = kept
    BY <1>6 DEF vars, result, merging, history
  <2>2. TypeOK'
    BY <2>1, Zenon DEF StreamInv, TypeOK
  <2>3. HasData' = HasData /\ \A i : Bytes(segments[i])' = Bytes(segments[i])
    BY <2>1 DEF HasData, Bytes
  <2>4. SegmentsTrue' /\ KeptHeld' /\ WithinCap'
    BY <2>1, <2>3 DEF StreamInv, SegmentsTrue, SeqOf, KeptHeld, WithinCap
  <2>5. OutIsRun' = OutIsRun /\ Reached' = Reached
    BY <2>1, <2>3 DEF OutIsRun, Reached, Honest!Ascending, Honest!Contents
  <2>6. Phases'
    BY <2>1, <2>3, <2>5, Zenon DEF StreamInv, Phases
  <2>7. Served'
    <3>1. /\ Honest!Ascending(buffer)' <=> Honest!Ascending(buffer)
          /\ Honest!Contents(buffer)' = Honest!Contents(buffer)
          /\ Honest!Run(kept)' = Honest!Run(kept)
      BY <2>1 DEF Honest!Ascending, Honest!Contents, Honest!Run
    <3>2. QED
      BY <2>1, <3>1, Zenon DEF StreamInv, Served
  <2>8. QED
    BY <2>2, <2>4, <2>6, <2>7 DEF StreamInv
<1>7. QED
  BY <1>1, <1>2, <1>3, <1>4, <1>5, <1>6 DEF Next, Reassemble

-----------------------------------------------------------------------------
(* The theorems.                                                           *)

(* In every capture: the segments held are pieces of what was sent, what   *)
(* is held is what was kept and fits under the cap, the merge has a run of *)
(* kept bytes at any time, and what it serves is the longest one from the  *)
(* lowest byte on, with reassembly_incomplete set exactly if it is not all.*)
THEOREM StreamInvariant == Spec => []StreamInv
<1>1. QED
  BY StreamInit, StreamStep, PTL DEF Spec

(* "Both flags surface": the bytes of a capture that are not served are    *)
(* accounted for by one of the two flags.                                  *)
THEOREM ShortfallIsFlagged == Spec => []ShortfallFlagged
<1>1. StreamInv => ShortfallFlagged
  BY DEF StreamInv, WithinCap, Served, ShortfallFlagged
<1>2. QED
  BY <1>1, StreamInvariant, PTL

(* reassembly.py implements HonestStream: whatever order the packets came  *)
(* in and wherever their numbers wrap, what a direction serves is the run  *)
(* of kept bytes from the lowest one on.                                   *)
THEOREM ReassemblyHonest == Spec => ImplementsHonest
<1>1. Init => Honest!Init
  BY DEF Init, Honest!Init
<1>2. StreamInv /\ StreamInv' /\ [Next]_vars => [Honest!Next]_Honest!vars
  <2> SUFFICES ASSUME StreamInv, StreamInv', [Next]_vars
               PROVE  Honest!Next \/ UNCHANGED <<kept, buffer, phase = "done" /\ incomplete>>
    BY DEF Honest!vars
  <2> DEFINE flag == phase = "done" /\ incomplete
  <2>1. ASSUME NEW s, Capture(s)
        PROVE  Honest!Capture
    <3>1. phase = "capture" /\ UNCHANGED <<buffer, phase, incomplete>> /\ kept \subseteq kept'
      BY <2>1 DEF Capture, Add, result
    <3>2. buffer = NotServed
      BY <3>1 DEF StreamInv, Phases
    <3>3. QED
      BY <3>1, <3>2 DEF Honest!Capture
  <2>2. CASE ReassembleNothing \/ Store
    <3>1. phase # "done" /\ phase' = "done" /\ UNCHANGED <<kept, incomplete>>
      BY <2>2 DEF ReassembleNothing, Store, history
    <3>2. buffer = NotServed /\ flag = FALSE
      BY <3>1 DEF StreamInv, Phases
    <3>3. /\ buffer' \in Seq(kept) /\ Honest!Ascending(buffer)'
          /\ Honest!Contents(buffer)' = Honest!Run(kept)
          /\ incomplete' <=> Honest!Run(kept) # kept
      BY <3>1 DEF StreamInv, Served, Honest!Run
    <3>4. Honest!Ascending(buffer') /\ Honest!Contents(buffer') = Honest!Run(kept)
      BY <3>3 DEF Honest!Ascending, Honest!Contents
    <3>5. flag' = (Honest!Run(kept) # kept)
      BY <3>1, <3>3
    <3>6. QED
      BY <3>1, <3>2, <3>3, <3>4, <3>5 DEF Honest!Next, Honest!Serve
  <2>3. CASE Sort
    BY <2>3 DEF Sort, result, history
  <2>4. ASSUME NEW i \in todo, MergeFirst(i) \/ Retransmitted(i) \/ Merge(i)
        PROVE  UNCHANGED <<kept, buffer, flag>>
    BY <2>4 DEF MergeFirst, Retransmitted, Merge, result, history
  <2>5. ASSUME NEW i \in todo, Hole(i)
        PROVE  UNCHANGED <<kept, buffer, flag>>
    BY <2>5 DEF Hole, history
  <2>6. CASE UNCHANGED vars
    BY <2>6 DEF vars, result, history
  <2>7. QED
    BY <2>1, <2>2, <2>3, <2>4, <2>5, <2>6 DEF Next, Reassemble, CaptureSyn, CaptureData,
                                              Honest!Next
<1>3. QED
  BY <1>1, <1>2, StreamInvariant, PTL DEF Spec, ImplementsHonest, Honest!Spec

-----------------------------------------------------------------------------
(* The same run by the reassembly of the analysis.                         *)

(* A segment in the places of the analysis covers the bytes it has here.   *)
LEMMA PlacesCovered ==
    ASSUME StreamInv, phase = "store" \/ (phase = "merge" /\ todo = {})
    PROVE  /\ Pipeline!WithData(ByPlace) = HasData
           /\ \A i \in HasData :
                 LET s == ByPlace.segments[i]
                 IN  /\ s.seq = segments[i].at /\ Len(s.payload) = segments[i].len
                     /\ segments[i].at \in Nat /\ segments[i].len \in Nat /\ segments[i].len > 0
                     /\ \A k \in 1 .. segments[i].len : s.payload[k] = segments[i].at + k - 1
           /\ kept = UNION {Bytes(segments[i]) : i \in HasData}
<1> USE DEF StreamInv
<1>1. segments \in Seq(Segment) /\ DOMAIN segments = 1 .. Len(segments) /\ Len(segments) \in Nat
  BY LenProperties DEF TypeOK
<1>2. \A i \in DOMAIN segments : /\ segments[i].at \in Nat /\ segments[i].len \in Nat
                                 /\ segments[i].syn \in BOOLEAN
  <2>1. \A i \in DOMAIN segments : segments[i] \in Segment
    BY <1>1, ElementOfSeq
  <2>2. 0 .. SendLen \subseteq Nat
    BY SendAssumption
  <2> QED
    BY <2>1, <2>2 DEF Segment
<1>3. \A i \in DOMAIN segments :
         /\ ByPlace.segments[i].seq = segments[i].at /\ ByPlace.segments[i].syn = segments[i].syn
         /\ ByPlace.segments[i].payload = [k \in 1 .. segments[i].len |-> segments[i].at + k - 1]
  BY DEF ByPlace
<1>4. DOMAIN ByPlace.segments = DOMAIN segments
  BY DEF ByPlace
<1>5. \A i \in DOMAIN segments :
         /\ Len(ByPlace.segments[i].payload) = segments[i].len
         /\ \A k \in 1 .. segments[i].len : ByPlace.segments[i].payload[k] = segments[i].at + k - 1
         /\ ByPlace.segments[i].payload # <<>> <=> segments[i].len > 0
  <2> SUFFICES ASSUME NEW i \in DOMAIN segments
               PROVE  /\ Len(ByPlace.segments[i].payload) = segments[i].len
                      /\ \A k \in 1 .. segments[i].len :
                            ByPlace.segments[i].payload[k] = segments[i].at + k - 1
                      /\ ByPlace.segments[i].payload # <<>> <=> segments[i].len > 0
    OBVIOUS
  <2> DEFINE t == [k \in 1 .. segments[i].len |-> segments[i].at + k - 1]
  <2>1. t \in Seq(Int) /\ Len(t) = segments[i].len
    BY <1>2
  <2>2. t # <<>> <=> segments[i].len > 0
    BY <1>2, <2>1, EmptySeq
  <2> QED
    BY <1>3, <2>1, <2>2
<1>6. Pipeline!WithData(ByPlace) = HasData
  BY <1>1, <1>3, <1>4, <1>5 DEF Pipeline!WithData, HasData
<1>7. HasData \subseteq DOMAIN segments /\ \A i \in HasData : segments[i].len > 0
  BY <1>1 DEF HasData
<1>8. kept = UNION {Bytes(segments[i]) : i \in HasData}
  <2>1. \A p \in kept : \E i \in HasData : p \in Bytes(segments[i])
    BY DEF TypeOK, KeptHeld
  <2>2. ASSUME NEW i \in HasData, NEW p \in Bytes(segments[i])
        PROVE  p \in kept
    <3>1. segments[i].at + segments[i].len <= SendLen /\ segments[i].at \in Nat
      BY <1>2, <1>7 DEF SegmentsTrue
    <3>2. p \in Positions
      BY <1>2, <1>7, <3>1, SendAssumption DEF Bytes, Positions
    <3> QED
      BY <2>2, <3>2 DEF KeptHeld
  <2> QED
    BY <2>1, <2>2
<1> QED
  BY <1>2, <1>3, <1>5, <1>6, <1>7, <1>8

(* Of the segments that cover a byte there is one to take it from.         *)
LEMMA FirstCovering ==
    ASSUME StreamInv, phase = "store" \/ (phase = "merge" /\ todo = {}), NEW n \in kept
    PROVE  \E i \in HasData :
              /\ Pipeline!Covers(ByPlace.segments[i], n)
              /\ \A j \in HasData : Pipeline!Covers(ByPlace.segments[j], n) =>
                    \/ ByPlace.segments[i].seq < ByPlace.segments[j].seq
                    \/ ByPlace.segments[i].seq = ByPlace.segments[j].seq /\ i <= j
<1> DEFINE S == {i \in HasData : Pipeline!Covers(ByPlace.segments[i], n)}
           f == [i \in S |-> ByPlace.segments[i].seq]
<1>1. /\ \A i \in HasData : /\ ByPlace.segments[i].seq = segments[i].at
                            /\ Len(ByPlace.segments[i].payload) = segments[i].len
                            /\ segments[i].at \in Int /\ segments[i].len \in Nat
      /\ kept = UNION {Bytes(segments[i]) : i \in HasData}
  BY PlacesCovered
<1>2. S # {}
  <2>1. PICK i \in HasData : n \in Bytes(segments[i])
    BY <1>1
  <2>2. segments[i].at <= n /\ n < segments[i].at + segments[i].len
    BY <1>1, <2>1 DEF Bytes
  <2> QED
    BY <1>1, <2>2 DEF Pipeline!Covers
<1>3. S \in SUBSET Nat
  BY DEF HasData
<1>4. \A i \in HasData : segments[i].at \in Nat
  BY PlacesCovered
<1>5. f \in [S -> Nat]
  BY <1>1, <1>4
<1>6. PICK i \in S : \A j \in S : f[i] < f[j] \/ (f[i] = f[j] /\ i <= j)
  BY <1>2, <1>3, <1>5, LeastOfLeast
<1> QED
  BY <1>6

(* LoopMatchesPipeline follows from StreamInv: of the kept bytes the lowest*)
(* is the first of out, the first that is missing is the one at Reached,   *)
(* and whichever segment the analysis takes a byte from, it is that byte.  *)
LEMMA LoopMatches == StreamInv => LoopMatchesPipeline
<1> SUFFICES ASSUME StreamInv, phase = "store" \/ (phase = "merge" /\ todo = {})
             PROVE  /\ out = Pipeline!Reassemble(ByPlace)
                    /\ Pipeline!Incomplete(ByPlace) <=> phase = "store"
  BY DEF LoopMatchesPipeline
<1> DEFINE lo == out[1]
           span(s) == s.seq .. s.seq + Len(s.payload) - 1
           held == UNION {span(ByPlace.segments[i]) : i \in Pipeline!WithData(ByPlace)}
           low  == CHOOSE n \in held : \A m \in held : n <= m
           high(l) == CHOOSE n \in {m + 1 : m \in held} : n \notin held /\ l .. n - 1 \subseteq held
<1>1. /\ out \in Seq(Positions) /\ lo \in Int /\ Reached \in Int
      /\ Len(out) \in Nat /\ lo + Len(out) = Reached /\ lo < Reached
      /\ \A k \in 1 .. Len(out) : out[k] = lo + k - 1
      /\ lo .. Reached - 1 \subseteq kept
      /\ kept \subseteq Int /\ \A p \in kept : lo <= p
      /\ Reached \notin kept /\ (incomplete <=> \E p \in kept : p > Reached)
  BY WhereItEnds
<1>2. /\ Pipeline!WithData(ByPlace) = HasData
      /\ \A i \in HasData : /\ ByPlace.segments[i].seq = segments[i].at
                            /\ Len(ByPlace.segments[i].payload) = segments[i].len
                            /\ segments[i].at \in Int /\ segments[i].len \in Nat
                            /\ segments[i].len > 0
                            /\ \A k \in 1 .. segments[i].len :
                                  ByPlace.segments[i].payload[k] = segments[i].at + k - 1
      /\ kept = UNION {Bytes(segments[i]) : i \in HasData}
  BY PlacesCovered
<1>3. held = kept
  <2>1. \A i \in HasData : span(ByPlace.segments[i]) = Bytes(segments[i])
    BY <1>2 DEF Bytes
  <2> HIDE DEF span
  <2> QED
    BY <1>2, <2>1
<1> HIDE DEF lo
<1>4. low = lo
  <2>1. lo \in held /\ \A m \in held : lo <= m
    BY <1>1, <1>3
  <2>2. \A n \in held : (\A m \in held : n <= m) => n = lo
    BY <1>1, <1>3, <2>1
  <2> HIDE DEF held
  <2> QED
    BY <2>1, <2>2
<1>5. high(lo) = Reached
  <2> DEFINE P(n) == n \notin held /\ lo .. n - 1 \subseteq held
  <2>1. Reached - 1 \in held /\ Reached - 1 + 1 = Reached
    BY <1>1, <1>3
  <2>2. Reached \in {m + 1 : m \in held} /\ P(Reached)
    BY <1>1, <1>3, <2>1
  <2>3. ASSUME NEW n \in {m + 1 : m \in held}, P(n)
        PROVE  n = Reached
    <3>1. n \in Int /\ lo < n
      BY <1>1, <1>3
    <3>2. ~(n < Reached)
      <4>1. n < Reached => n \in lo .. Reached - 1
        BY <1>1, <3>1
      <4> QED
        BY <1>1, <1>3, <2>3, <4>1
    <3>3. ~(Reached < n)
      <4>1. Reached < n => Reached \in lo .. n - 1
        BY <1>1, <3>1
      <4> QED
        BY <1>1, <1>3, <2>3, <4>1
    <3> QED
      BY <1>1, <3>1, <3>2, <3>3
  <2> HIDE DEF held
  <2> QED
    BY <2>2, <2>3
<1>6. Pipeline!Bounds(ByPlace) = <<lo, Reached>>
  BY <1>4, <1>5 DEF Pipeline!Bounds
<1> HIDE DEF held, low, high, span
<1>7. HasData # {}
  <2>1. lo \in kept
    BY <1>1
  <2> QED
    BY <1>2, <2>1
<1>8. out = Pipeline!Reassemble(ByPlace)
  <2> DEFINE d == Reached - lo
             r == [k \in 1 .. d |-> Pipeline!Unit(ByPlace, lo + k - 1)]
  <2>1. Pipeline!Reassemble(ByPlace) = r
    <3>1. <<lo, Reached>>[1] = lo /\ <<lo, Reached>>[2] = Reached
      OBVIOUS
    <3> QED
      BY <1>2, <1>6, <1>7, <3>1 DEF Pipeline!Reassemble
  <2>2. d = Len(out) /\ d \in Nat
    BY <1>1
  <2>3. ASSUME NEW k \in 1 .. d
        PROVE  Pipeline!Unit(ByPlace, lo + k - 1) = out[k]
    <3> DEFINE n == lo + k - 1
    <3>1. n \in Int /\ n \in kept /\ out[k] = n
      BY <1>1, <2>2
    <3> HIDE DEF n
    <3>2. ASSUME NEW i \in HasData, Pipeline!Covers(ByPlace.segments[i], n)
          PROVE  ByPlace.segments[i].payload[n - ByPlace.segments[i].seq + 1] = n
      <4>1. segments[i].at <= n /\ n < segments[i].at + segments[i].len
        BY <1>2, <3>2 DEF Pipeline!Covers
      <4>2. n - segments[i].at + 1 \in 1 .. segments[i].len
        BY <1>2, <3>1, <4>1
      <4> DEFINE at == n - segments[i].at + 1
      <4>3. ByPlace.segments[i].payload[at] = segments[i].at + at - 1
        BY <1>2, <4>2
      <4>4. segments[i].at + at - 1 = n /\ ByPlace.segments[i].seq = segments[i].at
        BY <1>2, <3>1
      <4> HIDE DEF at
      <4> QED
        BY <4>3, <4>4 DEF at
    <3>3. \E i \in HasData :
             /\ Pipeline!Covers(ByPlace.segments[i], n)
             /\ \A j \in HasData : Pipeline!Covers(ByPlace.segments[j], n) =>
                   \/ ByPlace.segments[i].seq < ByPlace.segments[j].seq
                   \/ ByPlace.segments[i].seq = ByPlace.segments[j].seq /\ i <= j
      BY FirstCovering, <1>2, <3>1
    <3> QED
      BY <1>2, <3>1, <3>2, <3>3 DEF Pipeline!Unit, n
  <2> HIDE DEF d
  <2>4. out = [k \in 1 .. d |-> out[k]]
    BY <1>1, <2>2
  <2> QED
    BY <2>1, <2>3, <2>4
<1>9. Pipeline!Incomplete(ByPlace) <=> phase = "store"
  <2>1. Pipeline!Incomplete(ByPlace) <=> \E i \in HasData : segments[i].at > Reached
    BY <1>2, <1>6 DEF Pipeline!Incomplete
  <2>2. incomplete <=> phase = "store"
    BY DEF StreamInv, Phases
  <2>3. (\E i \in HasData : segments[i].at > Reached) <=> \E p \in kept : p > Reached
    <3>1. ASSUME NEW i \in HasData, segments[i].at > Reached
          PROVE  segments[i].at \in kept
      BY <1>2 DEF Bytes
    <3>2. ASSUME NEW i \in HasData, NEW p \in Bytes(segments[i]), p > Reached
          PROVE  segments[i].at > Reached
      <4>1. ~(segments[i].at <= Reached)
        BY <1>1, <1>2, <3>2 DEF Bytes
      <4> QED
        BY <1>1, <1>2, <4>1
    <3> QED
      BY <1>2, <3>1, <3>2
  <2> QED
    BY <1>1, <2>1, <2>2, <2>3
<1> QED
  BY <1>8, <1>9

(* The stream that the analysis computes is the one that the loop builds,  *)
(* for any segments, numbers and order (reassembly.py 65-102).             *)
THEOREM LoopIsPipeline == Spec => []LoopMatchesPipeline
BY StreamInvariant, LoopMatches, PTL
=============================================================================
