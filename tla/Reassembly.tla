----------------------------- MODULE Reassembly -----------------------------
(***************************************************************************)
(* DirectionStream.reassemble in pipeline/reassembly.py as a function of   *)
(* the segments of a direction: the run from the lowest unit kept.  The    *)
(* module DirectionStream has its loop, and the sequence numbers that      *)
(* wrap; here they are places in what was sent.                            *)
(***************************************************************************)
EXTENDS Integers, Sequences

(* The places of the segments that count. *)
WithData(d) == {i \in DOMAIN d.segments : d.segments[i].payload # <<>> /\ ~d.segments[i].syn}
Covers(s, n) == s.seq <= n /\ n < s.seq + Len(s.payload)

(* First sequence number of the stream and of what does not belong to it.  *)
Bounds(d) ==
    LET span(s) == s.seq .. s.seq + Len(s.payload) - 1
        held == UNION {span(d.segments[i]) : i \in WithData(d)}
        lo   == CHOOSE n \in held : \A m \in held : n <= m
        hi   == CHOOSE n \in {m + 1 : m \in held} : n \notin held /\ lo .. n - 1 \subseteq held
    IN  <<lo, hi>>

(* Of two segments for one unit the lower, then the earlier, is used.      *)
Unit(d, n) ==
    LET segs == d.segments
        i == CHOOSE i \in WithData(d) :
                 /\ Covers(segs[i], n)
                 /\ \A j \in WithData(d) : Covers(segs[j], n) =>
                        \/ segs[i].seq < segs[j].seq
                        \/ segs[i].seq = segs[j].seq /\ i <= j
    IN  segs[i].payload[n - segs[i].seq + 1]

Reassemble(d) ==
    LET b == Bounds(d)
    IN  IF WithData(d) = {} THEN <<>> ELSE [k \in 1 .. b[2] - b[1] |-> Unit(d, b[1] + k - 1)]

Incomplete(d) == \E i \in WithData(d) : d.segments[i].seq > Bounds(d)[2]
=============================================================================
