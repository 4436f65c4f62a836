-------------------------- MODULE DirectionStream --------------------------
(***************************************************************************)
(* One direction of a TCP connection in pipeline/reassembly.py: segments   *)
(* are added in the order of the capture, which may lose, repeat, reorder, *)
(* re-cut and overlap what was sent, and are then merged once.             *)
(*                                                                         *)
(* The sender sends bytes 0 .. SendLen - 1, and a byte is its position     *)
(* here, so that a wrong position in the output is a wrong byte.  The code *)
(* sees of a segment its sequence number and its length only.              *)
(***************************************************************************)
EXTENDS Integers, Sequences, FiniteSets

CONSTANTS
    Mod,            \* MOD32, 2^32
    Isns,           \* initial sequence numbers the sender may have drawn
    SendLen,        \* bytes the sender sends
    Cap,            \* MAX_STREAM_BYTES
    MaxPackets,     \* bound: packets of this direction in the capture
    NotServed       \* _buffer is None

ASSUME ModAssumption == Mod \in Nat /\ Mod > 0 /\ Mod % 2 = 0
ASSUME IsnAssumption == Isns \subseteq 0 .. Mod - 1
(* Two bytes of one stream are less than half the sequence space apart. *)
ASSUME SendAssumption == SendLen \in Nat /\ 2 * SendLen <= Mod
ASSUME CapAssumption == Cap \in Nat /\ MaxPackets \in Nat
ASSUME NotServedAssumption == NotServed \notin Seq(0 .. SendLen - 1)

VARIABLES
    isn,            \* the sender's initial sequence number
    segments,       \* self.segments, in capture order
    total,          \* self.total_bytes
    truncated,      \* self.truncated
    incomplete,     \* self.reassembly_incomplete
    holeAt,         \* self.hole_at; 0 stands for None
    buffer,         \* self._buffer
    phase,          \* before, in, and after reassemble()
    todo,           \* indices of the sorted segments not yet looked at
    first,          \* index of segs[0] before the sort
    out,            \* the bytearray
    expected,       \* offset of the next byte
    packets,        \* packets captured so far
    seen,           \* history: bytes in any packet of the capture
    kept            \* history: bytes in the segments that were kept

result == <<incomplete, holeAt, buffer>>
merging == <<todo, first, out, expected>>
history == <<seen, kept>>
vars == <<isn, segments, total, truncated, result, phase, merging, packets, history>>

Positions == 0 .. SendLen - 1
(* at is the position of the first byte; an ACK or a SYN has no bytes.     *)
Segment == [seq : 0 .. Mod - 1, at : 0 .. SendLen, len : 0 .. SendLen, syn : BOOLEAN]
Bytes(s) == s.at .. s.at + s.len - 1

(* The sequence number of the byte at a position: the SYN takes isn. *)
SeqOf(pos) == (isn + 1 + pos) % Mod

-----------------------------------------------------------------------------
(* Mutant: seq_unwrap without the wrap-around. *)
SeqDelta(base, seq) == seq - base

SeqUnwrap(base, seq) ==
    LET delta == (seq - base) % Mod
    IN  IF delta < Mod \div 2 THEN delta ELSE delta - Mod

Init ==
    /\ isn \in Isns
    /\ segments = <<>> /\ total = 0 /\ truncated = FALSE
    /\ incomplete = FALSE /\ holeAt = 0 /\ buffer = NotServed
    /\ phase = "capture"
    /\ todo = {} /\ first = 0 /\ out = <<>> /\ expected = 0
    /\ packets = 0 /\ seen = {} /\ kept = {}

-----------------------------------------------------------------------------
(* Mutant: the cap drops the segment without a word. *)
AddSilently(s) ==
    /\ total' = total + s.len
    /\ UNCHANGED truncated
    /\ IF total + s.len > Cap
         THEN UNCHANGED <<segments, kept>>
         ELSE segments' = Append(segments, s) /\ kept' = kept \cup Bytes(s)

(* The cap counts every byte ever captured, repeated ones included, and    *)
(* once it is passed it is passed for good.                                *)
Add(s) ==
    /\ total' = total + s.len
    /\ IF total + s.len > Cap
         THEN truncated' = TRUE /\ UNCHANGED <<segments, kept>>
         ELSE /\ segments' = Append(segments, s) /\ kept' = kept \cup Bytes(s)
              /\ UNCHANGED truncated

Capture(s) ==
    /\ phase = "capture" /\ packets < MaxPackets
    /\ Add(s)
    /\ packets' = packets + 1
    /\ seen' = seen \cup Bytes(s)
    /\ UNCHANGED <<isn, result, phase, merging>>

CaptureSyn == Capture([seq |-> isn, at |-> 0, len |-> 0, syn |-> TRUE])

(* Any cut of what was sent, and acknowledgements, which have no bytes. *)
CaptureData ==
    \E at \in 0 .. SendLen : \E len \in 0 .. SendLen - at :
        Capture([seq |-> SeqOf(at), at |-> at, len |-> len, syn |-> FALSE])

-----------------------------------------------------------------------------
(* reassemble() *)

HasData == {i \in 1 .. Len(segments) : segments[i].len > 0 /\ ~segments[i].syn}

Base == segments[first].seq
Off(i) == SeqUnwrap(Base, segments[i].seq)
End(i) == Off(i) + segments[i].len

(* i may come first in the sorted list: ties are in capture order there,   *)
(* and in any order here.                                                  *)
Lowest(i) == i \in todo /\ \A j \in todo : Off(i) <= Off(j)

ReassembleNothing ==
    /\ phase = "capture" /\ HasData = {}
    /\ buffer' = <<>> /\ segments' = <<>> /\ phase' = "done"
    /\ UNCHANGED <<isn, total, truncated, incomplete, holeAt, merging, packets, history>>

Sort ==
    /\ phase = "capture"
    /\ first' \in HasData /\ \A i \in HasData : first' <= i
    /\ todo' = HasData
    /\ phase' = "first"
    /\ UNCHANGED <<isn, segments, total, truncated, result, out, expected, packets, history>>

(* `if first: expected = off`, and the rest of that iteration. *)
MergeFirst(i) ==
    /\ phase = "first" /\ Lowest(i)
    /\ out' = [k \in 1 .. segments[i].len |-> segments[i].at + k - 1]
    /\ expected' = End(i)
    /\ todo' = todo \ {i}
    /\ phase' = "merge"
    /\ UNCHANGED <<isn, segments, total, truncated, result, first, packets, history>>

Retransmitted(i) ==
    /\ phase = "merge" /\ Lowest(i)
    /\ End(i) <= expected
    /\ todo' = todo \ {i}
    /\ UNCHANGED <<isn, segments, total, truncated, result, phase, first, out, expected,
                   packets, history>>

(* Mutant: a segment is appended whole. *)
MergeWhole(i) ==
    /\ phase = "merge" /\ Lowest(i)
    /\ End(i) > expected /\ Off(i) <= expected
    /\ out' = out \o [k \in 1 .. segments[i].len |-> segments[i].at + k - 1]
    /\ expected' = End(i)
    /\ todo' = todo \ {i}
    /\ UNCHANGED <<isn, segments, total, truncated, result, phase, first, packets, history>>

Merge(i) ==
    /\ phase = "merge" /\ Lowest(i)
    /\ End(i) > expected /\ Off(i) <= expected
    /\ LET skip == expected - Off(i) IN
       out' = out \o [k \in 1 .. segments[i].len - skip |-> segments[i].at + skip + k - 1]
    /\ expected' = End(i)
    /\ todo' = todo \ {i}
    /\ UNCHANGED <<isn, segments, total, truncated, result, phase, first, packets, history>>

(* Mutant: the hole is reported where the bytes go on. *)
HoleEnd(i) ==
    /\ phase = "merge" /\ Lowest(i)
    /\ End(i) > expected /\ Off(i) > expected
    /\ incomplete' = TRUE /\ holeAt' = Off(i)
    /\ phase' = "store"
    /\ UNCHANGED <<isn, segments, total, truncated, buffer, merging, packets, history>>

Hole(i) ==
    /\ phase = "merge" /\ Lowest(i)
    /\ End(i) > expected /\ Off(i) > expected
    /\ incomplete' = TRUE /\ holeAt' = expected
    /\ phase' = "store"
    /\ UNCHANGED <<isn, segments, total, truncated, buffer, merging, packets, history>>

Store ==
    /\ phase = "store" \/ (phase = "merge" /\ todo = {})
    /\ buffer' = SubSeq(out, 1, IF Len(out) < Cap THEN Len(out) ELSE Cap)
    /\ segments' = <<>>
    /\ phase' = "done"
    /\ UNCHANGED <<isn, total, truncated, incomplete, holeAt, merging, packets, history>>

Reassemble ==
    \/ ReassembleNothing \/ Sort \/ Store
    \/ \E i \in todo : MergeFirst(i) \/ Retransmitted(i) \/ Merge(i) \/ Hole(i)

Next == CaptureSyn \/ CaptureData \/ Reassemble

Spec == Init /\ [][Next]_vars

-----------------------------------------------------------------------------
(* Once it is merged, the stream is what HonestStream says: the longest    *)
(* contiguous run of the bytes kept, each once, in order, and marked as    *)
(* incomplete exactly if some kept byte is not in it.  Neither reordering, *)
(* repetition, overlap nor the wrap-around of sequence numbers, wherever   *)
(* the sender started, shifts or joins a byte.                             *)
Honest == INSTANCE HonestStream WITH
    captured <- kept, served <- buffer, incomplete <- phase = "done" /\ incomplete
ImplementsHonest == Honest!Spec

(* "Both flags surface": a byte that was in the capture and is not served  *)
(* is covered by reassembly_incomplete or by truncated.                    *)
ShortfallFlagged ==
    phase = "done" => seen \subseteq Honest!Contents(buffer) \/ incomplete \/ truncated

-----------------------------------------------------------------------------
(* The reassembly of the analysis (FlowTable uses it), and the segments of *)
(* this direction by their places in what was sent.                        *)
Pipeline == INSTANCE Reassembly
ByPlace ==
    [segments |-> [i \in DOMAIN segments |->
        [seq |-> segments[i].at, syn |-> segments[i].syn,
         payload |-> [k \in 1 .. segments[i].len |-> segments[i].at + k - 1]]]]
(* What the loop has put together, out of segments cut and numbered in any *)
(* way, is what the analysis computes of them by their places, and so is   *)
(* the mark of a hole: what the runs show of the pipeline holds for the    *)
(* bytes and wrapping numbers of reassembly.py 65-102.                     *)
LoopMatchesPipeline ==
    phase = "store" \/ (phase = "merge" /\ todo = {}) =>
        /\ out = Pipeline!Reassemble(ByPlace)
        /\ Pipeline!Incomplete(ByPlace) <=> phase = "store"

-----------------------------------------------------------------------------
TypeOK ==
    /\ isn \in Isns /\ segments \in Seq(Segment)
    /\ total \in Nat /\ truncated \in BOOLEAN
    /\ incomplete \in BOOLEAN /\ holeAt \in Int
    /\ buffer \in Seq(Positions) \cup {NotServed}
    /\ phase \in {"capture", "first", "merge", "store", "done"}
    /\ todo \subseteq Nat /\ first \in Nat
    /\ out \in Seq(Positions) /\ expected \in Int
    /\ packets \in Nat /\ kept \subseteq seen /\ seen \subseteq Positions

(* What the segments held say about the bytes kept. *)
SegmentsTrue ==
    \A i \in HasData : /\ segments[i].seq = SeqOf(segments[i].at)
                       /\ segments[i].at + segments[i].len <= SendLen
KeptHeld ==
    phase # "done" =>
        \A p \in Positions : p \in kept <=> \E i \in HasData : p \in Bytes(segments[i])

(* What was kept fits under the cap, and nothing was dropped but by it. *)
WithinCap ==
    /\ Cardinality(kept) <= Cap
    /\ IF truncated THEN total > Cap ELSE Cardinality(kept) <= total /\ seen = kept

(* The position of the next byte, and what out is at any time.            *)
Reached == segments[first].at + expected
OutIsRun ==
    /\ out # <<>> /\ Honest!Ascending(out) /\ out[1] + Len(out) = Reached
    /\ Honest!Contents(out) \subseteq kept
    /\ \A i \in HasData : out[1] <= segments[i].at
    /\ \A i \in HasData \ todo : segments[i].at + segments[i].len <= Reached

Phases ==
    /\ phase = "capture" => out = <<>>
    /\ phase \in {"first", "merge", "store"} => first \in HasData /\ todo \subseteq HasData
    /\ phase = "first" => todo = HasData /\ out = <<>>
    /\ phase \in {"merge", "store"} => OutIsRun
    /\ phase = "store" => /\ incomplete /\ holeAt = expected
                         /\ Reached \notin kept /\ \E p \in kept : p > Reached
    /\ phase = "done" \/ buffer = NotServed
    /\ phase \in {"store", "done"} \/ ~incomplete

Served ==
    phase = "done" =>
        /\ buffer \in Seq(kept) /\ Honest!Ascending(buffer)
        /\ Honest!Contents(buffer) = Honest!Run(kept)
        /\ incomplete <=> Honest!Run(kept) # kept

(* The inductive invariant. *)
StreamInv == TypeOK /\ SegmentsTrue /\ KeptHeld /\ WithinCap /\ Phases /\ Served
=============================================================================
