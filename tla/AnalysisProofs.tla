----------------------------- MODULE AnalysisProofs -----------------------------
(* Proofs about the analysis. *)
EXTENDS AnalysisProperties, SequenceTheorems, SumProofs

(* FrameNo is not among the keys yet.                                      *)
LEMMA OneMoreKey ==
    ASSUME NEW S, NEW k, k \notin S
    PROVE  SetDefault([x \in S |-> x], k, k) = [x \in S \cup {k} |-> x]
BY DEF SetDefault

(* ToSet of Append. *)
LEMMA Appended ==
    ASSUME NEW S, NEW s \in Seq(S), NEW e
    PROVE  /\ Append(s, e) \in Seq(S \cup {e})
           /\ ToSet(Append(s, e)) = ToSet(s) \cup {e}
           /\ Len(Append(s, e)) = Len(s) + 1
<1>1. s \in Seq(S \cup {e}) /\ e \in S \cup {e}
  BY SeqMonotonic
<1>2. /\ Append(s, e) \in Seq(S \cup {e}) /\ Len(Append(s, e)) = Len(s) + 1
      /\ \A i \in 1 .. Len(s) : Append(s, e)[i] = s[i]
      /\ Append(s, e)[Len(s) + 1] = e
  BY <1>1, AppendProperties
<1>3. Len(s) \in Nat /\ DOMAIN s = 1 .. Len(s) /\ DOMAIN Append(s, e) = 1 .. Len(s) + 1
  BY <1>1, <1>2, LenProperties
<1> QED
  BY <1>2, <1>3 DEF ToSet

-----------------------------------------------------------------------------
(* The numbers that count frames are natural numbers.                      *)
LEMMA Counted ==
    ASSUME FlowInv
    PROVE  /\ Len(capture.frames) \in Nat /\ Len(Frames) \in 0 .. Len(capture.frames)
           /\ read \in Nat /\ count \in Nat /\ count <= read /\ read <= Len(capture.frames)
           /\ Len(flows) \in Nat /\ DOMAIN flows = 1 .. Len(flows)
           /\ \A i \in DOMAIN flows : flows[i] \in ToSet(flows)
<1>1. Len(capture.frames) \in Nat
  BY DEF FlowInv
<1>2. Len(Frames) \in 0 .. Len(capture.frames)
  BY <1>1, EmptySeq DEF Frames
<1>3. read \in 0 .. Len(capture.frames) /\ count \in 0 .. read
  BY DEF FlowInv, FlowTypeOK
<1>4. flows \in Seq(ToSet(flows))
  BY DEF FlowInv
<1>5. Len(flows) \in Nat /\ DOMAIN flows = 1 .. Len(flows)
  BY <1>4, LenProperties
<1> QED
  BY <1>1, <1>2, <1>3, <1>5 DEF ToSet

(* The file does not change while it is read.                              *)
LEMMA SameFile ==
    ASSUME capture' = capture
    PROVE  /\ Frames' = Frames
           /\ \A k : PacketOf(Frames[k])' = PacketOf(Frames[k])
           /\ \A k : IsTcp(Frames[k])' <=> IsTcp(Frames[k])
           /\ TcpRead' = {k \in 1 .. read' : IsTcp(Frames[k])}
BY DEF Frames, PacketOf, IsTcp, TcpRead, Handled, Understood

(* The frames of a flow, by the packets of the file.                       *)
Own(K, f) == {k \in K : KeyOf(PacketOf(Frames[k])) = KeyOf(f)}
Forth(K, f) == {SegmentOf(k) : k \in {k \in Own(K, f) : PacketOf(Frames[k]).src = f.src}}
Back(K, f) == {SegmentOf(k) : k \in {k \in Own(K, f) : PacketOf(Frames[k]).src # f.src}}

(* What the two directions of a flow are to hold, before and after a step. *)
LEMMA OwnSegments ==
    ASSUME NEW i
    PROVE  /\ SegmentsOf(FromSrc(flows[i])) = Forth(TcpRead, flows[i])
           /\ SegmentsOf(FromDst(flows[i])) = Back(TcpRead, flows[i])
BY DEF SegmentsOf, FromSrc, FromDst, InFlow, Forth, Back, Own

(* While the capture stays the same, the segments of a flow's two streams  *)
(* in the next state are those of the frames TcpRead' names.               *)
LEMMA OwnSegmentsThen ==
    ASSUME capture' = capture, NEW i
    PROVE  /\ SegmentsOf(FromSrc(flows[i]))' = Forth(TcpRead', flows'[i])
           /\ SegmentsOf(FromDst(flows[i]))' = Back(TcpRead', flows'[i])
<1>1. \A k : SegmentOf(k)' = SegmentOf(k)
  BY SameFile DEF SegmentOf
<1>2. \A k : PacketOf(Frames[k])' = PacketOf(Frames[k])
  BY SameFile
<1>3. InFlow(flows[i])' = Own(TcpRead', flows'[i])
  BY <1>2 DEF InFlow, Own, KeyOf
<1>4. FromSrc(flows[i])' = {k \in Own(TcpRead', flows'[i]) : PacketOf(Frames[k]).src = flows'[i].src}
  BY <1>2, <1>3 DEF FromSrc
<1>5. FromDst(flows[i])' = {k \in Own(TcpRead', flows'[i]) : PacketOf(Frames[k]).src # flows'[i].src}
  BY <1>3, <1>4 DEF FromDst
<1> QED
  BY <1>1, <1>4, <1>5 DEF SegmentsOf, Forth, Back

-----------------------------------------------------------------------------
(* DirectionStream.add keeps the segment, or marks the direction.          *)
LEMMA SegmentAdded ==
    ASSUME NEW d, NEW segs, Keeps(d, segs), NEW seg, NEW ts
    PROVE  Keeps(AddSegment(d, seg, ts), segs \cup {seg})
<1> DEFINE over == d.total + Len(seg.payload) > MaxStreamBytes
           new  == AddSegment(d, seg, ts)
<1>1. /\ new.segments = IF over THEN d.segments ELSE Append(d.segments, seg)
      /\ new.truncated = (d.truncated \/ over)
  BY DEF AddSegment
<1>2. d.segments \in Seq(segs) /\ d.truncated \in BOOLEAN
      /\ (d.truncated \/ segs \subseteq ToSet(d.segments))
  BY DEF Keeps
<1>3. /\ Append(d.segments, seg) \in Seq(segs \cup {seg})
      /\ ToSet(Append(d.segments, seg)) = ToSet(d.segments) \cup {seg}
  BY <1>2, Appended
<1>4. d.segments \in Seq(segs \cup {seg})
  BY <1>2, SeqMonotonic
<1> HIDE DEF new
<1>5. CASE over
  <2>1. new.segments = d.segments /\ new.truncated = TRUE
    BY <1>1, <1>5
  <2> QED
    BY <1>4, <2>1 DEF Keeps, new
<1>6. CASE ~over
  <2>1. new.segments = Append(d.segments, seg) /\ new.truncated = d.truncated
    BY <1>1, <1>2, <1>6
  <2> QED
    BY <1>2, <1>3, <2>1 DEF Keeps, new
<1> QED
  BY <1>5, <1>6

(* FlowTable.add_packet puts the segment into one direction.               *)
FlowFields == {"src", "dst", "c2s", "s2c", "start", "saw_syn_from_src", "saw_synack_from_dst"}

(* AddPacket puts the segment on the stream of the packet's own direction  *)
(* and leaves the other stream and the flow's ends alone (reassembly.py,   *)
(* add).                                                                   *)
LEMMA PacketAdded ==
    ASSUME NEW flow, DOMAIN flow = FlowFields, NEW p, NEW ts, NEW k, NEW seg,
           seg = [seq |-> p.seq, payload |-> p.payload, syn |-> p.syn /\ ~p.ack, frame |-> k],
           NEW new, new = AddPacket(flow, p, ts, k)
    PROVE  /\ DOMAIN new = FlowFields /\ new.src = flow.src /\ new.dst = flow.dst
           /\ new.c2s = IF p.src = flow.src THEN AddSegment(flow.c2s, seg, ts) ELSE flow.c2s
           /\ new.s2c = IF p.src = flow.src THEN flow.s2c ELSE AddSegment(flow.s2c, seg, ts)
BY DEF AddPacket, FlowFields

(* A stream without segments keeps all of none.                            *)
LEMMA NothingKept == Keeps(NoStream, {})
BY EmptySeq DEF Keeps, NoStream, ToSet

(* A flow that has just been opened: the packet's ends, two empty          *)
(* streams.                                                                *)
LEMMA Opened ==
    ASSUME NEW p
    PROVE  /\ DOMAIN NewFlow(p) = FlowFields /\ KeyOf(NewFlow(p)) = KeyOf(p)
           /\ NewFlow(p).c2s = NoStream /\ NewFlow(p).s2c = NoStream
           /\ NewFlow(p).src = p.src
BY DEF NewFlow, FlowFields, KeyOf

(* What FlowInv says of one flow, for the frames read so far.              *)
FlowKept(K, f) == DOMAIN f = FlowFields /\ Keeps(f.c2s, Forth(K, f)) /\ Keeps(f.s2c, Back(K, f))

(* What FlowInv says of one flow, as FlowKept.                             *)
LEMMA FlowsAreKept ==
    ASSUME FlowInv, NEW i \in DOMAIN flows
    PROVE  FlowKept(TcpRead, flows[i])
BY OwnSegments DEF FlowInv, FlowKept, NewFlow, FlowFields

(* The packet goes into the flow of its addresses ...                      *)
LEMMA PacketKept ==
    ASSUME NEW K, NEW f, FlowKept(K, f), NEW k, k \notin K, NEW ts, NEW g,
           KeyOf(PacketOf(Frames[k])) = KeyOf(f), g = AddPacket(f, PacketOf(Frames[k]), ts, k)
    PROVE  FlowKept(K \cup {k}, g) /\ KeyOf(g) = KeyOf(f)
<1> DEFINE p == PacketOf(Frames[k])
<1>1. /\ DOMAIN g = FlowFields /\ g.src = f.src /\ g.dst = f.dst
      /\ g.c2s = IF p.src = f.src THEN AddSegment(f.c2s, SegmentOf(k), ts) ELSE f.c2s
      /\ g.s2c = IF p.src = f.src THEN f.s2c ELSE AddSegment(f.s2c, SegmentOf(k), ts)
  BY PacketAdded DEF FlowKept, SegmentOf
<1>2. KeyOf(g) = KeyOf(f)
  BY <1>1 DEF KeyOf
<1>3. Own(K \cup {k}, g) = Own(K, f) \cup {k}
  BY <1>2 DEF Own
<1>4. CASE p.src = f.src
  <2>1. Forth(K \cup {k}, g) = Forth(K, f) \cup {SegmentOf(k)} /\ Back(K \cup {k}, g) = Back(K, f)
    BY <1>1, <1>3, <1>4 DEF Forth, Back
  <2>2. Keeps(g.c2s, Forth(K \cup {k}, g))
    <3>1. Keeps(f.c2s, Forth(K, f))
      BY DEF FlowKept
    <3>2. Keeps(AddSegment(f.c2s, SegmentOf(k), ts), Forth(K, f) \cup {SegmentOf(k)})
      BY <3>1, SegmentAdded
    <3> QED
      BY <1>1, <1>4, <2>1, <3>2
  <2> QED
    BY <1>1, <1>2, <1>4, <2>1, <2>2 DEF FlowKept
<1>5. CASE p.src # f.src
  <2>1. Back(K \cup {k}, g) = Back(K, f) \cup {SegmentOf(k)} /\ Forth(K \cup {k}, g) = Forth(K, f)
    BY <1>1, <1>3, <1>5 DEF Forth, Back
  <2>2. Keeps(g.s2c, Back(K \cup {k}, g))
    <3>1. Keeps(f.s2c, Back(K, f))
      BY DEF FlowKept
    <3>2. Keeps(AddSegment(f.s2c, SegmentOf(k), ts), Back(K, f) \cup {SegmentOf(k)})
      BY <3>1, SegmentAdded
    <3> QED
      BY <1>1, <1>5, <2>1, <3>2
  <2> QED
    BY <1>1, <1>2, <1>5, <2>1, <2>2 DEF FlowKept
<1> QED
  BY <1>4, <1>5

(* ... and into no other.                                                  *)
LEMMA OthersKept ==
    ASSUME NEW K, NEW f, FlowKept(K, f), NEW k, KeyOf(PacketOf(Frames[k])) # KeyOf(f)
    PROVE  FlowKept(K \cup {k}, f)
<1>1. Own(K \cup {k}, f) = Own(K, f)
  BY DEF Own
<1> QED
  BY <1>1 DEF FlowKept, Forth, Back

(* A flow that is opened has no earlier frames.                            *)
LEMMA NewKept ==
    ASSUME NEW K, NEW p, \A k \in K : KeyOf(PacketOf(Frames[k])) # KeyOf(p)
    PROVE  FlowKept(K, NewFlow(p))
<1>1. Own(K, NewFlow(p)) = {}
  BY Opened DEF Own
<1>2. Forth(K, NewFlow(p)) = {} /\ Back(K, NewFlow(p)) = {}
  BY <1>1 DEF Forth, Back
<1> QED
  BY <1>2, Opened, NothingKept DEF FlowKept

-----------------------------------------------------------------------------
(* A sequence over S is one over the elements it holds.                    *)
LEMMA SeqOfItsOwn ==
    ASSUME NEW S, NEW s \in Seq(S)
    PROVE  s \in Seq(ToSet(s))
BY SeqOfRange DEF Range, ToSet

(* The flows by their addresses, before and after a step.                  *)
Unhoused(K, table) ==
    {k \in K : \A i \in DOMAIN table : KeyOf(table[i]) # KeyOf(PacketOf(Frames[k]))}

(* Homeless, the packets that no flow of the table holds, as a function    *)
(* of what was read and of the table, in this state and in the next.       *)
LEMMA Housed ==
    /\ Homeless = Unhoused(TcpRead, flows)
    /\ capture' = capture => Homeless' = Unhoused(TcpRead', flows')
<1>1. Homeless = Unhoused(TcpRead, flows)
  BY DEF Homeless, FlowsOf, Unhoused
<1>2. ASSUME capture' = capture
      PROVE  Homeless' = Unhoused(TcpRead', flows')
  <2>1. \A k : PacketOf(Frames[k])' = PacketOf(Frames[k])
    BY <1>2, SameFile
  <2>2. \A k : FlowsOf(PacketOf(Frames[k]))'
                  = {i \in DOMAIN flows' : KeyOf(flows'[i]) = KeyOf(PacketOf(Frames[k]))}
    BY <2>1 DEF FlowsOf, KeyOf
  <2> QED
    BY <2>2 DEF Homeless, Unhoused
<1> QED
  BY <1>1, <1>2

(* What FlowInv says apart from the flows themselves.                      *)
CountsKept ==
    /\ Len(capture.frames) \in Nat /\ read \in 0 .. Len(capture.frames) /\ count \in 0 .. read
    /\ count = Cardinality(TcpRead) /\ frame_offsets = [k \in TcpRead |-> k]

(* After a packet is read the counters still fit the capture, and TcpRead  *)
(* has grown by the frame that was read.                                   *)
LEMMA CountedThen ==
    ASSUME FlowInv, AtPacket, Consumed
    PROVE  /\ CountsKept' /\ capture' = capture
           /\ TcpRead' = TcpRead \cup {read + 1} /\ read + 1 \notin TcpRead
           /\ ThePacket = PacketOf(Frames[read + 1]) /\ FrameNo = read + 1
<1>1. capture' = capture /\ read' = read + 1 /\ count' = count + 1
      /\ frame_offsets' = SetDefault(frame_offsets, read + 1, read + 1)
  BY DEF Consumed, FrameNo
<1>2. read \in Nat /\ count \in Nat /\ count <= read /\ Len(capture.frames) \in Nat
      /\ Len(Frames) \in 0 .. Len(capture.frames)
  BY Counted
<1>3. read < Len(Frames) /\ IsTcp(Frames[read + 1])
  BY DEF AtPacket, AtFrame, NextFrame
<1>4. TcpRead' = {k \in 1 .. read + 1 : IsTcp(Frames[k])}
  BY <1>1, SameFile
<1>5. TcpRead' = TcpRead \cup {read + 1} /\ read + 1 \notin TcpRead
  BY <1>2, <1>3, <1>4 DEF TcpRead
<1>6. IsFiniteSet(TcpRead)
  <2>1. IsFiniteSet(1 .. read)
    BY <1>2, FS_Interval
  <2>2. TcpRead \subseteq 1 .. read
    BY DEF TcpRead
  <2> QED
    BY <2>1, <2>2, FS_Subset
<1>7. count' = Cardinality(TcpRead')
  BY <1>1, <1>5, <1>6, FS_AddElement DEF FlowInv
<1>8. frame_offsets' = [k \in TcpRead' |-> k]
  BY <1>1, <1>5, OneMoreKey DEF FlowInv
<1>9. Len(capture'.frames) \in Nat /\ read' \in 0 .. Len(capture'.frames) /\ count' \in 0 .. read'
  BY <1>1, <1>2, <1>3 DEF FlowInv
<1> QED
  BY <1>1, <1>5, <1>7, <1>8, <1>9 DEF CountsKept, ThePacket, NextFrame, FrameNo

(* FlowInv, put together from what is said of a step.                      *)
TableKept ==
    /\ flows \in Seq(ToSet(flows)) /\ Len(flows) <= MaxFlows
    /\ overflowed \in 0 .. count /\ overflowed = Cardinality(Homeless)
    /\ Homeless # {} => Len(flows) >= MaxFlows
    /\ \A i, j \in DOMAIN flows : KeyOf(flows[i]) = KeyOf(flows[j]) => i = j

(* FlowInv of the next state, put together from its parts.                 *)
LEMMA Together ==
    ASSUME CountsKept', TableKept', capture' = capture,
           \A i \in DOMAIN flows' : FlowKept(TcpRead', flows'[i])
    PROVE  FlowInv'
<1>1. \A i \in DOMAIN flows' :
          /\ DOMAIN flows'[i] = DOMAIN NewFlow(flows'[i])
          /\ Keeps(flows'[i].c2s, SegmentsOf(FromSrc(flows[i]))')
          /\ Keeps(flows'[i].s2c, SegmentsOf(FromDst(flows[i]))')
  BY OwnSegmentsThen, Opened DEF FlowKept
<1> QED
  BY <1>1 DEF FlowInv, FlowTypeOK, CountsKept, TableKept, Keeps, NewFlow

-----------------------------------------------------------------------------
(* One lemma for each way to take the next packet.                         *)
LEMMA KnownFlowKeeps ==
    ASSUME FlowInv, KnownFlow
    PROVE  FlowInv'
<1> DEFINE k == read + 1
           p == PacketOf(Frames[k])
<1>1. AtPacket /\ Consumed /\ overflowed' = overflowed
  BY DEF KnownFlow
<1>2. /\ CountsKept' /\ capture' = capture
      /\ TcpRead' = TcpRead \cup {k} /\ k \notin TcpRead /\ ThePacket = p /\ FrameNo = k
  BY <1>1, CountedThen
<1>3. PICK i \in FlowsOf(p) : flows' = [flows EXCEPT ![i] = AddPacket(@, p, NextFrame.ts, k)]
  BY <1>2 DEF KnownFlow
<1> DEFINE g == AddPacket(flows[i], p, NextFrame.ts, k)
<1>4. i \in DOMAIN flows /\ KeyOf(flows[i]) = KeyOf(p)
  BY DEF FlowsOf
<1>5. FlowKept(TcpRead', g) /\ KeyOf(g) = KeyOf(flows[i])
  BY <1>2, <1>4, FlowsAreKept, PacketKept
<1>6. /\ DOMAIN flows' = DOMAIN flows /\ flows'[i] = g
      /\ \A j \in DOMAIN flows : j # i => flows'[j] = flows[j]
  BY <1>3, <1>4
<1> HIDE DEF g, p, k
<1>7. \A j \in DOMAIN flows : KeyOf(flows'[j]) = KeyOf(flows[j])
  BY <1>4, <1>5, <1>6
<1>8. \A j \in DOMAIN flows' : FlowKept(TcpRead', flows'[j])
  <2> SUFFICES ASSUME NEW j \in DOMAIN flows, j # i
               PROVE  FlowKept(TcpRead', flows[j])
    BY <1>5, <1>6
  <2>1. KeyOf(p) # KeyOf(flows[j])
    BY <1>4 DEF FlowInv, FlowTypeOK
  <2> QED
    BY <1>2, <2>1, FlowsAreKept, OthersKept DEF p
<1>9. flows' \in Seq(ToSet(flows')) /\ Len(flows') = Len(flows)
  <2>1. flows \in Seq(ToSet(flows) \cup {g}) /\ i \in 1 .. Len(flows)
    BY <1>4, Counted, SeqMonotonic DEF FlowInv
  <2>2. flows' = [flows EXCEPT ![i] = g]
    BY <1>3, <1>6 DEF g
  <2>3. flows' \in Seq(ToSet(flows) \cup {g}) /\ Len(flows') = Len(flows)
    BY <2>1, <2>2, ExceptSeq
  <2> QED
    BY <2>3, SeqOfItsOwn
<1>10. Homeless' = Homeless
  <2>1. \A n : (\A j \in DOMAIN flows' : KeyOf(flows'[j]) # KeyOf(PacketOf(Frames[n])))
               <=> (\A j \in DOMAIN flows : KeyOf(flows[j]) # KeyOf(PacketOf(Frames[n])))
    BY <1>6, <1>7
  <2>2. Unhoused(TcpRead', flows') = Unhoused(TcpRead, flows)
    BY <1>2, <1>4, <2>1 DEF Unhoused, p
  <2> QED
    BY <1>2, <2>2, Housed
<1>11. TableKept'
  <2>1. overflowed' \in 0 .. count'
    BY <1>1, Counted DEF Consumed, FlowInv, FlowTypeOK
  <2>2. overflowed' = Cardinality(Homeless')
    BY <1>1, <1>10 DEF FlowInv
  <2>3. Homeless' # {} => Len(flows') >= MaxFlows
    BY <1>9, <1>10 DEF FlowInv
  <2>4. \A a, b \in DOMAIN flows' : KeyOf(flows'[a]) = KeyOf(flows'[b]) => a = b
    BY <1>6, <1>7 DEF FlowInv, FlowTypeOK
  <2>5. Len(flows') <= MaxFlows
    BY <1>9 DEF FlowInv, FlowTypeOK
  <2> QED
    BY <1>9, <2>1, <2>2, <2>3, <2>4, <2>5 DEF TableKept, KeyOf
<1> QED
  BY <1>2, <1>8, <1>11, Together

(* The first packet of a pair of ends opens a flow with that packet        *)
(* alone.                                                                  *)
LEMMA OpenFlowKeeps ==
    ASSUME FlowInv, OpenFlow
    PROVE  FlowInv'
<1> DEFINE k == read + 1
           p == PacketOf(Frames[k])
           g == AddPacket(NewFlow(p), p, NextFrame.ts, k)
           n == Len(flows)
<1>1. AtPacket /\ Consumed /\ overflowed' = overflowed
  BY DEF OpenFlow
<1>2. /\ CountsKept' /\ capture' = capture
      /\ TcpRead' = TcpRead \cup {k} /\ k \notin TcpRead /\ ThePacket = p /\ FrameNo = k
  BY <1>1, CountedThen
<1>3. /\ flows' = Append(flows, g) /\ Len(flows) < MaxFlows
      /\ \A j \in DOMAIN flows : KeyOf(flows[j]) # KeyOf(p)
  BY <1>2 DEF OpenFlow, FlowsOf
<1>4. n \in Nat /\ DOMAIN flows = 1 .. n
  BY Counted
<1>5. Homeless = {}
  BY <1>3, <1>4, FlowTableAssumption DEF FlowInv
<1>6. \A m \in TcpRead : \E j \in DOMAIN flows : KeyOf(flows[j]) = KeyOf(PacketOf(Frames[m]))
  BY <1>5, Housed DEF Unhoused
<1>7. FlowKept(TcpRead, NewFlow(p)) /\ KeyOf(NewFlow(p)) = KeyOf(p)
  BY <1>3, <1>6, NewKept, Opened
<1>8. FlowKept(TcpRead', g) /\ KeyOf(g) = KeyOf(p)
  BY <1>2, <1>7, PacketKept
<1>9. /\ flows' \in Seq(ToSet(flows) \cup {g}) /\ Len(flows') = n + 1
      /\ \A j \in 1 .. n : flows'[j] = flows[j]
      /\ flows'[n + 1] = g
  <2>1. flows \in Seq(ToSet(flows) \cup {g}) /\ g \in ToSet(flows) \cup {g}
    BY SeqMonotonic DEF FlowInv
  <2> QED
    BY <1>3, <2>1, AppendProperties
<1>10. flows' \in Seq(ToSet(flows')) /\ DOMAIN flows' = 1 .. n + 1
  BY <1>4, <1>9, SeqOfItsOwn, LenProperties
<1> HIDE DEF g, p, k, n
<1>11. \A j \in 1 .. n : KeyOf(flows'[j]) = KeyOf(flows[j]) /\ KeyOf(flows'[j]) # KeyOf(p)
  BY <1>3, <1>4, <1>9
<1>12. \A j \in DOMAIN flows' : FlowKept(TcpRead', flows'[j])
  <2> SUFFICES ASSUME NEW j \in 1 .. n
               PROVE  FlowKept(TcpRead', flows[j])
    BY <1>4, <1>8, <1>9, <1>10
  <2> QED
    BY <1>2, <1>3, <1>4, FlowsAreKept, OthersKept DEF p
<1>13. Homeless' = {}
  <2>1. \A m \in TcpRead' : \E j \in DOMAIN flows' : KeyOf(flows'[j]) = KeyOf(PacketOf(Frames[m]))
    <3>1. \A m \in TcpRead : \E j \in 1 .. n : KeyOf(flows'[j]) = KeyOf(PacketOf(Frames[m]))
      BY <1>4, <1>6, <1>11
    <3>2. KeyOf(flows'[n + 1]) = KeyOf(PacketOf(Frames[k]))
      BY <1>8, <1>9 DEF p
    <3> QED
      BY <1>2, <1>4, <1>10, <3>1, <3>2
  <2> QED
    BY <1>2, <2>1, Housed DEF Unhoused
<1>14. TableKept'
  <2>1. overflowed' \in 0 .. count'
    BY <1>1, Counted DEF Consumed, FlowInv, FlowTypeOK
  <2>2. overflowed' = Cardinality(Homeless')
    BY <1>1, <1>5, <1>13 DEF FlowInv
  <2>3. \A a, b \in DOMAIN flows' : KeyOf(flows'[a]) = KeyOf(flows'[b]) => a = b
    <3>1. \A a, b \in 1 .. n : KeyOf(flows[a]) = KeyOf(flows[b]) => a = b
      BY <1>4 DEF FlowInv, FlowTypeOK
    <3>2. KeyOf(flows'[n + 1]) = KeyOf(p)
      BY <1>8, <1>9
    <3>3. \A a \in 1 .. n + 1 : a \in 1 .. n \/ a = n + 1
      BY <1>4
    <3> QED
      BY <1>10, <1>11, <3>1, <3>2, <3>3
  <2>4. Len(flows') <= MaxFlows
    BY <1>3, <1>4, <1>9, FlowTableAssumption DEF n
  <2> QED
    BY <1>10, <1>13, <2>1, <2>2, <2>3, <2>4 DEF TableKept, KeyOf
<1> QED
  BY <1>2, <1>12, <1>14, Together

(* A packet of a new pair when the table is full takes part in no flow.    *)
LEMMA OverflowKeeps ==
    ASSUME FlowInv, Overflow
    PROVE  FlowInv'
<1> DEFINE k == read + 1
           p == PacketOf(Frames[k])
<1>1. AtPacket /\ Consumed /\ overflowed' = overflowed + 1 /\ flows' = flows
  BY DEF Overflow
<1>2. /\ CountsKept' /\ capture' = capture
      /\ TcpRead' = TcpRead \cup {k} /\ k \notin TcpRead /\ ThePacket = p /\ FrameNo = k
  BY <1>1, CountedThen
<1>3. Len(flows) >= MaxFlows /\ \A j \in DOMAIN flows : KeyOf(flows[j]) # KeyOf(p)
  BY <1>2 DEF Overflow, FlowsOf
<1>4. \A j \in DOMAIN flows' : FlowKept(TcpRead', flows'[j])
  BY <1>1, <1>2, <1>3, FlowsAreKept, OthersKept
<1>5. Homeless' = Homeless \cup {k} /\ k \notin Homeless
  <2>1. Unhoused(TcpRead', flows') = Unhoused(TcpRead, flows) \cup {k}
    BY <1>1, <1>2, <1>3 DEF Unhoused
  <2>2. Homeless \subseteq TcpRead
    BY DEF Homeless
  <2> QED
    BY <1>2, <2>1, <2>2, Housed
<1>6. IsFiniteSet(Homeless)
  <2>1. IsFiniteSet(1 .. read)
    BY Counted, FS_Interval
  <2>2. Homeless \subseteq 1 .. read
    BY DEF Homeless, TcpRead
  <2> QED
    BY <2>1, <2>2, FS_Subset
<1>7. overflowed' = Cardinality(Homeless')
  BY <1>1, <1>5, <1>6, FS_AddElement DEF FlowInv
<1>8. overflowed' \in 0 .. count'
  BY <1>1, Counted DEF Consumed, FlowInv, FlowTypeOK
<1>9. TableKept'
  BY <1>1, <1>3, <1>7, <1>8 DEF TableKept, FlowInv, FlowTypeOK, KeyOf
<1> QED
  BY <1>2, <1>4, <1>9, Together

(* A frame without a TCP packet changes no flow.                           *)
LEMMA SkipFrameKeeps ==
    ASSUME FlowInv, SkipFrame
    PROVE  FlowInv'
<1>1. /\ AtFrame /\ ~IsTcp(NextFrame) /\ read' = read + 1 /\ capture' = capture /\ count' = count
      /\ flows' = flows /\ overflowed' = overflowed /\ frame_offsets' = frame_offsets
  BY DEF SkipFrame
<1>2. read < Len(Frames) /\ ~IsTcp(Frames[read + 1])
  BY <1>1 DEF AtFrame, NextFrame
<1>3. TcpRead' = TcpRead
  <2>1. TcpRead' = {k \in 1 .. read + 1 : IsTcp(Frames[k])}
    BY <1>1, SameFile
  <2>2. \A k : k \in 1 .. read + 1 <=> k \in 1 .. read \/ k = read + 1
    BY Counted
  <2> QED
    BY <1>2, <2>1, <2>2 DEF TcpRead
<1>4. Homeless' = Homeless
  BY <1>1, <1>3, Housed DEF Unhoused
<1>5. CountsKept'
  BY <1>1, <1>2, <1>3, Counted DEF CountsKept, FlowInv, FlowTypeOK
<1>6. TableKept'
  BY <1>1, <1>4 DEF TableKept, FlowInv, FlowTypeOK, KeyOf
<1>7. \A i \in DOMAIN flows' : FlowKept(TcpRead', flows'[i])
  BY <1>1, <1>3, FlowsAreKept
<1> QED
  BY <1>1, <1>5, <1>6, <1>7, Together

(* Steps that leave the flow table alone leave its invariant alone.        *)
LEMMA TableUntouched ==
    ASSUME FlowInv, UNCHANGED flowVars
    PROVE  FlowInv' /\ TcpRead' = TcpRead
<1>1. /\ read' = read /\ capture' = capture /\ count' = count
      /\ flows' = flows /\ overflowed' = overflowed /\ frame_offsets' = frame_offsets
  BY DEF flowVars
<1>2. TcpRead' = TcpRead
  BY <1>1, SameFile DEF TcpRead
<1>3. Homeless' = Homeless
  BY <1>1, <1>2, Housed
<1>4. CountsKept'
  BY <1>1, <1>2 DEF CountsKept, FlowInv, FlowTypeOK
<1>5. TableKept'
  BY <1>1, <1>3 DEF TableKept, FlowInv, FlowTypeOK, KeyOf
<1>6. \A i \in DOMAIN flows' : FlowKept(TcpRead', flows'[i])
  BY <1>1, <1>2, FlowsAreKept
<1> QED
  BY <1>1, <1>2, <1>4, <1>5, <1>6, Together

-----------------------------------------------------------------------------
(* Before the first frame nothing is held.                                 *)
LEMMA FlowInit_ ==
    ASSUME FlowInit
    PROVE  FlowInv
<1>1. capture \in Captures /\ read = 0 /\ count = 0 /\ flows = <<>> /\ overflowed = 0
      /\ frame_offsets = <<>>
  BY DEF FlowInit
<1>2. Len(capture.frames) \in Nat
  BY <1>1, CapturesAssumption
<1>3. TcpRead = {} /\ Homeless = {}
  BY <1>1 DEF TcpRead, Homeless
<1>4. flows \in Seq(ToSet(flows)) /\ Len(flows) = 0 /\ DOMAIN flows = {}
  BY <1>1, EmptySeq
<1>5. frame_offsets = [k \in TcpRead |-> k]
  BY <1>1, <1>3
<1>6. FlowTypeOK
  BY <1>1, <1>2, <1>4, FlowTableAssumption DEF FlowTypeOK
<1> QED
  BY <1>1, <1>3, <1>4, <1>5, <1>6, FS_EmptySet, FlowTableAssumption DEF FlowInv

(* No step but those of the ingest touches the table.                      *)
LEMMA FlowStep ==
    ASSUME FlowInv, [Next]_vars
    PROVE  FlowInv'
<1>1. CASE SkipFrame
  BY <1>1, SkipFrameKeeps
<1>2. CASE KnownFlow
  BY <1>2, KnownFlowKeeps
<1>3. CASE OpenFlow
  BY <1>3, OpenFlowKeeps
<1>4. CASE Overflow
  BY <1>4, OverflowKeeps
<1>5. CASE UNCHANGED flowVars
  BY <1>5, TableUntouched
<1>6. Next => SkipFrame \/ KnownFlow \/ OpenFlow \/ Overflow \/ UNCHANGED flowVars
  BY DEF Next, AnalyzePcapIngest, Ingest, ReadPcapRaises, EndOfCapture, BuildNext, WithSession, AllBuilt,
         AnalyseSession, AllAnalysed, CrossSession, BindEvidence, Unavailable, Load, Predict,
         PredictRaises, AllPredicted, Fuse, Ended, vars
<1> QED
  BY <1>1, <1>2, <1>3, <1>4, <1>5, <1>6 DEF vars

(* FlowInv is inductive: what the flow table holds is what was read.       *)
THEOREM FlowInvariant == Spec => []FlowInv
<1>1. Init => FlowInv
  BY FlowInit_ DEF Init
<1>2. FlowInv /\ [Next]_vars => FlowInv'
  BY FlowStep
<1> QED
  BY <1>1, <1>2, PTL DEF Spec

(* A packet that has a home is held there, or its direction is truncated.  *)
LEMMA HomeHolds ==
    ASSUME FlowInv, NEW k \in TcpRead \ Homeless
    PROVE  Held(k)
<1> DEFINE p == PacketOf(Frames[k])
<1>1. PICK i \in FlowsOf(p) : TRUE
  BY DEF Homeless
<1>2. i \in DOMAIN flows /\ KeyOf(flows[i]) = KeyOf(p)
  BY DEF FlowsOf
<1>3. FlowKept(TcpRead, flows[i])
  BY <1>2, FlowsAreKept
<1>4. k \in Own(TcpRead, flows[i])
  BY <1>2 DEF Own
<1> DEFINE d == IF p.src = flows[i].src THEN flows[i].c2s ELSE flows[i].s2c
<1>5. d.truncated \/ SegmentOf(k) \in ToSet(d.segments)
  <2>1. CASE p.src = flows[i].src
    BY <1>3, <1>4, <2>1 DEF FlowKept, Keeps, Forth
  <2>2. CASE p.src # flows[i].src
    BY <1>3, <1>4, <2>2 DEF FlowKept, Keeps, Back
  <2> QED
    BY <2>1, <2>2
<1>6. SegmentOf(k).frame = k /\ SegmentOf(k).seq = p.seq /\ SegmentOf(k).payload = p.payload
  BY DEF SegmentOf
<1> QED
  BY <1>5, <1>6 DEF Held

(* Every TCP packet read is accounted for: it is kept in its direction     *)
(* under the number of its frame, or that direction says it was truncated, *)
(* or its conversation is not held and the packet was counted as           *)
(* overflowed (runner.py 52, 242-248, ingest.py 39-41).                    *)
THEOREM EveryPacketIsAccounted == Spec => []PacketsAccounted
<1>1. FlowInv => PacketsAccounted
  BY HomeHolds DEF FlowInv, PacketsAccounted
<1> QED
  BY <1>1, FlowInvariant, PTL

-----------------------------------------------------------------------------
(* The frames of a direction, as a sequence.                               *)
LEMMA FramesAreSeq ==
    ASSUME NEW d, NEW S, d.segments \in Seq(S)
    PROVE  /\ FramesOf(d) \in Seq({s.frame : s \in S}) /\ Len(FramesOf(d)) = Len(d.segments)
           /\ \A i \in DOMAIN d.segments : FramesOf(d)[i] = d.segments[i].frame
<1> DEFINE n == Len(d.segments)
           T == {s.frame : s \in S}
<1>1. n \in Nat /\ DOMAIN d.segments = 1 .. n /\ \A i \in 1 .. n : d.segments[i] \in S
  BY LenProperties, ElementOfSeq
<1>2. FramesOf(d) \in [1 .. n -> T] /\ \A i \in 1 .. n : FramesOf(d)[i] = d.segments[i].frame
  BY <1>1 DEF FramesOf
<1>3. FramesOf(d) \in Seq(T)
  BY <1>1, <1>2, SeqDef
<1>4. Len(FramesOf(d)) \in Nat /\ DOMAIN FramesOf(d) = 1 .. Len(FramesOf(d))
  BY <1>3, LenProperties
<1>5. Len(FramesOf(d)) = n
  <2> HIDE DEF n
  <2>1. DOMAIN FramesOf(d) = 1 .. n
    BY <1>2
  <2> QED
    BY <1>1, <1>4, <2>1
<1> QED
  BY <1>1, <1>2, <1>3, <1>5

(* What reassembles to something has a segment.                            *)
LEMMA SomethingHeld ==
    ASSUME NEW d, NEW S, d.segments \in Seq(S), Reassemble(d) # <<>>
    PROVE  Len(FramesOf(d)) > 0
<1>1. WithData(d) # {}
  BY DEF Reassemble
<1>2. DOMAIN d.segments # {}
  BY <1>1 DEF WithData
<1>3. Len(d.segments) \in Nat /\ DOMAIN d.segments = 1 .. Len(d.segments)
  BY LenProperties
<1>4. Len(FramesOf(d)) = Len(d.segments)
  BY FramesAreSeq
<1>5. Len(d.segments) # 0
  BY <1>2, <1>3
<1> QED
  BY <1>3, <1>4, <1>5

(* build_session: the ends and the frames of the session are the flow's.   *)
LEMMA SessionRead ==
    ASSUME NEW flow, NEW A, flow.c2s.segments \in Seq(A),
           NEW B, flow.s2c.segments \in Seq(B),
           NEW s, s = BuildSession(flow), s # NoSession
    PROVE  ReadFrom(s, flow) /\ s.frames # <<>>
<1>1. ServerOf(flow) \in {flow.src, flow.dst}
  BY DEF ServerOf
<1> DEFINE src    == Reassemble(flow.c2s)
           dst    == Reassemble(flow.s2c)
           server == ServerOf(flow)
           client == IF server.host = flow.dst.host THEN flow.src ELSE flow.dst
<1>2. ~(src = <<>> /\ dst = <<>>)
  BY DEF BuildSession
<1>3. s.client = client /\ s.server = server /\ s.frames = FramesOf(flow.c2s) \o FramesOf(flow.s2c)
  BY DEF BuildSession, NoSession
<1>4. ReadFrom(s, flow)
  BY <1>1, <1>3 DEF ReadFrom, KeyOf
<1> DEFINE T == {x.frame : x \in A} \cup {x.frame : x \in B}
<1>5. /\ FramesOf(flow.c2s) \in Seq(T) /\ FramesOf(flow.s2c) \in Seq(T)
  <2>1. FramesOf(flow.c2s) \in Seq({x.frame : x \in A}) /\ FramesOf(flow.s2c) \in Seq({x.frame : x \in B})
    BY FramesAreSeq
  <2> QED
    BY <2>1, SeqMonotonic
<1>6. Len(FramesOf(flow.c2s)) > 0 \/ Len(FramesOf(flow.s2c)) > 0
  BY <1>2, SomethingHeld
<1>7. Len(s.frames) = Len(FramesOf(flow.c2s)) + Len(FramesOf(flow.s2c))
  BY <1>3, <1>5, ConcatProperties
<1>8. Len(FramesOf(flow.c2s)) \in Nat /\ Len(FramesOf(flow.s2c)) \in Nat
  BY <1>5, LenProperties
<1>9. s.frames # <<>>
  BY <1>6, <1>7, <1>8, EmptySeq
<1> QED
  BY <1>4, <1>9

-----------------------------------------------------------------------------
(* The sessions, while flows are read and when they are done.              *)
SessionsKept ==
    /\ built \in 0 .. Len(flows) /\ (stage \in {"ingest", "raised"} => built = 0)
    /\ sessions \in Seq(ToSet(sessions)) /\ Len(sessions) <= built
    /\ \A s \in ToSet(sessions) : s.frames # <<>> /\ \E i \in DOMAIN flows : ReadFrom(s, flows[i])
EvidenceKept ==
    stage \in {"ml", "score-fusion", "done"} =>
        evidence = [i \in DOMAIN sessions |-> EvidenceOf(sessions[i])]

(* EvidenceInv as the three conjuncts its proof treats one at a time.      *)
LEMMA EvidenceParts == EvidenceInv <=> FlowInv /\ SessionsKept /\ EvidenceKept
BY DEF EvidenceInv, SessionsKept, EvidenceKept

(* The same in the next state, in the direction the steps need.            *)
LEMMA EvidencePartsThen == FlowInv' /\ SessionsKept' /\ EvidenceKept' => EvidenceInv'
BY DEF EvidenceInv, SessionsKept, EvidenceKept

(* The list of sessions is a finite sequence over what it holds.           *)
LEMMA Sessions ==
    ASSUME SessionsKept
    PROVE  /\ Len(sessions) \in Nat /\ DOMAIN sessions = 1 .. Len(sessions)
           /\ \A i \in DOMAIN sessions : sessions[i] \in ToSet(sessions)
<1>1. Len(sessions) \in Nat /\ DOMAIN sessions = 1 .. Len(sessions)
  BY LenProperties DEF SessionsKept
<1> QED
  BY <1>1 DEF ToSet

(* While the file is read there is no session.                             *)
LEMMA IngestKeeps ==
    ASSUME EvidenceInv, FlowInv', AnalyzePcapIngest
    PROVE  SessionsKept' /\ EvidenceKept'
<1>1. stage = "ingest" /\ stage' \in {"ingest", "raised", "protocol-id"}
      /\ built' = built /\ sessions' = sessions
  BY DEF AnalyzePcapIngest, Ingest, ReadPcapRaises, SkipFrame, KnownFlow, OpenFlow, Overflow,
         EndOfCapture, AtFrame, AtPacket, Consumed, sessionVars
<1>2. built = 0 /\ Len(sessions) <= 0 /\ sessions \in Seq(ToSet(sessions))
  BY <1>1 DEF EvidenceInv
<1>3. sessions = <<>>
  BY <1>2, EmptySeq
<1>4. Len(flows') \in Nat
  <2>1. flows' \in Seq(ToSet(flows'))
    BY DEF FlowInv, ToSet
  <2> QED
    BY <2>1, LenProperties
<1>5. ToSet(sessions) = {} /\ sessions' = <<>>
  BY <1>1, <1>3 DEF ToSet
<1>6. SessionsKept'
  BY <1>1, <1>2, <1>4, <1>5 DEF SessionsKept, ToSet
<1>7. EvidenceKept'
  BY <1>1 DEF EvidenceKept
<1> QED
  BY <1>6, <1>7

(* A session is read from the next flow, or none is.                       *)
LEMMA BuildNextKeeps ==
    ASSUME EvidenceInv, BuildNext
    PROVE  SessionsKept' /\ EvidenceKept'
<1> DEFINE flow == flows[built + 1]
           s == BuildSession(flow)
<1>1. /\ stage = "protocol-id" /\ stage' = stage /\ built < Len(flows) /\ built' = built + 1
      /\ flows' = flows
      /\ sessions' = IF Finished(flow) /\ s # NoSession THEN Append(sessions, s) ELSE sessions
  BY DEF BuildNext, WithSession, flowVars
<1>2. FlowInv /\ SessionsKept
  BY EvidenceParts
<1>3. Len(flows) \in Nat /\ DOMAIN flows = 1 .. Len(flows)
  BY <1>2, Counted
<1>4. built \in 0 .. Len(flows) /\ sessions \in Seq(ToSet(sessions)) /\ Len(sessions) <= built
      /\ Len(sessions) \in Nat
  BY <1>2, Sessions DEF SessionsKept
<1>5. built + 1 \in DOMAIN flows
  BY <1>1, <1>3, <1>4
<1>6. s # NoSession => ReadFrom(s, flow) /\ s.frames # <<>>
  <2>1. FlowKept(TcpRead, flow)
    BY <1>2, <1>5, FlowsAreKept
  <2>2. /\ flow.c2s.segments \in Seq(Forth(TcpRead, flow))
        /\ flow.s2c.segments \in Seq(Back(TcpRead, flow))
    BY <2>1 DEF FlowKept, Keeps
  <2> QED
    BY <2>2, SessionRead
<1>7. EvidenceKept'
  BY <1>1 DEF EvidenceKept
<1> HIDE DEF s, flow
<1>8. CASE sessions' = sessions
  BY <1>1, <1>2, <1>3, <1>4, <1>7, <1>8 DEF SessionsKept, ToSet
<1>9. CASE sessions' = Append(sessions, s) /\ s # NoSession
  <2>1. /\ sessions' \in Seq(ToSet(sessions) \cup {s})
        /\ ToSet(Append(sessions, s)) = ToSet(sessions) \cup {s}
        /\ Len(sessions') = Len(sessions) + 1
    BY <1>4, <1>9, Appended
  <2>2. ToSet(sessions)' = ToSet(sessions) \cup {s}
    BY <1>9, <2>1 DEF ToSet
  <2>3. \A x \in ToSet(sessions)' : x.frames # <<>> /\ \E i \in DOMAIN flows : ReadFrom(x, flows[i])
    BY <1>2, <1>5, <1>6, <1>9, <2>2 DEF SessionsKept, flow
  <2>4. built' \in 0 .. Len(flows') /\ Len(sessions') <= built'
    BY <1>1, <1>3, <1>4, <2>1
  <2> QED
    BY <1>1, <1>7, <2>1, <2>2, <2>3, <2>4 DEF SessionsKept, ReadFrom, KeyOf, FramesOf
<1> QED
  BY <1>1, <1>8, <1>9

(* SessionsKept survives every step that leaves sessions and flows alone.  *)
LEMMA SessionsStay ==
    ASSUME SessionsKept, built' = built, sessions' = sessions, flows' = flows,
           stage' = stage \/ stage' \notin {"ingest", "raised"}
    PROVE  SessionsKept'
<1>1. built \in 0 .. Len(flows) /\ (stage \in {"ingest", "raised"} => built = 0)
      /\ sessions \in Seq(ToSet(sessions)) /\ Len(sessions) <= built
  BY DEF SessionsKept
<1>2. \A s \in ToSet(sessions) : s.frames # <<>> /\ \E i \in DOMAIN flows : ReadFrom(s, flows[i])
  BY DEF SessionsKept
<1>3. ToSet(sessions)' = ToSet(sessions)
  BY DEF ToSet
<1>4. \A s \in ToSet(sessions)' : s.frames # <<>> /\ \E i \in DOMAIN flows' : ReadFrom(s, flows[i])'
  BY <1>2, <1>3, ZenonT(40) DEF ReadFrom, KeyOf, FramesOf
<1> QED
  BY <1>1, <1>3, <1>4 DEF SessionsKept

(* Evidence is bound once, to sessions that all have frames.               *)
LEMMA BindEvidenceKeeps ==
    ASSUME EvidenceInv, BindEvidence
    PROVE  SessionsKept' /\ EvidenceKept'
<1>1. /\ stage = "scoring" /\ stage' = "ml" /\ built' = built /\ sessions' = sessions
      /\ flows' = flows /\ frame_offsets' = frame_offsets
      /\ evidence' = [i \in DOMAIN sessions |-> IF sessions[i].frames = <<>> THEN NoEvidence
                                                ELSE EvidenceOf(sessions[i])]
  BY DEF BindEvidence, flowVars, sessionVars
<1>2. SessionsKept
  BY EvidenceParts
<1>3. \A i \in DOMAIN sessions : sessions[i].frames # <<>>
  BY <1>2, Sessions DEF SessionsKept
<1>4. evidence' = [i \in DOMAIN sessions |-> EvidenceOf(sessions[i])]
  BY <1>1, <1>3
<1>5. EvidenceKept'
  BY <1>1, <1>4 DEF EvidenceKept, EvidenceOf
<1>6. SessionsKept'
  BY <1>1, <1>2, SessionsStay
<1> QED
  BY <1>5, <1>6

(* The other steps leave flows, sessions and evidence alone.               *)
LEMMA OthersKeep ==
    ASSUME EvidenceInv, UNCHANGED <<flowVars, sessionVars, evidence>>,
           stage' = stage \/ stage' \notin {"ingest", "raised"},
           stage' \in {"ml", "score-fusion", "done"} => stage \in {"ml", "score-fusion", "done"}
    PROVE  SessionsKept' /\ EvidenceKept'
<1>1. /\ built' = built /\ sessions' = sessions /\ flows' = flows /\ frame_offsets' = frame_offsets
      /\ evidence' = evidence
  BY DEF flowVars, sessionVars
<1>2. SessionsKept /\ EvidenceKept
  BY EvidenceParts
<1>3. SessionsKept'
  BY <1>1, <1>2, SessionsStay
<1>4. EvidenceKept'
  BY <1>1, <1>2 DEF EvidenceKept, EvidenceOf
<1> QED
  BY <1>3, <1>4

(* EvidenceInv is kept by every step. *)
LEMMA EvidenceStep ==
    ASSUME EvidenceInv, [Next]_vars
    PROVE  EvidenceInv'
<1>1. FlowInv /\ FlowInv'
  BY EvidenceParts, FlowStep
<1> SUFFICES SessionsKept' /\ EvidenceKept'
  BY <1>1, EvidencePartsThen
<1>2. CASE AnalyzePcapIngest
  BY <1>1, <1>2, IngestKeeps
<1>3. CASE BuildNext
  BY <1>3, BuildNextKeeps
<1>4. CASE BindEvidence
  BY <1>4, BindEvidenceKeeps
<1>5. CASE AllBuilt \/ AnalyseSession \/ AllAnalysed \/ CrossSession
  BY <1>5, OthersKeep DEF AllBuilt, AnalyseSession, AllAnalysed, CrossSession
<1>6. CASE Unavailable \/ Load \/ Predict \/ PredictRaises \/ AllPredicted \/ Fuse
  BY <1>6, OthersKeep DEF Unavailable, Load, Predict, PredictRaises, AllPredicted, Fuse
<1>7. CASE Ended \/ UNCHANGED vars
  BY <1>7, OthersKeep DEF Ended, vars
<1> QED
  BY <1>2, <1>3, <1>4, <1>5, <1>6, <1>7 DEF Next

(* EvidenceInv is inductive.                                               *)
THEOREM EvidenceInvariant == Spec => []EvidenceInv
<1>1. Init => EvidenceInv
  <2> SUFFICES ASSUME Init PROVE SessionsKept /\ EvidenceKept /\ FlowInv
    BY EvidenceParts
  <2>1. FlowInv /\ stage = "ingest" /\ flows = <<>> /\ sessions = <<>> /\ built = 0
    BY FlowInit_ DEF Init, FlowInit
  <2>2. ToSet(sessions) = {} /\ Len(flows) = 0 /\ Len(sessions) = 0 /\ sessions \in Seq({})
    BY <2>1, EmptySeq DEF ToSet
  <2> QED
    BY <2>1, <2>2 DEF SessionsKept, EvidenceKept
<1>2. EvidenceInv /\ [Next]_vars => EvidenceInv'
  BY EvidenceStep
<1> QED
  BY <1>1, <1>2, PTL DEF Spec

-----------------------------------------------------------------------------
(* The frames of a flow are the frames read of it, ...                     *)
LEMMA FlowFrames ==
    ASSUME FlowInv, NEW j \in DOMAIN flows
    PROVE  FramesOf(flows[j].c2s) \o FramesOf(flows[j].s2c) \in Seq(Own(TcpRead, flows[j]))
<1> DEFINE f == flows[j]
           O == Own(TcpRead, f)
<1>1. FlowKept(TcpRead, f)
  BY FlowsAreKept
<1>2. \A k : SegmentOf(k).frame = k
  BY DEF SegmentOf
<1>3. {x.frame : x \in Forth(TcpRead, f)} \subseteq O /\ {x.frame : x \in Back(TcpRead, f)} \subseteq O
  BY <1>2 DEF Forth, Back
<1>4. f.c2s.segments \in Seq(Forth(TcpRead, f)) /\ f.s2c.segments \in Seq(Back(TcpRead, f))
  BY <1>1 DEF FlowKept, Keeps
<1>5. /\ FramesOf(f.c2s) \in Seq({x.frame : x \in Forth(TcpRead, f)})
      /\ FramesOf(f.s2c) \in Seq({x.frame : x \in Back(TcpRead, f)})
  BY <1>4, FramesAreSeq
<1>6. FramesOf(f.c2s) \in Seq(O) /\ FramesOf(f.s2c) \in Seq(O)
  BY <1>3, <1>5, SeqMonotonic
<1>7. FramesOf(f.c2s) \o FramesOf(f.s2c) \in Seq(O)
  BY <1>6, ConcatProperties
<1> QED
  BY <1>7

(* ... and so are those of its session.                                    *)
LEMMA SessionFrames ==
    ASSUME FlowInv, NEW j \in DOMAIN flows, NEW s, ReadFrom(s, flows[j])
    PROVE  s.frames \in Seq(Own(TcpRead, flows[j]))
BY FlowFrames DEF ReadFrom

(* The first of a sequence.                                                *)
LEMMA HeadOf ==
    ASSUME NEW S, NEW x \in Seq(S), x # <<>>
    PROVE  x[1] \in S
<1>1. Len(x) \in Nat \ {0} /\ DOMAIN x = 1 .. Len(x)
  BY LenProperties, EmptySeq
<1>2. 1 \in DOMAIN x
  BY <1>1
<1> QED
  BY <1>2, LenProperties

(* Two ends that differ are the two addresses of the flow.                 *)
LEMMA TwoEnds ==
    ASSUME NEW X, NEW c, NEW d, X \subseteq {c, d}, Cardinality(X) = 2
    PROVE  X = {c, d}
<1>1. SUFFICES ASSUME X # {c, d} PROVE FALSE
  OBVIOUS
<1>2. X = {} \/ X = {c} \/ X = {d}
  BY <1>1
<1>3. Cardinality({}) = 0 /\ Cardinality({c}) = 1 /\ Cardinality({d}) = 1
  BY FS_EmptySet, FS_Singleton
<1> QED
  BY <1>2, <1>3

(* The frames shown with a finding are frames of its conversation, by the  *)
(* numbers they have in the file, and the offset leads to the first of     *)
(* them (runner.py 42-52, 122-131; ingest.py 37-41).                       *)
THEOREM EvidenceIsOfItsSession == Spec => []EvidenceBelongs
<1> SUFFICES EvidenceInv => EvidenceBelongs
  BY EvidenceInvariant, PTL
<1> SUFFICES ASSUME EvidenceInv, stage \in {"ml", "score-fusion", "done"}, NEW i \in DOMAIN sessions,
                    Cardinality({sessions[i].client, sessions[i].server}) = 2
             PROVE  LET ends == {sessions[i].client, sessions[i].server}
                    IN  /\ evidence[i] # NoEvidence
                        /\ \A n \in RangeOf(evidence[i].frames) :
                              n <= Len(Frames) /\ IsTcp(Frames[n]) /\ KeyOf(PacketOf(Frames[n])) = ends
                        /\ evidence[i].packet_offset = evidence[i].frames[1]
  BY DEF EvidenceBelongs
<1> DEFINE s    == sessions[i]
           ends == {s.client, s.server}
           m    == Smaller(MaxEvidence, Len(s.frames))
           shown == SubSeq(s.frames, 1, m)
<1>1. FlowInv /\ SessionsKept /\ EvidenceKept
  BY EvidenceParts
<1>2. s.frames # <<>> /\ \E j \in DOMAIN flows : ReadFrom(s, flows[j])
  BY <1>1, Sessions DEF SessionsKept
<1>3. PICK j \in DOMAIN flows : ReadFrom(s, flows[j])
  BY <1>2
<1> DEFINE O == Own(TcpRead, flows[j])
<1>4. s.frames \in Seq(O)
  BY <1>1, <1>3, SessionFrames
<1>5. ends = KeyOf(flows[j])
  <2>1. ends \subseteq {flows[j].src, flows[j].dst} /\ Cardinality(ends) = 2
    BY <1>3 DEF ReadFrom, KeyOf
  <2> HIDE DEF ends
  <2> QED
    BY <2>1, TwoEnds DEF KeyOf
<1>6. \A n \in O : /\ n \in TcpRead /\ n <= Len(Frames) /\ IsTcp(Frames[n])
                   /\ KeyOf(PacketOf(Frames[n])) = ends
  <2> TAKE n \in O
  <2>1. n \in TcpRead /\ KeyOf(PacketOf(Frames[n])) = ends
    BY <1>5 DEF Own
  <2>2. n \in 1 .. read /\ IsTcp(Frames[n])
    BY <2>1 DEF TcpRead
  <2>3. Frames = capture.frames
    BY <2>2 DEF IsTcp, Frames, Handled
  <2>4. n <= Len(Frames)
    BY <1>1, <2>2, <2>3, Counted
  <2> QED
    BY <2>1, <2>2, <2>4
<1>7. evidence[i] = EvidenceOf(s)
  BY <1>1 DEF EvidenceKept
<1>8. evidence[i].frames = shown /\ evidence[i].packet_offset = frame_offsets[s.frames[1]]
  <2>1. EvidenceOf(s) = [frames |-> shown, packet_offset |-> frame_offsets[s.frames[1]]]
    BY DEF EvidenceOf
  <2> HIDE DEF shown, s
  <2> QED
    BY <1>7, <2>1
<1>9. Len(s.frames) \in Nat \ {0}
  BY <1>2, <1>4, EmptySeq
<1>10. m \in 1 .. Len(s.frames)
  BY <1>9 DEF Smaller, MaxEvidence
<1>11. /\ shown \in Seq(O) /\ Len(shown) = m /\ shown[1] = s.frames[1]
  <2> HIDE DEF m, O, s
  <2>1. 1 \in 1 .. Len(s.frames) + 1 /\ m \in 1 - 1 .. Len(s.frames)
    BY <1>9, <1>10
  <2>2. /\ SubSeq(s.frames, 1, m) \in Seq(O)
        /\ Len(SubSeq(s.frames, 1, m)) = IF 1 <= m THEN m - 1 + 1 ELSE 0
        /\ \A x \in 1 .. m - 1 + 1 : SubSeq(s.frames, 1, m)[x] = s.frames[1 + x - 1]
    BY <1>4, <2>1, SubSeqProperties
  <2> QED
    BY <1>9, <1>10, <2>2
<1>12. shown # <<>> /\ DOMAIN shown = 1 .. m /\ \A x \in 1 .. m : shown[x] \in O
  BY <1>10, <1>11, EmptySeq, LenProperties, ElementOfSeq
<1>13. evidence[i] # NoEvidence
  <2>1. NoEvidence.frames = <<>>
    BY DEF NoEvidence
  <2>2. evidence[i].frames # <<>>
    BY <1>8, <1>12
  <2> QED
    BY <2>1, <2>2
<1>14. \A n \in RangeOf(evidence[i].frames) : n \in O
  BY <1>8, <1>12 DEF RangeOf
<1>15. evidence[i].packet_offset = evidence[i].frames[1]
  <2>1. s.frames[1] \in TcpRead
    BY <1>6, <1>10, <1>11, <1>12
  <2>2. frame_offsets[s.frames[1]] = s.frames[1]
    BY <1>1, <2>1 DEF FlowInv
  <2> QED
    BY <1>8, <1>11, <2>2
<1> QED
  BY <1>6, <1>13, <1>14, <1>15

-----------------------------------------------------------------------------
(* Only the reading of the file moves the table.                           *)
LEMMA OnlyIngest ==
    ASSUME Next, ~AnalyzePcapIngest
    PROVE  UNCHANGED flowVars
BY DEF Next, BuildNext, AllBuilt, AnalyseSession, AllAnalysed, CrossSession, BindEvidence, Unavailable,
       Load, Predict, PredictRaises, AllPredicted, Fuse, Ended, vars

(* The capture that is analysed is the one that was uploaded.              *)
LEMMA OneCapture == Spec => [](capture \in Captures)
<1>1. Init => capture \in Captures
  BY DEF Init, FlowInit
<1>2. capture \in Captures /\ [Next]_vars => (capture \in Captures)'
  <2> SUFFICES ASSUME capture \in Captures, [Next]_vars PROVE capture' = capture
    OBVIOUS
  <2>1. CASE AnalyzePcapIngest
    BY <2>1 DEF AnalyzePcapIngest, Ingest, ReadPcapRaises, SkipFrame, KnownFlow, OpenFlow, Overflow,
                EndOfCapture, Consumed, flowVars
  <2>2. CASE Next /\ ~AnalyzePcapIngest
    BY <2>2, OnlyIngest DEF flowVars
  <2> QED
    BY <2>1, <2>2 DEF vars, flowVars
<1> QED
  BY <1>1, <1>2, PTL DEF Spec

(* What the later proofs need of a session: it is what build_session makes *)
(* of a flow that is still in the table, and the findings about a host are *)
(* those of the sessions and certificates that are kept, or none at all    *)
(* (sessions.py 170-248, runner.py 54-59, 100-116).                        *)
SessionInv ==
    /\ \A i \in DOMAIN flows : flows[i].start \in Nat
    /\ \A i \in DOMAIN sessions :
          /\ sessions[i] # NoSession
          /\ \E j \in 1 .. built : ReadFrom(sessions[i], flows[j]) /\ sessions[i] = BuildSession(flows[j])
    /\ stage \in {"scoring", "ml", "score-fusion", "done"} =>
          host_findings = IF Unsortable(sessions) THEN {} ELSE CrossSessionFindings(sessions, Certs)

(* SessionInv, a conjunct at a time: the times of the flows, ...           *)
Timed == \A i \in DOMAIN flows : flows[i].start \in Nat
(* ... the flow of each session, ...                                       *)
ReadFromFlows ==
    \A i \in DOMAIN sessions :
        /\ sessions[i] # NoSession
        /\ \E j \in 1 .. built : ReadFrom(sessions[i], flows[j]) /\ sessions[i] = BuildSession(flows[j])
(* ... and the findings about hosts.                                       *)
HostsJudged ==
    stage \in {"scoring", "ml", "score-fusion", "done"} =>
        host_findings = IF Unsortable(sessions) THEN {} ELSE CrossSessionFindings(sessions, Certs)

(* SessionInv is the three of them, before a step and after it.            *)
LEMMA SessionParts ==
    /\ SessionInv <=> Timed /\ ReadFromFlows /\ HostsJudged
    /\ Timed' /\ ReadFromFlows' /\ HostsJudged' => SessionInv'
BY DEF SessionInv, Timed, ReadFromFlows, HostsJudged

(* A packet gives its flow a time that a frame has.                        *)
LEMMA StartOfPacket ==
    ASSUME NEW flow, DOMAIN flow = FlowFields, flow.start \in Nat, NEW ts \in Nat, NEW p, NEW k
    PROVE  AddPacket(flow, p, ts, k).start \in Nat
BY DEF AddPacket, FlowFields

(* Every frame of an uploaded capture has a time.                          *)
LEMMA FrameHasTime ==
    ASSUME FlowInv, capture \in Captures, AtFrame
    PROVE  NextFrame.ts \in Nat
<1>1. read \in Nat /\ read < Len(Frames) /\ Len(Frames) \in Nat
  BY Counted DEF AtFrame
<1>2. Frames = capture.frames
  BY <1>1, EmptySeq DEF Frames
<1>3. NextFrame \in ToSet(capture.frames)
  BY <1>1, <1>2 DEF NextFrame, ToSet
<1> QED
  BY <1>3, CapturesAssumption

(* Timed is kept: a packet is put into a flow with the time of its frame.  *)
LEMMA TimedStep ==
    ASSUME FlowInv, capture \in Captures, Timed, [Next]_vars
    PROVE  Timed'
<1>1. CASE KnownFlow
  <2>1. AtPacket /\ NextFrame.ts \in Nat
    BY <1>1, FrameHasTime DEF KnownFlow, AtPacket
  <2>2. PICK i \in DOMAIN flows :
           flows' = [flows EXCEPT ![i] = AddPacket(@, ThePacket, NextFrame.ts, FrameNo)]
    BY <1>1 DEF KnownFlow, FlowsOf
  <2>3. DOMAIN flows[i] = FlowFields /\ flows[i].start \in Nat
    BY FlowsAreKept DEF FlowKept, Timed
  <2>4. AddPacket(flows[i], ThePacket, NextFrame.ts, FrameNo).start \in Nat
    BY <2>1, <2>3, StartOfPacket
  <2> QED
    BY <2>2, <2>4 DEF Timed
<1>2. CASE OpenFlow
  <2> DEFINE p == ThePacket
             g == AddPacket(NewFlow(p), p, NextFrame.ts, FrameNo)
  <2>1. AtPacket /\ NextFrame.ts \in Nat /\ flows' = Append(flows, g)
    BY <1>2, FrameHasTime DEF OpenFlow, AtPacket
  <2>2. DOMAIN NewFlow(p) = FlowFields /\ NewFlow(p).start \in Nat
    BY Opened DEF NewFlow
  <2>3. g.start \in Nat
    BY <2>1, <2>2, StartOfPacket
  <2> HIDE DEF g
  <2>4. flows \in Seq(ToSet(flows) \cup {g}) /\ g \in ToSet(flows) \cup {g}
    BY SeqMonotonic DEF FlowInv
  <2>5. /\ flows' \in Seq(ToSet(flows) \cup {g}) /\ Len(flows') = Len(flows) + 1
        /\ \A j \in 1 .. Len(flows) : flows'[j] = flows[j]
        /\ flows'[Len(flows) + 1] = g
    BY <2>1, <2>4, AppendProperties
  <2>6. Len(flows) \in Nat /\ DOMAIN flows = 1 .. Len(flows) /\ DOMAIN flows' = 1 .. Len(flows) + 1
    BY <2>5, Counted, LenProperties
  <2> QED
    BY <2>3, <2>5, <2>6 DEF Timed
<1>3. CASE flows' = flows
  BY <1>3 DEF Timed
<1>4. CASE AnalyzePcapIngest /\ ~KnownFlow /\ ~OpenFlow
  BY <1>3, <1>4 DEF AnalyzePcapIngest, Ingest, ReadPcapRaises, SkipFrame, Overflow, EndOfCapture, flowVars
<1>5. CASE Next /\ ~AnalyzePcapIngest
  BY <1>3, <1>5, OnlyIngest DEF flowVars
<1> QED
  BY <1>1, <1>2, <1>3, <1>4, <1>5 DEF vars, flowVars, AnalyzePcapIngest

(* While the file is read there are no sessions, ...                       *)
LEMMA NothingBuilt ==
    ASSUME SessionsKept, AnalyzePcapIngest
    PROVE  ReadFromFlows' /\ HostsJudged'
<1>1. stage = "ingest" /\ stage' \in {"ingest", "raised", "protocol-id"} /\ sessions' = sessions
  BY DEF AnalyzePcapIngest, Ingest, ReadPcapRaises, SkipFrame, KnownFlow, OpenFlow, Overflow,
         EndOfCapture, AtFrame, AtPacket, Consumed, sessionVars
<1>2. Len(sessions) <= 0 /\ Len(sessions) \in Nat /\ DOMAIN sessions = 1 .. Len(sessions)
  BY <1>1, Sessions DEF SessionsKept
<1>3. DOMAIN sessions' = {}
  BY <1>1, <1>2
<1> QED
  BY <1>1, <1>3 DEF ReadFromFlows, HostsJudged

(* A session has the ends and the frames of the flow looked at, ...        *)
LEMMA NextIsRead ==
    ASSUME FlowInv, SessionsKept, BuildNext,
           NEW flow, flow = flows[built + 1], NEW s, s = BuildSession(flow), s # NoSession
    PROVE  ReadFrom(s, flow)
<1>1. built + 1 \in DOMAIN flows
  <2>1. built \in 0 .. Len(flows) /\ built < Len(flows)
    BY DEF SessionsKept, BuildNext
  <2> QED
    BY <2>1, Counted
<1>2. FlowKept(TcpRead, flow)
  BY <1>1, FlowsAreKept
<1>3. flow.c2s.segments \in Seq(Forth(TcpRead, flow)) /\ flow.s2c.segments \in Seq(Back(TcpRead, flow))
  BY <1>2 DEF FlowKept, Keeps
<1> QED
  BY <1>3, SessionRead

(* ... so the next flow may give one more, ...                             *)
LEMMA BuiltNext ==
    ASSUME FlowInv, SessionsKept, ReadFromFlows, BuildNext
    PROVE  ReadFromFlows' /\ HostsJudged'
<1> DEFINE s == BuildSession(flows[built + 1])
<1>1. /\ stage = "protocol-id" /\ stage' = stage /\ built' = built + 1 /\ flows' = flows
      /\ sessions' = sessions \/ (s # NoSession /\ sessions' = Append(sessions, s))
  BY DEF BuildNext, WithSession, flowVars
<1>2. built \in Nat /\ sessions \in Seq(ToSet(sessions))
  BY Counted DEF SessionsKept
<1>3. \A i \in DOMAIN sessions :
          /\ sessions[i] # NoSession
          /\ \E j \in 1 .. built + 1 : ReadFrom(sessions[i], flows[j]) /\ sessions[i] = BuildSession(flows[j])
  BY <1>2 DEF ReadFromFlows
<1>4. built + 1 \in 1 .. built + 1 /\ (s # NoSession => ReadFrom(s, flows[built + 1]))
  BY <1>2, NextIsRead
<1>5. ASSUME NEW t, t = s, t # NoSession, sessions' = Append(sessions, t), NEW i \in DOMAIN sessions'
      PROVE  /\ sessions'[i] # NoSession
             /\ \E j \in 1 .. built + 1 : ReadFrom(sessions'[i], flows[j]) /\ sessions'[i] = BuildSession(flows[j])
  <2>1. sessions \in Seq(ToSet(sessions) \cup {t}) /\ t \in ToSet(sessions) \cup {t}
    BY <1>2, SeqMonotonic
  <2>2. /\ sessions' \in Seq(ToSet(sessions) \cup {t}) /\ Len(sessions') = Len(sessions) + 1
        /\ \A k \in 1 .. Len(sessions) : sessions'[k] = sessions[k]
        /\ sessions'[Len(sessions) + 1] = t
    BY <1>5, <2>1, AppendProperties
  <2>3. Len(sessions) \in Nat /\ DOMAIN sessions = 1 .. Len(sessions)
        /\ DOMAIN sessions' = 1 .. Len(sessions) + 1
    BY <2>2, Sessions, LenProperties
  <2>4. CASE i \in DOMAIN sessions
    BY <1>3, <2>2, <2>3, <2>4
  <2>5. CASE i = Len(sessions) + 1
    BY <1>4, <1>5, <2>2, <2>5
  <2> QED
    BY <1>5, <2>3, <2>4, <2>5
<1>6. \A i \in DOMAIN sessions' :
          /\ sessions'[i] # NoSession
          /\ \E j \in 1 .. built + 1 : ReadFrom(sessions'[i], flows[j]) /\ sessions'[i] = BuildSession(flows[j])
  <2>1. CASE sessions' = sessions
    BY <1>3, <2>1
  <2>2. CASE s # NoSession /\ sessions' = Append(sessions, s)
    BY <1>5, <2>2
  <2> QED
    BY <1>1, <2>1, <2>2
<1>7. ReadFromFlows'
  BY <1>1, <1>6 DEF ReadFromFlows
<1> QED
  BY <1>1, <1>7 DEF HostsJudged

(* ... and afterwards they stay, and so do the findings about their hosts, *)
(* from the step that makes them.                                          *)
LEMMA SessionsAsBuilt ==
    ASSUME ReadFromFlows, HostsJudged, [Next]_vars, ~AnalyzePcapIngest, ~BuildNext
    PROVE  ReadFromFlows' /\ HostsJudged'
<1>1. built' = built /\ sessions' = sessions /\ flows' = flows
  BY DEF Next, AllBuilt, AnalyseSession, AllAnalysed, CrossSession, BindEvidence, Unavailable,
         Load, Predict, PredictRaises, AllPredicted, Fuse, Ended, vars, sessionVars, flowVars
<1>2. ReadFromFlows'
  BY <1>1 DEF ReadFromFlows
<1>3. CASE AllBuilt \/ AnalyseSession \/ AllAnalysed
  <2>1. stage' \notin {"scoring", "ml", "score-fusion", "done"}
    BY <1>3 DEF AllBuilt, AnalyseSession, AllAnalysed
  <2> QED
    BY <1>2, <2>1 DEF HostsJudged
<1>4. CASE CrossSession
  BY <1>1, <1>2, <1>4 DEF CrossSession, HostsJudged, Certs
<1>5. CASE BindEvidence \/ Unavailable \/ Load \/ Predict \/ PredictRaises \/ AllPredicted \/ Fuse
  <2>1. stage \in {"scoring", "ml", "score-fusion", "done"} /\ analysed' = analysed
        /\ host_findings' = host_findings
    BY <1>5 DEF BindEvidence, Unavailable, Load, Predict, PredictRaises, AllPredicted, Fuse
  <2> QED
    BY <1>1, <1>2, <2>1 DEF HostsJudged, Certs
<1>6. CASE Ended \/ UNCHANGED vars
  BY <1>1, <1>2, <1>6 DEF Ended, vars, HostsJudged, Certs
<1> QED
  BY <1>3, <1>4, <1>5, <1>6 DEF Next

(* SessionInv holds always.                                                *)
LEMMA SessionInvariant == Spec => []SessionInv
<1>1. Init => SessionInv
  <2> SUFFICES ASSUME Init PROVE Timed /\ ReadFromFlows /\ HostsJudged
    BY SessionParts
  <2>1. flows = <<>> /\ sessions = <<>> /\ stage = "ingest"
    BY DEF Init, FlowInit
  <2> QED
    BY <2>1 DEF Timed, ReadFromFlows, HostsJudged
<1>2. EvidenceInv /\ capture \in Captures /\ SessionInv /\ [Next]_vars => SessionInv'
  <2> SUFFICES ASSUME EvidenceInv, capture \in Captures, SessionInv, [Next]_vars
               PROVE  Timed' /\ ReadFromFlows' /\ HostsJudged'
    BY SessionParts
  <2>1. FlowInv /\ SessionsKept /\ Timed /\ ReadFromFlows /\ HostsJudged
    BY EvidenceParts, SessionParts
  <2>2. Timed'
    BY <2>1, TimedStep
  <2>3. CASE AnalyzePcapIngest
    BY <2>1, <2>2, <2>3, NothingBuilt
  <2>4. CASE BuildNext
    BY <2>1, <2>2, <2>4, BuiltNext
  <2> QED
    BY <2>1, <2>2, <2>3, <2>4, SessionsAsBuilt
<1> QED
  BY <1>1, <1>2, EvidenceInvariant, OneCapture, PTL DEF Spec

-----------------------------------------------------------------------------
(* Ranked: for any order that tells all elements of a finite set apart, it *)
(* is the list of all of them, each once, in that order.                   *)
Lists(r, before) ==
    /\ DOMAIN r = 1 .. Cardinality(DOMAIN before)
    /\ \A k \in DOMAIN r : r[k] \in DOMAIN before
    /\ \A x \in DOMAIN before : \E k \in DOMAIN r : r[k] = x
    /\ \A j, k \in DOMAIN r : j < k <=> r[j] \in before[r[k]]
IsOrder(before) ==
    LET D == DOMAIN before
    IN  /\ \A x \in D : before[x] \subseteq D /\ x \notin before[x]
        /\ \A x, y \in D : y \in before[x] => before[y] \subseteq before[x]
        /\ \A x, y \in D : x # y => y \in before[x] \/ x \in before[y]

(* A ranked list of a finite ordered set is what Lists says.               *)
LEMMA RankedLists ==
    ASSUME NEW before, IsFiniteSet(DOMAIN before), IsOrder(before)
    PROVE  Lists(Ranked(before), before) /\ Cardinality(DOMAIN before) \in Nat
<1> DEFINE D == DOMAIN before
           n == Cardinality(D)
           T == 0 .. n - 1
           rank == [x \in D |-> Cardinality(before[x])]
           r == Ranked(before)
<1>1. n \in Nat
  BY FS_CardinalityType
<1>2. \A x \in D : IsFiniteSet(before[x]) /\ before[x] \subseteq D /\ x \notin before[x]
  BY FS_Subset DEF IsOrder
<1>3. \A x \in D : Cardinality(before[x]) \in Nat
  BY <1>2, FS_CardinalityType
<1>4. ASSUME NEW S, IsFiniteSet(S), NEW P \in SUBSET S, NEW x \in S, x \notin P
      PROVE  Cardinality(P) < Cardinality(S)
  <2>1. Cardinality(P) <= Cardinality(S) /\ Cardinality(P) # Cardinality(S) /\ IsFiniteSet(P)
    BY <1>4, FS_Subset
  <2>2. Cardinality(P) \in Nat /\ Cardinality(S) \in Nat
    BY <1>4, <2>1, FS_CardinalityType
  <2> QED
    BY <2>1, <2>2
<1>5. \A x \in D : rank[x] \in T
  BY <1>1, <1>2, <1>3, <1>4
<1>6. \A x, y \in D : y \in before[x] => rank[y] < rank[x]
  BY <1>2, <1>4 DEF IsOrder
<1>7. \A x, y \in D : rank[x] \in Nat
  BY <1>3
<1>8. rank \in [D -> T]
  BY <1>5
<1> HIDE DEF rank
<1>9. \A x, y \in D : rank[x] = rank[y] => x = y
  BY <1>6, <1>7 DEF IsOrder
<1>10. rank \in Injection(D, T)
  BY <1>8, <1>9 DEF Injection, IsInjective
<1>11. IsFiniteSet(T) /\ Cardinality(T) = n
  BY <1>1, FS_Interval
<1>12. rank \in Surjection(D, T)
  BY <1>10, <1>11, FS_Injection
<1>13. \A m \in T : \E x \in D : rank[x] = m
  BY <1>12 DEF Surjection
<1>14. r = [k \in 1 .. n |-> CHOOSE x \in D : rank[x] = k - 1]
  BY DEF Ranked, rank
<1>15. \A k \in 1 .. n : r[k] \in D /\ rank[r[k]] = k - 1
  <2> SUFFICES ASSUME NEW k \in 1 .. n PROVE r[k] \in D /\ rank[r[k]] = k - 1
    OBVIOUS
  <2>1. k - 1 \in T
    BY <1>1
  <2> QED
    BY <1>13, <1>14, <2>1
<1>16. DOMAIN r = 1 .. n
  BY <1>14
<1> HIDE DEF r
<1>17. \A x \in D : \E k \in 1 .. n : r[k] = x
  <2> SUFFICES ASSUME NEW x \in D PROVE \E k \in 1 .. n : r[k] = x
    OBVIOUS
  <2>1. rank[x] \in T
    BY <1>8
  <2>2. rank[x] + 1 \in 1 .. n /\ (rank[x] + 1) - 1 = rank[x]
    BY <1>1, <2>1
  <2> QED
    BY <1>9, <1>15, <2>2
<1>18. \A j, k \in 1 .. n : j < k <=> r[j] \in before[r[k]]
  <2> SUFFICES ASSUME NEW j \in 1 .. n, NEW k \in 1 .. n PROVE j < k <=> r[j] \in before[r[k]]
    OBVIOUS
  <2>1. rank[r[j]] = j - 1 /\ rank[r[k]] = k - 1 /\ r[j] \in D /\ r[k] \in D
    BY <1>15
  <2>2. ASSUME j < k PROVE r[j] \in before[r[k]]
    <3>1. r[j] # r[k]
      BY <1>1, <2>1, <2>2
    <3>2. ~(r[k] \in before[r[j]])
      BY <1>1, <1>6, <2>1, <2>2
    <3> QED
      BY <2>1, <3>1, <3>2 DEF IsOrder
  <2>3. ASSUME r[j] \in before[r[k]] PROVE j < k
    BY <1>1, <1>6, <2>1, <2>3
  <2> QED
    BY <2>2, <2>3
<1> QED
  BY <1>1, <1>15, <1>16, <1>17, <1>18 DEF Lists, r

(* The places of a set, in their order.                                    *)
Lower(P) == [i \in P |-> {j \in P : j < i}]

(* A list of places has each place of the set once, the lower ones first.  *)
LEMMA AscendingLists ==
    ASSUME NEW P \in SUBSET Nat, IsFiniteSet(P)
    PROVE  /\ Cardinality(P) \in Nat /\ DOMAIN Ascending(P) = 1 .. Cardinality(P)
           /\ \A k \in DOMAIN Ascending(P) : Ascending(P)[k] \in P
           /\ \A i \in P : \E k \in DOMAIN Ascending(P) : Ascending(P)[k] = i
           /\ \A j, k \in DOMAIN Ascending(P) : j < k <=> Ascending(P)[j] < Ascending(P)[k]
<1>1. DOMAIN Lower(P) = P /\ \A i \in P : Lower(P)[i] = {j \in P : j < i}
  BY DEF Lower
<1>2. IsOrder(Lower(P))
  <2>1. \A i, j \in P : i \in Int /\ j \in Int
    OBVIOUS
  <2>2. \A i \in P : Lower(P)[i] \subseteq P /\ i \notin Lower(P)[i]
    BY <1>1, <2>1
  <2>3. \A i, j \in P : j \in Lower(P)[i] => Lower(P)[j] \subseteq Lower(P)[i]
    <3> SUFFICES ASSUME NEW i \in P, NEW j \in P, j < i, NEW m \in P, m < j PROVE m < i
      BY <1>1
    <3> QED
      BY <2>1
  <2>4. \A i, j \in P : i # j => j \in Lower(P)[i] \/ i \in Lower(P)[j]
    BY <1>1, <2>1
  <2> QED
    BY <1>1, <2>2, <2>3, <2>4 DEF IsOrder
<1>3. Lists(Ranked(Lower(P)), Lower(P)) /\ Cardinality(P) \in Nat
  BY <1>1, <1>2, RankedLists
<1>4. Ascending(P) = Ranked(Lower(P))
  BY DEF Ascending, Lower
<1> QED
  BY <1>1, <1>3, <1>4 DEF Lists

-----------------------------------------------------------------------------
(* FlattenSeq: of several sequences it is what any function says that      *)
(* begins with the first and goes on by appending the next.                *)
LEMMA Flattened ==
    ASSUME NEW s, Len(s) \in Nat \ {0}, NEW g, g = [i \in 1 .. Len(s) |-> g[i]], g[1] = s[1],
           \A i \in 2 .. Len(s) : g[i] = g[i - 1] \o s[i]
    PROVE  FlattenSeq(s) = g[Len(s)]
<1> DEFINE N == Len(s)
           Flat(f) == f = [i \in 1 .. N |-> IF i = 1 THEN s[i] ELSE f[i - 1] \o s[i]]
           f == CHOOSE f : Flat(f)
<1>1. \A i \in 1 .. N : i # 1 => i \in 2 .. N
  OBVIOUS
<1>2. Flat(g)
  <2>1. \A i \in 1 .. N : g[i] = IF i = 1 THEN s[i] ELSE g[i - 1] \o s[i]
    BY <1>1
  <2> QED
    BY <2>1
<1>3. Flat(f)
  BY <1>2
<1>4. FlattenSeq(s) = f[N]
  BY DEF FlattenSeq
<1>5. \A i \in 1 .. N : f[i] = IF i = 1 THEN s[i] ELSE f[i - 1] \o s[i]
  BY <1>3
<1> HIDE DEF f, Flat
<1> DEFINE Bad == {i \in 1 .. N : f[i] # g[i]}
<1>6. Bad = {}
  <2> SUFFICES ASSUME Bad # {} PROVE FALSE
    OBVIOUS
  <2>1. Bad \in SUBSET Nat
    OBVIOUS
  <2>2. PICK m \in Bad : \A k \in Bad : m <= k
    BY <2>1, LeastNumber
  <2>3. CASE m = 1
    BY <1>5, <2>2, <2>3
  <2>4. CASE m # 1
    <3>1. m \in 2 .. N /\ m - 1 \in 1 .. N /\ ~(m <= m - 1)
      BY <2>2, <2>4
    <3>2. f[m - 1] = g[m - 1]
      BY <2>2, <3>1
    <3>3. f[m] = f[m - 1] \o s[m]
      BY <1>5, <2>2, <2>4
    <3>4. g[m] = g[m - 1] \o s[m]
      BY <3>1
    <3> QED
      BY <2>2, <3>2, <3>3, <3>4
  <2> QED
    BY <2>3, <2>4
<1>7. N \in 1 .. N
  OBVIOUS
<1>8. f[N] = g[N]
  BY <1>6, <1>7
<1> QED
  BY <1>4, <1>8

(* Two parts of a sequence that follow each other make one.                *)
LEMMA PartsJoin ==
    ASSUME NEW S, NEW s \in Seq(S), NEW b \in 0 .. Len(s), NEW a \in 0 .. b
    PROVE  SubSeq(s, 1, a) \o SubSeq(s, a + 1, b) = SubSeq(s, 1, b)
<1> DEFINE x == SubSeq(s, 1, a)
           y == SubSeq(s, a + 1, b)
           z == SubSeq(s, 1, b)
<1>1. Len(s) \in Nat /\ \A i \in 1 .. Len(s) : s[i] \in S
  BY LenProperties
<1>2. /\ x \in Seq(S) /\ Len(x) = a /\ \A i \in 1 .. a : x[i] = s[i]
  <2>1. /\ SubSeq(s, 1, a) \in Seq(S) /\ Len(SubSeq(s, 1, a)) = (IF 1 <= a THEN a - 1 + 1 ELSE 0)
        /\ \A i \in 1 .. a - 1 + 1 : SubSeq(s, 1, a)[i] = s[1 + i - 1]
    BY <1>1, SubSeqProperties
  <2> QED
    BY <1>1, <2>1
<1>3. /\ z \in Seq(S) /\ Len(z) = b /\ \A i \in 1 .. b : z[i] = s[i]
  <2>1. /\ SubSeq(s, 1, b) \in Seq(S) /\ Len(SubSeq(s, 1, b)) = (IF 1 <= b THEN b - 1 + 1 ELSE 0)
        /\ \A i \in 1 .. b - 1 + 1 : SubSeq(s, 1, b)[i] = s[1 + i - 1]
    BY <1>1, SubSeqProperties
  <2> QED
    BY <1>1, <2>1
<1>4. /\ y \in Seq(S) /\ Len(y) = b - a /\ \A i \in 1 .. b - a : y[i] = s[a + i]
  <2>1. /\ SubSeq(s, a + 1, b) \in Seq(S)
        /\ Len(SubSeq(s, a + 1, b)) = (IF a + 1 <= b THEN b - (a + 1) + 1 ELSE 0)
        /\ \A i \in 1 .. b - (a + 1) + 1 : SubSeq(s, a + 1, b)[i] = s[(a + 1) + i - 1]
    BY <1>1, SubSeqProperties
  <2> QED
    BY <1>1, <2>1
<1> HIDE DEF x, y, z
<1>5. /\ x \o y \in Seq(S) /\ Len(x \o y) = b
      /\ \A i \in 1 .. b : (x \o y)[i] = IF i <= a THEN x[i] ELSE y[i - a]
  <2>1. /\ x \o y \in Seq(S) /\ Len(x \o y) = Len(x) + Len(y)
        /\ \A i \in 1 .. Len(x) + Len(y) : (x \o y)[i] = IF i <= Len(x) THEN x[i] ELSE y[i - Len(x)]
    BY <1>2, <1>4, ConcatProperties
  <2>2. Len(x) + Len(y) = b
    BY <1>1, <1>2, <1>4
  <2> QED
    BY <1>2, <2>1, <2>2
<1>6. \A i \in 1 .. b : (x \o y)[i] = z[i]
  <2> SUFFICES ASSUME NEW i \in 1 .. b PROVE (x \o y)[i] = z[i]
    OBVIOUS
  <2>1. CASE i <= a
    BY <1>2, <1>3, <1>5, <2>1
  <2>2. CASE ~(i <= a)
    <3>1. i - a \in 1 .. b - a /\ a + (i - a) = i
      BY <1>1, <2>2
    <3> QED
      BY <1>3, <1>4, <1>5, <2>2, <3>1
  <2> QED
    BY <2>1, <2>2
<1>7. x \o y = z
  BY <1>3, <1>5, <1>6, SeqEqual
<1> QED
  BY <1>7 DEF x, y, z

-----------------------------------------------------------------------------
(* Ranked gives a function.                                                *)
LEMMA RankedIsList ==
    ASSUME NEW before
    PROVE  Ranked(before) = [k \in DOMAIN Ranked(before) |-> Ranked(before)[k]]
<1> DEFINE e(k) == CHOOSE x \in DOMAIN before : Cardinality(before[x]) = k - 1
<1>1. Ranked(before) = [k \in 1 .. Cardinality(DOMAIN before) |-> e(k)]
  BY DEF Ranked
<1> HIDE DEF e
<1> QED
  BY <1>1

(* The number of pages is that which a list of n items needs.              *)
LEMMA PagesEnough ==
    ASSUME NEW n \in Nat, NEW L \in Nat \ {0}
    PROVE  LET N == (n + L - 1) \div L
           IN  N \in Nat /\ (N = 0 <=> n = 0) /\ n <= N * L
<1> DEFINE N == (n + L - 1) \div L
           r == (n + L - 1) % L
<1>1. N \in Int /\ r \in 0 .. L - 1 /\ n + L - 1 = L * N + r
  OBVIOUS
<1> HIDE DEF N, r
<1>2. L * N = N * L /\ L * N >= n /\ L * N <= n + L - 1
  BY <1>1
<1>3. N >= 0
  <2> SUFFICES ASSUME N <= -1 PROVE FALSE
    BY <1>1
  <2>1. L * N <= L * (-1)
    BY <1>1
  <2> QED
    BY <1>1, <1>2, <2>1
<1>4. n = 0 => N = 0
  <2> SUFFICES ASSUME n = 0, N >= 1 PROVE FALSE
    BY <1>1, <1>3
  <2>1. L * N >= L * 1 /\ L * 1 = L
    BY <1>1
  <2> QED
    BY <1>1, <1>2, <2>1
<1>5. N = 0 => n = 0
  BY <1>2
<1> QED
  BY <1>1, <1>2, <1>3, <1>4, <1>5 DEF N

(* The pages of a list, one after the other, are the list.                 *)
LEMMA PagesJoin ==
    ASSUME NEW S, NEW items \in Seq(S), NEW L \in Nat \ {0}, NEW pages,
           pages = [k \in 1 .. (Len(items) + L - 1) \div L |->
                       PySlice(items, (k - 1) * L, (k - 1) * L + L)]
    PROVE  FlattenSeq(pages) = items
<1> DEFINE n == Len(items)
           N == (n + L - 1) \div L
           at(x) == Smaller(x, n)
           g == [k \in 1 .. N |-> SubSeq(items, 1, at(k * L))]
<1>1. n \in Nat /\ N \in Nat /\ (N = 0 <=> n = 0) /\ n <= N * L
  BY PagesEnough, LenProperties
<1>2. Len(pages) = N /\ \A k \in 1 .. N : pages[k] = PySlice(items, (k - 1) * L, (k - 1) * L + L)
  BY <1>1
<1> HIDE DEF N, n
<1>3. \A x \in Nat : at(x) \in 0 .. n /\ at(x) \in Nat
  BY <1>1 DEF Smaller
<1>4. \A k \in 1 .. N : k * L \in Nat /\ (k - 1) * L \in Nat /\ (k - 1) * L + L = k * L
  <2> SUFFICES ASSUME NEW k \in 1 .. N
               PROVE  k * L \in Nat /\ (k - 1) * L \in Nat /\ (k - 1) * L + L = k * L
    OBVIOUS
  <2>1. k \in Nat /\ k - 1 \in Nat
    BY <1>1
  <2>2. k * L \in Nat /\ (k - 1) * L \in Nat
    BY <2>1
  <2>3. (k - 1) * L + L = k * L
    BY <2>1
  <2> QED
    BY <2>2, <2>3
<1>5. \A k \in 1 .. N : pages[k] = SubSeq(items, at((k - 1) * L) + 1, at(k * L))
  <2> SUFFICES ASSUME NEW k \in 1 .. N
               PROVE  pages[k] = SubSeq(items, at((k - 1) * L) + 1, at(k * L))
    OBVIOUS
  <2>1. \A from, to \in Nat : PySlice(items, from, to) = SubSeq(items, at(from) + 1, at(to))
    <3> SUFFICES ASSUME NEW from \in Nat, NEW to \in Nat
                 PROVE  PySlice(items, from, to) = SubSeq(items, at(from) + 1, at(to))
      OBVIOUS
    <3>1. ~(from < 0) /\ ~(to < 0)
      OBVIOUS
    <3> QED
      BY <3>1, Zenon DEF PySlice, n
  <2>2. (k - 1) * L \in Nat /\ k * L \in Nat /\ (k - 1) * L + L = k * L
    BY <1>4
  <2> HIDE DEF at
  <2>3. PySlice(items, (k - 1) * L, k * L) = SubSeq(items, at((k - 1) * L) + 1, at(k * L))
    BY <2>1, <2>2
  <2> QED
    BY <1>2, <2>2, <2>3
<1>6. CASE N = 0
  <2>1. pages = <<>> /\ items = <<>>
    <3>1. n = 0
      BY <1>1, <1>6
    <3>2. items = <<>>
      BY <3>1, EmptySeq DEF n
    <3>3. pages = <<>>
      BY <1>1, <1>6 DEF N, n
    <3> QED
      BY <3>2, <3>3
  <2> QED
    BY <2>1, EmptySeq DEF FlattenSeq
<1>7. CASE N # 0
  <2>1. N \in Nat \ {0}
    BY <1>1, <1>7
  <2>2. 0 * L = 0 /\ at(0) = 0 /\ 1 \in 1 .. N /\ N \in 1 .. N
    BY <1>1, <2>1 DEF Smaller
  <2>3. g[1] = pages[1]
    <3>1. (1 - 1) * L = 0 /\ at((1 - 1) * L) + 1 = 1
      BY <2>2
    <3>2. pages[1] = SubSeq(items, at((1 - 1) * L) + 1, at(1 * L))
      BY <1>5, <2>2
    <3> QED
      BY <2>2, <3>1, <3>2
  <2>4. \A k \in 2 .. N : g[k] = g[k - 1] \o pages[k]
    <3> SUFFICES ASSUME NEW k \in 2 .. N PROVE g[k] = g[k - 1] \o pages[k]
      OBVIOUS
    <3>1. k \in 1 .. N /\ k - 1 \in 1 .. N
      BY <1>1
    <3>2. /\ g[k] = SubSeq(items, 1, at(k * L)) /\ g[k - 1] = SubSeq(items, 1, at((k - 1) * L))
          /\ pages[k] = SubSeq(items, at((k - 1) * L) + 1, at(k * L))
      BY <1>5, <3>1
    <3>3. k * L \in Nat /\ (k - 1) * L \in Nat /\ (k - 1) * L <= k * L
      BY <1>4, <3>1
    <3>4. at(k * L) \in 0 .. Len(items) /\ at((k - 1) * L) \in 0 .. at(k * L)
      BY <1>1, <3>3 DEF Smaller, n
    <3> QED
      BY <3>2, <3>4, PartsJoin
  <2>5. g = [k \in 1 .. N |-> g[k]]
    OBVIOUS
  <2> HIDE DEF g
  <2>6. FlattenSeq(pages) = g[N]
    BY <1>2, <2>1, <2>3, <2>4, <2>5, Flattened
  <2>7. g[N] = SubSeq(items, 1, at(N * L)) /\ at(N * L) = n
    <3>1. g[N] = SubSeq(items, 1, at(N * L))
      BY <2>2 DEF g
    <3>2. N * L \in Nat
      BY <1>4, <2>2
    <3> QED
      BY <1>1, <3>1, <3>2 DEF Smaller
  <2> QED
    BY <2>6, <2>7, SubSeqFull DEF n
<1> QED
  BY <1>6, <1>7

(* A reader who steps by the limit of the answer sees every session once.  *)
THEOREM PagesCoverAlways == Spec => []PagesCover
<1> SUFFICES EvidenceInv => PagesCover
  BY EvidenceInvariant, PTL
<1> SUFFICES ASSUME SessionsKept, NEW limit \in 1 .. PageCap,
                    NEW transports \in SUBSET {"implicit", "starttls", "plaintext"}
             PROVE  LET first == ListSessions(transports, limit, 0)
                        pages == [k \in 1 .. (first.total + limit - 1) \div limit |->
                                     ListSessions(transports, limit, (k - 1) * first.limit).items]
                    IN  FlattenSeq(pages)
                          = Ascending({i \in DOMAIN sessions : sessions[i].transport \in transports})
  BY EvidenceParts DEF PagesCover
<1> DEFINE P == {i \in DOMAIN sessions : sessions[i].transport \in transports}
           items == Ascending(P)
           pages == [k \in 1 .. (Len(items) + limit - 1) \div limit |->
                        PySlice(items, (k - 1) * limit, (k - 1) * limit + limit)]
<1>1. limit \in Nat \ {0} /\ Smaller(limit, PageCap) = limit
  BY PageCapAssumption DEF Smaller
<1>2. P \in SUBSET Nat /\ IsFiniteSet(P)
  <2>1. Len(sessions) \in Nat /\ DOMAIN sessions = 1 .. Len(sessions)
    BY Sessions
  <2>2. IsFiniteSet(1 .. Len(sessions))
    BY <2>1, FS_Interval
  <2> QED
    BY <2>1, <2>2, FS_Subset
<1> HIDE DEF P
<1>3. /\ Cardinality(P) \in Nat /\ DOMAIN items = 1 .. Cardinality(P)
      /\ \A k \in DOMAIN items : items[k] \in P
  BY <1>2, AscendingLists
<1>4. items = [k \in DOMAIN items |-> items[k]]
  BY RankedIsList DEF Ascending
<1> HIDE DEF items
<1>5. items \in [1 .. Cardinality(P) -> P]
  BY <1>3, <1>4
<1>6. items \in Seq(P)
  BY <1>3, <1>5
<1>7. FlattenSeq(pages) = items
  BY <1>1, <1>6, PagesJoin
<1>8. \A from : ListSessions(transports, limit, from)
                  = [items |-> PySlice(items, from, from + limit), total |-> Len(items),
                     limit |-> limit, offset |-> from]
  BY <1>1 DEF ListSessions, Page, items, P
<1>9. /\ ListSessions(transports, limit, 0).total = Len(items)
      /\ ListSessions(transports, limit, 0).limit = limit
  BY <1>8
<1>10. [k \in 1 .. (Len(items) + limit - 1) \div limit |->
           ListSessions(transports, limit, (k - 1) * limit).items] = pages
  BY <1>8
<1> QED
  BY <1>7, <1>9, <1>10 DEF items, P

-----------------------------------------------------------------------------
(* A session has a time, or the number that stands for none.               *)
LEMMA SessionTimes ==
    ASSUME EvidenceInv, SessionInv, NEW i \in DOMAIN sessions
    PROVE  sessions[i].start \in Int
<1>1. PICK j \in 1 .. built : sessions[i] = BuildSession(flows[j]) /\ sessions[i] # NoSession
  BY DEF SessionInv
<1>2. built \in 0 .. Len(flows) /\ Len(flows) \in Nat /\ DOMAIN flows = 1 .. Len(flows)
  BY EvidenceParts, Counted DEF SessionsKept
<1>3. flows[j].start \in Nat
  BY <1>2 DEF SessionInv
<1>4. \A flow : BuildSession(flow) # NoSession => BuildSession(flow).start \in {NoTime, flow.start}
  <2> SUFFICES ASSUME NEW flow, BuildSession(flow) # NoSession
               PROVE  BuildSession(flow).start \in {NoTime, flow.start}
    OBVIOUS
  <2>1. BuildSession(flow).start = IF flow.c2s.start \in {NoTime, 0} THEN NoTime ELSE flow.start
    BY DEF BuildSession
  <2> QED
    BY <2>1
<1> QED
  BY <1>1, <1>3, <1>4 DEF NoTime

(* The sessions of a host with a version that was seen.                    *)
Shown(h) == {i \in OnHost(sessions, h) : sessions[i].transport # "plaintext" /\ sessions[i].tls.version # 0}
VersionOf(i) == VerOrder(sessions[i].tls.version)
Earlier(i, j) == Before(sessions, i, j)

(* What Versions lists: their versions, in the order of their times.       *)
IsCourse(w, vers, S) ==
    /\ DOMAIN w = DOMAIN vers /\ \A k \in DOMAIN w : w[k] \in S /\ vers[k] = VersionOf(w[k])
    /\ \A i \in S : \E k \in DOMAIN w : w[k] = i
    /\ \A j, k \in DOMAIN w : j < k <=> Earlier(w[j], w[k])

(* Versions is such a course of the sessions shown.                        *)
LEMMA VersionsInTime ==
    ASSUME Len(sessions) \in Nat, DOMAIN sessions = 1 .. Len(sessions),
           \A i \in DOMAIN sessions : sessions[i].start \in Int, NEW h
    PROVE  \E w : /\ IsCourse(w, Versions(sessions, h), Shown(h))
                  /\ Versions(sessions, h)
                        = [k \in DOMAIN Versions(sessions, h) |-> Versions(sessions, h)[k]]
                  /\ \E n \in Nat : DOMAIN w = 1 .. n
<1> DEFINE mine == OnHost(sessions, h)
           before == [i \in mine |-> {j \in mine : Before(sessions, j, i)}]
           ss == InTime(sessions, h)
           places == {k \in DOMAIN ss : sessions[ss[k]].transport # "plaintext"
                                        /\ sessions[ss[k]].tls.version # 0}
           order == Ascending(places)
           all == [k \in DOMAIN ss |-> VerOrder(sessions[ss[k]].tls.version)]
           w == [k \in DOMAIN order |-> ss[order[k]]]
           vers == Versions(sessions, h)
<1>1. IsFiniteSet(mine) /\ mine \subseteq 1 .. Len(sessions)
  <2>1. IsFiniteSet(1 .. Len(sessions)) /\ mine \subseteq 1 .. Len(sessions)
    BY FS_Interval DEF OnHost
  <2> QED
    BY <2>1, FS_Subset
<1>2. IsOrder(before)
  <2>1. \A i \in mine : sessions[i].start \in Int /\ i \in Int
    BY <1>1
  <2> HIDE DEF mine
  <2>2. DOMAIN before = mine /\ \A i \in mine : before[i] = {j \in mine : Before(sessions, j, i)}
    OBVIOUS
  <2>3. \A i \in mine : before[i] \subseteq mine /\ i \notin before[i]
    BY <2>1, <2>2 DEF Before
  <2>4. \A i, j \in mine : j \in before[i] => before[j] \subseteq before[i]
    <3> SUFFICES ASSUME NEW i \in mine, NEW j \in mine, Before(sessions, j, i),
                        NEW m \in mine, Before(sessions, m, j)
                 PROVE  Before(sessions, m, i)
      BY <2>2
    <3> QED
      BY <2>1 DEF Before
  <2>5. \A i, j \in mine : i # j => j \in before[i] \/ i \in before[j]
    BY <2>1, <2>2 DEF Before
  <2> QED
    BY <2>2, <2>3, <2>4, <2>5 DEF IsOrder
<1>3. Lists(ss, before) /\ Cardinality(mine) \in Nat
  <2>1. DOMAIN before = mine /\ ss = Ranked(before)
    BY DEF InTime
  <2> QED
    BY <1>1, <1>2, <2>1, RankedLists
<1>4. /\ DOMAIN ss = 1 .. Cardinality(mine) /\ \A k \in DOMAIN ss : ss[k] \in mine
      /\ \A i \in mine : \E k \in DOMAIN ss : ss[k] = i
      /\ \A j, k \in DOMAIN ss : j < k <=> Before(sessions, ss[j], ss[k])
  BY <1>3 DEF Lists
<1>5. vers = [k \in DOMAIN order |-> all[order[k]]]
  BY DEF Versions, Selected
<1> HIDE DEF ss, before
<1>6. places \in SUBSET Nat /\ IsFiniteSet(places)
  <2>1. places \subseteq 1 .. Cardinality(mine) /\ Cardinality(mine) \in Nat
    BY <1>3, <1>4
  <2>2. IsFiniteSet(1 .. Cardinality(mine))
    BY <2>1, FS_Interval
  <2> HIDE DEF places, mine
  <2>3. places \in SUBSET Nat
    BY <2>1
  <2>4. places \in SUBSET (1 .. Cardinality(mine))
    BY <2>1
  <2>5. IsFiniteSet(places)
    BY <2>2, <2>4, FS_Subset
  <2> QED
    BY <2>3, <2>5
<1>7. /\ Cardinality(places) \in Nat /\ DOMAIN order = 1 .. Cardinality(places)
      /\ \A k \in DOMAIN order : order[k] \in places
      /\ \A i \in places : \E k \in DOMAIN order : order[k] = i
      /\ \A j, k \in DOMAIN order : j < k <=> order[j] < order[k]
  BY <1>6, AscendingLists
<1> HIDE DEF order, mine
<1>8. DOMAIN w = DOMAIN vers /\ DOMAIN w = 1 .. Cardinality(places)
  BY <1>5, <1>7
<1>9. \A k \in DOMAIN order : w[k] \in Shown(h) /\ vers[k] = VersionOf(w[k])
  <2> SUFFICES ASSUME NEW k \in DOMAIN order PROVE w[k] \in Shown(h) /\ vers[k] = VersionOf(w[k])
    OBVIOUS
  <2>1. order[k] \in places /\ w[k] = ss[order[k]] /\ vers[k] = all[order[k]]
    BY <1>5, <1>7
  <2> QED
    BY <1>4, <2>1 DEF Shown, VersionOf, mine
<1>10. \A i \in Shown(h) : \E k \in DOMAIN order : w[k] = i
  <2> SUFFICES ASSUME NEW i \in Shown(h) PROVE \E k \in DOMAIN order : w[k] = i
    OBVIOUS
  <2>1. PICK p \in DOMAIN ss : ss[p] = i
    BY <1>4 DEF Shown, mine
  <2>2. p \in places
    BY <2>1 DEF Shown
  <2>3. PICK k \in DOMAIN order : order[k] = p
    BY <1>7, <2>2
  <2> QED
    BY <2>1, <2>3
<1>11. \A j, k \in DOMAIN order : j < k <=> Earlier(w[j], w[k])
  <2> SUFFICES ASSUME NEW j \in DOMAIN order, NEW k \in DOMAIN order
               PROVE  j < k <=> Earlier(w[j], w[k])
    OBVIOUS
  <2>1. order[j] \in DOMAIN ss /\ order[k] \in DOMAIN ss
    BY <1>7
  <2> QED
    BY <1>4, <1>7, <2>1 DEF Earlier
<1>12. vers = [k \in DOMAIN vers |-> vers[k]]
  BY <1>5
<1> HIDE DEF w, vers
<1> QED
  BY <1>7, <1>8, <1>9, <1>10, <1>11, <1>12 DEF IsCourse, vers

(* A fall between any two of a course of versions is one from some session *)
(* to the next, to a version no higher.                                    *)
LEMMA FallsSomewhere ==
    ASSUME NEW n \in Nat, NEW vers \in [1 .. n -> Int], NEW a \in 1 .. n, NEW b \in 1 .. n,
           a < b, vers[b] < vers[a]
    PROVE  \E k \in 2 .. n : vers[k] < vers[k - 1] /\ vers[k] <= vers[b]
<1> DEFINE Low == {k \in a .. b : vers[k] <= vers[b]}
<1>1. Low \in SUBSET Nat /\ Low # {}
  <2>1. b \in Low
    OBVIOUS
  <2> QED
    BY <2>1
<1>2. PICK c \in Low : \A k \in Low : c <= k
  BY <1>1, LeastNumber
<1>3. c # a /\ c \in 2 .. n /\ c - 1 \in a .. b /\ c - 1 \in 1 .. n
  BY <1>2
<1>4. c - 1 \notin Low
  BY <1>2
<1>5. vers[c] < vers[c - 1]
  BY <1>2, <1>3, <1>4
<1> QED
  BY <1>2, <1>3, <1>5

(* The rule finds a fall of the host, wherever other sessions lie between. *)
Fell(h) ==
    \E i, j \in Shown(h) : /\ Earlier(i, j) /\ VersionOf(j) < VersionOf(i)
                           /\ \E m \in Shown(h) : VersionOf(j) < VersionOf(m) - 1

(* Regression of a course of versions is a fall between two sessions.      *)
LEMMA RegressionIsFall ==
    ASSUME Len(sessions) \in Nat, DOMAIN sessions = 1 .. Len(sessions),
           \A i \in DOMAIN sessions : sessions[i].start \in Int, NEW h
    PROVE  Regression(Versions(sessions, h)) <=> Fell(h)
<1> DEFINE vers == Versions(sessions, h)
<1>0. PICK w : /\ IsCourse(w, vers, Shown(h)) /\ vers = [k \in DOMAIN vers |-> vers[k]]
               /\ \E n \in Nat : DOMAIN w = 1 .. n
  BY VersionsInTime
<1>1. PICK n \in Nat : IsCourse(w, vers, Shown(h)) /\ DOMAIN w = 1 .. n
  BY <1>0
<1>2. /\ DOMAIN vers = 1 .. n /\ \A k \in 1 .. n : w[k] \in Shown(h) /\ vers[k] = VersionOf(w[k])
      /\ \A i \in Shown(h) : \E k \in 1 .. n : w[k] = i
      /\ \A j, k \in 1 .. n : j < k <=> Earlier(w[j], w[k])
  BY <1>1 DEF IsCourse
<1>3. \A i : VersionOf(i) \in Int
  BY DEF VersionOf, VerOrder
<1> HIDE DEF vers
<1>5. vers \in [1 .. n -> Int] /\ Len(vers) = n
  BY <1>0, <1>2, <1>3
<1>6. ASSUME Regression(vers) PROVE Fell(h)
  <2>1. PICK k \in 2 .. n : vers[k] < vers[k - 1] /\ \E m \in 1 .. n : vers[k] < vers[m] - 1
    BY <1>2, <1>5, <1>6 DEF Regression
  <2>2. PICK m \in 1 .. n : vers[k] < vers[m] - 1
    BY <2>1
  <2>3. k \in 1 .. n /\ k - 1 \in 1 .. n /\ k - 1 < k
    OBVIOUS
  <2>4. Earlier(w[k - 1], w[k]) /\ w[k] \in Shown(h) /\ w[k - 1] \in Shown(h) /\ w[m] \in Shown(h)
    BY <1>2, <2>3
  <2>5. /\ vers[k] = VersionOf(w[k]) /\ vers[k - 1] = VersionOf(w[k - 1])
        /\ vers[m] = VersionOf(w[m])
    BY <1>2, <2>3
  <2> QED
    BY <2>1, <2>2, <2>4, <2>5 DEF Fell
<1>7. ASSUME Fell(h) PROVE Regression(vers)
  <2>1. PICK i \in Shown(h), j \in Shown(h), m \in Shown(h) :
           Earlier(i, j) /\ VersionOf(j) < VersionOf(i) /\ VersionOf(j) < VersionOf(m) - 1
    BY <1>7 DEF Fell
  <2>2. PICK a \in 1 .. n, b \in 1 .. n, c \in 1 .. n : w[a] = i /\ w[b] = j /\ w[c] = m
    BY <1>2
  <2>3. a < b /\ vers[b] < vers[a] /\ vers[b] < vers[c] - 1
    BY <1>2, <2>1, <2>2
  <2>4. PICK k \in 2 .. n : vers[k] < vers[k - 1] /\ vers[k] <= vers[b]
    BY <1>5, <2>3, FallsSomewhere
  <2>5. vers[k] < vers[c] - 1
    <3>1. vers[k] \in Int /\ vers[b] \in Int /\ vers[c] \in Int
      BY <1>5
    <3> QED
      BY <2>3, <2>4, <3>1
  <2> QED
    BY <1>2, <1>5, <2>4, <2>5 DEF Regression
<1> QED
  BY <1>6, <1>7 DEF vers

-----------------------------------------------------------------------------
(* A set of numbers leaves one out above any number, if it is finite.      *)
LEMMA FirstOutside ==
    ASSUME NEW H \in SUBSET Nat, IsFiniteSet(H), NEW lo \in H
    PROVE  \E n \in Nat : n > lo /\ n \notin H /\ lo .. n - 1 \subseteq H
<1> DEFINE G == {n \in Nat : n > lo /\ n \notin H}
           c == Cardinality(H)
<1>1. c \in Nat /\ lo \in Nat
  BY FS_CardinalityType
<1>2. G # {}
  <2> SUFFICES ASSUME G = {} PROVE FALSE
    OBVIOUS
  <2> HIDE DEF c
  <2>1. lo .. lo + c \subseteq H
    <3> SUFFICES ASSUME NEW n \in lo .. lo + c PROVE n \in H
      OBVIOUS
    <3>1. n \in Nat /\ (n = lo \/ n > lo)
      BY <1>1
    <3> QED
      BY <3>1
  <2>2. IsFiniteSet(lo .. lo + c) /\ Cardinality(lo .. lo + c) = c + 1
    BY <1>1, FS_Interval
  <2>3. Cardinality(lo .. lo + c) <= c
    BY <2>1, FS_Subset DEF c
  <2> QED
    BY <1>1, <2>2, <2>3
<1>3. PICK n \in G : \A m \in G : n <= m
  BY <1>2, LeastNumber
<1>4. lo .. n - 1 \subseteq H
  <2> SUFFICES ASSUME NEW m \in lo .. n - 1 PROVE m \in H
    OBVIOUS
  <2>1. m \in Nat /\ m \notin G
    BY <1>1, <1>3
  <2> QED
    BY <1>1, <2>1
<1> QED
  BY <1>3, <1>4

(* A direction whose segments have their places and units.                 *)
Placed(d, U) ==
    \E A : /\ d.segments \in Seq(A)
           /\ \A s \in A : s.seq \in Nat /\ s.payload \in Seq(U)
Span(s) == s.seq .. s.seq + Len(s.payload) - 1
HeldBy(d) == UNION {Span(d.segments[i]) : i \in WithData(d)}

(* The places held are finitely many natural numbers, some if any data is. *)
LEMMA PlacesHeld ==
    ASSUME NEW U, NEW d, Placed(d, U)
    PROVE  /\ WithData(d) \in SUBSET Nat /\ IsFiniteSet(WithData(d))
           /\ \A i \in WithData(d) :
                 /\ d.segments[i].seq \in Nat /\ d.segments[i].payload \in Seq(U)
                 /\ Len(d.segments[i].payload) \in Nat \ {0}
           /\ HeldBy(d) \in SUBSET Nat /\ IsFiniteSet(HeldBy(d))
           /\ WithData(d) # {} => HeldBy(d) # {}
<1>1. PICK A : d.segments \in Seq(A) /\ \A s \in A : s.seq \in Nat /\ s.payload \in Seq(U)
  BY DEF Placed
<1>2. Len(d.segments) \in Nat /\ DOMAIN d.segments = 1 .. Len(d.segments)
      /\ \A i \in 1 .. Len(d.segments) : d.segments[i] \in A
  BY <1>1, LenProperties
<1>3. WithData(d) \in SUBSET (1 .. Len(d.segments))
  BY <1>2 DEF WithData
<1>4. WithData(d) \in SUBSET Nat /\ IsFiniteSet(WithData(d))
  <2>1. IsFiniteSet(1 .. Len(d.segments))
    BY <1>2, FS_Interval
  <2>2. IsFiniteSet(WithData(d))
    BY <1>3, <2>1, FS_Subset
  <2> QED
    BY <1>2, <1>3, <2>2
<1>5. ASSUME NEW i \in WithData(d)
      PROVE  /\ d.segments[i].seq \in Nat /\ d.segments[i].payload \in Seq(U)
             /\ Len(d.segments[i].payload) \in Nat \ {0}
  <2>1. d.segments[i] \in A /\ d.segments[i].payload # <<>>
    BY <1>2, <1>3 DEF WithData
  <2> QED
    BY <1>1, <2>1, EmptySeq
<1>6. \A i \in WithData(d) :
         Span(d.segments[i]) \in SUBSET Nat /\ IsFiniteSet(Span(d.segments[i])) /\ Span(d.segments[i]) # {}
  <2> SUFFICES ASSUME NEW i \in WithData(d), NEW q, q = d.segments[i].seq,
                      NEW n, n = Len(d.segments[i].payload)
               PROVE  q .. q + n - 1 \in SUBSET Nat /\ IsFiniteSet(q .. q + n - 1) /\ q .. q + n - 1 # {}
    BY DEF Span
  <2>1. q \in Nat /\ n \in Nat \ {0}
    BY <1>5
  <2>2. q \in Int /\ q + n - 1 \in Int /\ q \in q .. q + n - 1
    BY <2>1, SMTT(30)
  <2>3. IsFiniteSet(q .. q + n - 1)
    BY <2>2, FS_Interval
  <2> QED
    BY <2>1, <2>2, <2>3
<1> DEFINE spans == {Span(d.segments[i]) : i \in WithData(d)}
<1>7. IsFiniteSet(HeldBy(d))
  <2> DEFINE span == [i \in WithData(d) |-> Span(d.segments[i])]
  <2>1. span \in Surjection(WithData(d), spans)
    BY DEF Surjection
  <2>2. IsFiniteSet(spans)
    BY <1>4, <2>1, FS_Surjection
  <2>3. \A s \in spans : IsFiniteSet(s)
    BY <1>6
  <2> QED
    BY <2>2, <2>3, FS_UNION DEF HeldBy
<1>8. HeldBy(d) \in SUBSET Nat /\ (WithData(d) # {} => HeldBy(d) # {})
  <2>1. \A s \in spans : s \in SUBSET Nat /\ s # {}
    BY <1>6
  <2>2. WithData(d) # {} => spans # {}
    OBVIOUS
  <2>3. HeldBy(d) = UNION spans
    BY DEF HeldBy
  <2> HIDE DEF spans
  <2> QED
    BY <2>1, <2>2, <2>3
<1> QED
  BY <1>4, <1>5, <1>7, <1>8

(* Where reassembly starts and ends.                                       *)
LEMMA BoundsHeld ==
    ASSUME NEW U, NEW d, Placed(d, U), WithData(d) # {}
    PROVE  LET b == Bounds(d)
           IN  /\ b[1] \in Nat /\ b[2] \in Nat /\ b[1] < b[2] /\ b[1] .. b[2] - 1 \subseteq HeldBy(d)
               /\ b[1] \in HeldBy(d) /\ (\A m \in HeldBy(d) : b[1] <= m) /\ b[2] \notin HeldBy(d)
<1> DEFINE held == HeldBy(d)
           lo == CHOOSE n \in held : \A m \in held : n <= m
           hi == CHOOSE n \in {m + 1 : m \in held} : n \notin held /\ lo .. n - 1 \subseteq held
<1>1. held \in SUBSET Nat /\ IsFiniteSet(held) /\ held # {}
  BY PlacesHeld
<1>2. Bounds(d) = <<lo, hi>>
  BY DEF Bounds, HeldBy, Span
<1> HIDE DEF held
<1>3. lo \in held /\ \A m \in held : lo <= m
  BY <1>1, LeastNumber
<1> HIDE DEF lo
<1>4. PICK n \in Nat : n > lo /\ n \notin held /\ lo .. n - 1 \subseteq held
  BY <1>1, <1>3, FirstOutside
<1>5. n \in {m + 1 : m \in held}
  <2>1. lo \in Nat /\ n - 1 \in lo .. n - 1 /\ (n - 1) + 1 = n
    BY <1>1, <1>3, <1>4
  <2> QED
    BY <1>4, <2>1
<1>6. hi \in {m + 1 : m \in held} /\ hi \notin held /\ lo .. hi - 1 \subseteq held
  BY <1>4, <1>5
<1> HIDE DEF hi
<1>7. lo \in Nat /\ hi \in Nat /\ lo < hi
  <2>1. PICK m \in held : hi = m + 1
    BY <1>6
  <2>2. m \in Nat /\ lo \in Nat /\ lo <= m
    BY <1>1, <1>3, <2>1
  <2> QED
    BY <2>1, <2>2
<1>8. /\ lo .. hi - 1 \subseteq HeldBy(d) /\ hi \notin HeldBy(d)
      /\ lo \in HeldBy(d) /\ \A m \in HeldBy(d) : lo <= m
  BY <1>3, <1>6 DEF held
<1> QED
  BY <1>2, <1>7, <1>8

-----------------------------------------------------------------------------
(* What stands at a place that is held is the unit of a segment there.     *)
LEMMA UnitUsed ==
    ASSUME NEW U, NEW d, Placed(d, U), NEW n \in HeldBy(d)
    PROVE  \E i \in WithData(d) :
              /\ Covers(d.segments[i], n)
              /\ Unit(d, n) = d.segments[i].payload[n - d.segments[i].seq + 1]
<1> DEFINE over == {i \in WithData(d) : Covers(d.segments[i], n)}
           place == [i \in over |-> d.segments[i].seq]
<1>1. /\ WithData(d) \in SUBSET Nat /\ n \in Nat
      /\ \A i \in WithData(d) :
            /\ d.segments[i].seq \in Nat /\ d.segments[i].payload \in Seq(U)
            /\ Len(d.segments[i].payload) \in Nat \ {0}
  BY PlacesHeld
<1>2. over # {}
  <2>1. PICK i \in WithData(d) : n \in Span(d.segments[i])
    BY DEF HeldBy
  <2>2. Covers(d.segments[i], n)
    BY <1>1, <2>1 DEF Span, Covers
  <2> QED
    BY <2>2
<1>3. over \in SUBSET Nat /\ place \in [over -> Nat]
  BY <1>1
<1>4. PICK i \in over : \A j \in over : place[i] < place[j] \/ (place[i] = place[j] /\ i <= j)
  BY <1>2, <1>3, LeastOfLeast
<1> DEFINE Used(k) == /\ Covers(d.segments[k], n)
                      /\ \A j \in WithData(d) : Covers(d.segments[j], n) =>
                            \/ d.segments[k].seq < d.segments[j].seq
                            \/ d.segments[k].seq = d.segments[j].seq /\ k <= j
           u == CHOOSE k \in WithData(d) : Used(k)
<1>5. \E j \in WithData(d) : Used(j)
  BY <1>4
<1>6. u \in WithData(d) /\ Used(u)
  BY <1>5
<1>7. Unit(d, n) = d.segments[u].payload[n - d.segments[u].seq + 1]
  BY DEF Unit
<1> QED
  BY <1>6, <1>7

(* So it is one of the units of the segments.                              *)
LEMMA UnitHeld ==
    ASSUME NEW U, NEW d, Placed(d, U), NEW n \in HeldBy(d)
    PROVE  Unit(d, n) \in U
<1>1. PICK i \in WithData(d) :
         /\ Covers(d.segments[i], n)
         /\ Unit(d, n) = d.segments[i].payload[n - d.segments[i].seq + 1]
  BY UnitUsed
<1>2. n \in Nat /\ d.segments[i].seq \in Nat /\ d.segments[i].payload \in Seq(U)
  BY PlacesHeld
<1> DEFINE q == d.segments[i].seq
           p == d.segments[i].payload
<1>3. q \in Nat /\ p \in Seq(U) /\ q <= n /\ n < q + Len(p)
  BY <1>1, <1>2 DEF Covers
<1>4. Unit(d, n) = p[n - q + 1]
  BY <1>1
<1> HIDE DEF q, p
<1>5. n - q + 1 \in 1 .. Len(p)
  BY <1>2, <1>3, LenProperties
<1> QED
  BY <1>3, <1>4, <1>5

(* What is reassembled from a direction are units of its segments.         *)
LEMMA ReassembledUnits ==
    ASSUME NEW U, NEW d, Placed(d, U)
    PROVE  Reassemble(d) \in Seq(U)
<1>1. CASE WithData(d) = {}
  BY <1>1, EmptySeq DEF Reassemble
<1>2. CASE WithData(d) # {}
  <2> DEFINE lo == Bounds(d)[1]
             hi == Bounds(d)[2]
  <2>1. lo \in Nat /\ hi \in Nat /\ lo < hi /\ lo .. hi - 1 \subseteq HeldBy(d)
    BY <1>2, BoundsHeld
  <2>2. Reassemble(d) = [k \in 1 .. hi - lo |-> Unit(d, lo + k - 1)]
    BY <1>2 DEF Reassemble
  <2> HIDE DEF lo, hi
  <2>3. ASSUME NEW k \in 1 .. hi - lo
        PROVE  Unit(d, lo + k - 1) \in U
    <3>1. lo + k - 1 \in lo .. hi - 1
      BY <2>1
    <3> QED
      BY <2>1, <3>1, UnitHeld
  <2>4. [k \in 1 .. hi - lo |-> Unit(d, lo + k - 1)] \in [1 .. hi - lo -> U] /\ hi - lo \in Nat
    BY <2>1, <2>3
  <2> QED
    BY <2>2, <2>4, SeqDef
<1> QED
  BY <1>1, <1>2

(* The units of an uploaded capture, and the certificates they offer.      *)
Units == UNION {ToSet(p.payload) : p \in PacketsOf(capture)}
Offered == UNION {ToSet(u.chain) : u \in {u \in Units : u.kind = "certificate"}}

(* Certificate messages carry certificates on offer, and these have dates. *)
LEMMA OfferedChains ==
    ASSUME capture \in Captures
    PROVE  /\ \A u \in Units : u.kind = "certificate" => u.chain \in Seq(Offered)
           /\ \A x \in Offered : Readable(x) => Dated(x)
<1>1. ASSUME NEW u \in Units, u.kind = "certificate"
      PROVE  u.chain \in Seq(ToSet(u.chain)) /\ \A x \in ToSet(u.chain) : Readable(x) => Dated(x)
  BY <1>1, CertificatesAssumption DEF Units
<1>2. ASSUME NEW u \in Units, u.kind = "certificate"
      PROVE  u.chain \in Seq(Offered)
  <2>1. ToSet(u.chain) \subseteq Offered
    BY <1>2 DEF Offered
  <2> QED
    BY <1>1, <1>2, <2>1, SeqMonotonic
<1>3. ASSUME NEW x \in Offered, Readable(x)
      PROVE  Dated(x)
  <2>1. PICK u \in Units : u.kind = "certificate" /\ x \in ToSet(u.chain)
    BY DEF Offered
  <2> QED
    BY <1>1, <1>3, <2>1
<1> QED
  BY <1>2, <1>3

(* The directions of a flow hold such units.                               *)
LEMMA FlowsArePlaced ==
    ASSUME FlowInv, capture \in Captures, NEW j \in DOMAIN flows
    PROVE  Placed(flows[j].c2s, Units) /\ Placed(flows[j].s2c, Units)
<1>1. ASSUME NEW k \in TcpRead
      PROVE  SegmentOf(k).seq \in Nat /\ SegmentOf(k).payload \in Seq(Units)
  <2>1. k \in 1 .. read /\ IsTcp(Frames[k])
    BY DEF TcpRead
  <2>2. k \in 1 .. Len(capture.frames) /\ Frames[k] = capture.frames[k]
    <3>1. read \in Nat /\ Len(capture.frames) \in Nat /\ read <= Len(capture.frames)
      BY Counted
    <3>2. Handled(capture.link)
      BY <2>1 DEF IsTcp, Handled
    <3> QED
      BY <2>1, <3>1, <3>2 DEF Frames
  <2>3. Frames[k] \in ToSet(capture.frames) /\ Frames[k].of # <<>>
    BY <2>1, <2>2 DEF IsTcp, NotTcp, ToSet
  <2>4. PacketOf(Frames[k]) \in PacketsOf(capture)
    BY <2>3 DEF PacketOf, PacketsOf
  <2> DEFINE p == PacketOf(Frames[k])
  <2> HIDE DEF p
  <2>5. p.seq \in Nat /\ p.payload \in Seq(ToSet(p.payload)) /\ ToSet(p.payload) \subseteq Units
    BY <2>4, CapturesAssumption DEF Units, p
  <2>6. p.payload \in Seq(Units)
    BY <2>5, SeqMonotonic
  <2>7. SegmentOf(k).seq = p.seq /\ SegmentOf(k).payload = p.payload
    BY DEF SegmentOf, p
  <2> QED
    BY <2>5, <2>6, <2>7
<1>2. /\ flows[j].c2s.segments \in Seq(SegmentsOf(FromSrc(flows[j])))
      /\ flows[j].s2c.segments \in Seq(SegmentsOf(FromDst(flows[j])))
  BY DEF FlowInv, Keeps
<1>3. FromSrc(flows[j]) \subseteq TcpRead /\ FromDst(flows[j]) \subseteq TcpRead
  BY DEF FromSrc, FromDst, InFlow
<1>4. \A s \in SegmentsOf(FromSrc(flows[j])) \cup SegmentsOf(FromDst(flows[j])) :
         s.seq \in Nat /\ s.payload \in Seq(Units)
  BY <1>1, <1>3 DEF SegmentsOf
<1> QED
  BY <1>2, <1>4 DEF Placed

-----------------------------------------------------------------------------
(* parse_stream, read unit by unit, has what it has read so far.           *)
Reading(g, m, stream) ==
    g = [n \in 0 .. m |-> IF n = 0 THEN NoInfo ELSE ReadUnit(g[n - 1], stream[n])]

(* There is such a reading for every length.                               *)
LEMMA ReadingExists ==
    ASSUME NEW stream, NEW m \in Nat
    PROVE  \E g : Reading(g, m, stream)
<1> DEFINE Bad == {k \in Nat : ~ \E g : Reading(g, k, stream)}
<1> SUFFICES ASSUME Bad # {} PROVE FALSE
  OBVIOUS
<1>1. PICK k \in Bad : \A l \in Bad : k <= l
  BY LeastNumber
<1>2. k # 0
  <2> DEFINE g == [n \in 0 .. 0 |-> NoInfo]
  <2>1. g = [n \in 0 .. 0 |-> IF n = 0 THEN NoInfo ELSE ReadUnit(g[n - 1], stream[n])]
    OBVIOUS
  <2>2. Reading(g, 0, stream)
    BY <2>1 DEF Reading
  <2> QED
    BY <2>2
<1>3. PICK g : Reading(g, k - 1, stream)
  <2>1. k - 1 \in Nat /\ k - 1 \notin Bad
    BY <1>1, <1>2
  <2> QED
    BY <2>1
<1> DEFINE h == [n \in 0 .. k |-> IF n = k THEN ReadUnit(g[k - 1], stream[k]) ELSE g[n]]
<1>4. ASSUME NEW n \in 0 .. k
      PROVE  h[n] = IF n = 0 THEN NoInfo ELSE ReadUnit(h[n - 1], stream[n])
  <2>1. k \in Nat \ {0}
    BY <1>1, <1>2
  <2>2. CASE n = k
    <3>1. h[n] = ReadUnit(g[k - 1], stream[k]) /\ h[n - 1] = g[k - 1]
      BY <2>1, <2>2
    <3> QED
      BY <2>1, <2>2, <3>1
  <2>3. CASE n # k
    <3>1. n \in 0 .. k - 1 /\ h[n] = g[n] /\ (n # 0 => h[n - 1] = g[n - 1])
      BY <2>1, <2>3
    <3>2. g[n] = IF n = 0 THEN NoInfo ELSE ReadUnit(g[n - 1], stream[n])
      BY <1>3, <3>1 DEF Reading
    <3> QED
      BY <3>1, <3>2
  <2> QED
    BY <2>2, <2>3
<1>5. h = [n \in 0 .. k |-> h[n]]
  OBVIOUS
<1> HIDE DEF h
<1>6. Reading(h, k, stream)
  BY <1>4, <1>5 DEF Reading
<1> QED
  BY <1>1, <1>6

(* A unit adds to the chain only what it carries as a certificate message. *)
Chained(i, S) == DOMAIN i = DOMAIN NoInfo /\ i.chain \in Seq(S)

(* One unit keeps the chain in what certificate messages carry.            *)
LEMMA UnitChained ==
    ASSUME NEW S, NEW i, Chained(i, S), NEW u, u.kind = "certificate" => u.chain \in Seq(S)
    PROVE  Chained(ReadUnit(i, u), S)
<1>1. "chain" \in DOMAIN i /\ i.chain \in Seq(S)
  BY DEF Chained, NoInfo
<1>2. u.kind = "certificate" => i.chain \o u.chain \in Seq(S)
  BY <1>1, ConcatProperties
<1> DEFINE c == i.chain \o u.chain
<1> HIDE DEF c
<1>3. /\ DOMAIN ReadUnit(i, u) = DOMAIN i
      /\ ReadUnit(i, u).chain = i.chain \/ (u.kind = "certificate" /\ ReadUnit(i, u).chain = c)
  BY <1>1 DEF ReadUnit, c
<1> QED
  BY <1>1, <1>2, <1>3 DEF Chained, c

(* The chain of a stream is made of what its certificate messages carry.   *)
LEMMA ParsedChain ==
    ASSUME NEW U, NEW S, \A u \in U : u.kind = "certificate" => u.chain \in Seq(S),
           NEW stream \in Seq(U)
    PROVE  ParseStream(stream).chain \in Seq(S)
<1> DEFINE m == Len(stream)
           info == CHOOSE g : Reading(g, m, stream)
<1>1. m \in Nat /\ \A n \in 1 .. m : stream[n] \in U
  BY LenProperties
<1>2. Reading(info, m, stream)
  BY <1>1, ReadingExists
<1>3. ParseStream(stream) = [info[m] EXCEPT !.complete = @ /\ info[m].alerts \cap FailedHandshake = {}]
  BY DEF ParseStream, Reader, Reading
<1> HIDE DEF info
<1>4. \A n \in 0 .. m : info[n] = IF n = 0 THEN NoInfo ELSE ReadUnit(info[n - 1], stream[n])
  BY <1>2 DEF Reading
<1> DEFINE Bad == {n \in 0 .. m : ~Chained(info[n], S)}
<1>5. Bad = {}
  <2> SUFFICES ASSUME Bad # {} PROVE FALSE
    OBVIOUS
  <2>1. PICK n \in Bad : \A l \in Bad : n <= l
    <3>1. Bad \in SUBSET Nat
      BY <1>1
    <3> QED
      BY <3>1, LeastNumber
  <2>2. n # 0
    <3>1. Chained(NoInfo, S)
      BY EmptySeq DEF Chained, NoInfo
    <3> QED
      BY <1>1, <1>4, <2>1, <3>1
  <2>3. n - 1 \in 0 .. m /\ n \in 1 .. m /\ n - 1 \notin Bad
    BY <1>1, <2>1, <2>2
  <2>4. Chained(info[n - 1], S) /\ (stream[n].kind = "certificate" => stream[n].chain \in Seq(S))
    BY <1>1, <2>3
  <2>5. Chained(ReadUnit(info[n - 1], stream[n]), S)
    BY <2>4, UnitChained
  <2> QED
    BY <1>4, <2>1, <2>3, <2>5
<1>6. Chained(info[m], S)
  <2>1. m \in 0 .. m
    BY <1>1
  <2> QED
    BY <1>5, <2>1
<1> QED
  BY <1>3, <1>6 DEF Chained, NoInfo

-----------------------------------------------------------------------------
(* LocalInv, a conjunct at a time: how far the loops have come, ...        *)
LoopsEnded ==
    /\ stage \notin {"ingest", "raised"} => read = Len(Frames)
    /\ stage \notin {"ingest", "raised", "protocol-id"} => built = Len(flows)
(* ... what a flow has of its frames, ...                                  *)
OpenedIn(K, f) ==
    /\ f.saw_syn_from_src => \E n \in Own(K, f) : PacketOf(Frames[n]).src = f.src /\ Opens(n)
    /\ f.saw_synack_from_dst => \E n \in Own(K, f) : PacketOf(Frames[n]).src # f.src /\ Opens(n)
FlowNoted(K, f) == Counts(f.c2s) /\ Counts(f.s2c) /\ OpenedIn(K, f)
FlowsNoted == \A i \in DOMAIN flows : FlowNoted(TcpRead, flows[i])
(* ... that no flow is without its session, ...                            *)
HasSession(j) ==
    Finished(flows[j]) /\ BuildSession(flows[j]) # NoSession
        => \E i \in DOMAIN sessions :
              sessions[i].frames = FramesOf(flows[j].c2s) \o FramesOf(flows[j].s2c)
EachHasASession == \A j \in 1 .. built : HasSession(j)
(* ... and no session there twice.                                         *)
EndsOfSession(s) == {s.client, s.server}
OncePerEnds ==
    \A i, j \in DOMAIN sessions :
        EndsOfSession(sessions[i]) = EndsOfSession(sessions[j])
        /\ sessions[i].client.host # sessions[i].server.host => i = j

(* LocalInv is these four, before a step and after it.                     *)
LEMMA LocalParts ==
    LocalInv <=> LoopsEnded /\ FlowsNoted /\ EachHasASession /\ OncePerEnds
<1>1. ASSUME NEW i \in DOMAIN flows
      PROVE  OpenedIn(TcpRead, flows[i]) <=>
                /\ flows[i].saw_syn_from_src => \E n \in FromSrc(flows[i]) : Opens(n)
                /\ flows[i].saw_synack_from_dst => \E n \in FromDst(flows[i]) : Opens(n)
  BY DEF OpenedIn, FromSrc, FromDst, InFlow, Own
<1>2. EachHasASession <=>
        \A j \in 1 .. built : Finished(flows[j]) =>
           \/ \E i \in DOMAIN sessions :
                 sessions[i].frames = FramesOf(flows[j].c2s) \o FramesOf(flows[j].s2c)
           \/ BuildSession(flows[j]) = NoSession
  BY DEF EachHasASession, HasSession
<1> QED
  BY <1>1, <1>2 DEF LocalInv, LoopsEnded, FlowsNoted, FlowNoted, OncePerEnds, EndsOfSession

(* And the four of the next state make the LocalInv of the next state.     *)
LEMMA LocalPartsThen ==
    ASSUME capture' = capture,
           LoopsEnded', \A i \in DOMAIN flows' : FlowNoted(TcpRead', flows'[i]),
           EachHasASession', OncePerEnds'
    PROVE  LocalInv'
<1>1. \A k : PacketOf(Frames[k])' = PacketOf(Frames[k])
  BY SameFile
<1>2. \A n : Opens(n)' <=> Opens(n)
  BY <1>1 DEF Opens
<1>3. ASSUME NEW i \in DOMAIN flows'
      PROVE  /\ Counts(flows[i].c2s)' /\ Counts(flows[i].s2c)'
             /\ flows'[i].saw_syn_from_src => \E n \in FromSrc(flows[i])' : Opens(n)'
             /\ flows'[i].saw_synack_from_dst => \E n \in FromDst(flows[i])' : Opens(n)'
  <2>1. InFlow(flows[i])' = Own(TcpRead', flows'[i])
    BY <1>1 DEF InFlow, Own, KeyOf
  <2>2. FromSrc(flows[i])' = {k \in Own(TcpRead', flows'[i]) : PacketOf(Frames[k]).src = flows'[i].src}
    BY <1>1, <2>1 DEF FromSrc
  <2>3. FromDst(flows[i])' = {k \in Own(TcpRead', flows'[i]) : PacketOf(Frames[k]).src # flows'[i].src}
    BY <2>1, <2>2 DEF FromDst
  <2>4. Counts(flows'[i].c2s) /\ Counts(flows'[i].s2c) /\ OpenedIn(TcpRead', flows'[i])
    BY DEF FlowNoted
  <2> QED
    BY <1>2, <2>2, <2>3, <2>4 DEF Counts, OpenedIn
<1>4. \A j \in 1 .. built' : Finished(flows'[j]) =>
           \/ \E i \in DOMAIN sessions' :
                 sessions'[i].frames = FramesOf(flows'[j].c2s) \o FramesOf(flows'[j].s2c)
           \/ BuildSession(flows'[j]) = NoSession
  BY DEF EachHasASession, HasSession
<1> QED
  BY <1>3, <1>4 DEF LocalInv, LoopsEnded, OncePerEnds, EndsOfSession, Finished, BuildSession

-----------------------------------------------------------------------------
(* A stream that counts what it has counts one segment more.               *)
LEMMA CountsOneMore ==
    ASSUME NEW U, NEW d, Placed(d, U), Counts(d), NEW seg, Len(seg.payload) \in Nat, NEW ts
    PROVE  Counts(AddSegment(d, seg, ts))
<1>0. PICK A : d.segments \in Seq(A) /\ \A s \in A : s.payload \in Seq(U)
  BY DEF Placed
<1> DEFINE total == d.total + Len(seg.payload)
           new   == AddSegment(d, seg, ts)
<1>1. new.total = total /\ new.segments \in {d.segments, Append(d.segments, seg)}
  BY DEF AddSegment
<1>2. ToSet(d.segments) \subseteq A
  <2>1. \A i \in DOMAIN d.segments : d.segments[i] \in A
    BY <1>0, LenProperties
  <2> QED
    BY <2>1 DEF ToSet
<1>3. ToSet(Append(d.segments, seg)) = ToSet(d.segments) \cup {seg}
  BY <1>0, Appended
<1>4. d.total \in Nat /\ total \in Nat
      /\ \A s \in ToSet(d.segments) : Len(s.payload) <= total
  <2>1. \A s \in A : Len(s.payload) \in Nat
    BY <1>0, LenProperties
  <2> QED
    BY <1>2, <2>1 DEF Counts
<1>5. Len(seg.payload) <= total
  BY DEF Counts
<1> HIDE DEF total, new
<1>6. \A s \in ToSet(new.segments) : Len(s.payload) <= total
  BY <1>1, <1>3, <1>4, <1>5
<1> QED
  BY <1>1, <1>4, <1>6 DEF Counts, new

(* What the flags of a flow are after a packet.                            *)
LEMMA FlagsOfPacket ==
    ASSUME NEW flow, DOMAIN flow = FlowFields, NEW p, NEW ts, NEW k,
           NEW new, new = AddPacket(flow, p, ts, k)
    PROVE  /\ new.saw_syn_from_src => flow.saw_syn_from_src \/ (p.syn /\ ~p.ack /\ p.src = flow.src)
           /\ new.saw_synack_from_dst => flow.saw_synack_from_dst \/ (p.syn /\ ~p.ack /\ p.src # flow.src)
BY Zenon DEF AddPacket, FlowFields

(* A packet put into its flow: what the flow notes stays true.             *)
LEMMA PacketNoted ==
    ASSUME NEW K, NEW f, DOMAIN f = FlowFields, FlowNoted(K, f), NEW U, NEW k, NEW ts,
           Placed(f.c2s, U), Placed(f.s2c, U), Len(PacketOf(Frames[k]).payload) \in Nat,
           KeyOf(PacketOf(Frames[k])) = KeyOf(f), NEW g, g = AddPacket(f, PacketOf(Frames[k]), ts, k)
    PROVE  FlowNoted(K \cup {k}, g)
<1> DEFINE p == PacketOf(Frames[k])
<1>1. /\ DOMAIN g = FlowFields /\ g.src = f.src /\ g.dst = f.dst
      /\ g.c2s = IF p.src = f.src THEN AddSegment(f.c2s, SegmentOf(k), ts) ELSE f.c2s
      /\ g.s2c = IF p.src = f.src THEN f.s2c ELSE AddSegment(f.s2c, SegmentOf(k), ts)
  BY PacketAdded DEF SegmentOf
<1>2. Len(SegmentOf(k).payload) \in Nat
  BY DEF SegmentOf
<1>3. Counts(f.c2s) /\ Counts(f.s2c) /\ OpenedIn(K, f)
  BY DEF FlowNoted
<1>4. Counts(AddSegment(f.c2s, SegmentOf(k), ts)) /\ Counts(AddSegment(f.s2c, SegmentOf(k), ts))
  BY <1>2, <1>3, CountsOneMore
<1>5. Counts(g.c2s) /\ Counts(g.s2c)
  BY <1>1, <1>3, <1>4
<1>6. Own(K \cup {k}, g) = Own(K, f) \cup {k}
  BY <1>1 DEF Own, KeyOf
<1>7. /\ g.saw_syn_from_src => f.saw_syn_from_src \/ (Opens(k) /\ p.src = f.src)
      /\ g.saw_synack_from_dst => f.saw_synack_from_dst \/ (Opens(k) /\ p.src # f.src)
  BY FlagsOfPacket DEF Opens
<1>8. OpenedIn(K \cup {k}, g)
  <2>1. ASSUME g.saw_syn_from_src
        PROVE  \E n \in Own(K, f) \cup {k} : PacketOf(Frames[n]).src = f.src /\ Opens(n)
    BY <1>3, <1>7, <2>1 DEF OpenedIn
  <2>2. ASSUME g.saw_synack_from_dst
        PROVE  \E n \in Own(K, f) \cup {k} : PacketOf(Frames[n]).src # f.src /\ Opens(n)
    BY <1>3, <1>7, <2>2 DEF OpenedIn
  <2> QED
    BY <1>1, <1>6, <2>1, <2>2 DEF OpenedIn
<1> QED
  BY <1>5, <1>8 DEF FlowNoted

(* A frame of another flow changes nothing of what a flow notes, and a     *)
(* flow without frames notes nothing.                                      *)
LEMMA OthersNoted ==
    ASSUME NEW K, NEW f, FlowNoted(K, f), NEW L, K \subseteq L
    PROVE  FlowNoted(L, f)
<1>1. Own(K, f) \subseteq Own(L, f)
  BY DEF Own
<1> QED
  BY <1>1 DEF FlowNoted, OpenedIn

(* The flow that a packet opens notes that packet.                         *)
LEMMA NewNoted ==
    ASSUME NEW K, NEW p
    PROVE  FlowNoted(K, NewFlow(p))
<1>1. Counts(NoStream)
  BY DEF Counts, NoStream, ToSet
<1>2. ~NewFlow(p).saw_syn_from_src /\ ~NewFlow(p).saw_synack_from_dst
  BY DEF NewFlow
<1> QED
  BY <1>1, <1>2, Opened DEF FlowNoted, OpenedIn

(* The payload of a TCP frame, read or next, is a sequence.                *)
LEMMA FramesCarrySequences ==
    ASSUME FlowInv, capture \in Captures, NEW k \in 1 .. Len(Frames), IsTcp(Frames[k])
    PROVE  /\ Frames[k] \in ToSet(capture.frames) /\ Frames[k].of # <<>>
           /\ PacketOf(Frames[k]) \in PacketsOf(capture)
           /\ Len(PacketOf(Frames[k]).payload) \in Nat
<1>1. Frames = capture.frames
  BY DEF Frames, IsTcp, Handled
<1>2. Frames[k] \in ToSet(capture.frames)
  <2>1. Len(capture.frames) \in Nat /\ k \in DOMAIN capture.frames
    BY <1>1, Counted, CapturesAssumption
  <2> QED
    BY <1>1, <2>1 DEF ToSet
<1>3. Frames[k].of # <<>> /\ PacketOf(Frames[k]) \in PacketsOf(capture)
  BY <1>2 DEF IsTcp, NotTcp, PacketOf, PacketsOf
<1> QED
  BY <1>2, <1>3, CapturesAssumption, LenProperties

(* FlowsNoted is kept when a frame is read.                                *)
LEMMA NotedStep ==
    ASSUME FlowInv, capture \in Captures, FlowsNoted, AnalyzePcapIngest
    PROVE  \A i \in DOMAIN flows' : FlowNoted(TcpRead', flows'[i])
<1> DEFINE k == read + 1
           p == PacketOf(Frames[k])
<1>1. ASSUME AtPacket, Consumed
      PROVE  /\ TcpRead' = TcpRead \cup {k} /\ ThePacket = p /\ FrameNo = k
             /\ Len(p.payload) \in Nat
  <2>1. TcpRead' = TcpRead \cup {k} /\ ThePacket = p /\ FrameNo = k
    BY <1>1, CountedThen
  <2>2. k \in 1 .. Len(Frames) /\ IsTcp(Frames[k])
    BY <1>1, Counted DEF AtPacket, AtFrame, NextFrame
  <2> QED
    BY <2>1, <2>2, FramesCarrySequences
<1> HIDE DEF k, p
<1>2. CASE KnownFlow
  <2>1. /\ TcpRead' = TcpRead \cup {k} /\ ThePacket = p /\ FrameNo = k /\ Len(p.payload) \in Nat
    BY <1>1, <1>2 DEF KnownFlow
  <2>2. PICK i \in FlowsOf(p) : flows' = [flows EXCEPT ![i] = AddPacket(@, p, NextFrame.ts, k)]
    BY <1>2, <2>1 DEF KnownFlow
  <2> DEFINE g == AddPacket(flows[i], p, NextFrame.ts, k)
  <2>3. i \in DOMAIN flows /\ KeyOf(flows[i]) = KeyOf(p)
    BY DEF FlowsOf
  <2>4. /\ DOMAIN flows[i] = FlowFields /\ FlowNoted(TcpRead, flows[i])
        /\ Placed(flows[i].c2s, Units) /\ Placed(flows[i].s2c, Units)
    BY <2>3, FlowsAreKept, FlowsArePlaced DEF FlowKept, FlowsNoted
  <2>5. FlowNoted(TcpRead', g)
    BY <2>1, <2>3, <2>4, PacketNoted DEF p
  <2>6. /\ DOMAIN flows' = DOMAIN flows /\ flows'[i] = g
        /\ \A j \in DOMAIN flows : j # i => flows'[j] = flows[j]
    BY <2>2, <2>3
  <2> HIDE DEF g
  <2>7. \A j \in DOMAIN flows : FlowNoted(TcpRead', flows[j])
    BY <2>1, OthersNoted DEF FlowsNoted
  <2> QED
    BY <2>5, <2>6, <2>7
<1>3. CASE OpenFlow
  <2> DEFINE g == AddPacket(NewFlow(p), p, NextFrame.ts, k)
  <2>1. /\ TcpRead' = TcpRead \cup {k} /\ ThePacket = p /\ FrameNo = k /\ Len(p.payload) \in Nat
        /\ flows' = Append(flows, AddPacket(NewFlow(ThePacket), ThePacket, NextFrame.ts, FrameNo))
    BY <1>1, <1>3 DEF OpenFlow
  <2>2. flows' = Append(flows, g)
    BY <2>1
  <2>3. /\ DOMAIN NewFlow(p) = FlowFields /\ KeyOf(NewFlow(p)) = KeyOf(p) /\ FlowNoted(TcpRead, NewFlow(p))
        /\ Placed(NewFlow(p).c2s, Units) /\ Placed(NewFlow(p).s2c, Units)
    <3>1. Placed(NoStream, Units)
      BY EmptySeq DEF Placed, NoStream
    <3> QED
      BY <3>1, Opened, NewNoted
  <2>4. FlowNoted(TcpRead', g)
    BY <2>1, <2>3, PacketNoted DEF p
  <2> HIDE DEF g
  <2>5. flows \in Seq(ToSet(flows) \cup {g}) /\ g \in ToSet(flows) \cup {g}
    BY SeqMonotonic DEF FlowInv
  <2>6. /\ flows' \in Seq(ToSet(flows) \cup {g}) /\ Len(flows') = Len(flows) + 1
        /\ \A j \in 1 .. Len(flows) : flows'[j] = flows[j]
        /\ flows'[Len(flows) + 1] = g
    BY <2>2, <2>5, AppendProperties
  <2>7. Len(flows) \in Nat /\ DOMAIN flows = 1 .. Len(flows) /\ DOMAIN flows' = 1 .. Len(flows) + 1
    BY <2>6, Counted, LenProperties
  <2>8. \A j \in DOMAIN flows : FlowNoted(TcpRead', flows[j])
    BY <2>1, OthersNoted DEF FlowsNoted
  <2> QED
    BY <2>4, <2>6, <2>7, <2>8
<1>4. CASE ~KnownFlow /\ ~OpenFlow
  <2>1. flows' = flows /\ capture' = capture /\ read' \in {read, read + 1}
    BY <1>4 DEF AnalyzePcapIngest, Ingest, ReadPcapRaises, SkipFrame, Overflow, EndOfCapture, Consumed, flowVars
  <2>2. TcpRead' = {m \in 1 .. read' : IsTcp(Frames[m])} /\ read \in Nat
    BY <2>1, SameFile, Counted
  <2>3. TcpRead \subseteq TcpRead'
    BY <2>1, <2>2 DEF TcpRead
  <2> QED
    BY <2>1, <2>3, OthersNoted DEF FlowsNoted
<1> QED
  BY <1>2, <1>3, <1>4

(* The ends of a session are those of its flow, if their hosts differ.     *)
LEMMA EndsOfBuilt ==
    ASSUME NEW flow, NEW s, s = BuildSession(flow), s # NoSession
    PROVE  /\ s.server = ServerOf(flow)
           /\ s.client = IF s.server.host = flow.dst.host THEN flow.src ELSE flow.dst
           /\ s.client.host # s.server.host => EndsOfSession(s) = KeyOf(flow)
<1>1. ServerOf(flow) \in {flow.src, flow.dst}
  BY DEF ServerOf
<1>2. s.server = ServerOf(flow)
      /\ s.client = IF s.server.host = flow.dst.host THEN flow.src ELSE flow.dst
  BY DEF BuildSession, NoSession
<1> QED
  BY <1>1, <1>2 DEF EndsOfSession, KeyOf

(* The next flow gives its session, which no flow before it gave.          *)
LEMMA BuildNextOnce ==
    ASSUME FlowInv, SessionsKept, ReadFromFlows, EachHasASession, OncePerEnds, BuildNext
    PROVE  EachHasASession' /\ OncePerEnds'
<1> DEFINE n == built + 1
           s == BuildSession(flows[n])
           made == Finished(flows[n]) /\ s # NoSession
<1>1. /\ built' = n /\ flows' = flows /\ n \in DOMAIN flows /\ built \in Nat
      /\ sessions' = IF made THEN Append(sessions, s) ELSE sessions
  <2>1. built \in 0 .. Len(flows) /\ built < Len(flows)
    BY DEF SessionsKept, BuildNext
  <2> QED
    BY <2>1, Counted DEF BuildNext, WithSession, flowVars
<1>2. built' \in Nat /\ \A j \in 1 .. built' : j \in 1 .. built \/ j = n
  BY <1>1
<1>3. Len(sessions) \in Nat /\ DOMAIN sessions = 1 .. Len(sessions)
  BY Sessions
<1>4. CASE ~made
  <2>1. sessions' = sessions
    BY <1>1, <1>4
  <2>2. \A j \in 1 .. built' : HasSession(j)
    BY <1>2, <1>4 DEF EachHasASession, HasSession
  <2> QED
    BY <1>1, <2>1, <2>2 DEF EachHasASession, HasSession, OncePerEnds
<1>5. CASE made
  <2> HIDE DEF s, n
  <2>1. sessions \in Seq(ToSet(sessions) \cup {s}) /\ s \in ToSet(sessions) \cup {s}
    BY SeqMonotonic DEF SessionsKept
  <2>2. sessions' = Append(sessions, s)
    BY <1>1, <1>5
  <2>3. /\ sessions' \in Seq(ToSet(sessions) \cup {s}) /\ Len(sessions') = Len(sessions) + 1
        /\ \A i \in 1 .. Len(sessions) : sessions'[i] = sessions[i]
        /\ sessions'[Len(sessions) + 1] = s
    BY <2>1, <2>2, AppendProperties
  <2>4. DOMAIN sessions' = 1 .. Len(sessions) + 1
    BY <2>3, LenProperties
  <2>5. \A i \in DOMAIN sessions : i \in DOMAIN sessions' /\ sessions'[i] = sessions[i]
    BY <1>3, <2>3, <2>4
  <2>6. Len(sessions) + 1 \in DOMAIN sessions' /\ sessions'[Len(sessions) + 1] = s
    BY <1>3, <2>3, <2>4
  <2>7. ASSUME NEW j \in 1 .. built', Finished(flows[j]), BuildSession(flows[j]) # NoSession
        PROVE  \E i \in DOMAIN sessions' :
                  sessions'[i].frames = FramesOf(flows[j].c2s) \o FramesOf(flows[j].s2c)
    <3>1. CASE j \in 1 .. built
      <4>1. PICK i \in DOMAIN sessions :
               sessions[i].frames = FramesOf(flows[j].c2s) \o FramesOf(flows[j].s2c)
        BY <2>7, <3>1 DEF EachHasASession, HasSession
      <4> QED
        BY <2>5, <4>1
    <3>2. CASE j = n
      <4>1. ReadFrom(s, flows[n])
        BY <1>5, NextIsRead DEF s, n
      <4> QED
        BY <2>6, <3>2, <4>1 DEF ReadFrom
    <3> QED
      BY <1>2, <3>1, <3>2
  <2>8. EachHasASession'
    BY <1>1, <2>7 DEF EachHasASession, HasSession
  <2>9. ASSUME NEW i \in DOMAIN sessions, EndsOfSession(sessions[i]) = EndsOfSession(s),
               s.client.host # s.server.host \/ sessions[i].client.host # sessions[i].server.host
        PROVE  FALSE
    <3>1. PICK j \in 1 .. built : sessions[i] = BuildSession(flows[j])
      BY DEF ReadFromFlows
    <3>2. sessions[i] # NoSession /\ s # NoSession /\ s = BuildSession(flows[n])
      BY <1>5 DEF ReadFromFlows, s
    <3>3. sessions[i].client.host # sessions[i].server.host /\ s.client.host # s.server.host
      BY <2>9 DEF EndsOfSession
    <3>4. EndsOfSession(sessions[i]) = KeyOf(flows[j]) /\ EndsOfSession(s) = KeyOf(flows[n])
      BY <3>1, <3>2, <3>3, EndsOfBuilt
    <3>5. j \in DOMAIN flows /\ n \in DOMAIN flows /\ j # n
      BY <1>1, Counted DEF n
    <3> QED
      BY <2>9, <3>4, <3>5 DEF FlowInv, FlowTypeOK
  <2>10. OncePerEnds'
    <3> SUFFICES ASSUME NEW i \in DOMAIN sessions', NEW j \in DOMAIN sessions',
                        EndsOfSession(sessions'[i]) = EndsOfSession(sessions'[j]),
                        sessions'[i].client.host # sessions'[i].server.host
                 PROVE  i = j
      BY DEF OncePerEnds, EndsOfSession
    <3>1. CASE i \in DOMAIN sessions /\ j \in DOMAIN sessions
      BY <2>5, <3>1 DEF OncePerEnds
    <3>2. CASE i = Len(sessions) + 1 /\ j \in DOMAIN sessions
      BY <2>5, <2>6, <2>9, <3>2
    <3>3. CASE i \in DOMAIN sessions /\ j = Len(sessions) + 1
      BY <2>5, <2>6, <2>9, <3>3
    <3> QED
      BY <1>3, <2>4, <3>1, <3>2, <3>3
  <2> QED
    BY <2>8, <2>10
<1> QED
  BY <1>4, <1>5

(* LocalInv is inductive next to EvidenceInv and SessionInv.               *)
LEMMA LocalStep ==
    ASSUME EvidenceInv, SessionInv, capture \in Captures, LocalInv, [Next]_vars
    PROVE  LocalInv'
<1>1. /\ FlowInv /\ SessionsKept /\ ReadFromFlows
      /\ LoopsEnded /\ FlowsNoted /\ EachHasASession /\ OncePerEnds
  BY EvidenceParts, SessionParts, LocalParts
<1>2. CASE AnalyzePcapIngest
  <2>1. /\ stage = "ingest" /\ stage' \in {"ingest", "raised", "protocol-id"}
        /\ capture' = capture /\ built' = built /\ sessions' = sessions
        /\ stage' = "protocol-id" => read = Len(Frames) /\ read' = read
    BY <1>2 DEF AnalyzePcapIngest, Ingest, ReadPcapRaises, SkipFrame, KnownFlow, OpenFlow, Overflow,
                EndOfCapture, AtFrame, AtPacket, Consumed, sessionVars, flowVars
  <2>2. built = 0 /\ Len(sessions) <= 0 /\ Len(sessions) \in Nat /\ DOMAIN sessions = 1 .. Len(sessions)
    BY <1>1, <2>1, Sessions DEF SessionsKept
  <2>3. DOMAIN sessions' = {} /\ 1 .. built' = {}
    BY <2>1, <2>2
  <2>4. LoopsEnded'
    BY <2>1, SameFile DEF LoopsEnded
  <2>5. EachHasASession' /\ OncePerEnds'
    BY <2>3 DEF EachHasASession, OncePerEnds
  <2> QED
    BY <1>1, <1>2, <2>1, <2>4, <2>5, NotedStep, LocalPartsThen
<1>3. ASSUME capture' = capture, read' = read, flows' = flows
      PROVE  \A i \in DOMAIN flows' : FlowNoted(TcpRead', flows'[i])
  <2>1. TcpRead' = TcpRead
    BY <1>3, SameFile DEF TcpRead
  <2> QED
    BY <1>1, <1>3, <2>1 DEF FlowsNoted
<1>4. CASE BuildNext
  <2>1. capture' = capture /\ read' = read /\ flows' = flows /\ stage = "protocol-id" /\ stage' = stage
    BY <1>4 DEF BuildNext, flowVars
  <2>2. LoopsEnded'
    BY <1>1, <2>1, SameFile DEF LoopsEnded
  <2> QED
    BY <1>1, <1>3, <1>4, <2>1, <2>2, BuildNextOnce, LocalPartsThen
<1>5. CASE ~AnalyzePcapIngest /\ ~BuildNext
  <2>1. /\ capture' = capture /\ read' = read /\ flows' = flows /\ built' = built /\ sessions' = sessions
        /\ stage' # stage => stage \notin {"ingest", "raised"} /\ stage' \notin {"ingest", "raised", "protocol-id"}
                             /\ (stage = "protocol-id" => built = Len(flows))
    BY <1>5 DEF Next, AllBuilt, AnalyseSession, AllAnalysed, CrossSession, BindEvidence, Unavailable,
       Load, Predict, PredictRaises, AllPredicted, Fuse, Ended, vars, flowVars, sessionVars
  <2>2. LoopsEnded'
    BY <1>1, <2>1, SameFile DEF LoopsEnded
  <2>3. EachHasASession' /\ OncePerEnds'
    BY <1>1, <2>1 DEF EachHasASession, HasSession, OncePerEnds
  <2> QED
    BY <1>3, <2>1, <2>2, <2>3, LocalPartsThen
<1> QED
  BY <1>2, <1>4, <1>5

(* LocalInv holds always.                                                  *)
THEOREM LocalInvariant == Spec => []LocalInv
<1>1. Init => LocalInv
  <2> SUFFICES ASSUME Init PROVE LoopsEnded /\ FlowsNoted /\ EachHasASession /\ OncePerEnds
    BY LocalParts
  <2>1. flows = <<>> /\ sessions = <<>> /\ stage = "ingest" /\ built = 0
    BY DEF Init, FlowInit
  <2> QED
    BY <2>1 DEF LoopsEnded, FlowsNoted, EachHasASession, OncePerEnds
<1>2. EvidenceInv /\ SessionInv /\ capture \in Captures /\ LocalInv /\ [Next]_vars => LocalInv'
  BY LocalStep
<1> QED
  BY <1>1, <1>2, EvidenceInvariant, SessionInvariant, OneCapture, PTL DEF Spec
=============================================================================
