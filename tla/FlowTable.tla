----------------------------- MODULE FlowTable -----------------------------
(***************************************************************************)
(* From a capture to its flows: pipeline/ingest.py, which reads the frames *)
(* of the file, and FlowTable in pipeline/reassembly.py, which puts each   *)
(* TCP packet into a direction of its conversation.                        *)
(*                                                                         *)
(* A capture has its file format and link type, what the conversations     *)
(* really sent, and the frames, each one packet (of = <<conversation,      *)
(* packet>>) or something that is not TCP.  The unit of length is a line   *)
(* or a TLS record.                                                        *)
(***************************************************************************)
EXTENDS Integers, Sequences, FiniteSets, SequencesExt, Reassembly

CONSTANTS
    Captures,           \* the captures that may be uploaded
    MaxFlows,           \* MAX_FLOWS
    MaxStreamBytes      \* MAX_STREAM_BYTES, in units

(* A frame has its time, and its packet a sequence of units at its place.  *)
PacketsOf(c) == {c.sent[f.of[1]][f.of[2]] : f \in {f \in ToSet(c.frames) : f.of # <<>>}}
ASSUME CapturesAssumption ==
    \A c \in Captures :
        /\ Len(c.frames) \in Nat /\ \A f \in ToSet(c.frames) : f.ts \in Nat
        /\ \A p \in PacketsOf(c) : p.seq \in Nat /\ p.payload \in Seq(ToSet(p.payload))

(* A frame is of one of the conversations; a conversation is between two   *)
(* addresses.                                                              *)
ASSUME ConversationsAssumption ==
    \A c \in Captures :
        /\ \A f \in ToSet(c.frames) :
              f.of # <<>> => f.of[1] \in DOMAIN c.sent /\ f.of[2] \in DOMAIN c.sent[f.of[1]]
        /\ \A k \in DOMAIN c.sent :
              /\ c.sent[k] \in Seq(ToSet(c.sent[k])) /\ c.sent[k] # <<>>
              /\ \A p \in ToSet(c.sent[k]) :
                    /\ {p.src, p.dst} = {c.sent[k][1].src, c.sent[k][1].dst}
                    /\ p.seq \in Nat /\ p.payload \in Seq(ToSet(p.payload))
ASSUME FlowTableAssumption == MaxFlows \in Nat \ {0} /\ MaxStreamBytes \in Nat \ {0}

VARIABLES
    stage,              \* the last tick of analyze_pcap, or "raised"
    capture,
    read,               \* frames read so far: frame_no of the last one
    count,              \* packet_count
    flows,              \* the flows, in the order of the dictionary
    overflowed,
    frame_offsets       \* where in the file (at which record) a frame is

flowVars == <<capture, read, count, flows, overflowed, frame_offsets>>

NotTcp == <<>>
NoTime == -1

NoStream == [segments |-> <<>>, total |-> 0, truncated |-> FALSE, start |-> NoTime]

FlowInit ==
    /\ stage = "ingest"
    /\ capture \in Captures
    /\ read = 0 /\ count = 0 /\ flows = <<>> /\ overflowed = 0
    /\ frame_offsets = <<>>

-----------------------------------------------------------------------------
(* read_pcap *)

(* Only these handlers give the IP packet that the reader looks for; that  *)
(* of DLT_RAW returns the bytes as they are.                               *)
Understood(link) == link \in {"ethernet", "sll"}
Handled(link) == Understood(link) \/ link = "raw"

ReadPcapRaises ==
    /\ stage = "ingest" /\ read = 0
    /\ capture.format = "classic" /\ ~Handled(capture.link)
    /\ stage' = "raised"
    /\ UNCHANGED flowVars

(* A pcapng file of an unknown link type is read as an empty one.          *)
Frames == IF Handled(capture.link) THEN capture.frames ELSE <<>>

AtFrame == stage = "ingest" /\ read < Len(Frames)
NextFrame == Frames[read + 1]
IsTcp(f) == Understood(capture.link) /\ f.of # NotTcp
PacketOf(f) == capture.sent[f.of[1]][f.of[2]]

SkipFrame ==
    /\ AtFrame /\ ~IsTcp(NextFrame)
    /\ read' = read + 1
    /\ UNCHANGED <<stage, capture, count, flows, overflowed, frame_offsets>>

-----------------------------------------------------------------------------
(* FlowTable.add_packet *)

(* Mutant: a full direction drops the segment and does not say so. *)
AddSegmentSilently(d, seg, ts) ==
    LET total == d.total + Len(seg.payload)
        over  == total > MaxStreamBytes
    IN  [segments  |-> IF over THEN d.segments ELSE Append(d.segments, seg),
         total     |-> total,
         truncated |-> d.truncated,
         start     |-> IF d.start = NoTime \/ ts < d.start THEN ts ELSE d.start]

(* DirectionStream.add *)
AddSegment(d, seg, ts) ==
    LET total == d.total + Len(seg.payload)
        over  == total > MaxStreamBytes
    IN  [segments  |-> IF over THEN d.segments ELSE Append(d.segments, seg),
         total     |-> total,
         truncated |-> d.truncated \/ over,
         start     |-> IF d.start = NoTime \/ ts < d.start THEN ts ELSE d.start]

(* `not flow.start_ts`: a start at time 0 counts as none. *)
AddPacket(flow, p, ts, frame) ==
    LET forward == p.src = flow.src
        syn     == p.syn /\ ~p.ack
        seg     == [seq |-> p.seq, payload |-> p.payload, syn |-> syn, frame |-> frame]
        opens   == syn /\ ~flow.saw_synack_from_dst
    IN  [flow EXCEPT
            !.saw_syn_from_src    = @ \/ (opens /\ forward),
            !.saw_synack_from_dst = @ \/ (opens /\ ~forward),
            !.c2s   = IF forward THEN AddSegment(@, seg, ts) ELSE @,
            !.s2c   = IF forward THEN @ ELSE AddSegment(@, seg, ts),
            !.start = IF @ = 0 \/ ts < @ THEN ts ELSE @]

NewFlow(p) ==
    [src |-> p.src, dst |-> p.dst, c2s |-> NoStream, s2c |-> NoStream, start |-> 0,
     saw_syn_from_src |-> FALSE, saw_synack_from_dst |-> FALSE]

(* _key: both directions of a pair of addresses are one flow.              *)
KeyOf(x) == {x.src, x.dst}
FlowsOf(p) == {i \in DOMAIN flows : KeyOf(flows[i]) = KeyOf(p)}

ThePacket == PacketOf(NextFrame)
AtPacket == AtFrame /\ IsTcp(NextFrame)

(* Mutant: packets are numbered after the filter. *)
FrameNoFiltered == count + 1

(* enumerate: the position in the file, whatever the frame is. *)
FrameNo == read + 1

(* dict.setdefault *)
SetDefault(f, k, value) ==
    [x \in DOMAIN f \cup {k} |-> IF x \in DOMAIN f THEN f[x] ELSE value]

Consumed ==
    /\ read' = read + 1 /\ count' = count + 1
    /\ frame_offsets' = SetDefault(frame_offsets, FrameNo, read + 1)
    /\ UNCHANGED <<stage, capture>>

KnownFlow ==
    /\ AtPacket
    /\ \E i \in FlowsOf(ThePacket) :
           flows' = [flows EXCEPT ![i] = AddPacket(@, ThePacket, NextFrame.ts, FrameNo)]
    /\ Consumed /\ UNCHANGED overflowed

(* Mutant: there is always room. *)
OpenFlowUnbounded ==
    /\ AtPacket /\ FlowsOf(ThePacket) = {}
    /\ flows' = Append(flows, AddPacket(NewFlow(ThePacket), ThePacket, NextFrame.ts, FrameNo))
    /\ Consumed /\ UNCHANGED overflowed

OpenFlow ==
    /\ AtPacket /\ FlowsOf(ThePacket) = {} /\ Len(flows) < MaxFlows
    /\ flows' = Append(flows, AddPacket(NewFlow(ThePacket), ThePacket, NextFrame.ts, FrameNo))
    /\ Consumed /\ UNCHANGED overflowed

(* Mutant: the packet of a flow that does not fit goes uncounted. *)
OverflowUncounted ==
    /\ AtPacket /\ FlowsOf(ThePacket) = {} /\ Len(flows) >= MaxFlows
    /\ Consumed /\ UNCHANGED <<flows, overflowed>>

Overflow ==
    /\ AtPacket /\ FlowsOf(ThePacket) = {} /\ Len(flows) >= MaxFlows
    /\ overflowed' = overflowed + 1
    /\ Consumed /\ UNCHANGED flows

EndOfCapture ==
    /\ stage = "ingest" /\ (capture.format = "classic" => Handled(capture.link))
    /\ read = Len(Frames)
    /\ stage' = "protocol-id"
    /\ UNCHANGED flowVars

Ingest == ReadPcapRaises \/ SkipFrame \/ KnownFlow \/ OpenFlow \/ Overflow \/ EndOfCapture

-----------------------------------------------------------------------------
FramesOf(d) == [i \in DOMAIN d.segments |-> d.segments[i].frame]

(* finished_flows(min_bytes=4): a unit has at least four bytes.            *)
Finished(flow) == flow.c2s.total + flow.s2c.total > 0

-----------------------------------------------------------------------------
FlowTypeOK ==
    /\ read \in 0 .. Len(capture.frames) /\ count \in 0 .. read
    /\ Len(flows) <= MaxFlows /\ overflowed \in 0 .. count
    /\ \A i, j \in DOMAIN flows : KeyOf(flows[i]) = KeyOf(flows[j]) => i = j

(* Every TCP packet read is accounted for: it is kept in its direction     *)
(* under the number of its frame, or that direction says it was truncated, *)
(* or its conversation is not held and the packet was counted as           *)
(* overflowed (runner.py 52, 242-248, ingest.py 39-41).                    *)
Held(k) ==
    LET p == PacketOf(Frames[k])
    IN  \E i \in FlowsOf(p) :
            LET d == IF p.src = flows[i].src THEN flows[i].c2s ELSE flows[i].s2c
            IN  \/ d.truncated
                \/ \E s \in ToSet(d.segments) :
                       s.frame = k /\ s.seq = p.seq /\ s.payload = p.payload
TcpRead == {k \in 1 .. read : IsTcp(Frames[k])}
Homeless == {k \in TcpRead : FlowsOf(PacketOf(Frames[k])) = {}}
PacketsAccounted ==
    stage # "raised" =>
        /\ count = Cardinality(TcpRead)
        /\ overflowed = Cardinality(Homeless)
        /\ \A k \in TcpRead \ Homeless : Held(k)

(* The inductive invariant of the table.  A frame has a home in the one    *)
(* flow of its addresses for good, or came when the table was full; each   *)
(* direction has segments of its own frames only, all of them unless it    *)
(* says it was truncated; a frame is found at the place with its number    *)
(* (ingest.py 37-41, reassembly.py 51-63, 135-161).                        *)
SegmentOf(k) ==
    LET p == PacketOf(Frames[k])
    IN  [seq |-> p.seq, payload |-> p.payload, syn |-> p.syn /\ ~p.ack, frame |-> k]
InFlow(flow) == {k \in TcpRead : KeyOf(PacketOf(Frames[k])) = KeyOf(flow)}
FromSrc(flow) == {k \in InFlow(flow) : PacketOf(Frames[k]).src = flow.src}
FromDst(flow) == InFlow(flow) \ FromSrc(flow)

SegmentsOf(frames) == {SegmentOf(k) : k \in frames}

Keeps(d, segs) ==
    /\ d.segments \in Seq(segs) /\ d.truncated \in BOOLEAN
    /\ d.truncated \/ segs \subseteq ToSet(d.segments)
FlowInv ==
    /\ Len(capture.frames) \in Nat /\ FlowTypeOK /\ flows \in Seq(ToSet(flows))
    /\ count = Cardinality(TcpRead) /\ overflowed = Cardinality(Homeless)
    /\ Homeless # {} => Len(flows) >= MaxFlows
    /\ frame_offsets = [k \in TcpRead |-> k]
    /\ \A i \in DOMAIN flows :
          /\ DOMAIN flows[i] = DOMAIN NewFlow(flows[i])
          /\ Keeps(flows[i].c2s, SegmentsOf(FromSrc(flows[i])))
          /\ Keeps(flows[i].s2c, SegmentsOf(FromDst(flows[i])))
=============================================================================
