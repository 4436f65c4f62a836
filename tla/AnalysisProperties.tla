------------------------- MODULE AnalysisProperties -------------------------
(***************************************************************************)
(* What makes an analysis correct, for any capture.                        *)
(***************************************************************************)
EXTENDS Report

Done == stage = "done"
RulesOf(i) == {f.rule : f \in analysed[i].findings}
RangeOf(f) == {f[x] : x \in DOMAIN f}

TypeOK ==
    /\ FlowTypeOK
    /\ stage \in {"ingest", "protocol-id", "tls-analysis", "cross-session", "scoring", "ml",
                  "score-fusion", "done", "raised"}
    /\ Len(sessions) <= Len(flows) /\ Len(analysed) <= Len(sessions)
    /\ model \in Models \cup {NotLoaded}
    /\ verdicts \in Seq(Verdicts) /\ Len(verdicts) <= Len(sessions)
    /\ result = NoResult \/ (result.score \in 0 .. 100 /\ result.rule_score \in 0 .. 100)

-----------------------------------------------------------------------------
(* The conversations of the capture, and what was seen of them.            *)

Convs == DOMAIN capture.sent
Of(k) == {n \in 1 .. Len(Frames) : IsTcp(Frames[n]) /\ Frames[n].of[1] = k}
Seen(k) == {Frames[n].of[2] : n \in Of(k)}
DataFrom(sent, src) == {i \in DOMAIN sent : sent[i].src = src /\ sent[i].payload # <<>>}
DataOf(k, src) == DataFrom(capture.sent[k], src)
EndsOf(k) == {capture.sent[k][i].src : i \in DOMAIN capture.sent[k]}

(* A client opens it, and a mail server answers; what one of them sends,   *)
(* it sends once and in order.                                             *)
Orderly(sent) ==
    /\ sent[1].src.port \notin WellKnown /\ sent[1].dst.port \in WellKnown
    /\ \A i \in DOMAIN sent : sent[i].syn =>
          sent[i].payload = <<>> /\ (sent[i].src = sent[1].src \/ sent[i].ack)
    /\ \A e \in {sent[1].src, sent[1].dst} : \A i, j \in DataFrom(sent, e) :
          i < j => LET next == sent[i].seq + Len(sent[i].payload)
                   IN  /\ next <= sent[j].seq
                       /\ next = sent[j].seq \/ \E m \in DataFrom(sent, e) : i < m /\ m < j

(* Its addresses are its own, and the two hosts differ.                    *)
Private(k) ==
    /\ \A j \in Convs \ {k} : KeyOf(capture.sent[j][1]) # KeyOf(capture.sent[k][1])
    /\ capture.sent[k][1].src.host # capture.sent[k][1].dst.host

(* The first and the last data of both directions were captured. *)
EndsSeen(k) ==
    \A e \in EndsOf(k) :
        \A i \in DataOf(k, e) :
            (\A j \in DataOf(k, e) : i <= j) \/ (\A j \in DataOf(k, e) : j <= i) => i \in Seen(k)

FlowOf(k) == LET f == CHOOSE i \in FlowsOf(capture.sent[k][1]) : TRUE IN flows[f]
HasFlow(k) == FlowsOf(capture.sent[k][1]) # {}
Whole(k) == HasFlow(k) /\ ~FlowOf(k).c2s.truncated /\ ~FlowOf(k).s2c.truncated

(* The session of conversation k alone: of a flow that the client opened,  *)
(* with all data of either end, in order.                                  *)
AloneStream(k, e) ==
    LET sent  == capture.sent[k]
        order == Ascending(DataOf(k, e))
    IN  [NoStream EXCEPT !.segments = [n \in DOMAIN order |->
            [seq |-> sent[order[n]].seq, payload |-> sent[order[n]].payload,
             syn |-> FALSE, frame |-> order[n]]]]
AloneFlow(k) ==
    LET opening == capture.sent[k][1]
    IN  [NewFlow(opening) EXCEPT !.saw_syn_from_src = TRUE,
            !.c2s = AloneStream(k, opening.src), !.s2c = AloneStream(k, opening.dst)]
Alone(k) == BuildSession(AloneFlow(k))
SessionsOf(k) == {i \in DOMAIN sessions : {sessions[i].client, sessions[i].server}
                                            = KeyOf(capture.sent[k][1])}

SameVerdict(a, b) == a.findings = b.findings /\ a.advisories = b.advisories
JudgedAs(k, s) ==
    s # NoSession =>
        /\ Cardinality(SessionsOf(k)) = 1
        /\ \A i \in SessionsOf(k) :
              IF UNION {DataOf(k, e) : e \in EndsOf(k)} \subseteq Seen(k)
                THEN SameVerdict(analysed[i], Analyse(s)) /\ ~sessions[i].incomplete
                ELSE sessions[i].incomplete

(* A conversation is judged by itself, whatever else is in the capture and *)
(* whatever the order of the packets there.  If the ends of an orderly one *)
(* were captured, and its direction is not full, there is one session of   *)
(* it, with the findings of its data in order; unless a packet in the      *)
(* middle is missing, and then the session says it is incomplete           *)
(* (sessions.py 170-248, reassembly.py 131-161).                           *)
VerdictLocal ==
    Done => \A k \in Convs :
        Orderly(capture.sent[k]) /\ Private(k) /\ Whole(k) /\ EndsSeen(k) => JudgedAs(k, Alone(k))

(* The inductive invariant of what a flow and the sessions have of the     *)
(* capture: the file is read to its end and every flow looked at; a stream *)
(* counts the data it keeps; a flow that was opened from an end has a      *)
(* frame that did it; each flow with data of a protocol has its session,   *)
(* and two sessions with the same two hosts and ports are one              *)
(* (reassembly.py 51-63, 135-161; sessions.py 123-152; runner.py 54-59).   *)
Opens(n) == PacketOf(Frames[n]).syn /\ ~PacketOf(Frames[n]).ack
Counts(d) == d.total \in Nat /\ \A s \in ToSet(d.segments) : Len(s.payload) <= d.total
LocalInv ==
    /\ stage \notin {"ingest", "raised"} => read = Len(Frames)
    /\ stage \notin {"ingest", "raised", "protocol-id"} => built = Len(flows)
    /\ \A i \in DOMAIN flows :
          /\ Counts(flows[i].c2s) /\ Counts(flows[i].s2c)
          /\ flows[i].saw_syn_from_src => \E n \in FromSrc(flows[i]) : Opens(n)
          /\ flows[i].saw_synack_from_dst => \E n \in FromDst(flows[i]) : Opens(n)
    /\ \A j \in 1 .. built : Finished(flows[j]) =>
          \/ \E i \in DOMAIN sessions :
                sessions[i].frames = FramesOf(flows[j].c2s) \o FramesOf(flows[j].s2c)
          \/ BuildSession(flows[j]) = NoSession
    /\ \A i, j \in DOMAIN sessions :
          /\ {sessions[i].client, sessions[i].server} = {sessions[j].client, sessions[j].server}
          /\ sessions[i].client.host # sessions[i].server.host
          => i = j

(* The frames shown with a finding are frames of its conversation, by the  *)
(* numbers they have in the file, and the offset leads to the first of     *)
(* them (runner.py 42-52, 122-131; ingest.py 37-41).                       *)
EvidenceBelongs ==
    stage \in {"ml", "score-fusion", "done"} => \A i \in DOMAIN sessions :
        LET ends == {sessions[i].client, sessions[i].server}
        IN  Cardinality(ends) = 2 =>
                /\ evidence[i] # NoEvidence
                /\ \A n \in RangeOf(evidence[i].frames) :
                      n <= Len(Frames) /\ IsTcp(Frames[n]) /\ KeyOf(PacketOf(Frames[n])) = ends
                /\ evidence[i].packet_offset = evidence[i].frames[1]

(* The inductive invariant of the evidence: a session has the ends of a    *)
(* flow and its frames, the ones of its direction c2s first, and no        *)
(* session is without a frame (sessions.py 170-187, runner.py 54-59).      *)
ReadFrom(s, flow) ==
    /\ {s.client, s.server} \subseteq KeyOf(flow)
    /\ s.frames = FramesOf(flow.c2s) \o FramesOf(flow.s2c)
EvidenceInv ==
    /\ FlowInv
    /\ built \in 0 .. Len(flows) /\ (stage \in {"ingest", "raised"} => built = 0)
    /\ sessions \in Seq(ToSet(sessions)) /\ Len(sessions) <= built
    /\ \A s \in ToSet(sessions) : s.frames # <<>> /\ \E i \in DOMAIN flows : ReadFrom(s, flows[i])
    /\ stage \in {"ml", "score-fusion", "done"} =>
          evidence = [i \in DOMAIN sessions |-> EvidenceOf(sessions[i])]

-----------------------------------------------------------------------------
(* The inductive invariant of what is judged: the record of a session is   *)
(* what its own findings are, no other session's and none of before; with  *)
(* the models every session has a verdict when the scores are fused, and   *)
(* without them none has, wherever they raise; and the result is made of   *)
(* the scores of these records (runner.py 61-202, predict.py).             *)
CredentialKinds == {"AUTH PLAIN", "LOGIN", "AUTH LOGIN", "USER PASS"}
ResultShown ==
    LET fused == FuseScores(verdicts, result.rule_score, MlAvailable)
    IN  /\ result.rule_score \in ScanScores(RuleScores)
        /\ result.score \in fused.scores /\ result.ml_adjustment = fused.adjustment
        /\ result.grade = GradeOf(result.score) /\ result.session_scores = FusedScores
        /\ result.servers = ServerGrades(sessions, RuleScores)
JudgedInv ==
    /\ \A i \in DOMAIN sessions : sessions[i].cleartext_creds \subseteq CredentialKinds
    /\ Len(analysed) \in 0 .. Len(sessions)
    /\ analysed = [i \in 1 .. Len(analysed) |-> Analyse(sessions[i])]
    /\ stage \in {"ingest", "raised", "protocol-id"} => Len(analysed) = 0
    /\ stage \in {"cross-session", "scoring", "ml", "score-fusion", "done"}
           => Len(analysed) = Len(sessions)
    /\ model \in Models \cup {NotLoaded}
    /\ model # NotLoaded => stage \in {"ml", "score-fusion", "done"}
    /\ verdicts \in Seq(Verdicts) /\ Len(verdicts) <= Len(sessions)
    /\ model = NotLoaded => verdicts = <<>>
    /\ model # NotLoaded /\ stage \in {"score-fusion", "done"} => Len(verdicts) = Len(sessions)
    /\ IF Done THEN ResultShown ELSE result = NoResult

(* The models, whatever they say and wherever they raise, move a scan by   *)
(* at most ten points and a session by two, only down, and what the rules  *)
(* found clean not at all; the report tells of every move                  *)
(* (score.py 3-10, runner.py 5-11, 193-200).                               *)
FusionBounded ==
    Done =>
        /\ result.score \in result.rule_score - 10 .. result.rule_score
        /\ \A i \in DOMAIN sessions : \A k \in result.session_scores[i] :
              /\ k \in RuleScores[i] - 2 .. RuleScores[i]
              /\ RulesOf(i) = {} => GradeOf(k) = "A" /\ k = 100
        /\ (\A i \in DOMAIN sessions : RulesOf(i) = {}) => result.score = 100 /\ result.grade = "A"
        /\ ~MlAvailable => result.score = result.rule_score
        /\ result.score # result.rule_score => Summary.fused

(* The scan's score lies between its worst session and the mean: a worse   *)
(* session counts more (score.py 36).                                      *)
WorseCountsMore ==
    Done /\ sessions # <<>> =>
        LET scores == RangeOf(RuleScores)
            n      == Len(sessions)
        IN  /\ \E s \in scores : s <= result.rule_score
            /\ 2 * (n * result.rule_score - SumOver(DOMAIN sessions, LAMBDA i : RuleScores[i])) <= n
            /\ SumOver(DOMAIN result.servers, LAMBDA h : result.servers[h].sessions) = n
            /\ \A h \in DOMAIN result.servers :
                  \E i, j \in OnHost(sessions, h) :
                      result.servers[h].mean_score \in RuleScores[i] .. RuleScores[j]

(* A host that ever answers with a lower version than it did before, two   *)
(* or more below its best, is reported, and no other is; so is one that    *)
(* showed two leaf certificates.  Without times, nothing is (score.py      *)
(* 119-159).                                                               *)
HostFindingsExact ==
    stage \in {"scoring", "ml", "score-fusion", "done"} /\ ~Unsortable(sessions) =>
        \A h \in HostsOf(sessions) :
            LET tls  == {i \in OnHost(sessions, h) : sessions[i].transport # "plaintext"
                                                     /\ sessions[i].tls.version # 0}
                v(i) == VerOrder(sessions[i].tls.version)
                before(i, j) == \/ sessions[i].start < sessions[j].start
                                \/ sessions[i].start = sessions[j].start /\ i < j
                fell == \E i, j \in tls : /\ before(i, j) /\ v(j) < v(i)
                                          /\ \E m \in tls : v(j) < v(m) - 1
                leaves == {analysed[i].certificates[1].fingerprint :
                              i \in {i \in OnHost(sessions, h) : analysed[i].certificates # <<>>}}
            IN  /\ [rule |-> "XSE-002", host |-> h] \in host_findings <=> fell
                /\ [rule |-> "XSE-001", host |-> h] \in host_findings <=> Cardinality(leaves) > 1

-----------------------------------------------------------------------------
(* A leaf is expired, about to expire, or neither, and never two of them:  *)
(* the last hour of its validity and the first after it are told apart     *)
(* (certificates.py 115-117, rules.py 196-204).                            *)
ExpiryExclusive ==
    Done => \A i \in DOMAIN sessions :
        LET certs == analysed[i].certificates
        IN  certs # <<>> =>
                LET left == certs[1].fingerprint.not_after
                IN  /\ "CRT-001" \in RulesOf(i) <=> left < 0
                    /\ "CRT-003" \in RulesOf(i) <=> left \in 0 .. 31 * Day - 1

(* The titles next to the bands of a grade. *)
TitlesOf == [A |-> {"STRONG POSTURE"}, B |-> {"STRONG POSTURE", "MODERATE RISK"},
             C |-> {"MODERATE RISK", "ELEVATED RISK"}, D |-> {"ELEVATED RISK", "CRITICAL RISK"},
             F |-> {"CRITICAL RISK"}]

(* The features a model reads, the counters of the posture and the lists   *)
(* of the report tell of each session what its findings do: they are       *)
(* computed apart, by features.py, runner.py and builder.py.  The title of *)
(* the PDF has bands of its own, which stay next to those of the grade.    *)
(* A call for immediate remediation comes with a session of C or worse.    *)
ReportAgrees ==
    Done =>
        /\ \A i \in DOMAIN sessions :
              LET f == analysed[i].features
              IN  /\ "CRT-007" \in RulesOf(i) <=> f.hostname_match = 0
                  /\ "CRT-004" \in RulesOf(i) <=> f.cert_is_self_signed
                  /\ "CRT-003" \in RulesOf(i) => f.cert_days_to_expiry <= ExpiryWarnDays
                  /\ "PFS-001" \in RulesOf(i) <=> ~f.kex_is_pfs /\ sessions[i].tls.suite # NoSuite
                  /\ "CRT-005" \in RulesOf(i) =>
                        f.cert_key_bits < 2048 \/ LeafOf(analysed[i].certificates).key_algorithm = "DSA"
                  /\ f.cipher_mismatch_count > 0 /\ f.cipher_strength_bits < 128
                        => RulesOf(i) \cap {"CPR-004"} # {}
        /\ result.quantum_vulnerable_sessions = Cardinality(AllAdvisories)
        /\ result.quantum_vulnerable_sessions + result.pqc_ready_sessions <= Len(sessions)
        /\ result.credential_exposure
              = Cardinality({i \in DOMAIN sessions : "CRE-001" \in RulesOf(i)})
        /\ DOMAIN result.severity_counts = DOMAIN GroupedFindings
        /\ \A sev \in DOMAIN GroupedFindings :
              result.severity_counts[sev] = Cardinality(GroupedFindings[sev])
        /\ SumOver(DOMAIN ComplianceTable, LAMBDA rid : ComplianceTable[rid])
              = SumOver(0 .. Len(sessions), LAMBDA i : Cardinality(GetSession(i).findings))
        /\ VerdictTitle(result.score) \in TitlesOf[result.grade]
        /\ Summary.immediate <=> \E i \in DOMAIN sessions :
              \E f \in analysed[i].findings : SeverityOf(f.rule) = "critical"
                                             /\ result.session_scores[i] \subseteq 0 .. 74

(* A reader who asks for at most PageCap sessions at a time and steps by   *)
(* the limit of the answer sees every session once, in order               *)
(* (routers/scans.py 145-160).                                             *)
PagesCover ==
    Done => \A limit \in 1 .. PageCap : \A transports \in SUBSET {"implicit", "starttls", "plaintext"} :
        LET first == ListSessions(transports, limit, 0)
            pages == [k \in 1 .. (first.total + limit - 1) \div limit |->
                         ListSessions(transports, limit, (k - 1) * first.limit).items]
        IN  FlattenSeq(pages) = Ascending({i \in DOMAIN sessions : sessions[i].transport \in transports})
=============================================================================
