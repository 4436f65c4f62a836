------------------------------ MODULE Analysis ------------------------------
(***************************************************************************)
(* pipeline/runner.py: analyze_pcap, from the bytes of a capture to its    *)
(* result.  FlowTable has its first stage.  The stages are those of tick;  *)
(* "raised" is the exception that reaches the worker.                      *)
(***************************************************************************)
EXTENDS MailSessions, Posture

CONSTANT
    Models              \* pairs of models, as functions from LABEL_NAMES to verdicts

LabelNames == {"critical", "high", "medium", "low"}
Verdicts == [anomaly : BOOLEAN, bad : 0 .. 100]

ASSUME ModelsAssumption == Models \subseteq [LabelNames -> Verdicts]

(* What a certificate that can be read has: its dates, and a size of key.  *)
Dated(x) == x.not_before \in Int /\ x.not_after \in Int /\ x.key.bits \in Nat
ASSUME CertificatesAssumption ==
    \A c \in Captures : \A p \in PacketsOf(c) : \A u \in ToSet(p.payload) :
        u.kind = "certificate" =>
            u.chain \in Seq(ToSet(u.chain)) /\ \A x \in ToSet(u.chain) : Readable(x) => Dated(x)

VARIABLES
    built,              \* the flows that have been looked at for a session
    sessions,           \* the sessions, numbered from sess-0001
    analysed,           \* what evaluate_session and extract found of each
    host_findings,
    evidence,           \* the frames bound to the findings of each session
    model,              \* the loaded models, or why there are none
    verdicts,           \* what the models said of each session
    result              \* the posture that is returned

sessionVars == <<built, sessions>>
vars == <<stage, flowVars, sessionVars, analysed, host_findings, evidence, model, verdicts, result>>

NotLoaded == [l \in {} |-> NoVerdict]
NoEvidence == [frames |-> <<>>, packet_offset |-> 0]
NoResult == [score |-> -1]

Init ==
    /\ FlowInit
    /\ built = 0 /\ sessions = <<>> /\ analysed = <<>> /\ host_findings = {} /\ evidence = <<>>
    /\ model = NotLoaded /\ verdicts = <<>> /\ result = NoResult

AnalyzePcapIngest ==
    /\ Ingest
    /\ UNCHANGED <<sessionVars, analysed, host_findings, evidence, model, verdicts, result>>

(* Mutant: one session for each server, as in a dictionary by its address. *)
WithSessionOfServer(s) ==
    IF s = NoSession \/ \E i \in DOMAIN sessions : sessions[i].server = s.server
      THEN sessions ELSE Append(sessions, s)

WithSession(s) == IF s = NoSession THEN sessions ELSE Append(sessions, s)

(* A flow without data gives no session; so does one that build_session    *)
(* finds no protocol in.                                                   *)
BuildNext ==
    /\ stage = "protocol-id" /\ built < Len(flows)
    /\ LET flow == flows[built + 1]
       IN  sessions' = IF Finished(flow) THEN WithSession(BuildSession(flow)) ELSE sessions
    /\ built' = built + 1
    /\ UNCHANGED <<stage, flowVars, analysed, host_findings, evidence, model, verdicts, result>>

AllBuilt ==
    /\ stage = "protocol-id" /\ built = Len(flows)
    /\ stage' = "tls-analysis"
    /\ UNCHANGED <<flowVars, sessionVars, analysed, host_findings, evidence, model, verdicts, result>>

-----------------------------------------------------------------------------
(* Mutant: a name that was not asked for does not match. *)
HostnameMatchAsked(s, certs, issues) ==
    IF certs = <<>> THEN -1
    ELSE IF s.tls.sni # NoHost /\ "hostname mismatch" \notin issues THEN 1
    ELSE 0

(* Matched, mismatched, or not to be checked. *)
HostnameMatch(s, certs, issues) ==
    IF s.tls.sni = NoHost \/ certs = <<>> THEN -1
    ELSE IF "hostname mismatch" \in issues THEN 0
    ELSE 1

(* features.py, extract: the features the rules have a word on as well.    *)
Extract(s, certs, issues) ==
    [tls_version_num |-> s.tls.version,
     cipher_strength_bits |-> IF s.tls.suite = NoSuite THEN 0 ELSE CipherStrength(s.tls.suite),
     kex_is_pfs |-> s.tls.suite # NoSuite /\ PfsOf(s.tls.kex),
     cert_key_bits |-> IF certs = <<>> THEN 0 ELSE LeafOf(certs).key_length,
     cert_days_to_expiry |-> IF certs = <<>> THEN 0 ELSE LeafOf(certs).days_to_expiry,
     cert_is_self_signed |-> certs # <<>> /\ LeafOf(certs).self_signed,
     cert_chain_issues_count |-> Cardinality(issues),
     alert_count |-> Cardinality(s.tls.alerts),
     renegotiation_seen |-> s.tls.reneg_seen, session_resumed |-> s.tls.resumed,
     cert_chain_length |-> IF s.tls.cert_chains = <<>> THEN 0 ELSE Len(s.tls.cert_chains[1]),
     hostname_match |-> HostnameMatch(s, certs, issues),
     cipher_mismatch_count |->
        IF s.tls.suite = NoSuite THEN 0
        ELSE Cardinality({c \in s.tls.offered : CipherStrength(c) > CipherStrength(s.tls.suite)})]

(* The certificates and the rules of one session (runner.py 67-98).        *)
Analyse(s) ==
    LET chains == s.tls.cert_chains
        certs  == IF chains = <<>> THEN <<>> ELSE AnalyzeCertificates(chains[1])
        issues == IF chains = <<>> THEN {} ELSE ChainIssues(chains[1], s.tls.sni)
    IN  [findings |-> Findings(s, certs, issues), advisories |-> Advisories(s),
         certificates |-> certs, features |-> Extract(s, certs, issues)]

AnalyseSession ==
    /\ stage = "tls-analysis" /\ Len(analysed) < Len(sessions)
    /\ analysed' = Append(analysed, Analyse(sessions[Len(analysed) + 1]))
    /\ UNCHANGED <<stage, flowVars, sessionVars, host_findings, evidence, model, verdicts, result>>

AllAnalysed ==
    /\ stage = "tls-analysis" /\ Len(analysed) = Len(sessions)
    /\ stage' = "cross-session"
    /\ UNCHANGED <<flowVars, sessionVars, analysed, host_findings, evidence, model, verdicts, result>>

Certs == [i \in DOMAIN analysed |-> analysed[i].certificates]

(* An exception of the host rules is passed over with all they found.      *)
CrossSession ==
    /\ stage = "cross-session"
    /\ host_findings' = IF Unsortable(sessions) THEN {}
                        ELSE CrossSessionFindings(sessions, Certs)
    /\ stage' = "scoring"
    /\ UNCHANGED <<flowVars, sessionVars, analysed, evidence, model, verdicts, result>>

-----------------------------------------------------------------------------
(* frames[:12], and the place in the file of the first of them.  A place   *)
(* is the number of the record that is found there.                        *)
MaxEvidence == 12
EvidenceOf(s) ==
    [frames |-> SubSeq(s.frames, 1, Smaller(MaxEvidence, Len(s.frames))),
     packet_offset |-> frame_offsets[s.frames[1]]]

BindEvidence ==
    /\ stage = "scoring"
    /\ evidence' = [i \in DOMAIN sessions |-> IF sessions[i].frames = <<>> THEN NoEvidence
                                              ELSE EvidenceOf(sessions[i])]
    /\ stage' = "ml"
    /\ UNCHANGED <<flowVars, sessionVars, analysed, host_findings, model, verdicts, result>>

-----------------------------------------------------------------------------
(* The models (predict.py).  Without both files there are no verdicts.     *)
Unavailable ==
    /\ stage = "ml" /\ model = NotLoaded
    /\ stage' = "score-fusion"
    /\ UNCHANGED <<flowVars, sessionVars, analysed, host_findings, evidence, model, verdicts, result>>

Load ==
    /\ stage = "ml" /\ model = NotLoaded
    /\ model' \in Models
    /\ UNCHANGED <<stage, flowVars, sessionVars, analysed, host_findings, evidence, verdicts, result>>

NextSession == Len(verdicts) + 1
VerdictOn(i) == model[LabelOf(analysed[i].findings)]

Predict ==
    /\ stage = "ml" /\ model # NotLoaded /\ Len(verdicts) < Len(sessions)
    /\ verdicts' = Append(verdicts, VerdictOn(NextSession))
    /\ UNCHANGED <<stage, flowVars, sessionVars, analysed, host_findings, evidence, model, result>>

(* Mutant: no verdicts at all are kept for the sessions after it. *)
PredictStops ==
    /\ stage = "ml" /\ model # NotLoaded /\ Len(verdicts) < Len(sessions)
    /\ verdicts' = Append(verdicts, NoVerdict)
    /\ stage' = "score-fusion"
    /\ UNCHANGED <<flowVars, sessionVars, analysed, host_findings, evidence, model, result>>

(* The detector is asked first: what it said stays when the classifier     *)
(* raises.  The sessions after it get no verdict; available stays true.    *)
PredictRaises ==
    /\ stage = "ml" /\ model # NotLoaded /\ Len(verdicts) < Len(sessions)
    /\ \E flagged \in {FALSE, VerdictOn(NextSession).anomaly} :
           verdicts' = Append(verdicts, [anomaly |-> flagged, bad |-> 0])
                       \o [i \in 1 .. Len(sessions) - NextSession |-> NoVerdict]
    /\ stage' = "score-fusion"
    /\ UNCHANGED <<flowVars, sessionVars, analysed, host_findings, evidence, model, result>>

AllPredicted ==
    /\ stage = "ml" /\ model # NotLoaded /\ Len(verdicts) = Len(sessions)
    /\ stage' = "score-fusion"
    /\ UNCHANGED <<flowVars, sessionVars, analysed, host_findings, evidence, model, verdicts, result>>

MlAvailable == model # NotLoaded

-----------------------------------------------------------------------------
(* The result.  A session may have two fused scores, see Posture.          *)

RuleScores == [i \in DOMAIN analysed |-> ScoreSession(analysed[i].findings)]
FusedScores == [i \in DOMAIN analysed |->
                   FuseSession(IF MlAvailable THEN verdicts[i] ELSE NoVerdict, RuleScores[i], MlAvailable)]

(* The list of findings, those about a host without a session.             *)
NoSessionId == 0
AllFindings ==
    (UNION {{[session |-> i, rule |-> f.rule, about |-> <<f.about>>] : f \in analysed[i].findings}
               : i \in DOMAIN analysed})
    \cup {[session |-> NoSessionId, rule |-> h.rule, about |-> h.host] : h \in host_findings}
AllAdvisories == UNION {{[session |-> i, rule |-> f.rule] : f \in analysed[i].advisories}
                           : i \in DOMAIN analysed}

CountBy(S, key(_)) == [k \in {key(x) : x \in S} |-> Cardinality({x \in S : key(x) = k})]
CountSessions(P(_)) == Cardinality({i \in DOMAIN sessions : P(sessions[i])})

(* "smtps" is the pair of smtp and TRUE. *)
Label(s) == <<s.protocol, s.transport = "implicit" /\ s.tls.version # 0>>

Fuse ==
    /\ stage = "score-fusion"
    /\ \E rule_score \in ScanScores(RuleScores) :
           LET fused == FuseScores(verdicts, rule_score, MlAvailable)
           IN  \E score \in fused.scores :
                  result' =
                    [rule_score |-> rule_score, ml_adjustment |-> fused.adjustment,
                     score |-> score, grade |-> GradeOf(score), ml_enabled |-> MlAvailable,
                     session_scores |-> FusedScores,
                     anomalous_sessions |-> Cardinality({i \in DOMAIN verdicts : verdicts[i].anomaly}),
                     severity_counts |-> CountBy(AllFindings, LAMBDA f : SeverityOf(f.rule)),
                     servers |-> ServerGrades(sessions, RuleScores),
                     quantum_vulnerable_sessions |-> CountSessions(LAMBDA s : QuantumVulnerable(s.tls)),
                     pqc_ready_sessions |-> CountSessions(LAMBDA s : s.tls.group \in HybridGroups),
                     credential_exposure |-> CountSessions(LAMBDA s : s.cleartext_creds # {}),
                     protocol_counts |-> CountBy(DOMAIN sessions, LAMBDA i : Label(sessions[i])),
                     packet_count |-> count, flow_count |-> Len(flows), flows_overflowed |-> overflowed,
                     reassembly_incomplete_sessions |-> CountSessions(LAMBDA s : s.incomplete),
                     truncated_sessions |-> CountSessions(LAMBDA s : s.truncated)]
    /\ stage' = "done"
    /\ UNCHANGED <<flowVars, sessionVars, analysed, host_findings, evidence, model, verdicts>>

(* The worker has the result, or the exception. *)
Ended == stage \in {"done", "raised"} /\ UNCHANGED vars

Next ==
    \/ AnalyzePcapIngest \/ BuildNext \/ AllBuilt \/ AnalyseSession \/ AllAnalysed \/ CrossSession
    \/ BindEvidence \/ Unavailable \/ Load \/ Predict \/ PredictRaises \/ AllPredicted \/ Fuse
    \/ Ended

Spec == Init /\ [][Next]_vars
=============================================================================
