------------------------------ MODULE Posture ------------------------------
(***************************************************************************)
(* pipeline/score.py: the scores of sessions and of the scan, their fusion *)
(* with what the models say, and the findings about a host.                *)
(*                                                                         *)
(* A score is a whole number.  Adjustments are counted in ten-thousandths  *)
(* of a point.  A quotient in floating point is rounded to a nearest whole *)
(* number; which one of two, its last bit decides.                         *)
(***************************************************************************)
EXTENDS Rules

Point == 10000
MaxSession == 2 * Point     \* ML_MAX_SESSION_ADJUSTMENT
MaxScan == 10 * Point       \* ML_MAX_SCAN_ADJUSTMENT

(* Smaller and Larger, for the clamps. *)
Smaller(x, y) == IF x < y THEN x ELSE y
Larger(x, y) == IF x < y THEN y ELSE x
Clamp(lo, hi, x) == Larger(lo, Smaller(hi, x))

(* The whole numbers nearest to n / d: one, or two. *)
Nearest(n, d) ==
    LET down == n \div d
        rest == n % d
    IN  CASE 2 * rest < d -> {down}
          [] 2 * rest > d -> {down + 1}
          [] OTHER        -> {down, down + 1}

GradeOf(score) ==
    IF score >= 90 THEN "A"
    ELSE IF score >= 75 THEN "B"
    ELSE IF score >= 60 THEN "C"
    ELSE IF score >= 40 THEN "D"
    ELSE "F"

SumOver(S, value(_)) == SumFunction([x \in S |-> value(x)])

ScoreSession(findings) == Larger(0, 100 - SumOver(findings, LAMBDA f : WeightOf(f.rule)))

-----------------------------------------------------------------------------
(* score_scan: a session at 0 counts three times as much as one at 100.    *)
WeightUpsideDown(score) == 50 + score
RiskWeight(score) == 150 - score

ScanScores(scores) ==
    LET n == SumOver(DOMAIN scores, LAMBDA i : scores[i] * RiskWeight(scores[i]))
        d == SumOver(DOMAIN scores, LAMBDA i : RiskWeight(scores[i]))
    IN  IF scores = <<>> THEN {100} ELSE Nearest(n, d)

NoHostName == <<>>
HostOf(s) == IF s.server_host # NoHostName THEN s.server_host ELSE <<s.server.host>>
OnHost(sessions, host) == {i \in DOMAIN sessions : HostOf(sessions[i]) = host}
HostsOf(sessions) == {HostOf(sessions[i]) : i \in DOMAIN sessions}

ServerGrades(sessions, scores) ==
    [h \in HostsOf(sessions) |->
        LET mine == OnHost(sessions, h)
        IN  [mean_score |-> SumOver(mine, LAMBDA i : scores[i]) \div Cardinality(mine),
             sessions   |-> Cardinality(mine)]]

-----------------------------------------------------------------------------
(* A verdict: whether the detector flags the session, and the percentage   *)
(* the classifier puts on the classes other than "low".                    *)
NoVerdict == [anomaly |-> FALSE, bad |-> 0]

(* train.py, label_of: the class the classifier is trained to give.        *)
LabelOf(findings) ==
    LET sev == {SeverityOf(f.rule) : f \in findings}
    IN  IF "critical" \in sev THEN "critical"
        ELSE IF "high" \in sev THEN "high"
        ELSE IF "medium" \in sev THEN "medium"
        ELSE "low"

(* session_ml_adjustment *)
SessionAdjustment(v) == (MaxSession \div 10000) * (IF v.anomaly THEN 100 ELSE 35) * v.bad

(* fuse_scores: the scores it may return, and the adjustment. *)
FusedWithoutGuard(verdicts, rule_score, available) ==
    LET sum   == SumOver(DOMAIN verdicts, LAMBDA i : SessionAdjustment(verdicts[i]))
        total == Clamp(0, MaxScan, sum)
    IN  [adjustment |-> total,
         scores |-> {Clamp(0, 100, k) : k \in Nearest(rule_score * Point - total, Point)}]

FuseScores(verdicts, rule_score, available) ==
    LET sum   == SumOver(DOMAIN verdicts, LAMBDA i : SessionAdjustment(verdicts[i]))
        total == Clamp(0, MaxScan, sum)
    IN  IF ~available \/ verdicts = <<>> \/ rule_score >= 100
          THEN [adjustment |-> 0, scores |-> {rule_score}]
          ELSE [adjustment |-> total,
                scores |-> {Clamp(0, 100, k) : k \in Nearest(rule_score * Point - total, Point)}]

(* The fused score of one session (runner.py). *)
FuseSession(v, rule_score, available) ==
    LET adj == IF available /\ rule_score < 100 THEN SessionAdjustment(v) ELSE 0
    IN  {Clamp(0, 100, k) : k \in Nearest(rule_score * Point - adj, Point)}

-----------------------------------------------------------------------------
(* cross_session_findings *)

VerOrder(v) == IF v \in \h0300 .. \h0304 THEN v - \h02ff ELSE 0

(* Python cannot compare a time with the number that stands for none. *)
Unsortable(sessions) ==
    \E i, j \in DOMAIN sessions :
        /\ HostOf(sessions[i]) = HostOf(sessions[j])
        /\ sessions[i].start = -1 /\ sessions[j].start # -1

(* The sessions of a host, by their start, then by their number. *)
Before(sessions, i, j) ==
    \/ sessions[i].start < sessions[j].start
    \/ sessions[i].start = sessions[j].start /\ i < j
InTime(sessions, host) ==
    LET mine == OnHost(sessions, host)
    IN  Ranked([i \in mine |-> {j \in mine : Before(sessions, j, i)}])

LeavesOf(sessions, certs, host) ==
    {certs[i][1].fingerprint : i \in {i \in OnHost(sessions, host) : certs[i] # <<>>}}

Versions(sessions, host) ==
    LET ss    == InTime(sessions, host)
        shown == {k \in DOMAIN ss : sessions[ss[k]].transport # "plaintext"
                                    /\ sessions[ss[k]].tls.version # 0}
    IN  Selected([k \in DOMAIN ss |-> VerOrder(sessions[ss[k]].tls.version)], shown)

(* Mutant: the drop is looked for from the best version only. *)
RegressionFromBest(vers) ==
    \E k \in 2 .. Len(vers) :
        /\ \A m \in DOMAIN vers : vers[m] <= vers[k - 1]
        /\ vers[k] < vers[k - 1] - 1

(* One session, then the next: down, and two or more below the host's best.*)
Regression(vers) ==
    \E k \in 2 .. Len(vers) :
        /\ vers[k] < vers[k - 1]
        /\ \E m \in DOMAIN vers : vers[k] < vers[m] - 1

CrossSessionFindings(sessions, certs) ==
    {[rule |-> "XSE-001", host |-> h] :
        h \in {h \in HostsOf(sessions) : Cardinality(LeavesOf(sessions, certs, h)) > 1}}
    \cup {[rule |-> "XSE-002", host |-> h] :
        h \in {h \in HostsOf(sessions) : Regression(Versions(sessions, h))}}
=============================================================================
