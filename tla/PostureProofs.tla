---------------------------- MODULE PostureProofs ----------------------------
(***************************************************************************)
(* Proofs about the scores and the findings, whatever the capture and the  *)
(* models: what is judged is JudgedInv, and what follows from it, and from *)
(* what a session is (SessionInv), for the result and the report.          *)
(***************************************************************************)
EXTENDS AnalysisProofs, SumProofs

(* A finding of a session is one of finitely many.                         *)
RuleList == <<"PRT-001", "CFG-003", "CFG-004", "CFG-005", "CFG-006", "CFG-007", "TLS-001",
              "CPR-001", "CPR-002", "CPR-003", "CPR-004", "PFS-001", "ALR-001", "CRT-001",
              "CRT-002", "CRT-003", "CRT-004", "CRT-005", "CRT-006", "CRT-007", "CRT-008", "CRE-001">>
AboutList == <<"session", "AUTH PLAIN", "LOGIN", "AUTH LOGIN", "USER PASS",
               "signature break", "no intermediates", "no self-signed root">>
Place == (1 .. 22) \X (1 .. 8)
FindingAt == [p \in Place |-> Finding(RuleList[p[1]], AboutList[p[2]])]
Possible == {FindingAt[p] : p \in Place}
SessionRules == {RuleList[i] : i \in 1 .. 22}

(* There are finitely many of them, and each has the weight of its rule.   *)
LEMMA PossibleIsFinite == IsFiniteSet(Possible)
<1>1. 1 \in Int /\ 8 \in Int /\ 22 \in Int
  OBVIOUS
<1>2. IsFiniteSet(1 .. 22) /\ IsFiniteSet(1 .. 8)
  BY <1>1, FS_Interval
<1>3. IsFiniteSet(Place)
  BY <1>2, FS_Product, Zenon DEF Place
<1>4. FindingAt \in Surjection(Place, Possible)
  BY DEF Surjection, FindingAt, Possible
<1> QED
  BY <1>3, <1>4, FS_Surjection

(* The weight of a rule is a number of points.                             *)
LEMMA Weights ==
    ASSUME NEW f \in Possible
    PROVE  WeightOf(f.rule) \in 0 .. 40
<1>1. PICK i \in 1 .. 22, j \in 1 .. 8 : f = Finding(RuleList[i], AboutList[j])
  BY DEF Possible, Place, FindingAt
<1>2. f.rule \in SessionRules
  BY <1>1 DEF Finding, SessionRules
<1>3. SessionRules =
        {"PRT-001", "CFG-003", "CPR-001", "CRE-001"} \cup {"CFG-004", "TLS-001", "CPR-002"}
        \cup {"CRT-001", "CRT-005"} \cup {"CRT-006"}
        \cup {"CFG-007", "ALR-001", "CRT-002", "CRT-004", "CRT-007"}
        \cup {"CFG-005", "CPR-004", "PFS-001"} \cup {"CPR-003", "CFG-006", "CRT-008"} \cup {"CRT-003"}
  BY DEF SessionRules, RuleList
<1> QED
  BY <1>2, <1>3 DEF WeightOf

(* When, of a rule of the list.                                            *)
LEMMA Whens ==
    ASSUME NEW c, NEW i \in 1 .. 22
    PROVE  When(c, RuleList[i]) \subseteq Possible
<1>1. <<i, 1>> \in Place /\ AboutList[1] = "session"
  BY DEF Place, AboutList
<1>2. FindingAt[<<i, 1>>] = Finding(RuleList[i], "session")
  BY <1>1 DEF FindingAt
<1>3. Finding(RuleList[i], "session") \in Possible
  BY <1>1, <1>2 DEF Possible
<1> QED
  BY <1>3 DEF When

(* The same for a rule by its name.                                        *)
LEMMA RuleNames ==
    SessionRules = {"PRT-001", "CFG-003", "CFG-004", "CFG-005", "CFG-006", "CFG-007", "TLS-001",
                    "CPR-001", "CPR-002", "CPR-003", "CPR-004", "PFS-001", "ALR-001", "CRT-001",
                    "CRT-002", "CRT-003", "CRT-004", "CRT-005", "CRT-006", "CRT-007", "CRT-008", "CRE-001"}
BY DEF SessionRules, RuleList

(* A single rule's findings about a session are findings of the finite     *)
(* table.                                                                  *)
LEMMA NamedWhens ==
    ASSUME NEW c, NEW rid \in SessionRules
    PROVE  When(c, rid) \subseteq Possible
BY Whens DEF SessionRules

(* The places of the table that the rules name.                            *)
LEMMA Places ==
    /\ 2 \in 1 .. 8 /\ 3 \in 1 .. 8 /\ 4 \in 1 .. 8 /\ 5 \in 1 .. 8 /\ 6 \in 1 .. 8
    /\ 7 \in 1 .. 8 /\ 8 \in 1 .. 8 /\ 21 \in 1 .. 22 /\ 22 \in 1 .. 22
OBVIOUS

(* Names and kinds of other findings.                                      *)
LEMMA OtherFindings ==
    ASSUME NEW about \in {"AUTH PLAIN", "LOGIN", "AUTH LOGIN", "USER PASS",
                          "signature break", "no intermediates", "no self-signed root"}
    PROVE  Finding("CRE-001", about) \in Possible /\ Finding("CRT-008", about) \in Possible
<1>1. PICK j \in 1 .. 8 : AboutList[j] = about
  <2>1. /\ AboutList[2] = "AUTH PLAIN" /\ AboutList[3] = "LOGIN" /\ AboutList[4] = "AUTH LOGIN"
        /\ AboutList[5] = "USER PASS" /\ AboutList[6] = "signature break"
        /\ AboutList[7] = "no intermediates" /\ AboutList[8] = "no self-signed root"
    BY DEF AboutList
  <2> QED
    BY <2>1, Places
<1>2. RuleList[21] = "CRT-008" /\ RuleList[22] = "CRE-001"
  BY DEF RuleList
<1>3. <<21, j>> \in Place /\ <<22, j>> \in Place
  BY Places DEF Place
<1>4. /\ FindingAt[<<21, j>>] = Finding("CRT-008", about)
      /\ FindingAt[<<22, j>>] = Finding("CRE-001", about)
  BY <1>1, <1>2, <1>3 DEF FindingAt
<1> QED
  BY <1>3, <1>4 DEF Possible

(* evaluate_session finds nothing else.                                    *)
LEMMA FindingsArePossible ==
    ASSUME NEW s, s.cleartext_creds \subseteq CredentialKinds, NEW certs, NEW issues
    PROVE  Findings(s, certs, issues) \subseteq Possible
<1>1. PlainFindings(s) \subseteq Possible
  <2>1. {"CFG-005", "PRT-001", "CFG-004"} \subseteq SessionRules
    BY RuleNames
  <2> DEFINE c1 == /\ ~s.started_plain /\ s.protocol = "smtp" /\ s.server.port \in {25, 587}
                   /\ ~s.advertised
             c2 == ~s.started_plain
             c3 == s.started_plain
  <2>2. PlainFindings(s) = When(c1, "CFG-005") \cup When(c2, "PRT-001") \cup When(c3, "CFG-004")
    BY DEF PlainFindings
  <2> HIDE DEF c1, c2, c3
  <2>3. /\ When(c1, "CFG-005") \subseteq Possible /\ When(c2, "PRT-001") \subseteq Possible
        /\ When(c3, "CFG-004") \subseteq Possible
    BY <2>1, NamedWhens
  <2> QED
    BY <2>2, <2>3
<1>2. SuiteFindings(s.tls) \subseteq Possible
  <2>1. {"CPR-001", "CPR-002", "CPR-003", "CPR-004", "PFS-001", "CFG-006", "CFG-007"}
          \subseteq SessionRules
    BY RuleNames
  <2> QED
    BY <2>1, NamedWhens DEF SuiteFindings
<1>3. TlsFindings(s) \subseteq Possible
  <2>1. {"CFG-003", "TLS-001", "ALR-001"} \subseteq SessionRules
    BY RuleNames
  <2> QED
    BY <1>2, <2>1, NamedWhens DEF TlsFindings
<1>4. LeafFindings(LeafOf(certs), issues) \subseteq Possible
  <2>1. {"CRT-001", "CRT-002", "CRT-003", "CRT-004", "CRT-005", "CRT-006", "CRT-007"}
          \subseteq SessionRules
    BY RuleNames
  <2> QED
    BY <2>1, NamedWhens DEF LeafFindings
<1>5. {Finding("CRE-001", kind) : kind \in s.cleartext_creds} \subseteq Possible
  BY OtherFindings DEF CredentialKinds
<1>6. {Finding("CRT-008", issue) :
          issue \in issues \cap {"signature break", "no intermediates", "no self-signed root"}}
        \subseteq Possible
  BY OtherFindings
<1> QED
  BY <1>1, <1>3, <1>4, <1>5, <1>6 DEF Findings

-----------------------------------------------------------------------------
(* The scores.  The provers look at them as a set of 101 elements, and are *)
(* better off without its definition.                                      *)
Scores == 0 .. 100
(* Scores, the interval from 0 to 100, by its bounds.                      *)
LEMMA ScoreIs ==
    /\ \A s \in Scores : s \in Int /\ 0 <= s /\ s <= 100
    /\ \A s \in Int : 0 <= s /\ s <= 100 => s \in Scores
BY DEF Scores

(* score_session: a score is one of 0 .. 100, and 100 if nothing was found.*)
LEMMA SessionScores ==
    ASSUME NEW F \in SUBSET Possible
    PROVE  ScoreSession(F) \in Scores /\ (F = {} => ScoreSession(F) = 100)
<1> DEFINE w == [f \in F |-> WeightOf(f.rule)]
<1>1. IsFiniteSet(F)
  BY PossibleIsFinite, FS_Subset
<1>2. w \in [F -> Int] /\ \A f \in F : 0 <= w[f]
  BY Weights
<1>3. ScoreSession(F) = Larger(0, 100 - SumFunction(w))
  BY DEF ScoreSession, SumOver
<1> HIDE DEF w
<1>4. DOMAIN w = F
  BY <1>2
<1>5. SumFunction(w) \in Int
  BY <1>1, <1>2, SumIsNumber
<1>6. 0 <= SumFunction(w)
  <2>1. \A f \in F : 0 * w[f] <= w[f]
    BY <1>2
  <2>2. 0 * SumFunction(w) <= SumFunction(w)
    BY <1>1, <1>2, <2>1, SumIsBoundedBelow
  <2> QED
    BY <1>5, <2>2
<1>7. F = {} => SumFunction(w) = 0
  BY <1>4, SumOfNone
<1> QED
  BY <1>3, <1>5, <1>6, <1>7, ScoreIs DEF Larger

(* The whole numbers nearest to a quotient.                                *)
LEMMA NearestIsNear ==
    ASSUME NEW n \in Int, NEW d \in Nat \ {0}, NEW k \in Nearest(n, d)
    PROVE  k \in Int /\ 2 * n - d <= 2 * (k * d) /\ 2 * (k * d) <= 2 * n + d
<1> DEFINE down == n \div d
           rest == n % d
<1>1. down \in Int /\ rest \in 0 .. d - 1 /\ n = d * down + rest
  OBVIOUS
<1>2. k \in {down, down + 1} /\ (k = down => 2 * rest <= d) /\ (k = down + 1 => 2 * rest >= d)
  <2>1. Nearest(n, d) = CASE 2 * rest < d -> {down}
                          [] 2 * rest > d -> {down + 1}
                          [] OTHER        -> {down, down + 1}
    BY DEF Nearest
  <2> HIDE DEF down, rest
  <2>2. 2 * rest \in Int /\ d \in Int /\ rest \in Int
    BY <1>1
  <2>3. CASE 2 * rest < d
    <3>1. ~(2 * rest > d) /\ down # down + 1
      BY <1>1, <2>2, <2>3
    <3>2. k = down
      BY <2>1, <2>3, <3>1
    <3> QED
      BY <2>2, <2>3, <3>1, <3>2
  <2>4. CASE 2 * rest > d
    <3>1. ~(2 * rest < d) /\ down # down + 1
      BY <1>1, <2>2, <2>4
    <3>2. k = down + 1
      BY <2>1, <2>4, <3>1
    <3> QED
      BY <2>2, <2>4, <3>1, <3>2
  <2>5. CASE ~(2 * rest < d) /\ ~(2 * rest > d)
    <3>1. k \in {down, down + 1}
      BY <2>1, <2>5
    <3> QED
      BY <2>2, <2>5, <3>1
  <2> QED
    BY <2>3, <2>4, <2>5
<1> HIDE DEF down, rest
<1>3. (down + 1) * d = d * down + d /\ down * d = d * down
  BY <1>1
<1> QED
  BY <1>1, <1>2, <1>3

-----------------------------------------------------------------------------
(* What a client sends in the clear is of one of four kinds.               *)
LEMMA CredentialsOfASession ==
    ASSUME NEW flow, BuildSession(flow) # NoSession
    PROVE  BuildSession(flow).cleartext_creds \subseteq CredentialKinds
<1>1. \A stream : CredentialsIn(stream) \subseteq CredentialKinds
  BY DEF CredentialsIn, CredentialKinds
<1>2. \E stream : BuildSession(flow).cleartext_creds = CredentialsIn(stream)
  BY DEF BuildSession, NoSession
<1> QED
  BY <1>1, <1>2

(* The records and the verdicts are sequences.                             *)
LEMMA Records ==
    ASSUME JudgedInv, SessionsKept
    PROVE  /\ Len(sessions) \in Nat /\ DOMAIN sessions = 1 .. Len(sessions)
           /\ Len(analysed) \in Nat /\ DOMAIN analysed = 1 .. Len(analysed)
           /\ Len(verdicts) \in Nat /\ DOMAIN verdicts = 1 .. Len(verdicts)
           /\ \A i \in DOMAIN analysed : analysed[i] = Analyse(sessions[i]) /\ i \in DOMAIN sessions
<1>1. Len(sessions) \in Nat /\ DOMAIN sessions = 1 .. Len(sessions)
  BY Sessions
<1>2. Len(analysed) \in 0 .. Len(sessions)
      /\ analysed = [i \in 1 .. Len(analysed) |-> Analyse(sessions[i])]
  BY DEF JudgedInv
<1>3. verdicts \in Seq(Verdicts)
  BY DEF JudgedInv
<1>4. Len(verdicts) \in Nat /\ DOMAIN verdicts = 1 .. Len(verdicts)
  BY <1>3, LenProperties
<1> QED
  BY <1>1, <1>2, <1>4

(* A step that only moves the stage on.                                    *)
LEMMA JudgedStays ==
    ASSUME JudgedInv, ~Done, ~Done',
           UNCHANGED <<sessions, analysed, model, verdicts, result>>,
           stage' \in {"ingest", "raised", "protocol-id"} => Len(analysed) = 0,
           stage' \in {"cross-session", "scoring", "ml", "score-fusion"} => Len(analysed) = Len(sessions),
           model # NotLoaded => stage' \in {"ml", "score-fusion"},
           model # NotLoaded /\ stage' = "score-fusion" => Len(verdicts) = Len(sessions)
    PROVE  JudgedInv'
BY DEF JudgedInv, Done

(* An empty sequence stays one, whatever it was made of.                   *)
LEMMA JudgedBuildNext ==
    ASSUME JudgedInv, SessionsKept, BuildNext
    PROVE  JudgedInv'
<1> DEFINE flow == flows[built + 1]
           s    == BuildSession(flow)
<1>1. /\ stage = "protocol-id" /\ stage' = stage
      /\ sessions' = (IF Finished(flow) /\ s # NoSession THEN Append(sessions, s) ELSE sessions)
      /\ analysed' = analysed /\ model' = model /\ verdicts' = verdicts /\ result' = result
  BY DEF BuildNext, WithSession
<1>2. /\ model = NotLoaded /\ verdicts = <<>> /\ Len(analysed) = 0 /\ result = NoResult
      /\ analysed = [i \in 1 .. 0 |-> Analyse(sessions[i])]
  BY <1>1 DEF JudgedInv, Done
<1>3. sessions \in Seq(ToSet(sessions))
  BY DEF SessionsKept
<1>4. Len(sessions) \in Nat /\ DOMAIN sessions = 1 .. Len(sessions)
  BY Sessions
<1>5. /\ Len(sessions') \in Nat /\ DOMAIN sessions' = 1 .. Len(sessions')
      /\ \A i \in DOMAIN sessions' : sessions'[i].cleartext_creds \subseteq CredentialKinds
  <2>1. \A i \in DOMAIN sessions : sessions[i].cleartext_creds \subseteq CredentialKinds
    BY DEF JudgedInv
  <2>2. CASE sessions' = sessions
    BY <1>4, <2>1, <2>2
  <2>3. CASE sessions' = Append(sessions, s) /\ s # NoSession
    <3>1. s.cleartext_creds \subseteq CredentialKinds
      BY <2>3, CredentialsOfASession
    <3>2. sessions \in Seq(ToSet(sessions) \cup {s}) /\ s \in ToSet(sessions) \cup {s}
      BY <1>3, SeqMonotonic
    <3>3. /\ Len(sessions') = Len(sessions) + 1
          /\ sessions' \in Seq(ToSet(sessions) \cup {s})
          /\ \A i \in 1 .. Len(sessions) : sessions'[i] = sessions[i]
          /\ sessions'[Len(sessions) + 1] = s
      BY <2>3, <3>2, AppendProperties
    <3>4. DOMAIN sessions' = 1 .. Len(sessions')
      BY <3>3, LenProperties
    <3> QED
      BY <1>4, <2>1, <3>1, <3>3, <3>4
  <2> QED
    BY <1>1, <2>2, <2>3
<1>6. 1 .. 0 = {} /\ analysed = [i \in 1 .. 0 |-> Analyse(sessions'[i])]
  BY <1>2
<1>7. verdicts' \in Seq(Verdicts) /\ Len(verdicts') = 0
  BY <1>1, <1>2, EmptySeq
<1> QED
  BY <1>1, <1>2, <1>5, <1>6, <1>7 DEF JudgedInv, Done

(* Judging one session extends the list by a verdict of the right kind,    *)
(* with a score between 0 and 100.                                         *)
LEMMA JudgedAnalyseSession ==
    ASSUME JudgedInv, SessionsKept, AnalyseSession
    PROVE  JudgedInv'
<1> DEFINE n == Len(analysed)
<1>1. /\ stage = "tls-analysis" /\ stage' = stage /\ n < Len(sessions)
      /\ analysed' = Append(analysed, Analyse(sessions[n + 1]))
      /\ sessions' = sessions /\ model' = model /\ verdicts' = verdicts /\ result' = result
  BY DEF AnalyseSession, sessionVars
<1>2. n \in Nat /\ Len(sessions) \in Nat /\ analysed = [i \in 1 .. n |-> Analyse(sessions[i])]
  BY Records DEF JudgedInv
<1> HIDE DEF n
<1>3. /\ Len(analysed') = n + 1
      /\ analysed' = [i \in 1 .. n + 1 |-> Analyse(sessions[i])]
  <2> DEFINE S == {Analyse(sessions[i]) : i \in 1 .. n + 1}
  <2>1. analysed \in Seq(S) /\ Analyse(sessions[n + 1]) \in S /\ Len(analysed) = n
    BY <1>2 DEF n
  <2>2. /\ analysed' \in Seq(S) /\ Len(analysed') = n + 1
        /\ \A i \in 1 .. n : analysed'[i] = analysed[i]
        /\ analysed'[n + 1] = Analyse(sessions[n + 1])
    BY <1>1, <2>1, AppendProperties
  <2>3. analysed' = [i \in 1 .. n + 1 |-> analysed'[i]]
    BY <1>2, <2>2
  <2>4. \A i \in 1 .. n + 1 : analysed'[i] = Analyse(sessions[i])
    BY <1>2, <2>2
  <2> QED
    BY <2>2, <2>3, <2>4
<1> QED
  BY <1>1, <1>2, <1>3 DEF JudgedInv, Done

(* The verdicts, one more or all the rest.                                 *)
LEMMA JudgedPredict ==
    ASSUME JudgedInv, SessionsKept, ModelsAssumption, Predict \/ PredictRaises
    PROVE  JudgedInv'
<1> DEFINE n == Len(verdicts)
<1>1. /\ stage = "ml" /\ stage' \in {"ml", "score-fusion"} /\ model # NotLoaded /\ n < Len(sessions)
      /\ UNCHANGED <<sessions, analysed, model, result>>
  BY DEF Predict, PredictRaises, sessionVars
<1>2. n \in Nat /\ Len(sessions) \in Nat /\ verdicts \in Seq(Verdicts) /\ NoVerdict \in Verdicts
  BY Records DEF JudgedInv, NoVerdict, Verdicts
<1>3. verdicts' \in Seq(Verdicts) /\ Len(verdicts') <= Len(sessions)
      /\ (stage' = "score-fusion" => Len(verdicts') = Len(sessions))
  <2>1. VerdictOn(NextSession) \in Verdicts
    <3>1. model \in [LabelNames -> Verdicts]
      BY <1>1 DEF JudgedInv, ModelsAssumption
    <3>2. \A F : LabelOf(F) \in LabelNames
      BY DEF LabelOf, LabelNames
    <3> QED
      BY <3>1, <3>2 DEF VerdictOn
  <2>2. CASE Predict
    <3>1. verdicts' = Append(verdicts, VerdictOn(NextSession)) /\ stage' = "ml"
      BY <2>2, <1>1 DEF Predict
    <3> QED
      BY <1>1, <1>2, <2>1, <3>1, AppendProperties
  <2>3. CASE PredictRaises
    <3> DEFINE rest == [i \in 1 .. Len(sessions) - NextSession |-> NoVerdict]
    <3>1. PICK flagged \in {FALSE, VerdictOn(NextSession).anomaly} :
              verdicts' = Append(verdicts, [anomaly |-> flagged, bad |-> 0]) \o rest
      BY <2>3 DEF PredictRaises
    <3> DEFINE v == [anomaly |-> flagged, bad |-> 0]
    <3>2. v \in Verdicts
      <4>1. VerdictOn(NextSession).anomaly \in BOOLEAN
        BY <2>1 DEF Verdicts
      <4>2. flagged \in BOOLEAN
        BY <4>1, Zenon
      <4>3. 0 \in 0 .. 100
        BY <1>2 DEF NoVerdict, Verdicts
      <4> HIDE DEF rest
      <4> QED
        BY <4>2, <4>3, Zenon DEF Verdicts
    <3>3. Append(verdicts, v) \in Seq(Verdicts) /\ Len(Append(verdicts, v)) = n + 1
      BY <1>2, <3>2, AppendProperties
    <3>4. Len(sessions) - NextSession \in Nat /\ NextSession = n + 1
      BY <1>1, <1>2 DEF NextSession
    <3>5. rest \in Seq(Verdicts) /\ Len(rest) = Len(sessions) - NextSession
      BY <1>2, <3>4
    <3> QED
      BY <1>2, <3>1, <3>3, <3>4, <3>5, ConcatProperties
  <2> QED
    BY <2>2, <2>3
<1> QED
  BY <1>1, <1>3 DEF JudgedInv, Done

(* Loading the models changes no verdict.                                  *)
LEMMA JudgedLoad ==
    ASSUME JudgedInv, Load
    PROVE  JudgedInv'
<1>1. /\ stage = "ml" /\ stage' = stage /\ model = NotLoaded /\ model' \in Models
      /\ UNCHANGED <<sessions, analysed, verdicts, result>>
  BY DEF Load, sessionVars
<1> QED
  BY <1>1 DEF JudgedInv, Done

(* The result is made of what was judged, and nothing of that changes.     *)
LEMMA JudgedFuse ==
    ASSUME JudgedInv, Fuse
    PROVE  JudgedInv'
<1>1. /\ stage = "score-fusion" /\ stage' = "done"
      /\ UNCHANGED <<sessions, analysed, model, verdicts>>
  BY DEF Fuse, sessionVars
<1>2. PICK rule_score \in ScanScores(RuleScores) :
        \E score \in FuseScores(verdicts, rule_score, MlAvailable).scores :
           /\ result'.rule_score = rule_score /\ result'.score = score
           /\ result'.ml_adjustment = FuseScores(verdicts, rule_score, MlAvailable).adjustment
           /\ result'.grade = GradeOf(score) /\ result'.session_scores = FusedScores
           /\ result'.servers = ServerGrades(sessions, RuleScores)
  BY DEF Fuse
<1>3. RuleScores' = RuleScores /\ MlAvailable' = MlAvailable
  BY <1>1 DEF RuleScores, MlAvailable
<1>4. FusedScores' = FusedScores
  BY <1>1, <1>3 DEF FusedScores
<1>5. ResultShown'
  BY <1>1, <1>2, <1>3, <1>4 DEF ResultShown
<1> QED
  BY <1>1, <1>5 DEF JudgedInv, Done

(* Once done, or when nothing happens.                                     *)
LEMMA JudgedForGood ==
    ASSUME JudgedInv, UNCHANGED <<stage, sessions, analysed, model, verdicts, result>>
    PROVE  JudgedInv'
<1>1. RuleScores' = RuleScores /\ MlAvailable' = MlAvailable
  BY DEF RuleScores, MlAvailable
<1>2. FusedScores' = FusedScores
  BY <1>1 DEF FusedScores
<1>3. ResultShown => ResultShown'
  BY <1>1, <1>2 DEF ResultShown
<1> QED
  BY <1>3 DEF JudgedInv, Done

(* JudgedInv is inductive relative to EvidenceInv.                         *)
LEMMA JudgedStep ==
    ASSUME EvidenceInv, JudgedInv, [Next]_vars
    PROVE  JudgedInv'
<1>1. SessionsKept
  BY EvidenceParts
<1>2. CASE AnalyzePcapIngest
  <2>1. /\ stage = "ingest" /\ stage' \in {"ingest", "raised", "protocol-id"}
        /\ UNCHANGED <<sessions, analysed, model, verdicts, result>>
    BY <1>2 DEF AnalyzePcapIngest, Ingest, ReadPcapRaises, SkipFrame, KnownFlow, OpenFlow, Overflow,
                EndOfCapture, AtFrame, AtPacket, Consumed, sessionVars
  <2>2. Len(analysed) = 0 /\ model = NotLoaded
    BY <2>1 DEF JudgedInv
  <2> QED
    BY <2>1, <2>2, JudgedStays DEF Done
<1>3. CASE BuildNext
  BY <1>1, <1>3, JudgedBuildNext
<1>4. CASE AnalyseSession
  BY <1>1, <1>4, JudgedAnalyseSession
<1>5. CASE AllBuilt \/ AllAnalysed \/ CrossSession \/ BindEvidence
  <2>1. /\ stage \notin {"ml", "score-fusion", "done"}
        /\ stage' \in {"tls-analysis", "cross-session", "scoring", "ml"}
        /\ UNCHANGED <<sessions, analysed, model, verdicts, result>>
        /\ stage' # "tls-analysis" => Len(analysed) = Len(sessions)
    BY <1>5 DEF AllBuilt, AllAnalysed, CrossSession, BindEvidence, sessionVars, JudgedInv
  <2>2. model = NotLoaded
    BY <2>1 DEF JudgedInv
  <2> QED
    BY <2>1, <2>2, JudgedStays DEF Done
<1>6. CASE Unavailable \/ AllPredicted
  <2>1. /\ stage = "ml" /\ stage' = "score-fusion"
        /\ UNCHANGED <<sessions, analysed, model, verdicts, result>>
        /\ model # NotLoaded => Len(verdicts) = Len(sessions)
    BY <1>6 DEF Unavailable, AllPredicted, sessionVars
  <2>2. Len(analysed) = Len(sessions)
    BY <2>1 DEF JudgedInv
  <2> QED
    BY <2>1, <2>2, JudgedStays DEF Done
<1>7. CASE Load
  BY <1>7, JudgedLoad
<1>8. CASE Predict \/ PredictRaises
  BY <1>1, <1>8, JudgedPredict, ModelsAssumption
<1>9. CASE Fuse
  BY <1>9, JudgedFuse
<1>10. CASE Ended \/ UNCHANGED vars
  BY <1>10, JudgedForGood DEF Ended, vars, sessionVars
<1> QED
  BY <1>2, <1>3, <1>4, <1>5, <1>6, <1>7, <1>8, <1>9, <1>10 DEF Next

(* JudgedInv is inductive next to EvidenceInv.                             *)
THEOREM JudgedInvariant == Spec => []JudgedInv
<1>1. Init => JudgedInv
  <2> SUFFICES ASSUME Init PROVE JudgedInv
    OBVIOUS
  <2>1. /\ stage = "ingest" /\ sessions = <<>> /\ analysed = <<>> /\ model = NotLoaded
        /\ verdicts = <<>> /\ result = NoResult
    BY DEF Init, FlowInit
  <2>2. /\ Len(sessions) = 0 /\ Len(analysed) = 0 /\ Len(verdicts) = 0 /\ DOMAIN sessions = {}
        /\ verdicts \in Seq(Verdicts)
    BY <2>1, EmptySeq
  <2>3. analysed = [i \in 1 .. 0 |-> Analyse(sessions[i])]
    BY <2>1
  <2> QED
    BY <2>1, <2>2, <2>3 DEF JudgedInv, Done
<1>2. EvidenceInv /\ JudgedInv /\ [Next]_vars => JudgedInv'
  BY JudgedStep
<1> QED
  BY <1>1, <1>2, EvidenceInvariant, PTL DEF Spec

-----------------------------------------------------------------------------
(* score_scan: a score of 0 .. 100, and 100 if no session was found bad.   *)
(* Its numerator and denominator are the sums of a and of r.               *)
Terms(scores) == [i \in DOMAIN scores |-> scores[i] * RiskWeight(scores[i])]
Risks(scores) == [i \in DOMAIN scores |-> RiskWeight(scores[i])]
(* The risk weight of a score, 150 - score, lies between 50 and 150.       *)
LEMMA RiskOfScore ==
    ASSUME NEW s \in Scores
    PROVE  /\ s \in Int /\ 150 - s \in Nat /\ 150 - s \in Int
           /\ 50 <= 150 - s /\ 150 - s <= 150 /\ s * (150 - s) \in Int
BY ScoreIs

(* The scan's score is the quotient of two sums over the sessions, the     *)
(* weighted scores and their weights, rounded; the divisor is positive     *)
(* (score.py, scan_score).                                                 *)
LEMMA ScanQuotient ==
    ASSUME NEW D, IsFiniteSet(D), NEW scores \in [D -> Scores], scores # <<>>
    PROVE  /\ D # {} /\ Cardinality(D) \in Nat \ {0}
           /\ Terms(scores) \in [D -> Int] /\ Risks(scores) \in [D -> Int]
           /\ \A i \in D : /\ Risks(scores)[i] = 150 - scores[i]
                                /\ Terms(scores)[i] = scores[i] * Risks(scores)[i]
                                /\ scores[i] \in Scores
           /\ SumFunction(Terms(scores)) \in Int
           /\ SumFunction(Risks(scores)) \in Nat \ {0}
           /\ ScanScores(scores) = Nearest(SumFunction(Terms(scores)), SumFunction(Risks(scores)))
<1>1. D # {}
  OBVIOUS
<1>3. Cardinality(D) \in Nat \ {0}
  BY <1>1, FS_EmptySet, FS_CardinalityType
<1>4. /\ \A i \in D : /\ Risks(scores)[i] = 150 - scores[i]
                           /\ Terms(scores)[i] = scores[i] * Risks(scores)[i]
                           /\ scores[i] \in Scores
      /\ DOMAIN scores = D
  BY DEF Terms, Risks, RiskWeight
<1>5. \A i \in D : Risks(scores)[i] \in Int /\ 50 <= Risks(scores)[i] /\ Risks(scores)[i] <= 150
                        /\ Terms(scores)[i] \in Int
  <2> SUFFICES ASSUME NEW i \in D
               PROVE  /\ Risks(scores)[i] \in Int /\ 50 <= Risks(scores)[i] /\ Risks(scores)[i] <= 150
                      /\ Terms(scores)[i] \in Int
    OBVIOUS
  <2>1. PICK s \in Scores : s = scores[i] /\ Risks(scores)[i] = 150 - s
                                /\ Terms(scores)[i] = s * (150 - s)
    BY <1>4
  <2>2. /\ 150 - s \in Int /\ 50 <= 150 - s /\ 150 - s <= 150 /\ s * (150 - s) \in Int
    BY RiskOfScore
  <2> QED
    BY <2>1, <2>2, Zenon
<1>6. Terms(scores) \in [D -> Int] /\ Risks(scores) \in [D -> Int]
  BY <1>4, <1>5 DEF Terms, Risks
<1>7. SumFunction(Terms(scores)) \in Int /\ SumFunction(Risks(scores)) \in Int
  BY <1>3, <1>6, SumIsNumber
<1>8. 50 * Cardinality(D) <= SumFunction(Risks(scores))
  BY <1>5, <1>6, SumBetween
<1>9. ScanScores(scores) = Nearest(SumFunction(Terms(scores)), SumFunction(Risks(scores)))
  BY DEF ScanScores, SumOver, Terms, Risks
<1>10. SumFunction(Risks(scores)) > 0
  BY <1>1, <1>3, <1>7, <1>8
<1> QED
  BY <1>1, <1>3, <1>4, <1>6, <1>7, <1>9, <1>10

(* A mean with weights lies between bounds of what it is the mean of.      *)
LEMMA ScanBetween ==
    ASSUME NEW D, IsFiniteSet(D), NEW scores \in [D -> Scores], scores # <<>>,
           NEW lo \in Int, NEW hi \in Int, \A i \in D : lo <= scores[i] /\ scores[i] <= hi,
           NEW k \in ScanScores(scores)
    PROVE  k \in Int /\ lo <= k /\ k <= hi
<1> DEFINE a == Terms(scores)
           r == Risks(scores)
<1>1. /\ a \in [D -> Int] /\ r \in [D -> Int]
      /\ SumFunction(a) \in Int /\ SumFunction(r) \in Nat \ {0}
      /\ k \in Nearest(SumFunction(a), SumFunction(r))
      /\ \A i \in D : r[i] = 150 - scores[i] /\ a[i] = scores[i] * r[i] /\ scores[i] \in Scores
  BY ScanQuotient
<1> HIDE DEF a, r
<1>2. \A i \in D : lo * r[i] <= a[i] /\ a[i] <= hi * r[i]
  <2> SUFFICES ASSUME NEW i \in D PROVE lo * r[i] <= a[i] /\ a[i] <= hi * r[i]
    OBVIOUS
  <2>1. \A s, t \in Int : \A w \in Nat : s <= t => s * w <= t * w
    OBVIOUS
  <2>2. PICK s \in Scores : s = scores[i] /\ r[i] = 150 - s
    BY <1>1
  <2>3. r[i] \in Nat /\ scores[i] \in Int
    BY <2>2, RiskOfScore
  <2> QED
    BY <1>1, <2>1, <2>3
<1>3. lo * SumFunction(r) <= SumFunction(a) /\ SumFunction(a) <= hi * SumFunction(r)
  BY <1>1, <1>2, SumIsBounded, SumIsBoundedBelow
<1>4. PICK N \in Int, R \in Nat \ {0} : N = SumFunction(a) /\ R = SumFunction(r)
  BY <1>1
<1>5. k \in Int /\ 2 * N - R <= 2 * (k * R) /\ 2 * (k * R) <= 2 * N + R
  BY <1>1, <1>4, NearestIsNear
<1>6. lo * R <= N /\ N <= hi * R
  BY <1>3, <1>4
<1>7. lo <= k
  <2>1. SUFFICES ASSUME k + 1 <= lo PROVE FALSE
    BY <1>5
  <2>2. (k + 1) * R <= lo * R /\ (k + 1) * R = k * R + R
    BY <1>5, <2>1
  <2> QED
    BY <1>5, <1>6, <2>2
<1>8. k <= hi
  <2>1. SUFFICES ASSUME hi + 1 <= k PROVE FALSE
    BY <1>5
  <2>2. (hi + 1) * R <= k * R /\ (hi + 1) * R = hi * R + R
    BY <1>5, <2>1
  <2> QED
    BY <1>5, <1>6, <2>2
<1> QED
  BY <1>5, <1>7, <1>8

(* The scan's score is between 0 and 100, and 100 when every session has   *)
(* 100.                                                                    *)
LEMMA ScanScore ==
    ASSUME NEW D, IsFiniteSet(D), NEW scores \in [D -> Scores], NEW k \in ScanScores(scores)
    PROVE  k \in Scores /\ ((\A i \in D : scores[i] = 100) => k = 100)
<1>1. CASE scores = <<>>
  <2>1. k = 100
    BY <1>1 DEF ScanScores
  <2> QED
    BY <2>1, ScoreIs
<1>2. CASE scores # <<>>
  <2>1. \A i \in D : 0 <= scores[i] /\ scores[i] <= 100
    BY ScoreIs
  <2>2. k \in Int /\ 0 <= k /\ k <= 100
    BY <1>2, <2>1, ScanBetween
  <2>3. ASSUME \A i \in D : scores[i] = 100 PROVE k = 100
    <3>1. \A i \in D : 100 <= scores[i] /\ scores[i] <= 100
      BY <2>3
    <3>2. k \in Int /\ 100 <= k /\ k <= 100
      BY <1>2, <3>1, ScanBetween
    <3> QED
      BY <3>2
  <2> QED
    BY <2>2, <2>3, ScoreIs
<1> QED
  BY <1>1, <1>2

-----------------------------------------------------------------------------
(* The adjustments, and what they leave of a score.                        *)
LEMMA Adjustments ==
    ASSUME NEW v \in Verdicts
    PROVE  SessionAdjustment(v) \in 0 .. MaxSession /\ SessionAdjustment(v) \in Int
<1>1. v.bad \in Scores
  BY DEF Verdicts, Scores
<1>2. SessionAdjustment(v) = 2 * (IF v.anomaly THEN 100 ELSE 35) * v.bad
  BY DEF SessionAdjustment, MaxSession, Point
<1>3. PICK b \in Int : b = v.bad /\ 0 <= b /\ b <= 100
  BY <1>1, ScoreIs
<1>4. SessionAdjustment(v) = (IF v.anomaly THEN 200 * b ELSE 70 * b)
  BY <1>2, <1>3
<1>5. PICK m \in Int : m = SessionAdjustment(v) /\ 0 <= m /\ m <= 20000
  BY <1>3, <1>4
<1>6. MaxSession = 20000
  BY DEF MaxSession, Point
<1>7. m <= MaxSession /\ MaxSession \in Int
  BY <1>5, <1>6
<1>8. m \in 0 .. MaxSession
  BY <1>5, <1>7
<1> QED
  BY <1>5, <1>8

(* Taking an adjustment of at most the given number of points from a       *)
(* score lowers it by no more than these points, never raises it, and      *)
(* half a point or less changes nothing.                                   *)
LEMMA ScoreLowered ==
    ASSUME NEW s \in Scores, NEW points \in Nat, NEW adj \in 0 .. points * Point,
           NEW k \in Nearest(s * Point - adj, Point)
    PROVE  /\ Clamp(0, 100, k) \in Scores
           /\ s - points <= Clamp(0, 100, k) /\ Clamp(0, 100, k) <= s
           /\ adj <= 500 => Clamp(0, 100, k) = s
<1>1. Point = 10000
  BY DEF Point
<1>2. adj \in Int /\ 0 <= adj /\ adj <= points * 10000
  BY <1>1
<1>3. s * Point - adj \in Int /\ Point \in Nat \ {0}
  BY <1>1, <1>2, ScoreIs
<1>4. k \in Int /\ 2 * (s * 10000 - adj) - 10000 <= 2 * (k * 10000)
      /\ 2 * (k * 10000) <= 2 * (s * 10000 - adj) + 10000
  BY <1>1, <1>3, NearestIsNear
<1>5. s - points <= k /\ k <= s /\ (adj <= 500 => k = s)
  BY <1>2, <1>4, ScoreIs
<1> QED
  BY <1>4, <1>5, ScoreIs DEF Clamp, Larger, Smaller

(* Clamp returns a value between its two bounds.                           *)
LEMMA Clamped ==
    ASSUME NEW m \in Int, NEW hi \in Nat
    PROVE  Clamp(0, hi, m) \in 0 .. hi
BY DEF Clamp, Larger, Smaller

Adjusted(V) == Clamp(0, MaxScan, SumOver(DOMAIN V, LAMBDA i : SessionAdjustment(V[i])))
(* The adjustment summed over all sessions is cut at ten points.           *)
LEMMA ScanAdjusted ==
    ASSUME NEW D, IsFiniteSet(D), NEW V \in [D -> Verdicts]
    PROVE  Adjusted(V) \in 0 .. 10 * Point
<1> DEFINE w == [i \in D |-> SessionAdjustment(V[i])]
<1>4. \A i \in D : SessionAdjustment(V[i]) \in Int
  BY Adjustments
<1>5. w \in [D -> Int]
  BY <1>4
<1>6. SumOver(DOMAIN V, LAMBDA i : SessionAdjustment(V[i])) = SumFunction(w)
  BY DEF SumOver
<1> HIDE DEF w
<1>7. SumFunction(w) \in Int
  BY <1>5, SumIsNumber
<1>8. MaxScan \in Nat /\ MaxScan = 10 * Point
  BY DEF MaxScan, Point
<1>9. \A m \in Int : Clamp(0, MaxScan, m) \in 0 .. MaxScan
  BY <1>8, Clamped
<1> QED
  BY <1>6, <1>7, <1>8, <1>9 DEF Adjusted

(* fuse_scores: at most ten points, only down, and more than half a tenth  *)
(* of a point of adjustment when the score moves at all.                   *)
LEMMA FusedScan ==
    ASSUME NEW D, IsFiniteSet(D), NEW V \in [D -> Verdicts], NEW s \in Scores, NEW available,
           NEW k \in FuseScores(V, s, available).scores
    PROVE  /\ k \in Scores /\ s - 10 <= k /\ k <= s
           /\ k # s => FuseScores(V, s, available).adjustment > Point \div 20
           /\ ~available \/ s = 100 => k = s
<1> DEFINE total == Adjusted(V)
           none  == ~available \/ V = <<>> \/ s >= 100
<1>1. FuseScores(V, s, available) =
        IF none THEN [adjustment |-> 0, scores |-> {s}]
        ELSE [adjustment |-> total,
              scores |-> {Clamp(0, 100, j) : j \in Nearest(s * Point - total, Point)}]
  BY DEF FuseScores, Adjusted
<1>2. total \in 0 .. 10 * Point
  BY ScanAdjusted
<1> HIDE DEF total
<1>3. CASE none
  <2>1. k = s
    BY <1>1, <1>3
  <2> QED
    BY <2>1, <1>3, ScoreIs
<1>4. CASE ~none
  <2>1. PICK j \in Nearest(s * Point - total, Point) : k = Clamp(0, 100, j)
    BY <1>1, <1>4
  <2>2. FuseScores(V, s, available).adjustment = total
    BY <1>1, <1>4
  <2>3. 10 \in Nat
    OBVIOUS
  <2>4. k \in Scores /\ s - 10 <= k /\ k <= s /\ (total <= 500 => k = s)
    BY <1>2, <2>1, <2>3, ScoreLowered
  <2>5. k # s => total > 500
    <3>1. 10 * Point \in Int
      BY DEF Point
    <3>2. \A n \in Int : 0 .. n \subseteq Int
      OBVIOUS
    <3>3. total \in Int
      BY <1>2, <3>1, <3>2, Zenon
    <3> QED
      BY <2>4, <3>3
  <2>6. Point \div 20 = 500
    BY DEF Point
  <2>7. available /\ s # 100
    BY <1>4
  <2> QED
    BY <2>2, <2>4, <2>5, <2>6, <2>7
<1> QED
  BY <1>3, <1>4

(* The fused score of a session: at most two points.                       *)
LEMMA FusedSession ==
    ASSUME NEW v \in Verdicts, NEW s \in Scores, NEW available, NEW k \in FuseSession(v, s, available)
    PROVE  /\ k \in Scores /\ s - 2 <= k /\ k <= s
           /\ s = 100 => k = s
<1> DEFINE adj == IF available /\ s < 100 THEN SessionAdjustment(v) ELSE 0
<1>1. PICK j \in Nearest(s * Point - adj, Point) : k = Clamp(0, 100, j)
  BY DEF FuseSession
<1>2. adj \in 0 .. 2 * Point /\ (s = 100 => adj = 0)
  <2>1. SessionAdjustment(v) \in 0 .. 2 * Point
    BY Adjustments DEF MaxSession
  <2>2. Point \in Nat
    BY DEF Point
  <2>3. 0 \in 0 .. 2 * Point
    BY <2>2
  <2> QED
    BY <2>1, <2>3
<1> HIDE DEF adj
<1>3. 2 \in Nat
  OBVIOUS
<1> QED
  BY <1>1, <1>2, <1>3, ScoreLowered

-----------------------------------------------------------------------------
(* What the stages before the last have left, as it is needed here.        *)
LEMMA JudgedScores ==
    ASSUME JudgedInv, SessionsKept, Done
    PROVE  /\ IsFiniteSet(DOMAIN sessions) /\ DOMAIN sessions = 1 .. Len(sessions)
           /\ Len(sessions) \in Nat
           /\ RuleScores \in [DOMAIN sessions -> Scores]
           /\ \A i \in DOMAIN sessions : RulesOf(i) = {} => RuleScores[i] = 100
           /\ IsFiniteSet(DOMAIN verdicts) /\ verdicts \in [DOMAIN verdicts -> Verdicts]
           /\ MlAvailable => DOMAIN verdicts = DOMAIN sessions
           /\ FusedScores = [i \in DOMAIN sessions |->
                 FuseSession(IF MlAvailable THEN verdicts[i] ELSE NoVerdict, RuleScores[i], MlAvailable)]
           /\ ResultShown
<1>1. /\ Len(sessions) \in Nat /\ DOMAIN sessions = 1 .. Len(sessions)
      /\ Len(analysed) \in Nat /\ DOMAIN analysed = 1 .. Len(analysed)
      /\ Len(verdicts) \in Nat /\ DOMAIN verdicts = 1 .. Len(verdicts)
      /\ \A i \in DOMAIN analysed : analysed[i] = Analyse(sessions[i]) /\ i \in DOMAIN sessions
  BY Records
<1>2. /\ Len(analysed) = Len(sessions) /\ ResultShown
      /\ \A i \in DOMAIN sessions : sessions[i].cleartext_creds \subseteq CredentialKinds
      /\ verdicts \in Seq(Verdicts)
      /\ model # NotLoaded => Len(verdicts) = Len(sessions)
  BY DEF JudgedInv, Done
<1>3. DOMAIN analysed = DOMAIN sessions
  BY <1>1, <1>2
<1>4. \A i \in DOMAIN sessions : analysed[i].findings \in SUBSET Possible
  <2>1. \A s : s.cleartext_creds \subseteq CredentialKinds => Analyse(s).findings \subseteq Possible
    BY FindingsArePossible DEF Analyse
  <2> QED
    BY <1>1, <1>2, <1>3, <2>1
<1>5. \A i \in DOMAIN sessions :
        /\ ScoreSession(analysed[i].findings) \in Scores
        /\ RulesOf(i) = {} => ScoreSession(analysed[i].findings) = 100
  <2>1. \A i \in DOMAIN sessions : RulesOf(i) = {} => analysed[i].findings = {}
    BY DEF RulesOf
  <2> QED
    BY <1>4, <2>1, SessionScores, ZenonT(40)
<1>6. 1 \in Int /\ Len(sessions) \in Int /\ Len(verdicts) \in Int
  BY <1>1
<1>7. IsFiniteSet(1 .. Len(sessions)) /\ IsFiniteSet(1 .. Len(verdicts))
  BY <1>6, FS_Interval
<1>8. RuleScores = [i \in DOMAIN sessions |-> ScoreSession(analysed[i].findings)]
  BY <1>3 DEF RuleScores
<1>9. RuleScores \in [DOMAIN sessions -> Scores]
      /\ \A i \in DOMAIN sessions : RulesOf(i) = {} => RuleScores[i] = 100
  BY <1>5, <1>8, Zenon
<1>10. verdicts \in [DOMAIN verdicts -> Verdicts]
  BY <1>2, SeqDef, ElementOfSeq, LenProperties
<1>11. MlAvailable => DOMAIN verdicts = DOMAIN sessions
  BY <1>1, <1>2 DEF MlAvailable
<1> QED
  BY <1>1, <1>2, <1>3, <1>7, <1>9, <1>10, <1>11 DEF FusedScores

(* Every conjunct of FusionBounded.                                        *)
LEMMA FusionIsBounded ==
    ASSUME JudgedInv, SessionsKept, Done
    PROVE  FusionBounded
<1> DEFINE D == DOMAIN sessions
           s == result.rule_score
<1>1. /\ IsFiniteSet(D) /\ RuleScores \in [D -> Scores]
      /\ \A i \in D : RulesOf(i) = {} => RuleScores[i] = 100
      /\ IsFiniteSet(DOMAIN verdicts) /\ verdicts \in [DOMAIN verdicts -> Verdicts]
      /\ MlAvailable => DOMAIN verdicts = D
      /\ FusedScores = [i \in D |->
            FuseSession(IF MlAvailable THEN verdicts[i] ELSE NoVerdict, RuleScores[i], MlAvailable)]
  BY JudgedScores, Zenon
<1>2. /\ s \in ScanScores(RuleScores) /\ result.score \in FuseScores(verdicts, s, MlAvailable).scores
      /\ result.ml_adjustment = FuseScores(verdicts, s, MlAvailable).adjustment
      /\ result.grade = GradeOf(result.score) /\ result.session_scores = FusedScores
  BY JudgedScores DEF ResultShown
<1>3. s \in Scores /\ ((\A i \in D : RuleScores[i] = 100) => s = 100)
  <2>1. \A k \in ScanScores(RuleScores) :
            k \in Scores /\ ((\A i \in D : RuleScores[i] = 100) => k = 100)
    BY <1>1, ScanScore
  <2> QED
    BY <1>2, <2>1, Zenon
<1>4. /\ result.score \in Scores /\ s - 10 <= result.score /\ result.score <= s
      /\ result.score # s => result.ml_adjustment > Point \div 20
      /\ ~MlAvailable \/ s = 100 => result.score = s
  <2>1. \A k \in FuseScores(verdicts, s, MlAvailable).scores :
            /\ k \in Scores /\ s - 10 <= k /\ k <= s
            /\ k # s => FuseScores(verdicts, s, MlAvailable).adjustment > Point \div 20
            /\ ~MlAvailable \/ s = 100 => k = s
    BY <1>1, <1>3, FusedScan
  <2> QED
    BY <1>2, <2>1, Zenon
<1>5. result.score \in s - 10 .. s
  <2>1. \A p, q \in Scores : q - 10 <= p /\ p <= q => p \in q - 10 .. q
    BY ScoreIs
  <2> QED
    BY <1>3, <1>4, <2>1, Zenon
<1>6. GradeOf(100) = "A"
  BY DEF GradeOf
<1>c. \A i \in D : RulesOf(i) = {} => RuleScores[i] = 100
  BY <1>1, Zenon
<1>7. ASSUME \A i \in D : RulesOf(i) = {}
      PROVE  result.score = 100 /\ result.grade = "A"
  <2>1. s = 100
    <3>1. \A i \in D : RuleScores[i] = 100
      BY <1>c, <1>7
    <3> QED
      BY <1>3, <3>1, Zenon
  <2>2. result.score = 100
    BY <1>4, <2>1, Zenon
  <2> QED
    BY <1>2, <1>6, <2>2, Zenon
<1>8. result.score # s => Summary.fused
  BY <1>4 DEF Summary
<1>9. ASSUME NEW i \in D, NEW k \in result.session_scores[i]
      PROVE  /\ k \in RuleScores[i] - 2 .. RuleScores[i]
             /\ RulesOf(i) = {} => GradeOf(k) = "A" /\ k = 100
  <2> DEFINE v == IF MlAvailable THEN verdicts[i] ELSE NoVerdict
  <2>1. v \in Verdicts
    <3>1. NoVerdict \in Verdicts
      BY DEF NoVerdict, Verdicts
    <3> QED
      BY <1>1, <3>1
  <2>2. k \in FuseSession(v, RuleScores[i], MlAvailable) /\ RuleScores[i] \in Scores
    <3>1. FusedScores[i] = FuseSession(v, RuleScores[i], MlAvailable)
      BY <1>1
    <3> HIDE DEF v
    <3> QED
      BY <1>1, <1>2, <1>9, <3>1
  <2> HIDE DEF v
  <2>3. k \in Scores /\ RuleScores[i] - 2 <= k /\ k <= RuleScores[i]
        /\ (RuleScores[i] = 100 => k = RuleScores[i])
    BY <2>1, <2>2, FusedSession, Zenon
  <2>4. \A p, q \in Scores : q - 2 <= p /\ p <= q => p \in q - 2 .. q
    BY ScoreIs
  <2>5. k \in RuleScores[i] - 2 .. RuleScores[i]
    BY <2>2, <2>3, <2>4, Zenon
  <2> QED
    BY <1>1, <1>6, <2>3, <2>5, Zenon
<1> QED
  BY <1>4, <1>5, <1>7, <1>8, <1>9 DEF FusionBounded

(* The models move a score by no more than ten points, a session's by no   *)
(* more than two, only down, and not what the rules found clean.           *)
THEOREM FusionIsBoundedAlways == Spec => []FusionBounded
<1>1. EvidenceInv /\ JudgedInv => FusionBounded
  <2>1. EvidenceInv => SessionsKept
    BY EvidenceParts
  <2>2. ~Done => FusionBounded
    BY DEF FusionBounded
  <2> QED
    BY <2>1, <2>2, FusionIsBounded
<1> QED
  BY <1>1, EvidenceInvariant, JudgedInvariant, PTL

-----------------------------------------------------------------------------
(* Each session counts, and a bad one more.                                *)

(* What a mean with weights that fall as the value grows is worth: N is    *)
(* the sum of s * (150 - s), R that of 150 - s, S that of s, Q that of     *)
(* s * s.                                                                  *)
LEMMA WeighedDown ==
    ASSUME NEW n \in Nat, NEW S \in Int, NEW Q \in Int, NEW N \in Int, NEW R \in Nat \ {0},
           N = 150 * S - Q, R = 150 * n - S, S * S <= n * Q,
           NEW k \in Int, 2 * (k * R) <= 2 * N + R
    PROVE  2 * (n * k - S) <= n
<1>1. n * N = 150 * (n * S) - n * Q
  OBVIOUS
<1>2. S * R = 150 * (n * S) - S * S
  OBVIOUS
<1>3. n * N <= S * R
  BY <1>1, <1>2
<1>4. n * (2 * (k * R)) <= n * (2 * N + R)
  OBVIOUS
<1>5. n * (2 * (k * R)) = 2 * (n * k) * R /\ n * (2 * N + R) = 2 * (n * N) + n * R
  OBVIOUS
<1>6. PICK m \in Int : m = 2 * (n * k)
  OBVIOUS
<1>7. m * R <= 2 * (S * R) + n * R
  BY <1>3, <1>4, <1>5, <1>6
<1>8. 2 * (S * R) + n * R = (2 * S + n) * R
  OBVIOUS
<1>9. m <= 2 * S + n
  <2>1. SUFFICES ASSUME 2 * S + n + 1 <= m PROVE FALSE
    BY <1>6
  <2>2. PICK z \in Int : z = 2 * S + n
    OBVIOUS
  <2>3. (z + 1) * R <= m * R
    BY <1>6, <2>1, <2>2
  <2>4. (z + 1) * R = z * R + R
    BY <2>2
  <2> QED
    BY <1>7, <1>8, <2>2, <2>3, <2>4
<1> QED
  BY <1>6, <1>9

(* The score of the scan, times the sessions, against the sum of theirs.   *)
LEMMA ScanBelowMean ==
    ASSUME NEW D, IsFiniteSet(D), NEW scores \in [D -> Scores], scores # <<>>,
           NEW k \in ScanScores(scores)
    PROVE  2 * (Cardinality(D) * k - SumFunction(scores)) <= Cardinality(D)
<1> DEFINE a == Terms(scores)
           r == Risks(scores)
           q == [i \in D |-> scores[i] * scores[i]]
           one == [i \in D |-> 1]
<1>1. /\ a \in [D -> Int] /\ r \in [D -> Int] /\ Cardinality(D) \in Nat
      /\ SumFunction(a) \in Int /\ SumFunction(r) \in Nat \ {0}
      /\ k \in Nearest(SumFunction(a), SumFunction(r))
      /\ \A i \in D : r[i] = 150 - scores[i] /\ a[i] = scores[i] * r[i]
  BY ScanQuotient
<1>2. scores \in [D -> Int]
  BY ScoreIs
<1>3. q \in [D -> Int] /\ (\A i \in D : q[i] = scores[i] * scores[i])
  BY <1>2
<1>4. one \in [D -> Int] /\ (\A i \in D : one[i] = 1) /\ SumFunction(one) = Cardinality(D)
  BY SumOfOnes
<1> HIDE DEF a, r, q, one
<1>5. \A i \in D : a[i] = 150 * scores[i] - q[i] /\ r[i] = 150 * one[i] - scores[i]
  <2> SUFFICES ASSUME NEW i \in D
               PROVE  a[i] = 150 * scores[i] - q[i] /\ r[i] = 150 * one[i] - scores[i]
    OBVIOUS
  <2>1. PICK s \in Int : s = scores[i] /\ q[i] = s * s /\ one[i] = 1 /\ r[i] = 150 - s /\ a[i] = s * r[i]
    BY <1>1, <1>2, <1>3, <1>4
  <2>2. s * (150 - s) = 150 * s - s * s /\ 150 - s = 150 * 1 - s
    OBVIOUS
  <2> QED
    BY <2>1, <2>2
<1>6. a = LessThanTimes(150, scores, q) /\ r = LessThanTimes(150, one, scores)
  BY <1>1, <1>2, <1>4, <1>5 DEF LessThanTimes
<1>7. SumFunction(a) = 150 * SumFunction(scores) - SumFunction(q)
  BY <1>2, <1>3, <1>6, SumIsLinear
<1>8. SumFunction(r) = 150 * SumFunction(one) - SumFunction(scores)
  BY <1>2, <1>4, <1>6, SumIsLinear
<1>9. SumFunction(scores) * SumFunction(scores) <= Cardinality(D) * SumFunction(q)
  BY <1>2, <1>3, SquareOfSum
<1>10. SumFunction(scores) \in Int /\ SumFunction(q) \in Int
  BY <1>2, <1>3, SumIsNumber
<1>11. PICK n \in Nat, S \in Int, Q \in Int, N \in Int, R \in Nat \ {0} :
          /\ n = Cardinality(D) /\ S = SumFunction(scores) /\ Q = SumFunction(q)
          /\ N = SumFunction(a) /\ R = SumFunction(r)
  BY <1>1, <1>10
<1>12. N = 150 * S - Q /\ R = 150 * n - S /\ S * S <= n * Q
  BY <1>4, <1>7, <1>8, <1>9, <1>11
<1>13. k \in Int /\ 2 * (k * R) <= 2 * N + R
  BY <1>1, <1>11, NearestIsNear
<1> QED
  BY <1>11, <1>12, <1>13, WeighedDown

(* The least and the greatest score.                                       *)
LEMMA WorstAndBest ==
    ASSUME NEW D, D # {}, NEW scores \in [D -> Scores]
    PROVE  \E i, j \in D : \A x \in D : scores[i] <= scores[x] /\ scores[x] <= scores[j]
<1> DEFINE V == {scores[x] : x \in D}
           W == {100 - scores[x] : x \in D}
<1>1. V \in SUBSET Nat /\ V # {} /\ W \in SUBSET Nat /\ W # {}
  BY ScoreIs
<1>2. PICK v \in V : \A k \in V : v <= k
  BY <1>1, LeastNumber
<1>3. PICK w \in W : \A k \in W : w <= k
  BY <1>1, LeastNumber
<1>4. PICK i \in D : v = scores[i]
  BY <1>2
<1>5. PICK j \in D : w = 100 - scores[j]
  BY <1>3
<1>6. \A x \in D : scores[i] <= scores[x]
  BY <1>2, <1>4
<1>7. \A x \in D : scores[x] <= scores[j]
  <2> SUFFICES ASSUME NEW x \in D PROVE scores[x] <= scores[j]
    OBVIOUS
  <2>1. 100 - scores[j] <= 100 - scores[x]
    BY <1>3, <1>5
  <2>2. scores[x] \in Int /\ scores[j] \in Int
    BY ScoreIs
  <2> QED
    BY <2>1, <2>2
<1> QED
  BY <1>6, <1>7

(* The mean of a host's scores lies between its worst and its best.        *)
LEMMA MeanBetween ==
    ASSUME NEW D, IsFiniteSet(D), D # {}, NEW scores \in [D -> Scores]
    PROVE  \E i, j \in D : SumFunction(scores) \div Cardinality(D) \in scores[i] .. scores[j]
<1>1. PICK i \in D, j \in D : \A x \in D : scores[i] <= scores[x] /\ scores[x] <= scores[j]
  BY WorstAndBest
<1>2. scores \in [D -> Int] /\ scores[i] \in Int /\ scores[j] \in Int
  BY ScoreIs
<1>3. scores[i] * Cardinality(D) <= SumFunction(scores) /\ SumFunction(scores) <= scores[j] * Cardinality(D)
  BY <1>1, <1>2, SumBetween
<1>4. SumFunction(scores) \in Int /\ Cardinality(D) \in Nat \ {0}
  BY <1>2, SumIsNumber, FS_EmptySet, FS_CardinalityType
<1>5. ASSUME NEW lo \in Int, NEW hi \in Int, NEW sum \in Int, NEW c \in Nat \ {0},
             lo * c <= sum, sum <= hi * c
      PROVE  sum \div c \in lo .. hi
  <2>1. PICK d \in Int, m \in Int : d = sum \div c /\ sum = c * d + m /\ 0 <= m /\ m < c
    OBVIOUS
  <2>2. c * d = d * c
    BY <2>1
  <2>3. lo <= d
    <3>1. SUFFICES ASSUME d + 1 <= lo PROVE FALSE
      BY <2>1
    <3>2. (d + 1) * c <= lo * c /\ (d + 1) * c = d * c + c
      BY <2>1, <3>1
    <3> QED
      BY <1>5, <2>1, <2>2, <3>2
  <2>4. d <= hi
    <3>1. SUFFICES ASSUME hi + 1 <= d PROVE FALSE
      BY <2>1
    <3>2. (hi + 1) * c <= d * c /\ (hi + 1) * c = hi * c + c
      BY <2>1, <3>1
    <3> QED
      BY <1>5, <2>1, <2>2, <3>2
  <2> QED
    BY <2>1, <2>3, <2>4
<1>6. SumFunction(scores) \div Cardinality(D) \in scores[i] .. scores[j]
  BY <1>2, <1>3, <1>4, <1>5
<1> QED
  BY <1>6

(* Counting the sessions host by host counts each of them once.            *)
Hosts(D, host) == {host[i] : i \in D}
LEMMA EachAtItsHost ==
    ASSUME NEW D, IsFiniteSet(D), NEW host, DOMAIN host = D,
           NEW c, c = [h \in Hosts(D, host) |-> Cardinality({i \in D : host[i] = h})]
    PROVE  SumFunction(c) = Cardinality(D)
<1>1. IsFiniteSet(Hosts(D, host))
  <2>1. [i \in D |-> host[i]] \in Surjection(D, Hosts(D, host))
    BY DEF Surjection, Hosts
  <2> QED
    BY <2>1, FS_Surjection
<1>2. \A i \in D : host[i] \in Hosts(D, host)
  BY DEF Hosts
<1> QED
  BY <1>1, <1>2, EachCountedOnce

(* Every conjunct of WorseCountsMore.                                      *)
LEMMA WorseIsWorse ==
    ASSUME JudgedInv, SessionsKept, Done, sessions # <<>>
    PROVE  WorseCountsMore
<1> DEFINE D == DOMAIN sessions
           n == Len(sessions)
           k == result.rule_score
<1>1. /\ IsFiniteSet(D) /\ D = 1 .. n /\ n \in Nat /\ RuleScores \in [D -> Scores]
      /\ k \in ScanScores(RuleScores) /\ result.servers = ServerGrades(sessions, RuleScores)
  BY JudgedScores DEF ResultShown
<1>2. Cardinality(D) = n /\ D # {} /\ RuleScores # <<>>
  <2>1. n # 0
    BY EmptySeq DEF SessionsKept
  <2>2. 1 \in Int /\ n \in Int /\ ~(1 > n)
    BY <1>1, <2>1
  <2>3. Cardinality(1 .. n) = n - 1 + 1
    BY <2>2, FS_Interval
  <2>4. 1 \in D
    BY <1>1, <2>2
  <2>5. RuleScores # <<>>
    <3>1. DOMAIN RuleScores # {}
      BY <1>1, <2>4
    <3> QED
      BY <3>1
  <2> QED
    BY <1>1, <2>3, <2>4, <2>5
<1> HIDE DEF D, n, k
<1>3. PICK worst \in D, best \in D :
        \A x \in D : RuleScores[worst] <= RuleScores[x] /\ RuleScores[x] <= RuleScores[best]
  BY <1>1, <1>2, WorstAndBest
<1>4. k \in Int /\ RuleScores[worst] <= k
  <2>1. PICK lo \in Int, hi \in Int : lo = RuleScores[worst] /\ hi = RuleScores[best]
    BY <1>1, ScoreIs
  <2>2. \A x \in D : lo <= RuleScores[x] /\ RuleScores[x] <= hi
    BY <1>3, <2>1
  <2>3. k \in Int /\ lo <= k
    BY <1>1, <1>2, <2>2, ScanBetween
  <2> QED
    BY <2>1, <2>3
<1>5. RuleScores[worst] \in RangeOf(RuleScores)
  BY <1>1, <1>3 DEF RangeOf
<1>6. 2 * (n * k - SumFunction(RuleScores)) <= n
  BY <1>1, <1>2, ScanBelowMean
<1>7. SumOver(D, LAMBDA i : RuleScores[i]) = SumFunction(RuleScores)
  <2>1. [i \in D |-> RuleScores[i]] = RuleScores
    BY <1>1
  <2> QED
    BY <2>1 DEF SumOver
<1> DEFINE host == [i \in D |-> HostOf(sessions[i])]
           c == [h \in Hosts(D, host) |-> Cardinality({i \in D : host[i] = h})]
<1>8. /\ HostsOf(sessions) = Hosts(D, host)
      /\ \A h : OnHost(sessions, h) = {i \in D : host[i] = h}
  BY DEF HostsOf, Hosts, OnHost, D
<1>9. SumOver(DOMAIN result.servers, LAMBDA h : result.servers[h].sessions) = n
  <2>1. DOMAIN result.servers = Hosts(D, host)
    BY <1>1, <1>8 DEF ServerGrades
  <2>2. \A h \in Hosts(D, host) : result.servers[h].sessions = Cardinality({i \in D : host[i] = h})
    <3>1. \A h \in HostsOf(sessions) : result.servers[h].sessions = Cardinality(OnHost(sessions, h))
      BY <1>1 DEF ServerGrades
    <3> QED
      BY <1>8, <3>1, Zenon
  <2>3. [h \in DOMAIN result.servers |-> result.servers[h].sessions] = c
    BY <2>1, <2>2
  <2>4. SumOver(DOMAIN result.servers, LAMBDA h : result.servers[h].sessions)
          = SumFunction([h \in DOMAIN result.servers |-> result.servers[h].sessions])
    BY DEF SumOver
  <2>5. SumFunction(c) = Cardinality(D)
    BY <1>1, EachAtItsHost
  <2> QED
    BY <1>2, <2>3, <2>4, <2>5
<1>10. ASSUME NEW h \in DOMAIN result.servers
       PROVE  \E i, j \in OnHost(sessions, h) :
                 result.servers[h].mean_score \in RuleScores[i] .. RuleScores[j]
  <2> DEFINE mine == OnHost(sessions, h)
             v == [i \in mine |-> RuleScores[i]]
  <2>1. h \in HostsOf(sessions) /\ mine \subseteq D
    BY <1>1, <1>8 DEF ServerGrades
  <2>2. mine # {} /\ IsFiniteSet(mine)
    BY <1>1, <1>8, <2>1, FS_Subset DEF Hosts
  <2>3. v \in [mine -> Scores]
    BY <1>1, <2>1
  <2>4. result.servers[h].mean_score = SumFunction(v) \div Cardinality(mine)
    BY <1>1, <2>1 DEF ServerGrades, SumOver
  <2> HIDE DEF mine
  <2>5. \E i, j \in mine : SumFunction(v) \div Cardinality(mine) \in v[i] .. v[j]
    <3> HIDE DEF v
    <3> QED
      BY <2>2, <2>3, MeanBetween
  <2>6. \A i \in mine : v[i] = RuleScores[i]
    OBVIOUS
  <2> QED
    BY <2>4, <2>5, <2>6 DEF mine
<1> QED
  BY <1>4, <1>5, <1>6, <1>7, <1>9, <1>10 DEF WorseCountsMore, D, n, k

(* The score of a scan lies between that of its worst session and the      *)
(* mean, and the servers' sessions are all the sessions.                   *)
THEOREM WorseCountsMoreAlways == Spec => []WorseCountsMore
<1>1. EvidenceInv /\ JudgedInv => WorseCountsMore
  <2>1. EvidenceInv => SessionsKept
    BY EvidenceParts
  <2>2. ~Done \/ sessions = <<>> => WorseCountsMore
    BY DEF WorseCountsMore
  <2> QED
    BY <2>1, <2>2, WorseIsWorse
<1> QED
  BY <1>1, EvidenceInvariant, JudgedInvariant, PTL

-----------------------------------------------------------------------------
(* The stages follow each other.                                           *)
Stages == {"ingest", "protocol-id", "tls-analysis", "cross-session", "scoring", "ml",
           "score-fusion", "done", "raised"}
AtAStage == stage \in Stages
(* Every reachable state is at one of the pipeline's stages.               *)
LEMMA StagesOnly == Spec => []AtAStage
<1>1. Init => AtAStage
  BY DEF Init, FlowInit, Stages, AtAStage
<1>2. AtAStage /\ [Next]_vars => AtAStage'
  <2> SUFFICES ASSUME stage \in Stages, [Next]_vars PROVE stage' \in Stages
    BY DEF AtAStage
  <2>1. CASE AnalyzePcapIngest
    BY <2>1 DEF AnalyzePcapIngest, Ingest, ReadPcapRaises, SkipFrame, KnownFlow, OpenFlow, Overflow,
                EndOfCapture, Consumed, Stages
  <2>2. CASE BuildNext \/ AllBuilt \/ AnalyseSession \/ AllAnalysed \/ CrossSession \/ BindEvidence
    BY <2>2 DEF BuildNext, WithSession, AllBuilt, AnalyseSession, AllAnalysed, CrossSession, BindEvidence, Stages
  <2>3. CASE Unavailable \/ Load \/ Predict \/ PredictRaises \/ AllPredicted \/ Fuse
    BY <2>3 DEF Unavailable, Load, Predict, PredictRaises, AllPredicted, Fuse, Stages
  <2>4. CASE Ended \/ UNCHANGED vars
    BY <2>4 DEF Ended, vars
  <2> QED
    BY <2>1, <2>2, <2>3, <2>4 DEF Next
<1> QED
  BY <1>1, <1>2, PTL DEF Spec

(* The scores of a result are scores, and its grade is that of the fused.  *)
LEMMA ScoresShown ==
    ASSUME JudgedInv, SessionsKept, Done
    PROVE  /\ result.score \in Scores /\ result.rule_score \in Scores
           /\ result.grade = GradeOf(result.score)
<1>1. /\ IsFiniteSet(DOMAIN sessions) /\ RuleScores \in [DOMAIN sessions -> Scores]
      /\ IsFiniteSet(DOMAIN verdicts) /\ verdicts \in [DOMAIN verdicts -> Verdicts]
      /\ result.rule_score \in ScanScores(RuleScores)
      /\ result.score \in FuseScores(verdicts, result.rule_score, MlAvailable).scores
      /\ result.grade = GradeOf(result.score)
  BY JudgedScores DEF ResultShown
<1>2. result.rule_score \in Scores
  BY <1>1, ScanScore
<1> QED
  BY <1>1, <1>2, FusedScan

(* The variables have their types, and the scores are scores.              *)
THEOREM AnalysisTypes == Spec => []TypeOK
<1>1. EvidenceInv /\ JudgedInv /\ AtAStage => TypeOK
  <2> SUFFICES ASSUME EvidenceInv, JudgedInv, stage \in Stages PROVE TypeOK
    BY DEF AtAStage
  <2>1. SessionsKept /\ FlowInv
    BY EvidenceParts
  <2>2. FlowTypeOK /\ Len(flows) \in Nat
    BY <2>1, Counted DEF FlowInv
  <2>3. Len(sessions) <= Len(flows) /\ Len(analysed) <= Len(sessions)
    BY <2>1, <2>2, Records DEF SessionsKept, JudgedInv
  <2>4. /\ model \in Models \cup {NotLoaded} /\ verdicts \in Seq(Verdicts)
        /\ Len(verdicts) <= Len(sessions) /\ (~Done => result = NoResult)
    BY DEF JudgedInv
  <2>5. Done => result.score \in 0 .. 100 /\ result.rule_score \in 0 .. 100
    BY <2>1, ScoresShown DEF Scores
  <2> QED
    BY <2>2, <2>3, <2>4, <2>5 DEF TypeOK, Stages
<1> QED
  BY <1>1, EvidenceInvariant, JudgedInvariant, StagesOnly, PTL

-----------------------------------------------------------------------------
(* What is found about the hosts is exactly what happened there.           *)
THEOREM HostFindingsAreExact == Spec => []HostFindingsExact
<1> SUFFICES EvidenceInv /\ SessionInv /\ JudgedInv => HostFindingsExact
  BY EvidenceInvariant, SessionInvariant, JudgedInvariant, PTL
<1> SUFFICES ASSUME EvidenceInv, SessionInv, JudgedInv,
                    stage \in {"scoring", "ml", "score-fusion", "done"}, ~Unsortable(sessions),
                    NEW h \in HostsOf(sessions)
             PROVE  /\ [rule |-> "XSE-002", host |-> h] \in host_findings <=> Fell(h)
                    /\ [rule |-> "XSE-001", host |-> h] \in host_findings <=>
                          Cardinality({analysed[i].certificates[1].fingerprint :
                              i \in {i \in OnHost(sessions, h) : analysed[i].certificates # <<>>}}) > 1
  BY DEF HostFindingsExact, Fell, Shown, VersionOf, Earlier, Before
<1>1. host_findings = CrossSessionFindings(sessions, Certs)
  BY DEF SessionInv
<1>2. Len(sessions) \in Nat /\ DOMAIN sessions = 1 .. Len(sessions) /\ DOMAIN analysed = DOMAIN sessions
  BY EvidenceParts, Sessions, Records DEF JudgedInv
<1>3. Regression(Versions(sessions, h)) <=> Fell(h)
  BY <1>2, SessionTimes, RegressionIsFall
<1>4. LeavesOf(sessions, Certs, h)
        = {analysed[i].certificates[1].fingerprint :
              i \in {i \in OnHost(sessions, h) : analysed[i].certificates # <<>>}}
  BY <1>2 DEF LeavesOf, Certs, OnHost
<1> QED
  BY <1>1, <1>3, <1>4 DEF CrossSessionFindings

-----------------------------------------------------------------------------
(* What follows a place of a stream.                                       *)
LEMMA Suffix ==
    ASSUME NEW U, NEW s \in Seq(U), NEW i \in 0 .. Len(s)
    PROVE  After(s, i) \in Seq(U)
<1>1. Len(s) \in Nat
  BY LenProperties
<1>2. i + 1 \in 1 .. Len(s) + 1 /\ Len(s) \in (i + 1) - 1 .. Len(s)
  BY <1>1
<1> QED
  BY <1>1, <1>2, SubSeqProperties DEF After

(* The first of some places of a stream is one of them.                    *)
LEMMA FirstPlace ==
    ASSUME NEW U, NEW s \in Seq(U), NEW what, Where(s, what) # {}
    PROVE  First(Where(s, what)) \in 0 .. Len(s)
<1>1. Len(s) \in Nat /\ Where(s, what) \in SUBSET (1 .. Len(s))
  BY LenProperties DEF Where
<1>2. Where(s, what) \in SUBSET Nat
  BY <1>1
<1>3. First(Where(s, what)) \in Where(s, what)
  BY <1>2, LeastNumber DEF First
<1> QED
  BY <1>1, <1>3

(* The streams after the upgrade are parts of those before.                *)
LEMMA UpgradedStreams ==
    ASSUME NEW U, NEW c \in Seq(U), NEW s \in Seq(U)
    PROVE  SplitStarttls(c, s).c2s \in Seq(U) /\ SplitStarttls(c, s).s2c \in Seq(U)
<1>1. <<>> \in Seq(U)
  BY EmptySeq
<1>2. CASE Where(c, "STARTTLS") = {}
  BY <1>1, <1>2 DEF SplitStarttls
<1>3. CASE Where(c, "STARTTLS") # {}
  <2>1. After(c, First(Where(c, "STARTTLS"))) \in Seq(U)
    BY <1>3, FirstPlace, Suffix
  <2>2. AnswerAt(s) \in 0 .. Len(s)
    <3> DEFINE answers == <<Where(s, "220 ready"), Where(s, "+OK begin"), Where(s, "220")>>
               found == {k \in 1 .. 3 : answers[k] # {}}
    <3>1. Len(s) \in 0 .. Len(s)
      BY LenProperties
    <3>2. \A k \in 1 .. 3 : \E what : answers[k] = Where(s, what)
      <4>1. answers[1] = Where(s, "220 ready") /\ answers[2] = Where(s, "+OK begin") /\ answers[3] = Where(s, "220")
        OBVIOUS
      <4>2. \A k \in 1 .. 3 : k = 1 \/ k = 2 \/ k = 3
        OBVIOUS
      <4> QED
        BY <4>1, <4>2
    <3>3. AnswerAt(s) = IF found = {} THEN Len(s) ELSE First(answers[First(found)])
      BY DEF AnswerAt
    <3> HIDE DEF answers
    <3>4. ASSUME found # {}
          PROVE  First(answers[First(found)]) \in 0 .. Len(s)
      <4>1. found \in SUBSET Nat
        OBVIOUS
      <4>2. First(found) \in found
        BY <3>4, <4>1, LeastNumber DEF First
      <4>3. PICK what : answers[First(found)] = Where(s, what)
        BY <3>2, <4>2
      <4>4. answers[First(found)] # {}
        BY <4>2
      <4> QED
        BY <4>3, <4>4, FirstPlace
    <3> QED
      BY <3>1, <3>3, <3>4
  <2>3. After(s, AnswerAt(s)) \in Seq(U)
    BY <2>2, Suffix
  <2> QED
    BY <1>3, <2>1, <2>3 DEF SplitStarttls
<1> QED
  BY <1>2, <1>3

(* The certificates of a session: none, or one chain of those offered.     *)
ChainsOf(t, S) == t.cert_chains = <<>> \/ \E chain \in Seq(S) : t.cert_chains = <<chain>>

(* Merging two streams takes the chain of one of them.                     *)
LEMMA MergedChains ==
    ASSUME NEW S, NEW c, c.chain \in Seq(S), NEW s, s.chain \in Seq(S)
    PROVE  ChainsOf(MergeTls(c, s), S)
<1> DEFINE merged == Or(s.chain, c.chain, <<>>)
<1>1. merged \in Seq(S)
  BY DEF Or
<1>2. MergeTls(c, s).cert_chains = IF merged = <<>> THEN <<>> ELSE <<merged>>
  BY DEF MergeTls
<1> HIDE DEF merged
<1> QED
  BY <1>1, <1>2 DEF ChainsOf

(* The chain of a session has only certificates of its units.              *)
LEMMA SessionChains ==
    ASSUME NEW U, NEW S, \A u \in U : u.kind = "certificate" => u.chain \in Seq(S),
           NEW flow, Placed(flow.c2s, U), Placed(flow.s2c, U), BuildSession(flow) # NoSession
    PROVE  ChainsOf(BuildSession(flow).tls, S)
<1> DEFINE src == Reassemble(flow.c2s)
           dst == Reassemble(flow.s2c)
           server == ServerOf(flow)
           client == IF server.host = flow.dst.host THEN flow.src ELSE flow.dst
           c2s == IF client = flow.src THEN src ELSE dst
           s2c == IF client = flow.src THEN dst ELSE src
           up == SplitStarttls(c2s, s2c)
           P(s) == ParseStream(s)
<1>1. c2s \in Seq(U) /\ s2c \in Seq(U)
  BY ReassembledUnits
<1> HIDE DEF client, c2s, s2c
<1>2. up.c2s \in Seq(U) /\ up.s2c \in Seq(U)
  BY <1>1, UpgradedStreams
<1>3. \A s \in Seq(U) : P(s).chain \in Seq(S)
  BY ParsedChain
<1>4. NoInfo.chain \in Seq(S)
  BY EmptySeq DEF NoInfo
<1>5. \/ BuildSession(flow).tls = MergeTls(P(c2s), P(s2c))
      \/ BuildSession(flow).tls = MergeTls(P(up.c2s), P(up.s2c))
      \/ BuildSession(flow).tls = MergeTls(NoInfo, NoInfo)
  BY DEF BuildSession, NoTls, client, c2s, s2c
<1> QED
  BY <1>1, <1>2, <1>3, <1>4, <1>5, MergedChains

-----------------------------------------------------------------------------
(* The records of a chain: the first is that of one of its certificates.   *)
LEMMA FirstRecord ==
    ASSUME NEW S, NEW chain \in Seq(S), AnalyzeCertificates(chain) # <<>>
    PROVE  \E x \in S : Readable(x) /\ AnalyzeCertificates(chain)[1] = CertRecord(x)
<1> DEFINE readable == {i \in DOMAIN chain : i <= MaxChain /\ Readable(chain[i])}
           order == Ascending(readable)
           certs == CertsOf(chain)
           new == {i \in DOMAIN certs : \A j \in 1 .. i - 1 : certs[j] # certs[i]}
           recs == [i \in DOMAIN certs |-> CertRecord(certs[i])]
           kept == Ascending(new)
<1>1. Len(chain) \in Nat /\ DOMAIN chain = 1 .. Len(chain) /\ \A i \in 1 .. Len(chain) : chain[i] \in S
  BY LenProperties
<1>2. readable \in SUBSET Nat /\ IsFiniteSet(readable)
  <2>1. IsFiniteSet(1 .. Len(chain))
    BY <1>1, FS_Interval
  <2>2. readable \in SUBSET (1 .. Len(chain))
    BY <1>1
  <2> QED
    BY <1>1, <2>1, <2>2, FS_Subset
<1>3. /\ Cardinality(readable) \in Nat /\ DOMAIN order = 1 .. Cardinality(readable)
      /\ \A k \in DOMAIN order : order[k] \in readable
  BY <1>2, AscendingLists
<1>4. certs = [k \in DOMAIN order |-> chain[order[k]]]
  BY DEF CertsOf, Selected
<1> HIDE DEF certs
<1>5. DOMAIN certs = 1 .. Cardinality(readable) /\ \A k \in DOMAIN certs : certs[k] \in S /\ Readable(certs[k])
  BY <1>1, <1>3, <1>4
<1>6. new \in SUBSET Nat /\ IsFiniteSet(new)
  <2>1. IsFiniteSet(1 .. Cardinality(readable))
    BY <1>3, FS_Interval
  <2>2. new \in SUBSET (1 .. Cardinality(readable))
    BY <1>5
  <2>3. IsFiniteSet(new)
    BY <2>1, <2>2, FS_Subset
  <2> QED
    BY <1>3, <2>2, <2>3
<1>7. /\ Cardinality(new) \in Nat /\ DOMAIN kept = 1 .. Cardinality(new)
      /\ \A k \in DOMAIN kept : kept[k] \in new
  BY <1>6, AscendingLists
<1>8. AnalyzeCertificates(chain) = [k \in DOMAIN kept |-> recs[kept[k]]]
  BY DEF AnalyzeCertificates, Selected, certs
<1>9. 1 \in DOMAIN kept
  <2> SUFFICES ASSUME 1 \notin DOMAIN kept PROVE AnalyzeCertificates(chain) = <<>>
    OBVIOUS
  <2>1. DOMAIN kept = {}
    BY <1>7
  <2> QED
    BY <1>8, <2>1
<1> HIDE DEF kept
<1>10. kept[1] \in DOMAIN certs
  BY <1>7, <1>9
<1> QED
  BY <1>5, <1>8, <1>9, <1>10

(* A session's leaf is one of the certificates of the capture that can be  *)
(* read, and so has its dates.                                             *)
LEMMA LeavesAreDated ==
    ASSUME FlowInv, capture \in Captures, JudgedInv, SessionsKept, SessionInv,
           NEW i \in DOMAIN analysed, analysed[i].certificates # <<>>
    PROVE  \E x : Dated(x) /\ LeafOf(analysed[i].certificates) = CertRecord(x)
<1>1. i \in DOMAIN sessions /\ analysed[i] = Analyse(sessions[i])
  BY Records
<1>2. PICK j \in 1 .. built : sessions[i] # NoSession /\ sessions[i] = BuildSession(flows[j])
  BY <1>1 DEF SessionInv
<1>3. j \in DOMAIN flows
  BY Counted DEF SessionsKept
<1>4. ChainsOf(sessions[i].tls, Offered)
  BY <1>2, <1>3, FlowsArePlaced, OfferedChains, SessionChains
<1> DEFINE chains == sessions[i].tls.cert_chains
<1>5. analysed[i].certificates = IF chains = <<>> THEN <<>> ELSE AnalyzeCertificates(chains[1])
  BY <1>1 DEF Analyse
<1>6. PICK chain \in Seq(Offered) : chains = <<chain>>
  BY <1>4, <1>5 DEF ChainsOf
<1>7. analysed[i].certificates = AnalyzeCertificates(chain)
  BY <1>5, <1>6
<1>8. PICK x \in Offered : Readable(x) /\ AnalyzeCertificates(chain)[1] = CertRecord(x)
  BY <1>7, FirstRecord
<1> QED
  BY <1>7, <1>8, OfferedChains DEF LeafOf

-----------------------------------------------------------------------------
(* The rules that fired, of some findings.                                 *)
RulesIn(F) == {f.rule : f \in F}

(* Of findings of one rule about several things ...                        *)
LEMMA RulesOfKinds ==
    ASSUME NEW rid, NEW K
    PROVE  RulesIn({Finding(rid, k) : k \in K}) = IF K = {} THEN {} ELSE {rid}
<1> DEFINE F == {Finding(rid, k) : k \in K}
<1>1. \A f \in F : f.rule = rid
  BY DEF Finding
<1>2. F # {} <=> K # {}
  OBVIOUS
<1> HIDE DEF F
<1>3. RulesIn(F) = IF F = {} THEN {} ELSE {rid}
  BY <1>1 DEF RulesIn
<1> QED
  BY <1>2, <1>3 DEF F

(* Findings of one rule at most, of which there are some if c holds, ...   *)
RuleOnly(F, rid, c) == RulesIn(F) \subseteq {rid} /\ (rid \in RulesIn(F) <=> c)
(* ... as those of a rule with a condition.                                *)
LEMMA RuleOfWhen ==
    ASSUME NEW c, NEW rid
    PROVE  RuleOnly(When(c, rid), rid, c)
<1>1. CASE c
  <2>1. When(c, rid) = {Finding(rid, "session")}
    BY <1>1, Zenon DEF When
  <2>2. Finding(rid, "session").rule = rid
    BY DEF Finding
  <2> QED
    BY <1>1, <2>1, <2>2, Zenon DEF RulesIn, RuleOnly
<1>2. CASE ~c
  <2>1. When(c, rid) = {}
    BY <1>2, Zenon DEF When
  <2> QED
    BY <1>2, <2>1, Zenon DEF RulesIn, RuleOnly
<1> QED
  BY <1>1, <1>2, Zenon

(* What is sent without TLS breaks rules of its own.                       *)
LEMMA PlainRules ==
    ASSUME NEW s
    PROVE  RulesIn(PlainFindings(s)) \subseteq {"CFG-005", "PRT-001", "CFG-004"}
<1> DEFINE ad == /\ ~s.started_plain /\ s.protocol = "smtp" /\ s.server.port \in {25, 587}
                 /\ ~s.advertised
           A == When(ad, "CFG-005")
           B == When(~s.started_plain, "PRT-001")
           C == When(s.started_plain, "CFG-004")
           R == RulesIn(PlainFindings(s))
<1>1. PlainFindings(s) = A \cup B \cup C
  BY DEF PlainFindings
<1> HIDE DEF ad
<1>a. RuleOnly(A, "CFG-005", ad)
  BY RuleOfWhen, Zenon
<1>b. RuleOnly(B, "PRT-001", ~s.started_plain)
  BY RuleOfWhen, Zenon
<1>c. RuleOnly(C, "CFG-004", s.started_plain)
  BY RuleOfWhen, Zenon
<1>2. RulesIn(A) \subseteq {"CFG-005"} /\ RulesIn(B) \subseteq {"PRT-001"} /\ RulesIn(C) \subseteq {"CFG-004"}
  BY <1>a, <1>b, <1>c, Zenon DEF RuleOnly
<1> HIDE DEF A, B, C
<1>3. R = RulesIn(A) \cup RulesIn(B) \cup RulesIn(C)
  BY <1>1 DEF RulesIn
<1> HIDE DEF R
<1>4. R \subseteq {"CFG-005", "PRT-001", "CFG-004"}
  BY <1>2, <1>3
<1> QED
  BY <1>4 DEF R

(* Of the rules about the suite, those with a feature next to them.        *)
LEMMA SuiteRules ==
    ASSUME NEW t
    PROVE  LET R == RulesIn(SuiteFindings(t))
           IN  /\ R \subseteq {"CPR-001", "CPR-002", "CPR-003", "CPR-004", "PFS-001", "CFG-006", "CFG-007"}
               /\ "PFS-001" \in R <=> ~PfsOf(t.kex)
               /\ "CPR-004" \in R <=>
                     /\ CipherStrength(t.suite) < 128
                     /\ \E c \in t.offered : CipherStrength(c) >= CipherStrength(t.suite)
<1> DEFINE strength == CipherStrength(t.suite)
           broken == strength = 0
           legacy == t.suite \in Rc4 \cup TripleDes
           weaker == strength < 128 /\ \E c \in t.offered : CipherStrength(c) >= strength
           cbc == ~broken /\ ~legacy /\ t.suite \in Cbc /\ t.version = \h0303
           pfs == ~PfsOf(t.kex)
           resumed == t.resumed /\ ~t.ems
           reneg == t.reneg_seen /\ ~t.secure_renegotiation
           A == When(broken, "CPR-001")
           B == When(~broken /\ legacy, "CPR-002")
           C == When(cbc, "CPR-003")
           D == When(weaker, "CPR-004")
           E == When(pfs, "PFS-001")
           F == When(resumed, "CFG-006")
           G == When(reneg, "CFG-007")
           R == RulesIn(SuiteFindings(t))
<1>1. SuiteFindings(t) = A \cup B \cup C \cup D \cup E \cup F \cup G
  BY DEF SuiteFindings
<1> HIDE DEF strength, broken, legacy, weaker, cbc, pfs, resumed, reneg
<1>a. RuleOnly(A, "CPR-001", broken)
  BY RuleOfWhen, Zenon
<1>b. RuleOnly(B, "CPR-002", ~broken /\ legacy)
  BY RuleOfWhen, Zenon
<1>c. RuleOnly(C, "CPR-003", cbc)
  BY RuleOfWhen, Zenon
<1>2. RulesIn(A) \subseteq {"CPR-001"} /\ RulesIn(B) \subseteq {"CPR-002"} /\ RulesIn(C) \subseteq {"CPR-003"}
  BY <1>a, <1>b, <1>c, Zenon DEF RuleOnly
<1>f. RuleOnly(F, "CFG-006", resumed)
  BY RuleOfWhen, Zenon
<1>g. RuleOnly(G, "CFG-007", reneg)
  BY RuleOfWhen, Zenon
<1>3. RulesIn(F) \subseteq {"CFG-006"} /\ RulesIn(G) \subseteq {"CFG-007"}
  BY <1>f, <1>g, Zenon DEF RuleOnly
<1>d. RuleOnly(D, "CPR-004", weaker)
  BY RuleOfWhen, Zenon
<1>4. RulesIn(D) \subseteq {"CPR-004"} /\ ("CPR-004" \in RulesIn(D) <=> weaker)
  BY <1>d, Zenon DEF RuleOnly
<1>e. RuleOnly(E, "PFS-001", pfs)
  BY RuleOfWhen, Zenon
<1>5. RulesIn(E) \subseteq {"PFS-001"} /\ ("PFS-001" \in RulesIn(E) <=> pfs)
  BY <1>e, Zenon DEF RuleOnly
<1> HIDE DEF A, B, C, D, E, F, G, R
<1>6. R = RulesIn(A) \cup RulesIn(B) \cup RulesIn(C) \cup RulesIn(D) \cup RulesIn(E) \cup RulesIn(F)
          \cup RulesIn(G)
  BY <1>1 DEF R, RulesIn
<1>7. /\ R \subseteq {"CPR-001", "CPR-002", "CPR-003", "CPR-004", "PFS-001", "CFG-006", "CFG-007"}
      /\ "PFS-001" \in R <=> "PFS-001" \in RulesIn(E)
      /\ "CPR-004" \in R <=> "CPR-004" \in RulesIn(D)
  BY <1>2, <1>3, <1>4, <1>5, <1>6
<1> QED
  BY <1>4, <1>5, <1>7, Zenon DEF pfs, weaker, strength, R

(* The rules about TLS, over those about the suite.                        *)
LEMMA TlsRules ==
    ASSUME NEW s
    PROVE  LET R == RulesIn(TlsFindings(s))
               t == s.tls
           IN  /\ R \subseteq {"CFG-003", "TLS-001", "ALR-001", "CPR-001", "CPR-002", "CPR-003", "CPR-004",
                               "PFS-001", "CFG-006", "CFG-007"}
               /\ "PFS-001" \in R <=> t.suite # NoSuite /\ ~PfsOf(t.kex)
               /\ "CPR-004" \in R <=>
                     /\ t.suite # NoSuite /\ CipherStrength(t.suite) < 128
                     /\ \E c \in t.offered : CipherStrength(c) >= CipherStrength(t.suite)
<1> DEFINE t == s.tls
           port == s.server.port \in {993, 995, 465} /\ t.error
           old == t.version \in {\h0200, \h0300, \h0301, \h0302}
           alert == t.alerts \cap {40, 70, 71} # {}
           A == When(port, "CFG-003")
           B == When(old, "TLS-001")
           C == IF t.suite = NoSuite THEN {} ELSE SuiteFindings(t)
           D == When(alert, "ALR-001")
           R == RulesIn(TlsFindings(s))
           pfs == ~PfsOf(t.kex)
           weaker == CipherStrength(t.suite) < 128
                     /\ \E c \in t.offered : CipherStrength(c) >= CipherStrength(t.suite)
           S == RulesIn(C)
<1>1. TlsFindings(s) = A \cup B \cup C \cup D
  BY DEF TlsFindings
<1> HIDE DEF port, old, alert
<1>a. RuleOnly(A, "CFG-003", port)
  BY RuleOfWhen, Zenon
<1>b. RuleOnly(B, "TLS-001", old)
  BY RuleOfWhen, Zenon
<1>d. RuleOnly(D, "ALR-001", alert)
  BY RuleOfWhen, Zenon
<1>2. RulesIn(A) \subseteq {"CFG-003"} /\ RulesIn(B) \subseteq {"TLS-001"} /\ RulesIn(D) \subseteq {"ALR-001"}
  BY <1>a, <1>b, <1>d, Zenon DEF RuleOnly
<1>3. /\ S \subseteq {"CPR-001", "CPR-002", "CPR-003", "CPR-004", "PFS-001", "CFG-006", "CFG-007"}
      /\ "PFS-001" \in S <=> t.suite # NoSuite /\ pfs
      /\ "CPR-004" \in S <=> t.suite # NoSuite /\ weaker
  <2>1. CASE t.suite = NoSuite
    <3>1. S = {}
      BY <2>1 DEF RulesIn
    <3> HIDE DEF S, pfs, weaker
    <3> QED
      BY <2>1, <3>1
  <2>2. CASE t.suite # NoSuite
    <3>1. S = RulesIn(SuiteFindings(t))
      BY <2>2
    <3> HIDE DEF S
    <3> QED
      BY <2>2, <3>1, SuiteRules, Zenon
  <2> QED
    BY <2>1, <2>2
<1> HIDE DEF A, B, C, D, pfs, weaker
<1>4. R = RulesIn(A) \cup RulesIn(B) \cup S \cup RulesIn(D)
  BY <1>1 DEF RulesIn
<1> HIDE DEF R, S
<1>5. /\ R \subseteq {"CFG-003", "TLS-001", "ALR-001", "CPR-001", "CPR-002", "CPR-003", "CPR-004",
                      "PFS-001", "CFG-006", "CFG-007"}
      /\ "PFS-001" \in R <=> "PFS-001" \in S
      /\ "CPR-004" \in R <=> "CPR-004" \in S
  BY <1>2, <1>3, <1>4
<1> QED
  BY <1>3, <1>5, Zenon DEF R, pfs, weaker

(* The rules about the leaf.                                               *)
LEMMA LeafRules ==
    ASSUME NEW leaf, NEW issues
    PROVE  LET R == RulesIn(LeafFindings(leaf, issues))
           IN  /\ R \subseteq {"CRT-001", "CRT-002", "CRT-003", "CRT-004", "CRT-005", "CRT-006", "CRT-007"}
               /\ "CRT-001" \in R <=> leaf.is_expired
               /\ "CRT-003" \in R <=> leaf.days_to_expiry \in 0 .. ExpiryWarnDays
               /\ "CRT-004" \in R <=> leaf.self_signed
               /\ "CRT-005" \in R <=> WeakKey(leaf)
               /\ "CRT-007" \in R <=> "hostname mismatch" \in issues
<1> DEFINE soon == leaf.days_to_expiry \in 0 .. ExpiryWarnDays
           weak == WeakKey(leaf)
           hash == WeakSignature(leaf)
           name == "hostname mismatch" \in issues
           A == When(leaf.is_expired, "CRT-001")
           B == When(leaf.not_yet_valid, "CRT-002")
           C == When(soon, "CRT-003")
           D == When(leaf.self_signed, "CRT-004")
           E == When(weak, "CRT-005")
           F == When(hash, "CRT-006")
           G == When(name, "CRT-007")
           R == RulesIn(LeafFindings(leaf, issues))
<1>1. LeafFindings(leaf, issues) = A \cup B \cup C \cup D \cup E \cup F \cup G
  BY DEF LeafFindings
<1> HIDE DEF soon, weak, hash, name
<1>2. RuleOnly(A, "CRT-001", leaf.is_expired)
  BY RuleOfWhen, Zenon
<1>3. RuleOnly(B, "CRT-002", leaf.not_yet_valid)
  BY RuleOfWhen, Zenon
<1>4. RuleOnly(C, "CRT-003", soon)
  BY RuleOfWhen, Zenon
<1>5. RuleOnly(D, "CRT-004", leaf.self_signed)
  BY RuleOfWhen, Zenon
<1>6. RuleOnly(E, "CRT-005", weak)
  BY RuleOfWhen, Zenon
<1>7. RuleOnly(F, "CRT-006", hash)
  BY RuleOfWhen, Zenon
<1>8. RuleOnly(G, "CRT-007", name)
  BY RuleOfWhen, Zenon
<1> HIDE DEF A, B, C, D, E, F, G
<1>9. R = RulesIn(A) \cup RulesIn(B) \cup RulesIn(C) \cup RulesIn(D) \cup RulesIn(E) \cup RulesIn(F)
          \cup RulesIn(G)
  BY <1>1 DEF RulesIn
<1> HIDE DEF R
<1>10. /\ R \subseteq {"CRT-001", "CRT-002", "CRT-003", "CRT-004", "CRT-005", "CRT-006", "CRT-007"}
       /\ "CRT-001" \in R <=> "CRT-001" \in RulesIn(A)
       /\ "CRT-003" \in R <=> "CRT-003" \in RulesIn(C)
       /\ "CRT-004" \in R <=> "CRT-004" \in RulesIn(D)
       /\ "CRT-005" \in R <=> "CRT-005" \in RulesIn(E)
       /\ "CRT-007" \in R <=> "CRT-007" \in RulesIn(G)
  BY <1>2, <1>3, <1>4, <1>5, <1>6, <1>7, <1>8, <1>9 DEF RuleOnly
<1> QED
  BY <1>2, <1>4, <1>5, <1>6, <1>8, <1>10, Zenon DEF RuleOnly, R, soon, weak, name

(* evaluate_session, rule by rule.                                         *)
LEMMA RulesOfSession ==
    ASSUME NEW s, NEW certs, NEW issues, NEW R, R = RulesIn(Findings(s, certs, issues))
    PROVE  LET t == s.tls
               leaf == LeafOf(certs)
           IN  /\ "CRT-001" \in R <=> certs # <<>> /\ leaf.is_expired
               /\ "CRT-003" \in R <=> certs # <<>> /\ leaf.days_to_expiry \in 0 .. ExpiryWarnDays
               /\ "CRT-004" \in R <=> certs # <<>> /\ leaf.self_signed
               /\ "CRT-005" \in R <=> certs # <<>> /\ WeakKey(leaf)
               /\ "CRT-007" \in R <=> certs # <<>> /\ "hostname mismatch" \in issues
               /\ "CRE-001" \in R <=> s.cleartext_creds # {}
               /\ "PFS-001" \in R <=> s.transport # "plaintext" /\ t.suite # NoSuite /\ ~PfsOf(t.kex)
               /\ "CPR-004" \in R <=>
                     /\ s.transport # "plaintext" /\ t.suite # NoSuite /\ CipherStrength(t.suite) < 128
                     /\ \E c \in t.offered : CipherStrength(c) >= CipherStrength(t.suite)
<1> DEFINE line == IF s.transport = "plaintext" THEN PlainFindings(s) ELSE TlsFindings(s)
           leafs == IF certs = <<>> THEN {} ELSE LeafFindings(LeafOf(certs), issues)
           creds == {Finding("CRE-001", kind) : kind \in s.cleartext_creds}
           chain == {Finding("CRT-008", issue) :
                        issue \in issues \cap {"signature break", "no intermediates", "no self-signed root"}}
           plain == s.transport = "plaintext"
           pfs == s.tls.suite # NoSuite /\ ~PfsOf(s.tls.kex)
           weaker == /\ s.tls.suite # NoSuite /\ CipherStrength(s.tls.suite) < 128
                     /\ \E c \in s.tls.offered : CipherStrength(c) >= CipherStrength(s.tls.suite)
           P == RulesIn(line)
           L == RulesIn(leafs)
           C == RulesIn(creds)
           I == RulesIn(chain)
<1>1. Findings(s, certs, issues) = line \cup leafs \cup creds \cup chain
  BY DEF Findings
<1>2. C \subseteq {"CRE-001"} /\ ("CRE-001" \in C <=> s.cleartext_creds # {})
  <2>1. C = IF s.cleartext_creds = {} THEN {} ELSE {"CRE-001"}
    BY RulesOfKinds, Zenon
  <2> QED
    BY <2>1
<1>3. I \subseteq {"CRT-008"}
  <2> DEFINE K == issues \cap {"signature break", "no intermediates", "no self-signed root"}
  <2>1. I = IF K = {} THEN {} ELSE {"CRT-008"}
    BY RulesOfKinds, Zenon
  <2> HIDE DEF I, K
  <2> QED
    BY <2>1
<1>4. R = P \cup L \cup C \cup I
  <2> HIDE DEF line, leafs, creds, chain
  <2> QED
    BY <1>1 DEF RulesIn
<1>5. /\ P \subseteq {"CFG-005", "PRT-001", "CFG-004", "CFG-003", "TLS-001", "ALR-001", "CPR-001", "CPR-002",
                      "CPR-003", "CPR-004", "PFS-001", "CFG-006", "CFG-007"}
      /\ "PFS-001" \in P <=> ~plain /\ pfs
      /\ "CPR-004" \in P <=> ~plain /\ weaker
  <2>1. CASE plain
    <3>1. P = RulesIn(PlainFindings(s))
      BY <2>1
    <3> HIDE DEF P, plain, pfs, weaker
    <3> QED
      BY <2>1, <3>1, PlainRules
  <2>2. CASE ~plain
    <3>1. P = RulesIn(TlsFindings(s))
      BY <2>2
    <3> HIDE DEF P, plain
    <3>2. /\ P \subseteq {"CFG-003", "TLS-001", "ALR-001", "CPR-001", "CPR-002", "CPR-003", "CPR-004",
                          "PFS-001", "CFG-006", "CFG-007"}
          /\ "PFS-001" \in P <=> pfs
          /\ "CPR-004" \in P <=> weaker
      BY <3>1, TlsRules, Zenon
    <3> HIDE DEF pfs, weaker
    <3> QED
      BY <2>2, <3>2
  <2> QED
    BY <2>1, <2>2
<1>6. /\ L \subseteq {"CRT-001", "CRT-002", "CRT-003", "CRT-004", "CRT-005", "CRT-006", "CRT-007"}
      /\ "CRT-001" \in L <=> certs # <<>> /\ LeafOf(certs).is_expired
      /\ "CRT-003" \in L <=> certs # <<>> /\ LeafOf(certs).days_to_expiry \in 0 .. ExpiryWarnDays
      /\ "CRT-004" \in L <=> certs # <<>> /\ LeafOf(certs).self_signed
      /\ "CRT-005" \in L <=> certs # <<>> /\ WeakKey(LeafOf(certs))
      /\ "CRT-007" \in L <=> certs # <<>> /\ "hostname mismatch" \in issues
  <2>1. CASE certs = <<>>
    <3>1. L = {}
      BY <2>1 DEF RulesIn
    <3> HIDE DEF L
    <3> QED
      BY <2>1, <3>1
  <2>2. CASE certs # <<>>
    <3>1. L = RulesIn(LeafFindings(LeafOf(certs), issues))
      BY <2>2
    <3> HIDE DEF L
    <3> QED
      BY <2>2, <3>1, LeafRules, Zenon
  <2> QED
    BY <2>1, <2>2
<1> HIDE DEF line, leafs, creds, chain, P, L, C, I, plain, pfs, weaker
<1>7. /\ "CRT-001" \in R <=> "CRT-001" \in L
      /\ "CRT-003" \in R <=> "CRT-003" \in L
      /\ "CRT-004" \in R <=> "CRT-004" \in L
      /\ "CRT-005" \in R <=> "CRT-005" \in L
      /\ "CRT-007" \in R <=> "CRT-007" \in L
  BY <1>2, <1>3, <1>4, <1>5
<1>8. /\ "PFS-001" \in R <=> "PFS-001" \in P
      /\ "CPR-004" \in R <=> "CPR-004" \in P
      /\ "CRE-001" \in R <=> "CRE-001" \in C
  BY <1>2, <1>3, <1>4, <1>5, <1>6
<1>9. /\ "PFS-001" \in R <=> ~plain /\ pfs
      /\ "CPR-004" \in R <=> ~plain /\ weaker
      /\ "CRE-001" \in R <=> s.cleartext_creds # {}
  BY <1>2, <1>5, <1>8
<1> QED
  BY <1>6, <1>7, <1>9, Zenon DEF plain, pfs, weaker

-----------------------------------------------------------------------------
(* What evaluate_session was given for a session of the report.            *)
CertsFor(s) == LET chains == s.tls.cert_chains IN IF chains = <<>> THEN <<>> ELSE AnalyzeCertificates(chains[1])
IssuesFor(s) == LET chains == s.tls.cert_chains IN IF chains = <<>> THEN {} ELSE ChainIssues(chains[1], s.tls.sni)

(* The record of a session is that of its own certificates and issues.     *)
LEMMA WhatWasJudged ==
    ASSUME JudgedInv, SessionsKept, Done, NEW i \in DOMAIN sessions
    PROVE  LET s == sessions[i]
           IN  /\ i \in DOMAIN analysed /\ DOMAIN analysed = DOMAIN sessions
               /\ analysed[i].certificates = CertsFor(s) /\ analysed[i].advisories = Advisories(s)
               /\ analysed[i].findings = Findings(s, CertsFor(s), IssuesFor(s))
               /\ analysed[i].features = Extract(s, CertsFor(s), IssuesFor(s))
               /\ RulesOf(i) = RulesIn(Findings(s, CertsFor(s), IssuesFor(s)))
<1>1. DOMAIN analysed = DOMAIN sessions /\ analysed[i] = Analyse(sessions[i])
  BY Records DEF JudgedInv, Done
<1>2. /\ analysed[i].certificates = CertsFor(sessions[i])
      /\ analysed[i].findings = Findings(sessions[i], CertsFor(sessions[i]), IssuesFor(sessions[i]))
      /\ analysed[i].features = Extract(sessions[i], CertsFor(sessions[i]), IssuesFor(sessions[i]))
      /\ analysed[i].advisories = Advisories(sessions[i])
  BY <1>1 DEF Analyse, CertsFor, IssuesFor
<1> QED
  BY <1>1, <1>2 DEF RulesOf, RulesIn

(* When a rule has fired for a session of the report.                      *)
LEMMA FiredRules ==
    ASSUME JudgedInv, SessionsKept, Done, NEW i \in DOMAIN sessions
    PROVE  LET R == RulesOf(i)
               s == sessions[i]
               t == sessions[i].tls
               certs == analysed[i].certificates
               leaf == LeafOf(analysed[i].certificates)
           IN  /\ "CRT-001" \in R <=> certs # <<>> /\ leaf.is_expired
               /\ "CRT-003" \in R <=> certs # <<>> /\ leaf.days_to_expiry \in 0 .. ExpiryWarnDays
               /\ "CRT-004" \in R <=> certs # <<>> /\ leaf.self_signed
               /\ "CRT-005" \in R <=> certs # <<>> /\ WeakKey(leaf)
               /\ "CRT-007" \in R <=> certs # <<>> /\ "hostname mismatch" \in IssuesFor(s)
               /\ "CRE-001" \in R <=> s.cleartext_creds # {}
               /\ "PFS-001" \in R <=> s.transport # "plaintext" /\ t.suite # NoSuite /\ ~PfsOf(t.kex)
               /\ "CPR-004" \in R <=>
                     /\ s.transport # "plaintext" /\ t.suite # NoSuite /\ CipherStrength(t.suite) < 128
                     /\ \E c \in t.offered : CipherStrength(c) >= CipherStrength(t.suite)
<1>1. RulesOf(i) = RulesIn(Findings(sessions[i], analysed[i].certificates, IssuesFor(sessions[i])))
  BY WhatWasJudged
<1> QED
  BY <1>1, RulesOfSession, Zenon

(* Days rounds down, also below zero.                                      *)
LEMMA DaysLeft ==
    ASSUME NEW h \in Int
    PROVE  Days(h) \in Int /\ (Days(h) \in 0 .. ExpiryWarnDays <=> h \in 0 .. 31 * Day - 1)
BY DEF Days, Day, ExpiryWarnDays

(* The last hour of validity and the first after it are told apart.        *)
THEOREM ExpiryIsExclusive == Spec => []ExpiryExclusive
<1>1. EvidenceInv /\ JudgedInv /\ SessionInv /\ capture \in Captures => ExpiryExclusive
  <2> SUFFICES ASSUME EvidenceInv, JudgedInv, SessionInv, capture \in Captures, Done,
                      NEW i \in DOMAIN sessions, analysed[i].certificates # <<>>,
                      NEW left, left = analysed[i].certificates[1].fingerprint.not_after
               PROVE  /\ "CRT-001" \in RulesOf(i) <=> left < 0
                      /\ "CRT-003" \in RulesOf(i) <=> left \in 0 .. 31 * Day - 1
    BY DEF ExpiryExclusive
  <2>1. FlowInv /\ SessionsKept
    BY EvidenceParts
  <2>2. i \in DOMAIN analysed
    BY <2>1, WhatWasJudged
  <2>3. PICK x : Dated(x) /\ LeafOf(analysed[i].certificates) = CertRecord(x)
    BY <2>1, <2>2, LeavesAreDated
  <2> DEFINE leaf == LeafOf(analysed[i].certificates)
  <2>4. leaf.fingerprint = x /\ leaf.is_expired = (x.not_after < 0) /\ leaf.days_to_expiry = Days(x.not_after)
    BY <2>3 DEF CertRecord
  <2>5. /\ "CRT-001" \in RulesOf(i) <=> leaf.is_expired
        /\ "CRT-003" \in RulesOf(i) <=> leaf.days_to_expiry \in 0 .. ExpiryWarnDays
    BY <2>1, FiredRules
  <2>6. left = x.not_after /\ left \in Int
    BY <2>3, <2>4 DEF Dated, LeafOf
  <2>7. Days(left) \in 0 .. ExpiryWarnDays <=> left \in 0 .. 31 * Day - 1
    BY <2>6, DaysLeft
  <2> QED
    BY <2>4, <2>5, <2>6, <2>7
<1> QED
  BY <1>1, EvidenceInvariant, JudgedInvariant, SessionInvariant, OneCapture, PTL

-----------------------------------------------------------------------------
(* A name that was not asked for does not mismatch.                        *)
LEMMA MismatchWasAsked ==
    ASSUME NEW s, "hostname mismatch" \in IssuesFor(s)
    PROVE  s.tls.sni # NoHost
<1> DEFINE chain == s.tls.cert_chains[1]
<1>1. "hostname mismatch" \in ChainIssues(chain, s.tls.sni)
  BY DEF IssuesFor
<1> HIDE DEF chain
<1>2. "hostname mismatch" \notin ChainIssues(chain, NoName)
  BY DEF ChainIssues
<1> QED
  BY <1>1, <1>2 DEF NoName, NoHost

(* Without TLS there is no suite.                                          *)
LEMMA PlaintextHasNoSuite ==
    ASSUME NEW flow, BuildSession(flow) # NoSession, BuildSession(flow).transport = "plaintext"
    PROVE  BuildSession(flow).tls.suite = NoSuite
<1>1. BuildSession(flow).tls = NoTls
  BY DEF BuildSession
<1> QED
  BY <1>1 DEF NoTls, MergeTls, NoInfo, Or

(* A weak key has few bits, or is a DSA key.                               *)
LEMMA WeakKeyShown ==
    ASSUME NEW x, Dated(x), WeakKey(CertRecord(x))
    PROVE  CertRecord(x).key_length < 2048 \/ CertRecord(x).key_algorithm = "DSA"
BY DEF Dated, WeakKey, CertRecord

(* Each feature of a session with the finding next to it.                  *)
FeaturesAgree(i) ==
    LET f == analysed[i].features
    IN  /\ "CRT-007" \in RulesOf(i) <=> f.hostname_match = 0
        /\ "CRT-004" \in RulesOf(i) <=> f.cert_is_self_signed
        /\ "CRT-003" \in RulesOf(i) => f.cert_days_to_expiry <= ExpiryWarnDays
        /\ "PFS-001" \in RulesOf(i) <=> ~f.kex_is_pfs /\ sessions[i].tls.suite # NoSuite
        /\ "CRT-005" \in RulesOf(i) =>
              f.cert_key_bits < 2048 \/ LeafOf(analysed[i].certificates).key_algorithm = "DSA"
        /\ f.cipher_mismatch_count > 0 /\ f.cipher_strength_bits < 128
              => RulesOf(i) \cap {"CPR-004"} # {}

(* Each session has features that agree with its findings.                 *)
LEMMA FeaturesOfSession ==
    ASSUME EvidenceInv, JudgedInv, SessionInv, capture \in Captures, Done, NEW i \in DOMAIN sessions
    PROVE  FeaturesAgree(i)
<1> DEFINE s == sessions[i]
           t == s.tls
           f == analysed[i].features
           certs == analysed[i].certificates
           leaf == LeafOf(certs)
           issues == IssuesFor(s)
           R == RulesOf(i)
<1>1. FlowInv /\ SessionsKept /\ i \in DOMAIN analysed
  BY EvidenceParts, WhatWasJudged
<1>2. f = Extract(s, certs, issues)
  BY <1>1, WhatWasJudged
<1>3. "CRT-003" \in R <=> certs # <<>> /\ leaf.days_to_expiry \in 0 .. ExpiryWarnDays
  BY <1>1, FiredRules, Zenon
<1>4. "CRT-007" \in R <=> certs # <<>> /\ "hostname mismatch" \in issues
  BY <1>1, FiredRules, Zenon
<1>5. "CRT-005" \in R <=> certs # <<>> /\ WeakKey(leaf)
  BY <1>1, FiredRules, Zenon
<1>6. "CRT-004" \in R <=> certs # <<>> /\ leaf.self_signed
  BY <1>1, FiredRules, Zenon
<1>7. "PFS-001" \in R <=> s.transport # "plaintext" /\ t.suite # NoSuite /\ ~PfsOf(t.kex)
  BY <1>1, FiredRules, Zenon
<1>8. "CPR-004" \in R <=>
          /\ s.transport # "plaintext" /\ t.suite # NoSuite /\ CipherStrength(t.suite) < 128
          /\ \E c \in t.offered : CipherStrength(c) >= CipherStrength(t.suite)
  BY <1>1, FiredRules, Zenon
<1>9. f.hostname_match = HostnameMatch(s, certs, issues)
  BY <1>2 DEF Extract
<1>10. /\ f.cert_days_to_expiry = IF certs = <<>> THEN 0 ELSE leaf.days_to_expiry
       /\ f.cert_key_bits = IF certs = <<>> THEN 0 ELSE leaf.key_length
       /\ f.cipher_strength_bits = IF t.suite = NoSuite THEN 0 ELSE CipherStrength(t.suite)
       /\ f.cipher_mismatch_count
             = IF t.suite = NoSuite THEN 0
               ELSE Cardinality({c \in t.offered : CipherStrength(c) > CipherStrength(t.suite)})
  BY <1>2 DEF Extract
<1>11. /\ f.cert_is_self_signed = (certs # <<>> /\ leaf.self_signed)
      /\ f.kex_is_pfs = (t.suite # NoSuite /\ PfsOf(t.kex))
  BY <1>2 DEF Extract
<1>12. s.transport = "plaintext" => t.suite = NoSuite
  BY PlaintextHasNoSuite DEF SessionInv
<1>13. "hostname mismatch" \in issues => t.sni # NoHost
  BY MismatchWasAsked
<1>14. certs # <<>> /\ WeakKey(leaf) => leaf.key_length < 2048 \/ leaf.key_algorithm = "DSA"
  BY <1>1, LeavesAreDated, WeakKeyShown
<1> HIDE DEF s, f, certs, leaf, issues, R
<1>15. "CRT-007" \in R <=> f.hostname_match = 0
  <2>1. f.hostname_match = IF t.sni = NoHost \/ certs = <<>> THEN -1
                           ELSE IF "hostname mismatch" \in issues THEN 0 ELSE 1
    BY <1>9 DEF HostnameMatch
  <2> HIDE DEF t
  <2>2. -1 # 0 /\ 1 # 0
    OBVIOUS
  <2>3. f.hostname_match = 0 <=> ~(t.sni = NoHost \/ certs = <<>>) /\ "hostname mismatch" \in issues
    BY <2>1, <2>2
  <2> QED
    BY <1>4, <1>13, <2>3
<1>16. "CRT-004" \in R <=> f.cert_is_self_signed
  BY <1>6, <1>11
<1>17. "CRT-003" \in R => f.cert_days_to_expiry <= ExpiryWarnDays
  <2>1. leaf.days_to_expiry \in 0 .. 30 => leaf.days_to_expiry <= 30
    OBVIOUS
  <2> QED
    BY <1>3, <1>10, <2>1 DEF ExpiryWarnDays
<1>18. "PFS-001" \in R <=> ~f.kex_is_pfs /\ t.suite # NoSuite
  BY <1>7, <1>11, <1>12
<1>19. "CRT-005" \in R => f.cert_key_bits < 2048 \/ leaf.key_algorithm = "DSA"
  BY <1>5, <1>10, <1>14
<1>20. f.cipher_mismatch_count > 0 /\ f.cipher_strength_bits < 128 => "CPR-004" \in R
  <2> SUFFICES ASSUME f.cipher_mismatch_count > 0, f.cipher_strength_bits < 128 PROVE "CPR-004" \in R
    OBVIOUS
  <2> DEFINE stronger == {c \in t.offered : CipherStrength(c) > CipherStrength(t.suite)}
  <2>1. t.suite # NoSuite /\ CipherStrength(t.suite) < 128 /\ Cardinality(stronger) > 0
    BY <1>10
  <2>2. stronger # {}
    BY <2>1, FS_EmptySet
  <2>3. \A c : CipherStrength(c) \in Int
    BY DEF CipherStrength
  <2>4. \E c \in t.offered : CipherStrength(c) >= CipherStrength(t.suite)
    BY <2>2, <2>3
  <2> QED
    BY <1>8, <1>12, <2>1, <2>4
<1> QED
  BY <1>15, <1>16, <1>17, <1>18, <1>19, <1>20 DEF FeaturesAgree, s, f, certs, leaf, R

-----------------------------------------------------------------------------
(* The counters of the result, as Fuse leaves them.                        *)
Vulnerable == {i \in DOMAIN sessions : QuantumVulnerable(sessions[i].tls)}
Prepared == {i \in DOMAIN sessions : sessions[i].tls.group \in HybridGroups}
Exposed == {i \in DOMAIN sessions : sessions[i].cleartext_creds # {}}
OfSeverity(sev) == {f \in AllFindings : SeverityOf(f.rule) = sev}
Severities == {SeverityOf(f.rule) : f \in AllFindings}
CountersShown ==
    Done => /\ result.quantum_vulnerable_sessions = Cardinality(Vulnerable)
            /\ result.pqc_ready_sessions = Cardinality(Prepared)
            /\ result.credential_exposure = Cardinality(Exposed)
            /\ result.severity_counts = [sev \in Severities |-> Cardinality(OfSeverity(sev))]

(* Fuse counts what it shows.                                              *)
LEMMA CountersByFuse ==
    ASSUME Fuse
    PROVE  CountersShown'
<1>1. sessions' = sessions /\ analysed' = analysed /\ host_findings' = host_findings
  BY DEF Fuse, sessionVars
<1>2. AllFindings' = AllFindings
  BY <1>1 DEF AllFindings
<1>3. Vulnerable' = Vulnerable /\ Prepared' = Prepared /\ Exposed' = Exposed
  BY <1>1 DEF Vulnerable, Prepared, Exposed
<1>4. /\ result'.quantum_vulnerable_sessions = CountSessions(LAMBDA s : QuantumVulnerable(s.tls))
      /\ result'.pqc_ready_sessions = CountSessions(LAMBDA s : s.tls.group \in HybridGroups)
      /\ result'.credential_exposure = CountSessions(LAMBDA s : s.cleartext_creds # {})
      /\ result'.severity_counts = CountBy(AllFindings, LAMBDA f : SeverityOf(f.rule))
  BY DEF Fuse
<1>5. /\ CountSessions(LAMBDA s : QuantumVulnerable(s.tls)) = Cardinality(Vulnerable)
      /\ CountSessions(LAMBDA s : s.tls.group \in HybridGroups) = Cardinality(Prepared)
      /\ CountSessions(LAMBDA s : s.cleartext_creds # {}) = Cardinality(Exposed)
  BY DEF CountSessions, Vulnerable, Prepared, Exposed
<1>6. CountBy(AllFindings, LAMBDA f : SeverityOf(f.rule)) = [sev \in Severities |-> Cardinality(OfSeverity(sev))]
  BY DEF CountBy, Severities, OfSeverity
<1>7. Severities' = Severities /\ \A sev : OfSeverity(sev)' = OfSeverity(sev)
  BY <1>2 DEF Severities, OfSeverity
<1> QED
  BY <1>3, <1>4, <1>5, <1>6, <1>7 DEF CountersShown

(* The counters are those of the sessions and findings, always.            *)
LEMMA CountersAlways == Spec => []CountersShown
<1>1. Init => CountersShown
  BY DEF Init, FlowInit, CountersShown, Done
<1>2. CountersShown /\ [Next]_vars => CountersShown'
  <2> SUFFICES ASSUME CountersShown, [Next]_vars PROVE CountersShown'
    OBVIOUS
  <2>1. CASE Fuse
    BY <2>1, CountersByFuse
  <2>2. CASE Ended \/ UNCHANGED vars
    <3>1. stage' = stage /\ sessions' = sessions /\ analysed' = analysed /\ host_findings' = host_findings
          /\ result' = result
      BY <2>2 DEF Ended, vars, sessionVars
    <3>2. AllFindings' = AllFindings
      BY <3>1 DEF AllFindings
    <3> QED
      BY <3>1, <3>2 DEF CountersShown, Done, Vulnerable, Prepared, Exposed, Severities, OfSeverity
  <2>3. CASE Next /\ ~Fuse /\ ~Ended
    <3>1. ~Done'
      <4>1. CASE AnalyzePcapIngest
        BY <4>1 DEF AnalyzePcapIngest, Ingest, ReadPcapRaises, SkipFrame, KnownFlow, OpenFlow, Overflow,
                    EndOfCapture, AtFrame, AtPacket, Consumed, Done
      <4>2. CASE BuildNext \/ AllBuilt \/ AnalyseSession \/ AllAnalysed \/ CrossSession \/ BindEvidence
        BY <4>2 DEF BuildNext, AllBuilt, AnalyseSession, AllAnalysed, CrossSession, BindEvidence, Done
      <4>3. CASE Unavailable \/ Load \/ Predict \/ PredictRaises \/ AllPredicted
        BY <4>3 DEF Unavailable, Load, Predict, PredictRaises, AllPredicted, Done
      <4> QED
        BY <2>3, <4>1, <4>2, <4>3 DEF Next
    <3> QED
      BY <3>1 DEF CountersShown
  <2> QED
    BY <2>1, <2>2, <2>3
<1> QED
  BY <1>1, <1>2, PTL DEF Spec

-----------------------------------------------------------------------------
(* Every advisory is that of one session, and every vulnerable one has it. *)
LEMMA AdvisoriesCounted ==
    ASSUME JudgedInv, SessionsKept, Done
    PROVE  /\ Cardinality(AllAdvisories) = Cardinality(Vulnerable)
           /\ Cardinality(Vulnerable) + Cardinality(Prepared) <= Len(sessions)
<1>1. IsFiniteSet(DOMAIN sessions) /\ DOMAIN sessions = 1 .. Len(sessions) /\ Len(sessions) \in Nat
  BY JudgedScores
<1>2. /\ DOMAIN analysed = DOMAIN sessions
      /\ \A i \in DOMAIN sessions : analysed[i].advisories = Advisories(sessions[i])
  <2>1. DOMAIN analysed = DOMAIN sessions
    BY Records DEF JudgedInv, Done
  <2> QED
    BY <2>1, WhatWasJudged
<1>3. /\ Vulnerable \subseteq DOMAIN sessions /\ Prepared \subseteq DOMAIN sessions
      /\ IsFiniteSet(Vulnerable) /\ IsFiniteSet(Prepared)
  <2>1. Vulnerable \subseteq DOMAIN sessions /\ Prepared \subseteq DOMAIN sessions
    BY DEF Vulnerable, Prepared
  <2> QED
    BY <1>1, <2>1, FS_Subset
<1>4. Vulnerable \cap Prepared = {}
  BY DEF Vulnerable, Prepared, QuantumVulnerable
<1>5. Cardinality(Vulnerable) + Cardinality(Prepared) <= Len(sessions)
  <2> DEFINE both == Vulnerable \cup Prepared
  <2>1. Cardinality(both) = Cardinality(Vulnerable) + Cardinality(Prepared) - Cardinality(Vulnerable \cap Prepared)
    BY <1>3, FS_Union
  <2>2. Cardinality(Vulnerable \cap Prepared) = 0
    BY <1>4, FS_EmptySet
  <2>3. both \subseteq DOMAIN sessions
    BY <1>3
  <2>4. Cardinality(both) <= Cardinality(DOMAIN sessions)
    BY <1>1, <2>3, FS_Subset
  <2>5. Cardinality(DOMAIN sessions) = Len(sessions)
    <3>1. \A n \in Nat : Cardinality(1 .. n) = n
      <4>1. \A n \in Nat : 1 \in Int /\ n \in Int /\ (1 > n <=> n = 0) /\ n - 1 + 1 = n
        OBVIOUS
      <4> QED
        BY <4>1, FS_Interval
    <3> QED
      BY <1>1, <3>1
  <2>6. Cardinality(Vulnerable) \in Nat /\ Cardinality(Prepared) \in Nat
    BY <1>3, FS_CardinalityType
  <2> QED
    BY <1>1, <2>1, <2>2, <2>4, <2>5, <2>6
<1>6. Cardinality(AllAdvisories) = Cardinality(Vulnerable)
  <2> DEFINE of == [i \in Vulnerable |-> [session |-> i, rule |-> "PQC-001"]]
  <2>1. AllAdvisories = {[session |-> i, rule |-> "PQC-001"] : i \in Vulnerable}
    <3>1. \A i \in DOMAIN sessions :
             {[session |-> i, rule |-> f.rule] : f \in analysed[i].advisories}
               = IF i \in Vulnerable THEN {[session |-> i, rule |-> "PQC-001"]} ELSE {}
      <4> SUFFICES ASSUME NEW i \in DOMAIN sessions
                   PROVE  {[session |-> i, rule |-> f.rule] : f \in analysed[i].advisories}
                            = IF i \in Vulnerable THEN {[session |-> i, rule |-> "PQC-001"]} ELSE {}
        OBVIOUS
      <4>1. CASE i \in Vulnerable
        <5>1. analysed[i].advisories = {Finding("PQC-001", "session")}
          BY <1>2, <4>1 DEF Vulnerable, Advisories, When
        <5> QED
          BY <4>1, <5>1 DEF Finding
      <4>2. CASE i \notin Vulnerable
        <5>1. analysed[i].advisories = {}
          BY <1>2, <4>2 DEF Vulnerable, Advisories, When
        <5> QED
          BY <4>2, <5>1
      <4> QED
        BY <4>1, <4>2
    <3> QED
      BY <1>2, <1>3, <3>1 DEF AllAdvisories
  <2>2. of \in Bijection(Vulnerable, AllAdvisories)
    <3>1. of \in [Vulnerable -> AllAdvisories]
      BY <2>1
    <3>2. \A i, j \in Vulnerable : of[i] = of[j] => i = j
      <4>1. \A i \in Vulnerable : of[i].session = i
        OBVIOUS
      <4> HIDE DEF of
      <4> QED
        BY <4>1
    <3>3. \A a \in AllAdvisories : \E i \in Vulnerable : of[i] = a
      BY <2>1
    <3> HIDE DEF of
    <3> QED
      BY <3>1, <3>2, <3>3 DEF Bijection, Injection, IsInjective, Surjection
  <2>3. ExistsBijection(Vulnerable, AllAdvisories)
    BY <2>2 DEF ExistsBijection
  <2> QED
    BY <1>3, <2>3, FS_Bijection
<1> QED
  BY <1>5, <1>6

-----------------------------------------------------------------------------
(* A critical finding weighs at least 30 points ...                        *)
LEMMA CriticalWeighs ==
    ASSUME NEW f \in Possible, SeverityOf(f.rule) = "critical"
    PROVE  30 <= WeightOf(f.rule)
<1>1. PICK i \in 1 .. 22, j \in 1 .. 8 : f = Finding(RuleList[i], AboutList[j])
  BY DEF Possible, Place, FindingAt
<1>2. f.rule \in SessionRules
  BY <1>1 DEF Finding, SessionRules
<1>3. f.rule \in {"PRT-001", "CFG-003", "CFG-004", "TLS-001", "CPR-001", "CPR-002", "CRT-001",
                  "CRT-005", "CRE-001"}
  <2> DEFINE r == f.rule
  <2>1. SessionRules =
          {"PRT-001", "CFG-003", "CFG-004", "TLS-001", "CPR-001", "CPR-002", "CRT-001", "CRT-005", "CRE-001"}
          \cup {"CFG-005", "CPR-004", "CFG-007", "ALR-001", "CRT-002", "CRT-004", "CRT-006", "CRT-007"}
          \cup {"CPR-003", "PFS-001", "CFG-006", "CRT-008"} \cup {"CRT-003"}
    BY DEF SessionRules, RuleList
  <2> HIDE DEF r
  <2> SUFFICES ASSUME r \in SessionRules, SeverityOf(r) = "critical",
                      r \notin {"PRT-001", "CFG-003", "CFG-004", "TLS-001", "CPR-001", "CPR-002", "CRT-001",
                                "CRT-005", "CRE-001"}
               PROVE  FALSE
    BY <1>2 DEF r
  <2> QED
    BY <2>1 DEF SeverityOf
<1> DEFINE rid == f.rule
<1> HIDE DEF rid
<1>4. WeightOf(rid) \in {30, 35, 40}
  <2>1. rid \in {"PRT-001", "CFG-003", "CPR-001", "CRE-001"} \cup {"CFG-004", "TLS-001", "CPR-002"}
                 \cup {"CRT-001", "CRT-005"}
    BY <1>3 DEF rid
  <2> QED
    BY <2>1 DEF WeightOf
<1> QED
  BY <1>4 DEF rid

(* ... and takes the session to 70 or below.                               *)
LEMMA CriticalLowers ==
    ASSUME NEW F \in SUBSET Possible, NEW f \in F, SeverityOf(f.rule) = "critical"
    PROVE  ScoreSession(F) <= 70
<1> DEFINE w == [g \in F |-> WeightOf(g.rule)]
<1>1. IsFiniteSet(F)
  BY PossibleIsFinite, FS_Subset
<1>2. w \in [F -> Int] /\ (\A g \in F : 0 <= w[g]) /\ 30 <= w[f]
  BY Weights, CriticalWeighs
<1>3. ScoreSession(F) = Larger(0, 100 - SumFunction(w))
  BY DEF ScoreSession, SumOver
<1> HIDE DEF w
<1>4. SumFunction(w) \in Int /\ w[f] <= SumFunction(w) /\ w[f] \in Int
  BY <1>1, <1>2, SumIsNumber, TermOfSum
<1> QED
  BY <1>2, <1>3, <1>4 DEF Larger

(* What is found about a host is not critical.                             *)
LEMMA HostFindingsAreMild ==
    ASSUME SessionInv, Done, NEW h \in host_findings
    PROVE  SeverityOf(h.rule) # "critical" /\ h.rule \in {"XSE-001", "XSE-002"}
<1>1. h \in CrossSessionFindings(sessions, Certs)
  BY DEF SessionInv, Done
<1>2. h.rule \in {"XSE-001", "XSE-002"}
  BY <1>1 DEF CrossSessionFindings
<1> QED
  BY <1>2 DEF SeverityOf

(* Where a finding of the list comes from.                                 *)
LEMMA FindingListed ==
    ASSUME NEW a
    PROVE  a \in AllFindings <=>
              \/ \E i \in DOMAIN analysed : \E f \in analysed[i].findings :
                    a = [session |-> i, rule |-> f.rule, about |-> <<f.about>>]
              \/ \E h \in host_findings : a = [session |-> NoSessionId, rule |-> h.rule, about |-> h.host]
<1> DEFINE hosts == {[session |-> NoSessionId, rule |-> h.rule, about |-> h.host] : h \in host_findings}
<1>1. a \in AllFindings <=>
         \/ \E i \in DOMAIN analysed :
               a \in {[session |-> i, rule |-> f.rule, about |-> <<f.about>>] : f \in analysed[i].findings}
         \/ a \in hosts
  BY Zenon DEF AllFindings
<1>2. \A i : a \in {[session |-> i, rule |-> f.rule, about |-> <<f.about>>] : f \in analysed[i].findings}
             <=> \E f \in analysed[i].findings : a = [session |-> i, rule |-> f.rule, about |-> <<f.about>>]
  OBVIOUS
<1>3. a \in hosts <=> \E h \in host_findings : a = [session |-> NoSessionId, rule |-> h.rule, about |-> h.host]
  OBVIOUS
<1> QED
  BY <1>1, <1>2, <1>3, Zenon

(* A call for immediate remediation comes with a session of C or worse.    *)
LEMMA ImmediateHasASession ==
    ASSUME EvidenceInv, JudgedInv, SessionInv, Done
    PROVE  Summary.immediate <=>
              \E i \in DOMAIN sessions :
                 \E f \in analysed[i].findings : SeverityOf(f.rule) = "critical"
                                                /\ result.session_scores[i] \subseteq 0 .. 74
<1> DEFINE D == DOMAIN sessions
           Critical == \E f \in AllFindings : SeverityOf(f.rule) = "critical"
<1>1. SessionsKept
  BY EvidenceParts
<1>2. /\ DOMAIN analysed = D
      /\ \A i \in D : analysed[i].findings
                         = Findings(sessions[i], CertsFor(sessions[i]), IssuesFor(sessions[i]))
  <2>1. DOMAIN analysed = D
    BY <1>1, Records DEF JudgedInv, Done
  <2> QED
    BY <1>1, <2>1, WhatWasJudged
<1>3. \A i \in D : analysed[i].findings \in SUBSET Possible
  <2>1. \A i \in D : sessions[i].cleartext_creds \subseteq CredentialKinds
    BY DEF JudgedInv
  <2> QED
    BY <1>2, <2>1, FindingsArePossible
<1>4. Summary.immediate <=> Critical
  BY DEF Summary
<1>5. Critical <=> \E i \in D : \E f \in analysed[i].findings : SeverityOf(f.rule) = "critical"
  <2>1. ASSUME NEW a \in AllFindings, SeverityOf(a.rule) = "critical"
        PROVE  \E i \in D : \E f \in analysed[i].findings : SeverityOf(f.rule) = "critical"
    <3>1. CASE \E h \in host_findings : a = [session |-> NoSessionId, rule |-> h.rule, about |-> h.host]
      BY <2>1, <3>1, HostFindingsAreMild
    <3>2. CASE \E i \in DOMAIN analysed : \E f \in analysed[i].findings :
                  a = [session |-> i, rule |-> f.rule, about |-> <<f.about>>]
      BY <1>2, <2>1, <3>2
    <3> QED
      BY <2>1, <3>1, <3>2, FindingListed
  <2>2. ASSUME NEW i \in D, NEW f \in analysed[i].findings, SeverityOf(f.rule) = "critical"
        PROVE  Critical
    <3> DEFINE a == [session |-> i, rule |-> f.rule, about |-> <<f.about>>]
    <3>1. a \in AllFindings
      BY <1>2, FindingListed
    <3>2. a.rule = f.rule
      OBVIOUS
    <3> QED
      BY <2>2, <3>1, <3>2
  <2> QED
    BY <2>1, <2>2
<1>6. ASSUME NEW i \in D, NEW f \in analysed[i].findings, SeverityOf(f.rule) = "critical"
      PROVE  result.session_scores[i] \subseteq 0 .. 74
  <2>1. /\ RuleScores \in [D -> Scores]
        /\ verdicts \in [DOMAIN verdicts -> Verdicts] /\ (MlAvailable => DOMAIN verdicts = D)
        /\ result.session_scores = FusedScores
        /\ FusedScores = [j \in D |->
              FuseSession(IF MlAvailable THEN verdicts[j] ELSE NoVerdict, RuleScores[j], MlAvailable)]
    BY <1>1, JudgedScores DEF ResultShown
  <2> DEFINE v == IF MlAvailable THEN verdicts[i] ELSE NoVerdict
  <2>2. result.session_scores[i] = FuseSession(v, RuleScores[i], MlAvailable)
    BY <2>1
  <2>3. v \in Verdicts
    <3>1. NoVerdict \in Verdicts
      BY DEF NoVerdict, Verdicts
    <3> QED
      BY <2>1, <3>1
  <2>4. RuleScores[i] \in Scores /\ RuleScores[i] = ScoreSession(analysed[i].findings)
    BY <1>2, <2>1 DEF RuleScores
  <2>5. RuleScores[i] <= 70
    BY <1>3, <1>6, <2>4, CriticalLowers
  <2> HIDE DEF v
  <2>6. \A k \in FuseSession(v, RuleScores[i], MlAvailable) : k \in Scores /\ k <= RuleScores[i]
    BY <2>3, <2>4, FusedSession
  <2> SUFFICES ASSUME NEW k \in FuseSession(v, RuleScores[i], MlAvailable) PROVE k \in 0 .. 74
    BY <2>2
  <2> QED
    BY <2>4, <2>5, <2>6, ScoreIs
<1> QED
  BY <1>4, <1>5, <1>6

(* The title of the PDF goes with the grade.                               *)
LEMMA TitlesGoWithGrades ==
    ASSUME NEW s \in Scores
    PROVE  VerdictTitle(s) \in TitlesOf[GradeOf(s)]
<1>1. s \in Int /\ 0 <= s /\ s <= 100
  BY ScoreIs
<1>2. /\ TitlesOf["A"] = {"STRONG POSTURE"} /\ TitlesOf["B"] = {"STRONG POSTURE", "MODERATE RISK"}
      /\ TitlesOf["C"] = {"MODERATE RISK", "ELEVATED RISK"} /\ TitlesOf["D"] = {"ELEVATED RISK", "CRITICAL RISK"}
      /\ TitlesOf["F"] = {"CRITICAL RISK"}
  BY DEF TitlesOf
<1>3. CASE s >= 90
  <2>1. GradeOf(s) = "A"
    BY <1>1, <1>3 DEF GradeOf
  <2>2. VerdictTitle(s) \in {"STRONG POSTURE"}
    BY <1>1, <1>3 DEF VerdictTitle
  <2> QED
    BY <1>2, <2>1, <2>2
<1>4. CASE s >= 75 /\ s < 90
  <2>1. GradeOf(s) = "B"
    BY <1>1, <1>4 DEF GradeOf
  <2>2. VerdictTitle(s) \in {"STRONG POSTURE", "MODERATE RISK"}
    BY <1>1, <1>4 DEF VerdictTitle
  <2> QED
    BY <1>2, <2>1, <2>2
<1>5. CASE s >= 60 /\ s < 75
  <2>1. GradeOf(s) = "C"
    BY <1>1, <1>5 DEF GradeOf
  <2>2. VerdictTitle(s) \in {"MODERATE RISK", "ELEVATED RISK"}
    BY <1>1, <1>5 DEF VerdictTitle
  <2> QED
    BY <1>2, <2>1, <2>2
<1>6. CASE s >= 40 /\ s < 60
  <2>1. GradeOf(s) = "D"
    BY <1>1, <1>6 DEF GradeOf
  <2>2. VerdictTitle(s) \in {"ELEVATED RISK", "CRITICAL RISK"}
    BY <1>1, <1>6 DEF VerdictTitle
  <2> QED
    BY <1>2, <2>1, <2>2
<1>7. CASE s < 40
  <2>1. GradeOf(s) = "F"
    BY <1>1, <1>7 DEF GradeOf
  <2>2. VerdictTitle(s) \in {"CRITICAL RISK"}
    BY <1>1, <1>7 DEF VerdictTitle
  <2> QED
    BY <1>2, <2>1, <2>2
<1> QED
  BY <1>1, <1>3, <1>4, <1>5, <1>6, <1>7

-----------------------------------------------------------------------------
(* There are finitely many findings about hosts.                           *)
LEMMA FindingsOfHostsAreFinite ==
    ASSUME JudgedInv, SessionsKept, SessionInv, Done
    PROVE  IsFiniteSet(host_findings)
<1> DEFINE H == HostsOf(sessions)
           pairs == {"XSE-001", "XSE-002"} \X H
           at == [p \in pairs |-> [rule |-> p[1], host |-> p[2]]]
           all == {at[p] : p \in pairs}
           hostOf == [i \in DOMAIN sessions |-> HostOf(sessions[i])]
<1>1. IsFiniteSet(DOMAIN sessions)
  BY JudgedScores
<1>2. IsFiniteSet(H)
  <2>1. hostOf \in Surjection(DOMAIN sessions, H)
    BY DEF Surjection, HostsOf
  <2> QED
    BY <1>1, <2>1, FS_Surjection
<1>3. IsFiniteSet({"XSE-001", "XSE-002"})
  <2>1. IsFiniteSet({"XSE-001"})
    BY FS_Singleton
  <2>2. {"XSE-001", "XSE-002"} = {"XSE-001"} \cup {"XSE-002"}
    OBVIOUS
  <2> QED
    BY <2>1, <2>2, FS_AddElement, Zenon
<1>4. IsFiniteSet(pairs)
  <2> HIDE DEF H
  <2> QED
    BY <1>2, <1>3, FS_Product, Zenon
<1>5. IsFiniteSet(all)
  <2>1. at \in Surjection(pairs, all)
    BY DEF Surjection
  <2> QED
    BY <1>4, <2>1, FS_Surjection
<1>6. host_findings \subseteq all
  <2> SUFFICES ASSUME NEW h \in host_findings PROVE h \in all
    OBVIOUS
  <2>1. h \in CrossSessionFindings(sessions, Certs)
    BY DEF SessionInv, Done
  <2>2. PICK x \in H : h = [rule |-> "XSE-001", host |-> x] \/ h = [rule |-> "XSE-002", host |-> x]
    BY <2>1 DEF CrossSessionFindings
  <2> HIDE DEF H
  <2>3. CASE h = [rule |-> "XSE-001", host |-> x]
    <3>1. <<"XSE-001", x>> \in pairs /\ at[<<"XSE-001", x>>] = h
      BY <2>3
    <3> QED
      BY <3>1
  <2>4. CASE h = [rule |-> "XSE-002", host |-> x]
    <3>1. <<"XSE-002", x>> \in pairs /\ at[<<"XSE-002", x>>] = h
      BY <2>4
    <3> QED
      BY <3>1
  <2> QED
    BY <2>2, <2>3, <2>4
<1> QED
  BY <1>5, <1>6, FS_Subset

(* A report lists finitely many findings, each at its session or at none.  *)
LEMMA FindingsAreFinite ==
    ASSUME JudgedInv, SessionsKept, SessionInv, Done
    PROVE  IsFiniteSet(AllFindings) /\ \A a \in AllFindings : a.session \in 0 .. Len(sessions)
<1> DEFINE D == DOMAIN sessions
           pairs == D \X Possible
           at == [p \in pairs |-> [session |-> p[1], rule |-> p[2].rule, about |-> <<p[2].about>>]]
           own == {at[p] : p \in pairs}
           host == [h \in host_findings |-> [session |-> NoSessionId, rule |-> h.rule, about |-> h.host]]
           hosts == {host[h] : h \in host_findings}
<1>1. IsFiniteSet(D) /\ D = 1 .. Len(sessions) /\ Len(sessions) \in Nat
  BY JudgedScores
<1>2. DOMAIN analysed = D
  BY Records DEF JudgedInv, Done
<1>3. \A i \in D : analysed[i].findings \subseteq Possible
  <2>1. \A i \in D : sessions[i].cleartext_creds \subseteq CredentialKinds
    BY DEF JudgedInv
  <2>2. \A i \in D : analysed[i].findings = Findings(sessions[i], CertsFor(sessions[i]), IssuesFor(sessions[i]))
    BY WhatWasJudged
  <2> QED
    BY <2>1, <2>2, FindingsArePossible
<1>4. IsFiniteSet(own)
  <2>1. at \in Surjection(pairs, own)
    BY DEF Surjection
  <2>2. IsFiniteSet(pairs)
    <3> HIDE DEF D
    <3> QED
      BY <1>1, PossibleIsFinite, FS_Product, Zenon
  <2> QED
    BY <2>1, <2>2, FS_Surjection
<1>5. IsFiniteSet(hosts)
  <2>1. host \in Surjection(host_findings, hosts)
    BY DEF Surjection
  <2> QED
    BY <2>1, FindingsOfHostsAreFinite, FS_Surjection
<1>6. ASSUME NEW a \in AllFindings
      PROVE  a \in own \cup hosts /\ a.session \in 0 .. Len(sessions)
  <2>1. CASE \E i \in DOMAIN analysed : \E f \in analysed[i].findings :
                a = [session |-> i, rule |-> f.rule, about |-> <<f.about>>]
    <3>1. PICK i \in D, f \in Possible : a = [session |-> i, rule |-> f.rule, about |-> <<f.about>>]
      BY <1>2, <1>3, <2>1
    <3>2. <<i, f>> \in pairs /\ at[<<i, f>>] = a
      BY <3>1
    <3>3. a.session = i
      BY <3>1
    <3>4. a \in own
      BY <3>2
    <3>5. i \in 0 .. Len(sessions)
      BY <1>1
    <3> QED
      BY <3>3, <3>4, <3>5
  <2>2. CASE \E h \in host_findings : a = [session |-> NoSessionId, rule |-> h.rule, about |-> h.host]
    <3>1. PICK h \in host_findings : a = [session |-> NoSessionId, rule |-> h.rule, about |-> h.host]
      BY <2>2
    <3>2. a = host[h]
      BY <3>1
    <3>3. a.session = 0
      BY <3>1 DEF NoSessionId
    <3>4. 0 \in 0 .. Len(sessions)
      BY <1>1
    <3> QED
      BY <3>2, <3>3, <3>4
  <2> QED
    BY <2>1, <2>2, FindingListed, Zenon
<1>7. IsFiniteSet(own \cup hosts)
  BY <1>4, <1>5, FS_Union
<1>8. AllFindings \subseteq own \cup hosts
  BY <1>6
<1> QED
  BY <1>6, <1>7, <1>8, FS_Subset, Zenon

(* The table by rule and the lists by session count the same findings.     *)
LEMMA CountedTwoWays ==
    ASSUME JudgedInv, SessionsKept, SessionInv, Done
    PROVE  SumOver(DOMAIN ComplianceTable, LAMBDA rid : ComplianceTable[rid])
             = SumOver(0 .. Len(sessions), LAMBDA i : Cardinality(GetSession(i).findings))
<1> DEFINE A == AllFindings
           ids == 0 .. Len(sessions)
           rules == {f.rule : f \in A}
           ruleOf == [f \in A |-> f.rule]
           placeOf == [f \in A |-> f.session]
           byRule == [rid \in rules |-> Cardinality({f \in A : ruleOf[f] = rid})]
           bySession == [i \in ids |-> Cardinality({f \in A : placeOf[f] = i})]
<1>1. IsFiniteSet(A) /\ \A f \in A : f.session \in ids
  BY FindingsAreFinite
<1>2. SumFunction(byRule) = Cardinality(A)
  <2>1. IsFiniteSet(rules)
    <3>1. ruleOf \in Surjection(A, rules)
      BY DEF Surjection
    <3> QED
      BY <1>1, <3>1, FS_Surjection
  <2>2. DOMAIN ruleOf = A /\ \A f \in A : ruleOf[f] \in rules
    OBVIOUS
  <2> HIDE DEF A, rules, ruleOf
  <2> QED
    BY <1>1, <2>1, <2>2, EachCountedOnce
<1>3. SumFunction(bySession) = Cardinality(A)
  <2>1. IsFiniteSet(ids)
    <3>1. Len(sessions) \in Nat
      BY JudgedScores
    <3>2. 0 \in Int /\ Len(sessions) \in Int
      BY <3>1
    <3> QED
      BY <3>2, FS_Interval
  <2>2. DOMAIN placeOf = A /\ \A f \in A : placeOf[f] \in ids
    BY <1>1
  <2> HIDE DEF A, ids, placeOf
  <2> QED
    BY <1>1, <2>1, <2>2, EachCountedOnce
<1>4. SumOver(DOMAIN ComplianceTable, LAMBDA rid : ComplianceTable[rid]) = SumFunction(byRule)
  <2>1. /\ DOMAIN ComplianceTable = rules
        /\ \A rid \in rules : ComplianceTable[rid] = Cardinality({f \in A : f.rule = rid})
    BY DEF ComplianceTable
  <2>2. [rid \in rules |-> ComplianceTable[rid]] = byRule
    <3>1. \A rid \in rules : {f \in A : ruleOf[f] = rid} = {f \in A : f.rule = rid}
      OBVIOUS
    <3> HIDE DEF A, rules, ruleOf
    <3> QED
      BY <2>1, <3>1
  <2> HIDE DEF rules, byRule
  <2> QED
    BY <2>1, <2>2 DEF SumOver
<1>5. SumOver(ids, LAMBDA i : Cardinality(GetSession(i).findings)) = SumFunction(bySession)
  <2>1. \A i \in ids : GetSession(i).findings = {f \in A : placeOf[f] = i}
    BY DEF GetSession
  <2>2. [i \in ids |-> Cardinality(GetSession(i).findings)] = bySession
    <3> HIDE DEF A, ids, placeOf
    <3> QED
      BY <2>1
  <2> HIDE DEF ids, bySession
  <2> QED
    BY <2>2 DEF SumOver
<1> QED
  BY <1>2, <1>3, <1>4, <1>5

-----------------------------------------------------------------------------
(* The features a model reads, the counters of the posture and the lists   *)
(* of the report tell of each session what its findings do.                *)
THEOREM ReportAgreesAlways == Spec => []ReportAgrees
<1>1. EvidenceInv /\ JudgedInv /\ SessionInv /\ CountersShown /\ capture \in Captures => ReportAgrees
  <2> SUFFICES ASSUME EvidenceInv, JudgedInv, SessionInv, CountersShown, capture \in Captures, Done
               PROVE  ReportAgrees
    BY DEF ReportAgrees
  <2>1. SessionsKept
    BY EvidenceParts
  <2>2. /\ result.quantum_vulnerable_sessions = Cardinality(Vulnerable)
        /\ result.pqc_ready_sessions = Cardinality(Prepared)
        /\ result.credential_exposure = Cardinality(Exposed)
        /\ result.severity_counts = [sev \in Severities |-> Cardinality(OfSeverity(sev))]
    BY DEF CountersShown
  <2>3. \A i \in DOMAIN sessions : FeaturesAgree(i)
    BY FeaturesOfSession
  <2>4. /\ result.quantum_vulnerable_sessions = Cardinality(AllAdvisories)
        /\ result.quantum_vulnerable_sessions + result.pqc_ready_sessions <= Len(sessions)
    BY <2>1, <2>2, AdvisoriesCounted
  <2>5. result.credential_exposure = Cardinality({i \in DOMAIN sessions : "CRE-001" \in RulesOf(i)})
    <3>1. \A i \in DOMAIN sessions : "CRE-001" \in RulesOf(i) <=> sessions[i].cleartext_creds # {}
      BY <2>1, FiredRules, Zenon
    <3>2. Exposed = {i \in DOMAIN sessions : "CRE-001" \in RulesOf(i)}
      BY <3>1 DEF Exposed
    <3> QED
      BY <2>2, <3>2
  <2>6. /\ DOMAIN result.severity_counts = DOMAIN GroupedFindings
        /\ \A sev \in DOMAIN GroupedFindings :
              result.severity_counts[sev] = Cardinality(GroupedFindings[sev])
    BY <2>2 DEF GroupedFindings, Severities, OfSeverity
  <2>7. VerdictTitle(result.score) \in TitlesOf[result.grade]
    <3>1. result.score \in Scores /\ result.grade = GradeOf(result.score)
      BY <2>1, ScoresShown
    <3> QED
      BY <3>1, TitlesGoWithGrades
  <2>8. Summary.immediate <=> \E i \in DOMAIN sessions :
           \E f \in analysed[i].findings : SeverityOf(f.rule) = "critical"
                                          /\ result.session_scores[i] \subseteq 0 .. 74
    BY ImmediateHasASession
  <2>9. SumOver(DOMAIN ComplianceTable, LAMBDA rid : ComplianceTable[rid])
          = SumOver(0 .. Len(sessions), LAMBDA i : Cardinality(GetSession(i).findings))
    BY <2>1, CountedTwoWays
  <2> QED
    BY <2>3, <2>4, <2>5, <2>6, <2>7, <2>8, <2>9, Zenon DEF ReportAgrees, FeaturesAgree
<1> QED
  BY <1>1, EvidenceInvariant, JudgedInvariant, SessionInvariant, CountersAlways, OneCapture, PTL

-----------------------------------------------------------------------------
(* The data of one end of a conversation: packets that follow each other,  *)
(* without a gap.                                                          *)
Sized(sent, D, U) ==
    /\ D \in SUBSET Nat
    /\ \A p \in D : sent[p].seq \in Nat /\ sent[p].payload \in Seq(U) /\ Len(sent[p].payload) \in Nat \ {0}
NextSeq(p) == p.seq + Len(p.payload)
InOrder(sent, D) == \A p, q \in D : p < q => NextSeq(sent[p]) <= sent[q].seq
NoGap(sent, D) ==
    \A p, q \in D : p < q => NextSeq(sent[p]) = sent[q].seq \/ \E m \in D : p < m /\ m < q
(* A direction has the data of some packets, and no other.                 *)
SameData(s, p) == s.seq = p.seq /\ s.payload = p.payload
Carries(d, sent, P) ==
    /\ \A i \in WithData(d) : \E p \in P : SameData(d.segments[i], sent[p])
    /\ \A p \in P : \E i \in WithData(d) : SameData(d.segments[i], sent[p])

(* The places it holds are those of the packets.                           *)
LEMMA HeldIs ==
    ASSUME NEW d, NEW sent, NEW P, Carries(d, sent, P)
    PROVE  /\ HeldBy(d) = UNION {Span(sent[p]) : p \in P}
           /\ WithData(d) = {} <=> P = {}
<1>1. \A i \in WithData(d) : \E p \in P : Span(d.segments[i]) = Span(sent[p])
  BY DEF Carries, SameData, Span
<1>2. \A p \in P : \E i \in WithData(d) : Span(d.segments[i]) = Span(sent[p])
  BY DEF Carries, SameData, Span
<1>3. WithData(d) = {} <=> P = {}
  BY DEF Carries
<1>4. {Span(d.segments[i]) : i \in WithData(d)} = {Span(sent[p]) : p \in P}
  BY <1>1, <1>2
<1> QED
  BY <1>3, <1>4 DEF HeldBy

(* No place is in two packets.                                             *)
LEMMA OwnPlaces ==
    ASSUME NEW sent, NEW D, NEW U, Sized(sent, D, U), InOrder(sent, D),
           NEW p \in D, NEW q \in D, NEW n \in Span(sent[p]), n \in Span(sent[q])
    PROVE  p = q
<1>1. p \in Nat /\ q \in Nat
  BY DEF Sized
<1>2. /\ sent[p].seq \in Nat /\ Len(sent[p].payload) \in Nat \ {0}
      /\ sent[q].seq \in Nat /\ Len(sent[q].payload) \in Nat \ {0}
  BY DEF Sized
<1>3. PICK x \in Nat, y \in Nat, v \in Nat, w \in Nat :
         x = sent[p].seq /\ y = Len(sent[p].payload) /\ v = sent[q].seq /\ w = Len(sent[q].payload)
  BY <1>2
<1>4. n \in x .. x + y - 1 /\ n \in v .. v + w - 1
  BY <1>3 DEF Span
<1>5. ~ (x + y <= v) /\ ~ (v + w <= x)
  BY <1>4
<1>6. ~ (p < q) /\ ~ (q < p)
  BY <1>3, <1>5 DEF InOrder, NextSeq
<1> QED
  BY <1>1, <1>6

(* What stands at a place is a unit of the one packet there.               *)
LEMMA UnitIs ==
    ASSUME NEW U, NEW d, Placed(d, U), NEW sent, NEW D, Sized(sent, D, U), InOrder(sent, D),
           NEW P \in SUBSET D, Carries(d, sent, P), NEW p \in P, NEW n \in Span(sent[p])
    PROVE  Unit(d, n) = sent[p].payload[n - sent[p].seq + 1]
<1>1. n \in HeldBy(d)
  BY HeldIs
<1>2. PICK i \in WithData(d) :
         /\ Covers(d.segments[i], n)
         /\ Unit(d, n) = d.segments[i].payload[n - d.segments[i].seq + 1]
  BY <1>1, UnitUsed
<1>3. PICK q \in P : SameData(d.segments[i], sent[q])
  BY DEF Carries
<1>4. n \in Int /\ sent[q].seq \in Nat /\ Len(sent[q].payload) \in Nat
  <2>1. sent[p].seq \in Nat /\ Len(sent[p].payload) \in Nat
    BY DEF Sized
  <2> QED
    BY <2>1 DEF Sized, Span
<1>5. n \in Span(sent[q])
  BY <1>2, <1>3, <1>4 DEF Covers, SameData, Span
<1>6. p = q
  BY <1>5, OwnPlaces
<1> QED
  BY <1>2, <1>3, <1>6 DEF SameData

(* Where reassembly starts and ends is told by the places alone.           *)
BoundsIn(held) ==
    LET lo == CHOOSE n \in held : \A m \in held : n <= m
        hi == CHOOSE n \in {m + 1 : m \in held} : n \notin held /\ lo .. n - 1 \subseteq held
    IN  <<lo, hi>>
(* They are what Bounds takes of the direction.                            *)
LEMMA BoundsByPlaces ==
    ASSUME NEW d
    PROVE  Bounds(d) = BoundsIn(HeldBy(d))
BY DEF Bounds, BoundsIn, HeldBy, Span

(* Two directions with the same data are read as the same stream.          *)
LEMMA SameStream ==
    ASSUME NEW U, NEW sent, NEW D, Sized(sent, D, U), InOrder(sent, D), NEW P \in SUBSET D,
           NEW d, Placed(d, U), Carries(d, sent, P), NEW e, Placed(e, U), Carries(e, sent, P)
    PROVE  Reassemble(d) = Reassemble(e)
<1>1. HeldBy(d) = HeldBy(e) /\ (WithData(d) = {} <=> P = {}) /\ (WithData(e) = {} <=> P = {})
  BY HeldIs
<1>2. Bounds(d) = Bounds(e)
  BY <1>1, BoundsByPlaces
<1>3. CASE P = {}
  BY <1>1, <1>3 DEF Reassemble
<1>4. CASE P # {}
  <2> DEFINE lo == Bounds(d)[1]
             hi == Bounds(d)[2]
  <2>1. lo \in Nat /\ hi \in Nat /\ lo .. hi - 1 \subseteq HeldBy(d)
    BY <1>1, <1>4, BoundsHeld
  <2>2. /\ Reassemble(d) = [k \in 1 .. hi - lo |-> Unit(d, lo + k - 1)]
        /\ Reassemble(e) = [k \in 1 .. hi - lo |-> Unit(e, lo + k - 1)]
    BY <1>1, <1>2, <1>4 DEF Reassemble
  <2> HIDE DEF lo, hi
  <2>3. ASSUME NEW k \in 1 .. hi - lo
        PROVE  Unit(d, lo + k - 1) = Unit(e, lo + k - 1)
    <3>1. lo + k - 1 \in HeldBy(d)
      BY <2>1
    <3>2. PICK p \in P : lo + k - 1 \in Span(sent[p])
      BY <3>1, HeldIs
    <3> DEFINE m == lo + k - 1
    <3>3. m \in Span(sent[p])
      BY <3>2
    <3> HIDE DEF m
    <3>4. Unit(d, m) = sent[p].payload[m - sent[p].seq + 1] /\ Unit(e, m) = sent[p].payload[m - sent[p].seq + 1]
      BY <3>3, UnitIs
    <3> QED
      BY <3>4 DEF m
  <2> QED
    BY <2>2, <2>3
<1> QED
  BY <1>3, <1>4

(* Packet p is the first of the data.                                      *)
Leads(p, D) == \A q \in D : p <= q
(* A stream begins with the first packet.                                  *)
LEMMA BeginsWithFirst ==
    ASSUME NEW U, NEW sent, NEW D, Sized(sent, D, U), InOrder(sent, D), NEW P \in SUBSET D,
           NEW d, Placed(d, U), Carries(d, sent, P), NEW p \in P, Leads(p, D)
    PROVE  /\ Reassemble(d) # <<>> /\ Reassemble(d)[1] = sent[p].payload[1]
           /\ Bounds(d)[1] = sent[p].seq
<1> DEFINE lo == Bounds(d)[1]
           hi == Bounds(d)[2]
<1>1. WithData(d) # {}
  BY HeldIs
<1>2. lo \in Nat /\ hi \in Nat /\ lo < hi /\ lo \in HeldBy(d) /\ \A m \in HeldBy(d) : lo <= m
  BY <1>1, BoundsHeld
<1>3. Reassemble(d) = [k \in 1 .. hi - lo |-> Unit(d, lo + k - 1)]
  BY <1>1 DEF Reassemble
<1> HIDE DEF lo, hi
<1>4. sent[p].seq \in Nat /\ Len(sent[p].payload) \in Nat \ {0} /\ sent[p].seq \in Span(sent[p])
  BY DEF Sized, Span
<1>5. lo <= sent[p].seq
  BY <1>2, <1>4, HeldIs
<1>6. PICK q \in P : lo \in Span(sent[q])
  BY <1>2, HeldIs
<1>7. sent[p].seq <= lo
  <2>1. p \in Nat /\ q \in Nat /\ p <= q /\ sent[q].seq \in Nat /\ sent[q].seq <= lo
    <3>1. p <= q
      BY <1>6 DEF Leads
    <3>2. p \in Nat /\ q \in Nat /\ sent[q].seq \in Nat
      BY <1>6 DEF Sized
    <3>3. sent[q].seq <= lo
      BY <1>6 DEF Span
    <3> QED
      BY <3>1, <3>2, <3>3
  <2>2. p < q => NextSeq(sent[p]) <= sent[q].seq
    BY DEF InOrder
  <2> QED
    BY <1>2, <1>4, <2>1, <2>2 DEF NextSeq
<1>8. lo = sent[p].seq
  BY <1>2, <1>4, <1>5, <1>7
<1>9. Unit(d, sent[p].seq) = sent[p].payload[sent[p].seq - sent[p].seq + 1]
  BY <1>4, UnitIs
<1>10. sent[p].seq - sent[p].seq + 1 = 1
  BY <1>4
<1>11. 1 \in 1 .. hi - lo /\ lo + 1 - 1 = lo
  BY <1>2
<1>12. Reassemble(d)[1] = Unit(d, lo)
  BY <1>3, <1>11
<1>13. Reassemble(d) # <<>>
  BY <1>3, <1>11
<1> QED
  BY <1>8, <1>9, <1>10, <1>12, <1>13 DEF lo

(* With all of the data a direction is not incomplete, ...                 *)
LEMMA AllThere ==
    ASSUME NEW U, NEW sent, NEW D, Sized(sent, D, U), InOrder(sent, D), NoGap(sent, D),
           NEW d, Placed(d, U), Carries(d, sent, D)
    PROVE  ~Incomplete(d)
<1> SUFFICES ASSUME NEW i \in WithData(d), d.segments[i].seq > Bounds(d)[2] PROVE FALSE
  BY DEF Incomplete
<1> DEFINE lo == Bounds(d)[1]
           hi == Bounds(d)[2]
<1>1. lo \in Nat /\ hi \in Nat /\ lo < hi /\ lo .. hi - 1 \subseteq HeldBy(d) /\ hi \notin HeldBy(d)
  BY BoundsHeld
<1>2. PICK q \in D : sent[q].seq > hi
  BY DEF Carries, SameData
<1> HIDE DEF lo, hi
<1>3. hi - 1 \in HeldBy(d)
  BY <1>1
<1>4. PICK p \in D : hi - 1 \in Span(sent[p])
  BY <1>3, HeldIs
<1>5. \A m \in D : /\ m \in Nat /\ sent[m].seq \in Nat /\ Len(sent[m].payload) \in Nat \ {0}
                   /\ hi \notin Span(sent[m])
  BY <1>1, HeldIs DEF Sized
<1>6. sent[p].seq <= hi - 1 /\ NextSeq(sent[p]) = hi
  <2>1. PICK x \in Nat, y \in Nat \ {0} : x = sent[p].seq /\ y = Len(sent[p].payload)
    BY <1>5
  <2>2. hi - 1 \in x .. x + y - 1 /\ hi \notin x .. x + y - 1
    BY <1>4, <1>5, <2>1 DEF Span
  <2>3. x <= hi - 1 /\ x + y = hi
    <3>1. x \in Int /\ y \in Int /\ hi \in Int
      BY <1>1
    <3> QED
      BY <2>2, <3>1
  <2> QED
    BY <2>1, <2>3 DEF NextSeq
<1>7. p < q
  <2>1. p # q
    BY <1>1, <1>2, <1>5, <1>6
  <2>2. ~ (q < p)
    <3>1. q < p => NextSeq(sent[q]) <= sent[p].seq
      BY DEF InOrder
    <3>2. PICK x \in Nat, y \in Nat, z \in Nat : /\ x = sent[p].seq /\ y = sent[q].seq
                                                /\ z = Len(sent[q].payload)
      BY <1>5
    <3>3. NextSeq(sent[q]) = y + z
      BY <3>2 DEF NextSeq
    <3>4. hi \in Nat /\ x <= hi - 1 /\ hi < y
      BY <1>1, <1>2, <1>6, <3>2
    <3>5. \A a, b, c, h \in Nat : a <= h - 1 /\ h < b => ~ (b + c <= a)
      OBVIOUS
    <3>6. ~ (y + z <= x)
      BY <3>4, <3>5, Zenon
    <3> QED
      BY <3>1, <3>2, <3>3, <3>6, Zenon
  <2> QED
    BY <1>5, <2>1, <2>2
<1> DEFINE later == {m \in D : p < m}
<1>8. later \in SUBSET Nat /\ later # {}
  BY <1>5, <1>7
<1>9. PICK m \in later : \A n \in later : m <= n
  BY <1>8, LeastNumber
<1>10. NextSeq(sent[p]) = sent[m].seq
  <2>1. \A n \in D : ~ (p < n /\ n < m)
    BY <1>5, <1>9
  <2> QED
    BY <1>9, <2>1 DEF NoGap
<1>11. hi \in Span(sent[m])
  BY <1>1, <1>5, <1>6, <1>9, <1>10 DEF Span
<1> QED
  BY <1>5, <1>9, <1>11

(* The first and the last of the data are there.                           *)
HasEnds(P, D) == \E first, last \in P : \A q \in D : first <= q /\ q <= last
(* ... and with the first and the last but not all of it, it is.           *)
LEMMA GapShows ==
    ASSUME NEW U, NEW sent, NEW D, Sized(sent, D, U), InOrder(sent, D), NEW P \in SUBSET D,
           NEW d, Placed(d, U), Carries(d, sent, P), HasEnds(P, D), ~ (D \subseteq P)
    PROVE  Incomplete(d)
<1>0. PICK m \in D, first \in P, last \in P :
         m \notin P /\ (\A q \in D : first <= q) /\ (\A q \in D : q <= last)
  BY DEF HasEnds
<1> DEFINE lo == Bounds(d)[1]
           hi == Bounds(d)[2]
<1>1. WithData(d) # {}
  BY HeldIs
<1>2. lo \in Nat /\ hi \in Nat /\ lo < hi /\ lo .. hi - 1 \subseteq HeldBy(d)
  BY <1>1, BoundsHeld
<1>3. lo = sent[first].seq
  BY <1>0, BeginsWithFirst DEF Leads
<1> HIDE DEF lo, hi
<1>4. \A q \in D : q \in Nat /\ sent[q].seq \in Nat /\ Len(sent[q].payload) \in Nat \ {0}
  BY DEF Sized
<1>5. first < m /\ m < last
  BY <1>0, <1>4
<1>6. NextSeq(sent[first]) <= sent[m].seq /\ NextSeq(sent[m]) <= sent[last].seq
  BY <1>5 DEF InOrder
<1>7. lo < sent[m].seq /\ sent[m].seq < sent[last].seq
  <2>1. /\ sent[first].seq \in Nat /\ sent[m].seq \in Nat /\ sent[last].seq \in Nat
        /\ Len(sent[first].payload) \in Nat \ {0} /\ Len(sent[m].payload) \in Nat \ {0}
    BY <1>0, <1>4
  <2> QED
    BY <1>3, <1>6, <2>1 DEF NextSeq
<1>8. sent[m].seq \notin HeldBy(d)
  <2> SUFFICES ASSUME sent[m].seq \in HeldBy(d) PROVE FALSE
    OBVIOUS
  <2>1. PICK q \in P : sent[m].seq \in Span(sent[q])
    BY HeldIs
  <2>2. sent[m].seq \in Span(sent[m])
    BY <1>4 DEF Span
  <2>3. q = m
    BY <2>1, <2>2, OwnPlaces
  <2> QED
    BY <1>0, <2>3
<1>9. hi <= sent[m].seq
  BY <1>2, <1>4, <1>7, <1>8
<1>10. PICK i \in WithData(d) : SameData(d.segments[i], sent[last])
  BY DEF Carries
<1>11. d.segments[i].seq > hi
  BY <1>2, <1>4, <1>7, <1>9, <1>10 DEF SameData
<1> QED
  BY <1>11 DEF Incomplete, hi

-----------------------------------------------------------------------------
(* Of a stream that goes on differently the beginning is the same.         *)
SameHead(x, y) == (x = <<>> <=> y = <<>>) /\ (x # <<>> => x[1] = y[1])

(* What is looked for at a beginning is found in both or in neither.       *)
LEMMA SameBeginning ==
    ASSUME NEW x, NEW y, SameHead(x, y)
    PROVE  /\ \A kind : Begins(x, kind) <=> Begins(y, kind)
           /\ \A p : Looks(x, p) <=> Looks(y, p)
BY DEF SameHead, Begins, Looks

(* A direction with the first of the data begins as one with all of it.    *)
LEMMA BeginAlike ==
    ASSUME NEW U, NEW sent, NEW D, Sized(sent, D, U), InOrder(sent, D), NEW P \in SUBSET D,
           NEW d, Placed(d, U), Carries(d, sent, P), HasEnds(P, D),
           NEW c, Placed(c, U), Carries(c, sent, D)
    PROVE  SameHead(Reassemble(d), Reassemble(c))
<1>1. PICK first \in P : Leads(first, D)
  BY DEF HasEnds, Leads
<1>2. Reassemble(d) # <<>> /\ Reassemble(d)[1] = sent[first].payload[1]
  BY <1>1, BeginsWithFirst
<1>3. D \in SUBSET D /\ first \in D
  OBVIOUS
<1>4. Reassemble(c) # <<>> /\ Reassemble(c)[1] = sent[first].payload[1]
  BY <1>1, <1>3, BeginsWithFirst
<1> QED
  BY <1>2, <1>4 DEF SameHead

(* protocols.identify looks at the beginnings and the ports.               *)
LEMMA SameProtocol ==
    ASSUME NEW c, NEW cc, SameHead(c, cc), NEW s, NEW ss, SameHead(s, ss), NEW ports, NEW enc
    PROVE  Identify(c, s, ports, enc) = Identify(cc, ss, ports, enc)
<1>1. /\ \A p : Looks(c, p) <=> Looks(cc, p)
      /\ \A p : Looks(s, p) <=> Looks(ss, p)
  BY SameBeginning
<1>2. \A p : Score(c, s, ports, p) = Score(cc, ss, ports, p)
  BY <1>1 DEF Score
<1> DEFINE best == {p \in Protocols : \A q \in Protocols :
                        Score(c, s, ports, p) >= Score(c, s, ports, q)}
           more == {p \in Protocols : \A q \in Protocols :
                        Score(cc, ss, ports, p) >= Score(cc, ss, ports, q)}
           pick == IF \E p \in best : Looks(s, p) THEN CHOOSE p \in best : Looks(s, p)
                   ELSE FirstOf(best)
           other == IF \E p \in more : Looks(ss, p) THEN CHOOSE p \in more : Looks(ss, p)
                    ELSE FirstOf(more)
           near == {p \in Protocols : ports \cap Ports[p] # {}}
           of(p, score) == IF enc THEN IF near = {} THEN "none" ELSE FirstOf(near)
                           ELSE IF score >= 20 THEN p ELSE "none"
<1>3. best = more
  BY <1>2
<1>4. /\ Identify(c, s, ports, enc) = of(pick, Score(c, s, ports, pick))
      /\ Identify(cc, ss, ports, enc) = of(other, Score(cc, ss, ports, other))
  BY DEF Identify
<1> HIDE DEF best, more
<1>5. pick = other
  <2>1. CASE \E p \in best : Looks(s, p)
    <3>1. pick \in best /\ Looks(s, pick)
      BY <2>1
    <3>2. other \in more /\ Looks(ss, other)
      BY <1>1, <1>3, <2>1
    <3> HIDE DEF pick, other
    <3>3. pick = s[1].look /\ other = ss[1].look /\ s # <<>>
      BY <3>1, <3>2 DEF Looks, Begins
    <3> QED
      BY <3>3 DEF SameHead
  <2>2. CASE ~ \E p \in best : Looks(s, p)
    BY <1>1, <1>3, <2>2
  <2> QED
    BY <2>1, <2>2
<1> HIDE DEF pick, other, of
<1> QED
  BY <1>2, <1>4, <1>5

-----------------------------------------------------------------------------
(* What a session tells of its two streams, whoever spoke first.           *)
Told(client, server, c2s, s2c) ==
    LET hello   == Begins(c2s, "client_hello")
        upgrade == SplitStarttls(c2s, s2c)
        mode    == IF hello THEN "implicit"
                   ELSE IF ~upgrade.stripped /\ upgrade.c2s # <<>> THEN "starttls" ELSE "plaintext"
        base    == Identify(c2s, s2c, {client.port, server.port}, hello)
    IN  [protocol |-> base, transport |-> mode, client |-> client, server |-> server,
         tls |-> CASE mode = "implicit" -> MergeTls(ParseStream(c2s), ParseStream(s2c))
                   [] mode = "starttls" -> MergeTls(ParseStream(upgrade.c2s), ParseStream(upgrade.s2c))
                   [] OTHER -> NoTls,
         started_plain |-> mode = "starttls" \/ (~hello /\ upgrade.stripped),
         cleartext_creds |-> CredentialsIn(c2s),
         advertised |-> base = "smtp" /\ mode = "plaintext" /\ Where(s2c, "STARTTLS offered") # {}]
SameFacts(s, t) ==
    /\ s.protocol = t.protocol /\ s.transport = t.transport
    /\ s.client = t.client /\ s.server = t.server /\ s.tls = t.tls
    /\ s.started_plain = t.started_plain /\ s.cleartext_creds = t.cleartext_creds
    /\ s.advertised = t.advertised

(* A flow whose server is b and whose client is a, and their streams.      *)
Spoken(flow, a, b, x, y) ==
    /\ ServerOf(flow) = b /\ a.host # b.host
    /\ \/ flow.src = a /\ flow.dst = b /\ Reassemble(flow.c2s) = x /\ Reassemble(flow.s2c) = y
       \/ flow.src = b /\ flow.dst = a /\ Reassemble(flow.c2s) = y /\ Reassemble(flow.s2c) = x

(* build_session makes of such a flow the session that Told describes, or  *)
(* none.                                                                   *)
LEMMA SessionTold ==
    ASSUME NEW flow, NEW a, NEW b, NEW x, NEW y, Spoken(flow, a, b, x, y)
    PROVE  LET s == BuildSession(flow)
               t == Told(a, b, x, y)
           IN  /\ s = NoSession <=> t.protocol = "none" \/ (x = <<>> /\ y = <<>>)
               /\ s # NoSession =>
                     SameFacts(s, t) /\ s.incomplete = (Incomplete(flow.c2s) \/ Incomplete(flow.s2c))
<1> DEFINE src     == Reassemble(flow.c2s)
           dst     == Reassemble(flow.s2c)
           server  == ServerOf(flow)
           client  == IF server.host = flow.dst.host THEN flow.src ELSE flow.dst
           c2s     == IF client = flow.src THEN src ELSE dst
           s2c     == IF client = flow.src THEN dst ELSE src
           hello   == Begins(c2s, "client_hello")
           base    == Identify(c2s, s2c, {client.port, server.port}, hello)
           upgrade == SplitStarttls(c2s, s2c)
           mode    == IF hello THEN "implicit"
                      ELSE IF ~upgrade.stripped /\ upgrade.c2s # <<>> THEN "starttls" ELSE "plaintext"
           tls     == CASE mode = "implicit" -> MergeTls(ParseStream(c2s), ParseStream(s2c))
                        [] mode = "starttls" -> MergeTls(ParseStream(upgrade.c2s), ParseStream(upgrade.s2c))
                        [] OTHER -> NoTls
           plain   == mode = "starttls" \/ (~hello /\ upgrade.stripped)
           creds   == CredentialsIn(c2s)
           offered == base = "smtp" /\ mode = "plaintext" /\ Where(s2c, "STARTTLS offered") # {}
           time    == IF flow.c2s.start \in {NoTime, 0} THEN NoTime ELSE flow.start
           gaps    == Incomplete(flow.c2s) \/ Incomplete(flow.s2c)
           cut     == flow.c2s.truncated \/ flow.s2c.truncated
           shown   == FramesOf(flow.c2s) \o FramesOf(flow.s2c)
           r == [protocol |-> base, transport |-> mode, client |-> client, server |-> server, tls |-> tls,
                 server_host |-> tls.sni, started_plain |-> plain, start |-> time,
                 incomplete |-> gaps, truncated |-> cut, frames |-> shown,
                 cleartext_creds |-> creds, advertised |-> offered]
<1>1. client = a /\ server = b /\ c2s = x /\ s2c = y
  BY DEF Spoken
<1>2. src = <<>> /\ dst = <<>> <=> x = <<>> /\ y = <<>>
  BY DEF Spoken
<1>3. BuildSession(flow) = IF base = "none" \/ (src = <<>> /\ dst = <<>>) THEN NoSession ELSE r
  BY DEF BuildSession
<1>4. Told(client, server, c2s, s2c) =
         [protocol |-> base, transport |-> mode, client |-> client, server |-> server, tls |-> tls,
          started_plain |-> plain, cleartext_creds |-> creds, advertised |-> offered]
  BY DEF Told
<1>5. Told(a, b, x, y) = Told(client, server, c2s, s2c)
  BY <1>1
<1> HIDE DEF src, dst, server, client, c2s, s2c, hello, base, upgrade, mode, tls, plain, creds, offered,
             time, gaps, cut, shown
<1>6. r.protocol = base /\ Told(a, b, x, y).protocol = base
  BY <1>4, <1>5
<1>7. SameFacts(r, Told(a, b, x, y))
  BY <1>4, <1>5 DEF SameFacts
<1>8. r.incomplete = gaps
  OBVIOUS
<1>9. base # "none" => r # NoSession
  BY <1>6 DEF NoSession
<1> HIDE DEF r
<1> QED
  BY <1>2, <1>3, <1>6, <1>7, <1>8, <1>9 DEF gaps

(* The rules see nothing else of it.                                       *)
LEMMA SameJudgement ==
    ASSUME NEW s, NEW t, SameFacts(s, t)
    PROVE  SameVerdict(Analyse(s), Analyse(t))
<1>1. PlainFindings(s) = PlainFindings(t) /\ TlsFindings(s) = TlsFindings(t)
  <2>1. TlsFindings(s) = TlsFindings(t)
    BY DEF SameFacts, TlsFindings
  <2>2. PlainFindings(s) = PlainFindings(t)
    BY DEF SameFacts, PlainFindings
  <2> QED
    BY <2>1, <2>2
<1>2. CertsFor(s) = CertsFor(t) /\ IssuesFor(s) = IssuesFor(t) /\ Advisories(s) = Advisories(t)
  BY DEF SameFacts, CertsFor, IssuesFor, Advisories
<1>3. \A certs, issues : Findings(s, certs, issues) = Findings(t, certs, issues)
  BY <1>1 DEF Findings, SameFacts
<1>4. \A u : /\ Analyse(u).findings = Findings(u, CertsFor(u), IssuesFor(u))
             /\ Analyse(u).advisories = Advisories(u)
  BY DEF Analyse, CertsFor, IssuesFor
<1> QED
  BY <1>2, <1>3, <1>4 DEF SameVerdict

-----------------------------------------------------------------------------
(* The packets of a conversation in the capture.                           *)
UnitsOf(sent) == Units \cup UNION {ToSet(p.payload) : p \in ToSet(sent)}
(* What a conversation is, of what its capture is assumed to be.           *)
LEMMA Sent ==
    ASSUME capture \in Captures, NEW k \in Convs, NEW sent, sent = capture.sent[k]
    PROVE  /\ Len(sent) \in Nat /\ DOMAIN sent = 1 .. Len(sent) /\ 1 \in DOMAIN sent
           /\ \A i \in DOMAIN sent :
                 /\ KeyOf(sent[i]) = KeyOf(sent[1])
                 /\ sent[i].seq \in Nat /\ sent[i].payload \in Seq(UnitsOf(sent))
<1>1. /\ sent \in Seq(ToSet(sent)) /\ sent # <<>>
      /\ \A p \in ToSet(sent) :
            /\ {p.src, p.dst} = {sent[1].src, sent[1].dst}
            /\ p.seq \in Nat /\ p.payload \in Seq(ToSet(p.payload))
  BY ConversationsAssumption DEF Convs
<1>2. Len(sent) \in Nat /\ DOMAIN sent = 1 .. Len(sent)
  BY <1>1, LenProperties
<1>3. Len(sent) # 0
  BY <1>1, EmptySeq
<1>4. ASSUME NEW i \in DOMAIN sent
      PROVE  /\ KeyOf(sent[i]) = KeyOf(sent[1])
             /\ sent[i].seq \in Nat /\ sent[i].payload \in Seq(UnitsOf(sent))
  <2>1. sent[i] \in ToSet(sent)
    BY DEF ToSet
  <2>2. ToSet(sent[i].payload) \subseteq UnitsOf(sent)
    BY <2>1 DEF UnitsOf
  <2>3. sent[i].payload \in Seq(ToSet(sent[i].payload))
    BY <1>1, <2>1
  <2>4. sent[i].payload \in Seq(UnitsOf(sent))
    BY <2>2, <2>3, SeqMonotonic
  <2> QED
    BY <1>1, <2>1, <2>4 DEF KeyOf
<1> QED
  BY <1>2, <1>3, <1>4

(* The data of one of its ends follows itself, if the conversation is      *)
(* orderly.                                                                *)
LEMMA DataInOrder ==
    ASSUME capture \in Captures, NEW k \in Convs, NEW sent, sent = capture.sent[k], Orderly(sent),
           NEW e \in {sent[1].src, sent[1].dst}, NEW D, D = DataFrom(sent, e)
    PROVE  /\ Sized(sent, D, UnitsOf(sent)) /\ InOrder(sent, D) /\ NoGap(sent, D)
           /\ D \subseteq 1 .. Len(sent) /\ IsFiniteSet(D)
<1>1. /\ Len(sent) \in Nat /\ DOMAIN sent = 1 .. Len(sent)
      /\ \A i \in DOMAIN sent : sent[i].seq \in Nat /\ sent[i].payload \in Seq(UnitsOf(sent))
  BY Sent
<1>2. D \subseteq 1 .. Len(sent) /\ \A i \in D : sent[i].payload # <<>>
  BY <1>1 DEF DataFrom
<1>3. IsFiniteSet(D)
  <2>1. IsFiniteSet(1 .. Len(sent))
    BY <1>1, FS_Interval
  <2> HIDE DEF DataFrom
  <2> QED
    BY <1>2, <2>1, FS_Subset
<1>4. \A i \in D : Len(sent[i].payload) \in Nat \ {0}
  BY <1>1, <1>2, EmptySeq, LenProperties
<1>5. Sized(sent, D, UnitsOf(sent))
  BY <1>1, <1>2, <1>4 DEF Sized
<1>6. InOrder(sent, D) /\ NoGap(sent, D)
  BY DEF Orderly, InOrder, NoGap, NextSeq
<1> QED
  BY <1>2, <1>3, <1>5, <1>6

(* The fields of a segment.                                                *)
LEMMA SegmentFields ==
    ASSUME NEW x, NEW a, NEW b, NEW c, NEW n, x = [seq |-> a, payload |-> b, syn |-> c, frame |-> n]
    PROVE  x.seq = a /\ x.payload = b /\ x.syn = c
<1> DEFINE r == [seq |-> a, payload |-> b, syn |-> c, frame |-> n]
<1>1. r.seq = a /\ r.payload = b /\ r.syn = c
  BY Zenon
<1> HIDE DEF r
<1>2. x = r
  BY DEF r
<1> QED
  BY <1>1, <1>2, Zenon

(* The stream of one end alone has all of its data.                        *)
LEMMA AloneCarries ==
    ASSUME capture \in Captures, NEW k \in Convs, NEW sent, sent = capture.sent[k], Orderly(sent),
           NEW e \in {sent[1].src, sent[1].dst}
    PROVE  Placed(AloneStream(k, e), UnitsOf(sent)) /\ Carries(AloneStream(k, e), sent, DataFrom(sent, e))
<1> DEFINE D == DataFrom(sent, e)
           order == Ascending(D)
           d == AloneStream(k, e)
           kept(i) == [seq |-> sent[i].seq, payload |-> sent[i].payload, syn |-> FALSE, frame |-> i]
           A == {kept(i) : i \in D}
<1>0. Sized(sent, D, UnitsOf(sent)) /\ IsFiniteSet(D)
  <2>1. \A E : E = DataFrom(sent, e) => Sized(sent, E, UnitsOf(sent)) /\ IsFiniteSet(E)
    BY DataInOrder
  <2> QED
    BY <2>1
<1>1. /\ Sized(sent, D, UnitsOf(sent)) /\ IsFiniteSet(D)
      /\ D \in SUBSET Nat /\ \A i \in D : sent[i].payload # <<>>
  <2>1. \A i \in D : sent[i].payload # <<>>
    BY DEF DataFrom
  <2>2. D \in SUBSET Nat
    BY <1>0 DEF Sized
  <2> QED
    BY <1>0, <2>1, <2>2
<1> HIDE DEF D
<1>2. /\ Cardinality(D) \in Nat /\ DOMAIN order = 1 .. Cardinality(D)
      /\ \A n \in DOMAIN order : order[n] \in D
      /\ \A i \in D : \E n \in DOMAIN order : order[n] = i
  BY <1>1, AscendingLists
<1>3. d.segments = [n \in DOMAIN order |-> kept(order[n])]
  BY DEF AloneStream, NoStream, DataOf, D
<1> HIDE DEF order, d
<1>4. Placed(d, UnitsOf(sent))
  <2>1. d.segments \in Seq(A)
    <3>1. d.segments \in [1 .. Cardinality(D) -> A]
      BY <1>2, <1>3
    <3>2. \A n \in Nat : \A f \in [1 .. n -> A] : f \in Seq(A)
      <4> HIDE DEF A
      <4> QED
        BY SeqDef
    <3> QED
      BY <1>2, <3>1, <3>2, Zenon
  <2>2. \A s \in A : s.seq \in Nat /\ s.payload \in Seq(UnitsOf(sent))
    BY <1>1 DEF Sized
  <2> QED
    BY <2>1, <2>2 DEF Placed
<1>5. /\ DOMAIN d.segments = DOMAIN order
      /\ \A n \in DOMAIN order : /\ SameData(d.segments[n], sent[order[n]]) /\ ~d.segments[n].syn
                                 /\ d.segments[n].payload # <<>>
  <2>1. DOMAIN d.segments = DOMAIN order
    BY <1>3
  <2>2. ASSUME NEW n \in DOMAIN order
        PROVE  /\ SameData(d.segments[n], sent[order[n]]) /\ ~d.segments[n].syn
               /\ d.segments[n].payload # <<>>
    <3> DEFINE i == order[n]
    <3>1. d.segments[n] = kept(i) /\ sent[i].payload # <<>>
      BY <1>1, <1>2, <1>3
    <3> HIDE DEF i
    <3>2. /\ d.segments[n].seq = sent[i].seq /\ d.segments[n].payload = sent[i].payload
          /\ d.segments[n].syn = FALSE
      BY <3>1, SegmentFields
    <3>3. ~d.segments[n].syn
      BY <3>2, Zenon
    <3> QED
      BY <3>1, <3>2, <3>3 DEF SameData, i
  <2> QED
    BY <2>1, <2>2
<1>6. WithData(d) = DOMAIN order
  BY <1>5 DEF WithData
<1>7. Carries(d, sent, D)
  BY <1>2, <1>5, <1>6 DEF Carries
<1> QED
  BY <1>4, <1>7 DEF d, D

(* A direction whose units are of U has them of more than U.               *)
LEMMA PlacedOfMore ==
    ASSUME NEW U, NEW V, U \subseteq V, NEW d, Placed(d, U)
    PROVE  Placed(d, V)
<1>1. PICK A : d.segments \in Seq(A) /\ \A s \in A : s.seq \in Nat /\ s.payload \in Seq(U)
  BY DEF Placed
<1>2. \A s \in A : s.payload \in Seq(V)
  BY <1>1, SeqMonotonic
<1> QED
  BY <1>1, <1>2 DEF Placed

-----------------------------------------------------------------------------
(* Conversation k is in the capture as Judged asks, and flow f is its.     *)
InCapture(k, f) ==
    /\ capture \in Captures /\ k \in Convs /\ Orderly(capture.sent[k]) /\ Private(k) /\ EndsSeen(k)
    /\ f \in FlowsOf(capture.sent[k][1])
    /\ ~flows[f].c2s.truncated /\ ~flows[f].s2c.truncated
DirectionOf(flow, e) == IF flow.src = e THEN flow.c2s ELSE flow.s2c

(* The frames of the flow are those of the conversation.                   *)
LEMMA FramesOfConversation ==
    ASSUME FlowInv, read = Len(Frames), NEW k, NEW f, InCapture(k, f), NEW sent, sent = capture.sent[k]
    PROVE  /\ InFlow(flows[f]) = Of(k)
           /\ \A n \in Of(k) : /\ Frames[n].of[2] \in DOMAIN sent
                               /\ PacketOf(Frames[n]) = sent[Frames[n].of[2]]
           /\ f \in DOMAIN flows /\ KeyOf(flows[f]) = {sent[1].src, sent[1].dst}
           /\ sent[1].src # sent[1].dst
<1>1. f \in DOMAIN flows /\ KeyOf(flows[f]) = KeyOf(sent[1])
  BY DEF InCapture, FlowsOf
<1>2. ASSUME NEW n \in TcpRead
      PROVE  /\ Frames[n].of[1] \in Convs /\ Frames[n].of[2] \in DOMAIN capture.sent[Frames[n].of[1]]
             /\ KeyOf(PacketOf(Frames[n])) = KeyOf(capture.sent[Frames[n].of[1]][1])
  <2>1. n \in 1 .. Len(Frames) /\ IsTcp(Frames[n]) /\ capture \in Captures
    BY DEF TcpRead, InCapture
  <2>2. Frames[n] \in ToSet(capture.frames) /\ Frames[n].of # <<>>
    BY <2>1, FramesCarrySequences
  <2>3. Frames[n].of[1] \in Convs /\ Frames[n].of[2] \in DOMAIN capture.sent[Frames[n].of[1]]
    BY <2>1, <2>2, ConversationsAssumption DEF Convs
  <2> QED
    BY <2>1, <2>3, Sent DEF PacketOf
<1>3. ASSUME NEW n \in TcpRead
      PROVE  KeyOf(PacketOf(Frames[n])) = KeyOf(sent[1]) <=> Frames[n].of[1] = k
  BY <1>2 DEF InCapture, Private
<1>4. InFlow(flows[f]) = Of(k)
  BY <1>1, <1>3 DEF InFlow, Of, TcpRead
<1>5. \A n \in Of(k) : n \in TcpRead /\ Frames[n].of[1] = k
  BY DEF Of, TcpRead
<1>6. sent[1].src # sent[1].dst
  BY DEF InCapture, Private
<1> QED
  BY <1>1, <1>2, <1>4, <1>5, <1>6 DEF PacketOf, KeyOf

(* A direction of the flow has the data of its end that was captured.      *)
LEMMA FlowCarries ==
    ASSUME FlowInv, read = Len(Frames), NEW k, NEW f, InCapture(k, f), NEW sent, sent = capture.sent[k],
           NEW e \in {sent[1].src, sent[1].dst}
    PROVE  /\ Placed(DirectionOf(flows[f], e), UnitsOf(sent))
           /\ Carries(DirectionOf(flows[f], e), sent, DataFrom(sent, e) \cap Seen(k))
<1> DEFINE flow == flows[f]
           d == DirectionOf(flow, e)
           mine == {n \in Of(k) : PacketOf(Frames[n]).src = e}
<1>1. /\ InFlow(flow) = Of(k) /\ f \in DOMAIN flows /\ KeyOf(flow) = {sent[1].src, sent[1].dst}
      /\ \A n \in Of(k) : /\ Frames[n].of[2] \in DOMAIN sent
                          /\ PacketOf(Frames[n]) = sent[Frames[n].of[2]]
      /\ sent[1].src # sent[1].dst /\ capture \in Captures /\ k \in Convs
  BY FramesOfConversation DEF InCapture
<1>2. \A n \in Of(k) : PacketOf(Frames[n]).src \in {sent[1].src, sent[1].dst}
  <2>1. \A i \in DOMAIN sent : KeyOf(sent[i]) = KeyOf(sent[1])
    BY <1>1, Sent
  <2>2. ASSUME NEW n \in Of(k)
        PROVE  PacketOf(Frames[n]).src \in {sent[1].src, sent[1].dst}
    <3> DEFINE p == Frames[n].of[2]
    <3>1. p \in DOMAIN sent /\ PacketOf(Frames[n]) = sent[p]
      BY <1>1
    <3> HIDE DEF p
    <3>2. {sent[p].src, sent[p].dst} = {sent[1].src, sent[1].dst}
      BY <2>1, <3>1 DEF KeyOf
    <3> QED
      BY <3>1, <3>2
  <2> QED
    BY <2>2
<1>3. flow.src \in {sent[1].src, sent[1].dst}
  BY <1>1 DEF KeyOf
<1>4. Keeps(d, SegmentsOf(mine)) /\ ~d.truncated
  <2>1. /\ Keeps(flow.c2s, SegmentsOf(FromSrc(flow))) /\ Keeps(flow.s2c, SegmentsOf(FromDst(flow)))
        /\ ~flow.c2s.truncated /\ ~flow.s2c.truncated
    BY <1>1 DEF FlowInv, InCapture
  <2>2. FromSrc(flow) = {n \in Of(k) : PacketOf(Frames[n]).src = flow.src}
    BY <1>1 DEF FromSrc
  <2>3. FromDst(flow) = {n \in Of(k) : PacketOf(Frames[n]).src # flow.src}
    BY <1>1, <2>2 DEF FromDst
  <2> HIDE DEF flow
  <2>4. CASE flow.src = e
    BY <2>1, <2>2, <2>4 DEF DirectionOf
  <2>5. CASE flow.src # e
    <3>1. FromDst(flow) = mine
      BY <1>1, <1>2, <1>3, <2>3, <2>5
    <3> QED
      BY <2>1, <2>5, <3>1 DEF DirectionOf
  <2> QED
    BY <2>4, <2>5
<1>5. Placed(d, UnitsOf(sent))
  <2>1. Placed(flow.c2s, Units) /\ Placed(flow.s2c, Units)
    BY <1>1, FlowsArePlaced
  <2>2. Placed(d, Units)
    BY <2>1 DEF DirectionOf
  <2> QED
    BY <2>2, PlacedOfMore DEF UnitsOf
<1> HIDE DEF d, flow, mine
<1>6. ToSet(d.segments) = SegmentsOf(mine)
  <2>1. SegmentsOf(mine) \subseteq ToSet(d.segments) /\ d.segments \in Seq(SegmentsOf(mine))
    BY <1>4 DEF Keeps
  <2>2. \A i \in DOMAIN d.segments : d.segments[i] \in SegmentsOf(mine)
    BY <2>1, LenProperties
  <2> QED
    BY <2>1, <2>2 DEF ToSet
<1>7. ASSUME NEW i \in WithData(d)
      PROVE  \E p \in DataFrom(sent, e) \cap Seen(k) : SameData(d.segments[i], sent[p])
  <2>1. i \in DOMAIN d.segments /\ d.segments[i].payload # <<>>
    BY DEF WithData
  <2>2. PICK n \in mine : d.segments[i] = SegmentOf(n)
    BY <1>6, <2>1 DEF ToSet, SegmentsOf
  <2>3. n \in Of(k) /\ PacketOf(Frames[n]).src = e
    BY DEF mine
  <2> DEFINE p == Frames[n].of[2]
  <2>4. p \in DOMAIN sent /\ PacketOf(Frames[n]) = sent[p] /\ p \in Seen(k)
    BY <1>1, <2>3 DEF Seen
  <2> HIDE DEF p
  <2>5. SameData(d.segments[i], sent[p])
    BY <2>2, <2>4 DEF SegmentOf, SameData
  <2>6. p \in DataFrom(sent, e)
    BY <2>1, <2>3, <2>4, <2>5 DEF DataFrom, SameData
  <2> QED
    BY <2>4, <2>5, <2>6
<1>8. ASSUME NEW p \in DataFrom(sent, e) \cap Seen(k)
      PROVE  \E i \in WithData(d) : SameData(d.segments[i], sent[p])
  <2>1. PICK n \in Of(k) : p = Frames[n].of[2]
    BY DEF Seen
  <2>2. p \in DOMAIN sent /\ PacketOf(Frames[n]) = sent[p] /\ sent[p].src = e /\ sent[p].payload # <<>>
    BY <1>1, <2>1 DEF DataFrom
  <2>3. SegmentOf(n) \in SegmentsOf(mine)
    BY <2>2 DEF SegmentsOf, mine
  <2>4. PICK i \in DOMAIN d.segments : d.segments[i] = SegmentOf(n)
    BY <1>6, <2>3 DEF ToSet
  <2>5. ~sent[p].syn
    BY <2>2 DEF InCapture, Orderly
  <2>6. /\ d.segments[i].payload = sent[p].payload /\ d.segments[i].seq = sent[p].seq
        /\ ~d.segments[i].syn
    <3> DEFINE q == PacketOf(Frames[n])
    <3>1. d.segments[i] = [seq |-> q.seq, payload |-> q.payload, syn |-> q.syn /\ ~q.ack, frame |-> n]
      BY <2>4 DEF SegmentOf
    <3>2. q = sent[p]
      BY <2>2
    <3> HIDE DEF q
    <3> DEFINE opens == q.syn /\ ~q.ack
    <3>3. d.segments[i].payload = q.payload /\ d.segments[i].seq = q.seq /\ d.segments[i].syn = opens
      <4>1. d.segments[i] = [seq |-> q.seq, payload |-> q.payload, syn |-> opens, frame |-> n]
        BY <3>1
      <4> HIDE DEF opens
      <4> QED
        BY <4>1, SegmentFields
    <3>4. ~opens
      BY <2>5, <3>2
    <3> HIDE DEF opens
    <3>5. ~d.segments[i].syn
      BY <3>3, <3>4, Zenon
    <3> QED
      BY <3>2, <3>3, <3>5
  <2>7. i \in WithData(d)
    BY <2>2, <2>4, <2>6 DEF WithData
  <2> QED
    BY <2>6, <2>7 DEF SameData
<1> QED
  BY <1>5, <1>7, <1>8 DEF Carries, d, flow

-----------------------------------------------------------------------------
(* The end that opened an orderly conversation is its client.              *)
LEMMA ServerAnswers ==
    ASSUME FlowInv, FlowsNoted, read = Len(Frames), NEW k, NEW f, InCapture(k, f),
           NEW sent, sent = capture.sent[k]
    PROVE  /\ ServerOf(flows[f]) = sent[1].dst
           /\ \/ flows[f].src = sent[1].src /\ flows[f].dst = sent[1].dst
              \/ flows[f].src = sent[1].dst /\ flows[f].dst = sent[1].src
<1> DEFINE flow == flows[f]
           a == sent[1].src
           b == sent[1].dst
<1>1. /\ InFlow(flow) = Of(k) /\ f \in DOMAIN flows /\ KeyOf(flow) = {a, b} /\ a # b
      /\ \A n \in Of(k) : /\ Frames[n].of[2] \in DOMAIN sent
                          /\ PacketOf(Frames[n]) = sent[Frames[n].of[2]]
  BY FramesOfConversation
<1>2. OpenedIn(TcpRead, flow) /\ Own(TcpRead, flow) = Of(k)
  BY <1>1 DEF FlowsNoted, FlowNoted, Own, InFlow
<1>3. /\ a.port \notin WellKnown /\ b.port \in WellKnown
      /\ \A i \in DOMAIN sent : sent[i].syn => sent[i].src = a \/ sent[i].ack
  BY DEF InCapture, Orderly
<1> HIDE DEF flow
<1>4. (flow.src = a /\ flow.dst = b) \/ (flow.src = b /\ flow.dst = a)
  BY <1>1 DEF KeyOf
<1> HIDE DEF a, b
<1>5. CASE flow.src = a /\ flow.dst = b
  BY <1>3, <1>5 DEF ServerOf, flow, a, b
<1>6. CASE flow.src = b /\ flow.dst = a
  <2>1. ASSUME NEW n \in Of(k), PacketOf(Frames[n]).src = flow.src, Opens(n) PROVE FALSE
    <3> DEFINE p == Frames[n].of[2]
    <3>1. p \in DOMAIN sent /\ PacketOf(Frames[n]) = sent[p]
      BY <1>1
    <3> HIDE DEF p
    <3>2. sent[p].syn /\ ~sent[p].ack /\ sent[p].src = b
      BY <1>6, <2>1, <3>1 DEF Opens
    <3> QED
      BY <1>1, <1>3, <3>1, <3>2
  <2>2. ~flow.saw_syn_from_src
    BY <1>2, <2>1 DEF OpenedIn
  <2>3. ServerOf(flow) = flow.src
    BY <1>3, <1>6, <2>2 DEF ServerOf
  <2> QED
    BY <1>6, <2>3 DEF flow, a, b
<1> QED
  BY <1>4, <1>5, <1>6

(* A direction is read like the data of its end alone, as far as it can be *)
(* told apart from a beginning; entirely, if all of the data was captured; *)
(* and if it was not, the direction tells.                                 *)
LEMMA EndRead ==
    ASSUME FlowInv, read = Len(Frames), NEW k, NEW f, InCapture(k, f), NEW sent, sent = capture.sent[k],
           NEW e \in {sent[1].src, sent[1].dst}, NEW D, D = DataFrom(sent, e),
           NEW d, d = DirectionOf(flows[f], e)
    PROVE  /\ SameHead(Reassemble(d), Reassemble(AloneStream(k, e)))
           /\ D \subseteq Seen(k) => Reassemble(d) = Reassemble(AloneStream(k, e)) /\ ~Incomplete(d)
           /\ ~ (D \subseteq Seen(k)) => Incomplete(d)
<1> DEFINE U == UnitsOf(sent)
           c == AloneStream(k, e)
           P == D \cap Seen(k)
<1>1. capture \in Captures /\ k \in Convs /\ Orderly(sent) /\ EndsSeen(k)
  BY DEF InCapture
<1>2. /\ Sized(sent, D, U) /\ InOrder(sent, D) /\ NoGap(sent, D)
      /\ D \subseteq 1 .. Len(sent) /\ IsFiniteSet(D) /\ Len(sent) \in Nat
  BY <1>1, DataInOrder, Sent
<1>3. Placed(c, U) /\ Carries(c, sent, D)
  BY <1>1, AloneCarries
<1>4. Placed(d, U) /\ Carries(d, sent, P)
  BY FlowCarries
<1>5. P \in SUBSET D /\ D \in SUBSET D
  OBVIOUS
<1>6. CASE D \subseteq Seen(k)
  <2>1. P = D
    BY <1>6
  <2> HIDE DEF P, c, U
  <2>2. Reassemble(d) = Reassemble(c)
    BY <1>2, <1>3, <1>4, <1>5, <2>1, SameStream
  <2>3. ~Incomplete(d)
    BY <1>2, <1>4, <2>1, AllThere
  <2> QED
    BY <1>6, <2>2, <2>3 DEF SameHead, c
<1>7. CASE ~ (D \subseteq Seen(k))
  <2>1. PICK m \in D : m \notin Seen(k)
    BY <1>7
  <2>2. \A i \in D : sent[i].src = e /\ i \in DOMAIN sent
    BY DEF DataFrom
  <2>3. e \in EndsOf(k) /\ D = DataOf(k, e)
    BY <2>1, <2>2 DEF EndsOf, DataOf
  <2>4. \A i \in D : (\A j \in D : i <= j) \/ (\A j \in D : j <= i) => i \in Seen(k)
    BY <1>1, <2>3 DEF EndsSeen
  <2>5. PICK first \in D : \A q \in D : first <= q
    <3>1. D \in SUBSET Nat /\ D # {}
      BY <1>2, <2>1
    <3> QED
      BY <3>1, LeastNumber
  <2>6. PICK last \in D : \A q \in D : q <= last
    <3> DEFINE back == {Len(sent) - i : i \in D}
    <3>1. back \in SUBSET Nat /\ back # {}
      BY <1>2, <2>1
    <3>2. PICK z \in back : \A w \in back : z <= w
      BY <3>1, LeastNumber
    <3>3. PICK i \in D : z = Len(sent) - i
      BY <3>2
    <3>4. ASSUME NEW q \in D PROVE q <= i
      <4>1. Len(sent) - i <= Len(sent) - q
        BY <3>2, <3>3
      <4> QED
        BY <1>2, <4>1
    <3> QED
      BY <3>4
  <2>7. first \in P /\ last \in P /\ m \notin P
    BY <2>1, <2>4, <2>5, <2>6
  <2> HIDE DEF P, c, U
  <2>8. Incomplete(d)
    <3>1. HasEnds(P, D) /\ ~ (D \subseteq P)
      BY <2>1, <2>5, <2>6, <2>7 DEF HasEnds
    <3> QED
      BY <1>2, <1>4, <1>5, <3>1, GapShows
  <2>9. SameHead(Reassemble(d), Reassemble(c))
    <3>1. HasEnds(P, D)
      BY <2>5, <2>6, <2>7 DEF HasEnds
    <3> QED
      BY <1>2, <1>3, <1>4, <1>5, <3>1, BeginAlike
  <2> QED
    BY <1>7, <2>8, <2>9 DEF c
<1> QED
  BY <1>6, <1>7

(* A direction with a stream has counted it.                               *)
LEMMA StreamCounted ==
    ASSUME NEW U, NEW d, Placed(d, U), Counts(d), Reassemble(d) # <<>>
    PROVE  d.total \in Nat \ {0}
<1>1. PICK i \in WithData(d) : TRUE
  BY DEF Reassemble
<1>2. PICK A : d.segments \in Seq(A) /\ \A s \in A : s.payload \in Seq(U)
  BY DEF Placed
<1>3. i \in DOMAIN d.segments /\ d.segments[i].payload # <<>>
  BY <1>1 DEF WithData
<1>4. d.segments[i].payload \in Seq(U)
  BY <1>2, <1>3, LenProperties
<1>5. Len(d.segments[i].payload) \in Nat \ {0}
  BY <1>3, <1>4, LenProperties, EmptySeq
<1>6. d.total \in Nat /\ Len(d.segments[i].payload) <= d.total
  BY <1>3 DEF Counts, ToSet
<1> QED
  BY <1>5, <1>6

(* What the data of both ends together is.                                 *)
LEMMA DataOfBoth ==
    ASSUME capture \in Captures, NEW k \in Convs, NEW sent, sent = capture.sent[k]
    PROVE  UNION {DataOf(k, e) : e \in EndsOf(k)}
              = DataFrom(sent, sent[1].src) \cup DataFrom(sent, sent[1].dst)
<1>1. \A i \in DOMAIN sent : KeyOf(sent[i]) = KeyOf(sent[1])
  BY Sent
<1>2. \A i \in DOMAIN sent : sent[i].src \in {sent[1].src, sent[1].dst}
  BY <1>1 DEF KeyOf
<1>3. EndsOf(k) = {sent[i].src : i \in DOMAIN sent}
  BY DEF EndsOf
<1>4. \A e : DataOf(k, e) = {i \in DOMAIN sent : sent[i].src = e /\ sent[i].payload # <<>>}
  BY DEF DataOf, DataFrom
<1> DEFINE all == UNION {DataOf(k, e) : e \in EndsOf(k)}
<1>5. ASSUME NEW i \in all PROVE i \in DataFrom(sent, sent[1].src) \cup DataFrom(sent, sent[1].dst)
  <2>1. PICK e : i \in DataOf(k, e)
    OBVIOUS
  <2> QED
    BY <1>2, <1>4, <2>1 DEF DataFrom
<1>6. ASSUME NEW e, NEW i \in DataFrom(sent, e) PROVE i \in all
  <2>1. i \in DOMAIN sent /\ sent[i].src = e /\ i \in DataOf(k, e)
    BY DEF DataFrom, DataOf
  <2>2. e \in EndsOf(k)
    BY <1>3, <2>1
  <2> QED
    BY <2>1, <2>2
<1> HIDE DEF all
<1>7. all = DataFrom(sent, sent[1].src) \cup DataFrom(sent, sent[1].dst)
  BY <1>5, <1>6
<1> QED
  BY <1>7 DEF all

-----------------------------------------------------------------------------
(* Two pairs of streams with the same beginnings make a session or none.   *)
LEMMA ToldOfHeads ==
    ASSUME NEW a, NEW b, NEW x, NEW y, NEW u, NEW v, SameHead(x, u), SameHead(y, v)
    PROVE  Told(a, b, x, y).protocol = Told(a, b, u, v).protocol
<1>1. Begins(x, "client_hello") <=> Begins(u, "client_hello")
  BY SameBeginning
<1>2. ASSUME NEW hello
      PROVE  Identify(x, y, {a.port, b.port}, hello) = Identify(u, v, {a.port, b.port}, hello)
  BY SameProtocol
<1>3. \A p, q : Told(a, b, p, q).protocol = Identify(p, q, {a.port, b.port}, Begins(p, "client_hello"))
  BY DEF Told
<1> DEFINE h == Begins(x, "client_hello")
           g == Begins(u, "client_hello")
<1>4. h = g
  BY <1>1 DEF Begins
<1> QED
  BY <1>2, <1>3, <1>4

(* The session of a conversation alone and that of its flow.               *)
LEMMA FlowSession ==
    ASSUME FlowInv, FlowsNoted, read = Len(Frames), NEW k, NEW f, InCapture(k, f),
           NEW sent, sent = capture.sent[k], NEW s, s = BuildSession(flows[f]), Alone(k) # NoSession
    PROVE  /\ s # NoSession /\ Finished(flows[f])
           /\ s.client = sent[1].src /\ s.server = sent[1].dst
           /\ LET all == UNION {DataOf(k, e) : e \in EndsOf(k)} \subseteq Seen(k)
              IN  /\ all => SameFacts(s, Alone(k)) /\ ~s.incomplete
                  /\ ~all => s.incomplete
<1> DEFINE flow == flows[f]
           a == sent[1].src
           b == sent[1].dst
           da == DirectionOf(flow, a)
           db == DirectionOf(flow, b)
           u == Reassemble(da)
           v == Reassemble(db)
           x == Reassemble(AloneStream(k, a))
           y == Reassemble(AloneStream(k, b))
           Da == DataFrom(sent, a)
           Db == DataFrom(sent, b)
<1>1. capture \in Captures /\ k \in Convs /\ f \in DOMAIN flows /\ a.host # b.host /\ a # b
      /\ b.port \in WellKnown
  BY DEF InCapture, FlowsOf, Private, Orderly
<1>2. UNION {DataOf(k, e) : e \in EndsOf(k)} = Da \cup Db
  BY <1>1, DataOfBoth
<1>3. /\ SameHead(u, x) /\ (Da \subseteq Seen(k) => u = x /\ ~Incomplete(da))
      /\ ~ (Da \subseteq Seen(k)) => Incomplete(da)
  BY EndRead
<1>4. /\ SameHead(v, y) /\ (Db \subseteq Seen(k) => v = y /\ ~Incomplete(db))
      /\ ~ (Db \subseteq Seen(k)) => Incomplete(db)
  BY EndRead
<1>5. /\ ServerOf(flow) = b
      /\ (flow.src = a /\ flow.dst = b) \/ (flow.src = b /\ flow.dst = a)
  BY ServerAnswers
<1>6. \/ flow.src = a /\ flow.dst = b /\ da = flow.c2s /\ db = flow.s2c
      \/ flow.src = b /\ flow.dst = a /\ da = flow.s2c /\ db = flow.c2s
  BY <1>1, <1>5 DEF DirectionOf
<1>7. Spoken(flow, a, b, u, v)
  BY <1>1, <1>5, <1>6 DEF Spoken
<1>8. Spoken(AloneFlow(k), a, b, x, y)
  <2>1. /\ AloneFlow(k).src = a /\ AloneFlow(k).dst = b
        /\ AloneFlow(k).c2s = AloneStream(k, a) /\ AloneFlow(k).s2c = AloneStream(k, b)
    BY DEF AloneFlow, NewFlow
  <2>2. ServerOf(AloneFlow(k)) = b
    BY <1>1, <2>1 DEF ServerOf
  <2> QED
    BY <1>1, <2>1, <2>2 DEF Spoken
<1>9. /\ Placed(flow.c2s, Units) /\ Placed(flow.s2c, Units)
      /\ Counts(flow.c2s) /\ Counts(flow.s2c)
  BY <1>1, FlowsArePlaced DEF FlowsNoted, FlowNoted
<1> HIDE DEF flow, a, b, da, db, u, v, x, y, Da, Db
<1>10. /\ s = NoSession <=> Told(a, b, u, v).protocol = "none" \/ (u = <<>> /\ v = <<>>)
       /\ s # NoSession => /\ SameFacts(s, Told(a, b, u, v))
                           /\ s.incomplete = (Incomplete(flow.c2s) \/ Incomplete(flow.s2c))
  BY <1>7, SessionTold DEF flow
<1>11. /\ Told(a, b, x, y).protocol # "none" /\ ~ (x = <<>> /\ y = <<>>)
       /\ SameFacts(Alone(k), Told(a, b, x, y))
  BY <1>8, SessionTold DEF Alone
<1>12. Told(a, b, u, v).protocol = Told(a, b, x, y).protocol
  BY <1>3, <1>4, ToldOfHeads
<1>13. s # NoSession /\ ~ (u = <<>> /\ v = <<>>)
  BY <1>3, <1>4, <1>10, <1>11, <1>12 DEF SameHead
<1>14. Finished(flow)
  <2>1. flow.c2s.total \in Nat /\ flow.s2c.total \in Nat
    BY <1>9 DEF Counts
  <2>2. Reassemble(flow.c2s) # <<>> \/ Reassemble(flow.s2c) # <<>>
    BY <1>6, <1>13 DEF u, v
  <2>3. flow.c2s.total # 0 \/ flow.s2c.total # 0
    BY <1>9, <2>2, StreamCounted
  <2> QED
    BY <2>1, <2>3 DEF Finished
<1>15. s.client = a /\ s.server = b
  BY <1>10, <1>13 DEF SameFacts, Told
<1>16. (Incomplete(flow.c2s) \/ Incomplete(flow.s2c)) <=> Incomplete(da) \/ Incomplete(db)
  BY <1>6
<1>17. ASSUME Da \cup Db \subseteq Seen(k) PROVE SameFacts(s, Alone(k)) /\ ~s.incomplete
  <2>1. u = x /\ v = y /\ ~Incomplete(da) /\ ~Incomplete(db)
    BY <1>3, <1>4, <1>17
  <2>2. SameFacts(s, Told(a, b, x, y))
    BY <1>10, <1>13, <2>1
  <2> QED
    BY <1>10, <1>11, <1>13, <1>16, <2>1, <2>2 DEF SameFacts
<1>18. ASSUME ~ (Da \cup Db \subseteq Seen(k)) PROVE s.incomplete
  BY <1>3, <1>4, <1>10, <1>13, <1>16, <1>18
<1> QED
  BY <1>2, <1>13, <1>14, <1>15, <1>17, <1>18 DEF flow, a, b

(* The frames of a session tell which flow it was made of.                 *)
LEMMA SessionByFrames ==
    ASSUME EvidenceInv, SessionInv, NEW f \in 1 .. built, NEW i \in DOMAIN sessions,
           sessions[i].frames = FramesOf(flows[f].c2s) \o FramesOf(flows[f].s2c)
    PROVE  sessions[i] = BuildSession(flows[f])
<1> DEFINE s == sessions[i]
           n == s.frames[1]
<1>1. FlowInv /\ SessionsKept
  BY EvidenceParts
<1>2. s.frames # <<>>
  BY <1>1, Sessions DEF SessionsKept
<1>3. PICK j \in 1 .. built : ReadFrom(s, flows[j]) /\ s = BuildSession(flows[j])
  BY DEF SessionInv
<1>4. j \in DOMAIN flows /\ f \in DOMAIN flows
  BY <1>1, Counted DEF SessionsKept
<1> HIDE DEF s
<1>5. s.frames \in Seq(Own(TcpRead, flows[j]))
  BY <1>1, <1>3, <1>4, SessionFrames
<1>6. n \in Own(TcpRead, flows[j])
  BY <1>2, <1>5, HeadOf
<1>7. s.frames \in Seq(Own(TcpRead, flows[f]))
  <2>1. s.frames = FramesOf(flows[f].c2s) \o FramesOf(flows[f].s2c)
    BY DEF s
  <2> QED
    BY <1>1, <1>4, <2>1, FlowFrames
<1>8. n \in Own(TcpRead, flows[f])
  BY <1>2, <1>7, HeadOf
<1> HIDE DEF n
<1>9. KeyOf(flows[f]) = KeyOf(flows[j])
  BY <1>6, <1>8 DEF Own
<1>10. f = j
  BY <1>1, <1>4, <1>9 DEF FlowInv, FlowTypeOK
<1> QED
  BY <1>3, <1>10 DEF s

(* A conversation is judged by itself.                                     *)
LEMMA JudgedAlone ==
    ASSUME EvidenceInv, SessionInv, JudgedInv, LocalInv, capture \in Captures
    PROVE  VerdictLocal
<1> SUFFICES ASSUME Done, NEW k \in Convs, Orderly(capture.sent[k]), Private(k), Whole(k), EndsSeen(k),
                    Alone(k) # NoSession
             PROVE  /\ Cardinality(SessionsOf(k)) = 1
                    /\ \A i \in SessionsOf(k) :
                          IF UNION {DataOf(k, e) : e \in EndsOf(k)} \subseteq Seen(k)
                            THEN SameVerdict(analysed[i], Analyse(Alone(k))) /\ ~sessions[i].incomplete
                            ELSE sessions[i].incomplete
  BY DEF VerdictLocal, JudgedAs
<1> DEFINE sent == capture.sent[k]
           f == CHOOSE i \in FlowsOf(sent[1]) : TRUE
           s == BuildSession(flows[f])
           all == UNION {DataOf(k, e) : e \in EndsOf(k)} \subseteq Seen(k)
<1>0. FlowInv
  BY DEF EvidenceInv
<1>1. InCapture(k, f)
  BY DEF InCapture, Whole, HasFlow, FlowOf
<1>2. LoopsEnded /\ FlowsNoted /\ EachHasASession /\ OncePerEnds
  BY LocalParts
<1>3. read = Len(Frames) /\ built = Len(flows)
  BY <1>2 DEF LoopsEnded, Done
<1> HIDE DEF f, s, all
<1>4. /\ s # NoSession /\ Finished(flows[f]) /\ s.client = sent[1].src /\ s.server = sent[1].dst
      /\ all => SameFacts(s, Alone(k)) /\ ~s.incomplete
      /\ ~all => s.incomplete
  BY <1>0, <1>1, <1>2, <1>3, FlowSession DEF s, all
<1>5. f \in 1 .. built
  <2>1. f \in DOMAIN flows
    BY <1>1 DEF InCapture, FlowsOf
  <2>2. flows \in Seq(ToSet(flows))
    BY <1>0 DEF FlowInv
  <2> QED
    BY <1>3, <2>1, <2>2, LenProperties
<1>6. PICK i \in DOMAIN sessions : sessions[i] = s
  <2>1. PICK i \in DOMAIN sessions :
           sessions[i].frames = FramesOf(flows[f].c2s) \o FramesOf(flows[f].s2c)
    BY <1>2, <1>4, <1>5 DEF EachHasASession, HasSession, s
  <2> QED
    BY <1>5, <2>1, SessionByFrames DEF s
<1>7. sent[1].src.host # sent[1].dst.host
  BY DEF Private
<1>8. i \in SessionsOf(k)
  BY <1>4, <1>6 DEF SessionsOf, KeyOf
<1>9. \A j \in SessionsOf(k) : j = i
  BY <1>2, <1>4, <1>6, <1>7 DEF SessionsOf, KeyOf, OncePerEnds, EndsOfSession
<1>10. SessionsOf(k) = {i}
  BY <1>8, <1>9
<1>11. Cardinality(SessionsOf(k)) = 1
  BY <1>10, FS_Singleton
<1>12. analysed[i] = Analyse(s)
  <2>1. /\ analysed = [j \in 1 .. Len(analysed) |-> Analyse(sessions[j])]
        /\ Len(analysed) = Len(sessions)
    BY DEF JudgedInv, Done
  <2>2. i \in 1 .. Len(analysed)
    BY <1>6, <2>1, LenProperties
  <2> QED
    BY <1>6, <2>1, <2>2
<1>13. all => SameVerdict(analysed[i], Analyse(Alone(k)))
  BY <1>4, <1>12, SameJudgement
<1> QED
  BY <1>4, <1>6, <1>10, <1>11, <1>13 DEF all

(* A conversation is judged by itself, whatever else is in the capture and *)
(* whatever the order of its packets there, once or more often: an orderly *)
(* one has one session, with the verdict of its data in order, or, if and  *)
(* only if data is missing between its ends, one that says it is           *)
(* incomplete (sessions.py 170-248, reassembly.py 131-161).                *)
THEOREM JudgedByItself == Spec => []VerdictLocal
<1> QED
  BY EvidenceInvariant, SessionInvariant, JudgedInvariant, LocalInvariant, OneCapture, JudgedAlone, PTL
=============================================================================
