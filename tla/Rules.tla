------------------------------- MODULE Rules -------------------------------
(***************************************************************************)
(* pipeline/rules.py: what is held against one session.  A session is the  *)
(* record of MailSessions; certs are the records of its certificates, the  *)
(* leaf first; issues are those of its chain.  A finding names its rule    *)
(* and, where a rule can fire more than once, what it is about.            *)
(***************************************************************************)
EXTENDS CipherSuites, Certificates

SeverityOf(rid) ==
    CASE rid \in {"PRT-001", "CFG-003", "CFG-004", "TLS-001", "CPR-001", "CPR-002", "CRT-001",
                  "CRT-005", "CRE-001"}                                  -> "critical"
      [] rid \in {"CFG-005", "CPR-004", "CFG-007", "ALR-001", "CRT-002", "CRT-004", "CRT-006",
                  "CRT-007", "XSE-002"}                                  -> "high"
      [] rid \in {"CPR-003", "PFS-001", "CFG-006", "CRT-008", "XSE-001"} -> "medium"
      [] rid = "CRT-003"                                                 -> "low"
      [] rid = "PQC-001"                                                 -> "info"

WeightOf(rid) ==
    CASE rid \in {"PRT-001", "CFG-003", "CPR-001", "CRE-001"}             -> 40
      [] rid \in {"CFG-004", "TLS-001", "CPR-002"}                        -> 35
      [] rid \in {"CRT-001", "CRT-005"}                                   -> 30
      [] rid = "CRT-006"                                                  -> 25
      [] rid \in {"CFG-007", "ALR-001", "CRT-002", "CRT-004", "CRT-007", "XSE-002"} -> 20
      [] rid \in {"CFG-005", "CPR-004", "PFS-001"}                        -> 15
      [] rid \in {"CPR-003", "CFG-006", "CRT-008", "XSE-001"}             -> 10
      [] rid = "CRT-003"                                                  -> 5
      [] rid = "PQC-001"                                                  -> 0

(* F and _add *)
Finding(rid, about) == [rule |-> rid, about |-> about]
When(condition, rid) == IF condition THEN {Finding(rid, "session")} ELSE {}

-----------------------------------------------------------------------------
(* evaluate_session *)

PlainFindings(s) ==
    When(/\ ~s.started_plain /\ s.protocol = "smtp" /\ s.server.port \in {25, 587}
         /\ ~s.advertised, "CFG-005")
    \cup When(~s.started_plain, "PRT-001")
    \cup When(s.started_plain, "CFG-004")

(* The server is blamed for its choice when anything offered was as strong.*)
SuiteFindings(t) ==
    LET strength == CipherStrength(t.suite)
        broken   == strength = 0
        legacy   == t.suite \in Rc4 \cup TripleDes
    IN  When(broken, "CPR-001")
        \cup When(~broken /\ legacy, "CPR-002")
        \cup When(~broken /\ ~legacy /\ t.suite \in Cbc /\ t.version = \h0303, "CPR-003")
        \cup When(strength < 128 /\ \E c \in t.offered : CipherStrength(c) >= strength, "CPR-004")
        \cup When(~PfsOf(t.kex), "PFS-001")
        \cup When(t.resumed /\ ~t.ems, "CFG-006")
        \cup When(t.reneg_seen /\ ~t.secure_renegotiation, "CFG-007")

TlsFindings(s) ==
    When(s.server.port \in {993, 995, 465} /\ s.tls.error, "CFG-003")
    \cup When(s.tls.version \in {\h0200, \h0300, \h0301, \h0302}, "TLS-001")
    \cup (IF s.tls.suite = NoSuite THEN {} ELSE SuiteFindings(s.tls))
    \cup When(s.tls.alerts \cap {40, 70, 71} # {}, "ALR-001")

LeafFindings(leaf, issues) ==
    When(leaf.is_expired, "CRT-001")
    \cup When(leaf.not_yet_valid, "CRT-002")
    \cup When(leaf.days_to_expiry \in 0 .. ExpiryWarnDays, "CRT-003")
    \cup When(leaf.self_signed, "CRT-004")
    \cup When(WeakKey(leaf), "CRT-005")
    \cup When(WeakSignature(leaf), "CRT-006")
    \cup When("hostname mismatch" \in issues, "CRT-007")

(* Mutant: the last of the chain. *)
RootOf(certs) == certs[Len(certs)]

(* is_leaf: the first record (runner.py 78-79). *)
LeafOf(certs) == certs[1]

Findings(s, certs, issues) ==
    (IF s.transport = "plaintext" THEN PlainFindings(s) ELSE TlsFindings(s))
    \cup (IF certs = <<>> THEN {} ELSE LeafFindings(LeafOf(certs), issues))
    \cup {Finding("CRE-001", kind) : kind \in s.cleartext_creds}
    \cup {Finding("CRT-008", issue) :
              issue \in issues \cap {"signature break", "no intermediates", "no self-signed root"}}

PqcVulnKex == {"RSA", "DHE", "DH_anon", "ECDH", "ECDHE", "(TLS1.3)"}
QuantumVulnerable(t) == t.kex \in PqcVulnKex /\ t.version # 0 /\ t.group \notin HybridGroups
Advisories(s) == When(QuantumVulnerable(s.tls), "PQC-001")
=============================================================================
