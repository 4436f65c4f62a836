---------------------------- MODULE Certificates ----------------------------
(***************************************************************************)
(* pipeline/certificates.py: what the analysis says about one offered      *)
(* chain.  A certificate is a record: the names of its subject and issuer, *)
(* the key it certifies, the key that signed it, and the hours from now at *)
(* which it becomes valid and expires.  Keys, parsing and signature checks *)
(* are the library's; a certificate it cannot read is Unreadable.          *)
(***************************************************************************)
EXTENDS Integers, Sequences, FiniteSets, SequencesExt

Day == 24
ExpiryWarnDays == 30
MaxChain == 5

(* A host name is the sequence of its labels; a name may begin with "*".   *)
Unreadable == [subject |-> <<"unreadable">>]

Readable(c) == c # Unreadable

(* _verify_cert_signature: the key of the parent verifies the child. *)
VerifyCertSignature(child, parent) == child.signer = parent.key

SelfIssued(c) == c.issuer = c.subject
SelfSignedAndValid(c) == SelfIssued(c) /\ VerifyCertSignature(c, c)

(* A wildcard stands for one label or more. *)
NameMatches(host, name) ==
    \/ name = host
    \/ /\ name # <<>> /\ name[1] = "*"
       /\ Len(host) >= Len(name)
       /\ SubSeq(host, Len(host) - Len(name) + 2, Len(host)) = Tail(name)

HostMatches(host, names) == \E n \in names : NameMatches(host, n)

-----------------------------------------------------------------------------
(* sort: the elements of a finite set, where before[x] are those before x. *)
Ranked(before) ==
    [k \in 1 .. Cardinality(DOMAIN before) |->
        CHOOSE x \in DOMAIN before : Cardinality(before[x]) = k - 1]

(* [s[i] for i in P], in the order of the places. *)
Ascending(P) == Ranked([i \in P |-> {j \in P : j < i}])
Selected(s, P) == LET order == Ascending(P) IN [k \in DOMAIN order |-> s[order[k]]]

-----------------------------------------------------------------------------
(* analyze_chain *)

NoName == <<>>

CertsOf(chain) == Selected(chain, {i \in DOMAIN chain : i <= MaxChain /\ Readable(chain[i])})

ChainIssues(chain, sni) ==
    LET certs == CertsOf(chain)
        n     == Len(certs)
        leaf  == certs[1]
    IN  IF certs = <<>> THEN {"chain unreadable"} ELSE
        (IF \E i \in 1 .. n - 1 : ~VerifyCertSignature(certs[i], certs[i + 1])
           THEN {"signature break"} ELSE {})
        \cup (IF SelfSignedAndValid(leaf) THEN {"self-signed"} ELSE {})
        \cup (IF n = 1 /\ ~SelfSignedAndValid(leaf) THEN {"no intermediates"} ELSE {})
        \cup (IF n > 1 /\ ~SelfIssued(certs[n]) THEN {"no self-signed root"} ELSE {})
        \cup (IF sni # NoName /\ ~HostMatches(sni, leaf.san \cup {leaf.subject})
                THEN {"hostname mismatch"} ELSE {})

(* Mutant: int(seconds / 86400), which cuts towards zero. *)
DaysTowardsZero(hours) == IF hours < 0 THEN -((-hours) \div Day) ELSE hours \div Day

(* timedelta // 86400 rounds down, also below zero. *)
Days(hours) == hours \div Day

(* The record of one certificate, where a rule or a feature reads it. *)
CertRecord(c) ==
    [fingerprint |-> c, self_signed |-> SelfIssued(c),
     is_expired |-> c.not_after < 0, not_yet_valid |-> c.not_before > 0,
     days_to_expiry |-> Days(c.not_after), days_valid |-> Days(c.not_after - c.not_before),
     key_algorithm |-> c.key.alg, signature_hash |-> c.hash,
     key_length |-> IF c.key.alg \in {"RSA", "ECDSA", "DSA"} THEN c.key.bits ELSE 0]

(* Records of a chain, one for every fingerprint. *)
AnalyzeCertificates(chain) ==
    LET certs == CertsOf(chain)
        new   == {i \in DOMAIN certs : \A j \in 1 .. i - 1 : certs[j] # certs[i]}
    IN  Selected([i \in DOMAIN certs |-> CertRecord(certs[i])], new)

WeakKey(r) ==
    CASE r.key_algorithm = "RSA"   -> r.key_length < 2048
      [] r.key_algorithm = "ECDSA" -> r.key_length < 256
      [] OTHER                     -> TRUE

WeakSignature(r) == r.signature_hash \in {"md5", "sha1"}
=============================================================================
