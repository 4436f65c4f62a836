----------------------------- MODULE MCAnalysis -----------------------------
(***************************************************************************)
(* An instance of the analysis: the captures of the project's own corpus,  *)
(* and what may happen to a capture on its way.                            *)
(***************************************************************************)
EXTENDS AnalysisProperties, MailScenarios

(* Conversations, the places of their packets in the order of the file,    *)
(* and the file.                                                           *)
Places(sent) == FlattenSeq([k \in DOMAIN sent |-> [i \in DOMAIN sent[k] |-> <<k, i>>]])
File(sent, order) ==
    [format |-> "classic", link |-> "ethernet", sent |-> sent,
     frames |-> [n \in DOMAIN order |-> [of |-> order[n], ts |-> n]]]
Plain(sent) == File(sent, Places(sent))
OfLink(link, format, cap) == [cap EXCEPT !.link = link, !.format = format]
At(cap, ts(_)) == [cap EXCEPT !.frames = [n \in DOMAIN @ |-> [@[n] EXCEPT !.ts = ts(n)]]]

Without(order, n) == SubSeq(order, 1, n - 1) \o SubSeq(order, n + 1, Len(order))
Twice(order, n) == SubSeq(order, 1, n) \o SubSeq(order, n, Len(order))
Swapped(order, n) == [order EXCEPT ![n] = order[n + 1], ![n + 1] = order[n]]
Inserted(order, n, other) == SubSeq(order, 1, n) \o other \o SubSeq(order, n + 1, Len(order))

-----------------------------------------------------------------------------
(* tests/test_pipeline.py, EXPECTED: the rules that must fire, and whether *)
(* no other may.                                                           *)
Fires(sent, rules) == [sent |-> sent, rules |-> rules]
Expected ==
    {Fires(GoodSmtps, {}), Fires(ImapsGood, {}), Fires(Pop3sGood, {}), Fires(StarttlsOk, {}),
     Fires(SmtpTls10Rc4, {"TLS-001", "CPR-002", "CPR-004", "PFS-001"}),
     Fires(Pop3Cleartext, {"PRT-001", "CRE-001"}),
     Fires(StarttlsStripped, {"CFG-004"}),
     Fires(ImapExpiredCert, {"CRT-001", "CRT-004"}),
     Fires(Pop3sWeakNopfs, {"CRT-005", "CRT-004", "PFS-001", "CPR-003"}),
     Fires(ImapsSha1Selfsigned, {"CRT-004", "CRT-006", "PFS-001", "CPR-003"}),
     Fires(HandshakeFailure, {"ALR-001"}),
     Fires(InsecureReneg, {"CFG-007"}),
     Fires(HostCertSwap, {"XSE-001"}),
     Fires(HostVersionRegression, {"XSE-002"}),
     Fires(SmtpCleartextAuth, {"CRE-001", "PRT-001", "CFG-005"}),
     Fires(SmtpNoStarttlsAdvert, {"CFG-005", "PRT-001"}),
     Fires(ImapCleartextLogin, {"CRE-001", "PRT-001"}),
     Fires(PqcHybrid, {}),
     Fires(ExpiringSoonCert, {"CRT-003"}),
     Fires(NotYetValidCert, {"CRT-002"}),
     Fires(HostnameMismatch, {"CRT-007"}),
     Fires(AllCleanGold, {}), Fires(AfterRemediation, {})}
Clean == {AllCleanGold, AfterRemediation, ImapsGood, Pop3sGood}

(* Every named capture fires the rules that the corpus is built to show;   *)
(* the captures that show a sound server score 100 and A, whatever the     *)
(* models say (tests/test_pipeline.py 23-47; gen_traffic.py 268-683).      *)
ScenarioVerdict ==
    Done => \A e \in Expected : capture = Plain(e.sent) =>
        /\ e.rules \subseteq {f.rule : f \in AllFindings}
        /\ e.sent \in Clean => AllFindings = {} /\ result.score = 100 /\ result.grade = "A"

-----------------------------------------------------------------------------
(* One conversation each. *)
Chain(chain) == <<ImplicitTls(60000, 993, ClientHello(TLS12, {\hc02f, \h0005}, Mail),
                              ServerHello(TLS12, \hc02f, NoGroup), chain, Secp256r1, "imap")>>
Leaf(not_after) == [Good EXCEPT !.not_after = not_after]
Wild == [Good EXCEPT !.san = {<<"*", "example">>}]
OddChains ==
    {<<Unreadable>>, <<Unreadable>> \o MailChain, <<MintCa, MailChain[1]>>, <<MailChain[1]>>,
     <<Wild>>, MailChain \o MailChain \o MailChain, <<MailChain[1], Good>>}
    \cup {<<Leaf(h)>> : h \in {-Day - 1, -Day, -1, 0, Day - 1, Day, 30 * Day, 31 * Day - 1, 31 * Day}}

Resumed == <<Conv(60001, 993,
    <<C(<<[ClientHello(TLS12, {\hc02f}, Mail) EXCEPT !.sid = TRUE]>>),
      S(<<[ServerHello(TLS12, \hc02f, NoGroup) EXCEPT !.ems = FALSE]>>),
      S(<<Record("ccs")>>), C(<<Record("ccs")>>), C(<<AppData>>), S(<<Text>>)>>)>>

Unnamed == <<ImplicitTls(60005, 993, ClientHello(TLS12, {\hc02f}, NoName),
                         ServerHello(TLS12, \hc02f, NoGroup), MailChain, Secp256r1, "imap")>>

(* random_mail_session, with one or two offers. *)
FewOffers(v) == {o \in Offers(v) : Cardinality(o) <= 2}
Random ==
    (UNION {{<<ImplicitSession("imap", 60002, RandomTls(v, o, pick, Mail, MailChain))>>
                : pick \in {Max(o), Min(o)}} : <<v, o>> \in UNION {{v} \X FewOffers(v) : v \in DOMAIN VersionCiphers}})
    \cup {<<UpgradeSession(p, 60003, RandomTls(TLS12, {\hc02f, \h002f}, \h002f, Mail, chain))>>
             : p \in Protocols, chain \in CertPools}
    \cup {<<PlainSession(p, 60004)>> : p \in Protocols}

-----------------------------------------------------------------------------
(* Several conversations. *)
To993(sport, v) ==
    ImplicitTls(sport, 993, ClientHello(v, {\hc02f, \h1301, \h0005}, Mail),
                ServerHello(v, CASE v = TLS13 -> \h1301 [] v = TLS12 -> \hc02f [] OTHER -> \h0005, NoGroup),
                MailChain, Secp256r1, "imap")
Course(vs) == [k \in DOMAIN vs |-> To993(61000 + k, vs[k])]
Courses == {Course(vs) : vs \in {TLS12} \X (TLS10 .. TLS13) \X (TLS10 .. TLS13) \X {TLS11, TLS10}}
Copies(n, one(_)) == [k \in 1 .. n |-> one(61100 + k)]
RcFour(sport) == ImplicitTls(sport, 465, ClientHello(TLS10, {\h0005, \h0004}, Old),
                             ServerHello(TLS10, \h0005, NoGroup), MailChain, NoGroup, "smtp")
Sound(sport) == To993(sport, TLS12)
Soon(sport) == ImplicitTls(sport, 993, ClientHello(TLS12, {\hc02f}, Lab("soon")),
                           ServerHello(TLS12, \hc02f, NoGroup), <<ExpiringSoon>>, Secp256r1, "imap")

(* The ports of one conversation used again, for another and for the same. *)
Reused == {<<HandshakeFailure[1], To993(51100, TLS12)>>, <<To993(51100, TLS12), To993(51100, TLS12)>>}
Loopback(sent) == [k \in DOMAIN sent |-> [i \in DOMAIN sent[k] |->
                      [sent[k][i] EXCEPT !.src.host = "loop", !.dst.host = "loop"]]]

Sets == {e.sent : e \in Expected} \cup {Chain(c) : c \in OddChains} \cup Random \cup Courses \cup Reused
        \cup {Resumed, Unnamed, BuildMixed, BuildMixed \o HostCertSwap, Copies(6, RcFour),
              Append(Copies(10, Sound), Soon(61200))}

-----------------------------------------------------------------------------
(* What happens to a file. *)
Some == {StarttlsOk, Pop3Cleartext, StarttlsStripped, InsecureReneg,
             <<UpgradeSession("imap", 60003, RandomTls(TLS12, {\hc02f, \h002f}, \h002f, Mail, MailChain))>>}
Lost == UNION {{File(s, Without(Places(s), n)) : n \in DOMAIN Places(s)} : s \in Some}
Duplicated == UNION {{File(s, Twice(Places(s), n)) : n \in DOMAIN Places(s)} : s \in Some}
Late == UNION {{File(s, Swapped(Places(s), n)) : n \in 1 .. Len(Places(s)) - 1} : s \in Some}
Backwards == {File(s, Reverse(Places(s))) : s \in Some \cup {HostCertSwap, BuildMixed}}

(* A second conversation within the first. *)
Two == <<HandshakeFailure[1], SmtpCleartextAuth[1]>>
Nested == LET one == [i \in DOMAIN Two[1] |-> <<1, i>>]
              two == [i \in DOMAIN Two[2] |-> <<2, i>>]
          IN  {File(Two, Inserted(two, n, one)) : n \in DOMAIN two}
              \cup {File(Two, Inserted(one, n, two)) : n \in DOMAIN one}

(* Frames of other protocols before some of the packets. *)
Noisy == {[cap EXCEPT !.frames = FlattenSeq([n \in DOMAIN @ |->
              IF n % 4 = 1 THEN <<[of |-> NotTcp, ts |-> n], @[n]>> ELSE <<@[n]>>])]
             : cap \in {Plain(s) : s \in {StarttlsOk, HostCertSwap, Pop3Cleartext}}}

(* A time 0, everywhere or in the first conversation only. *)
Timeless == {At(Plain(HostCertSwap), LAMBDA n : 0), At(Plain(HostVersionRegression), LAMBDA n : n - 1)}

(* The whole of a direction sent again, until it is full. *)
Resent(s) == File(s, Places(s) \o Places(s) \o Places(s))

Files ==
    {Plain(s) : s \in Sets} \cup Lost \cup Duplicated \cup Late \cup Backwards \cup Nested \cup Noisy
    \cup Timeless
    \cup {Resent(s) : s \in Some}
    \cup {Plain(Loopback(StarttlsOk)), File(Loopback(StarttlsOk), Reverse(Places(StarttlsOk)))}
    \cup {OfLink(l, f, Plain(Pop3Cleartext)) : l \in {"sll", "raw", "other"}, f \in {"classic", "pcapng"}}

(* The conversations are all orderly, so VerdictLocal is about each.       *)
ASSUME ConversationsAreOrderly ==
    \A sent \in UNION {{cap.sent[k] : k \in DOMAIN cap.sent} : cap \in Files} : Orderly(sent)

(* Models that learnt their labels, that fear everything, and that doubt.  *)
Verdict(anomaly, bad) == [anomaly |-> anomaly, bad |-> bad]
ModelSet ==
    {[l \in LabelNames |-> IF l = "low" THEN Verdict(FALSE, 0) ELSE Verdict(TRUE, 100)],
     [l \in LabelNames |-> Verdict(TRUE, 100)],
     [l \in LabelNames |-> Verdict(FALSE, 6)]}
=============================================================================
