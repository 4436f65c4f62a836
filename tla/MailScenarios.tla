--------------------------- MODULE MailScenarios ---------------------------
(***************************************************************************)
(* The named captures of scripts/gen_traffic.py and its random sessions.   *)
(* A capture is the sequence of its conversations, in the order of time.   *)
(***************************************************************************)
EXTENDS MailTraffic

Mail == Lab("mail")
Old == Lab("old")

ImplicitTls(sport, dport, ch, sh, chain, ske, proto) ==
    Conv(sport, dport, TlsHandshake(ch, sh, chain, ske) \o InsideTls[proto])

GoodSmtps == <<ImplicitTls(50123, 465, ClientHello(TLS12, {\hc02f, \hc027, \h002f}, Mail),
    ServerHello(TLS12, \hc02f, NoGroup), MailChain, Secp256r1, "smtp")>>

ImapsGood == <<ImplicitTls(50200, 993, ClientHello(TLS13, {\h1301, \h1302, \hc02f}, Mail),
    ServerHello(TLS13, \h1301, X25519), ChainLeafChain, Secp256r1, "imap")>>

Pop3sGood == <<ImplicitTls(50300, 995, ClientHello(TLS12, {\hc02f, \hc013}, Mail),
    ServerHello(TLS12, \hc02f, NoGroup), MailChain, Secp256r1, "pop3")>>

SmtpTls10Rc4 == <<ImplicitTls(50400, 465, ClientHello(TLS10, {\h0005, \h0004}, Old),
    ServerHello(TLS10, \h0005, NoGroup), MailChain, NoGroup, "smtp")>>

HealthyUpgrade ==
    StarttlsAccepted
    \o TlsHandshake(ClientHello(TLS12, {\hc02f, \h0035}, Mail), ServerHello(TLS12, \hc02f, NoGroup),
                    MailChain, Secp256r1)
    \o SmtpInsideTls
StarttlsOk == <<Conv(50500, 587, HealthyUpgrade)>>

Pop3Cleartext == <<Conv(50600, 110,
    <<S(<<Say("pop3")>>), C(<<Line("pop3", "USER")>>), S(<<Say("pop3")>>), C(<<Line("pop3", "PASS")>>),
      S(<<Say("pop3")>>), C(<<Text>>), S(<<Say("pop3"), Text, Text>>)>> \o Quit)>>

StarttlsStripped == <<Conv(50700, 25,
    <<Banner220, Ehlo, OffersStarttls, AsksStarttls, S(<<Text>>)>> \o MailFrom \o MailFrom \o Quit)>>

ImapExpiredCert == <<ImplicitTls(50800, 993, ClientHello(TLS12, {\hc02f, \h0035}, Old),
    ServerHello(TLS12, \hc02f, NoGroup), <<Expired>>, Secp256r1, "imap")>>

Pop3sWeakNopfs == <<ImplicitTls(50900, 995, ClientHello(TLS12, {\h0035, \h002f}, Lab("weak")),
    ServerHello(TLS12, \h0035, NoGroup), <<WeakKeyCert>>, NoGroup, "pop3")>>

ImapsSha1Selfsigned == <<ImplicitTls(51000, 993, ClientHello(TLS12, {\h002f}, Lab("self")),
    ServerHello(TLS12, \h002f, NoGroup), <<Sha1>>, NoGroup, "imap")>>

HandshakeFailure == <<Conv(51100, 993,
    <<C(<<ClientHello(TLS13, {\h1301, \h1302, \h1303}, Mail)>>), S(<<Alert(40)>>)>>)>>

InsecureReneg ==
    LET hello(sni) == [ClientHello(TLS12, {\hc02f}, sni) EXCEPT !.ri = FALSE]
        answer == ServerHello(TLS12, \hc02f, NoGroup)
    IN  <<Conv(52901, 465, TlsHandshake(hello(Mail), answer, MailChain, Secp256r1)
              \o <<C(<<hello(NoName)>>), S(<<answer>>), C(<<AppData>>)>>)>>

HostCertSwap ==
    LET to993(sport, suites, chain) ==
            ImplicitTls(sport, 993, ClientHello(TLS12, suites, Mail),
                        ServerHello(TLS12, \hc02f, NoGroup), chain, Secp256r1, "imap")
    IN  <<to993(52001, {\hc02f, \hc030}, MailChain), to993(52002, {\hc02f}, <<SelfSigned>>)>>

HostVersionRegression ==
    <<ImplicitTls(52101, 993, ClientHello(TLS12, {\hc02f, \hc013}, Mail),
                  ServerHello(TLS12, \hc02f, NoGroup), MailChain, Secp256r1, "imap"),
      ImplicitTls(52102, 993, ClientHello(TLS12, {\hc02f, \h0005}, Mail),
                  ServerHello(TLS10, \h0005, NoGroup), MailChain, NoGroup, "imap")>>

SmtpCleartextAuth == <<Conv(52201, 25,
    <<Banner220, Ehlo, OffersNone, C(<<Line("smtp", "AUTH LOGIN")>>), S(<<Text>>), C(<<Text>>),
      S(<<Text>>), C(<<Text>>), S(<<Text>>)>> \o MailFrom \o Quit)>>

SmtpNoStarttlsAdvert == <<Conv(52701, 25, <<Banner220, Ehlo, OffersNone>> \o MailFrom \o Quit)>>

PqcHybrid == <<ImplicitTls(52801, 465, ClientHello(TLS13, {\h1301, \h1302}, Mail),
    ServerHello(TLS13, \h1301, MlKem768), MailChain, NoGroup, "smtp")>>

HostnameMismatch == <<ImplicitTls(52811, 993, ClientHello(TLS12, {\hc02f, \h0035}, Mail),
    ServerHello(TLS12, \hc02f, NoGroup), MismatchChain, Secp256r1, "imap")>>

ImapCleartextLogin == <<Conv(52301, 143,
    <<S(<<Say("imap")>>), C(<<Line("imap", "LOGIN")>>), S(<<Text>>), C(<<Say("imap")>>), S(<<Text, Text>>),
      C(<<Text>>), S(<<Say("imap"), Text>>)>>)>>

AllCleanGold ==
    LET clean(sport, dport, suites, proto) ==
            ImplicitTls(sport, dport, ClientHello(TLS12, suites, Mail),
                        ServerHello(TLS12, \hc02f, NoGroup), MailChain, Secp256r1, proto)
    IN  <<clean(52401, 465, {\hc02f, \hc030, \h009e}, "smtp"),
          ImplicitTls(52402, 993, ClientHello(TLS13, {\h1301, \h1302, \hc02f}, Mail),
                      ServerHello(TLS13, \h1301, X25519), MailChain, Secp256r1, "imap"),
          clean(52403, 995, {\hc02f, \hc013}, "pop3"),
          Conv(52404, 587, HealthyUpgrade)>>

ExpiringSoonCert == <<ImplicitTls(52501, 993, ClientHello(TLS12, {\hc02f, \h0035}, Lab("soon")),
    ServerHello(TLS12, \hc02f, NoGroup), <<ExpiringSoon>>, Secp256r1, "imap")>>

NotYetValidCert == <<ImplicitTls(52601, 995, ClientHello(TLS12, {\hc02f}, Lab("future")),
    ServerHello(TLS12, \hc02f, NoGroup), <<NotYetValid>>, Secp256r1, "pop3")>>

AfterRemediation ==
    LET fixed(sport, dport, proto) ==
            ImplicitTls(sport, dport, ClientHello(TLS13, {\h1301, \hc02f, \hc030}, Mail),
                        ServerHello(TLS12, \hc02f, NoGroup), MailChain, Secp256r1, proto)
    IN  <<fixed(53065, 465, "smtp"), fixed(53093, 993, "imap"), fixed(53095, 995, "pop3"),
          Conv(53100, 587, HealthyUpgrade),
          ImplicitTls(53200, 995, ClientHello(TLS12, {\hc02f}, Mail),
                      ServerHello(TLS12, \hc02f, NoGroup), MailChain, Secp256r1, "pop3")>>

(* build_mixed: the first dozen in one capture, but for the failed one.    *)
BuildMixed ==
    GoodSmtps \o ImapsGood \o Pop3sGood \o SmtpTls10Rc4 \o StarttlsOk \o Pop3Cleartext
    \o StarttlsStripped \o ImapExpiredCert \o Pop3sWeakNopfs \o ImapsSha1Selfsigned \o InsecureReneg

-----------------------------------------------------------------------------
(* random_mail_session *)

VersionCiphers ==
    (TLS10 :> {\h0005, \h0004, \h000a, \h002f, \h0035, \h0002})
    @@ (TLS11 :> {\h0005, \h000a, \h002f, \h0035, \h0033, \h0039})
    @@ (TLS12 :> {\hc02f, \hc027, \hc030, \h009e, \h002f, \h0035, \h0005, \h000a, \hc013, \h009f})
    @@ (TLS13 :> {\h1301, \h1302, \h1303})
CertPools == {MailChain, <<Good>>, <<Expired>>, <<NotYetValid>>, <<ExpiringSoon>>, <<WeakKeyCert>>,
              <<Sha1>>, ChainLeafChain, <<SelfSigned>>}
SecurePort == [smtp |-> 465, imap |-> 993, pop3 |-> 995]
PlainPort == [smtp |-> 587, imap |-> 143, pop3 |-> 110]

RandomPlain == [
    smtp |-> <<C(<<Say("smtp"), Text, Text>>), S(<<Line("smtp", "220")>>)>>,
    imap |-> <<C(<<Line("imap", "LOGIN"), Text>>), S(<<Say("imap")>>)>>,
    pop3 |-> <<C(<<Line("pop3", "USER"), Line("pop3", "PASS"), Text>>), S(<<Say("pop3")>>)>>]
RandomUpgrade == [
    smtp |-> <<Banner220, Ehlo, S(<<Word("STARTTLS offered"), Text>>), AsksStarttls, Ready220>>,
    imap |-> <<S(<<Say("imap")>>), C(<<Word("STARTTLS")>>), S(<<Text>>)>>,
    pop3 |-> <<S(<<Say("pop3"), Text>>), C(<<Word("STARTTLS")>>), S(<<Line("pop3", "+OK begin")>>)>>]

(* The server takes the best or the worst number of up to four offers, and *)
(* with RSA or anonymous keys sends no ServerKeyExchange.                  *)
NoKeyExchange == {\h0002, \h0004, \h0005, \h000a, \h002f, \h0035}
RandomTls(version, offered, chosen, host, chain) ==
    TlsHandshake(ClientHello(version, offered, host),
                 ServerHello(version, chosen, IF version = TLS13 THEN X25519 ELSE NoGroup),
                 chain, IF chosen \in NoKeyExchange THEN NoGroup ELSE Secp256r1)
Offers(version) == {o \in SUBSET VersionCiphers[version] : Cardinality(o) \in 1 .. 4}

(* One session in ten stops after its handshake; here each has its mail.   *)
PlainSession(proto, sport) == Conv(sport, PlainPort[proto], RandomPlain[proto])
UpgradeSession(proto, sport, tls) ==
    Conv(sport, PlainPort[proto], RandomUpgrade[proto] \o tls \o InsideTls[proto])
ImplicitSession(proto, sport, tls) == Conv(sport, SecurePort[proto], tls \o InsideTls[proto])
=============================================================================
