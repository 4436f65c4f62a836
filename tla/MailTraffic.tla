---------------------------- MODULE MailTraffic ----------------------------
(***************************************************************************)
(* scripts/gen_certs.py and scripts/gen_traffic.py: the certificates and   *)
(* the conversations the project tests and trains its analysis on.  A      *)
(* conversation is the sequence of its packets; the payload of a packet is *)
(* a sequence of units: a line of text, or one TLS record with one message.*)
(***************************************************************************)
EXTENDS Certificates, FiniteSetsExt

TLS10 == \h0301
TLS11 == \h0302
TLS12 == \h0303
TLS13 == \h0304
NoGroup == 0
Secp256r1 == \h0017
X25519 == \h001d
MlKem768 == \h11ec

-----------------------------------------------------------------------------
(* gen_certs.py.  The corpus is an hour old when it is analysed. *)

Age == 1
Lab(host) == <<host, "lab", "example">>

Key(kind, cn) ==
    CASE kind \in {"good", "self-signed", "chain"} -> [alg |-> "ECDSA", bits |-> 256, id |-> <<kind, cn>>]
      [] kind = "weak-key"                         -> [alg |-> "RSA", bits |-> 1024, id |-> <<kind, cn>>]
      [] OTHER                                     -> [alg |-> "RSA", bits |-> 2048, id |-> <<kind, cn>>]

(* The days on which a certificate becomes valid and expires. *)
Window(kind) ==
    CASE kind = "expired"       -> <<-30 - 365, -10>>
      [] kind = "not-yet-valid" -> <<7, 7 + 365>>
      [] kind = "expiring-soon" -> <<-30, 20>>
      [] OTHER                  -> <<-30, -30 + 365>>

MintCa == [subject |-> <<"ca">>, issuer |-> <<"ca">>, key |-> Key("ca", "ca"), signer |-> Key("ca", "ca"),
           hash |-> "sha256", san |-> {},
           not_before |-> -Day - Age, not_after |-> 3649 * Day - Age]

(* Signed by the CA, or else with its own key. *)
Mint(cn, kind, byCa) ==
    [subject |-> Lab(cn), issuer |-> IF byCa THEN MintCa.subject ELSE Lab(cn),
     key |-> Key(kind, cn), signer |-> IF byCa THEN MintCa.key ELSE Key(kind, cn),
     hash |-> IF kind = "sha1" THEN "sha1" ELSE "sha256", san |-> {Lab(cn)},
     not_before |-> Window(kind)[1] * Day - Age, not_after |-> Window(kind)[2] * Day - Age]

Made == [good |-> "mail", expired |-> "old", self_signed |-> "self", weak_key |-> "weak",
         not_yet_valid |-> "future", expiring_soon |-> "soon", sha1 |-> "sha1"]
Good == Mint(Made.good, "good", FALSE)
Expired == Mint(Made.expired, "expired", FALSE)
NotYetValid == Mint(Made.not_yet_valid, "not-yet-valid", FALSE)
ExpiringSoon == Mint(Made.expiring_soon, "expiring-soon", FALSE)
SelfSigned == Mint(Made.self_signed, "self-signed", FALSE)
WeakKeyCert == Mint(Made.weak_key, "weak-key", FALSE)
Sha1 == Mint(Made.sha1, "sha1", FALSE)
MailChain == <<Mint("mail", "good", TRUE), MintCa>>
ChainLeafChain == <<Mint("chain", "good", TRUE), MintCa>>
MismatchChain == <<Mint("other", "good", TRUE), MintCa>>

-----------------------------------------------------------------------------
(* A line of text: look is the protocol whose greeting or command it is    *)
(* when it begins a stream; says is what else is looked for in it.         *)
Line(look, says) == [kind |-> "line", look |-> look, says |-> says]
NoProtocol == "none"
Word(says) == Line(NoProtocol, says)
Text == Word("")
Say(proto) == Line(proto, "")

Packet(from, units) == [from |-> from, syn |-> FALSE, ack |-> TRUE, fin |-> FALSE, payload |-> units]
C(units) == Packet("client", units)
S(units) == Packet("server", units)
Connect == <<[C(<<>>) EXCEPT !.syn = TRUE, !.ack = FALSE], [S(<<>>) EXCEPT !.syn = TRUE], C(<<>>)>>
Finish == <<[C(<<>>) EXCEPT !.fin = TRUE], [S(<<>>) EXCEPT !.fin = TRUE], C(<<>>)>>

(* Conv: initial sequence numbers, one more for every unit, SYN and FIN.   *)
Isn == [client |-> 1000, server |-> 5000]
Conv(sport, dport, script) ==
    LET all == Connect \o script \o Finish
        size(p) == Len(p.payload) + (IF p.syn \/ p.fin THEN 1 ELSE 0)
        ahead(i) == {j \in 1 .. i - 1 : all[j].from = all[i].from}
        end == [client |-> [host |-> "client", port |-> sport],
                server |-> [host |-> "server", port |-> dport]]
        peer == [client |-> "server", server |-> "client"]
    IN  [i \in DOMAIN all |->
            [src |-> end[all[i].from], dst |-> end[peer[all[i].from]],
             syn |-> all[i].syn, ack |-> all[i].ack,
             seq |-> Isn[all[i].from] + MapThenSumSet(LAMBDA j : size(all[j]), ahead(i)),
             payload |-> all[i].payload]]

-----------------------------------------------------------------------------
(* TLS records. *)

ClientHello(version, suites, sni) ==
    [kind |-> "client_hello", version |-> version, suites |-> suites, sni |-> sni,
     sid |-> FALSE, ems |-> TRUE, ri |-> TRUE]
ServerHello(version, suite, group) ==
    [kind |-> "server_hello", version |-> version, suite |-> suite, group |-> group,
     ems |-> TRUE, ri |-> FALSE]
Alert(desc) == [kind |-> "alert", desc |-> desc]
Record(kind) == [kind |-> kind]
AppData == Record("app")

TlsHandshake(ch, sh, chain, ske) ==
    <<C(<<ch>>), S(<<sh>>)>>
    \o (IF chain # <<>> THEN <<S(<<[kind |-> "certificate", chain |-> chain]>>)>> ELSE <<>>)
    \o (IF chain # <<>> /\ ske # NoGroup
          THEN <<S(<<[kind |-> "server_key_exchange", group |-> ske]>>)>> ELSE <<>>)
    \o <<C(<<Record("client_key_exchange")>>), C(<<Record("ccs")>>), S(<<Record("ccs")>>),
         C(<<AppData>>), S(<<AppData>>)>>

(* Records with mail in them: for a passive reader one exchange is like    *)
(* all of them.                                                            *)
SmtpInsideTls == <<C(<<AppData>>), S(<<AppData>>)>>
ImapInsideTls == <<S(<<AppData>>), C(<<AppData>>)>>
Pop3InsideTls == <<S(<<AppData>>), C(<<AppData>>)>>
InsideTls == [smtp |-> SmtpInsideTls, imap |-> ImapInsideTls, pop3 |-> Pop3InsideTls]

(* The lines of the plain dialogues. *)
Banner220 == S(<<Line("smtp", "220")>>)
Ehlo == C(<<Say("smtp")>>)
OffersStarttls == S(<<Text, Word("STARTTLS offered"), Text>>)
OffersNone == S(<<Text, Text, Text>>)
AsksStarttls == C(<<Word("STARTTLS")>>)
Ready220 == S(<<Line("smtp", "220 ready")>>)
Quit == <<C(<<Text>>), S(<<Text>>)>>
MailFrom == <<C(<<Text>>), S(<<Text>>)>>
StarttlsAccepted == <<Banner220, Ehlo, OffersStarttls, AsksStarttls, Ready220>>
=============================================================================
