---------------------------- MODULE MailSessions ----------------------------
(***************************************************************************)
(* pipeline/protocols.py and pipeline/sessions.py: the mail session that   *)
(* is read from a flow.                                                    *)
(***************************************************************************)
EXTENDS FlowTable, TlsStreams

Ports == [smtp |-> {25, 465, 587}, imap |-> {143, 993}, pop3 |-> {110, 995}]
Protocols == DOMAIN Ports
WellKnown == UNION {Ports[p] : p \in Protocols}

NoSession == [protocol |-> "none"]

Begins(stream, kind) == stream # <<>> /\ stream[1].kind = kind
Says(stream, i, what) == stream[i].kind = "line" /\ stream[i].says = what
Where(stream, what) == {i \in DOMAIN stream : Says(stream, i, what)}
First(places) == CHOOSE i \in places : \A j \in places : i <= j

-----------------------------------------------------------------------------
(* protocols.identify, in tenths of a point; smtp comes before imap before *)
(* pop3 in the dictionary, but for the protocol of the server's greeting.  *)

Looks(stream, p) == Begins(stream, "line") /\ stream[1].look = p
Score(c2s, s2c, ports, p) ==
    (IF Looks(s2c, p) THEN 20 ELSE 0) + (IF Looks(c2s, p) THEN 20 ELSE 0)
    + (IF ports \cap Ports[p] # {} THEN 3 ELSE 0)

FirstOf(ps) == IF "smtp" \in ps THEN "smtp" ELSE IF "imap" \in ps THEN "imap" ELSE "pop3"

Identify(c2s, s2c, ports, encrypted) ==
    LET near == {p \in Protocols : ports \cap Ports[p] # {}}
        best == {p \in Protocols : \A q \in Protocols :
                     Score(c2s, s2c, ports, p) >= Score(c2s, s2c, ports, q)}
        pick == IF \E p \in best : Looks(s2c, p) THEN CHOOSE p \in best : Looks(s2c, p)
                ELSE FirstOf(best)
    IN  IF encrypted THEN IF near = {} THEN "none" ELSE FirstOf(near)
        ELSE IF Score(c2s, s2c, ports, pick) >= 20 THEN pick ELSE "none"

-----------------------------------------------------------------------------
(* _split_starttls_stream: the streams after the upgrade, and whether the  *)
(* request was followed by no ClientHello.  The server's TLS begins after  *)
(* its answer to the request; the answer of an IMAP server is not one of   *)
(* those looked for.                                                       *)
After(stream, i) == SubSeq(stream, i + 1, Len(stream))
AnswerAt(s2c) ==
    LET answers == <<Where(s2c, "220 ready"), Where(s2c, "+OK begin"), Where(s2c, "220")>>
        found   == {k \in 1 .. 3 : answers[k] # {}}
    IN  IF found = {} THEN Len(s2c) ELSE First(answers[First(found)])

SplitStarttls(c2s, s2c) ==
    LET asked == Where(c2s, "STARTTLS")
        tls_c == After(c2s, First(asked))
    IN  IF asked = {} THEN [c2s |-> <<>>, s2c |-> <<>>, stripped |-> FALSE]
        ELSE [c2s |-> tls_c, s2c |-> After(s2c, AnswerAt(s2c)),
              stripped |-> ~Begins(tls_c, "client_hello")]

(* Mutant: the first packet captured is taken for the client's. *)
ServerOfFirst(flow) == flow.dst

(* _server_of *)
ServerOf(flow) ==
    IF \/ flow.saw_syn_from_src /\ ~flow.saw_synack_from_dst
       \/ flow.dst.port \in WellKnown \/ flow.src.port \notin WellKnown
      THEN flow.dst ELSE flow.src

(* scan_cleartext_credentials *)
CredentialsIn(c2s) ==
    LET kinds == [c \in {"AUTH PLAIN", "LOGIN", "AUTH LOGIN"} |-> Where(c2s, c) # {}]
        pass  == \E i \in Where(c2s, "USER") : i + 1 \in Where(c2s, "PASS")
    IN  {c \in DOMAIN kinds : kinds[c]} \cup (IF pass THEN {"USER PASS"} ELSE {})

(* build_session.  The host of the client is looked for by address alone.  *)
(* The frames stay those of the flow's directions when the streams are     *)
(* swapped.  Times are known if the first direction has a time but 0.      *)
BuildSession(flow) ==
    LET src     == Reassemble(flow.c2s)
        dst     == Reassemble(flow.s2c)
        server  == ServerOf(flow)
        client  == IF server.host = flow.dst.host THEN flow.src ELSE flow.dst
        c2s     == IF client = flow.src THEN src ELSE dst
        s2c     == IF client = flow.src THEN dst ELSE src
        hello   == Begins(c2s, "client_hello")
        base    == Identify(c2s, s2c, {client.port, server.port}, hello)
        upgrade == SplitStarttls(c2s, s2c)
        mode    == IF hello THEN "implicit"
                   ELSE IF ~upgrade.stripped /\ upgrade.c2s # <<>> THEN "starttls" ELSE "plaintext"
        tls     == CASE mode = "implicit" -> MergeTls(ParseStream(c2s), ParseStream(s2c))
                     [] mode = "starttls" -> MergeTls(ParseStream(upgrade.c2s), ParseStream(upgrade.s2c))
                     [] OTHER -> NoTls
    IN  IF base = "none" \/ (src = <<>> /\ dst = <<>>) THEN NoSession
        ELSE [protocol |-> base, transport |-> mode, client |-> client, server |-> server, tls |-> tls,
              server_host |-> tls.sni, started_plain |-> mode = "starttls" \/ (~hello /\ upgrade.stripped),
              start |-> IF flow.c2s.start \in {NoTime, 0} THEN NoTime ELSE flow.start,
              incomplete |-> Incomplete(flow.c2s) \/ Incomplete(flow.s2c),
              truncated |-> flow.c2s.truncated \/ flow.s2c.truncated,
              frames |-> FramesOf(flow.c2s) \o FramesOf(flow.s2c),
              cleartext_creds |-> CredentialsIn(c2s),
              advertised |-> base = "smtp" /\ mode = "plaintext" /\ Where(s2c, "STARTTLS offered") # {}]
=============================================================================
