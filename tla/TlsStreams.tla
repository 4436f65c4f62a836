----------------------------- MODULE TlsStreams -----------------------------
(***************************************************************************)
(* pipeline/tls_parser.py parse_stream and pipeline/sessions.py _merge_tls *)
(* as functions of two streams of TLS messages that are whole and in       *)
(* records of their own; TlsSession has the parser that cuts and raises.   *)
(***************************************************************************)
EXTENDS CipherSuites, Sequences, SequencesExt

NoVersion == 0
NoHost == <<>>

(* tls_parser.parse_stream, for whole messages *)

FailedHandshake == {40, 70, 71}
NoInfo == [hellos |-> 0, offered_version |-> NoVersion, offered |-> {}, sni |-> NoHost,
           resumption |-> FALSE, ems |-> FALSE, ri |-> FALSE, version |-> NoVersion,
           suite |-> NoSuite, group |-> 0, tls13 |-> FALSE, chain |-> <<>>, alerts |-> {},
           complete |-> FALSE, error |-> FALSE, over |-> FALSE]

ReadUnit(i, u) ==
    IF i.over THEN i ELSE
    CASE u.kind = "client_hello" ->
            [i EXCEPT !.hellos = @ + 1, !.offered_version = u.version, !.offered = @ \cup u.suites,
                      !.sni = IF u.sni = NoHost THEN @ ELSE u.sni,
                      !.resumption = @ \/ u.sid, !.ems = @ \/ u.ems, !.ri = @ \/ u.ri]
      [] u.kind = "server_hello" ->
            [i EXCEPT !.version = u.version, !.suite = u.suite, !.tls13 = @ \/ u.version = \h0304,
                      !.group = IF u.group = 0 THEN @ ELSE u.group,
                      !.ems = @ \/ u.ems, !.ri = @ \/ u.ri]
      [] u.kind = "certificate" /\ ~i.tls13 -> [i EXCEPT !.chain = @ \o u.chain]
      [] u.kind = "server_key_exchange" /\ ~i.tls13 -> [i EXCEPT !.group = u.group]
      [] u.kind = "finished" -> [i EXCEPT !.complete = @ \/ ~i.tls13]
      [] u.kind = "ccs" -> [i EXCEPT !.complete = @ \/ (~i.tls13 /\ i.suite # NoSuite)]
      [] u.kind = "app" -> [i EXCEPT !.complete = @ \/ i.tls13]
      [] u.kind = "alert" -> [i EXCEPT !.alerts = @ \cup {u.desc}]
      [] u.kind = "line" -> [i EXCEPT !.error = ~i.complete, !.over = TRUE]
      [] OTHER -> i

(* What is known after each unit of the stream. *)
Reader(stream) ==
    LET info[n \in 0 .. Len(stream)] ==
            IF n = 0 THEN NoInfo ELSE ReadUnit(info[n - 1], stream[n])
    IN  info

ParseStream(stream) ==
    LET i == Reader(stream)[Len(stream)]
    IN  [i EXCEPT !.complete = @ /\ i.alerts \cap FailedHandshake = {}]

(* _merge_tls *)
Or(x, y, none) == IF x # none THEN x ELSE y
MergeTls(c, s) ==
    LET suite == Or(s.suite, c.suite, NoSuite)
        chain == Or(s.chain, c.chain, <<>>)
    IN  [version |-> Or(Or(s.version, c.version, NoVersion), c.offered_version, NoVersion),
         suite |-> suite, kex |-> IF suite = NoSuite THEN "none" ELSE KexOf(suite),
         offered |-> c.offered, group |-> Or(s.group, c.group, 0), sni |-> c.sni,
         alerts |-> c.alerts \cup s.alerts, ems |-> c.ems /\ s.ems,
         secure_renegotiation |-> c.ri /\ s.ri, reneg_seen |-> c.hellos > 1 \/ s.hellos > 1,
         resumed |-> c.resumption, complete |-> c.complete \/ s.complete,
         error |-> c.error \/ s.error,
         cert_chains |-> IF chain = <<>> THEN <<>> ELSE <<chain>>]
NoTls == MergeTls(NoInfo, NoInfo)
=============================================================================
