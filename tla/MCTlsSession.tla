---------------------------- MODULE MCTlsSession ----------------------------
(* Connections for TlsSession, as TLS endpoints make them. *)
EXTENDS TlsSession

CH(version, sid, exts) ==
    [kind |-> "client_hello", version |-> version, sid |-> sid, exts |-> exts,
     ems |-> exts, ri |-> exts]
SH(version, sid, exts) ==
    [kind |-> "server_hello", version |-> version, sid |-> sid, exts |-> exts,
     ems |-> exts /\ version = "1.2", ri |-> exts /\ version = "1.2", cipher |-> IF version = "1.3" THEN \h1301 ELSE \hc02f]
Cert(chain) == [kind |-> "certificate", chain |-> chain]
Bare(kind) == [kind |-> kind]
Alrt(desc, sealed) == [kind |-> "alert", desc |-> desc, sealed |-> sealed]

(* TLS 1.2 with a client certificate, and an encrypted close_notify. *)
Full == [c2s |-> <<CH("1.2", None, TRUE), Cert("client"), Bare("client_key_exchange"),
                   Bare("ccs"), Bare("sealed"), Bare("app"), Alrt(0, TRUE)>>,
         s2c |-> <<SH("1.2", "b", TRUE), Cert("server"), Bare("server_key_exchange"),
                   Bare("other"), Bare("ccs"), Bare("sealed")>>]
Resumed == [c2s |-> <<CH("1.2", "a", TRUE), Bare("ccs"), Bare("sealed")>>,
            s2c |-> <<SH("1.2", "a", TRUE), Bare("ccs"), Bare("sealed"), Bare("app")>>]
(* The session id is there for middleboxes, and is echoed. *)
Tls13 == [c2s |-> <<CH("1.3", "a", TRUE), Bare("ccs"), Bare("app")>>,
          s2c |-> <<SH("1.3", "a", TRUE), Bare("ccs"), Bare("app")>>]
HelloRetry == [c2s |-> <<CH("1.3", "a", TRUE), Bare("ccs"), CH("1.3", "a", TRUE), Bare("app")>>,
               s2c |-> <<SH("1.3", "a", TRUE), Bare("ccs"), SH("1.3", "a", TRUE), Bare("app")>>]
(* A NULL suite leaves everything readable, a renegotiation too. *)
Null == [c2s |-> <<CH("1.2", None, TRUE), Bare("client_key_exchange"), Bare("ccs"),
                   Bare("finished"), CH("1.2", None, TRUE)>>,
         s2c |-> <<SH("1.2", None, TRUE), Cert("server"), Bare("other"), Bare("ccs"),
                   Bare("finished"), SH("1.2", None, TRUE), Cert("server")>>]
Old == [c2s |-> <<CH("1.2", "a", FALSE), Bare("client_key_exchange")>>,
        s2c |-> <<SH("1.2", None, FALSE), Cert("server"), Bare("other")>>]
(* Early data brings the client's change_cipher_spec forward. *)
Refused == [c2s |-> <<CH("1.3", "a", TRUE), Bare("ccs"), Bare("app")>>,
            s2c |-> <<Alrt(40, FALSE)>>]
NotEncrypted == [c2s |-> <<CH("1.2", None, TRUE)>>, s2c |-> <<Bare("plain")>>]

Connections == {Full, Resumed, Tls13, HelloRetry, Null, Old, Refused, NotEncrypted}

=============================================================================
