---------------------------- MODULE TlsSession ----------------------------
(***************************************************************************)
(* From the bytes of a TLS connection to the session record:               *)
(* tls_parser.parse_stream on the client's stream, then on the server's,   *)
(* then sessions._merge_tls.  What the two sides sent is given (Wires);    *)
(* how their messages are cut into records, and where the capture ends, is *)
(* chosen record by record as the parser reads.                            *)
(*                                                                         *)
(* Bytes that are not the start of a readable message (the rest of a       *)
(* message, an encrypted one) are read as a message header all the same.   *)
(* Assumed: they do not happen to spell the type of a message the parser   *)
(* knows with a length that fits.                                          *)
(***************************************************************************)
EXTENDS Integers, Sequences, FiniteSets

CONSTANTS
    Wires,          \* what connections send: two streams of items each
    Ids,            \* session ids
    Suites, Certs,  \* cipher suites, by number; chains, as a Certificate message has one
    NoSession,      \* no session record yet
    None            \* an empty session id, no suite, no version

Dirs == {"c2s", "s2c"}
Versions == {"1.2", "1.3"}
(* 40 stands for the three descriptions that mean a failed handshake. *)
AlertDescs == {0, 40}

(* A hello may have no block of extensions; of the extensions there are    *)
(* supported_versions (in version), extended_master_secret and             *)
(* renegotiation_info.  A sealed message or alert is an encrypted one;     *)
(* plain are bytes that are no TLS record.                                 *)
ClientHello == [kind : {"client_hello"}, version : Versions, sid : Ids \cup {None},
                exts : BOOLEAN, ems : BOOLEAN, ri : BOOLEAN]
ServerHello == [kind : {"server_hello"}, version : Versions, sid : Ids \cup {None},
                exts : BOOLEAN, ems : BOOLEAN, ri : BOOLEAN, cipher : Suites]
Certificate == [kind : {"certificate"}, chain : Certs]
BareMessage == [kind : {"server_key_exchange", "client_key_exchange", "finished", "other", "sealed"}]
Handshake == ClientHello \cup ServerHello \cup Certificate \cup BareMessage
Alert == [kind : {"alert"}, desc : AlertDescs, sealed : BOOLEAN]
Item == Handshake \cup Alert \cup [kind : {"ccs", "app", "plain"}]

(* What the timeline of events shows. *)
Shown == {"client_hello", "server_hello", "certificate", "alert", "ccs",
          "server_key_exchange", "client_key_exchange"}

ASSUME WiresAssumption == Wires \subseteq [Dirs -> Seq(Item)]
(* A side that encrypts its handshake does not go back, and in TLS 1.3 it  *)
(* encrypts its certificate.                                               *)
ASSUME EncryptionAssumption ==
    \A w \in Wires, d \in Dirs : \A i, j \in 1 .. Len(w[d]) :
        /\ i < j /\ w[d][i].kind = "sealed" /\ w[d][j] \in Handshake => w[d][j].kind = "sealed"
        /\ w[d][i].kind = "server_hello" /\ w[d][i].version = "1.3" => w[d][j].kind # "certificate"
(* 0 is the number of no suite in the code. *)
ASSUME SuitesAssumption == Suites \subseteq Nat \ {0}
ASSUME NoneAssumption == None \notin Ids /\ None \notin Suites /\ None \notin Versions

VARIABLES
    wire,           \* what was sent
    dir,            \* the stream being read, then "merge", then "done"
    left,           \* the items of it not yet in a record
    started,        \* a part of Head(left) was in the last record
    hs,             \* the pieces of hs_buf not yet looked at
    over,           \* the loop was left before the end of the stream
    info,           \* HandshakeInfo of each stream
    sess,           \* the fields of Session that _merge_tls sets
    split,          \* history: some message was cut in two
    short           \* history: the capture misses the end of a stream

history == <<split, short>>
vars == <<wire, dir, left, started, hs, over, info, sess, history>>

(* The flags nothing reads are left out. *)
HandshakeInfo ==
    [hellos : Nat, renegotiation : BOOLEAN, offered : Versions \cup {None},
     sid : Ids \cup {None}, resumption : BOOLEAN, ems : BOOLEAN, ri : BOOLEAN,
     version : Versions \cup {None}, cipher : Suites \cup {None}, tls13 : BOOLEAN,
     chain : Seq(Certs), alerts : SUBSET AlertDescs, complete : BOOLEAN, error : BOOLEAN,
     events : Seq(Shown)]
NoInfo ==
    [hellos |-> 0, renegotiation |-> FALSE, offered |-> None, sid |-> None,
     resumption |-> FALSE, ems |-> FALSE, ri |-> FALSE,
     version |-> None, cipher |-> None, tls13 |-> FALSE,
     chain |-> <<>>, alerts |-> {}, complete |-> FALSE, error |-> FALSE, events |-> <<>>]

Init ==
    /\ wire \in Wires
    /\ dir = "c2s" /\ left = wire.c2s
    /\ started = FALSE /\ hs = <<>> /\ over = FALSE
    /\ info = [d \in Dirs |-> NoInfo]
    /\ sess = NoSession
    /\ split = FALSE /\ short = FALSE

-----------------------------------------------------------------------------
(* The loop over records.                                                  *)

AtRecord == dir \in Dirs /\ ~over /\ hs = <<>>
Reading(kind) == AtRecord /\ left # <<>> /\ Head(left).kind = kind
Consumed == left' = Tail(left) /\ UNCHANGED <<wire, dir, started, hs, over, sess, history>>

I == info[dir]
Event(i, e) == [i EXCEPT !.events = Append(@, e)]

(* An encrypted alert has two bytes of ciphertext where the level and the  *)
(* description of a readable one are.                                      *)
ParseAlert ==
    /\ Reading("alert")
    /\ \E desc \in IF Head(left).sealed THEN AlertDescs ELSE {Head(left).desc} :
           info' = [info EXCEPT ![dir] = Event([I EXCEPT !.alerts = @ \cup {desc}], "alert")]
    /\ Consumed

(* Mutant: a change_cipher_spec completes the handshake on its own. *)
ParseCcsAlone ==
    /\ Reading("ccs")
    /\ info' = [info EXCEPT ![dir] = Event([I EXCEPT !.complete = @ \/ ~I.tls13], "ccs")]
    /\ Consumed

ParseCcs ==
    /\ Reading("ccs")
    /\ info' = [info EXCEPT ![dir] =
           Event([I EXCEPT !.complete = @ \/ (~I.tls13 /\ I.cipher # None)], "ccs")]
    /\ Consumed

ParseApplicationData ==
    /\ Reading("app")
    /\ info' = [info EXCEPT ![dir].complete = @ \/ I.tls13]
    /\ Consumed

NotTls ==
    /\ Reading("plain")
    /\ info' = [info EXCEPT ![dir].error = @ \/ ~I.complete]
    /\ over' = TRUE
    /\ UNCHANGED <<wire, dir, left, started, hs, sess, history>>

(* A handshake record: n messages to their end and, if more is set, a part *)
(* of the next.  The first of them may have begun in the record before.    *)
HandshakeRecord(n, more) ==
    LET m == IF more THEN n + 1 ELSE n
        part(i) == IF i = 1 /\ started THEN "rest" ELSE IF i = n + 1 THEN "front" ELSE "whole"
    IN  /\ AtRecord
        /\ m \in 1 .. Len(left) /\ \A i \in 1 .. m : left[i] \in Handshake
        /\ hs' = [i \in 1 .. m |-> [item |-> left[i], part |-> part(i)]]
        /\ left' = SubSeq(left, n + 1, Len(left))
        /\ started' = more
        /\ split' = (split \/ more)
        /\ UNCHANGED <<wire, dir, over, info, sess, short>>

ReadHandshakeRecord ==
    \E n \in 0 .. Len(left) : \E more \in BOOLEAN : HandshakeRecord(n, more)

-----------------------------------------------------------------------------
(* The loop over messages in hs_buf.                                       *)

AtMessage(kind) == dir \in Dirs /\ hs # <<>> /\ Head(hs).part = "whole" /\ Head(hs).item.kind = kind
M == Head(hs).item

(* Mutant: a record is left after its first message. *)
NextRecord == hs' = <<>> /\ UNCHANGED <<wire, dir, left, started, over, sess, history>>

NextMessage == hs' = Tail(hs) /\ UNCHANGED <<wire, dir, left, started, over, sess, history>>

(* An exception leaves both loops; what was set before it stays. *)
Raise(i) ==
    /\ info' = [info EXCEPT ![dir] = [i EXCEPT !.error = TRUE]]
    /\ hs' = <<>> /\ over' = TRUE
    /\ UNCHANGED <<wire, dir, left, started, sess, history>>

(* A hello that ends without an extensions block is legal before TLS 1.3;  *)
(* _read_vec raises on it.                                                 *)
Hello(i, event) ==
    IF M.exts
      THEN /\ info' = [info EXCEPT ![dir] =
                  Event([i EXCEPT !.ems = @ \/ M.ems, !.ri = @ \/ M.ri], event)]
           /\ NextMessage
      ELSE Raise(i)

(* Mutant: off by one, client_hello_count >= 1 where the code has > 1.   *)
ParseClientHelloCounts ==
    /\ AtMessage("client_hello")
    /\ Hello([I EXCEPT !.hellos = @ + 1,
                       !.renegotiation = @ \/ I.hellos >= 0,
                       !.offered = M.version,
                       !.sid = M.sid,
                       !.resumption = @ \/ M.sid # None], "client_hello")

ParseClientHello ==
    /\ AtMessage("client_hello")
    /\ Hello([I EXCEPT !.hellos = @ + 1,
                       !.renegotiation = @ \/ I.hellos > 0,
                       !.offered = M.version,
                       !.sid = M.sid,
                       !.resumption = @ \/ M.sid # None], "client_hello")

(* The session id is compared with that of the same stream. *)
ParseServerHello ==
    /\ AtMessage("server_hello")
    /\ Hello([I EXCEPT !.resumption = CASE M.sid # None /\ M.sid = I.sid -> TRUE
                                        [] M.sid = None /\ I.sid # None -> FALSE
                                        [] OTHER -> @,
                       !.cipher = M.cipher,
                       !.version = M.version,
                       !.tls13 = @ \/ M.version = "1.3"], "server_hello")

ParseCertificate ==
    /\ AtMessage("certificate")
    /\ info' = [info EXCEPT ![dir] =
           IF I.tls13 THEN I ELSE Event([I EXCEPT !.chain = Append(@, M.chain)], "certificate")]
    /\ NextMessage

ParseKeyExchange ==
    /\ AtMessage("server_key_exchange") \/ AtMessage("client_key_exchange")
    /\ info' = [info EXCEPT ![dir] = Event(I, M.kind)]
    /\ NextMessage

ParseFinished ==
    /\ AtMessage("finished")
    /\ info' = [info EXCEPT ![dir].complete = @ \/ ~I.tls13]
    /\ NextMessage

SkipMessage == AtMessage("other") /\ NextMessage /\ UNCHANGED info

(* `break  # wait for more records`, and then `hs_buf = b""`. *)
WaitForMore ==
    /\ dir \in Dirs /\ hs # <<>> /\ Head(hs).part = "front"
    /\ hs' = <<>>
    /\ UNCHANGED <<wire, dir, left, started, over, info, sess, history>>

(* The length read from bytes that are no header goes past the end of the  *)
(* buffer, or to some later message in it.                                 *)
Misread ==
    /\ dir \in Dirs /\ hs # <<>> /\ (Head(hs).part = "rest" \/ M.kind = "sealed")
    /\ \E n \in 1 .. Len(hs) : hs' = SubSeq(hs, n + 1, Len(hs))
    /\ UNCHANGED <<wire, dir, left, started, over, info, sess, history>>

-----------------------------------------------------------------------------
(* A stream ends where the capture does, or where the loop was left. *)
EndOfStream ==
    /\ dir \in Dirs /\ hs = <<>>
    /\ info' = [info EXCEPT ![dir].complete = @ /\ 40 \notin I.alerts]
    /\ dir' = IF dir = "c2s" THEN "s2c" ELSE "merge"
    /\ left' = IF dir = "c2s" THEN wire.s2c ELSE <<>>
    /\ started' = FALSE /\ over' = FALSE
    /\ short' = (short \/ (~over /\ left # <<>>))
    /\ UNCHANGED <<wire, hs, sess, split>>

MergeTls ==
    LET c == info["c2s"]
        s == info["s2c"]
        Or(x, y) == IF x # None THEN x ELSE y
    IN  /\ dir = "merge"
        /\ sess' = [version |-> Or(Or(s.version, c.version), c.offered),
                    cipher |-> Or(s.cipher, c.cipher),
                    alerts |-> c.alerts \cup s.alerts,
                    ems |-> c.ems /\ s.ems,
                    ri |-> c.ri /\ s.ri,
                    renegotiation |-> c.renegotiation \/ s.renegotiation,
                    resumed |-> c.resumption,
                    complete |-> c.complete \/ s.complete,
                    tls13 |-> c.tls13 \/ s.tls13,
                    error |-> c.error \/ s.error,
                    events |-> c.events \o s.events,
                    chain |-> IF s.chain # <<>> THEN s.chain ELSE c.chain]
        /\ dir' = "done"
        /\ UNCHANGED <<wire, left, started, hs, over, info, history>>

ParseMessage ==
    \/ ParseClientHello \/ ParseServerHello \/ ParseCertificate \/ ParseKeyExchange
    \/ ParseFinished \/ SkipMessage \/ WaitForMore \/ Misread
ParseRecord == ParseAlert \/ ParseCcs \/ ParseApplicationData \/ NotTls \/ ReadHandshakeRecord

Next == ParseRecord \/ ParseMessage \/ EndOfStream \/ MergeTls

Spec == Init /\ [][Next]_vars

-----------------------------------------------------------------------------
(* What a session record may say of a connection.                          *)

Sent(d, kind) == {i \in 1 .. Len(wire[d]) : wire[d][i].kind = kind}

(* What a passive reader can tell of the first n items of a stream: an     *)
(* item is shown as the how many-th of its kinds it is.                    *)
Ordinal(w, kinds, k) == Cardinality({j \in 1 .. k : w[j].kind \in kinds})
EventsRead(e, w, n) ==
    /\ Len(e) = Ordinal(w, Shown, n)
    /\ \A k \in 1 .. n : w[k].kind \in Shown => e[Ordinal(w, Shown, k)] = w[k].kind
ChainsRead(c, w, n) ==
    /\ Len(c) = Ordinal(w, {"certificate"}, n)
    /\ \A k \in 1 .. n :
          w[k].kind = "certificate" => c[Ordinal(w, {"certificate"}, k)] = w[k].chain
AlertsRead(a, w, n) == \A k \in 1 .. n : w[k].kind = "alert" => w[k].sealed \/ w[k].desc \in a

(* The facts do not depend on how many messages share a record: if none is *)
(* cut in two, the capture is whole TLS and nothing was refused, the       *)
(* events are those of the client and then of the server, in order, and    *)
(* the chain and the alerts are the ones sent.                             *)
ReportExact ==
    dir = "done" /\ ~split /\ ~short /\ ~sess.error /\ (\A d \in Dirs : Sent(d, "plain") = {}) =>
        /\ \E n \in 0 .. Len(sess.events) :
              /\ EventsRead(SubSeq(sess.events, 1, n), wire.c2s, Len(wire.c2s))
              /\ EventsRead(SubSeq(sess.events, n + 1, Len(sess.events)), wire.s2c, Len(wire.s2c))
        /\ Sent("s2c", "certificate") # {} => ChainsRead(sess.chain, wire.s2c, Len(wire.s2c))
        /\ \A d \in Dirs : AlertsRead(sess.alerts, wire[d], Len(wire[d]))

(* However the messages are cut and wherever the capture ends: a suite, a  *)
(* chain or an extension is in the report only if it was sent, extensions  *)
(* only if both sides did, a handshake is complete only if a server        *)
(* answered, and renegotiated only if a client began it twice.             *)
SuiteSent(c, d) == c # None => \E i \in Sent(d, "server_hello") : wire[d][i].cipher = c
ChainSent(c, d) == \A k \in 1 .. Len(c) : \E i \in Sent(d, "certificate") : wire[d][i].chain = c[k]
EmsSent(d) == \E i \in Sent(d, "client_hello") \cup Sent(d, "server_hello") : wire[d][i].ems
RiSent(d) == \E i \in Sent(d, "client_hello") \cup Sent(d, "server_hello") : wire[d][i].ri
Answered(d) == Sent(d, "server_hello") \cup Sent(d, "finished") # {}
HelloTwice(d) == \E i, j \in Sent(d, "client_hello") : i < j
NothingInvented ==
    dir = "done" =>
        /\ \E d \in Dirs : SuiteSent(sess.cipher, d)
        /\ \E d \in Dirs : ChainSent(sess.chain, d)
        /\ sess.ems => \A d \in Dirs : EmsSent(d)
        /\ sess.ri => \A d \in Dirs : RiSent(d)
        /\ sess.complete => \E d \in Dirs : Answered(d)
        /\ sess.renegotiation => \E d \in Dirs : HelloTwice(d)

(* tls_parser.py:377, "wait for more records": a chain that was captured   *)
(* in full is in the report, also if its message needs two records.        *)
SplitCertificateSeen ==
    dir = "done" /\ ~short /\ ~sess.error /\ Sent("s2c", "certificate") # {} =>
        ChainsRead(sess.chain, wire.s2c, Len(wire.s2c))

-----------------------------------------------------------------------------
(* The parser of the analysis (MailSessions uses it), and what it makes of *)
(* the messages of this connection.                                        *)
Pipeline == INSTANCE TlsStreams

Number(v) ==
    IF v = "1.2" THEN \h0303 ELSE IF v = "1.3" THEN \h0304 ELSE Pipeline!NoVersion
SuiteNo(c) == IF c = None THEN Pipeline!NoSuite ELSE c
UnitOf(m) ==
    CASE m.kind = "client_hello" ->
            [kind |-> m.kind, version |-> Number(m.version), suites |-> {}, sni |-> Pipeline!NoHost,
             sid |-> m.sid # None, ems |-> m.ems, ri |-> m.ri]
      [] m.kind = "server_hello" ->
            [kind |-> m.kind, version |-> Number(m.version), suite |-> SuiteNo(m.cipher), group |-> 0,
             ems |-> m.ems, ri |-> m.ri]
      [] m.kind = "certificate" -> [kind |-> m.kind, chain |-> <<m.chain>>]
      [] m.kind = "server_key_exchange" -> [kind |-> m.kind, group |-> 0]
      [] m.kind = "alert" -> [kind |-> m.kind, desc |-> m.desc]
      [] m.kind = "plain" -> [kind |-> "line"]
      [] OTHER -> [kind |-> m.kind]
Units(d) == [k \in 1 .. Len(wire[d]) |-> UnitOf(wire[d][k])]
Read(d) == Pipeline!ParseStream(Units(d))

(* The hellos of a stream are those of one side, and none is refused. *)
Ordinary(d) ==
    /\ Sent(d, "client_hello") = {} \/ Sent(d, "server_hello") = {}
    /\ \A k \in Sent(d, "client_hello") \cup Sent(d, "server_hello") : wire[d][k].exts
AlertsAsSent ==
    \A d \in Dirs : \A k \in Sent(d, "alert") :
        wire[d][k].sealed => sess.alerts = {wire[d][k].desc}

(* What the parser makes of a connection, record by record, is what the    *)
(* analysis computes of its messages, if the capture is whole, no message  *)
(* is cut, no hello is refused and the ciphertext of an alert is taken for *)
(* what it was (tls_parser.py 334-422, sessions.py 251-287).               *)
ParserMatchesPipeline ==
    dir = "done" /\ ~split /\ ~short /\ (\A d \in Dirs : Ordinary(d)) /\ AlertsAsSent =>
        LET t == Pipeline!MergeTls(Read("c2s"), Read("s2c"))
        IN  /\ t.version = Number(sess.version) /\ t.suite = SuiteNo(sess.cipher)
            /\ t.cert_chains = IF sess.chain = <<>> THEN <<>> ELSE <<sess.chain>>
            /\ t.alerts = sess.alerts /\ t.ems = sess.ems /\ t.secure_renegotiation = sess.ri
            /\ t.reneg_seen = sess.renegotiation /\ t.resumed = sess.resumed
            /\ t.complete = sess.complete /\ t.error = sess.error

-----------------------------------------------------------------------------
(* Where the parser is: items in records read, and items looked at. *)
Pos == Len(wire[dir]) - Len(left)
Began == IF started THEN 1 ELSE 0
Looked(d) ==
    IF d = dir THEN IF hs = <<>> THEN Pos ELSE Pos + Began - Len(hs)
    ELSE IF dir = "c2s" THEN 0 ELSE Len(wire[d])

(* left is the tail of the stream, and hs the items before it; the last of *)
(* these is cut, and the first of left, if started.                        *)
InPlace ==
    dir \in Dirs =>
        /\ left \in Seq(Item) /\ Len(left) <= Len(wire[dir])
        /\ \A k \in 1 .. Len(left) : left[k] = wire[dir][Pos + k]
        /\ started => left # <<>> /\ Head(left) \in Handshake
        /\ hs \in Seq([item : Handshake, part : {"whole", "front", "rest"}])
        /\ Len(hs) <= Pos + Began
        /\ \A k \in 1 .. Len(hs) : hs[k].item = wire[dir][Pos + Began - Len(hs) + k]
        /\ started /\ hs # <<>> => hs[Len(hs)].part # "whole"

(* What is known of a stream was in the part of it looked at. *)
Known(i, d) ==
    /\ i.hellos \in Nat
    /\ i.hellos > 0 => \E k \in Sent(d, "client_hello") : k <= Looked(d)
    /\ i.renegotiation => HelloTwice(d)
    /\ SuiteSent(i.cipher, d) /\ ChainSent(i.chain, d)
    /\ i.ems => EmsSent(d)
    /\ i.ri => RiSent(d)
    /\ i.tls13 => \E k \in Sent(d, "server_hello") : wire[d][k].version = "1.3"
    /\ i.complete => Answered(d)

(* While no message was cut, and nothing was refused or is no TLS at all,  *)
(* all that was looked at of a stream was read.                            *)
AllRead(d) ==
    ~split /\ ~info[d].error /\ Sent(d, "plain") = {} /\ (d = dir \/ ~short) =>
        /\ EventsRead(info[d].events, wire[d], Looked(d))
        /\ ChainsRead(info[d].chain, wire[d], Looked(d))
        /\ AlertsRead(info[d].alerts, wire[d], Looked(d))
Uncut ==
    dir \in Dirs =>
        /\ dir = "c2s" => ~short
        /\ started \/ (\E k \in 1 .. Len(hs) : hs[k].part # "whole") => split
        /\ over => info[dir].error \/ Sent(dir, "plain") # {}

TypeOK ==
    /\ wire \in Wires /\ dir \in Dirs \cup {"merge", "done"}
    /\ started \in BOOLEAN /\ over \in BOOLEAN
    /\ split \in BOOLEAN /\ short \in BOOLEAN
    /\ info \in [Dirs -> HandshakeInfo]

(* The inductive invariant. *)
TlsInv ==
    /\ TypeOK /\ InPlace /\ Uncut
    /\ \A d \in Dirs : Known(info[d], d) /\ AllRead(d)
    /\ NothingInvented /\ ReportExact
-----------------------------------------------------------------------------
(* Of a stream in which no message is cut and no hello refused, what the   *)
(* parser knows is what the analysis knows after as many units, the bytes  *)
(* that are no TLS counted as one although the loop is left at them.       *)
UnitsRead(d) == IF d = dir /\ over THEN Looked(d) + 1 ELSE Looked(d)

SealedDescs(d) == {wire[d][k].desc : k \in {j \in Sent(d, "alert") : wire[d][j].sealed}}
AlertsAgree(a, b, d) ==
    /\ a = {} <=> b = {}
    /\ b \subseteq AlertDescs /\ b \subseteq a \cup SealedDescs(d)
    /\ a \subseteq b \/ SealedDescs(d) # {}

Agree(i, f, d) ==
    /\ f.hellos = i.hellos /\ i.renegotiation = (i.hellos > 1)
    /\ f.offered_version = Number(i.offered) /\ f.resumption = i.resumption
    /\ i.sid # None => Sent(d, "client_hello") # {}
    /\ f.ems = i.ems /\ f.ri = i.ri
    /\ f.version = Number(i.version) /\ f.suite = SuiteNo(i.cipher) /\ f.tls13 = i.tls13
    /\ f.chain = i.chain /\ f.error = i.error
    /\ AlertsAgree(i.alerts, f.alerts, d)

Keeps(d) ==
    LET f == Pipeline!Reader(Units(d))[UnitsRead(d)]
    IN  /\ UnitsRead(d) <= Len(wire[d])
        /\ Agree(info[d], f, d)
        /\ IF d = dir
             THEN /\ info[d].complete = f.complete /\ f.over = over
                  /\ over \/ ~f.error
             ELSE info[d].complete = (f.complete /\ 40 \notin info[d].alerts)

(* The inductive invariant of the comparison, with TlsInv. *)
KeepsPace ==
    /\ over => hs = <<>>
    /\ ~split /\ ~short => \A d \in Dirs : Ordinary(d) => Keeps(d)
=============================================================================
