---------------------------- MODULE CipherSuites ----------------------------
(***************************************************************************)
(* The tables of pipeline/tls_parser.py: what the name of a cipher suite   *)
(* says about it.  The code looks for words in the name; here every suite  *)
(* it knows is in the sets of the words its name has.                      *)
(***************************************************************************)
EXTENDS Integers

(* A session without a ServerHello has cipher_id 0; so has a server that   *)
(* chose the suite TLS_NULL_WITH_NULL_NULL.                                *)
NoSuite == 0

Null == {\h0000, \h0001, \h0002, \h003b, \h0094, \hc006}
Export == {\h0017, \h0062, \h0063, \h0064, \h0065}
Anonymous == {\h0017, \h0018, \h001a, \h0034, \h006a}
Rc4 == {\h0004, \h0005, \h0018, \h0064, \h0065, \h0066, \h008c, \hc007, \hc011}
TripleDes == {\h000a, \h0013, \h0016, \h001a}
Bits256 == {\h0035, \h0039, \h003d, \h006a, \h006b, \h009f, \hc014, \hc028, \hc030,
            \h1302, \h1303}
Cbc == {\h0017, \h002f, \h0033, \h0034, \h0035, \h0039, \h003c, \h003d, \h0040, \h0062,
        \h0063, \h0067, \h006a, \h006b, \h00ba, \hc013, \hc014, \hc023, \hc027, \hc028,
        \hc077} \cup TripleDes

RsaKex == {\h0001, \h0002, \h0004, \h0005, \h000a, \h002f, \h0035, \h003b, \h003c, \h003d,
           \h0062, \h0064}
PskKex == {\h008c, \h0094}
EcdheKex == {\hc006, \hc007, \hc011, \hc013, \hc014, \hc023, \hc027, \hc028, \hc02b, \hc02f,
             \hc030, \hc077}
DheKex == {\h0013, \h0016, \h0033, \h0039, \h0040, \h0063, \h0065, \h0066, \h0067, \h006b,
           \h009e, \h009f, \h00ba}

(* A suite without a name is placed by its number alone. *)
KexOf(cid) ==
    IF cid \in {\hc001, \hc00e} THEN "ECDH_anon"
    ELSE IF cid \in EcdheKex \/ cid \div 256 = \hc0 THEN "ECDHE"
    ELSE IF cid \in DheKex THEN "DHE"
    ELSE IF cid \in Anonymous THEN "DH_anon"
    ELSE IF cid \in RsaKex THEN "RSA"
    ELSE IF cid \in PskKex THEN "PSK"
    ELSE IF cid \div 256 = \h13 THEN "(TLS1.3)"
    ELSE IF cid \div 256 = 0 /\ cid >= \h0c THEN "DHE"
    ELSE "unknown"

PfsOf(kex) == kex \in {"ECDHE", "DHE", "(TLS1.3)"}

(* Approximate symmetric strength in bits; 128 where nothing is known. *)
CipherStrength(cid) ==
    IF cid \in Null \cup Export \cup Anonymous THEN 0
    ELSE IF cid \in Rc4 THEN 64
    ELSE IF cid \in TripleDes THEN 112
    ELSE IF cid \in Bits256 THEN 256
    ELSE 128

(* Hybrid ML-KEM groups, the only ones ready for a quantum adversary. *)
HybridGroups == {\h11ec, \h11eb}
=============================================================================
