---------------------------- MODULE HonestStream ----------------------------
(***************************************************************************)
(* What reassembly.py promises of one direction of a connection: of the    *)
(* bytes that were captured and kept it serves the longest run from the    *)
(* lowest one on, in order, each byte once, and it says whether it has     *)
(* left any out.  A byte is its position in what the sender sent.          *)
(***************************************************************************)
EXTENDS Integers, Sequences

CONSTANT NotServed      \* not yet reassembled

VARIABLES
    captured,       \* the positions of the bytes kept
    served,         \* the bytes served, by position
    incomplete      \* "there is more after a hole"

vars == <<captured, served, incomplete>>

(* From the lowest captured position up to, not including, the first one   *)
(* that was not captured.                                                  *)
Run(S) == {p \in S : \A q \in S : q .. p \subseteq S}

(* The positions lo, lo + 1, ... in order. *)
Ascending(seq) == \A k \in 1 .. Len(seq) : seq[k] = seq[1] + k - 1

Contents(seq) == {seq[k] : k \in 1 .. Len(seq)}

Init ==
    /\ captured = {}
    /\ served = NotServed
    /\ incomplete = FALSE

Capture ==
    /\ served = NotServed
    /\ captured \subseteq captured'
    /\ UNCHANGED <<served, incomplete>>

Serve ==
    /\ served = NotServed
    /\ served' \in Seq(captured)
    /\ Ascending(served')
    /\ Contents(served') = Run(captured)
    /\ incomplete' = (Run(captured) # captured)
    /\ UNCHANGED captured

Next == Capture \/ Serve

Spec == Init /\ [][Next]_vars
=============================================================================
