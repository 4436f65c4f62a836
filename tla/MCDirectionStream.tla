------------------------- MODULE MCDirectionStream -------------------------
(* An instance of DirectionStream for TLC. *)
EXTENDS DirectionStream

(* Early enough and late enough for the sequence numbers to wrap inside    *)
(* the stream, or right before and right after it.                         *)
WrappingIsns == {0, 3, 5, 6, 7}
=============================================================================
