---------------------------- MODULE MCScanStore ----------------------------
(* Instances of ScanStore for TLC. *)
EXTENDS ScanStore, TLC

(* Request slots are interchangeable in the safety properties.            *)
Symmetry == Permutations(Threads)
=============================================================================
