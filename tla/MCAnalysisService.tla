------------------------- MODULE MCAnalysisService -------------------------
(* Instances of AnalysisService for TLC. *)
EXTENDS AnalysisService, TLC

(* One progress report stands for the eight of runner.py: a job has states *)
(* before, between and after reports.                                      *)
OneTick == <<45>>
NoTicks == <<>>

(* Ids and call slots are interchangeable in the safety properties. *)
Symmetry == Permutations(Scans) \cup Permutations(Requests)
=============================================================================
