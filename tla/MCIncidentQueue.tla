--------------------------- MODULE MCIncidentQueue ---------------------------
(* TLC instance of IncidentQueue: threads and records are model values.     *)
EXTENDS IncidentQueue, TLC

(* Threads differ only by name, and so do records.                          *)
Symmetry == Permutations(Threads) \cup Permutations(Incidents)
=============================================================================
