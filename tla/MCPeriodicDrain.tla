--------------------------- MODULE MCPeriodicDrain ---------------------------
(* TLC instance of PeriodicDrain.                                           *)
EXTENDS PeriodicDrain

CONSTANTS p1, p2, p3, DrainLogs, OtherCallback
=============================================================================
