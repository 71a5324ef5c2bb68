--------------------------- MODULE MCSaveLoadGuard ---------------------------
(* TLC instance of SaveLoadGuard.                                           *)
EXTENDS SaveLoadGuard, TLC

(* Engine threads differ only by name.                                      *)
Symmetry == Permutations(Guards)
=============================================================================
