------------------------------ MODULE MCInstall ------------------------------
(* TLC instance of Install.                                                 *)
EXTENDS Install, TLC

(* Threads of a kind differ only by name.                                   *)
Symmetry == Permutations(Messengers) \cup Permutations(Callers)
=============================================================================
