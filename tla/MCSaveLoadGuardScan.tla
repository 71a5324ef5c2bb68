------------------------ MODULE MCSaveLoadGuardScan ------------------------
(* TLC instance of SaveLoadGuardScan, everything scaled down: a contract of *)
(* five bytes, blocks of eight, shapes that fix their first two bytes.      *)
EXTENDS SaveLoadGuardScan
=============================================================================
