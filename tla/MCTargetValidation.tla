-------------------------- MODULE MCTargetValidation --------------------------
(* TLC instance of TargetValidation: sixteen addresses in pages of two.     *)
EXTENDS TargetValidation
=============================================================================
