----------------------------- MODULE MCPluginLoad -----------------------------
(* TLC instance of PluginLoad.                                              *)
EXTENDS PluginLoad, TLC

(* A line of each kind, values both parsers understand among them.          *)
MCLines ==
  [key : OtherKeys, value : {"nonsense"}]
    \cup [key : {"enabled"}, value : {"true", "off", "observe"}]
    \cup [key : {"mode"}, value : {"off", "observe", "true"}]
    \cup [key : {"allowUnqualifiedSuppression"}, value : {"false"}]

CONSTANT MaxLines
MCInis == UNION {[1 .. k -> MCLines] : k \in 0 .. MaxLines}

(* Processes differ only by name.                                           *)
Symmetry == Permutations(Processes)
=============================================================================
