\* Two processes racing for two log numbers, one deletion, and every INI of
\* up to two lines.
SPECIFICATION Spec
CONSTANTS
  p1 = p1
  p2 = p2
  Processes = {p1, p2}
  MaxLines = 2
  Inis <- MCInis
  MaximumLogNumber = 2
  MaxDeletions = 1
SYMMETRY Symmetry
CHECK_DEADLOCK FALSE
INVARIANTS OneWriter ConfigurationMeans ModeAsAsked
PROPERTIES NeverTruncated
