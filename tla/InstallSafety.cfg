\* Two threads delivering kPostLoad, two engine threads at the callsite, one
\* foreign write.  The system stops when no message is left and the callsite
\* does not lead to the guard.
SPECIFICATION Spec
CONSTANTS
  m1 = m1
  m2 = m2
  c1 = c1
  c2 = c2
  Messengers = {m1, m2}
  Callers = {c1, c2}
  MaxMessages = 2
  MaxWrites = 1
CHECK_DEADLOCK FALSE
SYMMETRY Symmetry
INVARIANTS NeverMisjudged PreventsAsConfigured LeftPatchedOnlyIfRestoreFailed
INVARIANTS ForeignWritesNoticed
PROPERTY NeverDowngraded
