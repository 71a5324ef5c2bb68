\* As InstallSafety.cfg, with one caller: the comment on the failed flush.
SPECIFICATION Spec
CONSTANTS
  m1 = m1
  m2 = m2
  c1 = c1
  Messengers = {m1, m2}
  Callers = {c1}
  MaxMessages = 2
  MaxWrites = 1
CHECK_DEADLOCK FALSE
INVARIANT NeverPartiallyInstalled
