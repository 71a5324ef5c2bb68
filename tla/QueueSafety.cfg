\* Three threads on a ring of two cells: the ring is lapped, and a third
\* thread can hold a stale position while the other two pass it.
SPECIFICATION Spec
CONSTANTS
  t1 = t1
  t2 = t2
  t3 = t3
  a = a
  b = b
  none = none
  Threads = {t1, t2, t3}
  Incidents = {a, b}
  NoIncident = none
  N = 2
  MaxPushes = 5
  Survivors = {}
SYMMETRY Symmetry
INVARIANTS RingInv ExclusiveCell NeverOverfull CountersAtRest
PROPERTIES ImplementsTransport
