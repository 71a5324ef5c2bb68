\* Three engine threads and the timer on a queue of two records and a table of
\* one slot, so that records are refused, untracked and left behind.
SPECIFICATION Spec
CONSTANTS
  e1 = e1
  e2 = e2
  e3 = e3
  timer = timer
  none = none
  Unreadable = Unreadable
  Guards = {e1, e2, e3}
  Ticks = {timer}
  Rejections = {Unreadable}
  NoIncident = none
  N = 2
  Capacity = 1
  Limit = 9
  MaxDispatches = 3
SYMMETRY Symmetry
INVARIANTS TypeOK AccountedAtRest NeverOverreported NeverStranded WorkingLineOnce
