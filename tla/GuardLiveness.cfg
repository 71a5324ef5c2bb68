\* Two engine threads and the timer; no symmetry, liveness is checked.
SPECIFICATION FairSpec
CONSTANTS
  e1 = e1
  e2 = e2
  timer = timer
  none = none
  Unreadable = Unreadable
  Guards = {e1, e2}
  Ticks = {timer}
  Rejections = {Unreadable}
  NoIncident = none
  N = 2
  Capacity = 1
  Limit = 9
  MaxDispatches = 2
PROPERTIES DispatchReturns WorkingReported
