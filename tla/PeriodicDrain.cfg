\* Three pool threads, two callbacks queued, and an owner that starts with
\* either function and stops, any number of times.
SPECIFICATION FairSpec
CONSTANTS
  p1 = p1
  p2 = p2
  p3 = p3
  DrainLogs = DrainLogs
  OtherCallback = OtherCallback
  Pool = {p1, p2, p3}
  Callbacks = {DrainLogs, OtherCallback}
  NoCallback = NoCallback
  MaxPending = 2
CHECK_DEADLOCK FALSE
INVARIANTS OneAtATime NeverUnloadedUnderTimer
PROPERTIES KeepsTicking
