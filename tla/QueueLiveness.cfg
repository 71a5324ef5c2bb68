\* One thread keeps running; the other may stop for ever anywhere.
SPECIFICATION SurvivorSpec
CONSTANTS
  t1 = t1
  t2 = t2
  t3 = t3
  a = a
  none = none
  Threads = {t1, t2, t3}
  Incidents = {a}
  NoIncident = none
  N = 2
  MaxPushes = 3
  Survivors = {t1}
PROPERTIES NeverBlocks
