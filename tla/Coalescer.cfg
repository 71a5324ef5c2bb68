\* Four kinds of incidents, three slots: slots are reused around holes, and
\* the table saturates; counters stop at two.
SPECIFICATION MCSpec
CONSTANTS
  NullForm = NullForm
  Fault = Fault
  Reasons = {NullForm, Fault}
  Incidents <- MCIncidents
  Blank = Blank
  Capacity = 3
  Limit = 2
  MaxAdds = 6
INVARIANTS OneSlotPerSignature ActiveCountsUsed ReportsAddUp
PROPERTIES CountsNeverShrink RefusedOnlyWhenFull
