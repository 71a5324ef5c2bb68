------------------------- MODULE MCIncidentCoalescer -------------------------
(* TLC instance of CoalescerLedger: any calls in any order, MaxAdds adds.  *)
EXTENDS CoalescerLedger

CONSTANTS Reasons, MaxAdds

VARIABLE adds

MCIncidents ==
  [runtimeCode : {163}, callsite : {1}, reason : Reasons, action : {"Prevented", "Observed"}]

MCInit == EmptyTable /\ EmptyLedger /\ adds = 0

MCNext ==
  \/ /\ adds < MaxAdds
     /\ adds' = adds + 1
     /\ \E i \in Incidents : LedgerAdd(i)
  \/ (LedgerPop \/ LedgerReset) /\ UNCHANGED adds

MCSpec == MCInit /\ [][MCNext]_<<table, ledger, adds>>
=============================================================================
