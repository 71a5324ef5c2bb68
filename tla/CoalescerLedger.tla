--------------------------- MODULE CoalescerLedger ---------------------------
(***************************************************************************)
(* IncidentCoalescer with a ledger of what each call said to its caller:   *)
(* tracked[k] records of kind k were accepted, delivered[k] were reported  *)
(* in popped aggregates, refusals were given up.                           *)
(***************************************************************************)
EXTENDS IncidentCoalescer

VARIABLES tracked, delivered, refusals

ledger == <<tracked, delivered, refusals>>

(* What a log line says about the records it stands for.                   *)
Kind(i) == <<i.reason, i.action>>
Kinds   == {Kind(i) : i \in Incidents}

(* How much the table stands for: one pair for every record counted in a   *)
(* slot, so that the sum of the counts is a cardinality.                   *)
Tallied == {p \in Slots \X (1 .. Limit) : p[2] <= slots[p[1]].count}
TalliedOf(k) == {p \in Tallied : Kind(slots[p[1]].exemplar) = k}
Held(k) == Cardinality(TalliedOf(k))

EmptyLedger ==
  /\ tracked   = [k \in Kinds |-> 0]
  /\ delivered = [k \in Kinds |-> 0]
  /\ refusals  = 0

LedgerAdd(i) ==
  /\ UNCHANGED delivered
  /\ \/ /\ Merge(i) \/ Open(i)
        /\ tracked' = [tracked EXCEPT ![Kind(i)] = @ + 1]
        /\ UNCHANGED refusals
     \/ /\ GiveUp(i)
        /\ refusals' = refusals + 1
        /\ UNCHANGED tracked

LedgerPop ==
  /\ TryPop
  /\ LET popped == slots[FirstOf(Used)]
     IN  delivered' = [delivered EXCEPT ![Kind(popped.exemplar)] = @ + popped.count]
  /\ UNCHANGED <<tracked, refusals>>

(* A reset forgets what the table held, and so does the ledger.            *)
LedgerReset ==
  /\ Reset
  /\ tracked'   = [k \in Kinds |-> 0]
  /\ delivered' = [k \in Kinds |-> 0]
  /\ refusals'  = 0

LedgerNext == (\E i \in Incidents : LedgerAdd(i)) \/ LedgerPop \/ LedgerReset

LedgerSpec == EmptyTable /\ EmptyLedger /\ [][LedgerNext]_<<table, ledger>>

-----------------------------------------------------------------------------
(* Properties.                                                             *)

(* What the lines of a drain add up to, kind by kind: never more than was  *)
(* added, and exactly that as long as no counter of the kind could have    *)
(* reached the limit where counters stop (IncidentCoalescer.h:41-84).      *)
ReportsAddUp ==
  /\ \A k \in Kinds :
       /\ delivered[k] + Held(k) <= tracked[k]
       /\ tracked[k] <= Limit => delivered[k] + Held(k) = tracked[k]
  /\ untracked = IF refusals < Limit THEN refusals ELSE Limit

(* A counter that reached its limit stays there until its slot is emptied  *)
(* (IncidentCoalescer.h:41-84).                                            *)
CountsNeverShrink ==
  [][\A s \in Used : slots'[s].used => slots'[s].count >= slots[s].count]_slots

SignaturesHeld == {Signature(slots[s].exemplar) : s \in Used}

(* A record is refused only while Capacity different signatures are in the *)
(* table: no slot is lost to a pop, a reset or a signature that has two,   *)
(* however many calls came before (IncidentCoalescer.h:43-62).             *)
RefusedOnlyWhenFull ==
  [][refusals' > refusals => Cardinality(SignaturesHeld) = Capacity]_<<table, ledger>>
=============================================================================
