-------------------------- MODULE IncidentCoalescer --------------------------
(***************************************************************************)
(* TypedIncidentCoalescer (Diagnostics/IncidentCoalescer.h) with the       *)
(* collapse rule of this plugin's records (SaveLoadIncidentQueue.cpp): the *)
(* bounded table a drain folds the records of one batch into, so that a    *)
(* storm of equal incidents becomes one log line with a count.             *)
(*                                                                         *)
(* The table belongs to one drain at a time, so each operation is a step.  *)
(* The spec at the end lets any sequence of calls happen; SaveLoadGuard    *)
(* uses the actions in the order DrainLogsImpl does.                       *)
(***************************************************************************)
EXTENDS Integers, FiniteSets

CONSTANTS Incidents,   (* records, with the fields the collapse rule reads  *)
          Blank,       (* the default-constructed record of an unused slot  *)
          Capacity,    (* slots; 32 in the code                             *)
          Limit        (* where the counters saturate; 2^64 - 1 in the code *)

ASSUME CoalescerAssumption ==
  /\ Capacity \in Nat \ {0}
  /\ Limit \in Nat \ {0}

VARIABLES slots,       (* _slots                                            *)
          active,      (* _active: slots in use                             *)
          collapsed,   (* _collapsed: records merged into an existing slot  *)
          untracked    (* _untracked: records the full table could not take *)

table == <<slots, active, collapsed, untracked>>

Slots == 1 .. Capacity

Unused == [exemplar |-> Blank, count |-> 0, used |-> FALSE]

(* Two records collapse into one line when they differ only in the form,   *)
(* the thread, the fault and the incident number.                          *)
(* Variant: prevented and observed incidents are not told apart.           *)
SignatureWithoutAction(i) == <<i.runtimeCode, i.callsite, i.reason>>
Signature(i) == <<i.runtimeCode, i.callsite, i.reason, i.action>>

SaturatingIncrement(n) == IF n = Limit THEN n ELSE n + 1

Used == {s \in Slots : slots[s].used}
(* Variant: a hole that a pop left among used slots is not taken again.    *)
FreeBehindLast == {s \in Slots \ Used : \A r \in Used : r < s}
Free           == Slots \ Used
(* Variant: the table is not searched for the record's signature.          *)
MatchesNothing(i) == {}
Matches(i) == {s \in Used : Signature(slots[s].exemplar) = Signature(i)}

(* The loops of TryAdd and TryPop stop at the first slot that fits.        *)
FirstOf(S) == CHOOSE s \in S : \A r \in S : s <= r

EmptyTable ==
  /\ slots     = [s \in Slots |-> Unused]
  /\ active    = 0
  /\ collapsed = 0
  /\ untracked = 0

(* TryAdd: merge, or open a slot, or give up and count.                    *)
(* Variant: the counter of a merged record wraps around.                   *)
WrappingMerge(i) ==
  /\ Matches(i) # {}
  /\ slots' = [slots EXCEPT ![FirstOf(Matches(i))].count = (@ + 1) % (Limit + 1)]
  /\ collapsed' = SaturatingIncrement(collapsed)
  /\ UNCHANGED <<active, untracked>>

Merge(i) ==
  /\ Matches(i) # {}
  /\ slots' = [slots EXCEPT ![FirstOf(Matches(i))].count = SaturatingIncrement(@)]
  /\ collapsed' = SaturatingIncrement(collapsed)
  /\ UNCHANGED <<active, untracked>>

Open(i) ==
  /\ Matches(i) = {} /\ Free # {}
  /\ slots' = [slots EXCEPT ![FirstOf(Free)] =
                 [exemplar |-> i, count |-> 1, used |-> TRUE]]
  /\ active' = active + 1
  /\ UNCHANGED <<collapsed, untracked>>

GiveUp(i) ==
  /\ Matches(i) = {} /\ Free = {}
  /\ untracked' = SaturatingIncrement(untracked)
  /\ UNCHANGED <<slots, active, collapsed>>

TryAdd(i) == Merge(i) \/ Open(i) \/ GiveUp(i)

(* TryPop on a non-empty table; the caller reads slots[FirstOf(Used)].     *)
(* Variant: a popped slot keeps its record.                                *)
TryPopWithoutClearing ==
  /\ Used # {}
  /\ slots'  = [slots EXCEPT ![FirstOf(Used)].count = 0]
  /\ active' = active - 1
  /\ UNCHANGED <<collapsed, untracked>>

TryPop ==
  /\ Used # {}
  /\ slots'  = [slots EXCEPT ![FirstOf(Used)] = Unused]
  /\ active' = active - 1
  /\ UNCHANGED <<collapsed, untracked>>

Reset ==
  /\ slots'     = [s \in Slots |-> Unused]
  /\ active'    = 0
  /\ collapsed' = 0
  /\ untracked' = 0

TableNext == (\E i \in Incidents : TryAdd(i)) \/ TryPop \/ Reset

TableSpec == EmptyTable /\ [][TableNext]_table

-----------------------------------------------------------------------------
(* Properties.                                                             *)

TableTypeOK ==
  /\ slots \in [Slots -> [exemplar : Incidents, count : 1 .. Limit, used : {TRUE}] \cup {Unused}]
  /\ active \in Nat
  /\ collapsed \in 0 .. Limit
  /\ untracked \in 0 .. Limit

(* A signature has at most one slot, so a drain writes at most one line    *)
(* per kind of hazard, wherever pops and resets left holes in the table    *)
(* (IncidentCoalescer.h:43-59).                                            *)
OneSlotPerSignature ==
  \A r, s \in Used :
    Signature(slots[r].exemplar) = Signature(slots[s].exemplar) => r = s

(* The cached number of used slots is right after any sequence of calls.   *)
ActiveCountsUsed == active = Cardinality(Used)

Signatures == {Signature(i) : i \in Incidents}

(* A record is given up only when the table holds Capacity other           *)
(* signatures: with fewer kinds of incidents than slots, none is ever lost *)
(* (the plugin has 13 kinds and 32 slots).                                 *)
NeverSaturates ==
  IsFiniteSet(Signatures) /\ Cardinality(Signatures) <= Capacity => untracked = 0
=============================================================================
