---------------------------- MODULE IncidentQueue ----------------------------
(***************************************************************************)
(* TypedIncidentQueue (Diagnostics/IncidentQueue.h): the bounded lock-free *)
(* ring every incident goes through.  One action per atomic access to      *)
(* shared memory, so any two threads interleave between any two accesses.  *)
(*                                                                         *)
(* A cell's sequence number says whose turn it is: position when the cell  *)
(* is free for the push at that position, position + 1 when that record is *)
(* published, position + N when the record has been copied out and the     *)
(* cell is free for the next lap.  The record itself, value, is plain      *)
(* memory: two threads touching one cell's value at once would be a data   *)
(* race, and only the sequence numbers prevent it.                         *)
(*                                                                         *)
(* Positions are 64-bit in the code and do not wrap in a process lifetime; *)
(* here they are naturals.  compare_exchange_weak is modelled without      *)
(* spurious failures: the only build is x64 (xmake.lua), where it is a     *)
(* locked cmpxchg.                                                         *)
(***************************************************************************)
EXTENDS Integers, Sequences, FiniteSets

CONSTANTS Threads,     (* engine threads and drains: each may push and pop  *)
          Incidents,   (* the records                                       *)
          NoIncident,  (* the value of a record local outside a call        *)
          N,           (* capacity; the code instantiates 256               *)
          MaxPushes,   (* bound: no push starts after this many were made   *)
          Survivors    (* threads the liveness specification keeps running  *)

(* The ring needs two cells: with N = 1 a published record's sequence      *)
(* number equals that of a cell free for the next lap.                     *)
ASSUME QueueAssumption ==
  /\ N \in Nat /\ N >= 2
  /\ NoIncident \notin Incidents
  /\ MaxPushes \in Nat
  /\ Survivors \subseteq Threads

VARIABLES sequence,         (* _buffer[c].sequence                          *)
          value,            (* _buffer[c].value                             *)
          enqueuePosition, dequeuePosition,
          dropped, pushed, popped,
          pc,               (* where each thread is in TryPush or TryPop    *)
          position,         (* the local of the same name                   *)
          incident          (* the argument of TryPush, result of TryPop    *)

cells    == <<sequence, value>>
ends     == <<enqueuePosition, dequeuePosition>>
counters == <<dropped, pushed, popped>>
locals   == <<position, incident>>
vars     == <<cells, ends, counters, pc, locals>>

Cell(p) == p % N
Cells   == 0 .. N - 1

PushLocations == {"pushLoad", "pushReload", "pushClaim", "pushDrop",
                  "pushWrite", "pushPublish", "pushCount"}
PopLocations  == {"popLoad", "popReload", "popClaim",
                  "popCopy", "popRelease", "popCount"}
Locations     == {"idle"} \cup PushLocations \cup PopLocations

Goto(t, from, to) ==
  /\ pc[t] = from
  /\ pc' = [pc EXCEPT ![t] = to]

(* Leaving the call: the locals die.                                       *)
Return(t, from) ==
  /\ Goto(t, from, "idle")
  /\ position' = [position EXCEPT ![t] = 0]
  /\ incident' = [incident EXCEPT ![t] = NoIncident]

SetPosition(t, p) == position' = [position EXCEPT ![t] = p]

Difference(t, due) == sequence[Cell(position[t])] - due

Init ==
  /\ sequence        = [c \in Cells |-> c]
  /\ value           = [c \in Cells |-> NoIncident]
  /\ enqueuePosition = 0
  /\ dequeuePosition = 0
  /\ dropped = 0 /\ pushed = 0 /\ popped = 0
  /\ pc       = [t \in Threads |-> "idle"]
  /\ position = [t \in Threads |-> 0]
  /\ incident = [t \in Threads |-> NoIncident]

-----------------------------------------------------------------------------
(* TryPush.                                                                *)

BeginPush(t, i) ==
  /\ enqueuePosition + dropped < MaxPushes
  /\ Goto(t, "idle", "pushLoad")
  /\ incident' = [incident EXCEPT ![t] = i]
  /\ SetPosition(t, enqueuePosition)
  /\ UNCHANGED <<cells, ends, counters>>

(* Variant: a cell of the previous lap is taken for a free one.            *)
PushSeesFreeTooSoon(t) ==
  /\ Difference(t, position[t]) <= 0
  /\ Goto(t, "pushLoad", "pushClaim")
  /\ UNCHANGED <<cells, ends, counters, locals>>

PushSeesFree(t) ==
  /\ Difference(t, position[t]) = 0
  /\ Goto(t, "pushLoad", "pushClaim")
  /\ UNCHANGED <<cells, ends, counters, locals>>

(* Variant: a full ring is waited for instead of refusing the record.      *)
PushWaitsForRoom(t) ==
  /\ Difference(t, position[t]) < 0
  /\ Goto(t, "pushLoad", "pushReload")
  /\ UNCHANGED <<cells, ends, counters, locals>>

PushSeesOccupied(t) ==
  /\ Difference(t, position[t]) < 0
  /\ Goto(t, "pushLoad", "pushDrop")
  /\ UNCHANGED <<cells, ends, counters, locals>>

PushSeesLater(t) ==
  /\ Difference(t, position[t]) > 0
  /\ Goto(t, "pushLoad", "pushReload")
  /\ UNCHANGED <<cells, ends, counters, locals>>

PushReload(t) ==
  /\ Goto(t, "pushReload", "pushLoad")
  /\ SetPosition(t, enqueuePosition)
  /\ UNCHANGED <<cells, ends, counters, incident>>

(* Variant: a plain store instead of the compare-exchange.                 *)
PushClaimWithoutCompare(t) ==
  /\ Goto(t, "pushClaim", "pushWrite")
  /\ enqueuePosition' = position[t] + 1
  /\ UNCHANGED <<cells, dequeuePosition, counters, locals>>

PushClaim(t) ==
  /\ enqueuePosition = position[t]
  /\ Goto(t, "pushClaim", "pushWrite")
  /\ enqueuePosition' = enqueuePosition + 1
  /\ UNCHANGED <<cells, dequeuePosition, counters, locals>>

(* A failed exchange leaves the current position in the local.             *)
PushClaimFails(t) ==
  /\ enqueuePosition # position[t]
  /\ Goto(t, "pushClaim", "pushLoad")
  /\ SetPosition(t, enqueuePosition)
  /\ UNCHANGED <<cells, ends, counters, incident>>

PushDrop(t) ==
  /\ Return(t, "pushDrop")
  /\ dropped' = dropped + 1
  /\ UNCHANGED <<cells, ends, pushed, popped>>

PushWrite(t) ==
  /\ Goto(t, "pushWrite", "pushPublish")
  /\ value' = [value EXCEPT ![Cell(position[t])] = incident[t]]
  /\ UNCHANGED <<sequence, ends, counters, locals>>

(* Variant: publishes the position itself, not the one after it.           *)
PushPublishOffByOne(t) ==
  /\ Goto(t, "pushPublish", "pushCount")
  /\ sequence' = [sequence EXCEPT ![Cell(position[t])] = position[t]]
  /\ UNCHANGED <<value, ends, counters, locals>>

PushPublish(t) ==
  /\ Goto(t, "pushPublish", "pushCount")
  /\ sequence' = [sequence EXCEPT ![Cell(position[t])] = position[t] + 1]
  /\ UNCHANGED <<value, ends, counters, locals>>

PushCount(t) ==
  /\ Return(t, "pushCount")
  /\ pushed' = pushed + 1
  /\ UNCHANGED <<cells, ends, dropped, popped>>

-----------------------------------------------------------------------------
(* TryPop.                                                                 *)

BeginPop(t) ==
  /\ Goto(t, "idle", "popLoad")
  /\ SetPosition(t, dequeuePosition)
  /\ UNCHANGED <<cells, ends, counters, incident>>

PopSeesReady(t) ==
  /\ Difference(t, position[t] + 1) = 0
  /\ Goto(t, "popLoad", "popClaim")
  /\ UNCHANGED <<cells, ends, counters, locals>>

PopSeesNothing(t) ==
  /\ Difference(t, position[t] + 1) < 0
  /\ Return(t, "popLoad")
  /\ UNCHANGED <<cells, ends, counters>>

PopSeesLater(t) ==
  /\ Difference(t, position[t] + 1) > 0
  /\ Goto(t, "popLoad", "popReload")
  /\ UNCHANGED <<cells, ends, counters, locals>>

PopReload(t) ==
  /\ Goto(t, "popReload", "popLoad")
  /\ SetPosition(t, dequeuePosition)
  /\ UNCHANGED <<cells, ends, counters, incident>>

(* Variant: the cell is handed back before its record was copied out.      *)
PopClaimAndRelease(t) ==
  /\ dequeuePosition = position[t]
  /\ Goto(t, "popClaim", "popCopy")
  /\ dequeuePosition' = dequeuePosition + 1
  /\ sequence' = [sequence EXCEPT ![Cell(position[t])] = position[t] + N]
  /\ UNCHANGED <<value, enqueuePosition, counters, locals>>

PopClaim(t) ==
  /\ dequeuePosition = position[t]
  /\ Goto(t, "popClaim", "popCopy")
  /\ dequeuePosition' = dequeuePosition + 1
  /\ UNCHANGED <<cells, enqueuePosition, counters, locals>>

PopClaimFails(t) ==
  /\ dequeuePosition # position[t]
  /\ Goto(t, "popClaim", "popLoad")
  /\ SetPosition(t, dequeuePosition)
  /\ UNCHANGED <<cells, ends, counters, incident>>

PopCopy(t) ==
  /\ Goto(t, "popCopy", "popRelease")
  /\ incident' = [incident EXCEPT ![t] = value[Cell(position[t])]]
  /\ UNCHANGED <<cells, ends, counters, position>>

(* Variant: frees the cell for the push after the right one.               *)
PopReleaseOffByOne(t) ==
  /\ Goto(t, "popRelease", "popCount")
  /\ sequence' = [sequence EXCEPT ![Cell(position[t])] = position[t] + 1 + N]
  /\ UNCHANGED <<value, ends, counters, locals>>

PopRelease(t) ==
  /\ Goto(t, "popRelease", "popCount")
  /\ sequence' = [sequence EXCEPT ![Cell(position[t])] = position[t] + N]
  /\ UNCHANGED <<value, ends, counters, locals>>

PopCount(t) ==
  /\ Return(t, "popCount")
  /\ popped' = popped + 1
  /\ UNCHANGED <<cells, ends, dropped, pushed>>

-----------------------------------------------------------------------------

Push(t) ==
  \/ PushSeesFree(t) \/ PushSeesOccupied(t) \/ PushSeesLater(t) \/ PushReload(t)
  \/ PushClaim(t)    \/ PushClaimFails(t)   \/ PushDrop(t)
  \/ PushWrite(t)    \/ PushPublish(t)      \/ PushCount(t)

Pop(t) ==
  \/ PopSeesReady(t) \/ PopSeesNothing(t) \/ PopSeesLater(t) \/ PopReload(t)
  \/ PopClaim(t)     \/ PopClaimFails(t)
  \/ PopCopy(t)      \/ PopRelease(t)     \/ PopCount(t)

Begin(t) == BeginPop(t) \/ \E i \in Incidents : BeginPush(t, i)

Next == \E t \in Threads : Begin(t) \/ Push(t) \/ Pop(t)

Spec == Init /\ [][Next]_vars

(* Only the surviving threads are kept running inside their calls; every   *)
(* other thread may stop for ever between any two of its accesses, as a    *)
(* descheduled or suspended engine thread does.                            *)
SurvivorSpec == Spec /\ \A t \in Survivors : WF_vars(Push(t) \/ Pop(t))

-----------------------------------------------------------------------------
(* Properties.                                                             *)

TypeOK ==
  /\ sequence \in [Cells -> Nat]
  /\ value \in [Cells -> Incidents \cup {NoIncident}]
  /\ enqueuePosition \in Nat /\ dequeuePosition \in Nat
  /\ dropped \in Nat /\ pushed \in Nat /\ popped \in Nat
  /\ pc \in [Threads -> Locations]
  /\ position \in [Threads -> Nat]
  /\ incident \in [Threads -> Incidents \cup {NoIncident}]

(* A producing thread owns the cell it claimed until it publishes it, a    *)
(* consuming one until it releases it.                                     *)
Producing(t) == pc[t] \in {"pushWrite", "pushPublish"}
Consuming(t) == pc[t] \in {"popCopy", "popRelease"}
OwnsCell(t)  == Producing(t) \/ Consuming(t)

(* No data race on the plain memory of a cell: between claiming a position *)
(* (the exchange of TryPush or TryPop) and storing the cell's sequence, a  *)
(* thread is the only one in that cell, whoever else pushes, pops, laps    *)
(* the ring or holds a stale position (IncidentQueue.h:97-109, 123-134).   *)
ExclusiveCell ==
  \A t, u \in Threads :
    t # u /\ OwnsCell(t) /\ OwnsCell(u) => Cell(position[t]) # Cell(position[u])

(* The ring never hands out more than N unread records: no push overwrites *)
(* a record nobody popped, and a pop never overtakes the pushes.           *)
NeverOverfull == enqueuePosition - dequeuePosition \in 0 .. N

(* The diagnostic totals are exact whenever no call is in progress,        *)
(* although each is updated after the call took effect.                    *)
CountersAtRest ==
  (\A t \in Threads : pc[t] = "idle") =>
    /\ pushed = enqueuePosition
    /\ popped = dequeuePosition
    /\ \A p \in dequeuePosition .. enqueuePosition - 1 : sequence[Cell(p)] = p + 1

(* The inductive invariant behind ExclusiveCell and NeverOverfull, proved  *)
(* in IncidentQueueProofs: what each location of the program knows about   *)
(* its position, and what a cell's sequence number says about the cell.    *)
PositionsBehind ==
  \A t \in Threads :
    /\ pc[t] \in PushLocations => position[t] <= enqueuePosition
    /\ pc[t] \in PopLocations  => position[t] <= dequeuePosition

ProducersOwn ==
  \A t \in Threads : Producing(t) =>
    /\ position[t] < enqueuePosition
    /\ sequence[Cell(position[t])] = position[t]

ConsumersOwn ==
  \A t \in Threads : Consuming(t) =>
    /\ position[t] < dequeuePosition
    /\ sequence[Cell(position[t])] = position[t] + 1

OwnersDiffer ==
  \A t, u \in Threads : t # u =>
    /\ Producing(t) /\ Producing(u) => position[t] # position[u]
    /\ Consuming(t) /\ Consuming(u) => position[t] # position[u]

ClaimsStand ==
  \A t \in Threads :
    /\ pc[t] = "pushClaim" /\ position[t] = enqueuePosition =>
         sequence[Cell(enqueuePosition)] = enqueuePosition
    /\ pc[t] = "popClaim" /\ position[t] = dequeuePosition =>
         sequence[Cell(dequeuePosition)] = dequeuePosition + 1

(* A cell is free for the push its number names, or holds the record of    *)
(* the position one below it.                                              *)
CellNumbers ==
  \A c \in Cells :
    \/ Cell(sequence[c]) = c
    \/ /\ sequence[c] >= 1
       /\ Cell(sequence[c] - 1) = c
       /\ sequence[c] - 1 < enqueuePosition

(* Every position between the two ends is being written or is published.   *)
LaneNumbers ==
  \A p \in dequeuePosition .. enqueuePosition - 1 :
    sequence[Cell(p)] \in {p, p + 1}

Inv ==
  /\ TypeOK
  /\ dequeuePosition <= enqueuePosition
  /\ PositionsBehind
  /\ ProducersOwn /\ ConsumersOwn /\ OwnersDiffer
  /\ ClaimsStand
  /\ CellNumbers /\ LaneNumbers

(* What the refinement and CountersAtRest need besides.  A cell's number   *)
(* only grows, so it tells how far a position has come: claimed, popped.   *)
SequencesAdvance ==
  /\ \A c \in Cells : sequence[c] >= c
  /\ \A p \in 0 .. enqueuePosition - 1 : sequence[Cell(p)] >= p
  /\ \A p \in 0 .. dequeuePosition - 1 : sequence[Cell(p)] >= p + 1

(* A cell in between two numbers has somebody who will write the next one. *)
EveryCellOwned ==
  /\ \A p \in dequeuePosition .. enqueuePosition - 1 :
       sequence[Cell(p)] = p => \E t \in Threads : Producing(t) /\ position[t] = p
  /\ \A p \in 0 .. dequeuePosition - 1 :
       sequence[Cell(p)] = p + 1 => \E t \in Threads : Consuming(t) /\ position[t] = p

(* The totals lag behind by the calls that have not counted yet.           *)
Pushing == {t \in Threads : Producing(t) \/ pc[t] = "pushCount"}
Popping == {t \in Threads : Consuming(t) \/ pc[t] = "popCount"}
CountsCatchUp ==
  /\ IsFiniteSet(Pushing) /\ pushed + Cardinality(Pushing) = enqueuePosition
  /\ IsFiniteSet(Popping) /\ popped + Cardinality(Popping) = dequeuePosition

RingInv == Inv /\ SequencesAdvance /\ EveryCellOwned /\ CountsCatchUp

(* Lock-freedom as the header claims it ("pushing never ... blocks"): a    *)
(* surviving thread's call returns although every other thread may have    *)
(* stopped between any two of its accesses.  Traffic is finite, so an      *)
(* exchange fails finitely often.                                          *)
NeverBlocks == \A t \in Survivors : pc[t] # "idle" ~> pc[t] = "idle"

-----------------------------------------------------------------------------
(* Refinement: the ring implements IncidentTransport.                      *)

Phase(t) ==
  CASE pc[t] \in {"pushLoad", "pushReload", "pushClaim"} -> "push"
    [] pc[t] = "pushDrop"                                -> "refused"
    [] Producing(t)                                      -> "writing"
    [] pc[t] \in {"popLoad", "popReload", "popClaim"}    -> "pop"
    [] Consuming(t)                                      -> "copying"
    [] OTHER                                             -> "idle"

(* The record at a position of the lane: still in the writer's hand, or in *)
(* the cell.                                                               *)
RecordAt(p) ==
  IF \E t \in Threads : pc[t] = "pushWrite" /\ position[t] = p
    THEN incident[CHOOSE t \in Threads : pc[t] = "pushWrite" /\ position[t] = p]
    ELSE value[Cell(p)]

LaneEntry(p) ==
  [incident |-> RecordAt(p), ready |-> sequence[Cell(p)] = p + 1]

AtOf(t) == IF OwnsCell(t) THEN position[t] ELSE 0

HeldBy(t) ==
  CASE Phase(t) \in {"push", "refused", "writing"} -> incident[t]
    [] pc[t] = "popCopy"    -> value[Cell(position[t])]
    [] pc[t] = "popRelease" -> incident[t]
    [] OTHER                -> NoIncident

Lane  == [k \in 1 .. enqueuePosition - dequeuePosition |->
            LaneEntry(dequeuePosition + k - 1)]
Ops   == [t \in Threads |-> Phase(t)]
Ats   == [t \in Threads |-> AtOf(t)]
Helds == [t \in Threads |-> HeldBy(t)]

Transport == INSTANCE IncidentTransport WITH
  lane <- Lane, first <- dequeuePosition, op <- Ops, at <- Ats, held <- Helds

(* Every record whose push was not refused is handed out exactly once, in  *)
(* the order the positions were claimed, unchanged, and never before it    *)
(* was completely written; a push is refused only while its cell is still  *)
(* occupied (IncidentQueue.h:88-137).                                      *)
ImplementsTransport == Transport!TransportSpec
=============================================================================
