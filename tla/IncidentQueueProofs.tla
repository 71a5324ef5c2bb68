------------------------- MODULE IncidentQueueProofs -------------------------
(***************************************************************************)
(* Proofs about IncidentQueue, for any set of threads, any records and any *)
(* capacity N >= 2: the ring never hands one cell to two threads, and      *)
(* never holds more than N records; with the extended invariant RingInv,   *)
(* its totals are exact at rest and it implements IncidentTransport.       *)
(*                                                                         *)
(* Inv is inductive.  Its core is CellNumbers and LaneNumbers: what a      *)
(* sequence number can be, and that between the two ends it is p (claimed, *)
(* being written) or p + 1 (published).  The remaining conjuncts carry     *)
(* what a thread learned from a sequence number across the accesses that   *)
(* follow.  Arithmetic modulo N is confined to the lemmas on Cell.         *)
(***************************************************************************)
EXTENDS IncidentQueue, FiniteSetTheorems, TLAPS

(* A position always selects a cell of the ring, and the first N positions *)
(* select the cells in order (the constructor, IncidentQueue.h:78-83).     *)
LEMMA CellIsCell == \A p \in Nat : Cell(p) \in Cells
BY QueueAssumption DEF Cell, Cells

LEMMA CellOfCell == \A c \in Cells : Cell(c) = c
BY QueueAssumption DEF Cell, Cells

LEMMA Division ==
  \A p \in Nat : p \div N \in Nat /\ p = N * (p \div N) + (p % N)
BY QueueAssumption

LEMMA Remainder == \A q \in Nat : \A r \in Cells : Cell(N * q + r) = r
BY QueueAssumption DEF Cell, Cells

(* One lap further is the same cell: what TryPop's store of position + N   *)
(* relies on (IncidentQueue.h:134).                                        *)
LEMMA CellNextLap ==
  ASSUME NEW p \in Nat
  PROVE  Cell(p + N) = Cell(p)
<1> DEFINE q == p \div N
           r == p % N
<1>1. q \in Nat /\ r \in Cells /\ p = N * q + r
  BY Division, CellIsCell DEF Cell
<1>2. q + 1 \in Nat /\ N * q \in Nat /\ N * (q + 1) = N * q + N
  BY <1>1, QueueAssumption
<1>3. p + N = N * (q + 1) + r
  <2> HIDE DEF q, r
  <2> QED BY <1>1, <1>2, QueueAssumption DEF Cells
<1>4. Cell(N * (q + 1) + r) = r
  <2> HIDE DEF q, r
  <2> QED BY <1>1, <1>2, Remainder
<1> QED BY <1>3, <1>4 DEF Cell

(* Neighbouring positions use different cells.  Here N >= 2 is needed.     *)
LEMMA CellNeighbours ==
  ASSUME NEW p \in Nat
  PROVE  Cell(p + 1) # Cell(p)
<1> DEFINE q == p \div N
           r == p % N
<1>1. q \in Nat /\ r \in Cells /\ p = N * q + r
  BY Division, CellIsCell DEF Cell
<1>2. q + 1 \in Nat /\ N * q \in Nat /\ N * (q + 1) = N * q + N
  BY <1>1, QueueAssumption
<1>3. CASE r < N - 1
  <2>1. r + 1 \in Cells
    BY <1>1, <1>3, QueueAssumption DEF Cells
  <2>2. p + 1 = N * q + (r + 1)
    <3> HIDE DEF q, r
    <3> QED BY <1>1, <1>2 DEF Cells
  <2>3. Cell(N * q + (r + 1)) = r + 1
    <3> HIDE DEF q, r
    <3> QED BY <1>1, <2>1, Remainder
  <2> QED BY <2>2, <2>3, <1>1 DEF Cell, Cells
<1>4. CASE r = N - 1
  <2>1. p + 1 = N * (q + 1) + 0
    <3> HIDE DEF q, r
    <3> QED BY <1>1, <1>2, <1>4, QueueAssumption
  <2>2. Cell(N * (q + 1) + 0) = 0
    <3> HIDE DEF q, r
    <3> QED BY <1>2, QueueAssumption, Remainder DEF Cells
  <2> QED BY <2>1, <2>2, <1>4, QueueAssumption DEF Cell
<1> QED BY <1>1, <1>3, <1>4, QueueAssumption DEF Cells

-----------------------------------------------------------------------------

(* The constructed ring satisfies the invariant.                           *)
LEMMA InvInit == Init => Inv
<1> SUFFICES ASSUME Init PROVE Inv
  OBVIOUS
<1>1. TypeOK
  BY QueueAssumption DEF Init, TypeOK, Cells, Locations
<1>2. CellNumbers
  BY CellOfCell DEF Init, CellNumbers, Cells
<1>3. LaneNumbers
  BY DEF Init, LaneNumbers
<1>4. PositionsBehind /\ ClaimsStand
  BY DEF Init, PositionsBehind, ClaimsStand, PushLocations, PopLocations
<1>5. ProducersOwn /\ ConsumersOwn /\ OwnersDiffer
  BY DEF Init, ProducersOwn, ConsumersOwn, OwnersDiffer, Producing, Consuming
<1> QED BY <1>1, <1>2, <1>3, <1>4, <1>5 DEF Init, Inv

-----------------------------------------------------------------------------

(* A step that leaves the sequence numbers and the two ends alone, and     *)
(* gives no thread a cell, only has to keep what the locals say.           *)
LEMMA QuietStep ==
  ASSUME Inv, TypeOK', PositionsBehind', ClaimsStand',
         UNCHANGED <<sequence, ends>>,
         \A u \in Threads : Producing(u)' => Producing(u) /\ position'[u] = position[u],
         \A u \in Threads : Consuming(u)' => Consuming(u) /\ position'[u] = position[u]
  PROVE  Inv'
<1>1. ProducersOwn' /\ ConsumersOwn'
  BY DEF Inv, ProducersOwn, ConsumersOwn, ends
<1>2. OwnersDiffer'
  BY DEF Inv, OwnersDiffer
<1>3. CellNumbers' /\ LaneNumbers'
  BY DEF Inv, CellNumbers, LaneNumbers, ends
<1> QED BY <1>1, <1>2, <1>3 DEF Inv, ends

(* The steps of TryPush and TryPop that only look, retry, copy or count.   *)
LEMMA QuietPush ==
  ASSUME Inv, NEW t \in Threads,
         \/ \E i \in Incidents : BeginPush(t, i)
         \/ PushSeesFree(t) \/ PushSeesOccupied(t) \/ PushSeesLater(t)
         \/ PushReload(t) \/ PushClaimFails(t) \/ PushDrop(t)
         \/ PushWrite(t) \/ PushCount(t)
  PROVE  Inv'
<1> USE DEF Inv, Goto, Return, SetPosition, cells, ends, counters, locals,
            PushLocations, PopLocations
<1>1. CASE \E i \in Incidents : BeginPush(t, i)
  <2>1. TypeOK' BY <1>1 DEF TypeOK, BeginPush, Locations
  <2>2. PositionsBehind' BY <1>1 DEF PositionsBehind, TypeOK, BeginPush
  <2>3. ClaimsStand' BY <1>1 DEF ClaimsStand, TypeOK, BeginPush
  <2> QED BY <1>1, <2>1, <2>2, <2>3, QuietStep DEF BeginPush, TypeOK, Producing, Consuming
<1>2. CASE PushSeesFree(t)
  <2>1. TypeOK' BY <1>2 DEF TypeOK, PushSeesFree, Locations
  <2>2. PositionsBehind' BY <1>2 DEF PositionsBehind, TypeOK, PushSeesFree
  <2>3. sequence[Cell(position[t])] = position[t]
    BY <1>2, CellIsCell DEF PushSeesFree, Difference, TypeOK
  <2>4. ClaimsStand' BY <1>2, <2>3 DEF ClaimsStand, TypeOK, PushSeesFree
  <2> QED BY <1>2, <2>1, <2>2, <2>4, QuietStep DEF PushSeesFree, TypeOK, Producing, Consuming
<1>3. CASE PushSeesOccupied(t) \/ PushSeesLater(t)
  <2> USE DEF PushSeesOccupied, PushSeesLater
  <2>1. TypeOK' BY <1>3 DEF TypeOK, Locations
  <2>2. PositionsBehind' BY <1>3 DEF PositionsBehind, TypeOK
  <2>3. ClaimsStand' BY <1>3 DEF ClaimsStand, TypeOK
  <2> QED BY <1>3, <2>1, <2>2, <2>3, QuietStep DEF TypeOK, Producing, Consuming
<1>4. CASE PushReload(t) \/ PushClaimFails(t)
  <2> USE DEF PushReload, PushClaimFails
  <2>1. TypeOK' BY <1>4 DEF TypeOK, Locations
  <2>2. PositionsBehind' BY <1>4 DEF PositionsBehind, TypeOK
  <2>3. ClaimsStand' BY <1>4 DEF ClaimsStand, TypeOK
  <2> QED BY <1>4, <2>1, <2>2, <2>3, QuietStep DEF TypeOK, Producing, Consuming
<1>5. CASE PushDrop(t) \/ PushCount(t)
  <2> USE DEF PushDrop, PushCount
  <2>1. TypeOK' BY <1>5 DEF TypeOK, Locations
  <2>2. PositionsBehind' BY <1>5 DEF PositionsBehind, TypeOK
  <2>3. ClaimsStand' BY <1>5 DEF ClaimsStand, TypeOK
  <2> QED BY <1>5, <2>1, <2>2, <2>3, QuietStep DEF TypeOK, Producing, Consuming
<1>6. CASE PushWrite(t)
  <2>1. TypeOK' BY <1>6, CellIsCell DEF TypeOK, PushWrite, Locations
  <2>2. PositionsBehind' BY <1>6 DEF PositionsBehind, TypeOK, PushWrite
  <2>3. ClaimsStand' BY <1>6 DEF ClaimsStand, TypeOK, PushWrite
  <2> QED BY <1>6, <2>1, <2>2, <2>3, QuietStep DEF PushWrite, TypeOK, Producing, Consuming
<1> QED BY <1>1, <1>2, <1>3, <1>4, <1>5, <1>6

LEMMA QuietPop ==
  ASSUME Inv, NEW t \in Threads,
         \/ BeginPop(t)
         \/ PopSeesReady(t) \/ PopSeesNothing(t) \/ PopSeesLater(t)
         \/ PopReload(t) \/ PopClaimFails(t) \/ PopCopy(t) \/ PopCount(t)
  PROVE  Inv'
<1> USE DEF Inv, Goto, Return, SetPosition, cells, ends, counters, locals,
            PushLocations, PopLocations
<1>1. CASE BeginPop(t) \/ PopReload(t) \/ PopClaimFails(t)
  <2> USE DEF BeginPop, PopReload, PopClaimFails
  <2>1. TypeOK' BY <1>1 DEF TypeOK, Locations
  <2>2. PositionsBehind' BY <1>1 DEF PositionsBehind, TypeOK
  <2>3. ClaimsStand' BY <1>1 DEF ClaimsStand, TypeOK
  <2> QED BY <1>1, <2>1, <2>2, <2>3, QuietStep DEF TypeOK, Producing, Consuming
<1>2. CASE PopSeesReady(t)
  <2>1. TypeOK' BY <1>2 DEF TypeOK, PopSeesReady, Locations
  <2>2. PositionsBehind' BY <1>2 DEF PositionsBehind, TypeOK, PopSeesReady
  <2>3. sequence[Cell(position[t])] = position[t] + 1
    BY <1>2, CellIsCell DEF PopSeesReady, Difference, TypeOK
  <2>4. ClaimsStand' BY <1>2, <2>3 DEF ClaimsStand, TypeOK, PopSeesReady
  <2> QED BY <1>2, <2>1, <2>2, <2>4, QuietStep DEF PopSeesReady, TypeOK, Producing, Consuming
<1>3. CASE PopSeesNothing(t) \/ PopCount(t)
  <2> USE DEF PopSeesNothing, PopCount
  <2>1. TypeOK' BY <1>3 DEF TypeOK, Locations
  <2>2. PositionsBehind' BY <1>3 DEF PositionsBehind, TypeOK
  <2>3. ClaimsStand' BY <1>3 DEF ClaimsStand, TypeOK
  <2> QED BY <1>3, <2>1, <2>2, <2>3, QuietStep DEF TypeOK, Producing, Consuming
<1>4. CASE PopSeesLater(t)
  <2> USE DEF PopSeesLater
  <2>1. TypeOK' BY <1>4 DEF TypeOK, Locations
  <2>2. PositionsBehind' BY <1>4 DEF PositionsBehind, TypeOK
  <2>3. ClaimsStand' BY <1>4 DEF ClaimsStand, TypeOK
  <2> QED BY <1>4, <2>1, <2>2, <2>3, QuietStep DEF TypeOK, Producing, Consuming
<1>5. CASE PopCopy(t)
  <2> USE DEF PopCopy
  <2>1. TypeOK' BY <1>5, CellIsCell DEF TypeOK, Locations
  <2>2. PositionsBehind' BY <1>5 DEF PositionsBehind, TypeOK
  <2>3. ClaimsStand' BY <1>5 DEF ClaimsStand, TypeOK
  <2> QED BY <1>5, <2>1, <2>2, <2>3, QuietStep DEF TypeOK, Producing, Consuming
<1> QED BY <1>1, <1>2, <1>3, <1>4, <1>5

(* Winning the exchange of TryPush: the new owner's position is the old    *)
(* end, past every other producer's.                                       *)
LEMMA PushClaimStep ==
  ASSUME Inv, NEW t \in Threads, PushClaim(t)
  PROVE  Inv'
<1> USE DEF Inv, PushClaim, Goto, cells, counters, locals
<1>1. sequence[Cell(enqueuePosition)] = enqueuePosition
  BY DEF ClaimsStand
<1>2. TypeOK'
  BY DEF TypeOK, Locations, PushLocations, PopLocations
<1>3. PositionsBehind'
  BY DEF PositionsBehind, TypeOK, PushLocations, PopLocations
<1>4. ProducersOwn'
  BY <1>1 DEF ProducersOwn, Producing, TypeOK
<1>5. ConsumersOwn'
  BY DEF ConsumersOwn, Consuming, TypeOK
<1>6. OwnersDiffer'
  BY DEF OwnersDiffer, ProducersOwn, Producing, Consuming, TypeOK
<1>7. ClaimsStand'
  BY DEF ClaimsStand, PositionsBehind, PushLocations, PopLocations, TypeOK
<1>8. CellNumbers'
  BY DEF CellNumbers, TypeOK
<1>9. LaneNumbers'
  BY <1>1 DEF LaneNumbers, TypeOK
<1> QED BY <1>2, <1>3, <1>4, <1>5, <1>6, <1>7, <1>8, <1>9 DEF TypeOK

(* Winning the exchange of TryPop: the record at the old end is published, *)
(* so the end it leaves behind was really below the other one.             *)
LEMMA PopClaimStep ==
  ASSUME Inv, NEW t \in Threads, PopClaim(t)
  PROVE  Inv'
<1> USE DEF Inv, PopClaim, Goto, cells, counters, locals
<1>1. sequence[Cell(dequeuePosition)] = dequeuePosition + 1
  BY DEF ClaimsStand
<1>2. dequeuePosition < enqueuePosition
  <2>1. dequeuePosition \in Nat /\ Cell(dequeuePosition) \in Cells
    BY CellIsCell DEF TypeOK
  <2>2. Cell(dequeuePosition + 1) # Cell(dequeuePosition)
    BY <2>1, CellNeighbours
  <2> QED BY <1>1, <2>1, <2>2 DEF CellNumbers, TypeOK
<1>3. TypeOK'
  BY DEF TypeOK, Locations, PushLocations, PopLocations
<1>4. PositionsBehind'
  BY DEF PositionsBehind, TypeOK, PushLocations, PopLocations
<1>5. ProducersOwn'
  BY DEF ProducersOwn, Producing, TypeOK
<1>6. ConsumersOwn'
  BY <1>1 DEF ConsumersOwn, Consuming, TypeOK
<1>7. OwnersDiffer'
  BY DEF OwnersDiffer, ConsumersOwn, Producing, Consuming, TypeOK
<1>8. ClaimsStand'
  BY DEF ClaimsStand, PositionsBehind, PushLocations, PopLocations, TypeOK
<1>9. CellNumbers' /\ LaneNumbers'
  BY DEF CellNumbers, LaneNumbers, TypeOK
<1> QED BY <1>2, <1>3, <1>4, <1>5, <1>6, <1>7, <1>8, <1>9 DEF TypeOK

(* Publishing: the cell's number goes from p to p + 1, where p belongs to  *)
(* this producer alone.                                                    *)
LEMMA PushPublishStep ==
  ASSUME Inv, NEW t \in Threads, PushPublish(t)
  PROVE  Inv'
<1> DEFINE p == position[t]
<1> USE DEF Inv, PushPublish, Goto, ends, counters, locals
<1>1. /\ p \in Nat /\ Cell(p) \in Cells
      /\ p < enqueuePosition /\ sequence[Cell(p)] = p
  BY CellIsCell DEF ProducersOwn, Producing, TypeOK
<1>2. /\ sequence' \in [Cells -> Nat] /\ sequence'[Cell(p)] = p + 1
      /\ \A q \in Nat : Cell(q) # Cell(p) => sequence'[Cell(q)] = sequence[Cell(q)]
  BY <1>1, CellIsCell DEF TypeOK
<1>3. TypeOK'
  BY <1>2 DEF TypeOK, Locations, PushLocations, PopLocations
<1>4. PositionsBehind'
  BY DEF PositionsBehind, TypeOK, PushLocations, PopLocations
<1>5. ProducersOwn'
  <2> SUFFICES ASSUME NEW u \in Threads, Producing(u)'
               PROVE  position[u] < enqueuePosition /\ sequence'[Cell(position[u])] = position[u]
    BY DEF ProducersOwn
  <2>1. u # t /\ Producing(u) /\ position[u] \in Nat
    BY DEF Producing, TypeOK
  <2>2. position[u] # p
    BY <2>1 DEF OwnersDiffer, Producing
  <2> QED BY <1>1, <1>2, <2>1, <2>2 DEF ProducersOwn
<1>6. ConsumersOwn'
  <2> SUFFICES ASSUME NEW u \in Threads, Consuming(u)'
               PROVE  position[u] < dequeuePosition /\ sequence'[Cell(position[u])] = position[u] + 1
    BY DEF ConsumersOwn
  <2>1. u # t /\ Consuming(u) /\ position[u] \in Nat
    BY DEF Consuming, TypeOK
  <2>2. Cell(position[u] + 1) # Cell(position[u])
    BY <2>1, CellNeighbours
  <2> QED BY <1>1, <1>2, <2>1, <2>2 DEF ConsumersOwn
<1>7. OwnersDiffer'
  BY DEF OwnersDiffer, Producing, Consuming, TypeOK
<1>8. ClaimsStand'
  <2>1. Cell(dequeuePosition + 1) # Cell(dequeuePosition)
    BY CellNeighbours DEF TypeOK
  <2>2. enqueuePosition \in Nat /\ dequeuePosition \in Nat
    BY DEF TypeOK
  <2>3. sequence[Cell(enqueuePosition)] = enqueuePosition =>
          sequence'[Cell(enqueuePosition)] = enqueuePosition
    BY <1>1, <1>2, <2>2
  <2>4. sequence[Cell(dequeuePosition)] = dequeuePosition + 1 =>
          sequence'[Cell(dequeuePosition)] = dequeuePosition + 1
    BY <1>1, <1>2, <2>1, <2>2
  <2> QED BY <2>3, <2>4 DEF ClaimsStand, TypeOK
<1>9. CellNumbers'
  BY <1>1, <1>2 DEF CellNumbers, TypeOK
<1>10. LaneNumbers'
  <2> SUFFICES ASSUME NEW q \in dequeuePosition .. enqueuePosition - 1
               PROVE  sequence'[Cell(q)] \in {q, q + 1}
    BY DEF LaneNumbers
  <2>1. q \in Nat /\ sequence[Cell(q)] \in {q, q + 1}
    BY DEF LaneNumbers, TypeOK
  <2>2. Cell(q + 1) # Cell(q)
    BY <2>1, CellNeighbours
  <2> QED BY <1>1, <1>2, <2>1, <2>2
<1> QED BY <1>3, <1>4, <1>5, <1>6, <1>7, <1>8, <1>9, <1>10

(* Releasing: the cell's number goes from p + 1 to p + N, where p belongs  *)
(* to this consumer alone and is no longer between the two ends.           *)
LEMMA PopReleaseStep ==
  ASSUME Inv, NEW t \in Threads, PopRelease(t)
  PROVE  Inv'
<1> DEFINE p == position[t]
<1> USE DEF Inv, PopRelease, Goto, ends, counters, locals
<1>1. /\ p \in Nat /\ Cell(p) \in Cells
      /\ p < dequeuePosition /\ sequence[Cell(p)] = p + 1
      /\ Cell(p + 1) # Cell(p) /\ Cell(p + N) = Cell(p) /\ p + N \in Nat
  BY CellIsCell, CellNeighbours, CellNextLap, QueueAssumption DEF ConsumersOwn, Consuming, TypeOK
<1>2. /\ sequence' \in [Cells -> Nat] /\ sequence'[Cell(p)] = p + N
      /\ \A q \in Nat : Cell(q) # Cell(p) => sequence'[Cell(q)] = sequence[Cell(q)]
  BY <1>1, CellIsCell DEF TypeOK
<1>3. TypeOK'
  BY <1>2 DEF TypeOK, Locations, PushLocations, PopLocations
<1>4. PositionsBehind'
  BY DEF PositionsBehind, TypeOK, PushLocations, PopLocations
<1>5. ProducersOwn'
  <2> SUFFICES ASSUME NEW u \in Threads, Producing(u)'
               PROVE  position[u] < enqueuePosition /\ sequence'[Cell(position[u])] = position[u]
    BY DEF ProducersOwn
  <2>1. u # t /\ Producing(u) /\ position[u] \in Nat
    BY DEF Producing, TypeOK
  <2> QED BY <1>1, <1>2, <2>1 DEF ProducersOwn
<1>6. ConsumersOwn'
  <2> SUFFICES ASSUME NEW u \in Threads, Consuming(u)'
               PROVE  position[u] < dequeuePosition /\ sequence'[Cell(position[u])] = position[u] + 1
    BY DEF ConsumersOwn
  <2>1. u # t /\ Consuming(u) /\ position[u] \in Nat
    BY DEF Consuming, TypeOK
  <2>2. position[u] # p
    BY <2>1 DEF OwnersDiffer, Consuming
  <2> QED BY <1>1, <1>2, <2>1, <2>2 DEF ConsumersOwn
<1>7. OwnersDiffer'
  BY DEF OwnersDiffer, Producing, Consuming, TypeOK
<1>8. ClaimsStand'
  <2>1. enqueuePosition \in Nat /\ dequeuePosition \in Nat /\ dequeuePosition <= enqueuePosition
    BY DEF TypeOK
  <2>2. sequence[Cell(enqueuePosition)] = enqueuePosition =>
          sequence'[Cell(enqueuePosition)] = enqueuePosition
    BY <1>1, <1>2, <2>1
  <2>3. sequence[Cell(dequeuePosition)] = dequeuePosition + 1 =>
          sequence'[Cell(dequeuePosition)] = dequeuePosition + 1
    BY <1>1, <1>2, <2>1
  <2> QED BY <2>2, <2>3 DEF ClaimsStand, TypeOK
<1>9. CellNumbers'
  BY <1>1, <1>2 DEF CellNumbers, TypeOK
<1>10. LaneNumbers'
  <2> SUFFICES ASSUME NEW q \in dequeuePosition .. enqueuePosition - 1
               PROVE  sequence'[Cell(q)] \in {q, q + 1}
    BY DEF LaneNumbers
  <2>1. q \in Nat /\ p < q /\ sequence[Cell(q)] \in {q, q + 1}
    BY <1>1 DEF LaneNumbers, TypeOK
  <2> QED BY <1>1, <1>2, <2>1
<1> QED BY <1>3, <1>4, <1>5, <1>6, <1>7, <1>8, <1>9, <1>10

-----------------------------------------------------------------------------

(* The invariant is inductive.                                             *)
LEMMA InvStep == Inv /\ [Next]_vars => Inv'
<1> SUFFICES ASSUME Inv, [Next]_vars PROVE Inv'
  OBVIOUS
<1>1. ASSUME NEW t \in Threads, Begin(t) \/ Push(t) \/ Pop(t)
      PROVE  Inv'
  BY <1>1, QuietPush, QuietPop, PushClaimStep, PopClaimStep, PushPublishStep,
     PopReleaseStep DEF Begin, Push, Pop
<1>2. CASE UNCHANGED vars
  BY <1>2 DEF vars, cells, ends, counters, locals, Inv, TypeOK, PositionsBehind,
     ProducersOwn, ConsumersOwn, OwnersDiffer, ClaimsStand, CellNumbers,
     LaneNumbers, Producing, Consuming
<1> QED BY <1>1, <1>2 DEF Next

(* Every reachable state satisfies the invariant.                          *)
THEOREM InvHolds == Spec => []Inv
<1> QED BY InvInit, InvStep, PTL DEF Spec

(* The variables keep their types.                                         *)
THEOREM TypeCorrect == Spec => []TypeOK
<1>1. Inv => TypeOK
  BY DEF Inv
<1> QED BY <1>1, InvHolds, PTL

(* No two threads are ever in the plain memory of one cell: two producers  *)
(* or two consumers have different positions, hence different sequence     *)
(* numbers; a producer and a consumer in one cell would have neighbouring  *)
(* positions, which are in different cells.                                *)
THEOREM NoDataRace == Spec => []ExclusiveCell
<1>1. Inv => ExclusiveCell
  <2> SUFFICES ASSUME Inv, NEW t \in Threads, NEW u \in Threads, t # u,
                      OwnsCell(t), OwnsCell(u)
               PROVE  Cell(position[t]) # Cell(position[u])
    BY DEF ExclusiveCell
  <2>1. position[t] \in Nat /\ position[u] \in Nat
    BY DEF Inv, TypeOK
  <2>2. Cell(position[t] + 1) # Cell(position[t]) /\ Cell(position[u] + 1) # Cell(position[u])
    BY <2>1, CellNeighbours
  <2> QED BY <2>1, <2>2 DEF Inv, OwnsCell, ProducersOwn, ConsumersOwn, OwnersDiffer
<1> QED BY <1>1, InvHolds, PTL

(* The ring never holds more than N records that nobody popped: the record *)
(* one lap ahead of the oldest would need the same cell.                   *)
THEOREM CapacityHolds == Spec => []NeverOverfull
<1>1. Inv => NeverOverfull
  <2> SUFFICES ASSUME Inv, enqueuePosition - dequeuePosition > N
               PROVE  FALSE
    BY QueueAssumption DEF Inv, TypeOK, NeverOverfull
  <2> DEFINE d == dequeuePosition
  <2>1. d \in Nat /\ d + N \in Nat /\ enqueuePosition \in Nat
    BY QueueAssumption DEF Inv, TypeOK
  <2>2. d \in d .. enqueuePosition - 1 /\ d + N \in d .. enqueuePosition - 1
    BY <2>1, QueueAssumption
  <2>3. sequence[Cell(d)] \in {d, d + 1} /\ sequence[Cell(d + N)] \in {d + N, d + N + 1}
    BY <2>2 DEF Inv, LaneNumbers
  <2>4. Cell(d + N) = Cell(d)
    BY <2>1, CellNextLap
  <2> QED BY <2>1, <2>3, <2>4, QueueAssumption
<1> QED BY <1>1, InvHolds, PTL

-----------------------------------------------------------------------------
(* The extended invariant.                                                 *)

(* Positions that share a cell are a whole lap apart.                      *)
LEMMA CellsApart ==
  ASSUME NEW p \in Nat, NEW q \in Nat, p < q, Cell(p) = Cell(q)
  PROVE  p + N <= q
<1> DEFINE a == p \div N
           b == q \div N
           r == p % N
<1>1. a \in Nat /\ b \in Nat /\ r \in Cells /\ p = N * a + r /\ q = N * b + r
  BY Division, CellIsCell DEF Cell
<1> HIDE DEF a, b, r
<1>2. a < b
  <2>1. ASSUME b <= a PROVE FALSE
    <3>1. PICK d \in Nat : a = b + d
      BY <1>1, <2>1
    <3>2. N * a = N * b + N * d /\ N * d \in Nat /\ N * b \in Nat
      BY <1>1, <3>1, QueueAssumption
    <3> QED BY <1>1, <3>2, QueueAssumption DEF Cells
  <2> QED BY <1>1, <2>1
<1>3. PICK d \in Nat : b = a + 1 + d
  <2>1. b - a - 1 \in Nat /\ b = a + 1 + (b - a - 1)
    BY <1>1, <1>2
  <2> QED BY <2>1
<1>4. N * b = N * a + N + N * d /\ N * d \in Nat /\ N * a \in Nat
  BY <1>1, <1>3, QueueAssumption
<1> QED BY <1>1, <1>4, QueueAssumption DEF Cells

(* The constructed ring has no cell between two numbers.                   *)
LEMMA RingInit == ASSUME Init PROVE RingInv
<1>1. Inv
  BY InvInit
<1>2. SequencesAdvance
  BY CellOfCell DEF Init, SequencesAdvance, Cells
<1>3. EveryCellOwned
  BY DEF Init, EveryCellOwned
<1>4. CountsCatchUp
  <2>1. Pushing = {} /\ Popping = {}
    BY DEF Init, Pushing, Popping, Producing, Consuming
  <2> QED BY <2>1, FS_EmptySet DEF Init, CountsCatchUp
<1> QED BY <1>1, <1>2, <1>3, <1>4 DEF RingInv

(* Steps that move no number and give or take no cell.                     *)
LEMMA StillRing ==
  ASSUME RingInv, Inv', UNCHANGED <<sequence, ends, pushed, popped>>,
         \A u \in Threads :
           /\ Producing(u)' = Producing(u) /\ Consuming(u)' = Consuming(u)
           /\ pc'[u] = "pushCount" <=> pc[u] = "pushCount"
           /\ pc'[u] = "popCount" <=> pc[u] = "popCount"
           /\ OwnsCell(u) => position'[u] = position[u]
  PROVE  RingInv'
<1>1. enqueuePosition' = enqueuePosition /\ dequeuePosition' = dequeuePosition
  BY DEF ends
<1>2. SequencesAdvance'
  BY <1>1 DEF RingInv, SequencesAdvance
<1>3. EveryCellOwned'
  BY <1>1 DEF RingInv, EveryCellOwned, OwnsCell
<1>4. Pushing' = Pushing /\ Popping' = Popping
  BY DEF Pushing, Popping
<1>5. CountsCatchUp'
  BY <1>1, <1>4 DEF RingInv, CountsCatchUp
<1> QED BY <1>2, <1>3, <1>5 DEF RingInv

(* What TryPush and TryPop do outside the cell they own.                   *)
LEMMA RingQuiet ==
  ASSUME RingInv, Inv', NEW t \in Threads,
         \/ \E i \in Incidents : BeginPush(t, i)
         \/ PushSeesFree(t) \/ PushSeesOccupied(t) \/ PushSeesLater(t)
         \/ PushReload(t) \/ PushClaimFails(t) \/ PushDrop(t) \/ PushWrite(t)
         \/ BeginPop(t)
         \/ PopSeesReady(t) \/ PopSeesNothing(t) \/ PopSeesLater(t)
         \/ PopReload(t) \/ PopClaimFails(t) \/ PopCopy(t)
  PROVE  RingInv'
<1> USE DEF Goto, Return, SetPosition, cells, counters, locals, Producing, Consuming, OwnsCell
<1>1. pc \in [Threads -> Locations] /\ position \in [Threads -> Nat]
  BY DEF RingInv, Inv, TypeOK
<1>2. CASE \E i \in Incidents : BeginPush(t, i)
  BY <1>1, <1>2, StillRing DEF BeginPush
<1>3. CASE PushSeesFree(t) \/ PushSeesOccupied(t) \/ PushSeesLater(t)
  BY <1>1, <1>3, StillRing DEF PushSeesFree, PushSeesOccupied, PushSeesLater
<1>4. CASE PushReload(t) \/ PushClaimFails(t)
  BY <1>1, <1>4, StillRing DEF PushReload, PushClaimFails
<1>5. CASE PushDrop(t)
  BY <1>1, <1>5, StillRing DEF PushDrop
<1>6. CASE PushWrite(t)
  BY <1>1, <1>6, StillRing DEF PushWrite
<1>7. CASE BeginPop(t) \/ PopReload(t) \/ PopClaimFails(t)
  BY <1>1, <1>7, StillRing DEF BeginPop, PopReload, PopClaimFails
<1>8. CASE PopSeesReady(t) \/ PopSeesLater(t)
  BY <1>1, <1>8, StillRing DEF PopSeesReady, PopSeesLater
<1>9. CASE PopSeesNothing(t)
  BY <1>1, <1>9, StillRing DEF PopSeesNothing
<1>10. CASE PopCopy(t)
  BY <1>1, <1>10, StillRing DEF PopCopy
<1> QED BY <1>2, <1>3, <1>4, <1>5, <1>6, <1>7, <1>8, <1>9, <1>10

(* The exchange of TryPush.                                                *)
LEMMA RingPushClaim ==
  ASSUME RingInv, Inv', NEW t \in Threads, PushClaim(t)
  PROVE  RingInv'
<1> USE DEF PushClaim, Goto, cells, counters, locals
<1>1. /\ enqueuePosition \in Nat /\ dequeuePosition \in Nat
      /\ pc \in [Threads -> Locations] /\ position \in [Threads -> Nat]
      /\ sequence[Cell(enqueuePosition)] = enqueuePosition
  BY DEF RingInv, Inv, TypeOK, ClaimsStand
<1>2. SequencesAdvance'
  BY <1>1 DEF RingInv, SequencesAdvance
<1>3. Producing(t)' /\ \A u \in Threads : Producing(u) => Producing(u)'
  BY <1>1 DEF Producing
<1>4. \A u \in Threads : Consuming(u)' = Consuming(u)
  BY <1>1 DEF Consuming
<1>5. EveryCellOwned'
  BY <1>1, <1>3, <1>4 DEF RingInv, EveryCellOwned
<1>6. Pushing' = Pushing \cup {t} /\ t \notin Pushing /\ Popping' = Popping
  BY <1>1 DEF Pushing, Popping, Producing, Consuming
<1>7. CountsCatchUp'
  <2>1. IsFiniteSet(Pushing) /\ Cardinality(Pushing) \in Nat
    BY FS_CardinalityType DEF RingInv, CountsCatchUp
  <2>2. IsFiniteSet(Pushing \cup {t}) /\ Cardinality(Pushing \cup {t}) = Cardinality(Pushing) + 1
    BY <1>6, <2>1, FS_AddElement
  <2>3. pushed \in Nat /\ pushed + Cardinality(Pushing) = enqueuePosition
    BY DEF RingInv, Inv, TypeOK, CountsCatchUp
  <2>4. IsFiniteSet(Pushing') /\ pushed' + Cardinality(Pushing') = enqueuePosition'
    BY <1>1, <1>6, <2>1, <2>2, <2>3
  <2> QED BY <1>6, <2>4 DEF RingInv, CountsCatchUp
<1> QED BY <1>2, <1>5, <1>7 DEF RingInv

(* The exchange of TryPop.                                                 *)
LEMMA RingPopClaim ==
  ASSUME RingInv, Inv', NEW t \in Threads, PopClaim(t)
  PROVE  RingInv'
<1> USE DEF PopClaim, Goto, cells, counters, locals
<1>1. /\ enqueuePosition \in Nat /\ dequeuePosition \in Nat
      /\ pc \in [Threads -> Locations] /\ position \in [Threads -> Nat]
      /\ sequence[Cell(dequeuePosition)] = dequeuePosition + 1
  BY DEF RingInv, Inv, TypeOK, ClaimsStand
<1>2. SequencesAdvance'
  BY <1>1 DEF RingInv, SequencesAdvance
<1>3. Consuming(t)' /\ \A u \in Threads : Consuming(u) => Consuming(u)'
  BY <1>1 DEF Consuming
<1>4. \A u \in Threads : Producing(u)' = Producing(u)
  BY <1>1 DEF Producing
<1>5. EveryCellOwned'
  BY <1>1, <1>3, <1>4 DEF RingInv, EveryCellOwned
<1>6. Popping' = Popping \cup {t} /\ t \notin Popping /\ Pushing' = Pushing
  BY <1>1 DEF Pushing, Popping, Producing, Consuming
<1>7. CountsCatchUp'
  <2>1. IsFiniteSet(Popping) /\ Cardinality(Popping) \in Nat
    BY FS_CardinalityType DEF RingInv, CountsCatchUp
  <2>2. IsFiniteSet(Popping \cup {t}) /\ Cardinality(Popping \cup {t}) = Cardinality(Popping) + 1
    BY <1>6, <2>1, FS_AddElement
  <2>3. popped \in Nat /\ popped + Cardinality(Popping) = dequeuePosition
    BY DEF RingInv, Inv, TypeOK, CountsCatchUp
  <2>4. IsFiniteSet(Popping') /\ popped' + Cardinality(Popping') = dequeuePosition'
    BY <1>1, <1>6, <2>1, <2>2, <2>3
  <2> QED BY <1>6, <2>4 DEF RingInv, CountsCatchUp
<1> QED BY <1>2, <1>5, <1>7 DEF RingInv

(* The store of TryPush: p becomes p + 1.                                  *)
LEMMA RingPublish ==
  ASSUME RingInv, Inv', NEW t \in Threads, PushPublish(t)
  PROVE  RingInv'
<1> DEFINE p == position[t]
<1> USE DEF PushPublish, Goto, ends, counters, locals
<1>1. /\ enqueuePosition \in Nat /\ dequeuePosition \in Nat /\ dequeuePosition <= enqueuePosition
      /\ pc \in [Threads -> Locations] /\ position \in [Threads -> Nat]
      /\ sequence \in [Cells -> Nat]
      /\ p \in Nat /\ Cell(p) \in Cells /\ Cell(p + 1) # Cell(p)
      /\ p < enqueuePosition /\ sequence[Cell(p)] = p
  BY CellIsCell, CellNeighbours DEF RingInv, Inv, TypeOK, ProducersOwn, Producing
<1>2. dequeuePosition <= p
  BY <1>1 DEF RingInv, SequencesAdvance
<1>3. /\ sequence' \in [Cells -> Nat] /\ sequence'[Cell(p)] = p + 1
      /\ \A c \in Cells : c # Cell(p) => sequence'[c] = sequence[c]
  BY <1>1
<1>4. SequencesAdvance'
  <2>1. \A q \in 0 .. enqueuePosition : sequence'[Cell(q)] >= sequence[Cell(q)]
    BY <1>1, <1>3, CellIsCell
  <2>2. \A q \in 0 .. enqueuePosition : Cell(q) \in Cells /\ sequence'[Cell(q)] \in Nat /\ sequence[Cell(q)] \in Nat
    BY <1>1, <1>3, CellIsCell
  <2>3. \A c \in Cells : sequence'[c] >= c
    BY <1>1, <1>3 DEF RingInv, SequencesAdvance, Cells
  <2>4. \A q \in 0 .. enqueuePosition - 1 : sequence'[Cell(q)] >= q
    BY <1>1, <2>1, <2>2 DEF RingInv, SequencesAdvance
  <2>5. \A q \in 0 .. dequeuePosition - 1 : sequence'[Cell(q)] >= q + 1
    BY <1>1, <2>1, <2>2 DEF RingInv, SequencesAdvance
  <2> QED BY <1>1, <2>3, <2>4, <2>5 DEF SequencesAdvance
<1>5. \A u \in Threads : Consuming(u)' = Consuming(u)
  BY <1>1 DEF Consuming
<1>6. \A u \in Threads : u # t => Producing(u)' = Producing(u)
  BY <1>1 DEF Producing
<1>7. EveryCellOwned'
  <2>1. ASSUME NEW q \in dequeuePosition .. enqueuePosition - 1, sequence'[Cell(q)] = q
        PROVE  \E u \in Threads : Producing(u)' /\ position[u] = q
    <3>1. Cell(q) \in Cells /\ q \in Nat
      BY <1>1, <2>1, CellIsCell
    <3>2. Cell(q) # Cell(p)
      <4>1. SUFFICES ASSUME Cell(q) = Cell(p) PROVE FALSE
        OBVIOUS
      <4>2. q = p + 1
        BY <1>3, <2>1, <4>1
      <4> QED BY <1>1, <4>1, <4>2
    <3>3. sequence[Cell(q)] = q
      BY <1>3, <2>1, <3>1, <3>2
    <3>4. PICK u \in Threads : Producing(u) /\ position[u] = q
      BY <2>1, <3>3 DEF RingInv, EveryCellOwned
    <3> QED BY <1>6, <3>2, <3>4
  <2>2. ASSUME NEW q \in 0 .. dequeuePosition - 1, sequence'[Cell(q)] = q + 1
        PROVE  \E u \in Threads : Consuming(u)' /\ position[u] = q
    <3>1. Cell(q) \in Cells /\ q \in Nat /\ q < p
      BY <1>1, <1>2, <2>2, CellIsCell
    <3>2. Cell(q) # Cell(p)
      BY <1>1, <1>3, <2>2, <3>1
    <3>3. sequence[Cell(q)] = q + 1
      BY <1>3, <2>2, <3>1, <3>2
    <3> QED BY <1>5, <2>2, <3>3 DEF RingInv, EveryCellOwned
  <2> QED BY <2>1, <2>2 DEF EveryCellOwned
<1>8. Pushing' = Pushing /\ Popping' = Popping
  BY <1>1 DEF Pushing, Popping, Producing, Consuming
<1>9. CountsCatchUp'
  BY <1>8 DEF RingInv, CountsCatchUp
<1> QED BY <1>4, <1>7, <1>9 DEF RingInv

(* The store of TryPop: p + 1 becomes p + N.                               *)
LEMMA RingRelease ==
  ASSUME RingInv, Inv', NEW t \in Threads, PopRelease(t)
  PROVE  RingInv'
<1> DEFINE p == position[t]
<1> USE DEF PopRelease, Goto, ends, counters, locals
<1>1. /\ enqueuePosition \in Nat /\ dequeuePosition \in Nat /\ dequeuePosition <= enqueuePosition
      /\ pc \in [Threads -> Locations] /\ position \in [Threads -> Nat]
      /\ sequence \in [Cells -> Nat]
      /\ p \in Nat /\ Cell(p) \in Cells /\ p + N \in Nat /\ N \in Nat /\ N >= 2
      /\ p < dequeuePosition /\ sequence[Cell(p)] = p + 1
  BY CellIsCell, QueueAssumption DEF RingInv, Inv, TypeOK, ConsumersOwn, Consuming
<1>2. /\ sequence' \in [Cells -> Nat] /\ sequence'[Cell(p)] = p + N
      /\ \A c \in Cells : c # Cell(p) => sequence'[c] = sequence[c]
      /\ enqueuePosition' = enqueuePosition /\ dequeuePosition' = dequeuePosition
      /\ position' = position /\ pushed' = pushed /\ popped' = popped
  BY <1>1
<1>3. \A u \in Threads : Producing(u)' = Producing(u)
  BY <1>1 DEF Producing
<1>4. \A u \in Threads : position[u] # p => Consuming(u)' = Consuming(u)
  BY <1>1 DEF Consuming
<1>5. Pushing' = Pushing /\ Popping' = Popping
  BY <1>1 DEF Pushing, Popping, Producing, Consuming
<1> HIDE DEF p, PopRelease, Goto, ends, counters, locals
<1>6. \A q \in Nat : Cell(q) \in Cells /\ (Cell(q) = Cell(p) => q <= p \/ p + N <= q)
  BY <1>1, CellIsCell, CellsApart
<1>7. SequencesAdvance'
  <2>1. \A c \in Cells : sequence[c] \in Nat /\ sequence'[c] \in Nat /\ sequence'[c] >= sequence[c]
    BY <1>1, <1>2
  <2>2. \A c \in Cells : sequence'[c] >= c
    BY <1>1, <2>1 DEF RingInv, SequencesAdvance, Cells
  <2>3. ASSUME NEW q \in 0 .. enqueuePosition - 1 PROVE sequence'[Cell(q)] >= q
    <3>1. q \in Nat /\ Cell(q) \in Cells /\ sequence[Cell(q)] >= q
      BY <1>1, <1>6, <2>3 DEF RingInv, SequencesAdvance
    <3> QED BY <2>1, <3>1
  <2>4. ASSUME NEW q \in 0 .. dequeuePosition - 1 PROVE sequence'[Cell(q)] >= q + 1
    <3>1. q \in Nat /\ Cell(q) \in Cells /\ sequence[Cell(q)] >= q + 1
      BY <1>1, <1>6, <2>4 DEF RingInv, SequencesAdvance
    <3> QED BY <2>1, <3>1
  <2> QED BY <1>2, <2>2, <2>3, <2>4 DEF SequencesAdvance
<1>8. EveryCellOwned'
  <2>1. ASSUME NEW q \in dequeuePosition .. enqueuePosition - 1, sequence'[Cell(q)] = q
        PROVE  \E u \in Threads : Producing(u)' /\ position[u] = q
    <3>1. q \in Nat /\ p < q /\ Cell(q) \in Cells
      BY <1>1, <1>6, <2>1
    <3>2. sequence[Cell(q)] \in {q, q + 1}
      BY DEF RingInv, Inv, LaneNumbers
    <3>3. Cell(q) # Cell(p)
      BY <1>1, <1>6, <3>1, <3>2
    <3>4. sequence[Cell(q)] = q
      BY <1>2, <2>1, <3>1, <3>3
    <3> QED BY <1>3, <2>1, <3>4 DEF RingInv, EveryCellOwned
  <2>2. ASSUME NEW q \in 0 .. dequeuePosition - 1, sequence'[Cell(q)] = q + 1
        PROVE  \E u \in Threads : Consuming(u)' /\ position[u] = q
    <3>1. q \in Nat /\ Cell(q) \in Cells
      BY <1>1, <1>6, <2>2
    <3>2. Cell(q) # Cell(p)
      <4>1. SUFFICES ASSUME Cell(q) = Cell(p) PROVE FALSE
        OBVIOUS
      <4>2. q + 1 = p + N
        BY <1>2, <2>2, <4>1
      <4> QED BY <1>1, <1>6, <3>1, <4>1, <4>2
    <3>3. sequence[Cell(q)] = q + 1 /\ q # p
      BY <1>2, <2>2, <3>1, <3>2
    <3>4. PICK u \in Threads : Consuming(u) /\ position[u] = q
      BY <2>2, <3>3 DEF RingInv, EveryCellOwned
    <3> QED BY <1>4, <3>3, <3>4
  <2> QED BY <1>2, <2>1, <2>2 DEF EveryCellOwned
<1>9. CountsCatchUp'
  BY <1>2, <1>5 DEF RingInv, CountsCatchUp
<1> QED BY <1>7, <1>8, <1>9 DEF RingInv

(* The totals follow.                                                      *)
LEMMA RingCount ==
  ASSUME RingInv, Inv', NEW t \in Threads, PushCount(t) \/ PopCount(t)
  PROVE  RingInv'
<1> USE DEF PushCount, PopCount, Return, Goto, cells, ends
<1>1. pc \in [Threads -> Locations] /\ position \in [Threads -> Nat] /\ pushed \in Nat /\ popped \in Nat
  BY DEF RingInv, Inv, TypeOK
<1>2. \A u \in Threads : /\ Producing(u)' = Producing(u) /\ Consuming(u)' = Consuming(u)
                         /\ OwnsCell(u) => position'[u] = position[u]
  BY <1>1 DEF Producing, Consuming, OwnsCell
<1>3. SequencesAdvance' /\ EveryCellOwned'
  BY <1>2 DEF RingInv, SequencesAdvance, EveryCellOwned, OwnsCell
<1>4. CASE PushCount(t)
  <2>1. Pushing' = Pushing \ {t} /\ t \in Pushing /\ Popping' = Popping
    BY <1>1, <1>4 DEF Pushing, Popping, Producing, Consuming
  <2>2. CountsCatchUp'
    <3>1. IsFiniteSet(Pushing) /\ Cardinality(Pushing) \in Nat
      BY FS_CardinalityType DEF RingInv, CountsCatchUp
    <3>2. IsFiniteSet(Pushing \ {t}) /\ Cardinality(Pushing \ {t}) = Cardinality(Pushing) - 1
      BY <2>1, <3>1, FS_RemoveElement
    <3>3. IsFiniteSet(Pushing') /\ pushed' + Cardinality(Pushing') = pushed + Cardinality(Pushing)
      BY <1>1, <1>4, <2>1, <3>1, <3>2
    <3> QED BY <1>4, <2>1, <3>3 DEF RingInv, CountsCatchUp
  <2> QED BY <1>3, <2>2 DEF RingInv
<1>5. CASE PopCount(t)
  <2>1. Popping' = Popping \ {t} /\ t \in Popping /\ Pushing' = Pushing
    BY <1>1, <1>5 DEF Pushing, Popping, Producing, Consuming
  <2>2. CountsCatchUp'
    <3>1. IsFiniteSet(Popping) /\ Cardinality(Popping) \in Nat
      BY FS_CardinalityType DEF RingInv, CountsCatchUp
    <3>2. IsFiniteSet(Popping \ {t}) /\ Cardinality(Popping \ {t}) = Cardinality(Popping) - 1
      BY <2>1, <3>1, FS_RemoveElement
    <3>3. IsFiniteSet(Popping') /\ popped' + Cardinality(Popping') = popped + Cardinality(Popping)
      BY <1>1, <1>5, <2>1, <3>1, <3>2
    <3> QED BY <1>5, <2>1, <3>3 DEF RingInv, CountsCatchUp
  <2> QED BY <1>3, <2>2 DEF RingInv
<1> QED BY <1>4, <1>5

(* The extended invariant is inductive.                                    *)
LEMMA RingStep == ASSUME RingInv, [Next]_vars PROVE RingInv'
<1>1. Inv'
  BY InvStep DEF RingInv
<1>2. CASE UNCHANGED vars
  BY <1>1, <1>2, StillRing DEF vars, cells, ends, counters, locals, Producing, Consuming
<1>3. ASSUME NEW t \in Threads, Begin(t) \/ Push(t) \/ Pop(t)
      PROVE  RingInv'
  BY <1>1, <1>3, RingQuiet, RingPushClaim, RingPopClaim, RingPublish, RingRelease, RingCount
     DEF Begin, Push, Pop
<1> QED BY <1>2, <1>3 DEF Next

(* A sequence number only grows, every half-way cell has an owner who will *)
(* finish it, and the totals lag by exactly the calls that have not        *)
(* counted yet.                                                            *)
THEOREM RingInvHolds == Spec => []RingInv
<1>1. Init => RingInv
  BY RingInit
<1>2. RingInv /\ [Next]_vars => RingInv'
  BY RingStep
<1> QED BY <1>1, <1>2, PTL DEF Spec

(* Whenever no call is in progress the diagnostic totals are exact, and    *)
(* every record between the two ends is published.                         *)
THEOREM CountersExact == Spec => []CountersAtRest
<1>1. RingInv => CountersAtRest
  <2> SUFFICES ASSUME RingInv, \A t \in Threads : pc[t] = "idle"
               PROVE  /\ pushed = enqueuePosition /\ popped = dequeuePosition
                      /\ \A p \in dequeuePosition .. enqueuePosition - 1 : sequence[Cell(p)] = p + 1
    BY DEF CountersAtRest
  <2>1. Pushing = {} /\ Popping = {}
    BY DEF Pushing, Popping, Producing, Consuming
  <2>2. pushed = enqueuePosition /\ popped = dequeuePosition
    BY <2>1, FS_EmptySet DEF RingInv, Inv, TypeOK, CountsCatchUp
  <2>3. \A t \in Threads : ~Producing(t)
    BY DEF Producing
  <2> QED BY <2>2, <2>3 DEF RingInv, Inv, LaneNumbers, EveryCellOwned
<1> QED BY <1>1, RingInvHolds, PTL

-----------------------------------------------------------------------------
(* Refinement of IncidentTransport.                                        *)

(* The sequence operators of the abstract lane, on a sequence given by its *)
(* elements.                                                               *)
LEMMA SeqShape ==
  ASSUME NEW m \in Nat, NEW s, s = [k \in 1 .. m |-> s[k]]
  PROVE  /\ Len(s) = m
         /\ s = <<>> <=> m = 0
         /\ m > 0 => Head(s) = s[1]
         /\ m > 0 => Tail(s) = [k \in 1 .. m - 1 |-> s[k + 1]]
         /\ \A x : Append(s, x) = [k \in 1 .. m + 1 |-> IF k = m + 1 THEN x ELSE s[k]]
<1>0. s \in Seq({s[k] : k \in 1 .. m})
  OBVIOUS
<1>1. Len(s) = m
  OBVIOUS
<1>2. s = <<>> <=> m = 0
  BY <1>1
<1>3. m > 0 => Head(s) = s[1]
  OBVIOUS
<1>4. m > 0 => Tail(s) = [k \in 1 .. m - 1 |-> s[k + 1]]
  BY <1>0, <1>1
<1>5. ASSUME NEW x PROVE Append(s, x) = [k \in 1 .. m + 1 |-> IF k = m + 1 THEN x ELSE s[k]]
  BY <1>0, <1>1
<1> QED BY <1>1, <1>2, <1>3, <1>4, <1>5

(* Marking an entry ready changes nothing else.                            *)
LEMMA MadeReady ==
  ASSUME NEW i, NEW b, NEW c, NEW r, r = [incident |-> i, ready |-> b]
  PROVE  [r EXCEPT !.ready = c] = [incident |-> i, ready |-> c]
OBVIOUS

(* Positions tell producers apart, so the CHOOSE of RecordAt has one answer.*)
LEMMA OneHand ==
  ASSUME NEW pcs, NEW poss, NEW incs, NEW p, NEW t \in Threads,
         pcs[t] = "pushWrite", poss[t] = p,
         \A u \in Threads : pcs[u] = "pushWrite" /\ poss[u] = p => u = t
  PROVE  incs[CHOOSE u \in Threads : pcs[u] = "pushWrite" /\ poss[u] = p] = incs[t]
<1>1. (CHOOSE u \in Threads : pcs[u] = "pushWrite" /\ poss[u] = p) = t
  OBVIOUS
<1> QED BY <1>1

(* While the producer has not filled its cell, the record is its argument; *)
LEMMA InHand ==
  ASSUME Inv, NEW t \in Threads, pc[t] = "pushWrite"
  PROVE  RecordAt(position[t]) = incident[t]
<1>1. \A u \in Threads : pc[u] = "pushWrite" /\ position[u] = position[t] => u = t
  BY DEF Inv, OwnersDiffer, Producing
<1> QED BY <1>1, OneHand DEF RecordAt

(* and the same in the next state.                                         *)
LEMMA InHandNext ==
  ASSUME Inv', NEW t \in Threads, pc'[t] = "pushWrite"
  PROVE  RecordAt(position[t])' = incident'[t]
<1>1. \A u \in Threads : pc'[u] = "pushWrite" /\ position'[u] = position'[t] => u = t
  BY DEF Inv, OwnersDiffer, Producing
<1> QED BY <1>1, OneHand DEF RecordAt

(* A thread whose locals stand still looks the same from outside.          *)
LEMMA Others ==
  ASSUME NEW u \in Threads, pc'[u] = pc[u], position'[u] = position[u],
         incident'[u] = incident[u],
         pc[u] = "popCopy" => value'[Cell(position[u])] = value[Cell(position[u])]
  PROVE  Phase(u)' = Phase(u) /\ AtOf(u)' = AtOf(u) /\ HeldBy(u)' = HeldBy(u)
<1>1. Phase(u)' = Phase(u)
  BY DEF Phase, Producing, Consuming
<1>2. AtOf(u)' = AtOf(u)
  BY DEF AtOf, OwnsCell, Producing, Consuming
<1>3. HeldBy(u)' = HeldBy(u)
  <2>1. CASE pc[u] = "popCopy"
    <3>1. Phase(u) = "copying"
      BY <2>1 DEF Phase, Producing, Consuming
    <3> QED BY <1>1, <2>1, <3>1 DEF HeldBy
  <2>2. CASE pc[u] # "popCopy"
    BY <1>1, <2>2 DEF HeldBy
  <2> QED BY <2>1, <2>2
<1> QED BY <1>1, <1>2, <1>3

(* One thread moves at a time.                                             *)
LEMMA OnlyOne ==
  ASSUME NEW t \in Threads,
         \A u \in Threads : u # t =>
           /\ pc'[u] = pc[u] /\ position'[u] = position[u] /\ incident'[u] = incident[u]
           /\ pc[u] = "popCopy" => value'[Cell(position[u])] = value[Cell(position[u])]
  PROVE  /\ Ops' = [Ops EXCEPT ![t] = Phase(t)']
         /\ Ats' = [Ats EXCEPT ![t] = AtOf(t)']
         /\ Helds' = [Helds EXCEPT ![t] = HeldBy(t)']
<1>1. \A u \in Threads : u # t =>
        Phase(u)' = Phase(u) /\ AtOf(u)' = AtOf(u) /\ HeldBy(u)' = HeldBy(u)
  BY Others
<1>2. Ops' = [Ops EXCEPT ![t] = Phase(t)']
  BY <1>1 DEF Ops
<1>3. Ats' = [Ats EXCEPT ![t] = AtOf(t)']
  BY <1>1 DEF Ats
<1>4. Helds' = [Helds EXCEPT ![t] = HeldBy(t)']
  BY <1>1 DEF Helds
<1> QED BY <1>2, <1>3, <1>4

(* A step that moves no record between a hand and a cell.                  *)
LEMMA RecordsStay ==
  ASSUME Inv, Inv', value' = value,
         \A u \in Threads : \/ pc'[u] # "pushWrite" /\ pc[u] # "pushWrite"
                            \/ /\ pc'[u] = "pushWrite" /\ pc[u] = "pushWrite"
                               /\ position'[u] = position[u] /\ incident'[u] = incident[u]
  PROVE  \A p : RecordAt(p)' = RecordAt(p)
<1> SUFFICES ASSUME NEW p PROVE RecordAt(p)' = RecordAt(p)
  OBVIOUS
<1>1. CASE \E t \in Threads : pc[t] = "pushWrite" /\ position[t] = p
  <2>1. PICK t \in Threads : pc[t] = "pushWrite" /\ position[t] = p
    BY <1>1
  <2> QED BY <2>1, InHand, InHandNext
<1>2. CASE ~\E t \in Threads : pc[t] = "pushWrite" /\ position[t] = p
  <2>1. ~\E t \in Threads : pc'[t] = "pushWrite" /\ position'[t] = p
    BY <1>2
  <2> QED BY <1>2, <2>1 DEF RecordAt
<1> QED BY <1>1, <1>2

(* Neither end nor number moved: the lane is the same.                     *)
LEMMA LaneStays ==
  ASSUME UNCHANGED <<sequence, ends>>, Inv,
         \A p \in dequeuePosition .. enqueuePosition - 1 : RecordAt(p)' = RecordAt(p)
  PROVE  Lane' = Lane
<1>1. enqueuePosition \in Nat /\ dequeuePosition \in Nat
      /\ enqueuePosition' = enqueuePosition /\ dequeuePosition' = dequeuePosition
  BY DEF Inv, TypeOK, ends
<1>2. \A p \in dequeuePosition .. enqueuePosition - 1 : LaneEntry(p)' = LaneEntry(p)
  BY DEF LaneEntry
<1>3. ASSUME NEW k \in 1 .. enqueuePosition - dequeuePosition
      PROVE  LaneEntry(dequeuePosition + k - 1)' = LaneEntry(dequeuePosition + k - 1)
  <2>1. dequeuePosition + k - 1 \in dequeuePosition .. enqueuePosition - 1
    BY <1>1
  <2> QED BY <1>1, <2>1 DEF LaneEntry, ends
<1> QED BY <1>1, <1>3 DEF Lane

(* A step of one call outside the cells.                                   *)
LEMMA CallStep ==
  ASSUME Inv, Inv', NEW t \in Threads, UNCHANGED <<cells, ends>>,
         pc[t] # "pushWrite", pc'[t] # "pushWrite",
         \A u \in Threads : u # t =>
           pc'[u] = pc[u] /\ position'[u] = position[u] /\ incident'[u] = incident[u]
  PROVE  /\ Lane' = Lane
         /\ Ops' = [Ops EXCEPT ![t] = Phase(t)']
         /\ Ats' = [Ats EXCEPT ![t] = AtOf(t)']
         /\ Helds' = [Helds EXCEPT ![t] = HeldBy(t)']
<1>1. UNCHANGED <<sequence, ends>> /\ value' = value
  BY DEF cells
<1>2. \A p : RecordAt(p)' = RecordAt(p)
  BY <1>1, RecordsStay
<1> QED BY <1>1, <1>2, LaneStays, OnlyOne

(* The lane in terms of the two ends.                                      *)
LEMMA LaneShape ==
  ASSUME RingInv
  PROVE  /\ Len(Lane) = enqueuePosition - dequeuePosition
         /\ Lane = <<>> <=> enqueuePosition = dequeuePosition
         /\ enqueuePosition # dequeuePosition => Head(Lane) = LaneEntry(dequeuePosition)
         /\ enqueuePosition # dequeuePosition =>
              Tail(Lane) = [k \in 1 .. enqueuePosition - dequeuePosition - 1 |-> Lane[k + 1]]
         /\ \A x : Append(Lane, x) =
              [k \in 1 .. enqueuePosition - dequeuePosition + 1 |->
                 IF k = enqueuePosition - dequeuePosition + 1 THEN x ELSE Lane[k]]
<1> DEFINE m == enqueuePosition - dequeuePosition
<1>1. /\ enqueuePosition \in Nat /\ dequeuePosition \in Nat /\ m \in Nat
      /\ enqueuePosition = dequeuePosition <=> m = 0
      /\ enqueuePosition # dequeuePosition <=> m > 0
  BY DEF RingInv, Inv, TypeOK
<1>2. Lane = [k \in 1 .. m |-> Lane[k]] /\ (m > 0 => Lane[1] = LaneEntry(dequeuePosition))
  BY <1>1 DEF Lane
<1> HIDE DEF m
<1>3. /\ Len(Lane) = m
      /\ Lane = <<>> <=> m = 0
      /\ m > 0 => Head(Lane) = Lane[1]
      /\ m > 0 => Tail(Lane) = [k \in 1 .. m - 1 |-> Lane[k + 1]]
      /\ \A x : Append(Lane, x) = [k \in 1 .. m + 1 |-> IF k = m + 1 THEN x ELSE Lane[k]]
  BY <1>1, <1>2, SeqShape
<1> QED BY <1>1, <1>2, <1>3 DEF m

(* Looking, retrying and counting: the caller cannot tell them from waiting.*)
LEMMA Unseen ==
  ASSUME Inv, Inv', NEW t \in Threads,
         \/ PushSeesFree(t) \/ PushSeesLater(t) \/ PushReload(t) \/ PushClaimFails(t)
         \/ PushCount(t)
         \/ PopSeesReady(t) \/ PopSeesLater(t) \/ PopReload(t) \/ PopClaimFails(t)
         \/ PopCount(t)
  PROVE  UNCHANGED <<Lane, dequeuePosition, dropped, Ops, Ats, Helds>>
<1> USE DEF PushSeesFree, PushSeesLater, PushReload, PushClaimFails, PushCount,
            PopSeesReady, PopSeesLater, PopReload, PopClaimFails, PopCount,
            Goto, Return, SetPosition, locals, counters
<1>1. pc \in [Threads -> Locations] /\ position \in [Threads -> Nat]
      /\ incident \in [Threads -> Incidents \cup {NoIncident}]
  BY DEF Inv, TypeOK
<1>2. /\ UNCHANGED <<cells, ends>> /\ pc[t] # "pushWrite" /\ pc'[t] # "pushWrite"
      /\ \A u \in Threads : u # t =>
           pc'[u] = pc[u] /\ position'[u] = position[u] /\ incident'[u] = incident[u]
  BY <1>1
<1>3. /\ Lane' = Lane
      /\ Ops' = [Ops EXCEPT ![t] = Phase(t)']
      /\ Ats' = [Ats EXCEPT ![t] = AtOf(t)']
      /\ Helds' = [Helds EXCEPT ![t] = HeldBy(t)']
  BY <1>2, CallStep
<1>4. Phase(t)' = Phase(t)
  BY <1>1 DEF Phase, Producing, Consuming
<1>5. AtOf(t)' = AtOf(t)
  BY <1>1 DEF AtOf, OwnsCell, Producing, Consuming
<1>6. HeldBy(t)' = HeldBy(t)
  <2>1. CASE pc[t] \in {"pushCount", "popCount"}
    <3>1. pc'[t] = "idle" /\ Phase(t) = "idle"
      BY <1>1, <2>1 DEF Phase, Producing, Consuming
    <3> QED BY <1>4, <2>1, <3>1 DEF HeldBy
  <2>2. CASE pc[t] \notin {"pushCount", "popCount"}
    <3>1. /\ incident'[t] = incident[t] /\ pc[t] \notin {"popCopy", "popRelease"}
          /\ pc'[t] \notin {"popCopy", "popRelease"}
      BY <1>1, <2>2
    <3> QED BY <1>4, <3>1 DEF HeldBy
  <2> QED BY <2>1, <2>2
<1>7. dequeuePosition' = dequeuePosition /\ dropped' = dropped
  BY <1>2 DEF ends
<1> QED BY <1>3, <1>4, <1>5, <1>6, <1>7 DEF Ops, Ats, Helds

(* Entering TryPush or TryPop.                                             *)
LEMMA BeginsMap ==
  ASSUME Inv, Inv', NEW t \in Threads
  PROVE  /\ BeginPop(t) => Transport!CallPop(t)
         /\ \A i \in Incidents : BeginPush(t, i) => Transport!CallPush(t, i)
<1> USE DEF Goto, SetPosition, counters
<1>1. pc \in [Threads -> Locations] /\ position \in [Threads -> Nat]
      /\ incident \in [Threads -> Incidents \cup {NoIncident}]
  BY DEF Inv, TypeOK
<1>2. ASSUME BeginPop(t) PROVE Transport!CallPop(t)
  <2>1. /\ UNCHANGED <<cells, ends>> /\ pc[t] # "pushWrite" /\ pc'[t] # "pushWrite"
        /\ \A u \in Threads : u # t =>
             pc'[u] = pc[u] /\ position'[u] = position[u] /\ incident'[u] = incident[u]
    BY <1>1, <1>2 DEF BeginPop
  <2>2. /\ Lane' = Lane
        /\ Ops' = [Ops EXCEPT ![t] = Phase(t)']
        /\ Ats' = [Ats EXCEPT ![t] = AtOf(t)']
        /\ Helds' = [Helds EXCEPT ![t] = HeldBy(t)']
    BY <2>1, CallStep
  <2>3. Phase(t) = "idle" /\ Phase(t)' = "pop"
    BY <1>1, <1>2 DEF BeginPop, Phase, Producing, Consuming
  <2>4. AtOf(t)' = AtOf(t) /\ HeldBy(t)' = HeldBy(t)
    <3>1. pc[t] = "idle" /\ pc'[t] = "popLoad"
      BY <1>1, <1>2 DEF BeginPop
    <3>2. AtOf(t)' = AtOf(t)
      BY <3>1 DEF AtOf, OwnsCell, Producing, Consuming
    <3>3. HeldBy(t)' = HeldBy(t)
      BY <2>3, <3>1 DEF HeldBy
    <3> QED BY <3>2, <3>3
  <2>5. dequeuePosition' = dequeuePosition /\ dropped' = dropped
    BY <1>2 DEF BeginPop, ends
  <2> QED BY <2>2, <2>3, <2>4, <2>5 DEF Transport!CallPop, Ops, Ats, Helds
<1>3. ASSUME NEW i \in Incidents, BeginPush(t, i) PROVE Transport!CallPush(t, i)
  <2>1. /\ UNCHANGED <<cells, ends>> /\ pc[t] # "pushWrite" /\ pc'[t] # "pushWrite"
        /\ \A u \in Threads : u # t =>
             pc'[u] = pc[u] /\ position'[u] = position[u] /\ incident'[u] = incident[u]
    BY <1>1, <1>3 DEF BeginPush
  <2>2. /\ Lane' = Lane
        /\ Ops' = [Ops EXCEPT ![t] = Phase(t)']
        /\ Ats' = [Ats EXCEPT ![t] = AtOf(t)']
        /\ Helds' = [Helds EXCEPT ![t] = HeldBy(t)']
    BY <2>1, CallStep
  <2>3. Phase(t) = "idle" /\ Phase(t)' = "push"
    BY <1>1, <1>3 DEF BeginPush, Phase, Producing, Consuming
  <2>4. AtOf(t)' = AtOf(t) /\ HeldBy(t)' = i
    <3>1. pc[t] = "idle" /\ pc'[t] = "pushLoad" /\ incident'[t] = i
      BY <1>1, <1>3 DEF BeginPush
    <3>2. AtOf(t)' = AtOf(t)
      BY <3>1 DEF AtOf, OwnsCell, Producing, Consuming
    <3>3. HeldBy(t)' = i
      BY <2>3, <3>1 DEF HeldBy
    <3> QED BY <3>2, <3>3
  <2>5. dequeuePosition' = dequeuePosition /\ dropped' = dropped
    BY <1>3 DEF BeginPush, ends
  <2> QED BY <2>2, <2>3, <2>4, <2>5 DEF Transport!CallPush, Ops, Ats, Helds
<1> QED BY <1>2, <1>3

(* "Full" is only concluded when the cell one lap behind really is occupied:*)
(* its record is unread, or is still being copied out.                     *)
LEMMA RefuseMaps ==
  ASSUME RingInv, RingInv', NEW t \in Threads, PushSeesOccupied(t)
  PROVE  Transport!Refuse(t)
<1> USE DEF Goto, locals, counters
<1>1. pc \in [Threads -> Locations] /\ position \in [Threads -> Nat]
      /\ incident \in [Threads -> Incidents \cup {NoIncident}]
      /\ sequence \in [Cells -> Nat] /\ enqueuePosition \in Nat /\ dequeuePosition \in Nat
      /\ N \in Nat /\ N >= 2
  BY QueueAssumption DEF RingInv, Inv, TypeOK
<1>2. /\ Lane' = Lane
      /\ Ops' = [Ops EXCEPT ![t] = Phase(t)']
      /\ Ats' = [Ats EXCEPT ![t] = AtOf(t)']
      /\ Helds' = [Helds EXCEPT ![t] = HeldBy(t)']
  <2>1. /\ UNCHANGED <<cells, ends>> /\ pc[t] # "pushWrite" /\ pc'[t] # "pushWrite"
        /\ \A u \in Threads : u # t =>
             pc'[u] = pc[u] /\ position'[u] = position[u] /\ incident'[u] = incident[u]
    BY <1>1 DEF PushSeesOccupied
  <2> QED BY <2>1, CallStep DEF RingInv
<1>3. Phase(t) = "push" /\ Phase(t)' = "refused"
  BY <1>1 DEF PushSeesOccupied, Phase, Producing, Consuming
<1>4. AtOf(t)' = AtOf(t) /\ HeldBy(t)' = HeldBy(t)
  BY <1>1, <1>3 DEF PushSeesOccupied, AtOf, OwnsCell, Producing, Consuming, HeldBy
<1>5. dequeuePosition' = dequeuePosition /\ dropped' = dropped
  BY DEF PushSeesOccupied, ends
<1> DEFINE e == enqueuePosition
           s == sequence[Cell(e)]
<1>6. position[t] = e /\ s \in Nat /\ s < e
  <2>1. /\ position[t] \in Nat /\ position[t] <= e /\ Cell(position[t]) \in Cells
        /\ sequence[Cell(position[t])] \in Nat /\ sequence[Cell(position[t])] < position[t]
    BY <1>1, CellIsCell DEF PushSeesOccupied, Difference, RingInv, Inv, PositionsBehind, PushLocations
  <2>2. position[t] \notin 0 .. e - 1
    BY <2>1 DEF RingInv, SequencesAdvance
  <2> QED BY <1>1, <2>1, <2>2
<1>7. e - N \in Nat /\ s \in {e - N, e - N + 1}
  <2>1. Cell(e) \in Cells
    BY <1>1, CellIsCell
  <2>2. \/ Cell(s) = Cell(e)
        \/ s >= 1 /\ Cell(s - 1) = Cell(e)
    BY <2>1 DEF RingInv, Inv, CellNumbers
  <2>3. s + N <= e \/ (s >= 1 /\ s - 1 + N <= e)
    <3>1. CASE Cell(s) = Cell(e)
      BY <1>1, <1>6, <3>1, CellsApart
    <3>2. CASE s >= 1 /\ Cell(s - 1) = Cell(e)
      <4>1. s - 1 \in Nat /\ s - 1 < e
        BY <1>1, <1>6, <3>2
      <4> QED BY <1>1, <3>2, <4>1, CellsApart
    <3> QED BY <2>2, <3>1, <3>2
  <2>4. e - N \in Nat /\ e - N \in 0 .. e - 1
    BY <1>1, <1>6, <2>3
  <2>5. Cell(e - N) = Cell(e)
    <3>1. Cell((e - N) + N) = Cell(e - N)
      BY <2>4, CellNextLap
    <3>2. (e - N) + N = e
      BY <1>1
    <3> QED BY <3>1, <3>2
  <2>6. s >= e - N
    BY <2>4, <2>5 DEF RingInv, SequencesAdvance
  <2> QED BY <1>1, <1>6, <2>3, <2>4, <2>6
<1>8. Cell(e - N) = Cell(e)
  <2>1. Cell((e - N) + N) = Cell(e - N)
    BY <1>7, CellNextLap
  <2>2. (e - N) + N = e
    BY <1>1
  <2> QED BY <2>1, <2>2
<1>9. \/ Len(Lane) >= N
      \/ \E u \in Threads : Ops[u] = "copying" /\ Ats[u] + N = e
  <2>1. CASE dequeuePosition <= e - N
    BY <1>1, <2>1, LaneShape
  <2>2. CASE dequeuePosition > e - N
    <3>1. e - N \in 0 .. dequeuePosition - 1
      BY <1>1, <1>7, <2>2
    <3>2. s >= e - N + 1
      BY <1>8, <3>1 DEF RingInv, SequencesAdvance
    <3>3. s = e - N + 1
      BY <1>1, <1>7, <3>2
    <3>4. PICK u \in Threads : Consuming(u) /\ position[u] = e - N
      BY <1>8, <3>1, <3>3 DEF RingInv, EveryCellOwned
    <3>5. Phase(u) = "copying" /\ AtOf(u) + N = e
      BY <1>1, <3>4 DEF Phase, Producing, Consuming, AtOf, OwnsCell
    <3> QED BY <3>4, <3>5 DEF Ops, Ats
  <2> QED BY <1>1, <1>7, <2>1, <2>2
<1>10. e = dequeuePosition + Len(Lane)
  BY <1>1, LaneShape
<1>11. \/ Len(Lane) >= N
       \/ \E u \in Threads : Ops[u] = "copying" /\ Ats[u] + N = dequeuePosition + Len(Lane)
  BY <1>9, <1>10
<1>12. Transport!Occupied
  BY <1>11 DEF Transport!Occupied, Transport!NextTicket
<1> QED BY <1>2, <1>3, <1>4, <1>5, <1>12 DEF Transport!Refuse, Ops, Ats, Helds

(* The two returns without a record: "dropped" and "empty".  A pop says    *)
(* "empty" only when the oldest position is not published.                 *)
LEMMA ReturnsMap ==
  ASSUME RingInv, RingInv', NEW t \in Threads
  PROVE  /\ PushDrop(t) => Transport!CountDrop(t)
         /\ PopSeesNothing(t) => Transport!FindNothing(t)
<1> USE DEF Goto, Return, counters
<1>1. pc \in [Threads -> Locations] /\ position \in [Threads -> Nat]
      /\ incident \in [Threads -> Incidents \cup {NoIncident}]
      /\ sequence \in [Cells -> Nat] /\ enqueuePosition \in Nat /\ dequeuePosition \in Nat
  BY DEF RingInv, Inv, TypeOK
<1>2. ASSUME PushDrop(t) \/ PopSeesNothing(t)
      PROVE  /\ Lane' = Lane
             /\ Ops' = [Ops EXCEPT ![t] = "idle"]
             /\ Ats' = [Ats EXCEPT ![t] = 0]
             /\ Helds' = [Helds EXCEPT ![t] = NoIncident]
             /\ dequeuePosition' = dequeuePosition
  <2>1. /\ UNCHANGED <<cells, ends>> /\ pc[t] # "pushWrite" /\ pc'[t] # "pushWrite"
        /\ \A u \in Threads : u # t =>
             pc'[u] = pc[u] /\ position'[u] = position[u] /\ incident'[u] = incident[u]
    BY <1>1, <1>2 DEF PushDrop, PopSeesNothing
  <2>2. /\ Lane' = Lane
        /\ Ops' = [Ops EXCEPT ![t] = Phase(t)']
        /\ Ats' = [Ats EXCEPT ![t] = AtOf(t)']
        /\ Helds' = [Helds EXCEPT ![t] = HeldBy(t)']
    BY <2>1, CallStep DEF RingInv
  <2>3. pc'[t] = "idle"
    BY <1>1, <1>2 DEF PushDrop, PopSeesNothing
  <2>4. Phase(t)' = "idle" /\ AtOf(t)' = 0
    BY <2>3 DEF Phase, AtOf, OwnsCell, Producing, Consuming
  <2>5. HeldBy(t)' = NoIncident
    BY <2>3, <2>4 DEF HeldBy
  <2>6. dequeuePosition' = dequeuePosition
    BY <2>1 DEF ends
  <2> QED BY <2>2, <2>4, <2>5, <2>6
<1>3. ASSUME PushDrop(t) PROVE Transport!CountDrop(t)
  <2>1. Phase(t) = "refused" /\ dropped' = dropped + 1
    BY <1>3 DEF PushDrop, Phase, Producing, Consuming
  <2> QED BY <1>2, <1>3, <2>1 DEF Transport!CountDrop, Transport!Finish, Ops
<1>4. ASSUME PopSeesNothing(t) PROVE Transport!FindNothing(t)
  <2>1. Phase(t) = "pop" /\ dropped' = dropped
    BY <1>4 DEF PopSeesNothing, Phase, Producing, Consuming
  <2>2. /\ position[t] \in Nat /\ position[t] <= dequeuePosition /\ Cell(position[t]) \in Cells
        /\ sequence[Cell(position[t])] \in Nat /\ sequence[Cell(position[t])] < position[t] + 1
    BY <1>1, <1>4, CellIsCell
       DEF PopSeesNothing, Difference, RingInv, Inv, PositionsBehind, PopLocations
  <2>3. position[t] \notin 0 .. dequeuePosition - 1
    BY <2>2 DEF RingInv, SequencesAdvance
  <2>4. position[t] = dequeuePosition
    BY <1>1, <2>2, <2>3
  <2>5. ~LaneEntry(dequeuePosition).ready
    <3>1. sequence[Cell(dequeuePosition)] # dequeuePosition + 1
      BY <2>2, <2>4
    <3>2. LaneEntry(dequeuePosition).ready = FALSE
      BY <3>1 DEF LaneEntry
    <3> QED BY <3>2
  <2>6. ~Transport!HeadReady
    BY <2>5, LaneShape DEF Transport!HeadReady
  <2> QED BY <1>2, <1>4, <2>1, <2>6 DEF Transport!FindNothing, Transport!Finish, Ops
<1> QED BY <1>3, <1>4

(* Winning the exchange of TryPush appends the record, not yet ready.      *)
LEMMA ClaimMaps ==
  ASSUME RingInv, RingInv', NEW t \in Threads, PushClaim(t)
  PROVE  Transport!Claim(t)
<1> USE DEF Goto, cells, counters, locals
<1> DEFINE e == enqueuePosition
           d == dequeuePosition
<1>1. /\ pc \in [Threads -> Locations] /\ position \in [Threads -> Nat]
      /\ incident \in [Threads -> Incidents \cup {NoIncident}]
      /\ sequence \in [Cells -> Nat] /\ e \in Nat /\ d \in Nat /\ d <= e
      /\ N \in Nat /\ N >= 2
  BY QueueAssumption DEF RingInv, Inv, TypeOK
<1>2. /\ pc[t] = "pushClaim" /\ pc' = [pc EXCEPT ![t] = "pushWrite"] /\ position[t] = e
      /\ e' = e + 1 /\ d' = d /\ dropped' = dropped
      /\ sequence' = sequence /\ value' = value /\ position' = position /\ incident' = incident
      /\ sequence[Cell(e)] = e
  BY DEF PushClaim, RingInv, Inv, ClaimsStand
<1>3. Phase(t) = "push" /\ Phase(t)' = "writing" /\ AtOf(t)' = e
  BY <1>1, <1>2 DEF Phase, Producing, Consuming, AtOf, OwnsCell
<1>4. HeldBy(t) = incident[t] /\ HeldBy(t)' = incident[t]
  BY <1>2, <1>3 DEF HeldBy
<1>5. /\ Ops' = [Ops EXCEPT ![t] = "writing"]
      /\ Ats' = [Ats EXCEPT ![t] = e]
      /\ Helds' = Helds
  <2>1. \A u \in Threads : u # t =>
          /\ pc'[u] = pc[u] /\ position'[u] = position[u] /\ incident'[u] = incident[u]
          /\ pc[u] = "popCopy" => value'[Cell(position[u])] = value[Cell(position[u])]
    BY <1>1, <1>2
  <2>2. /\ Ops' = [Ops EXCEPT ![t] = Phase(t)']
        /\ Ats' = [Ats EXCEPT ![t] = AtOf(t)']
        /\ Helds' = [Helds EXCEPT ![t] = HeldBy(t)']
    BY <2>1, OnlyOne
  <2> QED BY <1>3, <1>4, <2>2 DEF Helds
<1>6. /\ Len(Lane) = e - d
      /\ \A x : Append(Lane, x) = [k \in 1 .. e - d + 1 |-> IF k = e - d + 1 THEN x ELSE Lane[k]]
  BY LaneShape
<1>7. ~Transport!Occupied
  <2>1. ASSUME e - d >= N PROVE FALSE
    <3>1. e - N \in d .. e - 1 /\ e - N \in Nat
      BY <1>1, <2>1
    <3>2. Cell(e - N) = Cell(e)
      <4>1. Cell((e - N) + N) = Cell(e - N)
        BY <3>1, CellNextLap
      <4>2. (e - N) + N = e
        BY <1>1
      <4> QED BY <4>1, <4>2
    <3>3. sequence[Cell(e - N)] \in {e - N, e - N + 1}
      BY <3>1 DEF RingInv, Inv, LaneNumbers
    <3> QED BY <1>1, <1>2, <3>2, <3>3
  <2>2. ASSUME NEW u \in Threads, Ops[u] = "copying", Ats[u] + N = e PROVE FALSE
    <3>1. Phase(u) = "copying"
      BY <2>2 DEF Ops
    <3>2. Consuming(u)
      BY <3>1 DEF Phase
    <3>3. position[u] + N = e /\ position[u] \in Nat
      BY <1>1, <2>2, <3>2 DEF Ats, AtOf, OwnsCell
    <3>4. sequence[Cell(position[u])] = position[u] + 1
      BY <3>2 DEF RingInv, Inv, ConsumersOwn
    <3>5. Cell(position[u] + N) = Cell(position[u])
      BY <3>3, CellNextLap
    <3> QED BY <1>1, <1>2, <3>3, <3>4, <3>5
  <2>3. d + Len(Lane) = e
    BY <1>1, <1>6
  <2> QED BY <1>1, <1>6, <2>1, <2>2, <2>3 DEF Transport!Occupied, Transport!NextTicket
<1>8. \A p \in Nat : p # e => RecordAt(p)' = RecordAt(p)
  <2> SUFFICES ASSUME NEW p \in Nat, p # e PROVE RecordAt(p)' = RecordAt(p)
    OBVIOUS
  <2>1. CASE \E u \in Threads : pc[u] = "pushWrite" /\ position[u] = p
    <3>1. PICK u \in Threads : pc[u] = "pushWrite" /\ position[u] = p
      BY <2>1
    <3>2. pc'[u] = "pushWrite" /\ position'[u] = p /\ incident'[u] = incident[u]
      BY <1>1, <1>2, <3>1
    <3> QED BY <3>1, <3>2, InHand, InHandNext DEF RingInv
  <2>2. CASE ~\E u \in Threads : pc[u] = "pushWrite" /\ position[u] = p
    <3>1. ~\E u \in Threads : pc'[u] = "pushWrite" /\ position'[u] = p
      BY <1>1, <1>2, <2>2
    <3> QED BY <1>2, <2>2, <3>1 DEF RecordAt
  <2> QED BY <2>1, <2>2
<1>9. \A p \in Nat : p = e => RecordAt(p)' = incident[t]
  <2>1. pc'[t] = "pushWrite"
    BY <1>1, <1>2
  <2> QED BY <1>2, <2>1, InHandNext DEF RingInv
<1>10. Lane' = Append(Lane, [incident |-> Helds[t], ready |-> FALSE])
  <2> DEFINE new == [incident |-> Helds[t], ready |-> FALSE]
  <2>1. new = [incident |-> incident[t], ready |-> FALSE]
    BY <1>4 DEF Helds
  <2> HIDE DEF new
  <2>2. ASSUME NEW k \in 1 .. e - d + 1
        PROVE  LaneEntry(d + k - 1)' = (IF k = e - d + 1 THEN new ELSE Lane[k])
    <3>1. d + k - 1 \in Nat /\ (d + k - 1 = e <=> k = e - d + 1)
      BY <1>1
    <3>2. sequence[Cell(e)] # e + 1
      BY <1>1, <1>2
    <3>3. CASE k = e - d + 1
      BY <1>2, <1>9, <2>1, <3>1, <3>2, <3>3 DEF LaneEntry
    <3>4. CASE k # e - d + 1
      <4>1. k \in 1 .. e - d
        BY <1>1, <3>4
      <4>2. LaneEntry(d + k - 1)' = LaneEntry(d + k - 1)
        BY <1>2, <1>8, <3>1, <3>4 DEF LaneEntry
      <4> QED BY <3>4, <4>1, <4>2 DEF Lane
    <3> QED BY <3>3, <3>4
  <2>3. Lane' = [k \in 1 .. e - d + 1 |-> IF k = e - d + 1 THEN new ELSE Lane[k]]
    <3>1. (enqueuePosition - dequeuePosition)' = e - d + 1
      BY <1>1, <1>2
    <3> QED BY <2>2, <3>1 DEF Lane
  <2>4. Lane' = Append(Lane, new)
    BY <1>6, <2>3
  <2> QED BY <2>4 DEF new
<1>11. d + Len(Lane) = e
  BY <1>1, <1>6
<1> QED BY <1>2, <1>3, <1>5, <1>7, <1>10, <1>11 DEF Transport!Claim, Transport!NextTicket, Ops

(* Filling the cell: the record of this position moves from the hand into  *)
(* the cell, and nobody is copying out of that cell.                       *)
LEMMA WriteUnseen ==
  ASSUME RingInv, RingInv', NEW t \in Threads, PushWrite(t)
  PROVE  UNCHANGED <<Lane, dequeuePosition, dropped, Ops, Ats, Helds>>
<1> USE DEF Goto, ends, counters, locals
<1>1. /\ pc \in [Threads -> Locations] /\ position \in [Threads -> Nat]
      /\ incident \in [Threads -> Incidents \cup {NoIncident}]
      /\ value \in [Cells -> Incidents \cup {NoIncident}]
      /\ sequence \in [Cells -> Nat] /\ enqueuePosition \in Nat /\ dequeuePosition \in Nat
  BY DEF RingInv, Inv, TypeOK
<1>2. /\ pc[t] = "pushWrite" /\ pc' = [pc EXCEPT ![t] = "pushPublish"]
      /\ value' = [value EXCEPT ![Cell(position[t])] = incident[t]]
      /\ UNCHANGED <<sequence, ends, dropped, position, incident>>
  BY DEF PushWrite
<1>3. position[t] \in Nat /\ Cell(position[t]) \in Cells /\ sequence[Cell(position[t])] = position[t]
  BY <1>1, <1>2, CellIsCell DEF RingInv, Inv, ProducersOwn, Producing
<1>4. \A p \in Nat : p \in dequeuePosition .. enqueuePosition - 1 => RecordAt(p)' = RecordAt(p)
  <2> SUFFICES ASSUME NEW p \in Nat, p \in dequeuePosition .. enqueuePosition - 1
               PROVE  RecordAt(p)' = RecordAt(p)
    OBVIOUS
  <2>1. CASE p = position[t]
    <3>1. RecordAt(p) = incident[t]
      BY <1>2, <2>1, InHand DEF RingInv
    <3>2. ~\E u \in Threads : pc'[u] = "pushWrite" /\ position'[u] = p
      <4> SUFFICES ASSUME NEW u \in Threads, pc'[u] = "pushWrite", position[u] = p PROVE FALSE
        BY <1>2
      <4>1. u # t /\ pc[u] = "pushWrite"
        BY <1>1, <1>2
      <4> QED BY <1>2, <2>1, <4>1 DEF RingInv, Inv, OwnersDiffer, Producing
    <3>3. value'[Cell(p)] = incident[t]
      BY <1>1, <1>2, <1>3, <2>1
    <3> QED BY <3>1, <3>2, <3>3 DEF RecordAt
  <2>2. CASE p # position[t] /\ \E u \in Threads : pc[u] = "pushWrite" /\ position[u] = p
    <3>1. PICK u \in Threads : pc[u] = "pushWrite" /\ position[u] = p
      BY <2>2
    <3>2. u # t /\ pc'[u] = "pushWrite" /\ position'[u] = p /\ incident'[u] = incident[u]
      BY <1>1, <1>2, <2>2, <3>1
    <3> QED BY <3>1, <3>2, InHand, InHandNext DEF RingInv
  <2>3. CASE p # position[t] /\ ~\E u \in Threads : pc[u] = "pushWrite" /\ position[u] = p
    <3>1. ~\E u \in Threads : pc'[u] = "pushWrite" /\ position'[u] = p
      BY <1>1, <1>2, <2>3
    <3>2. Cell(p) \in Cells /\ Cell(p + 1) # Cell(p)
      BY CellIsCell, CellNeighbours
    <3>3. sequence[Cell(p)] \in {p, p + 1}
      BY DEF RingInv, Inv, LaneNumbers
    <3>4. \/ Cell(p) # Cell(position[t])
          \/ position[t] = p + 1
      BY <1>3, <2>3, <3>3
    <3>5. value'[Cell(p)] = value[Cell(p)]
      BY <1>1, <1>2, <1>3, <3>2, <3>4
    <3> QED BY <2>3, <3>1, <3>5 DEF RecordAt
  <2> QED BY <2>1, <2>2, <2>3
<1>5. Lane' = Lane
  <2>1. \A p \in dequeuePosition .. enqueuePosition - 1 : RecordAt(p)' = RecordAt(p)
    BY <1>1, <1>4
  <2> QED BY <1>2, <2>1, LaneStays DEF RingInv
<1>6. \A u \in Threads : u # t =>
        /\ pc'[u] = pc[u] /\ position'[u] = position[u] /\ incident'[u] = incident[u]
        /\ pc[u] = "popCopy" => value'[Cell(position[u])] = value[Cell(position[u])]
  <2> SUFFICES ASSUME NEW u \in Threads, u # t, pc[u] = "popCopy"
               PROVE  value'[Cell(position[u])] = value[Cell(position[u])]
    BY <1>1, <1>2
  <2>1. position[u] \in Nat /\ sequence[Cell(position[u])] = position[u] + 1
    BY <1>1 DEF RingInv, Inv, ConsumersOwn, Consuming
  <2>2. Cell(position[u]) \in Cells /\ Cell(position[u] + 1) # Cell(position[u])
    BY <2>1, CellIsCell, CellNeighbours
  <2>3. Cell(position[u]) # Cell(position[t])
    BY <1>3, <2>1, <2>2
  <2> QED BY <1>1, <1>2, <1>3, <2>2, <2>3
<1>7. pc'[t] = "pushPublish" /\ Phase(t) = "writing" /\ Phase(t)' = "writing"
  BY <1>1, <1>2 DEF Phase, Producing, Consuming
<1>8. AtOf(t)' = AtOf(t) /\ HeldBy(t)' = HeldBy(t)
  <2>1. AtOf(t)' = AtOf(t)
    BY <1>2, <1>7 DEF AtOf, OwnsCell, Producing, Consuming
  <2>2. HeldBy(t)' = HeldBy(t)
    BY <1>2, <1>7 DEF HeldBy
  <2> QED BY <2>1, <2>2
<1>9. /\ Ops' = [Ops EXCEPT ![t] = Phase(t)']
      /\ Ats' = [Ats EXCEPT ![t] = AtOf(t)']
      /\ Helds' = [Helds EXCEPT ![t] = HeldBy(t)']
  BY <1>6, OnlyOne
<1> QED BY <1>2, <1>5, <1>7, <1>8, <1>9 DEF Ops, Ats, Helds

(* Storing position + 1 makes the record ready.                            *)
LEMMA PublishMaps ==
  ASSUME RingInv, RingInv', NEW t \in Threads, PushPublish(t)
  PROVE  Transport!Publish(t)
<1> USE DEF Goto, ends, counters, locals
<1> DEFINE p == position[t]
           e == enqueuePosition
           d == dequeuePosition
<1>1. /\ pc \in [Threads -> Locations] /\ position \in [Threads -> Nat]
      /\ incident \in [Threads -> Incidents \cup {NoIncident}]
      /\ sequence \in [Cells -> Nat] /\ e \in Nat /\ d \in Nat
  BY DEF RingInv, Inv, TypeOK
<1>2. /\ pc[t] = "pushPublish" /\ pc' = [pc EXCEPT ![t] = "pushCount"]
      /\ sequence' = [sequence EXCEPT ![Cell(p)] = p + 1]
      /\ e' = e /\ d' = d /\ dropped' = dropped
      /\ value' = value /\ position' = position /\ incident' = incident
  BY DEF PushPublish
<1>3. p \in Nat /\ Cell(p) \in Cells /\ p < e /\ sequence[Cell(p)] = p
  BY <1>1, <1>2, CellIsCell DEF RingInv, Inv, ProducersOwn, Producing
<1>4. d <= p
  <2>1. p \notin 0 .. d - 1
    BY <1>3 DEF RingInv, SequencesAdvance
  <2> QED BY <1>1, <1>3, <2>1
<1>5. \A q : RecordAt(q)' = RecordAt(q)
  <2>1. \A u \in Threads : \/ pc'[u] # "pushWrite" /\ pc[u] # "pushWrite"
                           \/ /\ pc'[u] = "pushWrite" /\ pc[u] = "pushWrite"
                              /\ position'[u] = position[u] /\ incident'[u] = incident[u]
    BY <1>1, <1>2
  <2> QED BY <1>2, <2>1, RecordsStay DEF RingInv
<1>6. Lane' = [Lane EXCEPT ![p - d + 1].ready = TRUE]
  <2>1. ASSUME NEW k \in 1 .. e - d, k # p - d + 1
        PROVE  LaneEntry(d + k - 1)' = LaneEntry(d + k - 1)
    <3>1. d + k - 1 \in d .. e - 1 /\ d + k - 1 \in Nat /\ d + k - 1 # p
      BY <1>1, <1>3, <2>1
    <3>2. /\ sequence[Cell(d + k - 1)] \in {d + k - 1, d + k - 1 + 1}
          /\ Cell(d + k - 1) \in Cells
      BY <3>1, CellIsCell DEF RingInv, Inv, LaneNumbers
    <3>3. Cell(d + k - 1 + 1) # Cell(d + k - 1)
      BY <3>1, CellNeighbours
    <3>4. Cell(d + k - 1) # Cell(p)
      BY <1>3, <3>1, <3>2, <3>3
    <3>5. sequence'[Cell(d + k - 1)] = sequence[Cell(d + k - 1)]
      BY <1>1, <1>2, <3>2, <3>4
    <3> QED BY <1>2, <1>5, <3>5 DEF LaneEntry
  <2>2. ASSUME NEW k \in 1 .. e - d, k = p - d + 1
        PROVE  LaneEntry(d + k - 1)' = [LaneEntry(d + k - 1) EXCEPT !.ready = TRUE]
    <3>1. d + k - 1 = p /\ sequence'[Cell(p)] = p + 1
      BY <1>1, <1>2, <1>3, <2>2
    <3>2. (sequence'[Cell(p)] = p + 1) = TRUE
      BY <3>1
    <3>4. PICK r \in Nat : r = d + k - 1 /\ r = p
      BY <1>3, <3>1
    <3>5. LaneEntry(r)' = [incident |-> RecordAt(r), ready |-> TRUE]
      <4>1. sequence'[Cell(r)] = r + 1
        BY <3>1, <3>4
      <4>2. RecordAt(r)' = RecordAt(r)
        BY <1>5
      <4> HIDE DEF p, d, e
      <4>3. LaneEntry(r)' = [incident |-> RecordAt(r)', ready |-> sequence'[Cell(r)] = r + 1]
        BY DEF LaneEntry
      <4> QED BY <4>1, <4>2, <4>3
    <3>6. LaneEntry(d + k - 1)' = LaneEntry(r)'
      BY <1>2, <3>4 DEF LaneEntry
    <3>7. LaneEntry(d + k - 1) = LaneEntry(r)
      BY <3>4
    <3>8. [LaneEntry(r) EXCEPT !.ready = TRUE] = [incident |-> RecordAt(r), ready |-> TRUE]
      <4>1. PICK b : LaneEntry(r) = [incident |-> RecordAt(r), ready |-> b]
        BY DEF LaneEntry
      <4>2. \A c : [LaneEntry(r) EXCEPT !.ready = c] = [incident |-> RecordAt(r), ready |-> c]
        BY <4>1, MadeReady
      <4> QED BY <4>2
    <3> QED BY <3>5, <3>6, <3>7, <3>8
  <2>3. \A k \in 1 .. e - d :
          LaneEntry(d + k - 1)' = (IF k = p - d + 1
                                    THEN [LaneEntry(d + k - 1) EXCEPT !.ready = TRUE]
                                    ELSE LaneEntry(d + k - 1))
    BY <2>1, <2>2
  <2> QED BY <1>1, <1>2, <1>3, <1>4, <2>3 DEF Lane
<1>7. pc'[t] = "pushCount" /\ Phase(t) = "writing" /\ Phase(t)' = "idle" /\ AtOf(t) = p /\ AtOf(t)' = 0
  BY <1>1, <1>2 DEF Phase, Producing, Consuming, AtOf, OwnsCell
<1>8. HeldBy(t)' = NoIncident
  BY <1>7 DEF HeldBy
<1>9. /\ Ops' = [Ops EXCEPT ![t] = Phase(t)']
      /\ Ats' = [Ats EXCEPT ![t] = AtOf(t)']
      /\ Helds' = [Helds EXCEPT ![t] = HeldBy(t)']
  <2>1. \A u \in Threads : u # t =>
          /\ pc'[u] = pc[u] /\ position'[u] = position[u] /\ incident'[u] = incident[u]
          /\ pc[u] = "popCopy" => value'[Cell(position[u])] = value[Cell(position[u])]
    BY <1>1, <1>2
  <2> QED BY <2>1, OnlyOne
<1> QED BY <1>2, <1>6, <1>7, <1>8, <1>9 DEF Transport!Publish, Transport!Finish, Ops, Ats

(* Winning the exchange of TryPop takes the oldest record, which is ready and*)
(* in its cell.                                                            *)
LEMMA TakeMaps ==
  ASSUME RingInv, RingInv', NEW t \in Threads, PopClaim(t)
  PROVE  Transport!Take(t)
<1> USE DEF Goto, cells, counters, locals
<1> DEFINE e == enqueuePosition
           d == dequeuePosition
<1>1. /\ pc \in [Threads -> Locations] /\ position \in [Threads -> Nat]
      /\ incident \in [Threads -> Incidents \cup {NoIncident}]
      /\ sequence \in [Cells -> Nat] /\ e \in Nat /\ d \in Nat
  BY DEF RingInv, Inv, TypeOK
<1>2. /\ pc[t] = "popClaim" /\ pc' = [pc EXCEPT ![t] = "popCopy"] /\ position[t] = d
      /\ d' = d + 1 /\ e' = e /\ dropped' = dropped
      /\ sequence' = sequence /\ value' = value /\ position' = position /\ incident' = incident
      /\ sequence[Cell(d)] = d + 1
  BY DEF PopClaim, RingInv, Inv, ClaimsStand
<1>3. d < e
  <2>1. d' <= e'
    BY DEF RingInv, Inv
  <2> QED BY <1>1, <1>2, <2>1
<1>4. RecordAt(d) = value[Cell(d)]
  <2>1. ~\E u \in Threads : pc[u] = "pushWrite" /\ position[u] = d
    <3> SUFFICES ASSUME NEW u \in Threads, pc[u] = "pushWrite", position[u] = d PROVE FALSE
      OBVIOUS
    <3>1. sequence[Cell(d)] = d
      BY DEF RingInv, Inv, ProducersOwn, Producing
    <3> QED BY <1>1, <1>2, <3>1
  <2> QED BY <2>1 DEF RecordAt
<1>5. LaneEntry(d).incident = value[Cell(d)] /\ LaneEntry(d).ready
  <2>1. LaneEntry(d).incident = value[Cell(d)]
    BY <1>4 DEF LaneEntry
  <2>2. LaneEntry(d).ready = TRUE
    BY <1>2 DEF LaneEntry
  <2> QED BY <2>1, <2>2
<1>6. Lane # <<>> /\ Head(Lane) = LaneEntry(d) /\ Tail(Lane) = [k \in 1 .. e - d - 1 |-> Lane[k + 1]]
  BY <1>1, <1>3, LaneShape
<1>7. \A p : RecordAt(p)' = RecordAt(p)
  <2>1. \A u \in Threads : \/ pc'[u] # "pushWrite" /\ pc[u] # "pushWrite"
                           \/ /\ pc'[u] = "pushWrite" /\ pc[u] = "pushWrite"
                              /\ position'[u] = position[u] /\ incident'[u] = incident[u]
    BY <1>1, <1>2
  <2> QED BY <1>2, <2>1, RecordsStay DEF RingInv
<1>8. Lane' = Tail(Lane)
  <2>1. ASSUME NEW k \in 1 .. e - d - 1
        PROVE  LaneEntry(d + k - 1)' = Lane[k + 1]
    <3>1. k + 1 \in 1 .. e - d /\ d + 1 + k - 1 = d + (k + 1) - 1
      BY <1>1, <2>1
    <3>2. Lane[k + 1] = LaneEntry(d + (k + 1) - 1)
      BY <3>1 DEF Lane
    <3>3. PICK q : q = d + 1 + k - 1
      OBVIOUS
    <3>4. LaneEntry(d + k - 1)' = LaneEntry(q)'
      BY <1>2, <3>3 DEF LaneEntry
    <3>5. LaneEntry(q)' = LaneEntry(q)
      BY <1>2, <1>7 DEF LaneEntry
    <3> QED BY <3>1, <3>2, <3>3, <3>4, <3>5
  <2>2. (enqueuePosition - dequeuePosition)' = e - d - 1
    BY <1>1, <1>2
  <2> QED BY <1>6, <2>1, <2>2 DEF Lane
<1>9. pc'[t] = "popCopy" /\ Phase(t) = "pop" /\ Phase(t)' = "copying" /\ AtOf(t)' = d
  BY <1>1, <1>2 DEF Phase, Producing, Consuming, AtOf, OwnsCell
<1>10. HeldBy(t)' = value[Cell(d)]
  BY <1>2, <1>9 DEF HeldBy
<1>11. /\ Ops' = [Ops EXCEPT ![t] = Phase(t)']
       /\ Ats' = [Ats EXCEPT ![t] = AtOf(t)']
       /\ Helds' = [Helds EXCEPT ![t] = HeldBy(t)']
  <2>1. \A u \in Threads : u # t =>
          /\ pc'[u] = pc[u] /\ position'[u] = position[u] /\ incident'[u] = incident[u]
          /\ pc[u] = "popCopy" => value'[Cell(position[u])] = value[Cell(position[u])]
    BY <1>1, <1>2
  <2> QED BY <2>1, OnlyOne
<1>12. Ops' = [Ops EXCEPT ![t] = "copying"] /\ Ats' = [Ats EXCEPT ![t] = d]
  BY <1>9, <1>11
<1>13. Helds' = [Helds EXCEPT ![t] = Head(Lane).incident]
  BY <1>5, <1>6, <1>10, <1>11
<1>14. Transport!HeadReady
  BY <1>5, <1>6 DEF Transport!HeadReady
<1>15. Ops[t] = "pop"
  BY <1>9 DEF Ops
<1> QED BY <1>2, <1>8, <1>12, <1>13, <1>14, <1>15 DEF Transport!Take

(* Copying out is not seen; storing position + N gives the place back.     *)
LEMMA CopyAndReleaseMap ==
  ASSUME RingInv, RingInv', NEW t \in Threads
  PROVE  /\ PopCopy(t) => UNCHANGED <<Lane, dequeuePosition, dropped, Ops, Ats, Helds>>
         /\ PopRelease(t) => Transport!Release(t)
<1> USE DEF Goto, cells, ends, counters, locals
<1>1. /\ pc \in [Threads -> Locations] /\ position \in [Threads -> Nat]
      /\ incident \in [Threads -> Incidents \cup {NoIncident}]
      /\ sequence \in [Cells -> Nat] /\ enqueuePosition \in Nat /\ dequeuePosition \in Nat
      /\ dequeuePosition <= enqueuePosition /\ N \in Nat /\ N >= 2
  BY QueueAssumption DEF RingInv, Inv, TypeOK
<1>2. ASSUME PopCopy(t)
      PROVE  UNCHANGED <<Lane, dequeuePosition, dropped, Ops, Ats, Helds>>
  <2>1. /\ UNCHANGED <<cells, ends>> /\ pc[t] # "pushWrite" /\ pc'[t] # "pushWrite"
        /\ \A u \in Threads : u # t =>
             pc'[u] = pc[u] /\ position'[u] = position[u] /\ incident'[u] = incident[u]
        /\ dequeuePosition' = dequeuePosition /\ dropped' = dropped
    BY <1>1, <1>2 DEF PopCopy
  <2>2. /\ Lane' = Lane
        /\ Ops' = [Ops EXCEPT ![t] = Phase(t)']
        /\ Ats' = [Ats EXCEPT ![t] = AtOf(t)']
        /\ Helds' = [Helds EXCEPT ![t] = HeldBy(t)']
    BY <2>1, CallStep DEF RingInv
  <2>3. /\ pc[t] = "popCopy" /\ pc'[t] = "popRelease" /\ position'[t] = position[t]
        /\ incident'[t] = value[Cell(position[t])]
    BY <1>1, <1>2 DEF PopCopy
  <2>4. Phase(t) = "copying" /\ Phase(t)' = "copying" /\ AtOf(t)' = AtOf(t)
    BY <2>3 DEF Phase, Producing, Consuming, AtOf, OwnsCell
  <2>5. HeldBy(t)' = HeldBy(t)
    BY <2>3, <2>4 DEF HeldBy
  <2> QED BY <2>1, <2>2, <2>4, <2>5 DEF Ops, Ats, Helds
<1>3. ASSUME PopRelease(t) PROVE Transport!Release(t)
  <2> DEFINE p == position[t]
             e == enqueuePosition
             d == dequeuePosition
  <2>1. /\ pc[t] = "popRelease" /\ pc' = [pc EXCEPT ![t] = "popCount"]
        /\ sequence' = [sequence EXCEPT ![Cell(p)] = p + N]
        /\ e' = e /\ d' = d /\ dropped' = dropped
        /\ value' = value /\ position' = position /\ incident' = incident
    BY <1>3 DEF PopRelease
  <2>2. p \in Nat /\ Cell(p) \in Cells /\ p < d /\ sequence[Cell(p)] = p + 1
    BY <1>1, <2>1, CellIsCell DEF RingInv, Inv, ConsumersOwn, Consuming
  <2>3. \A q : RecordAt(q)' = RecordAt(q)
    <3>1. \A u \in Threads : \/ pc'[u] # "pushWrite" /\ pc[u] # "pushWrite"
                             \/ /\ pc'[u] = "pushWrite" /\ pc[u] = "pushWrite"
                                /\ position'[u] = position[u] /\ incident'[u] = incident[u]
      BY <1>1, <2>1
    <3> QED BY <2>1, <3>1, RecordsStay DEF RingInv
  <2>4. Lane' = Lane
    <3>1. ASSUME NEW k \in 1 .. e - d
          PROVE  LaneEntry(d + k - 1)' = LaneEntry(d + k - 1)
      <4>1. PICK q \in Nat : q = d + k - 1 /\ q \in d .. e - 1 /\ p < q
        BY <1>1, <2>2, <3>1
      <4>2. sequence[Cell(q)] \in {q, q + 1} /\ Cell(q) \in Cells
        BY <4>1, CellIsCell DEF RingInv, Inv, LaneNumbers
      <4>3. Cell(q) # Cell(p)
        <5>1. SUFFICES ASSUME Cell(q) = Cell(p) PROVE FALSE
          OBVIOUS
        <5>2. q = p + 1
          <6>1. sequence[Cell(q)] = p + 1
            BY <2>2, <5>1
          <6> QED BY <2>2, <4>1, <4>2, <6>1
        <5>3. Cell(p + 1) # Cell(p)
          BY <2>2, CellNeighbours
        <5> QED BY <5>1, <5>2, <5>3
      <4>4. sequence'[Cell(q)] = sequence[Cell(q)]
        BY <1>1, <2>1, <4>2, <4>3
      <4>5. LaneEntry(q)' = LaneEntry(q)
        BY <2>3, <4>4 DEF LaneEntry
      <4>6. LaneEntry(d + k - 1)' = LaneEntry(q)'
        BY <2>1, <4>1 DEF LaneEntry
      <4> QED BY <4>1, <4>5, <4>6
    <3>2. (enqueuePosition - dequeuePosition)' = e - d
      BY <2>1
    <3> QED BY <3>1, <3>2 DEF Lane
  <2>5. /\ pc'[t] = "popCount" /\ Phase(t) = "copying" /\ Phase(t)' = "idle" /\ AtOf(t)' = 0
    BY <1>1, <2>1 DEF Phase, Producing, Consuming, AtOf, OwnsCell
  <2>6. HeldBy(t)' = NoIncident
    BY <2>5 DEF HeldBy
  <2>7. /\ Ops' = [Ops EXCEPT ![t] = Phase(t)']
        /\ Ats' = [Ats EXCEPT ![t] = AtOf(t)']
        /\ Helds' = [Helds EXCEPT ![t] = HeldBy(t)']
    <3>1. \A u \in Threads : u # t =>
            /\ pc'[u] = pc[u] /\ position'[u] = position[u] /\ incident'[u] = incident[u]
            /\ pc[u] = "popCopy" => value'[Cell(position[u])] = value[Cell(position[u])]
      BY <1>1, <2>1
    <3> QED BY <3>1, OnlyOne
  <2> QED BY <2>1, <2>4, <2>5, <2>6, <2>7 DEF Transport!Release, Transport!Finish, Ops
<1> QED BY <1>2, <1>3

(* The empty ring is the empty lane.                                       *)
LEMMA TransportStarts == Init => Transport!TransportInit
<1> SUFFICES ASSUME Init PROVE Transport!TransportInit
  OBVIOUS
<1>1. Lane = <<>>
  <2>1. enqueuePosition - dequeuePosition = 0
    BY DEF Init
  <2> QED BY <2>1 DEF Lane
<1>2. \A t \in Threads : Phase(t) = "idle" /\ AtOf(t) = 0
  BY DEF Init, Phase, Producing, Consuming, AtOf, OwnsCell
<1>3. \A t \in Threads : HeldBy(t) = NoIncident
  BY <1>2 DEF Init, HeldBy
<1> QED BY <1>1, <1>2, <1>3 DEF Init, Transport!TransportInit, Ops, Ats, Helds

(* Every step of the ring is a step of the lane, or is not seen.           *)
LEMMA TransportSteps ==
  ASSUME RingInv, RingInv', [Next]_vars
  PROVE  [Transport!TransportNext]_(Transport!transportVars)
<1> USE DEF Transport!TransportNext, Transport!TransportStep
<1>1. CASE UNCHANGED vars
  <2>1. UNCHANGED <<Lane, dequeuePosition, dropped, Ops, Ats, Helds>>
    BY <1>1 DEF vars, cells, ends, counters, locals, Lane, LaneEntry, RecordAt, Ops, Ats, Helds,
                AtOf, HeldBy, Phase, OwnsCell, Producing, Consuming
  <2> QED BY <2>1 DEF Transport!transportVars
<1>2. ASSUME NEW t \in Threads, Begin(t) PROVE [Transport!TransportNext]_(Transport!transportVars)
  BY <1>2, BeginsMap DEF Begin, RingInv
<1>3. ASSUME NEW t \in Threads, Push(t) PROVE [Transport!TransportNext]_(Transport!transportVars)
  BY <1>3, Unseen, RefuseMaps, ReturnsMap, ClaimMaps, WriteUnseen, PublishMaps
     DEF Push, RingInv, Transport!transportVars
<1>4. ASSUME NEW t \in Threads, Pop(t) PROVE [Transport!TransportNext]_(Transport!transportVars)
  BY <1>4, Unseen, ReturnsMap, TakeMaps, CopyAndReleaseMap
     DEF Pop, RingInv, Transport!transportVars
<1> QED BY <1>1, <1>2, <1>3, <1>4 DEF Next

(* The ring does what IncidentTransport promises, for any threads, records *)
(* and N >= 2: each accepted record is handed out once, in claim order,    *)
(* unchanged and completely written, and only an occupied place refuses.   *)
THEOREM RingImplementsTransport == Spec => ImplementsTransport
<1>1. RingInv /\ RingInv' /\ [Next]_vars => [Transport!TransportNext]_(Transport!transportVars)
  BY TransportSteps
<1> QED BY <1>1, TransportStarts, RingInvHolds, PTL
        DEF Spec, ImplementsTransport, Transport!TransportSpec
=============================================================================
