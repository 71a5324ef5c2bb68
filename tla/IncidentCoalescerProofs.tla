----------------------- MODULE IncidentCoalescerProofs -----------------------
(***************************************************************************)
(* Proofs about IncidentCoalescer and its ledger, for any records, any     *)
(* number of slots and any saturation bound: a signature never has two     *)
(* slots, the cached number of used slots is right, a record is given up   *)
(* only while the table holds as many signatures as it has slots (so never *)
(* when there are no more signatures than that), and what is reported adds *)
(* up to what was tracked, kind by kind.                                   *)
(*                                                                         *)
(* TableInv is inductive.  A record is given up only when no slot is free  *)
(* and none matches; then the slots map one to one into the other          *)
(* signatures, so there are more signatures than slots.  LedgerInv is      *)
(* inductive too: sums of counters are cardinalities of sets of pairs,     *)
(* which a step changes by one pair or by the pairs of one slot.           *)
(***************************************************************************)
EXTENDS CoalescerLedger, FiniteSetTheorems, WellFoundedInduction, TLAPS

(* The loops of TryAdd and TryPop find a slot whenever there is one.       *)
LEMMA FirstOfExists ==
  ASSUME NEW S \in SUBSET Slots, S # {}
  PROVE  FirstOf(S) \in S
<1>1. PICK R : R = {mn \in Nat \X Nat : mn[1] < mn[2]}
  OBVIOUS
<1>2. IsWellFoundedOn(R, Nat)
  BY <1>1, NatLessThanWellFounded DEF OpToRel
<1>3. S \subseteq Nat
  BY CoalescerAssumption DEF Slots
<1>4. PICK s \in S : \A r \in S : ~ (<<r, s>> \in R)
  BY <1>2, <1>3, WFMin, Zenon
<1>5. \A m, n \in Nat : m < n => <<m, n>> \in R
  BY <1>1
<1>6. \A r \in S : s <= r
  <2> SUFFICES ASSUME NEW r \in S PROVE ~ (r < s)
    BY <1>3
  <2>1. r < s => <<r, s>> \in R
    BY <1>3, <1>5
  <2> QED BY <1>4, <2>1
<1> QED BY <1>6 DEF FirstOf

-----------------------------------------------------------------------------

SlotType == [exemplar : Incidents, count : 1 .. Limit, used : {TRUE}] \cup {Unused}

(* What every step preserves.                                              *)
TableInv ==
  /\ TableTypeOK
  /\ OneSlotPerSignature
  /\ ActiveCountsUsed
  /\ NeverSaturates

LEMMA SlotsFinite == IsFiniteSet(Slots) /\ Cardinality(Slots) = Capacity
BY FS_Interval, CoalescerAssumption DEF Slots

LEMMA UsedFinite == Used \in SUBSET Slots /\ IsFiniteSet(Used) /\ Cardinality(Used) \in Nat
BY SlotsFinite, FS_Subset, FS_CardinalityType DEF Used

(* A used slot holds a record.                                             *)
LEMMA UsedRecord ==
  ASSUME TableTypeOK, NEW s \in Used
  PROVE  s \in Slots /\ slots[s] \in [exemplar : Incidents, count : 1 .. Limit, used : {TRUE}]
<1>1. s \in Slots /\ slots[s].used /\ slots[s] \in SlotType
  BY DEF TableTypeOK, Used, SlotType
<1>2. slots[s] # Unused
  BY <1>1 DEF Unused
<1> QED BY <1>1, <1>2 DEF SlotType

LEMMA CountStays == \A n \in 1 .. Limit : SaturatingIncrement(n) \in 1 .. Limit
BY CoalescerAssumption DEF SaturatingIncrement

LEMMA TotalStays == \A n \in 0 .. Limit : SaturatingIncrement(n) \in 0 .. Limit
BY CoalescerAssumption DEF SaturatingIncrement

(* The empty table, at construction and after Reset.                       *)
LEMMA TableInvInit == EmptyTable => TableInv
<1> SUFFICES ASSUME EmptyTable PROVE TableInv
  OBVIOUS
<1>1. TableTypeOK
  BY CoalescerAssumption DEF EmptyTable, TableTypeOK
<1>2. Used = {}
  BY DEF EmptyTable, Used, Unused
<1>3. OneSlotPerSignature /\ ActiveCountsUsed /\ NeverSaturates
  BY <1>2, FS_EmptySet DEF EmptyTable, OneSlotPerSignature, ActiveCountsUsed, NeverSaturates
<1> QED BY <1>1, <1>3 DEF TableInv

LEMMA ResetStep == Reset => TableInv'
<1> SUFFICES ASSUME Reset PROVE TableInv'
  OBVIOUS
<1>1. TableTypeOK'
  BY CoalescerAssumption DEF Reset, TableTypeOK
<1>2. Used' = {}
  BY DEF Reset, Used, Unused
<1>3. OneSlotPerSignature' /\ ActiveCountsUsed' /\ NeverSaturates'
  BY <1>2, FS_EmptySet DEF Reset, OneSlotPerSignature, ActiveCountsUsed, NeverSaturates
<1> QED BY <1>1, <1>3 DEF TableInv

(* Merging changes a count, no exemplar.                                   *)
LEMMA MergeStep ==
  ASSUME TableInv, NEW i \in Incidents, Merge(i)
  PROVE  TableInv'
<1> DEFINE m == FirstOf(Matches(i))
<1>1. m \in Slots /\ m \in Used
  BY FirstOfExists DEF Merge, Matches, Used
<1>2. slots[m] \in SlotType /\ slots[m].used /\ slots[m] # Unused
  <2>1. slots[m].used
    BY <1>1 DEF Used
  <2>2. slots[m] # Unused
    BY <2>1 DEF Unused
  <2> QED BY <1>1, <2>1, <2>2 DEF TableInv, TableTypeOK, SlotType
<1>3. slots' = [slots EXCEPT ![m].count = SaturatingIncrement(slots[m].count)]
  BY DEF Merge
<1> HIDE DEF m
<1>4. slots'[m] \in SlotType /\ slots'[m].used /\ slots'[m].exemplar = slots[m].exemplar
  BY <1>1, <1>2, <1>3, CountStays DEF TableInv, TableTypeOK, SlotType
<1>5. \A s \in Slots : s # m => slots'[s] = slots[s]
  BY <1>1, <1>3 DEF TableInv, TableTypeOK
<1>6. TableTypeOK'
  BY <1>1, <1>3, <1>4, <1>5, TotalStays DEF TableInv, TableTypeOK, SlotType, Merge
<1>7. Used' = Used
  BY <1>1, <1>2, <1>4, <1>5 DEF Used
<1>8. \A s \in Used : slots'[s].exemplar = slots[s].exemplar
  BY <1>1, <1>4, <1>5 DEF Used
<1>9. OneSlotPerSignature'
  BY <1>7, <1>8 DEF TableInv, OneSlotPerSignature, Signature
<1>10. ActiveCountsUsed' /\ NeverSaturates'
  BY <1>7 DEF TableInv, ActiveCountsUsed, NeverSaturates, Merge
<1> QED BY <1>6, <1>9, <1>10 DEF TableInv

(* Opening takes a free slot for a signature that has none.                *)
LEMMA OpenStep ==
  ASSUME TableInv, NEW i \in Incidents, Open(i)
  PROVE  TableInv'
<1> DEFINE f == FirstOf(Free)
           new == [exemplar |-> i, count |-> 1, used |-> TRUE]
<1>1. f \in Slots /\ f \notin Used
  BY FirstOfExists DEF Open, Free
<1>2. /\ slots' = [slots EXCEPT ![f] = new]
      /\ active' = active + 1 /\ collapsed' = collapsed /\ untracked' = untracked
  BY DEF Open
<1> HIDE DEF f
<1>3. slots'[f] = new /\ \A s \in Slots : s # f => slots'[s] = slots[s]
  BY <1>1, <1>2 DEF TableInv, TableTypeOK
<1>4. new \in SlotType
  BY CoalescerAssumption DEF SlotType
<1>5. TableTypeOK'
  <2>1. slots \in [Slots -> SlotType] /\ active \in Nat
    BY DEF TableInv, TableTypeOK, SlotType
  <2> HIDE DEF new
  <2>2. slots' \in [Slots -> SlotType] /\ active' \in Nat
    BY <1>1, <1>2, <1>4, <2>1
  <2> QED BY <1>2, <2>2 DEF TableInv, TableTypeOK, SlotType
<1>6. Used' = Used \cup {f}
  BY <1>1, <1>3 DEF Used
<1>7. ActiveCountsUsed'
  BY <1>1, <1>6, UsedFinite, FS_AddElement DEF TableInv, ActiveCountsUsed, Open
<1>8. \A s \in Used : Signature(slots[s].exemplar) # Signature(i) /\ slots'[s] = slots[s]
  BY <1>1, <1>3 DEF Open, Matches, Used
<1>9. OneSlotPerSignature'
  BY <1>3, <1>6, <1>8 DEF TableInv, OneSlotPerSignature, Signature
<1>10. NeverSaturates'
  BY DEF TableInv, NeverSaturates, Open
<1> QED BY <1>5, <1>7, <1>9, <1>10 DEF TableInv

(* Giving up needs Capacity used slots, all with signatures different from *)
(* the record's and from each other: more signatures than slots.           *)
LEMMA GiveUpStep ==
  ASSUME TableInv, NEW i \in Incidents, GiveUp(i)
  PROVE  TableInv'
<1>1. Used' = Used /\ slots' = slots
  BY DEF GiveUp, Used
<1>2. TableTypeOK' /\ OneSlotPerSignature' /\ ActiveCountsUsed'
  BY <1>1, TotalStays
     DEF TableInv, TableTypeOK, OneSlotPerSignature, ActiveCountsUsed, GiveUp
<1>3. ~ (IsFiniteSet(Signatures) /\ Cardinality(Signatures) <= Capacity)
  <2> SUFFICES ASSUME IsFiniteSet(Signatures), Cardinality(Signatures) <= Capacity
               PROVE  FALSE
    OBVIOUS
  <2> DEFINE others == Signatures \ {Signature(i)}
             sig == [s \in Slots |-> Signature(slots[s].exemplar)]
  <2>1. Used = Slots
    BY DEF GiveUp, Free, Used
  <2>2. \A s \in Slots : slots[s].exemplar \in Incidents
    BY <2>1, UsedRecord DEF TableInv
  <2>3. \A s \in Slots : Signature(slots[s].exemplar) # Signature(i)
    BY <2>1 DEF GiveUp, Matches
  <2>4. sig \in [Slots -> others]
    BY <2>2, <2>3 DEF Signatures
  <2>5. sig \in Injection(Slots, others)
    BY <2>1, <2>4 DEF TableInv, OneSlotPerSignature, Injection, IsInjective
  <2>6. IsFiniteSet(others) /\ Cardinality(others) = Cardinality(Signatures) - 1
    <3>1. Signature(i) \in Signatures
      BY DEF Signatures
    <3> HIDE DEF Signatures
    <3> QED BY <3>1, FS_RemoveElement
  <2> HIDE DEF others, sig
  <2>7. Capacity <= Cardinality(others)
    BY <2>5, <2>6, SlotsFinite, FS_Injection
  <2>8. Cardinality(Signatures) \in Nat
    BY FS_CardinalityType
  <2> QED BY <2>6, <2>7, <2>8, CoalescerAssumption
<1>4. NeverSaturates'
  BY <1>3 DEF NeverSaturates, Signatures
<1> QED BY <1>2, <1>4 DEF TableInv

(* Popping empties one used slot.                                          *)
LEMMA TryPopStep == ASSUME TableInv, TryPop PROVE TableInv'
<1> DEFINE u == FirstOf(Used)
<1>1. u \in Slots /\ u \in Used
  BY FirstOfExists, UsedFinite DEF TryPop
<1>2. slots' = [slots EXCEPT ![u] = Unused]
  BY DEF TryPop
<1> HIDE DEF u
<1>3. slots'[u] = Unused /\ \A s \in Slots : s # u => slots'[s] = slots[s]
  BY <1>1, <1>2 DEF TableInv, TableTypeOK
<1>4. Used' = Used \ {u}
  BY <1>1, <1>3 DEF Used, Unused
<1>5. Cardinality(Used') = Cardinality(Used) - 1 /\ Cardinality(Used') \in Nat
  BY <1>1, <1>4, UsedFinite, FS_RemoveElement, FS_CardinalityType
<1>6. ActiveCountsUsed' /\ active' \in Nat
  BY <1>5 DEF TableInv, ActiveCountsUsed, TryPop
<1>7. TableTypeOK'
  BY <1>1, <1>2, <1>6 DEF TableInv, TableTypeOK, TryPop
<1>8. OneSlotPerSignature'
  BY <1>3, <1>4 DEF TableInv, OneSlotPerSignature, Signature, Used
<1>9. NeverSaturates'
  BY DEF TableInv, NeverSaturates, TryPop
<1> QED BY <1>6, <1>7, <1>8, <1>9 DEF TableInv

LEMMA TableInvStep == TableInv /\ [TableNext]_table => TableInv'
<1>1. TableInv /\ TableNext => TableInv'
  BY MergeStep, OpenStep, GiveUpStep, TryPopStep, ResetStep DEF TableNext, TryAdd
<1>2. TableInv /\ UNCHANGED table => TableInv'
  BY DEF table, TableInv, TableTypeOK, OneSlotPerSignature, ActiveCountsUsed,
         NeverSaturates, Used
<1> QED BY <1>1, <1>2

(* Every reachable table satisfies the invariant.                          *)
THEOREM TableInvHolds == TableSpec => []TableInv
<1> QED BY TableInvInit, TableInvStep, PTL DEF TableSpec

(* A drain writes at most one aggregate line per signature.                *)
THEOREM UniqueSignature == TableSpec => []OneSlotPerSignature
<1>1. TableInv => OneSlotPerSignature
  BY DEF TableInv
<1> QED BY <1>1, TableInvHolds, PTL

(* Active() is the number of aggregates TryPop will still return.          *)
THEOREM ActiveIsExact == TableSpec => []ActiveCountsUsed
<1>1. TableInv => ActiveCountsUsed
  BY DEF TableInv
<1> QED BY <1>1, TableInvHolds, PTL

(* With no more signatures than slots, no record is ever given up; the     *)
(* plugin's 13 signatures fit its 32 slots.                                *)
THEOREM NothingGivenUp == TableSpec => []NeverSaturates
<1>1. TableInv => NeverSaturates
  BY DEF TableInv
<1> QED BY <1>1, TableInvHolds, PTL
-----------------------------------------------------------------------------
SlotsTyped == slots \in [Slots -> SlotType]

(* A slot is unused, or it holds a record and what it stands for.          *)
LEMMA SlotShape ==
  ASSUME SlotsTyped, NEW s \in Slots
  PROVE  /\ slots[s].used =>
              /\ slots[s] \in [exemplar : Incidents, count : 1 .. Limit, used : {TRUE}]
              /\ slots[s].count \in 1 .. Limit
         /\ ~slots[s].used => slots[s] = Unused /\ slots[s].count = 0
         /\ slots[s].count \in 0 .. Limit
<1>1. slots[s] \in SlotType
  BY DEF SlotsTyped
<1>2. CASE slots[s] = Unused
  <2>1. ~slots[s].used /\ slots[s].count = 0
    BY <1>2 DEF Unused
  <2> QED BY <1>2, <2>1, CoalescerAssumption
<1>3. CASE slots[s] \in [exemplar : Incidents, count : 1 .. Limit, used : {TRUE}]
  <2>1. slots[s].used /\ slots[s].count \in 1 .. Limit
    BY <1>3
  <2>2. slots[s].count \in 0 .. Limit
    BY <2>1, CoalescerAssumption
  <2> QED BY <1>3, <2>1, <2>2, Zenon
<1> QED BY <1>1, <1>2, <1>3 DEF SlotType

LEMMA TalliedFinite == IsFiniteSet(Tallied) /\ Cardinality(Tallied) \in Nat
<1>1. IsFiniteSet(Slots) /\ IsFiniteSet(1 .. Limit)
  BY SlotsFinite, FS_Interval, CoalescerAssumption
<1>2. IsFiniteSet(Slots \X (1 .. Limit))
  BY <1>1, FS_Product
<1>3. Tallied \in SUBSET (Slots \X (1 .. Limit))
  BY DEF Tallied
<1> QED BY <1>2, <1>3, FS_Subset, FS_CardinalityType

(* A slot holds at most Limit records, and its pairs are among the tally.  *)
LEMMA TallyOfSlot ==
  ASSUME SlotsTyped, NEW s \in Slots
  PROVE  /\ slots[s].count \in 0 .. Limit
         /\ {s} \X (1 .. slots[s].count) \subseteq Tallied
         /\ IsFiniteSet({s} \X (1 .. slots[s].count))
         /\ Cardinality({s} \X (1 .. slots[s].count)) = slots[s].count
<1> DEFINE c == slots[s].count
<1>2. c \in 0 .. Limit
  BY SlotShape
<1>3. {s} \X (1 .. c) \subseteq Tallied
  BY <1>2, CoalescerAssumption DEF Tallied
<1> HIDE DEF c
<1>4. IsFiniteSet(1 .. c) /\ Cardinality(1 .. c) = c
  BY <1>2, FS_Interval
<1>5. IsFiniteSet({s}) /\ Cardinality({s}) = 1
  BY FS_Singleton
<1>6. /\ IsFiniteSet({s} \X (1 .. c))
      /\ Cardinality({s} \X (1 .. c)) = Cardinality({s}) * Cardinality(1 .. c)
  BY <1>4, <1>5, FS_Product
<1>7. 1 * c = c
  BY <1>2
<1> QED BY <1>2, <1>3, <1>4, <1>5, <1>6, <1>7 DEF c

LEMMA TallyEmpty == ASSUME SlotsTyped, Used = {} PROVE Tallied = {}
<1>1. ASSUME NEW s \in Slots PROVE slots[s].count = 0
  BY SlotShape DEF Used
<1> QED BY <1>1, CoalescerAssumption DEF Tallied

LEMMA TallyReset == ASSUME Reset PROVE SlotsTyped' /\ Tallied' = {} /\ Used' = {}
<1>1. SlotsTyped' /\ Used' = {}
  BY DEF Reset, SlotsTyped, SlotType, Used, Unused
<1>2. \A s \in Slots : slots'[s].count = 0
  BY DEF Reset, Unused
<1>3. Tallied' = {}
  BY <1>2, CoalescerAssumption DEF Tallied
<1> QED BY <1>1, <1>3

(* One more record: a pair of its own in the slot of its signature, unless *)
(* the counter there is at the limit.                                      *)
LEMMA TalliedMerge ==
  ASSUME SlotsTyped, NEW i \in Incidents, Merge(i)
  PROVE  /\ SlotsTyped'
         /\ \A s \in Slots : slots'[s].exemplar = slots[s].exemplar
         /\ \E m \in Used :
              /\ Signature(slots[m].exemplar) = Signature(i)
              /\ \/ slots[m].count = Limit /\ Tallied' = Tallied
                 \/ /\ Tallied' = Tallied \cup {<<m, slots[m].count + 1>>}
                    /\ <<m, slots[m].count + 1>> \notin Tallied
<1> DEFINE m == FirstOf(Matches(i))
           c == slots[m].count
<1>1. m \in Slots /\ m \in Used /\ Signature(slots[m].exemplar) = Signature(i)
  <2>1. Matches(i) \in SUBSET Slots /\ Matches(i) # {}
    BY DEF Merge, Matches, Used
  <2>2. m \in Matches(i)
    BY <2>1, FirstOfExists
  <2> QED BY <2>1, <2>2 DEF Matches
<1>2. slots[m] \in [exemplar : Incidents, count : 1 .. Limit, used : {TRUE}]
  BY <1>1, SlotShape DEF Used
<1>3. slots' = [slots EXCEPT ![m].count = SaturatingIncrement(c)]
  BY DEF Merge
<1>4. c \in 1 .. Limit /\ SaturatingIncrement(c) \in 1 .. Limit
  BY <1>2, CountStays
<1> HIDE DEF m
<1>5. /\ slots'[m] \in SlotType /\ slots'[m].count = SaturatingIncrement(c)
      /\ slots'[m].exemplar = slots[m].exemplar
  BY <1>1, <1>2, <1>3, <1>4 DEF SlotsTyped, SlotType
<1>6. \A s \in Slots : s # m => slots'[s] = slots[s]
  BY <1>1, <1>3 DEF SlotsTyped
<1>7. SlotsTyped'
  BY <1>1, <1>3, <1>5, <1>6 DEF SlotsTyped
<1>8. \A s \in Slots : slots'[s].exemplar = slots[s].exemplar
  BY <1>5, <1>6
<1> HIDE DEF c
<1>9. CASE c = Limit
  <2>1. \A s \in Slots : slots'[s].count = slots[s].count
    BY <1>5, <1>6, <1>9 DEF SaturatingIncrement, c
  <2>2. Tallied' = Tallied
    BY <2>1 DEF Tallied
  <2> QED BY <1>1, <1>7, <1>8, <1>9, <2>2 DEF c
<1>10. CASE c # Limit
  <2>1. SaturatingIncrement(c) = c + 1 /\ c + 1 \in 1 .. Limit
    BY <1>4, <1>10, CoalescerAssumption DEF SaturatingIncrement
  <2>2. \A s \in Slots, n \in 1 .. Limit :
          n <= slots'[s].count <=> (n <= slots[s].count \/ (s = m /\ n = c + 1))
    <3>1. \A n \in 1 .. Limit : n <= c + 1 <=> (n <= c \/ n = c + 1)
      BY <1>4
    <3> QED BY <1>5, <1>6, <2>1, <3>1 DEF c
  <2>3. Tallied' = Tallied \cup {<<m, c + 1>>}
    BY <1>1, <2>1, <2>2 DEF Tallied
  <2>4. <<m, c + 1>> \notin Tallied
    BY <1>4 DEF Tallied, c
  <2> QED BY <1>1, <1>7, <1>8, <2>3, <2>4 DEF c
<1> QED BY <1>9, <1>10

LEMMA TallyMerge ==
  ASSUME SlotsTyped, NEW i \in Incidents, Merge(i)
  PROVE  /\ SlotsTyped' /\ Cardinality(Tallied') \in Nat
         /\ Cardinality(Tallied') <= Cardinality(Tallied) + 1
         /\ Cardinality(Tallied) < Limit => Cardinality(Tallied') = Cardinality(Tallied) + 1
<1>1. PICK m \in Used :
        \/ slots[m].count = Limit /\ Tallied' = Tallied
        \/ /\ Tallied' = Tallied \cup {<<m, slots[m].count + 1>>}
           /\ <<m, slots[m].count + 1>> \notin Tallied
  BY TalliedMerge
<1>2. SlotsTyped'
  BY TalliedMerge
<1>3. CASE slots[m].count = Limit /\ Tallied' = Tallied
  <2>1. {m} \X (1 .. slots[m].count) \in SUBSET Tallied
        /\ Cardinality({m} \X (1 .. slots[m].count)) = slots[m].count
    BY TallyOfSlot DEF Used
  <2>2. slots[m].count <= Cardinality(Tallied)
    BY <2>1, TalliedFinite, FS_Subset
  <2> QED BY <1>2, <1>3, <2>2, TalliedFinite, CoalescerAssumption
<1>4. CASE /\ Tallied' = Tallied \cup {<<m, slots[m].count + 1>>}
           /\ <<m, slots[m].count + 1>> \notin Tallied
  <2>1. Cardinality(Tallied') = Cardinality(Tallied) + 1
    BY <1>4, TalliedFinite, FS_AddElement
  <2> QED BY <1>2, <2>1, TalliedFinite
<1> QED BY <1>1, <1>3, <1>4

LEMMA TalliedOpen ==
  ASSUME SlotsTyped, NEW i \in Incidents, Open(i)
  PROVE  /\ SlotsTyped'
         /\ \E f \in Slots :
              /\ slots'[f].exemplar = i /\ \A s \in Slots : s # f => slots'[s] = slots[s]
              /\ Tallied' = Tallied \cup {<<f, 1>>}
              /\ \A n : <<f, n>> \notin Tallied
<1> DEFINE f == FirstOf(Free)
           new == [exemplar |-> i, count |-> 1, used |-> TRUE]
<1>1. f \in Slots /\ f \notin Used
  BY FirstOfExists DEF Open, Free
<1>2. slots' = [slots EXCEPT ![f] = new]
  BY DEF Open
<1>3. new \in SlotType /\ new.count = 1 /\ new.exemplar = i
  BY CoalescerAssumption DEF SlotType
<1>4. slots[f].count = 0
  BY <1>1, SlotShape DEF Used
<1> HIDE DEF f, new
<1>5. slots'[f] = new /\ \A s \in Slots : s # f => slots'[s] = slots[s]
  BY <1>1, <1>2 DEF SlotsTyped
<1>6. SlotsTyped'
  BY <1>1, <1>2, <1>3 DEF SlotsTyped
<1>7. Tallied' = Tallied \cup {<<f, 1>>}
  BY <1>1, <1>3, <1>4, <1>5, CoalescerAssumption DEF Tallied
<1>8. \A n : <<f, n>> \notin Tallied
  BY <1>4 DEF Tallied
<1> QED BY <1>1, <1>3, <1>5, <1>6, <1>7, <1>8

LEMMA TallyOpen ==
  ASSUME SlotsTyped, NEW i \in Incidents, Open(i)
  PROVE  SlotsTyped' /\ Cardinality(Tallied') = Cardinality(Tallied) + 1
BY TalliedOpen, TalliedFinite, FS_AddElement

(* The same of TryAdd as a whole, the records given up included.           *)
LEMMA TallyAdd ==
  ASSUME SlotsTyped, untracked \in Nat, NEW i \in Incidents, TryAdd(i)
  PROVE  /\ SlotsTyped' /\ untracked' \in Nat /\ Cardinality(Tallied') \in Nat
         /\ Cardinality(Tallied') + untracked' <= Cardinality(Tallied) + untracked + 1
         /\ Cardinality(Tallied) + untracked < Limit =>
              Cardinality(Tallied') + untracked' = Cardinality(Tallied) + untracked + 1
<1>1. Cardinality(Tallied) \in Nat /\ Limit \in Nat
  BY TalliedFinite, CoalescerAssumption
<1>2. CASE Merge(i)
  <2>1. untracked' = untracked
    BY <1>2 DEF Merge
  <2> QED BY <1>1, <1>2, <2>1, TallyMerge
<1>3. CASE Open(i)
  <2>1. untracked' = untracked
    BY <1>3 DEF Open
  <2> QED BY <1>1, <1>3, <2>1, TallyOpen
<1>4. CASE GiveUp(i)
  <2>1. SlotsTyped' /\ Tallied' = Tallied /\ untracked' = SaturatingIncrement(untracked)
    BY <1>4 DEF GiveUp, SlotsTyped, Tallied
  <2> QED BY <1>1, <2>1 DEF SaturatingIncrement
<1> QED BY <1>2, <1>3, <1>4 DEF TryAdd

(* A pop takes out exactly the records it reports.                         *)
LEMMA TalliedPop ==
  ASSUME SlotsTyped, TryPop
  PROVE  /\ SlotsTyped' /\ FirstOf(Used) \in Used
         /\ Tallied' = Tallied \ ({FirstOf(Used)} \X (1 .. slots[FirstOf(Used)].count))
         /\ \A s \in Slots : s # FirstOf(Used) => slots'[s] = slots[s]
<1> DEFINE u == FirstOf(Used)
           c == slots[u].count
<1>1. u \in Slots /\ u \in Used
  BY FirstOfExists, UsedFinite DEF TryPop
<1>2. slots' = [slots EXCEPT ![u] = Unused]
  BY DEF TryPop
<1> HIDE DEF u
<1>3. slots'[u] = Unused /\ \A s \in Slots : s # u => slots'[s] = slots[s]
  BY <1>1, <1>2 DEF SlotsTyped
<1>4. SlotsTyped'
  BY <1>1, <1>2 DEF SlotsTyped, SlotType
<1>5. c \in 0 .. Limit
  BY <1>1, TallyOfSlot
<1>6. Tallied' = Tallied \ ({u} \X (1 .. c))
  <2>1. \A n \in 1 .. Limit : n <= slots[u].count <=> n \in 1 .. c
    BY <1>5, CoalescerAssumption
  <2>2. \A n \in 1 .. Limit : ~(n <= slots'[u].count)
    BY <1>3, CoalescerAssumption DEF Unused
  <2> QED BY <1>1, <1>3, <2>1, <2>2 DEF Tallied
<1> QED BY <1>1, <1>3, <1>4, <1>6 DEF c, u

LEMMA TallyPop ==
  ASSUME SlotsTyped, TryPop
  PROVE  /\ SlotsTyped' /\ slots[FirstOf(Used)].count \in Nat
         /\ Cardinality(Tallied') \in Nat
         /\ Cardinality(Tallied') + slots[FirstOf(Used)].count = Cardinality(Tallied)
<1> DEFINE u == FirstOf(Used)
           c == slots[u].count
           out == {u} \X (1 .. c)
<1>1. SlotsTyped' /\ u \in Slots /\ Tallied' = Tallied \ out
  <2>1. SlotsTyped' /\ u \in Used /\ Tallied' = Tallied \ out
    BY TalliedPop, Zenon
  <2> HIDE DEF u, out
  <2> QED BY <2>1, UsedFinite
<1> HIDE DEF u
<1>2. c \in 0 .. Limit /\ out \subseteq Tallied /\ IsFiniteSet(out) /\ Cardinality(out) = c
  BY <1>1, TallyOfSlot
<1> HIDE DEF c, out
<1>3. Tallied \cap out = out
  BY <1>2
<1>4. Cardinality(Tallied \ out) = Cardinality(Tallied) - Cardinality(Tallied \cap out)
  BY TalliedFinite, FS_Difference
<1>5. IsFiniteSet(Tallied \ out)
  BY TalliedFinite, FS_Subset
<1>6. Cardinality(Tallied \ out) \in Nat
  BY <1>5, FS_CardinalityType
<1>7. /\ Cardinality(Tallied') + c = Cardinality(Tallied) /\ c \in Nat
      /\ Cardinality(Tallied') \in Nat
  <2>1. Tallied' = Tallied \ out
    BY <1>1
  <2>2. Cardinality(Tallied \ out) + c = Cardinality(Tallied) /\ c \in Nat
    BY <1>2, <1>3, <1>4, <1>6, TalliedFinite
  <2> QED BY <1>6, <2>1, <2>2
<1> QED BY <1>1, <1>7 DEF c, u
-----------------------------------------------------------------------------
(* The ledger, kind by kind.  Equal signatures are of one kind, so what a  *)
(* slot stands for is of the kind of its exemplar.                         *)

LedgerInv ==
  /\ SlotsTyped /\ untracked \in Nat
  /\ tracked \in [Kinds -> Nat] /\ delivered \in [Kinds -> Nat] /\ refusals \in Nat
  /\ ReportsAddUp

LEMMA HeldFinite ==
  ASSUME NEW k
  PROVE  IsFiniteSet(TalliedOf(k)) /\ Held(k) \in Nat
<1>1. TalliedOf(k) \in SUBSET Tallied
  BY DEF TalliedOf
<1>2. IsFiniteSet(TalliedOf(k))
  BY <1>1, TalliedFinite, FS_Subset
<1> QED BY <1>2, FS_CardinalityType DEF Held

LEMMA HeldFinitePrimed ==
  ASSUME NEW k
  PROVE  Held(k)' \in Nat
<1>1. TalliedOf(k)' \in SUBSET ((Slots \X (1 .. Limit)))
  BY DEF TalliedOf, Tallied
<1>2. IsFiniteSet(Slots) /\ IsFiniteSet(1 .. Limit)
  BY SlotsFinite, FS_Interval, CoalescerAssumption
<1>3. IsFiniteSet(Slots \X (1 .. Limit))
  BY <1>2, FS_Product
<1>4. IsFiniteSet(TalliedOf(k)')
  BY <1>1, <1>3, FS_Subset
<1> QED BY <1>4, FS_CardinalityType DEF Held

LEMMA KindOfSignature ==
  ASSUME NEW i, NEW j, Signature(i) = Signature(j)
  PROVE  Kind(i) = Kind(j)
BY DEF Signature, Kind

(* A slot's pairs are of the kind of its exemplar, all of them.            *)
LEMMA HeldOfSlot ==
  ASSUME SlotsTyped, NEW s \in Slots
  PROVE  /\ slots[s].count \in Nat
         /\ {s} \X (1 .. slots[s].count) \subseteq TalliedOf(Kind(slots[s].exemplar))
         /\ IsFiniteSet({s} \X (1 .. slots[s].count))
         /\ Cardinality({s} \X (1 .. slots[s].count)) = slots[s].count
         /\ slots[s].count <= Held(Kind(slots[s].exemplar))
<1>1. /\ {s} \X (1 .. slots[s].count) \subseteq Tallied
      /\ IsFiniteSet({s} \X (1 .. slots[s].count))
      /\ Cardinality({s} \X (1 .. slots[s].count)) = slots[s].count
      /\ slots[s].count \in Nat
  BY TallyOfSlot
<1>2. {s} \X (1 .. slots[s].count) \in SUBSET TalliedOf(Kind(slots[s].exemplar))
  BY <1>1 DEF TalliedOf
<1>3. Cardinality({s} \X (1 .. slots[s].count)) <= Held(Kind(slots[s].exemplar))
  BY <1>2, HeldFinite, FS_Subset DEF Held
<1> QED BY <1>1, <1>2, <1>3

(* One record more of its kind, unless a counter of that kind is full.     *)
LEMMA HeldAdd ==
  ASSUME SlotsTyped, NEW i \in Incidents, Merge(i) \/ Open(i)
  PROVE  /\ SlotsTyped'
         /\ \A k : k # Kind(i) => Held(k)' = Held(k)
         /\ \/ Held(Kind(i))' = Held(Kind(i)) + 1
            \/ Held(Kind(i))' = Held(Kind(i)) /\ Held(Kind(i)) >= Limit
<1>1. ASSUME NEW m \in Slots, NEW n,
             \A s \in Slots : s = m \/ slots'[s].exemplar = slots[s].exemplar,
             \A p \in Tallied : slots'[p[1]].exemplar = slots[p[1]].exemplar,
             Kind(slots'[m].exemplar) = Kind(i),
             Tallied' = Tallied \cup {<<m, n>>}, <<m, n>> \notin Tallied
      PROVE  /\ \A k : k # Kind(i) => Held(k)' = Held(k)
             /\ Held(Kind(i))' = Held(Kind(i)) + 1
  <2>1. \A p \in Tallied : Kind(slots'[p[1]].exemplar) = Kind(slots[p[1]].exemplar)
    BY <1>1 DEF Kind
  <2>2. \A k : k # Kind(i) => TalliedOf(k)' = TalliedOf(k)
    BY <1>1, <2>1 DEF TalliedOf
  <2>3. TalliedOf(Kind(i))' = TalliedOf(Kind(i)) \cup {<<m, n>>}
    BY <1>1, <2>1 DEF TalliedOf
  <2>4. <<m, n>> \notin TalliedOf(Kind(i))
    BY <1>1 DEF TalliedOf
  <2>5. Held(Kind(i))' = Held(Kind(i)) + 1
    BY <2>3, <2>4, HeldFinite, FS_AddElement DEF Held
  <2> QED BY <2>2, <2>5 DEF Held
<1>2. CASE Merge(i)
  <2>1. SlotsTyped' /\ \A s \in Slots : slots'[s].exemplar = slots[s].exemplar
    BY <1>2, TalliedMerge
  <2>2. PICK m \in Used :
          /\ Signature(slots[m].exemplar) = Signature(i)
          /\ \/ slots[m].count = Limit /\ Tallied' = Tallied
             \/ /\ Tallied' = Tallied \cup {<<m, slots[m].count + 1>>}
                /\ <<m, slots[m].count + 1>> \notin Tallied
    BY <1>2, TalliedMerge
  <2>3. m \in Slots /\ Kind(slots[m].exemplar) = Kind(i) /\ Kind(slots'[m].exemplar) = Kind(i)
    BY <2>1, <2>2, KindOfSignature, UsedFinite
  <2>4. \A p \in Tallied : p[1] \in Slots /\ slots'[p[1]].exemplar = slots[p[1]].exemplar
    BY <2>1 DEF Tallied
  <2>5. CASE slots[m].count = Limit /\ Tallied' = Tallied
    <3>1. \A k : TalliedOf(k)' = TalliedOf(k)
      BY <2>4, <2>5 DEF TalliedOf
    <3>2. Held(Kind(i)) >= Limit
      BY <2>3, <2>5, HeldOfSlot, HeldFinite, CoalescerAssumption
    <3> QED BY <2>1, <3>1, <3>2 DEF Held
  <2>6. CASE /\ Tallied' = Tallied \cup {<<m, slots[m].count + 1>>}
             /\ <<m, slots[m].count + 1>> \notin Tallied
    BY <1>1, <2>1, <2>3, <2>4, <2>6
  <2> QED BY <2>2, <2>5, <2>6
<1>3. CASE Open(i)
  <2>1. SlotsTyped'
    BY <1>3, TalliedOpen
  <2>2. PICK f \in Slots :
          /\ slots'[f].exemplar = i /\ \A s \in Slots : s # f => slots'[s] = slots[s]
          /\ Tallied' = Tallied \cup {<<f, 1>>}
          /\ \A n : <<f, n>> \notin Tallied
    BY <1>3, TalliedOpen
  <2>3. \A p \in Tallied : slots'[p[1]].exemplar = slots[p[1]].exemplar
    <3>1. \A p \in Tallied : p[1] \in Slots /\ p = <<p[1], p[2]>>
      BY DEF Tallied
    <3> QED BY <2>2, <3>1
  <2> QED BY <1>1, <2>1, <2>2, <2>3
<1> QED BY <1>2, <1>3

(* A pop takes the records it reports out of their kind.                   *)
LEMMA HeldPop ==
  ASSUME SlotsTyped, TryPop, NEW popped, popped = slots[FirstOf(Used)]
  PROVE  /\ SlotsTyped' /\ popped.count \in Nat /\ Kind(popped.exemplar) \in Kinds
         /\ \A k : k # Kind(popped.exemplar) => Held(k)' = Held(k)
         /\ Held(Kind(popped.exemplar))' + popped.count = Held(Kind(popped.exemplar))
<1> DEFINE u == FirstOf(Used)
           k0 == Kind(popped.exemplar)
           out == {u} \X (1 .. popped.count)
<1>1. /\ SlotsTyped' /\ u \in Used /\ Tallied' = Tallied \ out
      /\ \A s \in Slots : s # u => slots'[s] = slots[s]
  BY TalliedPop, Zenon
<1>2. u \in Slots /\ popped = slots[u]
  BY <1>1, UsedFinite
<1>3. k0 \in Kinds
  <2>1. popped \in [exemplar : Incidents, count : 1 .. Limit, used : {TRUE}]
    BY <1>1, <1>2, SlotShape DEF Used
  <2> QED BY <2>1 DEF Kinds
<1> HIDE DEF u
<1>4. /\ popped.count \in Nat /\ out \subseteq TalliedOf(k0)
      /\ IsFiniteSet(out) /\ Cardinality(out) = popped.count
  BY <1>2, HeldOfSlot
<1>5. \A p \in Tallied' : /\ p \in Tallied /\ p \notin out /\ p[1] # u
                         /\ slots'[p[1]].exemplar = slots[p[1]].exemplar
  <2>1. SUFFICES ASSUME NEW p \in Tallied \ out
                 PROVE  p[1] # u /\ p[1] \in Slots
    BY <1>1
  <2>2. /\ p = <<p[1], p[2]>> /\ p[1] \in Slots /\ p[2] \in 1 .. Limit
        /\ p[2] <= slots[p[1]].count
    BY <2>1 DEF Tallied
  <2>3. ASSUME p[1] = u PROVE FALSE
    <3>1. p[2] \in 1 .. popped.count
      BY <1>2, <1>4, <2>2, <2>3, CoalescerAssumption
    <3> QED BY <2>1, <2>2, <2>3, <3>1
  <2> QED BY <2>2, <2>3
<1>6. \A p \in out : p \in TalliedOf(k0)
  BY <1>4
<1> HIDE DEF out, k0
<1>7. \A k : k # k0 => TalliedOf(k)' = TalliedOf(k)
  <2>1. SUFFICES ASSUME NEW k, k # k0 PROVE TalliedOf(k)' = TalliedOf(k)
    OBVIOUS
  <2>2. \A p \in TalliedOf(k) : p \in Tallied /\ p \notin out
    BY <1>6, <2>1 DEF TalliedOf
  <2> QED BY <1>1, <1>5, <2>2 DEF TalliedOf
<1>8. TalliedOf(k0)' = TalliedOf(k0) \ out
  BY <1>1, <1>5 DEF TalliedOf
<1>9. Held(k0)' + popped.count = Held(k0)
  <2>1. TalliedOf(k0) \cap out = out
    BY <1>4
  <2>2. Cardinality(TalliedOf(k0) \ out)
          = Cardinality(TalliedOf(k0)) - Cardinality(TalliedOf(k0) \cap out)
    BY HeldFinite, FS_Difference
  <2>3. Cardinality(TalliedOf(k0) \ out) + popped.count = Cardinality(TalliedOf(k0))
    <3>1. IsFiniteSet(TalliedOf(k0) \ out) /\ Cardinality(TalliedOf(k0)) \in Nat
      BY HeldFinite, FS_Subset DEF Held
    <3>2. Cardinality(TalliedOf(k0) \ out) \in Nat
      BY <3>1, FS_CardinalityType
    <3>3. Cardinality(TalliedOf(k0) \cap out) = popped.count
      BY <1>4, <2>1
    <3> QED BY <1>4, <2>2, <3>1, <3>2, <3>3
  <2> QED BY <1>8, <2>3 DEF Held
<1> QED BY <1>1, <1>3, <1>4, <1>7, <1>9 DEF Held, k0

LEMMA LedgerInit == ASSUME EmptyTable, EmptyLedger PROVE LedgerInv
<1>1. SlotsTyped /\ Used = {}
  BY DEF EmptyTable, SlotsTyped, SlotType, Used, Unused
<1>2. Tallied = {}
  BY <1>1, TallyEmpty
<1>3. \A k : Held(k) = 0
  <2>1. \A k : TalliedOf(k) = {}
    BY <1>2 DEF TalliedOf
  <2> QED BY <2>1, FS_EmptySet DEF Held
<1>4. /\ tracked = [k \in Kinds |-> 0] /\ delivered = [k \in Kinds |-> 0]
      /\ refusals = 0 /\ untracked = 0
  BY DEF EmptyTable, EmptyLedger
<1>5. ReportsAddUp
  BY <1>3, <1>4, CoalescerAssumption DEF ReportsAddUp
<1> QED BY <1>1, <1>4, <1>5 DEF LedgerInv

LEMMA LedgerResets == ASSUME LedgerReset PROVE LedgerInv'
<1>1. SlotsTyped' /\ Tallied' = {}
  BY TallyReset DEF LedgerReset
<1>2. \A k : Held(k)' = 0
  <2>1. \A k : TalliedOf(k)' = {}
    BY <1>1 DEF TalliedOf
  <2> QED BY <2>1, FS_EmptySet DEF Held
<1>3. /\ tracked' = [k \in Kinds |-> 0] /\ delivered' = [k \in Kinds |-> 0]
      /\ refusals' = 0 /\ untracked' = 0
  BY DEF LedgerReset, Reset
<1>4. ReportsAddUp'
  BY <1>2, <1>3, CoalescerAssumption DEF ReportsAddUp
<1> QED BY <1>1, <1>3, <1>4 DEF LedgerInv

LEMMA LedgerAdds ==
  ASSUME LedgerInv, NEW i \in Incidents, LedgerAdd(i)
  PROVE  LedgerInv'
<1>1. CASE GiveUp(i) /\ refusals' = refusals + 1 /\ UNCHANGED <<tracked, delivered>>
  <2>1. UNCHANGED slots /\ untracked' = SaturatingIncrement(untracked)
    BY <1>1 DEF GiveUp
  <2>2. \A k : Held(k)' = Held(k)
    BY <2>1 DEF Held, TalliedOf, Tallied
  <2>3. /\ refusals \in Nat /\ untracked = IF refusals < Limit THEN refusals ELSE Limit
        /\ Limit \in Nat \ {0}
    BY CoalescerAssumption DEF LedgerInv, ReportsAddUp
  <2>4. /\ refusals + 1 \in Nat /\ SaturatingIncrement(untracked) \in Nat
        /\ SaturatingIncrement(untracked)
             = IF refusals + 1 < Limit THEN refusals + 1 ELSE Limit
    BY <2>3 DEF SaturatingIncrement
  <2>5. ReportsAddUp'
    BY <1>1, <2>1, <2>2, <2>4 DEF LedgerInv, ReportsAddUp
  <2> QED BY <1>1, <2>1, <2>4, <2>5 DEF LedgerInv, SlotsTyped
<1>2. CASE /\ Merge(i) \/ Open(i)
           /\ tracked' = [tracked EXCEPT ![Kind(i)] = @ + 1]
           /\ UNCHANGED <<refusals, delivered>>
  <2> DEFINE k0 == Kind(i)
  <2>1. k0 \in Kinds /\ untracked' = untracked
    BY <1>2 DEF Kinds, Merge, Open
  <2>2. /\ SlotsTyped' /\ \A k : k # k0 => Held(k)' = Held(k)
        /\ Held(k0)' = Held(k0) + 1 \/ (Held(k0)' = Held(k0) /\ Held(k0) >= Limit)
    BY <1>2, HeldAdd DEF LedgerInv
  <2> HIDE DEF k0
  <2>3. PICK h : h = Held(k0)'
    OBVIOUS
  <2>4. /\ tracked' = [tracked EXCEPT ![k0] = tracked[k0] + 1]
        /\ tracked \in [Kinds -> Nat] /\ delivered \in [Kinds -> Nat]
    BY <1>2 DEF LedgerInv, k0
  <2>5. /\ delivered[k0] \in Nat /\ tracked[k0] \in Nat /\ Held(k0) \in Nat /\ h \in Nat
        /\ delivered[k0] + Held(k0) <= tracked[k0]
        /\ tracked[k0] <= Limit => delivered[k0] + Held(k0) = tracked[k0]
        /\ h = Held(k0) + 1 \/ (h = Held(k0) /\ Held(k0) >= Limit)
    <3>1. Held(k0) \in Nat
      BY HeldFinite
    <3>2. h = Held(k0) + 1 \/ (h = Held(k0) /\ Held(k0) >= Limit)
      BY <2>2, <2>3
    <3> QED BY <2>1, <2>4, <3>1, <3>2 DEF LedgerInv, ReportsAddUp
  <2>6. /\ delivered[k0] + h <= tracked[k0] + 1
        /\ tracked[k0] + 1 <= Limit => delivered[k0] + h = tracked[k0] + 1
    <3>1. PICK d \in Nat, n \in Nat, g \in Nat : d = delivered[k0] /\ n = tracked[k0] /\ g = Held(k0)
      BY <2>5
    <3>2. d + h <= n + 1 /\ (n + 1 <= Limit => d + h = n + 1)
      BY <2>5, <3>1, CoalescerAssumption
    <3> QED BY <3>1, <3>2
  <2>7. /\ tracked' \in [Kinds -> Nat] /\ tracked'[k0] = tracked[k0] + 1
        /\ \A k \in Kinds : k # k0 => tracked'[k] = tracked[k]
    BY <2>1, <2>4, <2>5
  <2>8. ASSUME NEW k \in Kinds
        PROVE  /\ delivered'[k] + Held(k)' <= tracked'[k]
               /\ tracked'[k] <= Limit => delivered'[k] + Held(k)' = tracked'[k]
    <3>1. CASE k = k0
      BY <1>2, <2>3, <2>6, <2>7, <3>1
    <3>2. CASE k # k0
      BY <1>2, <2>2, <2>7, <3>2 DEF LedgerInv, ReportsAddUp
    <3> QED BY <3>1, <3>2
  <2>9. ReportsAddUp'
    BY <1>2, <2>1, <2>8 DEF LedgerInv, ReportsAddUp
  <2> QED BY <1>2, <2>1, <2>2, <2>7, <2>9 DEF LedgerInv
<1> QED BY <1>1, <1>2 DEF LedgerAdd

LEMMA LedgerPops ==
  ASSUME LedgerInv, LedgerPop
  PROVE  LedgerInv'
<1>1. PICK popped : popped = slots[FirstOf(Used)]
  OBVIOUS
<1> DEFINE k0 == Kind(popped.exemplar)
           c == popped.count
<1>2. /\ TryPop /\ delivered' = [delivered EXCEPT ![k0] = delivered[k0] + c]
      /\ UNCHANGED <<tracked, refusals, untracked>>
  BY <1>1 DEF LedgerPop, TryPop
<1>3. /\ SlotsTyped' /\ c \in Nat /\ k0 \in Kinds
      /\ \A k : k # k0 => Held(k)' = Held(k)
      /\ Held(k0)' + c = Held(k0)
  BY <1>1, <1>2, HeldPop DEF LedgerInv
<1> HIDE DEF k0, c
<1>4. PICK h : h = Held(k0)'
  OBVIOUS
<1>5. /\ tracked \in [Kinds -> Nat] /\ delivered \in [Kinds -> Nat]
      /\ tracked[k0] \in Nat /\ delivered[k0] \in Nat
  BY <1>3 DEF LedgerInv
<1>6. h \in Nat /\ h + c = Held(k0)
  <2>1. Held(k0)' \in Nat
    BY HeldFinitePrimed
  <2> QED BY <1>3, <1>4, <2>1
<1>7. (delivered[k0] + c) + h = delivered[k0] + Held(k0)
  BY <1>3, <1>5, <1>6
<1>8. /\ delivered' \in [Kinds -> Nat] /\ delivered'[k0] = delivered[k0] + c
      /\ \A k \in Kinds : k # k0 => delivered'[k] = delivered[k]
  BY <1>2, <1>3, <1>5
<1>9. ASSUME NEW k \in Kinds
      PROVE  delivered'[k] + Held(k)' = delivered[k] + Held(k)
  BY <1>3, <1>4, <1>7, <1>8
<1>10. ReportsAddUp'
  BY <1>2, <1>9 DEF LedgerInv, ReportsAddUp
<1> QED BY <1>2, <1>3, <1>8, <1>10 DEF LedgerInv

LEMMA LedgerStep == ASSUME LedgerInv, [LedgerNext]_<<table, ledger>> PROVE LedgerInv'
<1>1. CASE UNCHANGED <<table, ledger>>
  BY <1>1 DEF table, ledger, LedgerInv, SlotsTyped, ReportsAddUp, Held, TalliedOf, Tallied
<1> QED BY <1>1, LedgerAdds, LedgerPops, LedgerResets DEF LedgerNext

(* What a drain's lines say adds up, for every kind of incident, any       *)
(* number of slots and any limit: no record is reported under another kind *)
(* or twice, and none is missing while its kind stays below the limit      *)
(* (IncidentCoalescer.h:41-84).                                            *)
THEOREM LedgerBalances == LedgerSpec => []ReportsAddUp
<1>1. LedgerInv => ReportsAddUp
  BY DEF LedgerInv
<1>2. EmptyTable /\ EmptyLedger => LedgerInv
  BY LedgerInit
<1>3. LedgerInv /\ [LedgerNext]_<<table, ledger>> => LedgerInv'
  BY LedgerStep
<1> QED BY <1>1, <1>2, <1>3, PTL DEF LedgerSpec

(* No add takes records out of a slot; saturation keeps a counter where it *)
(* is (IncidentCoalescer.h:41-62).                                         *)
THEOREM CountersOnlyGrow == TableSpec => CountsNeverShrink
<1>1. TableInv /\ [TableNext]_table =>
        [\A s \in Used : slots'[s].used => slots'[s].count >= slots[s].count]_slots
  <2>1. SUFFICES ASSUME TableInv, TableNext, NEW s \in Used, slots'[s].used
                 PROVE  slots'[s].count >= slots[s].count
    BY DEF table
  <2>2. s \in Slots /\ slots[s].count \in 1 .. Limit /\ slots \in [Slots -> SlotType]
    <3>1. slots \in [Slots -> SlotType]
      BY <2>1 DEF TableInv, TableTypeOK, SlotType
    <3> QED BY <2>1, <3>1, UsedRecord DEF TableInv
  <2>3. CASE \E i \in Incidents : Merge(i)
    <3>1. PICK i \in Incidents : Merge(i)
      BY <2>3
    <3>2. PICK m \in Slots : slots' = [slots EXCEPT ![m].count = SaturatingIncrement(slots[m].count)]
      <4>1. FirstOf(Matches(i)) \in Slots
        BY <3>1, FirstOfExists DEF Merge, Matches, Used
      <4> QED BY <3>1, <4>1 DEF Merge
    <3>3. CASE s = m
      BY <2>2, <3>2, <3>3, CoalescerAssumption DEF SaturatingIncrement
    <3>4. CASE s # m
      BY <2>2, <3>2, <3>4, CoalescerAssumption
    <3> QED BY <3>3, <3>4
  <2>4. CASE \E i \in Incidents : Open(i)
    <3>1. PICK i \in Incidents : Open(i)
      BY <2>4
    <3>2. FirstOf(Free) \notin Used
      <4>1. FirstOf(Free) \in Free
        BY <3>1, FirstOfExists DEF Open, Free
      <4> QED BY <4>1 DEF Free
    <3>3. slots'[s] = slots[s]
      BY <2>2, <2>1, <3>1, <3>2 DEF Open
    <3> QED BY <2>2, <3>3, CoalescerAssumption
  <2>5. CASE UNCHANGED slots
    BY <2>2, <2>5, CoalescerAssumption
  <2>6. CASE TryPop
    <3>1. PICK u : slots' = [slots EXCEPT ![u] = Unused]
      BY <2>6 DEF TryPop
    <3>2. slots'[s] = Unused \/ slots'[s] = slots[s]
      BY <2>2, <3>1
    <3> QED BY <2>1, <2>2, <3>2, CoalescerAssumption DEF Unused
  <2>7. CASE Reset
    BY <2>1, <2>2, <2>7 DEF Reset, Unused
  <2> QED BY <2>1, <2>3, <2>4, <2>5, <2>6, <2>7 DEF TableNext, TryAdd, GiveUp
<1> QED BY <1>1, TableInvHolds, PTL DEF TableSpec, CountsNeverShrink

-----------------------------------------------------------------------------
(* Both invariants hold under the calls the ledger records.                *)
LEMMA BothHold == LedgerSpec => [](TableInv /\ LedgerInv)
<1>1. EmptyTable /\ EmptyLedger => TableInv /\ LedgerInv
  BY TableInvInit, LedgerInit
<1>2. [LedgerNext]_<<table, ledger>> => [TableNext]_table
  BY DEF LedgerNext, LedgerAdd, LedgerPop, LedgerReset, TableNext, TryAdd
<1>3. TableInv /\ LedgerInv /\ [LedgerNext]_<<table, ledger>> => (TableInv /\ LedgerInv)'
  BY <1>2, TableInvStep, LedgerStep
<1> QED BY <1>1, <1>3, PTL DEF LedgerSpec

(* Without a free slot every slot has a signature of its own.              *)
LEMMA FullTable ==
  ASSUME OneSlotPerSignature, Free = {}
  PROVE  Cardinality(SignaturesHeld) = Capacity
<1> DEFINE sig == [s \in Slots |-> Signature(slots[s].exemplar)]
<1>1. Used = Slots
  BY DEF Free, Used
<1>2. sig \in [Slots -> SignaturesHeld]
  BY <1>1 DEF SignaturesHeld
<1>3. \A r, s \in Slots : sig[r] = sig[s] => r = s
  BY <1>1 DEF OneSlotPerSignature
<1>4. \A t \in SignaturesHeld : \E s \in Slots : sig[s] = t
  BY <1>1 DEF SignaturesHeld
<1> HIDE DEF sig
<1>5. sig \in Bijection(Slots, SignaturesHeld)
  BY <1>2, <1>3, <1>4 DEF Bijection, Injection, IsInjective, Surjection
<1>6. ExistsBijection(Slots, SignaturesHeld)
  BY <1>5 DEF ExistsBijection
<1> QED BY <1>6, SlotsFinite, FS_Bijection

(* However many calls came before, a record is refused only while the      *)
(* table holds as many different signatures as it has slots: neither a pop *)
(* nor a reset loses a slot (IncidentCoalescer.h:43-62).                   *)
THEOREM RefusalsAreDue == LedgerSpec => RefusedOnlyWhenFull
<1>1. ASSUME TableInv, LedgerInv, LedgerNext, refusals' > refusals
      PROVE  Cardinality(SignaturesHeld) = Capacity
  <2>1. refusals \in Nat
    BY <1>1 DEF LedgerInv
  <2>2. refusals' # refusals /\ ~LedgerReset
    BY <1>1, <2>1 DEF LedgerReset
  <2>3. PICK i \in Incidents : GiveUp(i)
    BY <1>1, <2>2 DEF LedgerNext, LedgerAdd, LedgerPop
  <2>4. Free = {} /\ OneSlotPerSignature
    BY <1>1, <2>3 DEF GiveUp, TableInv
  <2> QED BY <2>4, FullTable
<1>2. TableInv /\ LedgerInv /\ [LedgerNext]_<<table, ledger>> =>
        [refusals' > refusals => Cardinality(SignaturesHeld) = Capacity]_<<table, ledger>>
  BY <1>1
<1> QED BY <1>2, BothHold, PTL DEF LedgerSpec, RefusedOnlyWhenFull
=============================================================================
