------------------------ MODULE SaveLoadGuardScanProofs ------------------------
(***************************************************************************)
(* Proofs about SaveLoadGuardScan, for every contract, block and section   *)
(* size: a gap in the section is always met before a verdict is reached,   *)
(* the blocks examine every start exactly once, and what Install accepts   *)
(* is the only callsite its own comparison would have taken.               *)
(***************************************************************************)
EXTENDS SaveLoadGuardScan, FiniteSetTheorems, WellFoundedInduction, TLAPS

(* While the scan runs the gap is not behind it, and only a scan without   *)
(* a gap gets to its verdict.                                              *)
GapAhead == pc = "scanning" /\ hole < size => offset <= hole
NoVerdict ==
  hole # size => /\ pc \in {"scanning", "done"}
                 /\ result = NoResult
                 /\ accepted = FALSE

GapInv ==
  /\ size \in Nat /\ hole \in 0 .. size /\ offset \in Nat
  /\ GapAhead /\ NoVerdict

LEMMA GapInit == ASSUME Init PROVE GapInv
  BY ScanAssumption DEF Init, GapInv, GapAhead, NoVerdict

LEMMA GapStep == ASSUME GapInv, [Next]_vars PROVE GapInv'
<1>1. CASE SectionRejected
  BY <1>1 DEF SectionRejected, section, GapInv, GapAhead, NoVerdict
<1>2. CASE BlockUnreadable
  BY <1>2 DEF BlockUnreadable, section, GapInv, GapAhead, NoVerdict
<1>3. CASE ScanBlock
  <2>1. /\ pc = "scanning" /\ size >= ContractSize
        /\ size' = size /\ hole' = hole /\ result' = result /\ accepted' = accepted
    BY <1>3 DEF ScanBlock, section, Scannable
  <2>2. Wanted \in Int /\ ContractSize \in Nat /\ ContractSize < BlockSize /\ BlockSize \in Nat
    BY ScanAssumption DEF GapInv, Wanted, Least
  <2>3. hole < size => hole >= offset + Wanted
    BY <1>3, <2>1, <2>2 DEF ScanBlock, Covers, GapInv, GapAhead
  <2>4. CASE offset + Wanted >= size \/ size < offset + Step + ContractSize
    <3>1. hole = size
      BY <2>2, <2>3, <2>4 DEF GapInv, Step
    <3>2. pc' = "deciding" /\ offset' = offset
      BY <1>3, <2>4 DEF ScanBlock
    <3> QED BY <2>1, <3>1, <3>2 DEF GapInv, GapAhead, NoVerdict
  <2>5. CASE ~(offset + Wanted >= size \/ size < offset + Step + ContractSize)
    <3>1. pc' = pc /\ offset' = offset + Step
      BY <1>3, <2>5 DEF ScanBlock
    <3>2. Wanted = BlockSize
      BY <2>2, <2>5 DEF Wanted, Least, GapInv
    <3>3. offset' \in Nat /\ (hole < size => offset' <= hole)
      BY <2>2, <2>3, <3>1, <3>2, ScanAssumption DEF Step, GapInv
    <3> QED BY <2>1, <3>1, <3>3 DEF GapInv, GapAhead, NoVerdict
  <2> QED BY <2>4, <2>5
<1>4. CASE Decide
  BY <1>4 DEF Decide, section, GapInv, GapAhead, NoVerdict
<1>5. CASE Match
  BY <1>5 DEF Match, section, GapInv, GapAhead, NoVerdict
<1>6. CASE UNCHANGED vars
  BY <1>6 DEF vars, section, counts, GapInv, GapAhead, NoVerdict
<1> QED BY <1>1, <1>2, <1>3, <1>4, <1>5, <1>6 DEF Next

(* A section that cannot be read to its end never yields a callsite:       *)
(* blocks leave no byte out, whatever the sizes (SaveLoadGuardScan.cpp:    *)
(* 171-221, "partial scans fail closed").                                  *)
THEOREM GapsAreMet == Spec => []PartialFailsClosed
<1>1. Init => GapInv
  BY GapInit
<1>2. GapInv /\ [Next]_vars => GapInv'
  BY GapStep
<1>3. GapInv => PartialFailsClosed
  BY DEF GapInv, NoVerdict, PartialFailsClosed
<1> QED BY <1>1, <1>2, <1>3, PTL DEF Spec
-----------------------------------------------------------------------------
(* The starts behind the scan, which has counted them.  A relaxed shape    *)
(* that Install would accept lies within ContractSize bytes, so it is seen *)
(* whatever the block still holds after it.                                *)

Examined == IF pc = "scanning" THEN offset ELSE size - ContractSize + 1
SeenExact == {p \in exactAt : p < Examined}
SureRelaxed ==
  {p \in DOMAIN relaxedAt : p < Examined /\ relaxedAt[p] + 2 < ContractSize}

Sites == (0 .. size) \cup {NoSite}

ScanTypes ==
  /\ size \in Nat /\ offset \in 0 .. size /\ hole \in 0 .. size
  /\ offset = 0 \/ offset + ContractSize <= size
  /\ exactAt \subseteq 0 .. size /\ DOMAIN relaxedAt \subseteq 0 .. size
  /\ \A p \in DOMAIN relaxedAt : relaxedAt[p] \in Int
  /\ exactCount \in 0 .. CountLimit /\ relaxedCount \in 0 .. CountLimit
  /\ exactCallsite \in Sites /\ relaxedCallsite \in Sites
  /\ result.callsite \in Sites /\ result.exact \in BOOLEAN /\ accepted \in BOOLEAN
  /\ pc \in {"scanning", "deciding", "matching", "done"}

Whole == Scannable /\ hole = size

Seen ==
  pc = "scanning" \/ Whole =>
    /\ exactCount = Least(Cardinality(SeenExact), CountLimit)
    /\ IF SeenExact = {} THEN exactCallsite = NoSite ELSE exactCallsite \in SeenExact
    /\ relaxedCount = 0 => relaxedCallsite = NoSite
    /\ relaxedCount # 0 => allowRelaxedSignatures
    /\ relaxedCount = 0 /\ allowRelaxedSignatures => SureRelaxed = {}
    /\ relaxedCount = 1 => SureRelaxed \subseteq {relaxedCallsite}

Verdict ==
  /\ pc \in {"deciding", "matching"} => Whole
  /\ pc \in {"scanning", "deciding"} => result = NoResult
  /\ accepted => pc = "done" /\ result.callsite # NoSite
  /\ result.callsite # NoSite =>
       /\ Whole
       /\ result.exact  => exactCount = 1 /\ result.callsite = exactCallsite
       /\ ~result.exact => /\ exactCount = 0 /\ relaxedCount = 1
                           /\ result.callsite = relaxedCallsite

ScanInv == GapInv /\ ScanTypes /\ Seen /\ Verdict

LEMMA FirstOfExists ==
  ASSUME NEW S \in SUBSET Nat, S # {}
  PROVE  FirstOf(S) \in S
<1>1. PICK R : R = {mn \in Nat \X Nat : mn[1] < mn[2]}
  OBVIOUS
<1>2. IsWellFoundedOn(R, Nat)
  BY <1>1, NatLessThanWellFounded DEF OpToRel
<1>3. PICK s \in S : \A r \in S : ~ (<<r, s>> \in R)
  BY <1>2, WFMin, Zenon
<1>4. \A r \in S : s <= r
  <2>1. \A r \in S : r < s => <<r, s>> \in R
    BY <1>1
  <2>2. \A r \in S : ~(r < s)
    BY <1>3, <2>1
  <2> QED BY <2>2
<1> QED BY <1>4 DEF FirstOf

LEMMA ScanInit == ASSUME Init PROVE ScanInv
<1> USE ScanAssumption DEF Init
<1>1. GapInv
  BY GapInit
<1>2. ScanTypes
  <2>1. /\ size \in Nat /\ hole \in 0 .. size /\ offset = 0
        /\ exactCount = 0 /\ relaxedCount = 0
        /\ exactCallsite = NoSite /\ relaxedCallsite = NoSite
        /\ result = NoResult /\ accepted = FALSE /\ pc = "scanning"
    OBVIOUS
  <2>2. PICK sites \in SUBSET (0 .. size - 1) :
          exactAt \subseteq sites /\ relaxedAt \in [sites \ exactAt -> Calls]
    OBVIOUS
  <2>3. exactAt \subseteq 0 .. size /\ DOMAIN relaxedAt \subseteq 0 .. size
    BY <2>1, <2>2
  <2>4. \A p \in DOMAIN relaxedAt : relaxedAt[p] \in Int
    <3> HIDE DEF Init
    <3>1. Calls \subseteq Int
      OBVIOUS
    <3> QED BY <2>2, <3>1
  <2>5. result.callsite = NoSite /\ result.exact = FALSE
    BY <2>1 DEF NoResult
  <2>6. /\ 0 \in 0 .. size /\ 0 \in 0 .. CountLimit /\ NoSite \in Sites
    BY <2>1 DEF Sites
  <2> HIDE DEF Init
  <2> QED BY <2>1, <2>3, <2>4, <2>5, <2>6, Zenon DEF ScanTypes
<1>3. SeenExact = {} /\ SureRelaxed = {}
  <2>1. Examined = 0 /\ \A p \in exactAt \cup DOMAIN relaxedAt : ~(p < 0)
    BY <1>2 DEF Examined, ScanTypes
  <2> HIDE DEF Init
  <2> QED BY <2>1 DEF SeenExact, SureRelaxed
<1>4. Cardinality({}) = 0
  BY FS_EmptySet
<1>5. Seen
  BY <1>3, <1>4 DEF Seen, Least
<1>6. Verdict
  BY DEF Verdict, NoResult
<1> QED BY <1>1, <1>2, <1>5, <1>6 DEF ScanInv

(* What a block adds to the starts examined.                               *)
LEMMA BlockExamined ==
  ASSUME ScanTypes, ScanBlock
  PROVE  /\ offset' \in 0 .. size /\ (offset' = 0 \/ offset' + ContractSize <= size)
         /\ Starts \subseteq offset .. size
         /\ \A p \in Starts : offset + Wanted - p >= ContractSize
         /\ \A p \in 0 .. size : p < Examined' <=> p < offset \/ p \in Starts
<1>1. /\ size \in Nat /\ offset \in 0 .. size /\ ContractSize \in Nat \ {0}
      /\ BlockSize \in Nat /\ BlockSize > ContractSize
      /\ offset = 0 \/ offset + ContractSize <= size
  BY ScanAssumption DEF ScanTypes
<1>2. pc = "scanning" /\ size' = size /\ size >= ContractSize
  BY DEF ScanBlock, section, Scannable
<1>3. /\ Wanted \in Nat /\ Wanted <= size - offset
      /\ Wanted = size - offset \/ Wanted = BlockSize
  BY <1>1 DEF Wanted, Least
<1>4. /\ Starts \subseteq offset .. size
      /\ \A p \in Starts : offset + Wanted - p >= ContractSize
  BY <1>1, <1>3 DEF Starts
<1>5. CASE offset + Wanted >= size \/ size < offset + Step + ContractSize
  <2>1. pc' = "deciding" /\ offset' = offset
    BY <1>5 DEF ScanBlock
  <2>2. Examined' = size - ContractSize + 1
    BY <1>2, <2>1 DEF Examined
  <2>3. ASSUME NEW p \in 0 .. size, p < size - ContractSize + 1, p >= offset
        PROVE  p + ContractSize <= offset + Wanted
    BY <1>1, <1>3, <1>5, <2>3 DEF Step
  <2>4. ASSUME NEW p \in Starts PROVE p < size - ContractSize + 1
    BY <1>1, <1>3, <2>4 DEF Starts
  <2>5. ASSUME NEW p \in 0 .. size, p < offset PROVE p < size - ContractSize + 1 \/ p \in Starts
    BY <1>1, <1>3, <2>5 DEF Starts
  <2> QED BY <1>1, <1>4, <2>1, <2>2, <2>3, <2>4, <2>5 DEF Starts
<1>6. CASE ~(offset + Wanted >= size \/ size < offset + Step + ContractSize)
  <2>1. pc' = pc /\ offset' = offset + Step
    BY <1>6 DEF ScanBlock
  <2>2. Examined' = offset + Step
    BY <1>2, <2>1 DEF Examined
  <2>3. Wanted = BlockSize
    BY <1>1, <1>3, <1>6
  <2> QED BY <1>1, <1>4, <1>6, <2>1, <2>2, <2>3 DEF Starts, Step
<1> QED BY <1>5, <1>6

LEMMA ScanBlockStep == ASSUME ScanInv, ScanBlock PROVE ScanTypes' /\ Seen'
<1> DEFINE found == Starts \cap exactAt
           shapes == Relaxed(Starts)
<1>1. /\ size \in Nat /\ hole \in 0 .. size /\ exactAt \subseteq 0 .. size
      /\ DOMAIN relaxedAt \subseteq 0 .. size /\ \A p \in DOMAIN relaxedAt : relaxedAt[p] \in Int
      /\ exactCount \in Nat /\ relaxedCount \in Nat /\ ContractSize \in Nat
      /\ CountLimit \in Nat /\ CountLimit >= 2 /\ offset \in Nat /\ pc = "scanning"
  BY ScanAssumption DEF ScanInv, ScanTypes, ScanBlock
<1>2. /\ UNCHANGED <<size, exactAt, relaxedAt, hole, allowRelaxedSignatures, result, accepted>>
      /\ exactCount'      = Least(exactCount + Cardinality(found), CountLimit)
      /\ exactCallsite'   = First(exactCallsite, found)
      /\ relaxedCount'    = Least(relaxedCount + Cardinality(shapes), CountLimit)
      /\ relaxedCallsite' = First(relaxedCallsite, shapes)
      /\ pc' \in {"scanning", "deciding"}
  BY <1>1 DEF ScanBlock, section, Counted
<1>3. /\ offset' \in 0 .. size /\ (offset' = 0 \/ offset' + ContractSize <= size)
      /\ Starts \subseteq offset .. size
      /\ \A p \in Starts : offset + Wanted - p >= ContractSize
      /\ \A p \in 0 .. size : p < Examined' <=> p < offset \/ p \in Starts
  BY BlockExamined DEF ScanInv
<1>4. Examined = offset
  BY <1>1 DEF Examined
<1>5. found \subseteq 0 .. size /\ shapes \subseteq 0 .. size
  <2>1. Starts \subseteq 0 .. size
    BY <1>1, <1>3
  <2> QED BY <2>1 DEF Relaxed
<1>6. /\ IsFiniteSet(found) /\ IsFiniteSet(shapes)
      /\ Cardinality(found) \in Nat /\ Cardinality(shapes) \in Nat
  <2>1. IsFiniteSet(0 .. size)
    BY <1>1, FS_Interval
  <2> QED BY <1>5, <2>1, FS_Subset, FS_CardinalityType
<1>7. /\ found # {} => FirstOf(found) \in found
      /\ shapes # {} => FirstOf(shapes) \in shapes
  <2>1. found \subseteq Nat /\ shapes \subseteq Nat
    BY <1>1, <1>5
  <2> HIDE DEF found, shapes
  <2> QED BY <2>1, FirstOfExists
<1>8. SeenExact' = SeenExact \cup found /\ SeenExact \cap found = {}
  <2>1. \A p \in exactAt : p < Examined' <=> p < Examined \/ p \in Starts
    BY <1>1, <1>3, <1>4
  <2>2. \A p \in Starts : ~(p < Examined)
    BY <1>1, <1>3, <1>4
  <2>3. SeenExact' = {p \in exactAt : p < Examined'}
    BY <1>2 DEF SeenExact
  <2> QED BY <2>1, <2>2, <2>3 DEF SeenExact
<1>9. SureRelaxed' \subseteq
        SureRelaxed \cup {p \in Starts : p \in DOMAIN relaxedAt /\ relaxedAt[p] + 2 < ContractSize}
  BY <1>1, <1>2, <1>3, <1>4 DEF SureRelaxed
<1>10. allowRelaxedSignatures => SureRelaxed' \subseteq SureRelaxed \cup shapes
  <2>1. ASSUME NEW p \in Starts, p \in DOMAIN relaxedAt, relaxedAt[p] + 2 < ContractSize
        PROVE  relaxedAt[p] + 2 < offset + Wanted - p
    <3>1. Wanted \in Int /\ p \in Int
      BY <1>1, <1>3, ScanAssumption DEF Wanted, Least
    <3> QED BY <1>1, <1>3, <2>1, <3>1
  <2> QED BY <1>9, <2>1 DEF Relaxed, IsRelaxedWarningShape
<1>11. shapes # {} => allowRelaxedSignatures
  BY DEF Relaxed
<1> HIDE DEF found, shapes
<1>12. exactCount' = Least(Cardinality(SeenExact'), CountLimit)
  <2>1. IsFiniteSet(SeenExact)
    <3>1. IsFiniteSet(0 .. size)
      BY <1>1, FS_Interval
    <3>2. SeenExact \in SUBSET (0 .. size)
      BY <1>1 DEF SeenExact
    <3> QED BY <3>1, <3>2, FS_Subset
  <2>2. Cardinality(SeenExact) \in Nat
    BY <2>1, FS_CardinalityType
  <2>3. Cardinality(SeenExact') = Cardinality(SeenExact) + Cardinality(found)
    <3>1. /\ Cardinality(SeenExact \cup found)
               = Cardinality(SeenExact) + Cardinality(found) - Cardinality(SeenExact \cap found)
          /\ Cardinality(SeenExact \cap found) = 0
      BY <1>6, <1>8, <2>1, FS_Union, FS_EmptySet
    <3> QED BY <1>6, <1>8, <2>2, <3>1
  <2>4. exactCount = Least(Cardinality(SeenExact), CountLimit)
    BY <1>1 DEF ScanInv, Seen
  <2> QED BY <1>1, <1>2, <1>6, <2>2, <2>3, <2>4 DEF Least
<1>13. IF SeenExact' = {} THEN exactCallsite' = NoSite ELSE exactCallsite' \in SeenExact'
  <2>1. IF SeenExact = {} THEN exactCallsite = NoSite ELSE exactCallsite \in SeenExact
    BY <1>1 DEF ScanInv, Seen
  <2>2. CASE exactCallsite = NoSite /\ found # {}
    BY <1>2, <1>7, <1>8, <2>2 DEF First
  <2>3. CASE ~(exactCallsite = NoSite /\ found # {})
    <3>1. exactCallsite' = exactCallsite
      BY <1>2, <2>3 DEF First
    <3>2. CASE SeenExact # {}
      BY <1>8, <2>1, <3>1, <3>2
    <3>3. CASE SeenExact = {}
      BY <1>8, <2>1, <2>3, <3>1, <3>3
    <3> QED BY <3>2, <3>3
  <2> QED BY <2>2, <2>3
<1>14. Cardinality(shapes) = 0 <=> shapes = {}
  BY <1>6, FS_EmptySet
<1>15. relaxedCount' = 0 => relaxedCount = 0 /\ shapes = {}
  BY <1>1, <1>2, <1>6, <1>14 DEF Least
<1>16. relaxedCount' = 1 => \/ relaxedCount = 1 /\ shapes = {}
                            \/ relaxedCount = 0 /\ Cardinality(shapes) = 1
  BY <1>1, <1>2, <1>6, <1>14 DEF Least
<1>17. relaxedCount' # 0 => relaxedCount # 0 \/ shapes # {}
  BY <1>1, <1>2, <1>14 DEF Least
<1>18. Seen'
  <2>1. relaxedCount' = 0 => relaxedCallsite' = NoSite
    BY <1>1, <1>2, <1>15 DEF First, ScanInv, Seen
  <2>2. relaxedCount' # 0 => allowRelaxedSignatures
    BY <1>1, <1>11, <1>17 DEF ScanInv, Seen
  <2>3. relaxedCount' = 0 /\ allowRelaxedSignatures => SureRelaxed' = {}
    BY <1>1, <1>10, <1>15 DEF ScanInv, Seen
  <2>4. relaxedCount' = 1 => SureRelaxed' \subseteq {relaxedCallsite'}
    <3>1. CASE relaxedCount = 1 /\ shapes = {}
      BY <1>1, <1>2, <1>10, <3>1 DEF ScanInv, Seen, First
    <3>2. CASE relaxedCount = 0 /\ Cardinality(shapes) = 1
      <4>1. PICK p : shapes = {p}
        BY <1>6, <3>2, FS_Singleton
      <4>2. relaxedCallsite' = p /\ allowRelaxedSignatures
        BY <1>1, <1>2, <1>7, <1>11, <3>2, <4>1 DEF ScanInv, Seen, First
      <4> QED BY <1>1, <1>10, <3>2, <4>1, <4>2 DEF ScanInv, Seen
    <3> QED BY <1>16, <3>1, <3>2
  <2> QED BY <1>2, <1>12, <1>13, <2>1, <2>2, <2>3, <2>4 DEF Seen
<1>19. ScanTypes'
  <2>1. exactCount' \in 0 .. CountLimit /\ relaxedCount' \in 0 .. CountLimit
    BY <1>1, <1>2, <1>6 DEF Least
  <2>2. exactCallsite' \in Sites /\ relaxedCallsite' \in Sites /\ Sites' = Sites
    BY <1>2, <1>5, <1>7 DEF First, Sites, ScanInv, ScanTypes
  <2> QED BY <1>1, <1>2, <1>3, <2>1, <2>2 DEF ScanInv, ScanTypes
<1> QED BY <1>18, <1>19

LEMMA ScanStep == ASSUME ScanInv, [Next]_vars PROVE ScanInv'
<1>1. GapInv'
  BY GapStep DEF ScanInv
<1>2. CASE SectionRejected \/ BlockUnreadable
  <2>1. /\ UNCHANGED <<section, offset, counts, result, accepted>> /\ pc = "scanning" /\ pc' = "done"
        /\ ~Whole
    <3>1. CASE SectionRejected
      BY <3>1 DEF SectionRejected, Whole
    <3>2. CASE BlockUnreadable
      <4>1. hole < size
        <5>1. Wanted <= size - offset /\ Wanted \in Int /\ offset \in Nat /\ size \in Nat
          BY ScanAssumption DEF Wanted, Least, ScanInv, ScanTypes
        <5> QED BY <3>2, <5>1 DEF BlockUnreadable, Covers
      <4>2. hole # size
        BY <4>1 DEF ScanInv, ScanTypes
      <4> QED BY <3>2, <4>2 DEF BlockUnreadable, Whole
    <3> QED BY <1>2, <3>1, <3>2
  <2> QED BY <1>1, <2>1 DEF ScanInv, ScanTypes, Sites, Seen, Verdict, Whole, Scannable, section, counts,
                            NoResult
<1>3. CASE ScanBlock
  <2>1. ScanTypes' /\ Seen'
    BY <1>3, ScanBlockStep
  <2>2. /\ UNCHANGED <<section, result, accepted>> /\ pc = "scanning" /\ pc' \in {"scanning", "deciding"}
        /\ Scannable
    BY <1>3 DEF ScanBlock
  <2>3. pc' = "deciding" => Whole'
    BY <1>1, <2>2 DEF GapInv, NoVerdict, Whole, Scannable, section
  <2>4. Verdict'
    BY <2>2, <2>3 DEF ScanInv, Verdict, NoResult
  <2> QED BY <1>1, <2>1, <2>4 DEF ScanInv
<1>4. CASE Decide
  <2>1. /\ UNCHANGED <<section, offset, counts, accepted>> /\ pc = "deciding" /\ pc' = "matching"
        /\ Whole
    BY <1>4 DEF Decide, ScanInv, Verdict
  <2>2. \/ exactCount = 1 /\ result' = [callsite |-> exactCallsite, exact |-> TRUE]
        \/ exactCount = 0 /\ relaxedCount = 1 /\ result' = [callsite |-> relaxedCallsite, exact |-> FALSE]
        \/ result' = NoResult
    BY <1>4 DEF Decide
  <2>3. Verdict'
    BY <2>1, <2>2 DEF ScanInv, Verdict, NoResult, Whole, Scannable, section, counts
  <2>4. ScanTypes'
    <3>1. result'.callsite \in {exactCallsite, relaxedCallsite, NoSite} /\ result'.exact \in BOOLEAN
      <4>1. CASE result' = [callsite |-> exactCallsite, exact |-> TRUE]
        BY <4>1
      <4>2. CASE result' = [callsite |-> relaxedCallsite, exact |-> FALSE]
        BY <4>2
      <4>3. CASE result' = NoResult
        BY <4>3 DEF NoResult
      <4> QED BY <2>2, <4>1, <4>2, <4>3
    <3>2. result'.callsite \in Sites
      BY <3>1 DEF ScanInv, ScanTypes, Sites
    <3> HIDE DEF Sites
    <3>3. Sites' = Sites
      BY <2>1 DEF Sites, section
    <3> QED BY <2>1, <3>1, <3>2, <3>3 DEF ScanInv, ScanTypes, section, counts
  <2>5. Seen'
    BY <2>1 DEF ScanInv, Seen, SeenExact, SureRelaxed, Examined, Whole, Scannable, section, counts
  <2> QED BY <1>1, <2>3, <2>4, <2>5 DEF ScanInv
<1>5. CASE Match
  <2>1. /\ UNCHANGED <<section, offset, counts, result>> /\ pc = "matching" /\ pc' = "done"
        /\ accepted' \in BOOLEAN /\ (accepted' => result.callsite # NoSite)
    BY <1>5 DEF Match
  <2>2. Verdict'
    BY <2>1 DEF ScanInv, Verdict, NoResult, Whole, Scannable, section, counts
  <2>3. ScanTypes'
    BY <2>1 DEF ScanInv, ScanTypes, Sites, section, counts
  <2>4. Seen'
    BY <2>1 DEF ScanInv, Seen, SeenExact, SureRelaxed, Examined, Whole, Scannable, section, counts
  <2> QED BY <1>1, <2>2, <2>3, <2>4 DEF ScanInv
<1>6. CASE UNCHANGED vars
  BY <1>1, <1>6 DEF ScanInv, ScanTypes, Sites, Seen, SeenExact, SureRelaxed, Examined, Verdict, Whole,
                    Scannable, NoResult, vars, section, counts
<1> QED BY <1>2, <1>3, <1>4, <1>5, <1>6 DEF Next

LEMMA ScanAlways == Spec => []ScanInv
BY ScanInit, ScanStep, PTL DEF Spec

(* The scan keeps its types: the counts saturate and the blocks stay in    *)
(* the section (SaveLoadGuardScan.cpp:171-221).                            *)
THEOREM ScanTypesHold == Spec => []ScanTypeOK
<1>1. ScanInv => ScanTypeOK
  BY DEF ScanInv, ScanTypes, Sites, ScanTypeOK
<1> QED BY <1>1, ScanAlways, PTL

(* Every start of the section is examined once: blocks of any size neither *)
(* lose a start where they meet nor count one twice                        *)
(* (SaveLoadGuardScan.cpp:171-221).                                        *)
THEOREM StartsCountedOnce == Spec => []EveryStartOnce
<1>1. ScanInv => EveryStartOnce
  <2>1. SUFFICES ASSUME ScanInv, Scanned
                 PROVE  SeenExact = {p \in exactAt : p + ContractSize <= size}
    BY DEF EveryStartOnce, ScanInv, Seen, Scanned, Whole
  <2>2. /\ Examined = size - ContractSize + 1 /\ ContractSize \in Nat
        /\ size \in Nat /\ exactAt \subseteq 0 .. size
    BY <2>1, ScanAssumption DEF Scanned, Examined, ScanInv, ScanTypes
  <2>3. \A p \in 0 .. size : p < Examined <=> p + ContractSize <= size
    BY <2>2
  <2> QED BY <2>2, <2>3 DEF SeenExact
<1> QED BY <1>1, ScanAlways, PTL

(* What Install patches is the only start in the section that its own      *)
(* comparison would take, however the blocks cut the section: one that was *)
(* cut off in its block was counted in the next                            *)
(* (SaveLoadGuardScan.cpp:187-241, SaveLoadGuard.cpp:339-346).             *)
THEOREM OneCallsite == Spec => []AcceptedIsUnique
<1>1. ScanInv => AcceptedIsUnique
  <2>1. SUFFICES ASSUME ScanInv, accepted, NEW p \in 0 .. size - ContractSize,
                        MatchesEditorIdCallsite(p, ~result.exact)
                 PROVE  p = result.callsite
    BY DEF AcceptedIsUnique
  <2>2. /\ Whole /\ result.callsite # NoSite /\ pc = "done"
        /\ result.exact  => exactCount = 1 /\ result.callsite = exactCallsite
        /\ ~result.exact => exactCount = 0 /\ relaxedCount = 1 /\ result.callsite = relaxedCallsite
    BY <2>1 DEF ScanInv, Verdict
  <2>3. /\ p < Examined /\ ContractSize \in Nat /\ CountLimit \in Nat /\ CountLimit >= 2
    BY <2>1, <2>2, ScanAssumption DEF Examined, ScanInv, ScanTypes
  <2>4. IsFiniteSet(SeenExact) /\ Cardinality(SeenExact) \in Nat
    <3>1. size \in Nat /\ SeenExact \in SUBSET (0 .. size)
      BY <2>1 DEF SeenExact, ScanInv, ScanTypes
    <3>2. IsFiniteSet(0 .. size)
      BY <3>1, FS_Interval
    <3> QED BY <3>1, <3>2, FS_Subset, FS_CardinalityType
  <2>5. exactCount = Least(Cardinality(SeenExact), CountLimit)
    BY <2>1, <2>2 DEF ScanInv, Seen
  <2>6. CASE result.exact
    <3>1. Cardinality(SeenExact) = 1
      BY <2>2, <2>3, <2>4, <2>5, <2>6 DEF Least
    <3>2. PICK q : SeenExact = {q}
      BY <2>4, <3>1, FS_Singleton
    <3>3. result.callsite \in SeenExact
      BY <2>1, <2>2, <2>6, <3>2 DEF ScanInv, Seen
    <3>4. p \in SeenExact
      BY <2>1, <2>3, <2>6 DEF MatchesEditorIdCallsite, SeenExact
    <3> QED BY <3>2, <3>3, <3>4
  <2>7. CASE ~result.exact
    <3>1. Cardinality(SeenExact) = 0
      BY <2>2, <2>3, <2>4, <2>5, <2>7 DEF Least
    <3>2. SeenExact = {}
      BY <2>4, <3>1, FS_EmptySet
    <3>3. p \in DOMAIN relaxedAt /\ relaxedAt[p] + 2 < ContractSize
      BY <2>1, <2>3, <3>2 DEF MatchesEditorIdCallsite, SeenExact, IsRelaxedWarningShape
    <3>4. p \in SureRelaxed
      BY <2>3, <3>3 DEF SureRelaxed
    <3> QED BY <2>1, <2>2, <2>7, <3>4 DEF ScanInv, Seen
  <2> QED BY <2>6, <2>7
<1> QED BY <1>1, ScanAlways, PTL
=============================================================================
