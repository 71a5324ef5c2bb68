--------------------------- MODULE SaveLoadGuardScan ---------------------------
(***************************************************************************)
(* The search for the callsite (Runtime/SaveLoadGuardScan.cpp): the text   *)
(* section is read block by block, and every start in a block is compared  *)
(* with the exact and the relaxed shape.  Install then compares the one    *)
(* callsite found a second time (MatchesEditorIdCallsite).                 *)
(*                                                                         *)
(* Bytes are abstracted to where the shapes stand.  A start is in exactAt  *)
(* or in the domain of relaxedAt when the cleanup sequence after its       *)
(* warning call is there as well (HasCleanupShape); relaxedAt gives the    *)
(* offset of that warning call (E8) from the start, which the relaxed      *)
(* comparison has to see.  Positions count from the start of the section.  *)
(***************************************************************************)
EXTENDS Integers, FiniteSets

CONSTANTS NoSite,
          ContractSize,   (* bytes of the exact shape: 38                   *)
          BlockSize,      (* TextScanWindow + ContractSize                  *)
          PrefixLength,   (* bytes no two shapes share: 15                  *)
          SiteSpan,       (* bytes from a start to the end of its cleanup   *)
          Calls,          (* offsets a warning call can have: below 48      *)
          MaxSection,     (* largest section scanned: 0x40000000            *)
          CountLimit,     (* largest candidate count: 0xFFFF                *)
          MaxText,        (* bound on the size of the section               *)
          MaxSites        (* bound on the shapes in it                      *)

ASSUME ScanAssumption ==
  /\ ContractSize \in Nat \ {0}
  /\ BlockSize \in Nat /\ BlockSize > ContractSize
  /\ PrefixLength \in Nat /\ SiteSpan \in Nat /\ SiteSpan >= ContractSize
  /\ Calls \subseteq PrefixLength .. SiteSpan
  /\ MaxSection \in Nat /\ CountLimit \in Nat \ {0, 1}
  /\ MaxText \in Nat /\ MaxSites \in Nat

VARIABLES
  size, exactAt, relaxedAt,        (* the section                           *)
  hole,                            (* a byte that cannot be read, or size   *)
  allowRelaxedSignatures,          (* ScanParameters                        *)
  offset,                          (* where the next block begins           *)
  exactCount, exactCallsite,       (* candidates so far and the first one   *)
  relaxedCount, relaxedCallsite,
  result,                          (* ScanResult                            *)
  accepted,                        (* Install goes on with it               *)
  pc                               (* "scanning", "matching", "done"        *)

section == <<size, exactAt, relaxedAt, hole, allowRelaxedSignatures>>
counts  == <<exactCount, exactCallsite, relaxedCount, relaxedCallsite>>
vars    == <<section, offset, counts, result, accepted, pc>>

NoResult == [callsite |-> NoSite, exact |-> FALSE]

Least(a, b) == IF a < b THEN a ELSE b
FirstOf(S)  == CHOOSE p \in S : \A q \in S : p <= q

(* A start is listed only if all its span can be read.  Shapes overlap at  *)
(* most in bytes they do not fix, and since the first E8 counts, the       *)
(* warning call of one lies before the next shape or is shared with it.    *)
Init ==
  /\ size \in 0 .. MaxText
  /\ hole \in 0 .. size
  /\ \E sites \in SUBSET (0 .. size - 1) :
       /\ Cardinality(sites) <= MaxSites
       /\ \A p, q \in sites : p < q => q - p >= PrefixLength
       /\ \A p \in sites : hole \notin p .. Least(p + SiteSpan, size) - 1
       /\ \E e \in SUBSET sites :
            exactAt = e /\ relaxedAt \in [sites \ e -> Calls]
  /\ \A p \in DOMAIN relaxedAt : \A q \in exactAt \cup DOMAIN relaxedAt :
       LET call == p + relaxedAt[p] IN
       p < q => \/ call < q
                \/ q \in exactAt /\ call >= q + PrefixLength
                \/ q \in DOMAIN relaxedAt /\ call = q + relaxedAt[q]
  /\ allowRelaxedSignatures \in BOOLEAN
  /\ offset = 0
  /\ exactCount = 0 /\ exactCallsite = NoSite
  /\ relaxedCount = 0 /\ relaxedCallsite = NoSite
  /\ result = NoResult /\ accepted = FALSE
  /\ pc = "scanning"

-----------------------------------------------------------------------------

(* The warning call and two bytes more lie within the bytes available.     *)
IsRelaxedWarningShape(p, available) ==
  p \in DOMAIN relaxedAt /\ relaxedAt[p] + 2 < available

Wanted == Least(size - offset, BlockSize)

(* Starts of the block whose ContractSize bytes lie within it.             *)
Starts == {p \in offset .. size : p + ContractSize <= offset + Wanted}

Relaxed(starts) ==
  {p \in starts : allowRelaxedSignatures /\ IsRelaxedWarningShape(p, offset + Wanted - p)}

(* Variant: the counts do not saturate.                                    *)
CountedWithoutLimit(count, found) == count + Cardinality(found)

Counted(count, found) == Least(count + Cardinality(found), CountLimit)
First(callsite, found) ==
  IF callsite = NoSite /\ found # {} THEN FirstOf(found) ELSE callsite

Scannable == size >= ContractSize /\ size <= MaxSection

SectionRejected ==
  /\ pc = "scanning" /\ ~Scannable
  /\ pc' = "done"
  /\ UNCHANGED <<section, offset, counts, result, accepted>>

Covers(p) == p \in offset .. offset + Wanted - 1

(* Variant: a block that cannot be read is passed over.                    *)
BlockPassedOver ==
  /\ pc = "scanning" /\ Scannable
  /\ Covers(hole)
  /\ IF offset + Wanted >= size
       THEN pc' = "deciding" /\ UNCHANGED offset
       ELSE offset' = offset + Wanted - ContractSize + 1 /\ UNCHANGED pc
  /\ UNCHANGED <<section, counts, result, accepted>>

BlockUnreadable ==
  /\ pc = "scanning" /\ Scannable
  /\ Covers(hole)
  /\ pc' = "done"
  /\ UNCHANGED <<section, offset, counts, result, accepted>>

(* Variant: blocks overlap by a byte too few.                              *)
StepTooLong == Wanted - ContractSize + 2

(* Blocks overlap by what a shape needs, less one byte.                    *)
Step == Wanted - ContractSize + 1

(* The second condition is the loop's "fewer than ContractSize bytes are    *)
(* left": the start positions it gives up are none.                        *)
ScanBlock ==
  /\ pc = "scanning" /\ Scannable
  /\ ~Covers(hole)
  /\ exactCount'      = Counted(exactCount, Starts \cap exactAt)
  /\ exactCallsite'   = First(exactCallsite, Starts \cap exactAt)
  /\ relaxedCount'    = Counted(relaxedCount, Relaxed(Starts))
  /\ relaxedCallsite' = First(relaxedCallsite, Relaxed(Starts))
  /\ IF offset + Wanted >= size \/ size < offset + Step + ContractSize
       THEN pc' = "deciding" /\ UNCHANGED offset
       ELSE offset' = offset + Step /\ UNCHANGED pc
  /\ UNCHANGED <<section, result, accepted>>

(* Variant: the first relaxed match is good enough.                        *)
DecideFirstRelaxed ==
  /\ pc = "deciding"
  /\ pc' = "matching"
  /\ result' = IF exactCount = 1
                 THEN [callsite |-> exactCallsite, exact |-> TRUE]
                 ELSE [callsite |-> relaxedCallsite, exact |-> FALSE]
  /\ UNCHANGED <<section, offset, counts, accepted>>

Decide ==
  /\ pc = "deciding"
  /\ pc' = "matching"
  /\ result' = IF exactCount = 1
                 THEN [callsite |-> exactCallsite, exact |-> TRUE]
               ELSE IF exactCount = 0 /\ relaxedCount = 1
                 THEN [callsite |-> relaxedCallsite, exact |-> FALSE]
               ELSE NoResult
  /\ UNCHANGED <<section, offset, counts, accepted>>

(* MatchesEditorIdCallsite reads ContractSize bytes and no more.           *)
MatchesEditorIdCallsite(p, relaxed) ==
  p \in exactAt \/ (relaxed /\ IsRelaxedWarningShape(p, ContractSize))

Match ==
  /\ pc = "matching"
  /\ pc' = "done"
  /\ accepted' = /\ result.callsite # NoSite
                 /\ MatchesEditorIdCallsite(result.callsite, ~result.exact)
  /\ UNCHANGED <<section, offset, counts, result>>

Next == SectionRejected \/ BlockUnreadable \/ ScanBlock \/ Decide \/ Match

Spec == Init /\ [][Next]_vars

-----------------------------------------------------------------------------
(* Properties.                                                             *)

ScanTypeOK ==
  /\ offset \in 0 .. size
  /\ exactCount \in 0 .. CountLimit /\ relaxedCount \in 0 .. CountLimit
  /\ {exactCallsite, relaxedCallsite, result.callsite} \subseteq (0 .. size) \cup {NoSite}
  /\ result.exact \in BOOLEAN /\ accepted \in BOOLEAN
  /\ pc \in {"scanning", "deciding", "matching", "done"}

Scanned == pc \in {"deciding", "matching", "done"} /\ Scannable /\ hole = size

(* Every start of the section is examined once: none is lost and none is   *)
(* counted twice where blocks overlap (SaveLoadGuardScan.cpp:171-221).     *)
EveryStartOnce ==
  Scanned => exactCount =
    Least(Cardinality({p \in exactAt : p + ContractSize <= size}), CountLimit)

(* A section that cannot be read to its end qualifies nothing, wherever    *)
(* the gap is (SaveLoadGuardScan.h:51).                                    *)
PartialFailsClosed == hole # size => result = NoResult /\ ~accepted

(* The callsite Install patches is the only start in the section that      *)
(* would stand the comparison Install makes before it patches.             *)
AcceptedIsUnique ==
  accepted => \A p \in 0 .. size - ContractSize :
    MatchesEditorIdCallsite(p, ~result.exact) => p = result.callsite

(* SaveLoadGuardScan.h:51: "Ambiguous or partial scans fail closed and     *)
(* return an empty result."  A relaxed result is the only relaxed shape    *)
(* in the section.                                                         *)
AmbiguousFailsClosed ==
  result.callsite # NoSite /\ ~result.exact =>
    \A p \in 0 .. size - ContractSize :
      IsRelaxedWarningShape(p, size - p) => p = result.callsite
=============================================================================
