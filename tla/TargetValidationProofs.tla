------------------------ MODULE TargetValidationProofs ------------------------
(***************************************************************************)
(* Proofs about TargetValidation, for every word and page size, every      *)
(* layout of the sections and whatever the engine does to its pages: range *)
(* checks by words agree with arithmetic without a word size, and what the *)
(* guard calls is the game's code, taken from its read-only data.          *)
(*                                                                         *)
(* The argument, in three invariants.  CallInv: the vtable that was        *)
(* checked is the copy the slot is read through, and the entry that was    *)
(* checked is the copy that is called.  EscapeInv: all that a walk has     *)
(* passed allows the access, but for the pages that changed meanwhile.     *)
(* QuietInv: while none changes every step leaves a fact about the bytes   *)
(* it passed, and the facts add up to the verdict.                         *)
(***************************************************************************)
EXTENDS TargetValidation, TLAPS

(* A sum is a word, and the true one if that is no larger than a word.     *)
LEMMA PlusWord ==
  ASSUME NEW a \in Nat, NEW b \in Nat
  PROVE  /\ Plus(a, b) \in Words /\ Plus(a, b) \in Nat /\ Plus(a, b) <= MaxWord
         /\ a + b <= MaxWord => Plus(a, b) = a + b
<1>1. ASSUME NEW M \in Nat, M > 0, NEW c \in Nat
      PROVE  c % M \in 0 .. M - 1 /\ (c < M => c % M = c)
  BY <1>1
<1>2. MaxWord + 1 \in Nat /\ MaxWord + 1 > 0 /\ MaxWord \in Nat /\ a + b \in Nat
  BY ValidationAssumption
<1>3. (a + b) % (MaxWord + 1) \in 0 .. MaxWord + 1 - 1
  BY <1>1, <1>2
<1>4. a + b < MaxWord + 1 => (a + b) % (MaxWord + 1) = a + b
  BY <1>1, <1>2
<1> QED BY <1>2, <1>3, <1>4 DEF Plus, Words

LEMMA WordsAreNumbers == /\ MaxWord \in Nat /\ 0 \in Words
                         /\ \A w \in Words : w \in Nat /\ w <= MaxWord
BY ValidationAssumption DEF Words

(* CheckedEnd and InRange never take a sum that wrapped for a small one,   *)
(* and reject nothing but what lies outside: a range is accepted if and    *)
(* only if it is not null and lies inside (SaveLoadGuardValidation.cpp:    *)
(* 14-41).                                                                 *)
THEOREM InRangeExact ==
  ASSUME NEW a \in Words, NEW size \in Nat, NEW b \in Words, NEW n \in Nat, b + n <= MaxWord
  PROVE  InRange(a, size, b, n) <=> b # 0 /\ n # 0 /\ Within(a, size, b, n)
<1>1. /\ a \in Nat /\ b \in Nat /\ MaxWord \in Nat /\ a <= MaxWord
      /\ Plus(b, n) = b + n
  BY WordsAreNumbers, PlusWord
<1>2. CASE a + size <= MaxWord
  <2>1. Plus(a, size) = a + size
    BY <1>1, <1>2, PlusWord
  <2> QED BY <1>1, <1>2, <2>1 DEF InRange, Fits, Within
<1>3. CASE ~(a + size <= MaxWord)
  BY <1>1, <1>3 DEF InRange, Fits, Within
<1> QED BY <1>2, <1>3

(* Once the table was found in the read-only data it stays the one used,   *)
(* and a call is over when it has a verdict.                               *)
SlotInRdata ==
  step \in {"slot", "entry"} \/ verdict = "None" =>
    Within(Plus(vtable, EditorIdVtableOffset), WordSize, RdataAddress, RdataSize)
EntryInText == verdict = "None" => Within(editorIdEntry, 1, TextAddress, TextSize)
VerdictLast == verdict = "None" => step = "decided"

CallInv ==
  /\ vtable \in Words /\ editorIdEntry \in Words
  /\ SlotInRdata /\ EntryInText /\ VerdictLast

LEMMA CallInit == ASSUME Init PROVE CallInv
BY ValidationAssumption DEF Init, CallInv, SlotInRdata, EntryInText, VerdictLast, Words

(* Steps that end a call without accepting the form, or go on elsewhere    *)
(* than to the slot.                                                       *)
LEMMA ElsewhereKeeps ==
  ASSUME CallInv, UNCHANGED <<vtable, editorIdEntry>>,
         \/ step' \notin {"slot", "entry"} /\ verdict' \notin {"None"}
         \/ UNCHANGED <<step, verdict>>
  PROVE  CallInv'
BY DEF CallInv, SlotInRdata, EntryInText, VerdictLast, Within

LEMMA CallStep == ASSUME CallInv, [Next]_vars PROVE CallInv'
<1> USE DEF Enter, Decide, Undecided, Unmoved, string, report
<1>1. CASE Begin
  <2>1. UNCHANGED <<vtable, editorIdEntry>> /\ step' \notin {"slot", "entry"} /\ verdict' # "None"
    BY <1>1 DEF Begin, BeginValidation, BeginResult, CallInv, VerdictLast
  <2> QED BY <2>1, ElsewhereKeeps
<1>2. CASE Return
  BY <1>2, ValidationAssumption DEF Return, CallInv, SlotInRdata, EntryInText, VerdictLast, Words
<1>3. CASE Walk
  <2>1. UNCHANGED <<vtable, editorIdEntry, step, verdict>>
    BY <1>3 DEF Walk, Query, CopyEscapes
  <2> QED BY <2>1, ElsewhereKeeps
<1>4. CASE CheckResult
  <2>1. step \in {"byte", "byteCopy"}
    BY <1>4 DEF CheckResult, ByteReadable, ByteUnreadable, Terminated, NextByte, Walked, Asks,
       Refused, ReadFails, CopyFails, CopySucceeds
  <2>2. UNCHANGED <<vtable, editorIdEntry>> /\ step' \notin {"slot", "entry"} /\ verdict' # "None"
    BY <1>4, <2>1 DEF CheckResult, ByteReadable, ByteUnreadable, Terminated, NextByte, ResultStep,
       CallInv, VerdictLast
  <2> QED BY <2>2, ElsewhereKeeps
<1>5. CASE Validate
  <2>1. CASE FormReadable \/ FormUnreadable \/ FormIdRead \/ FormTypeRead \/ VtableUnreadable
    <3>1. step \in Probes
      BY <2>1 DEF FormReadable, FormUnreadable, FormIdRead, FormTypeRead, VtableUnreadable,
         Walked, Asks, Refused, ReadFails, CopyFails, CopySucceeds, Probes
    <3>2. UNCHANGED <<vtable, editorIdEntry>> /\ step' \notin {"slot", "entry"} /\ verdict' # "None"
      BY <2>1, <3>1 DEF FormReadable, FormUnreadable, FormIdRead, FormTypeRead, VtableUnreadable,
         Probes, CallInv, VerdictLast
    <3> QED BY <3>2, ElsewhereKeeps
  <2>2. CASE VtableRead
    <3>1. step = "vtable"
      BY <2>2 DEF VtableRead, CopySucceeds, Walked, Asks
    <3> QED BY <2>2, <3>1 DEF VtableRead, CallInv, SlotInRdata, EntryInText, VerdictLast
  <2>3. CASE TableReadable
    <3>1. step = "table"
      BY <2>3 DEF TableReadable, Walked, Asks
    <3>2. InRange(vtable, EditorIdVtableOffset + WordSize, RdataAddress, RdataSize) =>
            Within(Plus(vtable, EditorIdVtableOffset), WordSize, RdataAddress, RdataSize)
      <4>1. /\ vtable \in Words /\ vtable \in Nat /\ EditorIdVtableOffset \in Nat /\ WordSize \in Nat
            /\ RdataAddress \in Words /\ RdataAddress \in Nat /\ RdataSize \in Nat
            /\ RdataAddress + RdataSize <= MaxWord /\ MaxWord \in Nat
            /\ EditorIdVtableOffset + WordSize \in Nat
        BY ValidationAssumption DEF CallInv, Words
      <4>2. SUFFICES ASSUME Within(vtable, EditorIdVtableOffset + WordSize, RdataAddress, RdataSize)
                     PROVE  Within(Plus(vtable, EditorIdVtableOffset), WordSize, RdataAddress, RdataSize)
        BY <4>1, InRangeExact
      <4>3. vtable + EditorIdVtableOffset <= MaxWord
        BY <4>1, <4>2 DEF Within
      <4>4. Plus(vtable, EditorIdVtableOffset) = vtable + EditorIdVtableOffset
        BY <4>1, <4>3, PlusWord
      <4> QED BY <4>1, <4>2, <4>4 DEF Within
    <3>3. CASE step' = "slot" /\ UNCHANGED verdict
      BY <2>3, <3>1, <3>2, <3>3
         DEF TableReadable, CallInv, SlotInRdata, EntryInText, VerdictLast, Within
    <3>4. CASE step' = "decided" /\ verdict' = "UnreadableVtable"
      BY <2>3, <3>4, ElsewhereKeeps DEF TableReadable
    <3> QED BY <2>3, <3>3, <3>4 DEF TableReadable
  <2>4. CASE SlotRead
    <3>1. step = "slot" /\ vtable' = vtable /\ editorIdEntry' \in Words
      BY <2>4 DEF SlotRead, CopySucceeds, Walked, Asks
    <3>2. verdict' # "None"
      BY <2>4, <3>1 DEF SlotRead, CallInv, VerdictLast
    <3> QED BY <3>1, <3>2 DEF CallInv, SlotInRdata, EntryInText, VerdictLast, Within
  <2>5. CASE EntryUnusable
    BY <2>5, ElsewhereKeeps DEF EntryUnusable
  <2>6. CASE EntryExecutable
    <3>1. step = "entry" /\ step' = "decided" /\ UNCHANGED <<vtable, editorIdEntry>>
      BY <2>6 DEF EntryExecutable, Walked, Asks
    <3>2. verdict' = "None" => Within(editorIdEntry, 1, TextAddress, TextSize)
      <4>1. /\ TextAddress \in Words /\ TextSize \in Nat /\ TextAddress + TextSize <= MaxWord
            /\ editorIdEntry \in Words /\ 1 \in Nat
        BY ValidationAssumption DEF CallInv, Words
      <4> QED BY <2>6, <4>1, InRangeExact DEF EntryExecutable
    <3> QED BY <3>1, <3>2 DEF CallInv, SlotInRdata, EntryInText, VerdictLast, Within
  <2> QED BY <1>5, <2>1, <2>2, <2>3, <2>4, <2>5, <2>6 DEF Validate
<1>6. CASE \E q \in HeapPages : Change(q)
  <2>1. UNCHANGED <<vtable, editorIdEntry, step, verdict>>
    BY <1>6 DEF Change
  <2> QED BY <2>1, ElsewhereKeeps
<1>7. CASE UNCHANGED vars
  BY <1>7, ElsewhereKeeps DEF vars
<1> QED
  BY <1>1, <1>2, <1>3, <1>4, <1>5, <1>6, <1>7 DEF Next, Thread, Dead

(* Whatever the engine does to its memory during the call, what the guard  *)
(* calls is game code out of a slot in the read-only data (SaveLoadGuard-  *)
(* Validation.cpp:77-94).                                                  *)
THEOREM CallsGameCode == Spec => []CallableIsGameCode
<1>1. CallInv => CallableIsGameCode
  BY DEF CallInv, SlotInRdata, EntryInText, CallableIsGameCode
<1>2. Init => CallInv
  BY CallInit
<1>3. CallInv /\ [Next]_vars => CallInv'
  BY CallStep
<1> QED BY <1>1, <1>2, <1>3, PTL DEF Spec

-----------------------------------------------------------------------------
(* What gets past the reader.  All that a walk has passed allows the       *)
(* access, but for pages that changed since the call began, so a copy that *)
(* meets a guard page meets one of these.                                  *)

Values ==
  /\ form \in Words /\ vtable \in Words /\ editorIdEntry \in Words /\ result \in Words
  /\ index \in Nat /\ current \in Words
GuardsInHeap ==
  /\ protection \in [Pages -> Protections]
  /\ \A q \in Pages : protection[q] = "guard" => q \in HeapPages
WalkAllowed ==
  step \in Probes =>
    \A a \in Address(step) .. current - 1 :
      PageOf(a) \notin changed => Allows(protection[PageOf(a)], step)

EscapeInv == Values /\ GuardsInHeap /\ WalkAllowed /\ OnlyGuardPagesEscape

LEMMA PageOrder ==
  ASSUME NEW a \in Nat, NEW b \in Nat, a <= b
  PROVE  PageOf(a) \in Nat /\ PageOf(a) <= PageOf(b)
<1>1. ASSUME NEW P \in Nat, P > 0, a \div P > b \div P PROVE FALSE
  <2>1. /\ a = P * (a \div P) + (a % P) /\ a % P \in 0 .. P - 1 /\ a \div P \in Int
        /\ b = P * (b \div P) + (b % P) /\ b % P \in 0 .. P - 1 /\ b \div P \in Int
    BY <1>1
  <2>2. P * (a \div P) >= P * (b \div P) + P
    BY <1>1, <2>1
  <2> QED BY <1>1, <2>1, <2>2
<1>2. PageSize \in Nat /\ PageSize > 0
  BY ValidationAssumption
<1>3. PageOf(a) \in Nat /\ PageOf(b) \in Nat
  BY <1>2 DEF PageOf
<1> QED BY <1>1, <1>2, <1>3 DEF PageOf

LEMMA PageBelow ==
  ASSUME NEW a \in Nat, NEW last \in Nat, a < (last + 1) * PageSize
  PROVE  PageOf(a) <= last
<1>1. ASSUME NEW P \in Nat, P > 0, a < (last + 1) * P, a \div P > last PROVE FALSE
  <2>1. a = P * (a \div P) + (a % P) /\ a % P \in 0 .. P - 1 /\ a \div P \in Int
    BY <1>1
  <2>2. P * (a \div P) >= P * (last + 1)
    BY <1>1, <2>1
  <2> QED BY <1>1, <2>1, <2>2
<1>2. PageSize \in Nat /\ PageSize > 0
  BY ValidationAssumption
<1>3. PageOf(a) \in Nat
  BY <1>2 DEF PageOf
<1> QED BY <1>1, <1>2, <1>3 DEF PageOf

LEMMA EscapeInit == ASSUME Init PROVE EscapeInv
<1>1. Values
  BY ValidationAssumption DEF Init, Values, Words
<1>2. GuardsInHeap
  BY DEF Init, GuardsInHeap
<1>3. WalkAllowed /\ OnlyGuardPagesEscape
  BY DEF Init, WalkAllowed, Probes, OnlyGuardPagesEscape
<1> QED BY <1>1, <1>2, <1>3 DEF EscapeInv

(* A probe begins with nothing walked.                                     *)
LEMMA ProbeBegins ==
  ASSUME EscapeInv, alive, Values',
         UNCHANGED <<protection, alive>>, UNCHANGED changed \/ step' = "idle",
         step' \in Probes => current' = Address(step)'
  PROVE  EscapeInv'
<1>1. WalkAllowed'
  <2>1. SUFFICES ASSUME step' \in Probes,
                        NEW a \in (Address(step) .. current - 1)'
                 PROVE  FALSE
    BY DEF WalkAllowed
  <2>2. Address(step)' \in Nat
    BY <2>1, WordsAreNumbers DEF Values
  <2> QED BY <2>1, <2>2
<1>2. GuardsInHeap' /\ OnlyGuardPagesEscape'
  BY DEF EscapeInv, GuardsInHeap, OnlyGuardPagesEscape
<1> QED BY <1>1, <1>2 DEF EscapeInv

(* Nothing is being walked once the verdict is there.                      *)
LEMMA Ends ==
  ASSUME EscapeInv, NEW v, Decide(v)
  PROVE  step' \notin Probes /\ current' \in Words
BY DEF Decide, Probes, EscapeInv, Values

LEMMA EscapeBegin ==
  ASSUME EscapeInv, alive, Begin
  PROVE  EscapeInv'
<1>1. CASE \E f \in Words : BeginValidation(f)
  <2>1. PICK f \in Words : BeginValidation(f)
    BY <1>1
  <2>2. f \in Words
    BY <2>1
  <2>3. /\ current' \in Words
        /\ step' \in Probes => current' = Address(step)'
    <3>1. CASE f = 0
      BY <2>1, <3>1, Ends DEF BeginValidation
    <3>2. CASE f # 0
      <4>1. Enter("form", f) /\ form' = f
        BY <2>1, <3>2 DEF BeginValidation
      <4> QED BY <2>2, <4>1 DEF Enter, Address
    <3> QED BY <3>1, <3>2
  <2>4. /\ UNCHANGED <<protection, alive, changed>>
        /\ Values'
    BY <2>1, <2>3 DEF BeginValidation, Unmoved, string, EscapeInv, Values
  <2> QED BY <2>3, <2>4, ProbeBegins
<1>2. CASE \E a \in Words, zeroAt \in 0 .. MaximumEditorIdLength + 1 : BeginResult(a, zeroAt)
  <2>1. PICK a \in Words, zeroAt \in 0 .. MaximumEditorIdLength + 1 : BeginResult(a, zeroAt)
    BY <1>2
  <2>2. a \in Words /\ a \in Nat /\ a <= MaxWord
    BY WordsAreNumbers
  <2>3. /\ current' \in Words
        /\ step' \in Probes => current' = Address(step)'
    <3>1. CASE a = 0
      BY <2>1, <3>1, Ends DEF BeginResult
    <3>2. CASE a # 0
      <4>1. Enter("byte", a) /\ result' = a /\ index' = 0
        BY <2>1, <3>2 DEF BeginResult
      <4>2. Plus(result', index') = a
        BY <2>2, <4>1, PlusWord
      <4> QED BY <2>2, <4>1, <4>2 DEF Enter, Address
    <3> QED BY <3>1, <3>2
  <2>4. /\ UNCHANGED <<protection, alive, changed>>
        /\ Values'
    BY <2>1, <2>3 DEF BeginResult, report, EscapeInv, Values
  <2> QED BY <2>3, <2>4, ProbeBegins
<1> QED BY <1>1, <1>2 DEF Begin

LEMMA EscapeReturn ==
  ASSUME EscapeInv, alive, Return
  PROVE  EscapeInv'
<1>1. Values'
  BY ValidationAssumption DEF Return, Values, Words
<1>2. step' \notin Probes /\ UNCHANGED <<protection, alive>> /\ step' = "idle"
  BY DEF Return, Probes
<1> QED BY <1>1, <1>2, ProbeBegins

LEMMA EscapeValidate ==
  ASSUME EscapeInv, alive, Validate
  PROVE  EscapeInv'
<1>1. form \in Words /\ vtable \in Words /\ editorIdEntry \in Words
  BY DEF EscapeInv, Values
<1>2. /\ Plus(form, FormIdOffset) \in Words /\ Plus(form, FormTypeOffset) \in Words
      /\ Plus(vtable, EditorIdVtableOffset) \in Words
  BY <1>1, ValidationAssumption, WordsAreNumbers, PlusWord
<1>3. /\ UNCHANGED <<protection, changed, alive, result, index, form>>
      /\ vtable' \in Words /\ editorIdEntry' \in Words
  BY DEF Validate, FormReadable, FormUnreadable, FormIdRead, FormTypeRead, VtableRead,
     VtableUnreadable, TableReadable, SlotRead, EntryUnusable, EntryExecutable,
     Unmoved, string, report, EscapeInv, Values
<1>4. /\ current' \in Words
      /\ step' \in Probes => current' = Address(step)'
  <2>1. CASE FormReadable
    BY <1>1, <1>2, <2>1 DEF FormReadable, Enter, Address, report
  <2>2. CASE FormIdRead
    BY <1>1, <1>2, <2>2 DEF FormIdRead, Enter, Address, report
  <2>3. CASE FormTypeRead
    BY <1>1, <1>2, <2>3 DEF FormTypeRead, Enter, Address, report
  <2>4. CASE VtableRead
    <3>1. PICK v \in Words :
            /\ vtable' = v
            /\ IF v = 0 THEN Decide("UnreadableVtable") ELSE Enter("table", v) /\ Undecided
      BY <2>4 DEF VtableRead
    <3>2. CASE v = 0
      BY <3>1, <3>2, Ends
    <3>3. CASE v # 0
      BY <1>1, <3>1, <3>3 DEF Enter, Address
    <3> QED BY <3>2, <3>3
  <2>5. CASE TableReadable
    <3>1. CASE Enter("slot", Plus(vtable, EditorIdVtableOffset))
      BY <1>1, <1>2, <2>5, <3>1 DEF TableReadable, Enter, Address, report
    <3>2. CASE Decide("UnreadableVtable")
      BY <3>2, Ends
    <3> QED BY <2>5, <3>1, <3>2 DEF TableReadable
  <2>6. CASE SlotRead
    <3>1. PICK e \in Words :
            /\ editorIdEntry' = e
            /\ IF e = 0 THEN Decide("NonExecutableEditorId")
               ELSE Enter("entry", e) /\ Undecided
      BY <2>6 DEF SlotRead
    <3>2. CASE e = 0
      BY <3>1, <3>2, Ends
    <3>3. CASE e # 0
      BY <1>1, <3>1, <3>3 DEF Enter, Address
    <3> QED BY <3>2, <3>3
  <2>7. CASE FormUnreadable \/ VtableUnreadable \/ EntryUnusable \/ EntryExecutable
    BY <2>7, Ends DEF FormUnreadable, VtableUnreadable, EntryUnusable, EntryExecutable
  <2> QED BY <2>1, <2>2, <2>3, <2>4, <2>5, <2>6, <2>7 DEF Validate
<1>5. Values'
  BY <1>3, <1>4 DEF EscapeInv, Values
<1> QED BY <1>3, <1>4, <1>5, ProbeBegins

LEMMA EscapeResult ==
  ASSUME EscapeInv, alive, CheckResult
  PROVE  EscapeInv'
<1>1. result \in Nat /\ index \in Nat /\ Plus(result, index) \in Words
  BY WordsAreNumbers, PlusWord DEF EscapeInv, Values
<1>2. UNCHANGED <<protection, changed, alive, report, result>>
  BY DEF CheckResult, ByteReadable, ByteUnreadable, Terminated, NextByte, ResultStep
<1>3. /\ current' \in Words /\ index' \in Nat
      /\ step' \in Probes => current' = Address(step)'
  <2>1. CASE ByteReadable
    BY <1>1, <1>2, <2>1 DEF ByteReadable, Enter, Address
  <2>2. CASE ByteUnreadable \/ Terminated
    BY <1>1, <2>2, Ends DEF ByteUnreadable, Terminated
  <2>3. CASE NextByte
    <3>1. index' \in Nat
      BY <1>1, <2>3 DEF NextByte
    <3>2. CASE Enter("byte", Plus(result, index'))
      <4>1. Plus(result, index') \in Words
        BY <1>1, <3>1, PlusWord
      <4> QED BY <1>2, <3>1, <3>2, <4>1 DEF Enter, Address
    <3>3. CASE Decide("InvalidEditorIdResult")
      BY <3>1, <3>3, Ends
    <3> QED BY <2>3, <3>2, <3>3 DEF NextByte
  <2> QED BY <2>1, <2>2, <2>3 DEF CheckResult
<1>4. Values'
  BY <1>2, <1>3 DEF EscapeInv, Values, report
<1> QED BY <1>2, <1>3, <1>4, ProbeBegins

(* Addresses and ends of the probes are words, and no sum wraps in a range *)
(* that is asked about.                                                    *)
LEMMA ProbeValues ==
  ASSUME Values, NEW s \in Probes
  PROVE  /\ Address(s) \in Words /\ End(s) \in Words
         /\ Address(s) \in Nat /\ Size(s) \in Nat /\ End(s) \in Nat /\ MaxWord \in Nat
         /\ s # "formId" => Size(s) >= 1
         /\ Asks(s) => /\ step = s /\ Address(s) # 0 /\ Address(s) + Size(s) <= MaxWord
                       /\ End(s) = Address(s) + Size(s)
         /\ step = s /\ Address(s) # 0 /\ Address(s) + Size(s) <= MaxWord =>
              Asks(s) \/ (s = "byte" /\ ~Fits(result, index))
         /\ Asks(s) => Bytes(s) = Address(s) .. Address(s) + Size(s) - 1
<1>1. Address(s) \in Words
  BY ValidationAssumption, WordsAreNumbers, PlusWord DEF Values, Address, Probes
<1>2. Address(s) \in Nat /\ Address(s) <= MaxWord /\ MaxWord \in Nat
  BY <1>1, WordsAreNumbers
<1>3. Size(s) \in Nat /\ (s # "formId" => Size(s) >= 1)
  BY ValidationAssumption DEF Size, Probes
<1>4. /\ End(s) \in Words /\ End(s) \in Nat
      /\ Address(s) + Size(s) <= MaxWord => End(s) = Address(s) + Size(s)
  BY <1>2, <1>3, PlusWord DEF End
<1>5. Fits(Address(s), Size(s)) <=> Address(s) + Size(s) <= MaxWord
  BY <1>2, <1>3 DEF Fits
<1>6. ASSUME Asks(s) PROVE Bytes(s) = Address(s) .. Address(s) + Size(s) - 1
  <2>1. Address(s) + Size(s) <= MaxWord
    BY <1>5, <1>6 DEF Asks
  <2>2. \A k \in 0 .. Size(s) - 1 : Plus(Address(s), k) = Address(s) + k
    <3>1. SUFFICES ASSUME NEW k \in 0 .. Size(s) - 1 PROVE Plus(Address(s), k) = Address(s) + k
      OBVIOUS
    <3>2. k \in Nat /\ Address(s) + k <= MaxWord
      BY <1>2, <1>3, <2>1, <3>1
    <3> QED BY <1>2, <3>2, PlusWord
  <2>3. ASSUME NEW a \in Bytes(s) PROVE a \in Address(s) .. Address(s) + Size(s) - 1
    <3>1. PICK k \in 0 .. Size(s) - 1 : a = Address(s) + k
      BY <2>2, <2>3 DEF Bytes
    <3> QED BY <1>2, <1>3, <3>1
  <2>4. ASSUME NEW a \in Address(s) .. Address(s) + Size(s) - 1 PROVE a \in Bytes(s)
    <3>1. /\ a - Address(s) \in 0 .. Size(s) - 1
          /\ Address(s) + (a - Address(s)) = a
      BY <1>2, <1>3, <2>4
    <3>2. Plus(Address(s), a - Address(s)) = a
      BY <2>2, <3>1
    <3> QED BY <3>1, <3>2 DEF Bytes
  <2> QED BY <2>3, <2>4
<1> QED BY <1>1, <1>2, <1>3, <1>4, <1>5, <1>6 DEF Asks

LEMMA EscapeQuery ==
  ASSUME EscapeInv, alive, NEW s \in Probes, Query(s)
  PROVE  EscapeInv'
<1>1. step = s /\ Address(s) \in Nat /\ End(s) \in Words /\ End(s) \in Nat /\ End(s) <= MaxWord
  BY ProbeValues, WordsAreNumbers DEF Query, Asks, EscapeInv
<1>2. PICK last \in PageOf(current) .. PageOf(MaxWord) :
        /\ \A q \in PageOf(current) .. last : protection[q] = protection[PageOf(current)]
        /\ current' = Least((last + 1) * PageSize, End(s))
  BY DEF Query
<1>3. current \in Nat /\ PageOf(current) \in Nat /\ last \in Nat
  BY <1>2, PageOrder, WordsAreNumbers DEF EscapeInv, Values
<1>4. (last + 1) * PageSize \in Nat
  BY <1>3, ValidationAssumption
<1>5. current' \in Nat /\ current' <= (last + 1) * PageSize /\ current' \in Words
  BY <1>1, <1>2, <1>4, WordsAreNumbers DEF Least, Words
<1>6. UNCHANGED <<protection, changed, alive, step, report, string>>
  BY DEF Query
<1>7. ASSUME NEW a, a \in Address(s) .. current' - 1, PageOf(a) \notin changed
      PROVE  Allows(protection[PageOf(a)], s)
  <2>1. a \in Nat /\ a < (last + 1) * PageSize
    <3>1. ASSUME NEW start \in Nat, NEW next \in Nat, NEW bound \in Nat,
                 next <= bound, a \in start .. next - 1
          PROVE  a \in Nat /\ a < bound
      BY <3>1
    <3> QED BY <1>1, <1>4, <1>5, <1>7, <3>1
  <2>2. CASE a < current
    <3>1. a \in Address(s) .. current - 1
      BY <1>1, <1>3, <1>5, <1>7, <2>2
    <3> QED BY <1>1, <1>7, <3>1 DEF EscapeInv, WalkAllowed
  <2>3. CASE a >= current
    <3>1. PageOf(a) \in Nat /\ PageOf(current) <= PageOf(a)
      BY <1>3, <2>1, <2>3, PageOrder
    <3>2. PageOf(a) <= last
      BY <1>3, <2>1, PageBelow
    <3>3. protection[PageOf(a)] = protection[PageOf(current)]
      BY <1>2, <1>3, <3>1, <3>2
    <3> QED BY <3>3 DEF Query
  <2> QED BY <1>3, <2>1, <2>2, <2>3
<1>8. WalkAllowed'
  BY <1>1, <1>6, <1>7 DEF WalkAllowed, report, string, Address, Allows
<1>9. Values' /\ GuardsInHeap' /\ OnlyGuardPagesEscape'
  BY <1>5, <1>6 DEF EscapeInv, Values, GuardsInHeap, OnlyGuardPagesEscape, report, string
<1> QED BY <1>8, <1>9 DEF EscapeInv

(* The bytes of a probe lie in pages of the address space.                 *)
LEMMA InPages ==
  ASSUME NEW a \in Nat, a <= MaxWord
  PROVE  PageOf(a) \in Pages
<1>1. PageOf(a) \in Nat /\ PageOf(a) <= PageOf(MaxWord) /\ PageOf(MaxWord) \in Nat
  BY PageOrder, WordsAreNumbers
<1> QED BY <1>1 DEF Pages, PageOf

LEMMA EscapeCopy ==
  ASSUME EscapeInv, NEW s \in Probes, CopyEscapes(s)
  PROVE  EscapeInv'
<1>1. /\ step = s /\ s \in Copying /\ Address(s) \in Nat /\ Size(s) \in Nat /\ current \in Nat
      /\ current >= End(s) /\ End(s) = Address(s) + Size(s)
      /\ Bytes(s) = Address(s) .. Address(s) + Size(s) - 1
  BY ProbeValues, WordsAreNumbers DEF CopyEscapes, Walked, EscapeInv, Values
<1>2. PICK a \in Bytes(s) : protection[PageOf(a)] = "guard"
  BY DEF CopyEscapes, Touched
<1>3. PageOf(a) \in changed
  <2>1. a \in Address(s) .. current - 1
    BY <1>1, <1>2
  <2> QED BY <1>1, <1>2, <2>1 DEF EscapeInv, WalkAllowed, Allows
<1>4. UNCHANGED <<protection, changed, step, current, report, string>>
  BY DEF CopyEscapes
<1>5. OnlyGuardPagesEscape'
  <2>1. Bytes(s)' = Bytes(s)
    BY <1>4 DEF Bytes, Address, report, string
  <2> QED BY <1>1, <1>2, <1>3, <1>4, <2>1 DEF OnlyGuardPagesEscape, Bytes
<1> QED
  BY <1>4, <1>5 DEF EscapeInv, Values, GuardsInHeap, WalkAllowed, report, string, Address

LEMMA EscapeChange ==
  ASSUME EscapeInv, alive, NEW q \in HeapPages, Change(q)
  PROVE  EscapeInv'
<1>1. Values' /\ OnlyGuardPagesEscape'
  BY DEF Change, EscapeInv, Values, OnlyGuardPagesEscape, report, string
<1>2. GuardsInHeap'
  BY DEF Change, EscapeInv, GuardsInHeap
<1>3. WalkAllowed'
  <2>1. /\ UNCHANGED <<step, current, form, vtable, editorIdEntry, result, index>>
        /\ step # "idle" => changed' = changed \cup {q}
    BY DEF Change, report, string
  <2>2. Address(step)' = Address(step)
    BY <2>1 DEF Address
  <2>3. SUFFICES ASSUME step \in Probes, NEW a \in Address(step) .. current - 1,
                        PageOf(a) \notin changed'
                 PROVE  Allows(protection[PageOf(a)], step)'
    BY <2>1, <2>2 DEF WalkAllowed
  <2>4. PageOf(a) \notin changed /\ PageOf(a) # q
    BY <2>1, <2>3 DEF Probes
  <2>5. Allows(protection[PageOf(a)], step)
    BY <2>3, <2>4 DEF EscapeInv, WalkAllowed
  <2>6. PageOf(a) \in Pages
    <3>1. current \in Nat /\ current <= MaxWord /\ Address(step) \in Nat /\ MaxWord \in Nat
      BY <2>3, ProbeValues, WordsAreNumbers DEF EscapeInv, Values
    <3>2. a \in Nat /\ a <= MaxWord
      BY <2>3, <3>1
    <3> QED BY <3>2, InPages
  <2>7. protection'[PageOf(a)] = protection[PageOf(a)]
    BY <2>4, <2>6 DEF Change, EscapeInv, GuardsInHeap
  <2> QED BY <2>1, <2>5, <2>7 DEF Allows
<1> QED BY <1>1, <1>2, <1>3 DEF EscapeInv

LEMMA EscapeStep == ASSUME EscapeInv, [Next]_vars PROVE EscapeInv'
<1>1. CASE UNCHANGED vars
  BY <1>1 DEF vars, report, string, EscapeInv, Values, GuardsInHeap, WalkAllowed,
     OnlyGuardPagesEscape, Bytes, Address
<1> QED
  BY <1>1, EscapeBegin, EscapeReturn, EscapeValidate, EscapeResult,
     EscapeQuery, EscapeCopy, EscapeChange DEF Next, Thread, Walk, Dead

(* Freeing or protecting pages under a read never ends the process; only a *)
(* page under the copy that became a guard page during the call can        *)
(* (MemoryReader.cpp:17-25, 161-168).                                      *)
THEOREM GuardPagesOnly == Spec => []OnlyGuardPagesEscape
<1>1. EscapeInv => OnlyGuardPagesEscape
  BY DEF EscapeInv
<1>2. Init => EscapeInv
  BY EscapeInit
<1>3. EscapeInv /\ [Next]_vars => EscapeInv'
  BY EscapeStep
<1> QED BY <1>1, <1>2, <1>3, PTL DEF Spec
-----------------------------------------------------------------------------
(* Memory that holds still.  Every step of a call leaves a fact about the  *)
(* bytes it has passed, and as long as no page changes the facts add up to *)
(* the verdict: the walk over regions has met every byte, and what it was  *)
(* refused is refused to the byte.                                         *)

BeforeVtable == {"form", "formId", "formType", "vtable"}
AfterVtable  == {"table", "slot", "entry"}
InString     == {"byte", "byteCopy"}

Typed ==
  /\ changed \in SUBSET HeapPages /\ alive \in BOOLEAN
  /\ step \in Probes \cup {"idle", "decided"} /\ verdict \in Verdicts
  /\ index \in 0 .. MaximumEditorIdLength /\ length \in 0 .. MaximumEditorIdLength + 1

(* What the steps so far have found out for good.                          *)
Known ==
  /\ step \in BeforeVtable \cup {"idle"} => vtable = 0
  /\ step \in BeforeVtable \cup {"idle", "table", "slot"} => editorIdEntry = 0
  /\ step \in BeforeVtable \cup AfterVtable => form # 0
  /\ step \in {"formId", "formType"} => form + Size("form") <= MaxWord
  /\ step \in AfterVtable => vtable # 0
  /\ step \in {"slot", "entry"} => Within(vtable, Size("table"), RdataAddress, RdataSize)
  /\ step = "entry" => editorIdEntry # 0
  /\ step \in InString => /\ result # 0 /\ result + index <= MaxWord
                          /\ index <= length /\ index < MaximumEditorIdLength
  /\ step # "decided" => verdict = "pending"
  /\ step \in Probes => current >= Address(step)

(* And what holds of memory as long as it is not touched.                  *)
SoFar ==
  changed = {} =>
    /\ step \in BeforeVtable \cup AfterVtable /\ step # "form" =>
         Accessible(form, Size("form"), "form")
    /\ step \in AfterVtable => Accessible(form, WordSize, "vtable")
    /\ step \in InString => Accessible(result, index, "byte")

RdataMapped ==
  \A q \in Covered(RdataAddress, RdataSize) : protection[q] \in {"read", "executeRead"}

QuietInv == EscapeInv /\ Typed /\ Known /\ SoFar /\ RdataMapped /\ QuietVerdict /\ QuietResult

LEMMA RdataInPages == \A q \in Covered(RdataAddress, RdataSize) : q \in Pages
<1>1. SUFFICES ASSUME NEW q \in Covered(RdataAddress, RdataSize)
               PROVE  q \in Pages
  OBVIOUS
<1>2. PICK a \in RdataAddress .. RdataAddress + RdataSize - 1 : q = PageOf(a)
  BY DEF Covered
<1>3. a \in Nat /\ a <= MaxWord
  BY ValidationAssumption DEF Words
<1> QED BY <1>2, <1>3, PageOrder, ValidationAssumption DEF Pages, PageOf

LEMMA QuietInit == ASSUME Init PROVE QuietInv
<1>1. EscapeInv
  BY EscapeInit
<1>2. Typed
  <2>1. /\ changed = {} /\ alive = TRUE /\ step = "idle" /\ current = 0 /\ index = 0 /\ length = 0
        /\ verdict = "pending"
    BY DEF Init
  <2>2. 0 \in Words /\ 0 \in 0 .. MaximumEditorIdLength /\ 0 \in 0 .. MaximumEditorIdLength + 1
    BY ValidationAssumption DEF Words
  <2> QED BY <2>1, <2>2 DEF Typed, Verdicts
<1>3. Known /\ SoFar
  <2>1. step = "idle" /\ vtable = 0 /\ editorIdEntry = 0 /\ verdict = "pending"
    BY DEF Init
  <2> QED BY <2>1 DEF Known, SoFar, Probes, BeforeVtable, AfterVtable, InString
<1>4. RdataMapped
  <2>1. SUFFICES ASSUME NEW q \in Covered(RdataAddress, RdataSize)
                 PROVE  protection[q] \in {"read", "executeRead"}
    BY DEF RdataMapped
  <2>2. q \in Pages
    BY RdataInPages
  <2>3. q \notin HeapPages
    BY ValidationAssumption DEF Sections
  <2> QED BY <2>2, <2>3 DEF Init
<1>5. QuietVerdict /\ QuietResult
  BY DEF Init, QuietVerdict, QuietResult
<1> QED BY <1>1, <1>2, <1>3, <1>4, <1>5 DEF QuietInv

(* What was walked or copied is accessible, to the byte; what was refused  *)
(* is not.                                                                 *)
LEMMA WalkedIsAccessible ==
  ASSUME EscapeInv, NEW s \in Probes, Walked(s), changed = {}
  PROVE  Accessible(Address(s), Size(s), s)
<1>1. /\ step = s /\ Address(s) \in Nat \ {0} /\ End(s) \in Nat /\ End(s) <= MaxWord
      /\ current \in Nat /\ current >= End(s)
      /\ End(s) = Address(s) + Size(s) /\ Size(s) \in Nat /\ MaxWord \in Nat
  BY ProbeValues, WordsAreNumbers DEF Walked, EscapeInv, Values
<1>2. \A a \in Address(s) .. current - 1 : Allows(protection[PageOf(a)], s)
  BY <1>1 DEF EscapeInv, WalkAllowed
<1>3. \A a \in Address(s) .. Address(s) + Size(s) - 1 :
        a # 0 /\ a < MaxWord /\ a \in Address(s) .. current - 1
  BY <1>1
<1> QED BY <1>2, <1>3, Zenon DEF Accessible

LEMMA RefusedIsInaccessible ==
  ASSUME EscapeInv, Known, NEW s \in Probes, s # "formId", Address(s) # 0,
         Refused(s) \/ (CopyFails(s) /\ s # "entry" /\ changed = {})
  PROVE  ~Accessible(Address(s), Size(s), s)
<1>1. /\ Address(s) \in Nat \ {0} /\ Size(s) >= 1 /\ Size(s) \in Nat /\ MaxWord \in Nat
      /\ Asks(s) => /\ step = s /\ End(s) = Address(s) + Size(s)
                    /\ Bytes(s) = Address(s) .. Address(s) + Size(s) - 1
  BY ProbeValues DEF EscapeInv
<1>2. CASE Refused(s) /\ ~Asks(s)
  <2>1. step = s
    BY <1>2 DEF Refused
  <2>2. s = "byte" => Fits(result, index)
    <3>1. s = "byte" => result + index <= MaxWord
      BY <2>1 DEF Known, InString
    <3>2. result \in Nat /\ index \in Nat
      BY WordsAreNumbers DEF EscapeInv, Values
    <3> QED BY <1>1, <3>1, <3>2 DEF Fits
  <2>3. Address(s) + Size(s) > MaxWord
    BY <1>1, <1>2, <2>1, <2>2, ProbeValues DEF EscapeInv
  <2>4. /\ Address(s) + Size(s) - 1 \in Address(s) .. Address(s) + Size(s) - 1
        /\ ~(Address(s) + Size(s) - 1 < MaxWord)
    BY <1>1, <2>3
  <2> QED BY <2>4 DEF Accessible
<1>3. CASE Refused(s) /\ Asks(s)
  <2>1. /\ step = s /\ current < End(s) /\ current >= Address(s) /\ current \in Nat
        /\ ~Allows(protection[PageOf(current)], s)
    BY <1>1, <1>3, WordsAreNumbers DEF Refused, Known, EscapeInv, Values
  <2>2. current \in Address(s) .. Address(s) + Size(s) - 1
    BY <1>1, <1>3, <2>1
  <2> QED BY <2>1, <2>2 DEF Accessible
<1>4. CASE CopyFails(s) /\ s # "entry"
  <2>1. PICK a \in Bytes(s) : protection[PageOf(a)] \in {"none", "execute"}
    BY <1>4 DEF CopyFails, Touched
  <2>2. a \in Address(s) .. Address(s) + Size(s) - 1
    BY <1>1, <1>4, <2>1 DEF CopyFails, Walked
  <2> QED BY <1>4, <2>1, <2>2 DEF Accessible, Allows
<1> QED BY <1>2, <1>3, <1>4

LEMMA PageAbove ==
  ASSUME NEW a \in Nat, NEW last \in Nat, PageOf(a) <= last
  PROVE  a < (last + 1) * PageSize
<1>1. ASSUME NEW P \in Nat, P > 0, a \div P <= last, a >= (last + 1) * P PROVE FALSE
  <2>1. a = P * (a \div P) + (a % P) /\ a % P \in 0 .. P - 1 /\ a \div P \in Int
    BY <1>1
  <2>2. P * (a \div P) <= P * last
    BY <1>1, <2>1
  <2> QED BY <1>1, <2>1, <2>2
<1>2. PageSize \in Nat /\ PageSize > 0
  BY ValidationAssumption
<1>3. (last + 1) * PageSize \in Nat
  BY <1>2
<1> QED BY <1>1, <1>2, <1>3 DEF PageOf

(* A probe goes on.                                                        *)
LEMMA QuietQuery ==
  ASSUME QuietInv, NEW s \in Probes, Query(s), EscapeInv'
  PROVE  QuietInv'
<1>1. /\ UNCHANGED <<protection, changed, alive, step, form, vtable, editorIdEntry, result, index,
                     length, verdict>>
      /\ step = s /\ Asks(s)
  BY DEF Query, Asks, report, string
<1>2. PICK last \in PageOf(current) .. PageOf(MaxWord) :
        current' = Least((last + 1) * PageSize, End(s))
  BY DEF Query
<1>3. /\ Address(s) \in Nat /\ Size(s) \in Nat /\ End(s) \in Nat /\ End(s) = Address(s) + Size(s)
      /\ End(s) <= MaxWord /\ MaxWord \in Nat /\ current \in Nat /\ current >= Address(s)
  BY <1>1, ProbeValues, WordsAreNumbers DEF QuietInv, EscapeInv, Values, Known
<1>4. last \in Nat /\ PageOf(current) <= last
  BY <1>2, <1>3, PageOrder
<1>5. current < (last + 1) * PageSize /\ (last + 1) * PageSize \in Nat
  BY <1>3, <1>4, PageAbove, ValidationAssumption
<1>6. current' >= Address(s)
  BY <1>2, <1>3, <1>5 DEF Least, Words
<1>7. Address(s)' = Address(s)
  BY <1>1 DEF Address
<1>8. Typed'
  BY <1>1, <1>6 DEF QuietInv, Typed
<1>9. Known'
  BY <1>1, <1>6, <1>7 DEF QuietInv, Known
<1>10. SoFar' /\ RdataMapped'
  BY <1>1 DEF QuietInv, SoFar, Accessible, RdataMapped
<1>11. QuietVerdict' /\ QuietResult'
  BY <1>1 DEF Probes, QuietVerdict, QuietResult
<1> QED BY <1>8, <1>9, <1>10, <1>11 DEF QuietInv

(* The call is decided: what was known so far is in the verdict.           *)
LEMMA Decided ==
  ASSUME QuietInv, UNCHANGED <<protection, changed, alive>>, EscapeInv', step' = "decided",
         verdict' \in Verdicts,
         index' \in 0 .. MaximumEditorIdLength, length' \in 0 .. MaximumEditorIdLength + 1,
         QuietVerdict', QuietResult'
  PROVE  QuietInv'
BY DEF QuietInv, Typed, Known, SoFar, RdataMapped, Probes, BeforeVtable, AfterVtable, InString

(* The verdict on a form, unless it names a result.                        *)
LEMMA ReasonDecided ==
  ASSUME QuietInv, UNCHANGED <<protection, changed, alive, string, current>>, EscapeInv',
         step' = "decided", verdict' \in Verdicts \ ResultVerdicts,
         changed = {} => verdict' = ExpectedReason'
  PROVE  QuietInv'
<1>1. QuietVerdict' /\ QuietResult'
  BY DEF QuietVerdict, QuietResult
<1> QED BY <1>1, Decided DEF QuietInv, Typed, string

(* A probe of another range begins.                                        *)
LEMMA GoesOn ==
  ASSUME QuietInv, UNCHANGED <<protection, changed, alive, verdict>>, EscapeInv',
         step' \in Probes, verdict = "pending",
         current' >= Address(step)',
         index' \in 0 .. MaximumEditorIdLength, length' \in 0 .. MaximumEditorIdLength + 1,
         Known', SoFar'
  PROVE  QuietInv'
<1>1. QuietVerdict' /\ QuietResult'
  BY DEF Probes, QuietVerdict, QuietResult
<1>2. Typed' /\ RdataMapped'
  BY DEF QuietInv, Typed, RdataMapped
<1> QED BY <1>1, <1>2 DEF QuietInv

LEMMA QuietBegin ==
  ASSUME QuietInv, Begin, EscapeInv', alive
  PROVE  QuietInv'
<1>1. CASE \E f \in Words : BeginValidation(f)
  <2>1. PICK f \in Words : BeginValidation(f)
    BY <1>1
  <2>2. /\ UNCHANGED <<protection, changed, alive, string, vtable, editorIdEntry>>
        /\ form' = f /\ vtable = 0 /\ editorIdEntry = 0 /\ step = "idle" /\ verdict = "pending"
        /\ f \in Nat
    BY <2>1, ValidationAssumption DEF BeginValidation, Unmoved, QuietInv, Known, Words
  <2>3. CASE f = 0
    <3>1. step' = "decided" /\ verdict' = "NullForm" /\ current' = current /\ form' = 0
      BY <2>1, <2>3 DEF BeginValidation, Decide
    <3>2. ExpectedReason' = "NullForm"
      BY <3>1 DEF ExpectedReason
    <3> QED BY <2>2, <3>1, <3>2, ReasonDecided DEF Verdicts, ResultVerdicts
  <2>4. CASE f # 0
    <3>1. step' = "form" /\ current' = f /\ verdict' = verdict
      BY <2>1, <2>4 DEF BeginValidation, Enter, Undecided
    <3>2. Address(step)' = f
      BY <2>2, <3>1 DEF Address
    <3>3. Known' /\ SoFar'
      BY <2>2, <2>4, <3>1, <3>2 DEF Known, SoFar, Probes, BeforeVtable, AfterVtable, InString
    <3> QED BY <2>2, <3>1, <3>2, <3>3, GoesOn DEF Probes, string, QuietInv, Typed
  <2> QED BY <2>3, <2>4
<1>2. CASE \E a \in Words, zeroAt \in 0 .. MaximumEditorIdLength + 1 : BeginResult(a, zeroAt)
  <2>1. PICK a \in Words, zeroAt \in 0 .. MaximumEditorIdLength + 1 : BeginResult(a, zeroAt)
    BY <1>2
  <2>2. /\ UNCHANGED <<protection, changed, alive, form, vtable, editorIdEntry>>
        /\ result' = a /\ index' = 0 /\ length' = zeroAt /\ zeroAt \in Nat
        /\ step = "idle" /\ verdict = "pending" /\ a \in Nat /\ a <= MaxWord
        /\ MaximumEditorIdLength \in Nat \ {0}
    BY <2>1, ValidationAssumption DEF BeginResult, report, QuietInv, Known, Words
  <2>3. CASE a = 0
    <3>1. step' = "decided" /\ verdict' = "InvalidEditorIdResult" /\ current' = current /\ result' = 0
      BY <2>1, <2>3 DEF BeginResult, Decide
    <3>2. QuietVerdict' /\ QuietResult'
      BY <3>1 DEF QuietVerdict, QuietResult, ResultVerdicts
    <3> QED BY <2>2, <3>1, <3>2, Decided DEF Verdicts, QuietInv, Typed
  <2>4. CASE a # 0
    <3>1. step' = "byte" /\ current' = a /\ verdict' = verdict
      BY <2>1, <2>4 DEF BeginResult, Enter, Undecided
    <3>2. Address(step)' = a
      <4>1. Plus(result', index') = a
        BY <2>2, PlusWord
      <4> QED BY <3>1, <4>1 DEF Address
    <3>3. Known'
      BY <2>2, <2>4, <3>1, <3>2 DEF Known, Probes, BeforeVtable, AfterVtable, InString
    <3>4. SoFar'
      <4>1. Accessible(result, index, "byte")'
        <5>1. result' .. result' + index' - 1 = {}
          BY <2>2
        <5> QED BY <5>1 DEF Accessible
      <4> QED BY <3>1, <4>1 DEF SoFar, BeforeVtable, AfterVtable
    <3> QED BY <2>2, <3>1, <3>2, <3>3, <3>4, GoesOn DEF Probes
  <2> QED BY <2>3, <2>4
<1> QED BY <1>1, <1>2 DEF Begin

(* What the sections guarantee about a table inside the read-only data.    *)
LEMMA TableMapped ==
  ASSUME QuietInv, NEW a \in Nat, RdataAddress <= a, a < RdataAddress + RdataSize
  PROVE  protection[PageOf(a)] \in {"read", "executeRead"}
<1>1. a \in RdataAddress .. RdataAddress + RdataSize - 1
  BY ValidationAssumption DEF Words
<1> QED BY <1>1 DEF QuietInv, RdataMapped, Covered

(* Which probe an action of the call answers.                              *)
LEMMA AnswersProbe ==
  ASSUME NEW s, Walked(s) \/ Refused(s) \/ CopySucceeds(s) \/ ReadFails(s)
  PROVE  step = s
BY DEF Walked, Asks, Refused, CopySucceeds, ReadFails, CopyFails

LEMMA QuietForm ==
  ASSUME QuietInv, EscapeInv', alive,
         FormReadable \/ FormUnreadable \/ FormIdRead \/ FormTypeRead
  PROVE  QuietInv'
<1> USE DEF Unmoved, Undecided, report
<1>1. /\ UNCHANGED <<protection, changed, alive, string, form, vtable, editorIdEntry>>
      /\ step \in {"form", "formId", "formType"}
      /\ (Size("form") = FormTypeOffset + 1)
      /\ FormTypeOffset \in Nat /\ FormIdOffset \in Nat /\ FormIdOffset + FormIdSize <= FormTypeOffset
      /\ FormIdSize \in Nat /\ form \in Nat /\ MaxWord \in Nat /\ form # 0
  <2>1. step \in {"form", "formId", "formType"}
    BY AnswersProbe DEF FormReadable, FormUnreadable, FormIdRead, FormTypeRead
  <2>2. UNCHANGED <<protection, changed, alive, string, form, vtable, editorIdEntry>>
    BY DEF FormReadable, FormUnreadable, FormIdRead, FormTypeRead
  <2>3. form \in Nat /\ MaxWord \in Nat /\ form # 0
    BY <2>1, ValidationAssumption DEF QuietInv, EscapeInv, Values, Words, Known, BeforeVtable
  <2> QED BY <2>1, <2>2, <2>3, ValidationAssumption DEF Size
<1>2. vtable = 0 /\ editorIdEntry = 0 /\ verdict = "pending"
  BY <1>1 DEF QuietInv, Known, BeforeVtable
<1>3. CASE FormUnreadable
  <2>1. step' = "decided" /\ verdict' = "UnreadableForm" /\ current' = current /\ Refused("form")
    BY <1>3 DEF FormUnreadable, Decide
  <2>2. ~Accessible(form, Size("form"), "form")
    <3>1. Address("form") = form
      BY DEF Address
    <3> QED BY <1>1, <2>1, <3>1, RefusedIsInaccessible DEF QuietInv, Probes
  <2>3. ExpectedReason' = "UnreadableForm"
    BY <1>1, <2>2 DEF ExpectedReason, Accessible
  <2> QED BY <1>1, <2>1, <2>3, ReasonDecided DEF Verdicts, ResultVerdicts
<1>4. CASE FormReadable \/ FormIdRead \/ FormTypeRead
  <2>1. /\ form + Size("form") <= MaxWord
        /\ changed = {} => Accessible(form, Size("form"), "form")
    <3>1. CASE FormReadable
      <4>1. Walked("form") /\ Address("form") = form
        BY <3>1 DEF FormReadable, Address
      <4>2. form + Size("form") <= MaxWord
        BY <4>1, ProbeValues DEF QuietInv, EscapeInv, Walked, Probes
      <4> QED BY <4>1, <4>2, WalkedIsAccessible DEF QuietInv, Probes
    <3>2. CASE FormIdRead \/ FormTypeRead
      <4>1. step \in {"formId", "formType"}
        BY <3>2, AnswersProbe DEF FormIdRead, FormTypeRead
      <4> QED BY <4>1 DEF QuietInv, Known, SoFar, BeforeVtable
    <3> QED BY <1>4, <3>1, <3>2
  <2>2. /\ verdict' = verdict /\ step' \in {"formId", "formType", "vtable"}
        /\ current' = Address(step)'
    BY <1>1, <1>4 DEF FormReadable, FormIdRead, FormTypeRead, Enter, Address
  <2>3. current' \in Words /\ current' \in Nat
    BY WordsAreNumbers DEF EscapeInv, Values
  <2>4. Known'
    BY <1>1, <1>2, <2>1, <2>2, <2>3 DEF Known, Probes, BeforeVtable, AfterVtable, InString
  <2>5. SoFar'
    BY <1>1, <2>1, <2>2 DEF SoFar, Accessible, BeforeVtable, AfterVtable, InString
  <2> QED BY <1>1, <1>2, <2>2, <2>3, <2>4, <2>5, GoesOn DEF Probes, string, QuietInv, Typed
<1> QED BY <1>3, <1>4

LEMMA QuietVtable ==
  ASSUME QuietInv, EscapeInv', alive, VtableRead \/ VtableUnreadable \/ TableReadable
  PROVE  QuietInv'
<1> USE DEF Unmoved, Undecided
<1>1. /\ UNCHANGED <<protection, changed, alive, string, form, editorIdEntry>>
      /\ step \in {"vtable", "table"} /\ vtable' \in Words
  BY AnswersProbe DEF VtableRead, VtableUnreadable, TableReadable, report, QuietInv, EscapeInv, Values
<1>2. /\ form # 0 /\ editorIdEntry = 0 /\ verdict = "pending"
      /\ changed = {} => Accessible(form, Size("form"), "form")
  BY <1>1 DEF QuietInv, Known, SoFar, BeforeVtable, AfterVtable
<1>3. changed = {} => Accessible(form, Size("form"), "form")'
  BY <1>1, <1>2 DEF Accessible
<1>4. CASE VtableRead
  <2>1. step = "vtable" /\ CopySucceeds("vtable")
    BY <1>4, AnswersProbe DEF VtableRead
  <2>2. changed = {} => Accessible(form, WordSize, "vtable")'
    <3>1. Address("vtable") = form /\ Size("vtable") = WordSize
      BY DEF Address, Size
    <3>2. changed = {} => Accessible(form, WordSize, "vtable")
      BY <2>1, <3>1, WalkedIsAccessible DEF QuietInv, Probes, CopySucceeds
    <3> QED BY <1>1, <3>2 DEF Accessible
  <2>3. CASE vtable' = 0
    <3>1. step' = "decided" /\ verdict' = "UnreadableVtable" /\ current' = current
      BY <1>4, <2>3 DEF VtableRead, Decide
    <3>2. changed = {} => ExpectedReason' = "UnreadableVtable"
      BY <1>1, <1>2, <1>3, <2>3 DEF ExpectedReason
    <3> QED BY <1>1, <3>1, <3>2, ReasonDecided DEF Verdicts, ResultVerdicts
  <2>4. CASE vtable' # 0
    <3>1. step' = "table" /\ verdict' = verdict /\ current' = vtable'
      BY <1>4, <2>4 DEF VtableRead, Enter
    <3>2. Address(step)' = vtable' /\ vtable' \in Nat
      BY <1>1, <3>1, ValidationAssumption DEF Address, Words
    <3>3. Known' /\ SoFar'
      BY <1>1, <1>2, <1>3, <2>2, <2>4, <3>1, <3>2
         DEF Known, SoFar, Probes, BeforeVtable, AfterVtable, InString
    <3> QED BY <1>1, <1>2, <3>1, <3>2, <3>3, GoesOn DEF Probes, string, QuietInv, Typed
  <2> QED BY <2>3, <2>4
<1>5. CASE VtableUnreadable
  <2>1. step' = "decided" /\ verdict' = "UnreadableVtable" /\ current' = current /\ vtable' = vtable
    BY <1>5 DEF VtableUnreadable, Decide, report
  <2>2. vtable = 0 \/ ~Within(vtable, Size("table"), RdataAddress, RdataSize)
    <3>1. CASE ReadFails("vtable")
      BY <3>1, AnswersProbe DEF QuietInv, Known, BeforeVtable
    <3>2. CASE Refused("table")
      <4>1. SUFFICES ASSUME vtable # 0, Within(vtable, Size("table"), RdataAddress, RdataSize)
                     PROVE  FALSE
        OBVIOUS
      <4>2. /\ vtable \in Nat /\ Size("table") \in Nat /\ Address("table") = vtable
            /\ step = "table" /\ current \in Nat /\ current >= vtable
            /\ vtable + Size("table") <= MaxWord /\ vtable # 0 => Asks("table")
            /\ Asks("table") => End("table") = vtable + Size("table")
        <5>1. Address("table") = vtable
          BY DEF Address
        <5>2. step = "table" /\ current >= Address("table") /\ current \in Nat
          BY <3>2, AnswersProbe, WordsAreNumbers DEF QuietInv, Known, Probes, EscapeInv, Values
        <5> QED BY <5>1, <5>2, ProbeValues DEF QuietInv, EscapeInv, Probes
      <4>3. /\ vtable >= RdataAddress /\ vtable + Size("table") <= RdataAddress + RdataSize
            /\ RdataAddress + RdataSize <= MaxWord /\ RdataAddress \in Nat /\ RdataSize \in Nat
            /\ MaxWord \in Nat
        BY <4>1, ValidationAssumption DEF Within, Words
      <4>4. Asks("table") /\ current < End("table") /\ ~Allows(protection[PageOf(current)], "table")
        BY <3>2, <4>1, <4>2, <4>3 DEF Refused
      <4>5. protection[PageOf(current)] \in {"read", "executeRead"}
        BY <4>2, <4>3, <4>4, TableMapped
      <4> QED BY <4>4, <4>5 DEF Allows
    <3> QED BY <1>5, <3>1, <3>2 DEF VtableUnreadable
  <2>3. changed = {} => ExpectedReason' = "UnreadableVtable"
    BY <1>1, <1>2, <1>3, <2>1, <2>2 DEF ExpectedReason, Within
  <2> QED BY <1>1, <2>1, <2>3, ReasonDecided DEF Verdicts, ResultVerdicts
<1>6. CASE TableReadable
  <2>1. /\ step = "table" /\ vtable' = vtable /\ vtable # 0 /\ vtable \in Words
        /\ EditorIdVtableOffset \in Nat /\ WordSize \in Nat \ {0} /\ vtable \in Nat /\ MaxWord \in Nat
        /\ Size("table") = EditorIdVtableOffset + WordSize
        /\ RdataAddress \in Words /\ RdataSize \in Nat /\ RdataAddress # 0 /\ RdataSize # 0
        /\ RdataAddress + RdataSize <= MaxWord
    <3>1. step = "table" /\ vtable' = vtable
      BY <1>6, AnswersProbe DEF TableReadable, report
    <3>2. vtable # 0 /\ vtable \in Words
      BY <3>1 DEF QuietInv, Known, AfterVtable, EscapeInv, Values
    <3> QED BY <3>1, <3>2, ValidationAssumption DEF Words, Size
  <2>2. InRange(vtable, Size("table"), RdataAddress, RdataSize)
          <=> Within(vtable, Size("table"), RdataAddress, RdataSize)
    BY <2>1, InRangeExact
  <2>3. CASE Within(vtable, Size("table"), RdataAddress, RdataSize)
    <3>1. step' = "slot" /\ verdict' = verdict /\ current' = Plus(vtable, EditorIdVtableOffset)
      BY <1>6, <2>1, <2>2, <2>3 DEF TableReadable, Enter
    <3>2. Address(step)' = Plus(vtable, EditorIdVtableOffset)
      BY <2>1, <3>1 DEF Address
    <3>3. current' >= Address(step)'
      BY <2>1, <3>1, <3>2, PlusWord
    <3>4. Within(vtable, Size("table"), RdataAddress, RdataSize)'
      BY <2>1, <2>3 DEF Within
    <3>5. Known'
      BY <1>1, <1>2, <2>1, <3>1, <3>3, <3>4 DEF Known, Probes, BeforeVtable, AfterVtable, InString
    <3>6. SoFar'
      BY <1>1, <1>3, <2>1, <3>1 DEF QuietInv, SoFar, Accessible, BeforeVtable, AfterVtable, InString
    <3> QED BY <1>1, <1>2, <3>1, <3>3, <3>5, <3>6, GoesOn DEF Probes, string, QuietInv, Typed
  <2>4. CASE ~Within(vtable, Size("table"), RdataAddress, RdataSize)
    <3>1. step' = "decided" /\ verdict' = "UnreadableVtable" /\ current' = current
      BY <1>6, <2>1, <2>2, <2>4 DEF TableReadable, Decide
    <3>2. changed = {} => ExpectedReason' = "UnreadableVtable"
      BY <1>1, <1>2, <1>3, <2>1, <2>4 DEF ExpectedReason, Within
    <3> QED BY <1>1, <3>1, <3>2, ReasonDecided DEF Verdicts, ResultVerdicts
  <2> QED BY <2>3, <2>4
<1> QED BY <1>4, <1>5, <1>6

LEMMA QuietEntry ==
  ASSUME QuietInv, EscapeInv', alive, SlotRead \/ EntryUnusable \/ EntryExecutable
  PROVE  QuietInv'
<1> USE DEF Unmoved, Undecided
<1>1. /\ UNCHANGED <<protection, changed, alive, string, form, vtable>>
      /\ step \in {"slot", "entry"} /\ editorIdEntry' \in Words
  BY AnswersProbe DEF SlotRead, EntryUnusable, EntryExecutable, report, QuietInv, EscapeInv, Values
<1>2. /\ form # 0 /\ vtable # 0 /\ verdict = "pending"
      /\ Within(vtable, Size("table"), RdataAddress, RdataSize)
      /\ changed = {} => /\ Accessible(form, Size("form"), "form")
                     /\ Accessible(form, WordSize, "vtable")
  BY <1>1 DEF QuietInv, Known, SoFar, BeforeVtable, AfterVtable
<1>3. /\ form' # 0 /\ vtable' # 0
      /\ Within(vtable, Size("table"), RdataAddress, RdataSize)'
      /\ changed = {} => /\ Accessible(form, Size("form"), "form")'
                     /\ Accessible(form, WordSize, "vtable")'
  BY <1>1, <1>2 DEF Accessible, Within
<1>4. CASE SlotRead
  <2>1. step = "slot"
    BY <1>4, AnswersProbe DEF SlotRead
  <2>2. CASE editorIdEntry' = 0
    <3>1. step' = "decided" /\ verdict' = "NonExecutableEditorId" /\ current' = current
      BY <1>4, <2>2 DEF SlotRead, Decide
    <3>2. changed = {} => ExpectedReason' = "NonExecutableEditorId"
      BY <1>3, <2>2 DEF ExpectedReason
    <3> QED BY <1>1, <3>1, <3>2, ReasonDecided DEF Verdicts, ResultVerdicts
  <2>3. CASE editorIdEntry' # 0
    <3>1. step' = "entry" /\ verdict' = verdict /\ current' = editorIdEntry'
      BY <1>4, <2>3 DEF SlotRead, Enter
    <3>2. Address(step)' = editorIdEntry' /\ editorIdEntry' \in Nat
      BY <1>1, <3>1, ValidationAssumption DEF Address, Words
    <3>3. Known' /\ SoFar'
      BY <1>1, <1>2, <1>3, <2>3, <3>1, <3>2
         DEF Known, SoFar, Probes, BeforeVtable, AfterVtable, InString
    <3> QED BY <1>1, <1>2, <3>1, <3>2, <3>3, GoesOn DEF Probes, string, QuietInv, Typed
  <2> QED BY <2>2, <2>3
<1>5. CASE EntryUnusable
  <2>1. /\ step' = "decided" /\ verdict' = "NonExecutableEditorId" /\ current' = current
        /\ editorIdEntry' = editorIdEntry
    BY <1>5 DEF EntryUnusable, Decide, report
  <2>2. editorIdEntry = 0 \/ ~Accessible(editorIdEntry, 1, "entry")
    <3>1. CASE ReadFails("slot")
      BY <3>1, AnswersProbe DEF QuietInv, Known
    <3>2. CASE Refused("entry")
      <4>1. Address("entry") = editorIdEntry /\ Size("entry") = 1
        BY DEF Address, Size
      <4> QED BY <3>2, <4>1, RefusedIsInaccessible DEF QuietInv, Probes
    <3> QED BY <1>5, <3>1, <3>2 DEF EntryUnusable
  <2>3. editorIdEntry' = 0 \/ ~Accessible(editorIdEntry, 1, "entry")'
    BY <1>1, <2>1, <2>2 DEF Accessible
  <2>4. changed = {} => ExpectedReason' = "NonExecutableEditorId"
    BY <1>3, <2>3 DEF ExpectedReason
  <2> QED BY <1>1, <2>1, <2>4, ReasonDecided DEF Verdicts, ResultVerdicts
<1>6. CASE EntryExecutable
  <2>1. /\ step = "entry" /\ step' = "decided" /\ current' = current
        /\ editorIdEntry' = editorIdEntry /\ Walked("entry")
        /\ verdict' = IF InRange(editorIdEntry, 1, TextAddress, TextSize)
                        THEN "None" ELSE "EditorIdOutsideGameText"
    BY <1>6, AnswersProbe DEF EntryExecutable, Decide, report
  <2>2. editorIdEntry # 0 /\ editorIdEntry \in Words
    BY <2>1 DEF QuietInv, Known, EscapeInv, Values
  <2>3. changed = {} => Accessible(editorIdEntry, 1, "entry")'
    <3>1. Address("entry") = editorIdEntry /\ Size("entry") = 1
      BY DEF Address, Size
    <3>2. changed = {} => Accessible(editorIdEntry, 1, "entry")
      BY <2>1, <3>1, WalkedIsAccessible DEF QuietInv, Probes
    <3> QED BY <1>1, <2>1, <3>2 DEF Accessible
  <2>4. InRange(editorIdEntry, 1, TextAddress, TextSize)
          <=> Within(editorIdEntry, 1, TextAddress, TextSize)
    <3>1. /\ TextAddress \in Words /\ TextSize \in Nat /\ TextAddress # 0 /\ TextSize # 0
          /\ TextAddress + TextSize <= MaxWord /\ 1 \in Nat
      BY ValidationAssumption DEF Words
    <3> QED BY <2>2, <3>1, InRangeExact
  <2>5. Within(editorIdEntry, 1, TextAddress, TextSize)'
          <=> Within(editorIdEntry, 1, TextAddress, TextSize)
    BY <2>1 DEF Within
  <2>6. CASE Within(editorIdEntry, 1, TextAddress, TextSize)
    <3>1. verdict' = "None"
      BY <2>1, <2>4, <2>6
    <3>2. changed = {} => ExpectedReason' = "None"
      BY <1>3, <2>1, <2>2, <2>3, <2>5, <2>6 DEF ExpectedReason
    <3> QED BY <1>1, <2>1, <3>1, <3>2, ReasonDecided DEF Verdicts, ResultVerdicts
  <2>7. CASE ~Within(editorIdEntry, 1, TextAddress, TextSize)
    <3>1. verdict' = "EditorIdOutsideGameText"
      BY <2>1, <2>4, <2>7
    <3>2. changed = {} => ExpectedReason' = "EditorIdOutsideGameText"
      BY <1>3, <2>1, <2>2, <2>3, <2>5, <2>7 DEF ExpectedReason
    <3> QED BY <1>1, <2>1, <3>1, <3>2, ReasonDecided DEF Verdicts, ResultVerdicts
  <2> QED BY <2>6, <2>7
<1> QED BY <1>4, <1>5, <1>6

(* The string is known to be readable one byte further.                    *)
LEMMA ByteJoins ==
  ASSUME NEW r \in Nat, NEW i \in Nat, Accessible(r, i, "byte"), Accessible(r + i, 1, "byteCopy")
  PROVE  Accessible(r, i + 1, "byte")
<1>1. SUFFICES ASSUME NEW a \in r .. r + (i + 1) - 1
               PROVE  a # 0 /\ a < MaxWord /\ Allows(protection[PageOf(a)], "byte")
  BY DEF Accessible
<1>2. CASE a \in r .. r + i - 1
  BY <1>2 DEF Accessible
<1>3. CASE a \notin r .. r + i - 1
  <2>1. a \in (r + i) .. (r + i) + 1 - 1
    BY <1>1, <1>3
  <2> QED BY <2>1 DEF Accessible, Allows
<1> QED BY <1>2, <1>3

LEMMA ByteWanted ==
  ASSUME NEW r \in Nat, NEW i \in Nat, NEW n \in Nat, i <= n,
         NEW s \in InString, ~Accessible(r + i, 1, s)
  PROVE  ~Accessible(r, n + 1, "byte")
<1>1. PICK a \in (r + i) .. (r + i) + 1 - 1 :
        ~(a # 0 /\ a < MaxWord /\ Allows(protection[PageOf(a)], s))
  BY DEF Accessible
<1>2. a \in r .. r + (n + 1) - 1
  BY <1>1
<1> QED BY <1>1, <1>2 DEF Accessible, Allows, InString

LEMMA QuietString ==
  ASSUME QuietInv, EscapeInv', alive, CheckResult
  PROVE  QuietInv'
<1>1. /\ UNCHANGED <<protection, changed, alive, form, vtable, editorIdEntry, result, length>>
      /\ step \in InString
  BY AnswersProbe DEF CheckResult, ByteReadable, ByteUnreadable, Terminated, NextByte, ResultStep,
     report, InString
<1>2. /\ result \in Nat /\ result # 0 /\ index \in Nat /\ length \in Nat /\ index <= length
      /\ result + index <= MaxWord
      /\ index < MaximumEditorIdLength /\ verdict = "pending" /\ MaximumEditorIdLength \in Nat
      /\ length \in 0 .. MaximumEditorIdLength + 1 /\ current \in Words /\ MaxWord \in Nat
  <2>1. /\ result # 0 /\ index <= length /\ index < MaximumEditorIdLength /\ verdict = "pending"
        /\ result + index <= MaxWord
    BY <1>1 DEF QuietInv, Known, InString
  <2>2. /\ result \in Words /\ current \in Words /\ index \in 0 .. MaximumEditorIdLength
        /\ length \in 0 .. MaximumEditorIdLength + 1
    BY DEF QuietInv, EscapeInv, Values, Typed
  <2> QED BY <2>1, <2>2, ValidationAssumption DEF Words
<1>3. changed = {} => Accessible(result, index, "byte")
  BY <1>1 DEF QuietInv, SoFar
<1>4. /\ Address("byte") = result + index /\ Address("byteCopy") = result + index
      /\ Size("byte") = 1 /\ Size("byteCopy") = 1 /\ Plus(result, index) = result + index
  BY <1>2, PlusWord DEF Address, Size
<1>5. \A s \in InString : Walked(s) => result + index + 1 <= MaxWord
  <2>1. SUFFICES ASSUME NEW s \in InString, Walked(s)
                 PROVE  result + index + 1 <= MaxWord
    OBVIOUS
  <2>2. Address(s) + Size(s) <= MaxWord
    BY <2>1, ProbeValues DEF QuietInv, EscapeInv, Walked, Probes, InString
  <2> QED BY <1>2, <1>4, <2>2 DEF InString
<1>6. CASE ByteReadable
  <2>1. /\ Walked("byte") /\ step' = "byteCopy" /\ current' = result + index /\ index' = index
        /\ verdict' = verdict
    BY <1>4, <1>6 DEF ByteReadable, Enter, Undecided
  <2>2. Address(step)' = result + index
    BY <1>1, <1>4, <2>1 DEF Address
  <2>3. current' >= Address(step)'
    BY <1>2, <2>1, <2>2
  <2>4. Known'
    BY <1>1, <1>2, <2>1, <2>3 DEF Known, Probes, BeforeVtable, AfterVtable, InString
  <2>5. SoFar'
    BY <1>1, <1>3, <2>1 DEF SoFar, Accessible, BeforeVtable, AfterVtable, InString
  <2> QED BY <1>1, <1>2, <2>1, <2>3, <2>4, <2>5, GoesOn DEF Probes, QuietInv, Typed
<1>7. CASE ByteUnreadable
  <2>1. /\ step' = "decided" /\ verdict' = "InvalidEditorIdResult" /\ index' = index
        /\ current' = current
    BY <1>7 DEF ByteUnreadable, Decide
  <2>2. result + index # 0 /\ "byte" \in InString /\ "byteCopy" \in InString
    BY <1>2 DEF InString
  <2>3. changed = {} => ~Accessible(result, length + 1, "byte")
    <3>1. CASE Refused("byte")
      <4>1. ~Accessible(result + index, 1, "byte")
        BY <1>4, <2>2, <3>1, RefusedIsInaccessible DEF QuietInv, Probes
      <4> QED BY <1>2, <2>2, <4>1, ByteWanted
    <3>2. CASE ReadFails("byteCopy") /\ changed = {}
      <4>1. ~Accessible(result + index, 1, "byteCopy")
        BY <1>4, <2>2, <3>2, RefusedIsInaccessible DEF QuietInv, Probes, ReadFails
      <4> QED BY <1>2, <2>2, <4>1, ByteWanted
    <3> QED BY <1>7, <3>1, <3>2 DEF ByteUnreadable
  <2>4. changed = {} => ~Accessible(result, length + 1, "byte")'
    BY <1>1, <2>3 DEF Accessible
  <2>5. QuietVerdict' /\ QuietResult'
    BY <1>1, <2>1, <2>4 DEF QuietVerdict, QuietResult, ResultVerdicts
  <2> QED BY <1>1, <1>2, <2>1, <2>5, Decided DEF Verdicts, QuietInv, Typed
<1>8. CASE Terminated \/ NextByte
  <2>1. CopySucceeds("byteCopy") /\ step = "byteCopy"
    BY <1>8, AnswersProbe DEF Terminated, NextByte
  <2>2. changed = {} => Accessible(result, index + 1, "byte")
    <3>1. changed = {} => Accessible(result + index, 1, "byteCopy")
      BY <1>4, <2>1, WalkedIsAccessible DEF QuietInv, Probes, CopySucceeds
    <3> QED BY <1>2, <1>3, <3>1, ByteJoins
  <2>3. CASE Terminated
    <3>1. /\ step' = "decided" /\ verdict' = "ResultReadable" /\ index' = index
          /\ current' = current /\ index = length
      BY <2>3 DEF Terminated, Decide
    <3>2. changed = {} => Accessible(result, length + 1, "byte")'
      BY <1>1, <2>2, <3>1 DEF Accessible
    <3>3. QuietVerdict' /\ QuietResult'
      BY <1>1, <1>2, <3>1, <3>2 DEF QuietVerdict, QuietResult, ResultVerdicts
    <3> QED BY <1>1, <1>2, <3>1, <3>3, Decided DEF Verdicts, QuietInv, Typed
  <2>4. CASE NextByte
    <3>1. index' = index + 1 /\ index # length
      BY <2>4 DEF NextByte
    <3>2. index' \in 0 .. MaximumEditorIdLength /\ index' \in Nat /\ index + 1 <= length
      BY <1>2, <3>1
    <3>3. CASE index' < MaximumEditorIdLength
      <4>1. result + index' <= MaxWord /\ Plus(result, index') = result + index'
        <5>1. result + index + 1 <= MaxWord
          BY <1>5, <2>1 DEF CopySucceeds, InString
        <5>2. result + index' <= MaxWord
          BY <1>2, <3>1, <5>1
        <5> QED BY <1>2, <3>2, <5>2, PlusWord
      <4>2. step' = "byte" /\ current' = result + index' /\ verdict' = verdict
        BY <2>4, <3>3, <4>1 DEF NextByte, Enter, Undecided
      <4>3. Address(step)' = result + index'
        BY <1>1, <4>1, <4>2 DEF Address
      <4>4. current' >= Address(step)'
        <5>1. current' \in Nat
          BY WordsAreNumbers DEF EscapeInv, Values
        <5> QED BY <4>2, <4>3, <5>1
      <4>5. Known'
        BY <1>1, <1>2, <3>1, <3>2, <3>3, <4>1, <4>2, <4>4
           DEF Known, Probes, BeforeVtable, AfterVtable, InString
      <4>6. SoFar'
        <5>1. changed = {} => Accessible(result, index, "byte")'
          BY <1>1, <2>2, <3>1 DEF Accessible
        <5> QED BY <1>1, <4>2, <5>1 DEF SoFar, BeforeVtable, AfterVtable
      <4> QED BY <1>1, <1>2, <3>2, <4>2, <4>4, <4>5, <4>6, GoesOn DEF Probes, QuietInv, Typed
    <3>4. CASE ~(index' < MaximumEditorIdLength)
      <4>1. step' = "decided" /\ verdict' = "InvalidEditorIdResult" /\ current' = current
        BY <2>4, <3>4 DEF NextByte, Decide
      <4>2. ~(length < MaximumEditorIdLength)
        BY <1>2, <3>1, <3>2, <3>4
      <4>3. QuietVerdict' /\ QuietResult'
        BY <1>1, <4>1, <4>2 DEF QuietVerdict, QuietResult, ResultVerdicts
      <4> QED BY <1>1, <1>2, <3>2, <4>1, <4>3, Decided DEF Verdicts, QuietInv, Typed
    <3> QED BY <3>3, <3>4
  <2> QED BY <1>8, <2>3, <2>4
<1> QED BY <1>6, <1>7, <1>8 DEF CheckResult

LEMMA QuietReturn ==
  ASSUME QuietInv, EscapeInv', alive, Return
  PROVE  QuietInv'
<1>1. /\ step' = "idle" /\ current' = 0 /\ index' = 0 /\ length' = 0 /\ changed' = {}
      /\ form' = 0 /\ vtable' = 0 /\ editorIdEntry' = 0 /\ verdict' = "pending"
      /\ UNCHANGED <<protection, alive>>
  BY DEF Return
<1>2. 0 \in Words /\ 0 \in 0 .. MaximumEditorIdLength /\ 0 \in 0 .. MaximumEditorIdLength + 1
  BY ValidationAssumption DEF Words
<1>3. Typed' /\ RdataMapped'
  BY <1>1, <1>2 DEF QuietInv, Typed, RdataMapped, Verdicts
<1>4. Known' /\ SoFar'
  BY <1>1 DEF Known, SoFar, Probes, BeforeVtable, AfterVtable, InString
<1>5. QuietVerdict' /\ QuietResult'
  BY <1>1 DEF QuietVerdict, QuietResult
<1> QED BY <1>3, <1>4, <1>5 DEF QuietInv

(* A copy that met a guard page has ended the process where it was.        *)
LEMMA QuietEscape ==
  ASSUME QuietInv, EscapeInv', NEW s \in Probes, CopyEscapes(s)
  PROVE  QuietInv'
<1>1. /\ UNCHANGED <<protection, changed, step, current, form, vtable, editorIdEntry, result, index,
                     length, verdict>>
      /\ alive' = FALSE
  BY DEF CopyEscapes, report, string
<1>2. Typed' /\ RdataMapped' /\ SoFar'
  BY <1>1 DEF QuietInv, Typed, RdataMapped, SoFar, Accessible
<1>3. Known'
  BY <1>1 DEF QuietInv, Known, Address
<1>4. step # "decided"
  BY DEF CopyEscapes, Walked, Asks, Probes
<1>5. QuietVerdict' /\ QuietResult'
  BY <1>1, <1>4 DEF QuietVerdict, QuietResult
<1> QED BY <1>2, <1>3, <1>5 DEF QuietInv

(* The engine takes the facts about memory away, but not the sections.     *)
LEMMA QuietChange ==
  ASSUME QuietInv, EscapeInv', NEW q \in HeapPages, Change(q)
  PROVE  QuietInv'
<1>1. /\ UNCHANGED <<alive, step, current, form, vtable, editorIdEntry, result, index, length, verdict>>
      /\ changed' = IF step = "idle" THEN {} ELSE changed \cup {q}
      /\ \E p \in Protections : protection' = [protection EXCEPT ![q] = p]
  BY DEF Change, report, string
<1>2. Typed'
  BY <1>1 DEF QuietInv, Typed
<1>3. Known'
  BY <1>1 DEF QuietInv, Known, Address
<1>4. RdataMapped'
  <2>1. \A c \in Covered(RdataAddress, RdataSize) : c # q
    BY ValidationAssumption DEF Sections
  <2>2. protection \in [Pages -> Protections]
    BY DEF QuietInv, EscapeInv, GuardsInHeap
  <2>3. \A c \in Covered(RdataAddress, RdataSize) : protection'[c] = protection[c]
    <3>1. PICK p \in Protections : protection' = [protection EXCEPT ![q] = p]
      BY <1>1
    <3>2. \A c \in Covered(RdataAddress, RdataSize) : c \in Pages
      BY RdataInPages
    <3> QED BY <2>1, <2>2, <3>1, <3>2
  <2> QED BY <2>3 DEF QuietInv, RdataMapped
<1>5. SoFar'
  BY <1>1 DEF SoFar, BeforeVtable, AfterVtable, InString
<1>6. QuietVerdict' /\ QuietResult'
  BY <1>1 DEF QuietVerdict, QuietResult
<1> QED BY <1>2, <1>3, <1>4, <1>5, <1>6 DEF QuietInv

LEMMA QuietStep == ASSUME QuietInv, [Next]_vars PROVE QuietInv'
<1>1. EscapeInv'
  BY EscapeStep DEF QuietInv
<1>2. CASE UNCHANGED vars
  <2>1. UNCHANGED <<protection, changed, alive, step, current, form, vtable, editorIdEntry, result,
                    index, length, verdict>>
    BY <1>2 DEF vars, report, string
  <2>2. Known' /\ SoFar' /\ RdataMapped' /\ Typed'
    BY <2>1 DEF QuietInv, Known, Address, SoFar, Accessible, RdataMapped, Typed
  <2>3. QuietVerdict'
    BY <2>1 DEF QuietInv, QuietVerdict, ExpectedReason, Accessible, Within
  <2>4. QuietResult'
    BY <2>1 DEF QuietInv, QuietResult, Accessible
  <2> QED BY <1>1, <2>2, <2>3, <2>4 DEF QuietInv
<1>3. CASE alive /\ Validate
  BY <1>1, <1>3, QuietForm, QuietVtable, QuietEntry DEF Validate
<1>4. CASE alive /\ Walk
  BY <1>1, <1>4, QuietQuery, QuietEscape DEF Walk
<1>5. CASE alive /\ (Begin \/ Return \/ CheckResult)
  BY <1>1, <1>5, QuietBegin, QuietReturn, QuietString
<1>6. CASE \E q \in HeapPages : Change(q)
  BY <1>1, <1>6, QuietChange
<1> QED BY <1>2, <1>3, <1>4, <1>5, <1>6 DEF Next, Thread, Dead

LEMMA QuietAlways == Spec => []QuietInv
<1>1. Init => QuietInv
  BY QuietInit
<1>2. QuietInv /\ [Next]_vars => QuietInv'
  BY QuietStep
<1> QED BY <1>1, <1>2, PTL DEF Spec

(* Every variable keeps its type; in particular no string index passes the *)
(* limit (SaveLoadGuardValidation.cpp:97-123).                             *)
THEOREM ValidationTypes == Spec => []ValidationTypeOK
<1>1. QuietInv => ValidationTypeOK
  BY DEF QuietInv, EscapeInv, Values, GuardsInHeap, Typed, ValidationTypeOK
<1> QED BY <1>1, QuietAlways, PTL

(* In memory that holds still, a form is given exactly the reason its      *)
(* bytes deserve: the walk over regions neither passes a byte that cannot  *)
(* be read nor refuses a range that can                                    *)
(* (SaveLoadGuardValidation.cpp:43-95, MemoryReader.cpp:88-168).           *)
THEOREM VerdictIsRight == Spec => []QuietVerdict
<1>1. QuietInv => QuietVerdict
  BY DEF QuietInv
<1> QED BY <1>1, QuietAlways, PTL

(* In memory that holds still, an editor ID is accepted if and only if it  *)
(* ends within the limit and every byte up to its zero can be read         *)
(* (SaveLoadGuardValidation.cpp:97-117).                                   *)
THEOREM ResultIsRight == Spec => []QuietResult
<1>1. QuietInv => QuietResult
  BY DEF QuietInv
<1> QED BY <1>1, QuietAlways, PTL
=============================================================================
