--------------------------- MODULE TargetValidation ---------------------------
(***************************************************************************)
(* The verdict on a form (Validation/SaveLoadGuardValidation.cpp) and the  *)
(* memory reader under it (Validation/MemoryReader.cpp), while the engine  *)
(* frees, remaps and protects pages at any moment.                         *)
(*                                                                         *)
(* A call is a sequence of probes.  A probe asks VirtualQuery about one    *)
(* region after the other until its range is covered; a probe that reads   *)
(* then copies the bytes, which may have changed since.  What a copied     *)
(* word holds is a choice: the object may be freed memory.  Addresses are  *)
(* words of the machine, 0 .. MaxWord, and a sum of them wraps as there.   *)
(***************************************************************************)
EXTENDS Integers

CONSTANTS MaxWord,                     (* largest address                   *)
          PageSize,
          TextAddress, TextSize,       (* g_gameTextAddress ...             *)
          RdataAddress, RdataSize,
          FormIdOffset, FormIdSize,    (* 0x14, 4                           *)
          FormTypeOffset,              (* 0x1A                              *)
          EditorIdVtableOffset,        (* 0x1D0                             *)
          WordSize,                    (* 8                                 *)
          HeapPages,                   (* pages that change                 *)
          MaximumEditorIdLength        (* 512                               *)

Words == 0 .. MaxWord
Pages == 0 .. MaxWord \div PageSize
PageOf(a) == a \div PageSize

(* The addition of the machine.                                            *)
Plus(a, b) == (a + b) % (MaxWord + 1)

Covered(address, size) == {PageOf(a) : a \in address .. address + size - 1}
Sections == Covered(TextAddress, TextSize) \cup Covered(RdataAddress, RdataSize)

(* The sections lie in the image, and the pages they touch are mapped for  *)
(* good.  Neither the first nor the last page is ever mapped for a process.*)
ASSUME ValidationAssumption ==
  /\ MaxWord \in Nat /\ PageSize \in Nat \ {0}
  /\ {TextAddress, TextSize, RdataAddress, RdataSize} \subseteq Words \ {0}
  /\ {FormIdOffset, FormIdSize, FormTypeOffset, EditorIdVtableOffset} \subseteq Nat
  /\ WordSize \in Nat \ {0}
  /\ TextAddress + TextSize <= MaxWord /\ RdataAddress + RdataSize <= MaxWord
  /\ FormIdOffset + FormIdSize <= FormTypeOffset
  /\ HeapPages \subseteq Pages \ Sections
  /\ HeapPages \cup Sections \subseteq Pages \ {PageOf(0), PageOf(MaxWord)}
  /\ MaximumEditorIdLength \in Nat \ {0}

VARIABLES
  protection,             (* per page: "none" (free, reserved, no access),  *)
                          (* "guard", "read" (with or without write),       *)
                          (* "execute", "executeRead"                       *)
  changed,                (* history: the pages that changed in this call   *)
  alive,                  (* no exception escaped the reader                *)
  step,                   (* the probe under way                            *)
  current,                (* IsAccessible: where the next query begins      *)
  form, vtable, editorIdEntry,    (* ValidationReport                       *)
  result, index,          (* IsEditorIdResultReadable: the string, and how  *)
  length,                 (* far; the zero is at this offset                *)
  verdict                 (* what the call returns                          *)

report == <<form, vtable, editorIdEntry>>
string == <<result, index, length>>
vars == <<protection, changed, alive, step, current, report, string, verdict>>

Protections == {"none", "guard", "read", "execute", "executeRead"}
Least(a, b) == IF a < b THEN a ELSE b

Init ==
  /\ protection \in {p \in [Pages -> Protections] :
       \A q \in Pages : q \notin HeapPages =>
         p[q] = IF q \in Covered(TextAddress, TextSize) THEN "executeRead"
                ELSE IF q \in Covered(RdataAddress, RdataSize) THEN "read" ELSE "none"}
  /\ changed = {} /\ alive = TRUE
  /\ step = "idle" /\ current = 0
  /\ form = 0 /\ vtable = 0 /\ editorIdEntry = 0
  /\ result = 0 /\ index = 0 /\ length = 0
  /\ verdict = "pending"

-----------------------------------------------------------------------------
(* Ranges.                                                                 *)

(* Variant: the end is taken as the sum gives it.                          *)
FitsAlways(begin, size) == TRUE

(* CheckedEnd succeeds.                                                    *)
Fits(begin, size) == size <= MaxWord - begin

InRange(address, size, rangeAddress, rangeSize) ==
  /\ rangeAddress # 0 /\ rangeSize # 0
  /\ address >= rangeAddress
  /\ Fits(rangeAddress, rangeSize)
  /\ address <= Plus(rangeAddress, rangeSize)
  /\ Fits(address, size)
  /\ Plus(address, size) <= Plus(rangeAddress, rangeSize)

-----------------------------------------------------------------------------
(* The probes, in the order of the code: what they ask about.              *)

Probes == {"form", "formId", "formType", "vtable", "table", "slot", "entry", "byte", "byteCopy"}
Copying == {"formId", "formType", "vtable", "slot", "byteCopy"}

Address(s) ==
  CASE s \in {"form", "vtable"}   -> form
    [] s = "formId"               -> Plus(form, FormIdOffset)
    [] s = "formType"             -> Plus(form, FormTypeOffset)
    [] s = "table"                -> vtable
    [] s = "slot"                 -> Plus(vtable, EditorIdVtableOffset)
    [] s = "entry"                -> editorIdEntry
    [] s \in {"byte", "byteCopy"} -> Plus(result, index)

Size(s) ==
  CASE s = "form"             -> FormTypeOffset + 1
    [] s = "formId"           -> FormIdSize
    [] s \in {"vtable", "slot"} -> WordSize
    [] s = "table"            -> EditorIdVtableOffset + WordSize
    [] OTHER                  -> 1

(* ProtectionAllows.                                                       *)
Allows(p, s) ==
  p \in IF s = "entry" THEN {"execute", "executeRead"} ELSE {"read", "executeRead"}

Enter(s, address) == step' = s /\ current' = address

Decide(v) ==
  /\ step' = "decided"
  /\ verdict' = v
  /\ UNCHANGED current

-----------------------------------------------------------------------------
(* IsAccessible; a byte of the string must lie behind its beginning.       *)

Asks(s) ==
  /\ step = s
  /\ s = "byte" => Fits(result, index)
  /\ Address(s) # 0 /\ Fits(Address(s), Size(s))

End(s) == Plus(Address(s), Size(s))

(* Variant: a region is entered again at its base.                         *)
QueryFromBase(s) ==
  /\ Asks(s) /\ current < End(s)
  /\ Allows(protection[PageOf(current)], s)
  /\ current' = PageOf(current) * PageSize
  /\ UNCHANGED <<protection, changed, alive, step, report, string, verdict>>

(* Variant: the page the range begins on answers for all of it.            *)
QueryFirstPageOnly(s) ==
  /\ Asks(s) /\ current < End(s)
  /\ Allows(protection[PageOf(current)], s)
  /\ current' = End(s)
  /\ UNCHANGED <<protection, changed, alive, step, report, string, verdict>>

(* A region reaches from the page asked about over any number of equal     *)
(* pages; allocations of their own end it sooner.                          *)
Query(s) ==
  /\ Asks(s) /\ current < End(s)
  /\ Allows(protection[PageOf(current)], s)
  /\ \E last \in PageOf(current) .. PageOf(MaxWord) :
       /\ \A q \in PageOf(current) .. last : protection[q] = protection[PageOf(current)]
       /\ current' = Least((last + 1) * PageSize, End(s))
  /\ UNCHANGED <<protection, changed, alive, step, report, string, verdict>>

Walked(s) == Asks(s) /\ current >= End(s)

Refused(s) ==
  /\ step = s
  /\ \/ ~Asks(s)
     \/ current < End(s) /\ ~Allows(protection[PageOf(current)], s)

(* Read's copy, after its walk: it comes back with the bytes, or a page    *)
(* has become inaccessible since and the handler turns that into failure,  *)
(* or a guard page raises what the handler does not take.  Whether a page  *)
(* made executable only can still be read is up to the machine.            *)
Bytes(s) == {Plus(Address(s), k) : k \in 0 .. Size(s) - 1}
Touched(s) == {protection[PageOf(a)] : a \in Bytes(s)}

CopySucceeds(s) == Walked(s) /\ Touched(s) \cap {"none", "guard"} = {}
CopyFails(s)    == Walked(s) /\ Touched(s) \cap {"none", "execute"} # {}

(* Variant: the copy is not protected.                                     *)
CopyFaultsUnhandled(s) ==
  /\ Walked(s) /\ s \in Copying
  /\ Touched(s) \cap {"none", "guard"} # {}
  /\ alive' = FALSE
  /\ UNCHANGED <<protection, changed, step, current, report, string, verdict>>

CopyEscapes(s) ==
  /\ Walked(s) /\ s \in Copying
  /\ "guard" \in Touched(s)
  /\ alive' = FALSE
  /\ UNCHANGED <<protection, changed, step, current, report, string, verdict>>

ReadFails(s) == Refused(s) \/ CopyFails(s)

-----------------------------------------------------------------------------
(* ValidateEditorIdTarget.                                                 *)

Unmoved == UNCHANGED <<protection, changed, alive, string>>
Undecided == UNCHANGED verdict

BeginValidation(f) ==
  /\ step = "idle"
  /\ form' = f
  /\ IF f = 0 THEN Decide("NullForm") ELSE Enter("form", f) /\ Undecided
  /\ UNCHANGED <<vtable, editorIdEntry>>
  /\ Unmoved

FormReadable ==
  /\ Walked("form")
  /\ Enter("formId", Plus(form, FormIdOffset))
  /\ Undecided /\ UNCHANGED report /\ Unmoved

FormUnreadable ==
  /\ Refused("form")
  /\ Decide("UnreadableForm")
  /\ UNCHANGED report /\ Unmoved

(* Whether the two fields of the incident could be read does not matter.   *)
FormIdRead ==
  /\ CopySucceeds("formId") \/ ReadFails("formId")
  /\ Enter("formType", Plus(form, FormTypeOffset))
  /\ Undecided /\ UNCHANGED report /\ Unmoved

FormTypeRead ==
  /\ CopySucceeds("formType") \/ ReadFails("formType")
  /\ Enter("vtable", form)
  /\ Undecided /\ UNCHANGED report /\ Unmoved

VtableRead ==
  /\ CopySucceeds("vtable")
  /\ \E v \in Words :
       /\ vtable' = v
       /\ IF v = 0 THEN Decide("UnreadableVtable") ELSE Enter("table", v) /\ Undecided
  /\ UNCHANGED <<form, editorIdEntry>> /\ Unmoved

VtableUnreadable ==
  /\ ReadFails("vtable") \/ Refused("table")
  /\ Decide("UnreadableVtable")
  /\ UNCHANGED report /\ Unmoved

TableReadable ==
  /\ Walked("table")
  /\ IF InRange(vtable, EditorIdVtableOffset + WordSize, RdataAddress, RdataSize)
       THEN Enter("slot", Plus(vtable, EditorIdVtableOffset)) /\ Undecided
       ELSE Decide("UnreadableVtable")
  /\ UNCHANGED report /\ Unmoved

(* Variant: the vtable is fetched from the form once more.                 *)
SlotReadThroughForm ==
  /\ CopySucceeds("slot")
  /\ \E v \in Words \ {0}, e \in Words :
       /\ vtable' = v
       /\ editorIdEntry' = e
       /\ IF e = 0 THEN Decide("NonExecutableEditorId") ELSE Enter("entry", e) /\ Undecided
  /\ UNCHANGED form /\ Unmoved

SlotRead ==
  /\ CopySucceeds("slot")
  /\ \E e \in Words :
       /\ editorIdEntry' = e
       /\ IF e = 0 THEN Decide("NonExecutableEditorId") ELSE Enter("entry", e) /\ Undecided
  /\ UNCHANGED <<form, vtable>> /\ Unmoved

EntryUnusable ==
  /\ ReadFails("slot") \/ Refused("entry")
  /\ Decide("NonExecutableEditorId")
  /\ UNCHANGED report /\ Unmoved

EntryExecutable ==
  /\ Walked("entry")
  /\ Decide(IF InRange(editorIdEntry, 1, TextAddress, TextSize)
              THEN "None" ELSE "EditorIdOutsideGameText")
  /\ UNCHANGED report /\ Unmoved

-----------------------------------------------------------------------------
(* IsEditorIdResultReadable: byte by byte, each one probed, then copied.   *)

BeginResult(address, zeroAt) ==
  /\ step = "idle"
  /\ result' = address /\ index' = 0 /\ length' = zeroAt
  /\ IF address = 0 THEN Decide("InvalidEditorIdResult")
                    ELSE Enter("byte", address) /\ Undecided
  /\ UNCHANGED <<protection, changed, alive, report>>

ResultStep == UNCHANGED <<protection, changed, alive, report, result, length>>

ByteReadable ==
  /\ Walked("byte")
  /\ Enter("byteCopy", Plus(result, index))
  /\ Undecided /\ UNCHANGED index /\ ResultStep

ByteUnreadable ==
  /\ Refused("byte") \/ ReadFails("byteCopy")
  /\ Decide("InvalidEditorIdResult")
  /\ UNCHANGED index /\ ResultStep

Terminated ==
  /\ CopySucceeds("byteCopy") /\ index = length
  /\ Decide("ResultReadable")
  /\ UNCHANGED index /\ ResultStep

(* Variant: a byte past the limit is still looked at.                      *)
NextByteTooFar ==
  /\ CopySucceeds("byteCopy") /\ index # length
  /\ index' = index + 1
  /\ IF index' <= MaximumEditorIdLength
       THEN Enter("byte", Plus(result, index')) /\ Undecided
       ELSE Decide("InvalidEditorIdResult")
  /\ ResultStep

NextByte ==
  /\ CopySucceeds("byteCopy") /\ index # length
  /\ index' = index + 1
  /\ IF index' < MaximumEditorIdLength
       THEN Enter("byte", Plus(result, index')) /\ Undecided
       ELSE Decide("InvalidEditorIdResult")
  /\ ResultStep

(* The locals of the call die.                                             *)
Return ==
  /\ step = "decided"
  /\ step' = "idle" /\ current' = 0
  /\ form' = 0 /\ vtable' = 0 /\ editorIdEntry' = 0
  /\ result' = 0 /\ index' = 0 /\ length' = 0
  /\ verdict' = "pending" /\ changed' = {}
  /\ UNCHANGED <<protection, alive>>

-----------------------------------------------------------------------------

Begin ==
  \/ \E f \in Words : BeginValidation(f)
  \/ \E a \in Words, zeroAt \in 0 .. MaximumEditorIdLength + 1 : BeginResult(a, zeroAt)

Validate ==
  \/ FormReadable \/ FormUnreadable \/ FormIdRead \/ FormTypeRead
  \/ VtableRead \/ VtableUnreadable \/ TableReadable
  \/ SlotRead \/ EntryUnusable \/ EntryExecutable

CheckResult == ByteReadable \/ ByteUnreadable \/ Terminated \/ NextByte

Walk == \E s \in Probes : Query(s) \/ CopyEscapes(s)

Thread == alive /\ (Walk \/ Validate \/ CheckResult)

(* The engine frees, maps, protects or guards a page.                      *)
Change(q) ==
  /\ \E p \in Protections : protection' = [protection EXCEPT ![q] = p]
  /\ changed' = IF step = "idle" THEN {} ELSE changed \cup {q}
  /\ UNCHANGED <<alive, step, current, report, string, verdict>>

Dead == ~alive /\ UNCHANGED vars

Next ==
  \/ alive /\ (Begin \/ Return)
  \/ Thread
  \/ alive /\ \E q \in HeapPages : Change(q)
  \/ Dead

Spec == Init /\ [][Next]_vars

(* The thread goes on; how often the engine changes pages does not matter. *)
FairSpec == Spec /\ WF_vars(Thread)

-----------------------------------------------------------------------------
(* Properties.                                                             *)

Verdicts ==
  {"pending", "NullForm", "UnreadableForm", "UnreadableVtable", "NonExecutableEditorId",
   "EditorIdOutsideGameText", "None", "ResultReadable", "InvalidEditorIdResult"}

ValidationTypeOK ==
  /\ protection \in [Pages -> Protections]
  /\ changed \in SUBSET HeapPages /\ alive \in BOOLEAN
  /\ step \in Probes \cup {"idle", "decided"}
  /\ {current, form, vtable, editorIdEntry, result} \subseteq Words
  /\ index \in 0 .. MaximumEditorIdLength /\ length \in 0 .. MaximumEditorIdLength + 1
  /\ verdict \in Verdicts

(* A range inside another one, by arithmetic that knows no word size.      *)
Within(address, size, rangeAddress, rangeSize) ==
  address >= rangeAddress /\ address + size <= rangeAddress + rangeSize

(* Whatever the engine does to its memory meanwhile, the entry the verdict *)
(* is about was taken from a slot in the read-only data and lies in the    *)
(* code of the game (SaveLoadGuardValidation.cpp:77-94).                   *)
CallableIsGameCode ==
  verdict = "None" =>
    /\ Within(Plus(vtable, EditorIdVtableOffset), WordSize, RdataAddress, RdataSize)
    /\ Within(editorIdEntry, 1, TextAddress, TextSize)

Accessible(address, size, s) ==
  \A a \in address .. address + size - 1 :
    a # 0 /\ a < MaxWord /\ Allows(protection[PageOf(a)], s)

(* What the words read so far make of the form, byte by byte.              *)
ExpectedReason ==
  CASE form = 0 -> "NullForm"
    [] form # 0 /\ ~Accessible(form, Size("form"), "form") -> "UnreadableForm"
    [] OTHER ->
       IF \/ vtable = 0
          \/ ~Accessible(form, WordSize, "vtable")
          \/ ~Within(vtable, Size("table"), RdataAddress, RdataSize)
         THEN "UnreadableVtable"
       ELSE IF editorIdEntry = 0 \/ ~Accessible(editorIdEntry, 1, "entry")
         THEN "NonExecutableEditorId"
       ELSE IF ~Within(editorIdEntry, 1, TextAddress, TextSize)
         THEN "EditorIdOutsideGameText"
       ELSE "None"

ResultVerdicts == {"ResultReadable", "InvalidEditorIdResult"}

(* In memory that holds still the verdict is the right one: the walk over  *)
(* regions agrees with the protection of every single byte, across page    *)
(* boundaries and at the ends of the address space, where a sum wraps and  *)
(* a walk to the wrapped end would ask about nothing (MemoryReader.cpp:    *)
(* 28-35, 117-147).                                                        *)
QuietVerdict ==
  step = "decided" /\ changed = {} /\ verdict \notin ResultVerdicts =>
    verdict = ExpectedReason

(* In memory that holds still a result is accepted if and only if its      *)
(* bytes are readable up to a zero among the first MaximumEditorIdLength.  *)
QuietResult ==
  step = "decided" /\ changed = {} /\ verdict \in ResultVerdicts =>
    (verdict = "ResultReadable" <=>
       /\ result # 0 /\ length < MaximumEditorIdLength
       /\ Accessible(result, length + 1, "byte"))

(* Only a page that became a guard page during the call, and one the copy  *)
(* under way reads, gets an exception past the reader: freeing or          *)
(* protecting a page between the query and the copy never does             *)
(* (MemoryReader.cpp:17-25, 161-168).                                      *)
OnlyGuardPagesEscape ==
  ~alive =>
    /\ step \in Copying
    /\ \E a \in Bytes(step) : PageOf(a) \in changed /\ protection[PageOf(a)] = "guard"

(* Every call reaches a verdict, however often pages change under it: each *)
(* query gets further.                                                     *)
VerdictReached == step \in Probes ~> (step \notin Probes \/ ~alive)
=============================================================================
