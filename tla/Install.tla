------------------------------- MODULE Install -------------------------------
(***************************************************************************)
(* The hook's installation (Install in Hooks/SaveLoadGuard.cpp), entered   *)
(* once from the F4SE message handler (SaveLoadGuardMain.cpp), and what    *)
(* engine threads that reach the patched instruction meanwhile see of it.  *)
(*                                                                         *)
(* The instruction at the callsite is one of                               *)
(*   "original"  call [rax+1D0], what the scan looks for                   *)
(*   "hook"      call [rip+x] into the trampoline (FF 15)                  *)
(*   "foreign"   a call [rip+x] somebody else wrote (FF 15, other target)  *)
(*   "other"     anything else                                             *)
(* It changes in one step: a torn six-byte store is not modelled.  Every   *)
(* call out of the program (sections, scan, trampoline, memory writes,     *)
(* cache flush) may fail.                                                  *)
(***************************************************************************)
EXTENDS Naturals, Sequences, FiniteSets

CONSTANTS Messengers,    (* threads on which kPostLoad is delivered         *)
          Callers,       (* engine threads that reach the callsite          *)
          MaxMessages,   (* bound on kPostLoad messages                     *)
          MaxWrites      (* bound on foreign writes to the callsite         *)

ASSUME InstallAssumption ==
  /\ Messengers \cap Callers = {}
  /\ MaxMessages \in Nat /\ MaxWrites \in Nat

Modes == {"Off", "Observe", "Prevent"}

(* The globals a validating thread reads, in the order of their stores.    *)
Stores == << "g_callsite", "g_gameTextAddress", "g_gameTextSize",
             "g_gameRdataAddress", "g_gameRdataSize" >>
Addresses == {Stores[k] : k \in 1 .. Len(Stores)}

VARIABLES
  configuration,            (* what LoadConfiguration read                  *)
  g_postLoadAttempted,
  g_mode, g_allowUnqualifiedPrevention, g_preventionQualified, g_active,
  published,                (* addresses stored by an installation          *)
  site,                     (* the instruction at the callsite              *)
  pc,                       (* where each thread is                         *)
  scan,                     (* per messenger: what its scan found           *)
  status,                   (* per messenger: what Install returned         *)
  repair,                   (* how the last restore of the bytes went       *)
  messages, writes,         (* bounded counters                             *)
  readAt,                   (* history, per messenger: foreign writes that  *)
                            (* had come when it read the original bytes     *)
  unread, judged            (* per caller: globals still to load, and       *)
                            (* whether all of them were there               *)

globals == <<g_mode, g_allowUnqualifiedPrevention, g_preventionQualified, g_active, published>>
callers == <<unread, judged>>
vars == <<configuration, g_postLoadAttempted, globals, site, pc, scan, status,
          repair, messages, writes, readAt, callers>>

Init ==
  /\ configuration \in [enabled : BOOLEAN, mode : Modes, allowUnqualifiedSuppression : BOOLEAN]
  /\ g_postLoadAttempted = FALSE
  /\ g_mode = "Off" /\ g_allowUnqualifiedPrevention = TRUE
  /\ g_preventionQualified = FALSE /\ g_active = FALSE
  /\ published = {}
  /\ site \in {"original", "other"}
  /\ pc = [t \in Messengers \cup Callers |-> "outside"]
  /\ scan = [m \in Messengers |-> "none"]
  /\ status = [m \in Messengers |-> "none"]
  /\ repair = "none"
  /\ messages = 0 /\ writes = 0
  /\ readAt = [m \in Messengers |-> 0]
  /\ unread = [c \in Callers |-> {}]
  /\ judged = [c \in Callers |-> "nothing"]

Goto(t, from, to) ==
  /\ pc[t] = from
  /\ pc' = [pc EXCEPT ![t] = to]

Return(m, from, result) ==
  /\ Goto(m, from, "outside")
  /\ status' = [status EXCEPT ![m] = result]

Unmoved == UNCHANGED <<configuration, callers>>

EffectiveMode == IF configuration.enabled THEN configuration.mode ELSE "Off"

PreventionEnabled ==
  /\ g_mode = "Prevent"
  /\ g_preventionQualified \/ g_allowUnqualifiedPrevention

-----------------------------------------------------------------------------
(* MessageHandler.                                                         *)

(* Variant: the flag is never consulted.                                   *)
PostLoadEveryTime(m) ==
  /\ messages < MaxMessages
  /\ messages' = messages + 1
  /\ g_postLoadAttempted' = TRUE
  /\ Goto(m, "outside", "configuring")
  /\ UNCHANGED <<globals, site, scan, status, repair, writes, readAt>>
  /\ Unmoved

PostLoad(m) ==
  /\ messages < MaxMessages
  /\ messages' = messages + 1
  /\ g_postLoadAttempted' = TRUE
  /\ IF g_postLoadAttempted
       THEN pc[m] = "outside" /\ UNCHANGED pc
       ELSE Goto(m, "outside", "configuring")
  /\ UNCHANGED <<globals, site, scan, status, repair, writes, readAt>>
  /\ Unmoved

-----------------------------------------------------------------------------
(* Install, up to the patch.                                               *)

Configure(m) ==
  /\ Goto(m, "configuring", "starting")
  /\ g_mode' = EffectiveMode
  /\ g_allowUnqualifiedPrevention' = configuration.allowUnqualifiedSuppression
  /\ g_preventionQualified' = FALSE
  /\ UNCHANGED <<g_postLoadAttempted, g_active, published, site, scan, status, repair,
                 messages, writes, readAt>>
  /\ Unmoved

InstallStep == UNCHANGED <<g_postLoadAttempted, globals, messages, writes, readAt>> /\ Unmoved

(* Install's early return for a hook that is active already is not here:   *)
(* PostLoad starts it once, so it always finds g_active false.             *)
Disabled(m) ==
  /\ ~g_active /\ g_mode = "Off"
  /\ Return(m, "starting", "Disabled")
  /\ UNCHANGED <<site, scan, repair>>
  /\ InstallStep

SectionsUnavailable(m) ==
  /\ ~g_active /\ g_mode # "Off"
  /\ Return(m, "starting", "AddressUnavailable")
  /\ UNCHANGED <<site, scan, repair>>
  /\ InstallStep

(* The scan qualifies one callsite and the second match agrees: only the   *)
(* original instruction can qualify.                                       *)
Discover(m) ==
  /\ ~g_active /\ g_mode # "Off"
  /\ site = "original"
  /\ \E found \in {"exact", "relaxed"} : scan' = [scan EXCEPT ![m] = found]
  /\ Goto(m, "starting", "reading")
  /\ UNCHANGED <<site, status, repair>>
  /\ InstallStep

SignatureMismatch(m) ==
  /\ ~g_active /\ g_mode # "Off"
  /\ Return(m, "starting", "SignatureMismatch")
  /\ UNCHANGED <<site, scan, repair>>
  /\ InstallStep

(* Variant: the bytes are kept without being compared.                     *)
ReadAnything(m) ==
  /\ Goto(m, "reading", "allocating")
  /\ readAt' = [readAt EXCEPT ![m] = writes]
  /\ UNCHANGED <<g_postLoadAttempted, globals, messages, writes, site, scan, status, repair>>
  /\ Unmoved

ReadOriginal(m) ==
  /\ site = "original"
  /\ Goto(m, "reading", "allocating")
  /\ readAt' = [readAt EXCEPT ![m] = writes]
  /\ UNCHANGED <<g_postLoadAttempted, globals, messages, writes, site, scan, status, repair>>
  /\ Unmoved

(* The bytes are unreadable, or no longer those of the scan.               *)
ReadConflicts(m) ==
  /\ Return(m, "reading", "HookConflict")
  /\ UNCHANGED <<site, scan, repair>>
  /\ InstallStep

Allocate(m) ==
  /\ Goto(m, "allocating", "writing")
  /\ UNCHANGED <<site, scan, status, repair>>
  /\ InstallStep

(* Pool empty or too small, branch out of reach, or an exception.  (The    *)
(* try block spans the write too, but nothing throws from there on.)       *)
TrampolineUnavailable(m) ==
  /\ Return(m, "allocating", "TrampolineUnavailable")
  /\ UNCHANGED <<site, scan, repair>>
  /\ InstallStep

-----------------------------------------------------------------------------
(* Install, the patch and its verification.                                *)

WritePatch(m) ==
  /\ Goto(m, "writing", "flushing")
  /\ site' = "hook"
  /\ UNCHANGED <<scan, status, repair>>
  /\ InstallStep

(* REL::WriteSafeData is external.  Like the code, which restores nothing  *)
(* then, the model takes a write that failed to have changed nothing.      *)
WriteFails(m) ==
  /\ Return(m, "writing", "HookConflict")
  /\ UNCHANGED <<site, scan, repair>>
  /\ InstallStep

(* The exact bytes read before are written back; whether that worked is    *)
(* not looked at.                                                          *)
WriteBack ==
  \/ site' = "original" /\ repair' = "done"
  \/ UNCHANGED site /\ repair' = "failed"

Flush(m) ==
  /\ Goto(m, "flushing", "verifying")
  /\ UNCHANGED <<site, scan, status, repair>>
  /\ InstallStep

FlushFails(m) ==
  /\ Return(m, "flushing", "HookConflict")
  /\ WriteBack
  /\ UNCHANGED scan
  /\ InstallStep

Verify(m) ==
  /\ site = "hook"
  /\ Goto(m, "verifying", "publishing")
  /\ UNCHANGED <<site, scan, status, repair>>
  /\ InstallStep

(* Variant: a failed verification restores nothing.                        *)
VerifyWithoutRestore(m) ==
  /\ Return(m, "verifying", "HookConflict")
  /\ UNCHANGED <<site, scan, repair>>
  /\ InstallStep

(* The target decoded is not the thunk, or could not be read.  Only an     *)
(* FF 15 that can be read is written back, whoever wrote it.               *)
VerifyFails(m) ==
  /\ Return(m, "verifying", "HookConflict")
  /\ \/ site \in {"hook", "foreign"} /\ WriteBack
     \/ UNCHANGED site /\ repair' = "skipped"
  /\ UNCHANGED scan
  /\ InstallStep

-----------------------------------------------------------------------------
(* Install, publication.  g_active is stored last.                         *)

(* Variant: the globals are stored in whatever order, g_active first.      *)
PublishAddressActiveFirst(m) ==
  /\ pc[m] = "publishing"
  /\ Cardinality(published) < Len(Stores)
  /\ published' = published \cup {Stores[Cardinality(published) + 1]}
  /\ g_active' = TRUE
  /\ UNCHANGED <<pc, g_mode, g_allowUnqualifiedPrevention, g_preventionQualified,
                 g_postLoadAttempted, messages, writes, readAt, site, scan, status, repair>>
  /\ Unmoved

PublishAddress(m) ==
  /\ pc[m] = "publishing"
  /\ Cardinality(published) < Len(Stores)
  /\ published' = published \cup {Stores[Cardinality(published) + 1]}
  /\ UNCHANGED <<pc, g_mode, g_allowUnqualifiedPrevention, g_preventionQualified, g_active,
                 g_postLoadAttempted, messages, writes, readAt, site, scan, status, repair>>
  /\ Unmoved

(* Variant: a relaxed match is taken for a qualified one.                  *)
PublishQualifiedAlways(m) ==
  /\ Goto(m, "publishing", "activating")
  /\ published = Addresses
  /\ g_preventionQualified' = TRUE
  /\ UNCHANGED <<g_mode, g_allowUnqualifiedPrevention, g_active, published,
                 g_postLoadAttempted, messages, writes, readAt, site, scan, status, repair>>
  /\ Unmoved

PublishQualified(m) ==
  /\ Goto(m, "publishing", "activating")
  /\ published = Addresses
  /\ g_preventionQualified' = (scan[m] = "exact")
  /\ UNCHANGED <<g_mode, g_allowUnqualifiedPrevention, g_active, published,
                 g_postLoadAttempted, messages, writes, readAt, site, scan, status, repair>>
  /\ Unmoved

Activate(m) ==
  /\ Return(m, "activating", "Installed")
  /\ g_active' = TRUE
  /\ UNCHANGED <<g_mode, g_allowUnqualifiedPrevention, g_preventionQualified, published,
                 g_postLoadAttempted, messages, writes, readAt, site, scan, repair>>
  /\ Unmoved

-----------------------------------------------------------------------------
(* GuardedGetFormEditorID, as far as it depends on the installation.       *)

CallerStep == UNCHANGED <<configuration, g_postLoadAttempted, globals, site, scan, status,
                          repair, messages, writes, readAt>>

Reach(c) ==
  /\ site = "hook"
  /\ Goto(c, "outside", "entered")
  /\ UNCHANGED callers
  /\ CallerStep

(* Not active: the placeholder, whatever the form.                         *)
PassInactive(c) ==
  /\ ~g_active
  /\ Goto(c, "entered", "outside")
  /\ UNCHANGED callers
  /\ CallerStep

EnterActive(c) ==
  /\ g_active
  /\ Goto(c, "entered", "validating")
  /\ unread' = [unread EXCEPT ![c] = Addresses]
  /\ judged' = [judged EXCEPT ![c] = "nothing"]
  /\ CallerStep

(* The order of the loads is the compiler's.  A bound not yet stored is    *)
(* zero: the form would be rejected whatever it is.  Without g_callsite    *)
(* the thunk falls back to its return address.                             *)
LoadGlobal(c) ==
  /\ pc[c] = "validating"
  /\ \E a \in unread[c] :
       /\ unread' = [unread EXCEPT ![c] = @ \ {a}]
       /\ judged' = IF a \in published \cup {"g_callsite"}
                       THEN judged ELSE [judged EXCEPT ![c] = "misjudged"]
  /\ UNCHANGED pc
  /\ CallerStep

(* Prevented or observed: the mode and the qualification are read anew.    *)
Judge(c) ==
  /\ unread[c] = {}
  /\ Goto(c, "validating", "outside")
  /\ judged' = [judged EXCEPT ![c] =
       IF judged[c] = "misjudged" THEN "misjudged"
       ELSE IF PreventionEnabled THEN "Prevented" ELSE "Observed"]
  /\ UNCHANGED unread
  /\ CallerStep

(* Another plugin, at any time.                                            *)
ForeignWrite ==
  /\ writes < MaxWrites
  /\ writes' = writes + 1
  /\ site' \in {"foreign", "other"}
  /\ UNCHANGED <<configuration, g_postLoadAttempted, globals, pc, scan, status, repair,
                 messages, readAt, callers>>

-----------------------------------------------------------------------------

InstallNext(m) ==
  \/ PostLoad(m)
  \/ Configure(m)
  \/ Disabled(m) \/ SectionsUnavailable(m)
  \/ Discover(m) \/ SignatureMismatch(m)
  \/ ReadOriginal(m) \/ ReadConflicts(m)
  \/ Allocate(m) \/ TrampolineUnavailable(m)
  \/ WritePatch(m) \/ WriteFails(m)
  \/ Flush(m) \/ FlushFails(m)
  \/ Verify(m) \/ VerifyFails(m)
  \/ PublishAddress(m) \/ PublishQualified(m) \/ Activate(m)

CallerNext(c) ==
  \/ Reach(c) \/ PassInactive(c) \/ EnterActive(c)
  \/ LoadGlobal(c) \/ Judge(c)

Next ==
  \/ \E m \in Messengers : InstallNext(m)
  \/ \E c \in Callers : CallerNext(c)
  \/ ForeignWrite

Spec == Init /\ [][Next]_vars

-----------------------------------------------------------------------------
(* Properties.                                                             *)

Failures == {"AddressUnavailable", "SignatureMismatch", "HookConflict", "TrampolineUnavailable"}

Locations ==
  {"outside", "configuring", "starting", "reading", "allocating", "writing", "flushing",
   "verifying", "publishing", "activating", "entered", "validating"}

TypeOK ==
  /\ configuration \in [enabled : BOOLEAN, mode : Modes, allowUnqualifiedSuppression : BOOLEAN]
  /\ g_postLoadAttempted \in BOOLEAN
  /\ g_mode \in Modes
  /\ g_allowUnqualifiedPrevention \in BOOLEAN
  /\ g_preventionQualified \in BOOLEAN /\ g_active \in BOOLEAN
  /\ published \subseteq Addresses
  /\ site \in {"original", "hook", "foreign", "other"}
  /\ pc \in [Messengers \cup Callers -> Locations]
  /\ scan \in [Messengers -> {"none", "exact", "relaxed"}]
  /\ status \in [Messengers -> Failures \cup {"none", "Disabled", "Installed"}]
  /\ repair \in {"none", "done", "failed", "skipped"}
  /\ messages \in 0 .. MaxMessages /\ writes \in 0 .. MaxWrites
  /\ readAt \in [Messengers -> 0 .. MaxWrites]
  /\ unread \in [Callers -> SUBSET Addresses]
  /\ \A c \in Callers : pc[c] # "validating" => unread[c] = {}
  /\ judged \in [Callers -> {"nothing", "misjudged", "Prevented", "Observed"}]

(* A thread that found the hook active never works with a section bound    *)
(* that is not there yet: it would reject every form                       *)
(* (SaveLoadGuard.cpp:404-410 against :420-438).                           *)
NeverMisjudged == \A c \in Callers : judged[c] # "misjudged"

(* Mode, qualification, callsite and bounds are settled when the hook      *)
(* becomes active, and it stays active: Install starts by resetting them,  *)
(* so only the one-shot message handler protects a running hook            *)
(* (SaveLoadGuard.cpp:297-302, SaveLoadGuardMain.cpp:70).                  *)
NeverDowngraded == [][g_active => UNCHANGED globals]_vars

(* Prevention is claimed only where the configuration asks for it, and     *)
(* on a relaxed match only where it allows that as well.                   *)
PreventsAsConfigured ==
  \A c \in Callers : judged[c] = "Prevented" =>
    /\ EffectiveMode = "Prevent"
    /\ \/ configuration.allowUnqualifiedSuppression
       \/ \E m \in Messengers : scan[m] = "exact"

(* Between its patch and its return an installation owns the callsite.     *)
Patching(m) == pc[m] \in {"flushing", "verifying", "publishing", "activating"}

(* An installation that gave up leaves the hook in place only if writing   *)
(* the original bytes back failed or they could not be read, never because *)
(* an error path forgot to (SaveLoadGuard.cpp:375-396).                    *)
LeftPatchedOnlyIfRestoreFailed ==
  site = "hook" /\ ~g_active /\ (\A m \in Messengers : ~Patching(m))
    => repair \in {"failed", "skipped"}

(* An instruction that is not the scanned one is overwritten only if it    *)
(* came after the bytes were read: whatever another plugin did between the *)
(* scan, its second match and the read is noticed.  Between the read and   *)
(* the patch nobody looks (SaveLoadGuard.cpp:338-371).                     *)
ForeignWritesNoticed ==
  \A m \in Messengers :
    pc[m] \in {"allocating", "writing"} /\ site # "original" => writes > readAt[m]

(* The comment at SaveLoadGuard.cpp:376: a failed cache flush or write     *)
(* "must never leave a partially installed callsite behind".               *)
NeverPartiallyInstalled ==
  \A m \in Messengers : status[m] \in Failures => site # "hook"
=============================================================================
