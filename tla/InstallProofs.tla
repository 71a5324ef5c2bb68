---------------------------- MODULE InstallProofs ----------------------------
(***************************************************************************)
(* Proofs about Install, for any number of messengers, callers, messages   *)
(* and foreign writes: a thread that finds the hook active finds all it    *)
(* reads, an active hook is never reset, prevention follows the            *)
(* configuration, and no foreign write before the read goes unnoticed.     *)
(*                                                                         *)
(* The argument: the exchange on g_postLoadAttempted lets one messenger    *)
(* into Install, ever; while it is inside the hook is not active; and it   *)
(* activates the hook after its last store.                                *)
(***************************************************************************)
EXTENDS Install, TLAPS

Inside(m) == pc[m] # "outside"

PcTyped == pc \in [Messengers \cup Callers -> Locations]
JudgedTyped == DOMAIN judged = Callers

(* A caller reads addresses of the installation only.                      *)
UnreadTyped ==
  /\ DOMAIN unread = Callers
  /\ \A c \in Callers : unread[c] \subseteq Addresses

(* Messengers and callers never stand at each other's places.              *)
Places ==
  /\ \A m \in Messengers : pc[m] \notin {"entered", "validating"}
  /\ \A c \in Callers : pc[c] \in {"outside", "entered", "validating"}

(* One messenger is inside Install, and it entered by the exchange.        *)
OneInstaller == \A m, n \in Messengers : Inside(m) /\ Inside(n) => m = n
ByExchange   == ~g_postLoadAttempted => ~g_active /\ \A m \in Messengers : ~Inside(m)

(* The hook becomes active on the way out.                                 *)
InsideInactive == \A m \in Messengers : Inside(m) => ~g_active

(* All addresses are stored before it does.                                *)
AllStored ==
  /\ g_active => published = Addresses
  /\ \A m \in Messengers : pc[m] = "activating" => published = Addresses

ValidatesActive == \A c \in Callers : pc[c] = "validating" => g_active

IInv ==
  /\ PcTyped /\ JudgedTyped /\ UnreadTyped /\ Places
  /\ OneInstaller /\ ByExchange /\ InsideInactive
  /\ AllStored /\ ValidatesActive
  /\ NeverMisjudged

(* Steps that only move one messenger about inside Install.                *)
Moves(m) ==
  \/ Disabled(m) \/ SectionsUnavailable(m)
  \/ Discover(m) \/ SignatureMismatch(m)
  \/ ReadOriginal(m) \/ ReadConflicts(m)
  \/ Allocate(m) \/ TrampolineUnavailable(m)
  \/ WritePatch(m) \/ WriteFails(m)
  \/ Flush(m) \/ FlushFails(m)
  \/ Verify(m) \/ VerifyFails(m)

LEMMA InvInit == ASSUME Init PROVE IInv
  BY InstallAssumption DEF Init, IInv, PcTyped, JudgedTyped, UnreadTyped, Places,
     OneInstaller, ByExchange, InsideInactive, AllStored, ValidatesActive, NeverMisjudged,
     Inside, Locations

(* A move starts inside and leads to a place other than "activating".      *)
LEMMA MoveShape ==
  ASSUME IInv, NEW m \in Messengers, Moves(m)
  PROVE  /\ Inside(m)
         /\ \E to \in {"outside", "reading", "allocating", "writing", "flushing",
                       "verifying", "publishing"} : pc' = [pc EXCEPT ![m] = to]
         /\ UNCHANGED <<g_postLoadAttempted, g_active, published, unread, judged>>
         /\ UNCHANGED globals
  BY DEF Moves, Disabled, SectionsUnavailable, Discover, SignatureMismatch, ReadOriginal,
     ReadConflicts, Allocate, TrampolineUnavailable, WritePatch, WriteFails, Flush, FlushFails,
     Verify, VerifyFails, Return, Goto, Inside, InstallStep, Unmoved, globals, callers

LEMMA MoveStep ==
  ASSUME IInv, NEW m \in Messengers, Moves(m)
  PROVE  IInv'
<1>1. PICK to \in {"outside", "reading", "allocating", "writing", "flushing",
                   "verifying", "publishing"} : pc' = [pc EXCEPT ![m] = to]
  BY MoveShape
<1>2. Inside(m) /\ UNCHANGED <<g_postLoadAttempted, g_active, published, unread, judged>>
  BY MoveShape
<1> QED
  BY <1>1, <1>2, InstallAssumption DEF IInv, PcTyped, JudgedTyped, UnreadTyped, Places,
     OneInstaller, ByExchange, InsideInactive, AllStored, ValidatesActive, NeverMisjudged,
     Inside, Locations

LEMMA PostLoadKeeps ==
  ASSUME IInv, NEW m \in Messengers, PostLoad(m)
  PROVE  IInv'
<1>1. CASE g_postLoadAttempted
  BY <1>1 DEF PostLoad, globals, Unmoved, callers, IInv, PcTyped, JudgedTyped, UnreadTyped,
     Places, OneInstaller, ByExchange, InsideInactive, AllStored, ValidatesActive,
     NeverMisjudged, Inside, Locations
<1>2. CASE ~g_postLoadAttempted
  <2>1. /\ pc' = [pc EXCEPT ![m] = "configuring"]
        /\ g_postLoadAttempted' = TRUE
        /\ UNCHANGED <<g_active, published, unread, judged>>
    BY <1>2 DEF PostLoad, Goto, globals, Unmoved, callers
  <2> QED
    BY <1>2, <2>1, InstallAssumption DEF IInv, PcTyped, JudgedTyped, UnreadTyped, Places,
       OneInstaller, ByExchange, InsideInactive, AllStored, ValidatesActive, NeverMisjudged,
       Inside, Locations
<1> QED BY <1>1, <1>2

LEMMA ConfigureKeeps ==
  ASSUME IInv, NEW m \in Messengers, Configure(m)
  PROVE  IInv'
  BY InstallAssumption DEF Configure, Goto, Unmoved, callers, IInv, PcTyped, JudgedTyped,
     UnreadTyped, Places, OneInstaller, ByExchange, InsideInactive, AllStored,
     ValidatesActive, NeverMisjudged, Inside, Locations

LEMMA PublishKeeps ==
  ASSUME IInv, NEW m \in Messengers, PublishAddress(m) \/ PublishQualified(m)
  PROVE  IInv'
<1>1. CASE PublishAddress(m)
  BY <1>1 DEF PublishAddress, Unmoved, callers, IInv, PcTyped, JudgedTyped, UnreadTyped,
     Places, OneInstaller, ByExchange, InsideInactive, AllStored, ValidatesActive,
     NeverMisjudged, Inside, Locations
<1>2. CASE PublishQualified(m)
  BY <1>2, InstallAssumption DEF PublishQualified, Goto, Unmoved, callers, IInv, PcTyped,
     JudgedTyped, UnreadTyped, Places, OneInstaller, ByExchange, InsideInactive, AllStored,
     ValidatesActive, NeverMisjudged, Inside, Locations
<1> QED BY <1>1, <1>2

LEMMA ActivateKeeps ==
  ASSUME IInv, NEW m \in Messengers, Activate(m)
  PROVE  IInv'
<1>1. /\ pc' = [pc EXCEPT ![m] = "outside"] /\ g_active' = TRUE
      /\ UNCHANGED <<g_postLoadAttempted, published, unread, judged>>
  BY DEF Activate, Return, Goto, Unmoved, callers
<1>2. pc[m] = "activating" /\ Inside(m)
  BY DEF Activate, Return, Goto, Inside
<1>3. published = Addresses
  BY <1>2 DEF IInv, AllStored
<1>4. \A n \in Messengers : ~Inside(n)'
  BY <1>1, <1>2 DEF IInv, PcTyped, OneInstaller, Inside
<1>5. ByExchange'
  BY <1>1, <1>2 DEF IInv, ByExchange
<1>6. PcTyped' /\ Places'
  BY <1>1, InstallAssumption DEF IInv, PcTyped, Places, Locations
<1>7. OneInstaller' /\ InsideInactive' /\ AllStored'
  BY <1>1, <1>3, <1>4 DEF OneInstaller, InsideInactive, AllStored, Inside
<1>8. ValidatesActive' /\ JudgedTyped' /\ UnreadTyped' /\ NeverMisjudged'
  BY <1>1 DEF IInv, ValidatesActive, JudgedTyped, UnreadTyped, NeverMisjudged
<1> QED BY <1>5, <1>6, <1>7, <1>8 DEF IInv

LEMMA CallerKeeps ==
  ASSUME IInv, NEW c \in Callers, CallerNext(c)
  PROVE  IInv'
<1>1. UNCHANGED <<g_postLoadAttempted, g_active, published>>
  BY DEF CallerNext, Reach, PassInactive, EnterActive, LoadGlobal, Judge, CallerStep, globals
<1>2. PICK to \in {"outside", "entered", "validating"} :
        /\ pc' = [pc EXCEPT ![c] = to]
        /\ to = "validating" => g_active
  <2>1. CASE LoadGlobal(c)
    <3>1. pc' = [pc EXCEPT ![c] = "validating"] /\ g_active
      BY <2>1 DEF LoadGlobal, IInv, PcTyped, ValidatesActive
    <3> QED BY <3>1
  <2>2. CASE Reach(c) \/ PassInactive(c) \/ EnterActive(c) \/ Judge(c)
    BY <2>2 DEF Reach, PassInactive, EnterActive, Judge, Goto
  <2> QED BY <2>1, <2>2 DEF CallerNext
<1>3. JudgedTyped' /\ UnreadTyped' /\ NeverMisjudged'
  <2>1. CASE LoadGlobal(c)
    <3>1. PICK a \in unread[c] :
            judged' = IF a \in published \cup {"g_callsite"}
                        THEN judged ELSE [judged EXCEPT ![c] = "misjudged"]
      BY <2>1 DEF LoadGlobal
    <3>2. published = Addresses
      BY <2>1 DEF LoadGlobal, IInv, ValidatesActive, AllStored
    <3>3. UnreadTyped'
      BY <2>1 DEF LoadGlobal, IInv, UnreadTyped
    <3> QED BY <3>1, <3>2, <3>3 DEF IInv, JudgedTyped, UnreadTyped, NeverMisjudged
  <2>2. CASE EnterActive(c)
    BY <2>2 DEF EnterActive, IInv, JudgedTyped, UnreadTyped, NeverMisjudged
  <2>3. CASE Judge(c)
    BY <2>3 DEF Judge, IInv, JudgedTyped, UnreadTyped, NeverMisjudged
  <2>4. CASE Reach(c) \/ PassInactive(c)
    BY <2>4 DEF Reach, PassInactive, callers, IInv, JudgedTyped, UnreadTyped, NeverMisjudged
  <2> QED BY <2>1, <2>2, <2>3, <2>4 DEF CallerNext
<1> QED
  BY <1>1, <1>2, <1>3, InstallAssumption DEF IInv, PcTyped, Places, OneInstaller, ByExchange,
     InsideInactive, AllStored, ValidatesActive, Inside, Locations

LEMMA ForeignKeeps == ASSUME IInv, ForeignWrite PROVE IInv'
  BY DEF ForeignWrite, globals, callers, IInv, PcTyped, JudgedTyped, UnreadTyped, Places,
     OneInstaller, ByExchange, InsideInactive, AllStored, ValidatesActive, NeverMisjudged,
     Inside, Locations

LEMMA InvStep == ASSUME IInv, [Next]_vars PROVE IInv'
<1>1. ASSUME NEW m \in Messengers, InstallNext(m) PROVE IInv'
  <2>1. \/ PostLoad(m) \/ Configure(m) \/ Moves(m)
        \/ PublishAddress(m) \/ PublishQualified(m) \/ Activate(m)
    BY <1>1 DEF InstallNext, Moves
  <2> QED
    BY <2>1, PostLoadKeeps, ConfigureKeeps, MoveStep, PublishKeeps, ActivateKeeps
<1>2. ASSUME NEW c \in Callers, CallerNext(c) PROVE IInv'
  BY <1>2, CallerKeeps
<1>3. CASE UNCHANGED vars
  BY <1>3 DEF vars, globals, callers, IInv, PcTyped, JudgedTyped, UnreadTyped, Places,
     OneInstaller, ByExchange, InsideInactive, AllStored, ValidatesActive, NeverMisjudged,
     Inside, Locations
<1> QED BY <1>1, <1>2, <1>3, ForeignKeeps DEF Next

(* A thread that finds the hook active finds every address it loads: the   *)
(* stores of SaveLoadGuard.cpp:404-410 come in the order that needs.       *)
THEOREM ReadersSeeAll == Spec => []NeverMisjudged
<1>1. Init => IInv
  BY InvInit
<1>2. IInv /\ [Next]_vars => IInv'
  BY InvStep
<1>3. IInv => NeverMisjudged
  BY DEF IInv
<1> QED BY <1>1, <1>2, <1>3, PTL DEF Spec

(* Nothing resets an active hook, however often and from however many      *)
(* threads kPostLoad arrives (SaveLoadGuardMain.cpp:70).                   *)
THEOREM ActiveIsFinal == Spec => NeverDowngraded
<1>1. Init => IInv
  BY InvInit
<1>2. IInv /\ [Next]_vars => IInv'
  BY InvStep
<1>3. ASSUME IInv, [Next]_vars PROVE [g_active => UNCHANGED globals]_vars
  <2>1. ASSUME g_active, NEW m \in Messengers, InstallNext(m) PROVE UNCHANGED globals
    <3>1. ~Inside(m)
      BY <1>3, <2>1 DEF IInv, InsideInactive
    <3>2. ~Moves(m)
      BY <1>3, <3>1, MoveShape
    <3>3. PostLoad(m)
      BY <2>1, <3>1, <3>2 DEF InstallNext, Moves, Configure, PublishAddress, PublishQualified,
         Activate, Return, Goto, Inside, Locations
    <3> QED BY <3>3 DEF PostLoad
  <2>2. ASSUME NEW c \in Callers, CallerNext(c) PROVE UNCHANGED globals
    BY <2>2 DEF CallerNext, Reach, PassInactive, EnterActive, LoadGlobal, Judge, CallerStep
  <2>3. ForeignWrite => UNCHANGED globals
    BY DEF ForeignWrite
  <2> QED BY <1>3, <2>1, <2>2, <2>3 DEF Next
<1> QED BY <1>1, <1>2, <1>3, PTL DEF Spec, NeverDowngraded

-----------------------------------------------------------------------------
(* Prevention as configured.  What Configure stored stands while its       *)
(* messenger is inside Install and from activation on; qualification comes *)
(* last, from the messenger's own scan; and no scan follows activation.    *)

AsConfigured ==
  g_mode = EffectiveMode /\ g_allowUnqualifiedPrevention = configuration.allowUnqualifiedSuppression
Early == {"starting", "reading", "allocating", "writing", "flushing", "verifying", "publishing"}

ConfiguredInside ==
  /\ g_active => AsConfigured
  /\ \A m \in Messengers : pc[m] \in Early \cup {"activating"} => AsConfigured
ExactFound == \E m \in Messengers : scan[m] = "exact"
QualifiedByScan ==
  /\ g_preventionQualified => ExactFound
  /\ \A m \in Messengers : pc[m] \in Early => ~g_preventionQualified
PreventedActive ==
  \A c \in Callers : judged[c] = "Prevented" =>
    /\ g_active /\ EffectiveMode = "Prevent"
    /\ configuration.allowUnqualifiedSuppression \/ ExactFound
ScanTyped == DOMAIN scan = Messengers

PInv == IInv /\ ScanTyped /\ ConfiguredInside /\ QualifiedByScan /\ PreventedActive

LEMMA PreventInit == ASSUME Init PROVE PInv
<1>1. IInv
  BY InvInit
<1> QED
  BY <1>1, InstallAssumption DEF Init, PInv, ScanTyped, ConfiguredInside, QualifiedByScan,
     PreventedActive, Early

LEMMA PreventConfigure ==
  ASSUME PInv, NEW m \in Messengers, PostLoad(m) \/ Configure(m)
  PROVE  ConfiguredInside' /\ QualifiedByScan' /\ PreventedActive' /\ ScanTyped'
<1>1. CASE PostLoad(m)
  <2>1. \A n \in Messengers : pc'[n] = pc[n] \/ pc'[n] = "configuring"
    BY <1>1 DEF PostLoad, Goto, PInv, IInv, PcTyped
  <2>2. UNCHANGED <<configuration, scan, judged, globals>>
    BY <1>1 DEF PostLoad, Unmoved, callers
  <2> QED
    BY <2>1, <2>2 DEF PInv, globals, ScanTyped, ConfiguredInside, QualifiedByScan,
       PreventedActive, ExactFound, AsConfigured, EffectiveMode, Early
<1>2. CASE Configure(m)
  <2>1. UNCHANGED <<configuration, scan, judged, g_active>> /\ AsConfigured' /\ ~g_preventionQualified'
    BY <1>2 DEF Configure, Unmoved, callers, AsConfigured, EffectiveMode
  <2> QED
    BY <2>1 DEF PInv, ScanTyped, ConfiguredInside, QualifiedByScan, PreventedActive, ExactFound,
       EffectiveMode
<1> QED BY <1>1, <1>2

LEMMA PreventMoves ==
  ASSUME PInv, NEW m \in Messengers, Moves(m)
  PROVE  ConfiguredInside' /\ QualifiedByScan' /\ PreventedActive' /\ ScanTyped'
<1>1. ~g_active /\ UNCHANGED <<configuration, judged, globals>>
  BY MoveShape DEF PInv, IInv, InsideInactive, Moves, Disabled, SectionsUnavailable, Discover,
     SignatureMismatch, ReadOriginal, ReadConflicts, Allocate, TrampolineUnavailable, WritePatch,
     WriteFails, Flush, FlushFails, Verify, VerifyFails, InstallStep, Unmoved
<1>2. pc[m] \in Early /\ DOMAIN scan' = Messengers
  BY DEF PInv, ScanTyped, Early, Moves, Disabled, SectionsUnavailable, Discover, SignatureMismatch,
     ReadOriginal, ReadConflicts, Allocate, TrampolineUnavailable, WritePatch, WriteFails, Flush,
     FlushFails, Verify, VerifyFails, Return, Goto
<1>3. \A n \in Messengers : pc'[n] = pc[n] \/ n = m
  BY MoveShape DEF PInv, IInv, PcTyped
<1>4. ~g_preventionQualified /\ AsConfigured /\ \A c \in Callers : judged[c] # "Prevented"
  BY <1>1, <1>2 DEF PInv, QualifiedByScan, ConfiguredInside, PreventedActive
<1> QED
  BY <1>1, <1>2, <1>3, <1>4 DEF globals, ScanTyped, ConfiguredInside, QualifiedByScan,
     PreventedActive, AsConfigured, EffectiveMode

LEMMA PreventPublish ==
  ASSUME PInv, NEW m \in Messengers, PublishAddress(m) \/ PublishQualified(m) \/ Activate(m)
  PROVE  ConfiguredInside' /\ QualifiedByScan' /\ PreventedActive' /\ ScanTyped'
<1>1. AsConfigured /\ Inside(m) /\ ~g_active
  BY DEF PublishAddress, PublishQualified, Activate, Return, Goto, PInv, IInv, InsideInactive,
     Inside, ConfiguredInside, Early
<1>2. UNCHANGED <<configuration, scan, judged, g_mode, g_allowUnqualifiedPrevention>>
  BY DEF PublishAddress, PublishQualified, Activate, Unmoved, callers
<1>3. \A c \in Callers : judged[c] # "Prevented"
  BY <1>1 DEF PInv, PreventedActive
<1>4. \A n \in Messengers : n # m => pc'[n] = "outside"
  BY <1>1 DEF PublishAddress, PublishQualified, Activate, Return, Goto, PInv, IInv, PcTyped,
     OneInstaller, Inside
<1>5. ConfiguredInside' /\ ScanTyped' /\ PreventedActive'
  BY <1>1, <1>2, <1>3 DEF PInv, ScanTyped, ConfiguredInside, PreventedActive, AsConfigured,
     EffectiveMode
<1>6. QualifiedByScan'
  <2>1. CASE PublishAddress(m)
    BY <2>1, <1>2 DEF PublishAddress, PInv, QualifiedByScan, ExactFound
  <2>2. CASE PublishQualified(m)
    BY <2>2, <1>2, <1>4 DEF PublishQualified, Goto, PInv, IInv, PcTyped, QualifiedByScan,
       ExactFound, Early
  <2>3. CASE Activate(m)
    BY <2>3, <1>2, <1>4 DEF Activate, Return, Goto, PInv, IInv, PcTyped, QualifiedByScan,
       ExactFound, Early
  <2> QED BY <2>1, <2>2, <2>3
<1> QED BY <1>5, <1>6

LEMMA PreventCaller ==
  ASSUME PInv, NEW c \in Callers, CallerNext(c)
  PROVE  ConfiguredInside' /\ QualifiedByScan' /\ PreventedActive' /\ ScanTyped'
<1>1. UNCHANGED <<configuration, scan, globals>>
  BY DEF CallerNext, Reach, PassInactive, EnterActive, LoadGlobal, Judge, CallerStep
<1>2. \A m \in Messengers : pc'[m] = pc[m]
  BY InstallAssumption DEF CallerNext, Reach, PassInactive, EnterActive, LoadGlobal, Judge, Goto,
     PInv, IInv, PcTyped
<1>3. PreventedActive'
  <2>1. CASE Judge(c)
    <3>1. g_active /\ AsConfigured
      BY <2>1 DEF Judge, Goto, PInv, IInv, ValidatesActive, ConfiguredInside
    <3>2. PreventionEnabled => EffectiveMode = "Prevent"
                               /\ (configuration.allowUnqualifiedSuppression \/ ExactFound)
      BY <3>1 DEF PreventionEnabled, AsConfigured, PInv, QualifiedByScan
    <3>3. \A d \in Callers : judged'[d] = "Prevented" =>
            judged[d] = "Prevented" \/ PreventionEnabled
      BY <2>1 DEF Judge, PInv, IInv, JudgedTyped
    <3> QED
      BY <1>1, <3>1, <3>2, <3>3 DEF PInv, PreventedActive, ExactFound, EffectiveMode, globals
  <2>2. CASE Reach(c) \/ PassInactive(c) \/ EnterActive(c) \/ LoadGlobal(c)
    <3>1. \A d \in Callers : judged'[d] = "Prevented" => judged[d] = "Prevented"
      BY <2>2 DEF Reach, PassInactive, EnterActive, LoadGlobal, callers, PInv, IInv, JudgedTyped
    <3> QED
      BY <1>1, <3>1 DEF PInv, PreventedActive, ExactFound, EffectiveMode, globals
  <2> QED BY <2>1, <2>2 DEF CallerNext
<1> QED
  BY <1>1, <1>2, <1>3 DEF PInv, globals, ScanTyped, ConfiguredInside, QualifiedByScan, ExactFound,
     AsConfigured, EffectiveMode

LEMMA PreventStep == ASSUME PInv, [Next]_vars PROVE PInv'
<1>1. IInv'
  BY InvStep DEF PInv
<1>2. ASSUME NEW m \in Messengers, InstallNext(m) PROVE PInv'
  <2>1. \/ PostLoad(m) \/ Configure(m) \/ Moves(m)
        \/ PublishAddress(m) \/ PublishQualified(m) \/ Activate(m)
    BY <1>2 DEF InstallNext, Moves
  <2> QED BY <1>1, <2>1, PreventConfigure, PreventMoves, PreventPublish DEF PInv
<1>3. ASSUME NEW c \in Callers, CallerNext(c) PROVE PInv'
  BY <1>1, <1>3, PreventCaller DEF PInv
<1>4. CASE ForeignWrite \/ UNCHANGED vars
  BY <1>1, <1>4 DEF ForeignWrite, vars, globals, callers, PInv, ScanTyped, ConfiguredInside,
     QualifiedByScan, PreventedActive, ExactFound, AsConfigured, EffectiveMode
<1> QED BY <1>2, <1>3, <1>4 DEF Next

(* Prevention is claimed only as the configuration allows, whatever was    *)
(* read when: mode, qualification and permission are three loads           *)
(* (SaveLoadGuard.cpp:110-115, 296-300, 409).                              *)
THEOREM PreventsOnlyAsConfigured == Spec => []PreventsAsConfigured
<1>1. Init => PInv
  BY PreventInit
<1>2. PInv /\ [Next]_vars => PInv'
  BY PreventStep
<1>3. PInv => PreventsAsConfigured
  BY DEF PInv, PreventedActive, ExactFound, PreventsAsConfigured
<1> QED BY <1>1, <1>2, <1>3, PTL DEF Spec

-----------------------------------------------------------------------------
(* What a failed installation leaves behind: from the write on, the only   *)
(* ways out of Install are activation and the two error paths that write   *)
(* the original bytes back.                                                *)

LeftInv == IInv /\ LeftPatchedOnlyIfRestoreFailed

LEMMA LeftMoves ==
  ASSUME LeftInv, NEW m \in Messengers, Moves(m)
  PROVE  LeftPatchedOnlyIfRestoreFailed'
<1>1. \A n \in Messengers : n # m => pc'[n] = pc[n]
  BY MoveShape DEF LeftInv, IInv, PcTyped
<1>2. UNCHANGED g_active
  BY MoveShape DEF LeftInv
<1>3. CASE FlushFails(m) \/ VerifyFails(m)
  BY <1>3 DEF FlushFails, VerifyFails, WriteBack, LeftPatchedOnlyIfRestoreFailed
<1>4. CASE WritePatch(m) \/ Flush(m) \/ Verify(m)
  <2>1. pc'[m] \in {"flushing", "verifying", "publishing"}
    BY <1>4 DEF WritePatch, Flush, Verify, Goto, LeftInv, IInv, PcTyped
  <2> QED BY <2>1 DEF LeftPatchedOnlyIfRestoreFailed, Patching
<1>5. CASE \/ Disabled(m) \/ SectionsUnavailable(m) \/ Discover(m) \/ SignatureMismatch(m)
           \/ ReadOriginal(m) \/ ReadConflicts(m) \/ Allocate(m) \/ TrampolineUnavailable(m)
           \/ WriteFails(m)
  <2>1. ~Patching(m) /\ UNCHANGED <<site, repair>>
    BY <1>5 DEF Disabled, SectionsUnavailable, Discover, SignatureMismatch, ReadOriginal,
       ReadConflicts, Allocate, TrampolineUnavailable, WriteFails, Return, Goto, Patching
  <2> QED
    BY <1>1, <1>2, <2>1 DEF LeftInv, LeftPatchedOnlyIfRestoreFailed, Patching
<1> QED BY <1>3, <1>4, <1>5 DEF Moves

LEMMA LeftOther ==
  ASSUME LeftInv, NEW m \in Messengers,
         \/ PostLoad(m) \/ Configure(m)
         \/ PublishAddress(m) \/ PublishQualified(m) \/ Activate(m)
  PROVE  LeftPatchedOnlyIfRestoreFailed'
<1>1. UNCHANGED <<site, repair>>
  BY DEF PostLoad, Configure, PublishAddress, PublishQualified, Activate
<1>2. CASE PostLoad(m) \/ Configure(m)
  <2>1. UNCHANGED g_active /\ \A n \in Messengers : Patching(n) => Patching(n)'
    BY <1>2 DEF PostLoad, Configure, Goto, Patching, globals, LeftInv, IInv, PcTyped
  <2> QED BY <1>1, <2>1 DEF LeftInv, LeftPatchedOnlyIfRestoreFailed
<1>3. CASE PublishAddress(m) \/ PublishQualified(m)
  <2>1. Patching(m)'
    BY <1>3 DEF PublishAddress, PublishQualified, Goto, Patching, LeftInv, IInv, PcTyped
  <2> QED BY <2>1 DEF LeftPatchedOnlyIfRestoreFailed
<1>4. CASE Activate(m)
  BY <1>4 DEF Activate, LeftPatchedOnlyIfRestoreFailed
<1> QED BY <1>2, <1>3, <1>4

LEMMA LeftCaller ==
  ASSUME LeftInv, NEW c \in Callers, CallerNext(c)
  PROVE  LeftPatchedOnlyIfRestoreFailed'
<1>1. UNCHANGED <<site, repair, globals>>
  BY DEF CallerNext, Reach, PassInactive, EnterActive, LoadGlobal, Judge, CallerStep
<1>2. \A m \in Messengers : pc'[m] = pc[m]
  BY InstallAssumption DEF CallerNext, Reach, PassInactive, EnterActive, LoadGlobal, Judge, Goto,
     LeftInv, IInv, PcTyped
<1> QED BY <1>1, <1>2 DEF LeftInv, globals, LeftPatchedOnlyIfRestoreFailed, Patching

LEMMA LeftStep == ASSUME LeftInv, [Next]_vars PROVE LeftInv'
<1>1. IInv'
  BY InvStep DEF LeftInv
<1>2. ASSUME NEW m \in Messengers, InstallNext(m) PROVE LeftPatchedOnlyIfRestoreFailed'
  <2>1. \/ PostLoad(m) \/ Configure(m) \/ Moves(m)
        \/ PublishAddress(m) \/ PublishQualified(m) \/ Activate(m)
    BY <1>2 DEF InstallNext, Moves
  <2> QED BY <2>1, LeftMoves, LeftOther
<1>3. CASE ForeignWrite
  BY <1>1, <1>3 DEF ForeignWrite, LeftInv, LeftPatchedOnlyIfRestoreFailed
<1>4. CASE UNCHANGED vars
  BY <1>1, <1>4 DEF vars, globals, LeftInv, LeftPatchedOnlyIfRestoreFailed, Patching
<1> QED BY <1>1, <1>2, <1>3, <1>4, LeftCaller DEF Next, LeftInv

(* A patch outlives a failed installation only if undoing it failed or was *)
(* not possible (SaveLoadGuard.cpp:375-396).                               *)
THEOREM NoForgottenPatch == Spec => []LeftPatchedOnlyIfRestoreFailed
<1>1. Init => LeftInv
  BY InvInit DEF Init, LeftInv, LeftPatchedOnlyIfRestoreFailed
<1>2. LeftInv /\ [Next]_vars => LeftInv'
  BY LeftStep
<1>3. LeftInv => LeftPatchedOnlyIfRestoreFailed
  BY DEF LeftInv
<1> QED BY <1>1, <1>2, <1>3, PTL DEF Spec

-----------------------------------------------------------------------------
(* What a patch overwrites.  The one messenger inside Install saw the      *)
(* original instruction when it read it; until it writes, only a foreign   *)
(* write changes it, and each of those is counted.                         *)

ReadTyped ==
  /\ DOMAIN readAt = Messengers
  /\ writes \in Nat
  /\ \A m \in Messengers : readAt[m] \in Nat /\ readAt[m] <= writes
Holding == {"allocating", "writing"}

NoticeInv == IInv /\ ReadTyped /\ ForeignWritesNoticed

(* Steps that leave the callsite alone and let nobody past the read.       *)
LEMMA NoticeKeeps ==
  ASSUME NoticeInv, UNCHANGED <<site, writes, readAt>>,
         \A m \in Messengers : pc'[m] \in Holding => pc[m] \in Holding
  PROVE  ReadTyped' /\ ForeignWritesNoticed'
BY DEF NoticeInv, ReadTyped, ForeignWritesNoticed, Holding

LEMMA NoticeMoves ==
  ASSUME NoticeInv, NEW m \in Messengers, Moves(m)
  PROVE  ReadTyped' /\ ForeignWritesNoticed'
<1>1. PcTyped /\ (\A n \in Messengers : Inside(n) => n = m)
  BY MoveShape DEF NoticeInv, IInv, OneInstaller
<1>2. \A n \in Messengers : n # m => pc'[n] = "outside"
  <2>1. \A n \in Messengers : n # m => pc'[n] = pc[n]
    BY <1>1, MoveShape DEF NoticeInv, PcTyped
  <2> QED BY <1>1, <2>1 DEF Inside
<1>3. CASE ReadOriginal(m)
  <2>1. site' = "original" /\ UNCHANGED writes /\ readAt' = [readAt EXCEPT ![m] = writes]
    BY <1>3 DEF ReadOriginal
  <2> QED BY <2>1 DEF NoticeInv, ReadTyped, ForeignWritesNoticed
<1>4. CASE Allocate(m)
  <2>1. UNCHANGED <<site, writes, readAt>> /\ pc[m] \in Holding
    BY <1>4 DEF Allocate, Goto, InstallStep, Holding
  <2> QED BY <1>2, <2>1, NoticeKeeps DEF Holding
<1>5. CASE WritePatch(m) \/ FlushFails(m) \/ VerifyFails(m)
  <2>1. UNCHANGED <<writes, readAt>> /\ pc'[m] \notin Holding
    BY <1>1, <1>5 DEF WritePatch, FlushFails, VerifyFails, Return, Goto, InstallStep, Holding, PcTyped
  <2> QED BY <1>2, <2>1 DEF NoticeInv, ReadTyped, ForeignWritesNoticed, Holding
<1>6. CASE \/ Disabled(m) \/ SectionsUnavailable(m) \/ Discover(m) \/ SignatureMismatch(m)
           \/ ReadConflicts(m) \/ TrampolineUnavailable(m) \/ WriteFails(m)
           \/ Flush(m) \/ Verify(m)
  <2>1. UNCHANGED <<site, writes, readAt>> /\ pc'[m] \notin Holding
    BY <1>1, <1>6 DEF Disabled, SectionsUnavailable, Discover, SignatureMismatch, ReadConflicts,
       TrampolineUnavailable, WriteFails, Flush, Verify, Return, Goto, InstallStep, Holding, PcTyped
  <2> QED BY <1>2, <2>1, NoticeKeeps DEF Holding
<1> QED BY <1>3, <1>4, <1>5, <1>6 DEF Moves

LEMMA NoticeOther ==
  ASSUME NoticeInv,
         \/ \E m \in Messengers : \/ PostLoad(m) \/ Configure(m)
                                 \/ PublishAddress(m) \/ PublishQualified(m) \/ Activate(m)
         \/ \E c \in Callers : CallerNext(c)
         \/ UNCHANGED vars
  PROVE  ReadTyped' /\ ForeignWritesNoticed'
<1>1. UNCHANGED <<site, writes, readAt>>
  BY DEF PostLoad, Configure, PublishAddress, PublishQualified, Activate, CallerNext, Reach,
     PassInactive, EnterActive, LoadGlobal, Judge, CallerStep, vars
<1>2. \A m \in Messengers : pc'[m] \in Holding => pc[m] \in Holding
  BY InstallAssumption DEF PostLoad, Configure, PublishAddress, PublishQualified, Activate, Return,
     CallerNext, Reach, PassInactive, EnterActive, LoadGlobal, Judge, Goto, vars, Holding,
     NoticeInv, IInv, PcTyped
<1> QED BY <1>1, <1>2, NoticeKeeps

LEMMA NoticeForeign == ASSUME NoticeInv, ForeignWrite PROVE ReadTyped' /\ ForeignWritesNoticed'
<1>1. UNCHANGED <<pc, readAt>> /\ writes' = writes + 1
  BY DEF ForeignWrite
<1>2. writes' \in Nat /\ \A m \in Messengers : readAt[m] <= writes' /\ writes' > readAt[m]
  BY <1>1 DEF NoticeInv, ReadTyped
<1> QED BY <1>1, <1>2 DEF NoticeInv, ReadTyped, ForeignWritesNoticed

(* Whoever wrote the instruction that the patch overwrites wrote it after  *)
(* the installation read it (SaveLoadGuard.cpp:347-371).                   *)
THEOREM ConflictsNoticed == Spec => []ForeignWritesNoticed
<1>1. ASSUME Init PROVE NoticeInv
  <2>1. ReadTyped
    BY <1>1 DEF Init, ReadTyped
  <2>2. ForeignWritesNoticed
    BY <1>1 DEF Init, ForeignWritesNoticed
  <2> QED BY <1>1, <2>1, <2>2, InvInit DEF NoticeInv
<1>2. ASSUME NoticeInv, [Next]_vars PROVE NoticeInv'
  <2>1. IInv'
    BY <1>2, InvStep DEF NoticeInv
  <2>2. ReadTyped' /\ ForeignWritesNoticed'
    BY <1>2, NoticeMoves, NoticeOther, NoticeForeign DEF Next, InstallNext, Moves
  <2> QED BY <1>2, <2>1, <2>2 DEF NoticeInv
<1>3. NoticeInv => ForeignWritesNoticed
  BY DEF NoticeInv
<1> QED BY <1>1, <1>2, <1>3, PTL DEF Spec
=============================================================================
