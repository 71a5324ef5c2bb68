------------------------- MODULE PeriodicDrainProofs -------------------------
(***************************************************************************)
(* Proofs about PeriodicDrain, for any number of pool threads, callbacks   *)
(* and queued expirations: drains do not overlap, every call goes to the   *)
(* function that was started, and the library is there.                    *)
(*                                                                         *)
(* The argument: whoever is in Tick took an expiration of a timer that     *)
(* exists; Stop gives the timer up only when it is disarmed, nothing is    *)
(* queued and nobody is in Tick; so the fields do not change under a Tick. *)
(***************************************************************************)
EXTENDS PeriodicDrain, TLAPS

(* The flag is set exactly while one thread is between setting and         *)
(* clearing it.                                                            *)
FlagMeansBusy == _running <=> \E p \in Pool : Busy(p)

(* Without a timer, and once Stop has waited, the pool is quiet.           *)
Quiet == pending = 0 /\ \A p \in Pool : tick[p] = "out"
QuietWithoutTimer == timer = "none" \/ owner = "closing" => Quiet

(* What the owner knows of the timer where it is.                          *)
OwnerKnows ==
  /\ owner \in {"pinning", "starting"} => timer = "none"
  /\ owner \in {"arming", "cancelling", "waiting", "closing"} => timer = "disarmed"

(* A timer is behind a pinned library and has its function.                *)
TimerHas ==
  timer # "none" => _callback = starting /\ starting \in Callbacks /\ pinned /\ loaded
StartHas ==
  /\ owner # "idle" => loaded
  /\ owner \in {"pinning", "starting"} => starting \in Callbacks
  /\ owner = "starting" => pinned
CallsIt == \A p \in Pool : tick[p] = "inside" => calling[p] = starting

DrainInv ==
  /\ DrainTypeOK /\ OneAtATime /\ FlagMeansBusy
  /\ QuietWithoutTimer /\ OwnerKnows /\ TimerHas /\ StartHas /\ CallsIt

LEMMA DrainInit == ASSUME Init PROVE DrainInv
<1>1. DrainTypeOK
  <2>1. /\ pending \in 0 .. MaxPending
        /\ tick \in [Pool -> {"out", "entered", "holding", "inside"}]
        /\ calling \in [Pool -> Callbacks \cup {NoCallback}]
    BY DrainAssumption DEF Init
  <2>2. _running \in BOOLEAN /\ pinned \in BOOLEAN /\ loaded \in BOOLEAN
    BY DEF Init
  <2> QED BY <2>1, <2>2 DEF Init, DrainTypeOK
<1>2. OneAtATime /\ FlagMeansBusy /\ CallsIt
  BY DEF Init, OneAtATime, FlagMeansBusy, Busy, CallsIt
<1>3. QuietWithoutTimer /\ OwnerKnows /\ TimerHas /\ StartHas
  BY DEF Init, Quiet, QuietWithoutTimer, OwnerKnows, TimerHas, StartHas
<1> QED BY <1>1, <1>2, <1>3 DEF DrainInv

(* Steps of the owner leave the pool alone.                                *)
LEMMA PoolStays ==
  ASSUME DrainInv, UNCHANGED <<_running, ticks>>
  PROVE  OneAtATime' /\ FlagMeansBusy'
BY DEF DrainInv, OneAtATime, FlagMeansBusy, Busy, ticks

LEMMA StartKeeps == ASSUME DrainInv, Start PROVE DrainInv'
<1>1. OneAtATime' /\ FlagMeansBusy'
  <2>1. UNCHANGED <<_running, ticks>>
    BY DEF Start, StartPeriodicLogging, Pin, PinFails, Create, CreateFails, Arm, StartStep
  <2> QED BY <2>1, PoolStays
<1> USE DEF StartStep, OwnerGoes, DrainInv, library, ticks
<1>2. CASE \E callback \in Callbacks : StartPeriodicLogging(callback)
  <2>1. PICK callback \in Callbacks : StartPeriodicLogging(callback)
    BY <1>2
  <2>2. CallsIt'
    BY <2>1 DEF StartPeriodicLogging, QuietWithoutTimer, Quiet, CallsIt
  <2> QED
    BY <1>1, <2>1, <2>2 DEF StartPeriodicLogging, DrainTypeOK, QuietWithoutTimer, Quiet,
       OwnerKnows, TimerHas, StartHas
<1>3. CASE Pin \/ PinFails
  BY <1>1, <1>3 DEF Pin, PinFails, DrainTypeOK, QuietWithoutTimer, Quiet, OwnerKnows, TimerHas,
     StartHas, CallsIt
<1>4. CASE Create \/ CreateFails \/ Arm
  BY <1>1, <1>4 DEF Create, CreateFails, Arm, DrainTypeOK, QuietWithoutTimer, Quiet, OwnerKnows,
     TimerHas, StartHas, CallsIt
<1> QED BY <1>2, <1>3, <1>4 DEF Start

LEMMA StopKeeps == ASSUME DrainInv, Stop PROVE DrainInv'
<1>1. OneAtATime' /\ FlagMeansBusy'
  <2>1. UNCHANGED <<_running, ticks>>
    BY DEF Stop, Disarm, Cancel, Wait, Close, StopStep
  <2> QED BY <2>1, PoolStays
<1> USE DEF StopStep, OwnerGoes, DrainInv, library, ticks
<1>2. CASE Disarm \/ Cancel
  BY <1>1, <1>2, DrainAssumption DEF Disarm, Cancel, DrainTypeOK, QuietWithoutTimer, Quiet, OwnerKnows, TimerHas,
     StartHas, CallsIt
<1>3. CASE Wait \/ Close
  BY <1>1, <1>3 DEF Wait, Close, DrainTypeOK, QuietWithoutTimer, Quiet, OwnerKnows, TimerHas,
     StartHas, CallsIt
<1> QED BY <1>2, <1>3 DEF Stop

(* A thread in Tick, or about to be, has a timer that is not given up.     *)
LEMMA TickHasTimer ==
  ASSUME DrainInv, \/ timer = "armed" \/ pending > 0
                   \/ \E p \in Pool : tick[p] # "out"
  PROVE  timer # "none" /\ owner # "closing"
BY DEF DrainInv, DrainTypeOK, QuietWithoutTimer, Quiet, OwnerKnows

LEMMA PoolKeeps ==
  ASSUME DrainInv, Expire \/ \E p \in Pool : EnterTick(p) \/ Tick(p)
  PROVE  DrainInv'
<1>1. timer # "none" /\ owner # "closing" /\ UNCHANGED <<_callback, timer, owner, starting, library>>
  BY TickHasTimer DEF Expire, EnterTick, Tick, TestAndSet, SkipTick, Call, ReturnAndClear,
     TickGoes, TickStep, DrainInv, DrainTypeOK
<1>2. QuietWithoutTimer' /\ OwnerKnows' /\ TimerHas' /\ StartHas'
  BY <1>1 DEF DrainInv, QuietWithoutTimer, OwnerKnows, TimerHas, StartHas, library
<1> USE DEF TickGoes, TickStep, ticks, library, DrainInv
<1>3. CASE Expire
  BY <1>2, <1>3, PoolStays, DrainAssumption DEF Expire, DrainTypeOK, CallsIt
<1>4. ASSUME NEW p \in Pool, EnterTick(p) PROVE DrainInv'
  BY <1>2, <1>4, DrainAssumption DEF EnterTick, DrainTypeOK, OneAtATime, FlagMeansBusy, Busy, CallsIt
<1>5. ASSUME NEW p \in Pool, TestAndSet(p) PROVE DrainInv'
  BY <1>2, <1>5 DEF TestAndSet, DrainTypeOK, OneAtATime, FlagMeansBusy, Busy, CallsIt
<1>6. ASSUME NEW p \in Pool, SkipTick(p) PROVE DrainInv'
  BY <1>2, <1>6 DEF SkipTick, DrainTypeOK, OneAtATime, FlagMeansBusy, Busy, CallsIt
<1>7. ASSUME NEW p \in Pool, Call(p) PROVE DrainInv'
  BY <1>1, <1>2, <1>7 DEF Call, DrainTypeOK, OneAtATime, FlagMeansBusy, Busy, CallsIt, TimerHas
<1>8. ASSUME NEW p \in Pool, ReturnAndClear(p) PROVE DrainInv'
  BY <1>2, <1>8 DEF ReturnAndClear, DrainTypeOK, OneAtATime, FlagMeansBusy, Busy, CallsIt
<1> QED BY <1>3, <1>4, <1>5, <1>6, <1>7, <1>8 DEF Tick

LEMMA UnloadKeeps == ASSUME DrainInv, Unload PROVE DrainInv'
BY DEF Unload, DrainInv, DrainTypeOK, OneAtATime, FlagMeansBusy, Busy, Quiet, QuietWithoutTimer,
   OwnerKnows, TimerHas, StartHas, CallsIt, ticks

LEMMA DrainStep == ASSUME DrainInv, [Next]_vars PROVE DrainInv'
<1>1. CASE UNCHANGED vars
  BY <1>1 DEF vars, DrainInv, DrainTypeOK, OneAtATime, FlagMeansBusy, Busy, Quiet,
     QuietWithoutTimer, OwnerKnows, TimerHas, StartHas, CallsIt, ticks, library
<1> QED BY <1>1, StartKeeps, StopKeeps, PoolKeeps, UnloadKeeps DEF Next

LEMMA DrainInvHolds == Spec => []DrainInv
<1>1. Init => DrainInv
  BY DrainInit
<1>2. DrainInv /\ [Next]_vars => DrainInv'
  BY DrainStep
<1> QED BY <1>1, <1>2, PTL DEF Spec

(* Drains never overlap, however many callbacks are under way              *)
(* (PeriodicDrain.cpp:33-37).                                              *)
THEOREM NoOverlap == Spec => []OneAtATime
<1>1. DrainInv => OneAtATime
  BY DEF DrainInv
<1> QED BY <1>1, DrainInvHolds, PTL

(* No callback meets a pointer that Stop cleared or another Start set      *)
(* (PeriodicDrain.cpp:14, 36, 46-51).                                      *)
THEOREM CallsItsFunction == Spec => []CallsWhatWasStarted
<1>1. DrainInv => CallsWhatWasStarted
  BY TickHasTimer, DrainAssumption DEF DrainInv, TimerHas, CallsIt, CallsWhatWasStarted
<1> QED BY <1>1, DrainInvHolds, PTL

(* A timer, and whoever is in Tick, is inside a library that cannot be     *)
(* unloaded (Logging.cpp:121-125).                                         *)
THEOREM LibraryStays == Spec => []NeverUnloadedUnderTimer
<1>1. DrainInv => NeverUnloadedUnderTimer
  BY TickHasTimer DEF DrainInv, TimerHas, NeverUnloadedUnderTimer
<1> QED BY <1>1, DrainInvHolds, PTL
=============================================================================
