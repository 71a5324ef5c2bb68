---------------------------- MODULE PeriodicDrain ----------------------------
(***************************************************************************)
(* The timer behind the log: PeriodicDrain (Diagnostics/PeriodicDrain.cpp) *)
(* and StartPeriodicLogging (Platform/Logging.cpp), which pins the library *)
(* before it starts one.  One owner thread calls Start and Stop; callbacks *)
(* run on the threads of the system's pool and can overlap.  The plugin    *)
(* itself leaves a timer that started running for ever; Stop is there for  *)
(* other owners of the class and for its destructor.                       *)
(***************************************************************************)
EXTENDS Integers

CONSTANTS Pool,                        (* threads of the system's pool      *)
          Callbacks,                   (* functions the owner may pass      *)
          NoCallback,                  (* nullptr                           *)
          MaxPending                   (* callbacks queued at most          *)

ASSUME DrainAssumption ==
  /\ NoCallback \notin Callbacks
  /\ MaxPending \in Nat \ {0}

VARIABLES
  _callback, _running,        (* of PeriodicDrain                          *)
  timer,                      (* "none", "disarmed" or "armed"              *)
  pending,                    (* expirations no thread has taken yet        *)
  owner,                      (* where in Start or Stop                     *)
  starting,                   (* the callback Start was given               *)
  tick,                       (* per pool thread: where in Tick             *)
  calling,                    (* the function it calls                      *)
  pinned, loaded              (* the library cannot be unloaded; is there   *)

library == <<pinned, loaded>>
ticks == <<tick, calling>>
vars == <<_callback, _running, timer, pending, owner, starting, ticks, library>>

Init ==
  /\ _callback = NoCallback /\ _running = FALSE
  /\ timer = "none" /\ pending = 0
  /\ owner = "idle" /\ starting = NoCallback
  /\ tick = [p \in Pool |-> "out"]
  /\ calling = [p \in Pool |-> NoCallback]
  /\ pinned = FALSE /\ loaded = TRUE

OwnerGoes(from, to) ==
  /\ owner = from
  /\ owner' = to

TickGoes(p, from, to) ==
  /\ tick[p] = from
  /\ tick' = [tick EXCEPT ![p] = to]

-----------------------------------------------------------------------------
(* StartPeriodicLogging and Start.                                         *)

StartStep == UNCHANGED <<_running, pending, ticks>>

(* A timer that is there already is left alone.                            *)
StartPeriodicLogging(callback) ==
  /\ loaded /\ timer = "none"
  /\ OwnerGoes("idle", "pinning")
  /\ starting' = callback
  /\ UNCHANGED <<_callback, timer, library>>
  /\ StartStep

(* Variant: the library is pinned after the start, that is, too late here. *)
PinNothing ==
  /\ OwnerGoes("pinning", "starting")
  /\ UNCHANGED <<_callback, timer, starting, library>>
  /\ StartStep

Pin ==
  /\ OwnerGoes("pinning", "starting")
  /\ pinned' = TRUE
  /\ UNCHANGED <<_callback, timer, starting, loaded>>
  /\ StartStep

PinFails ==
  /\ OwnerGoes("pinning", "idle")
  /\ UNCHANGED <<_callback, timer, starting, library>>
  /\ StartStep

Create ==
  /\ OwnerGoes("starting", "arming")
  /\ _callback' = starting
  /\ timer' = "disarmed"
  /\ UNCHANGED <<starting, library>>
  /\ StartStep

(* The fields are set before and cleared after; no thread can tell.        *)
CreateFails ==
  /\ OwnerGoes("starting", "idle")
  /\ _callback' = NoCallback
  /\ UNCHANGED <<timer, starting, library>>
  /\ StartStep

Arm ==
  /\ OwnerGoes("arming", "idle")
  /\ timer' = "armed"
  /\ UNCHANGED <<_callback, starting, library>>
  /\ StartStep

-----------------------------------------------------------------------------
(* Stop.                                                                   *)

StopStep == UNCHANGED <<_running, starting, ticks, library>>

Disarm ==
  /\ timer # "none"
  /\ OwnerGoes("idle", "cancelling")
  /\ timer' = "disarmed"
  /\ UNCHANGED <<_callback, pending>>
  /\ StopStep

(* WaitForThreadpoolTimerCallbacks: what is queued is taken back, what     *)
(* runs is waited for.                                                     *)
Cancel ==
  /\ OwnerGoes("cancelling", "waiting")
  /\ pending' = 0
  /\ UNCHANGED <<_callback, timer>>
  /\ StopStep

Wait ==
  /\ pending = 0
  /\ \A p \in Pool : tick[p] = "out"
  /\ OwnerGoes("waiting", "closing")
  /\ UNCHANGED <<_callback, timer, pending>>
  /\ StopStep

Close ==
  /\ OwnerGoes("closing", "idle")
  /\ timer' = "none"
  /\ _callback' = NoCallback
  /\ UNCHANGED pending
  /\ StopStep

-----------------------------------------------------------------------------
(* The system's timer and Tick on a thread of its pool.                    *)

TickStep == UNCHANGED <<_callback, timer, owner, starting, library>>

Expire ==
  /\ timer = "armed"
  /\ pending < MaxPending
  /\ pending' = pending + 1
  /\ UNCHANGED <<_running, ticks>>
  /\ TickStep

EnterTick(p) ==
  /\ pending > 0
  /\ TickGoes(p, "out", "entered")
  /\ pending' = pending - 1
  /\ UNCHANGED <<_running, calling>>
  /\ TickStep

(* Variant: the flag is read and set as if nobody could come between.      *)
TestAndSetAlways(p) ==
  /\ TickGoes(p, "entered", "holding")
  /\ _running' = TRUE
  /\ UNCHANGED <<pending, calling>>
  /\ TickStep

TestAndSet(p) ==
  /\ ~_running
  /\ TickGoes(p, "entered", "holding")
  /\ _running' = TRUE
  /\ UNCHANGED <<pending, calling>>
  /\ TickStep

(* Another callback is still at it: leave without waiting.                 *)
SkipTick(p) ==
  /\ _running
  /\ TickGoes(p, "entered", "out")
  /\ UNCHANGED <<_running, pending, calling>>
  /\ TickStep

Call(p) ==
  /\ TickGoes(p, "holding", "inside")
  /\ calling' = [calling EXCEPT ![p] = _callback]
  /\ UNCHANGED <<_running, pending>>
  /\ TickStep

(* Variant: the flag stays set.                                            *)
ReturnWithoutClear(p) ==
  /\ TickGoes(p, "inside", "out")
  /\ calling' = [calling EXCEPT ![p] = NoCallback]
  /\ UNCHANGED <<_running, pending>>
  /\ TickStep

(* The callback returns and the flag is cleared.                           *)
ReturnAndClear(p) ==
  /\ TickGoes(p, "inside", "out")
  /\ calling' = [calling EXCEPT ![p] = NoCallback]
  /\ _running' = FALSE
  /\ UNCHANGED pending
  /\ TickStep

(* Whoever loaded the library gives it back.                               *)
Unload ==
  /\ owner = "idle" /\ ~pinned
  /\ loaded' = FALSE
  /\ UNCHANGED <<_callback, _running, timer, pending, owner, starting, ticks, pinned>>

Start ==
  \/ \E callback \in Callbacks : StartPeriodicLogging(callback)
  \/ Pin \/ PinFails \/ Create \/ CreateFails \/ Arm

Stop == Disarm \/ Cancel \/ Wait \/ Close

Tick(p) == TestAndSet(p) \/ SkipTick(p) \/ Call(p) \/ ReturnAndClear(p)

Next ==
  \/ Start \/ Stop
  \/ Expire \/ Unload
  \/ \E p \in Pool : EnterTick(p) \/ Tick(p)

Spec == Init /\ [][Next]_vars

(* The pool works and a callback returns (DrainLogs does: it either skips  *)
(* or ends).  The owner need not do anything.                              *)
Fairness ==
  /\ WF_vars(Expire)
  /\ \A p \in Pool : WF_vars(Tick(p))
  /\ WF_vars(\E p \in Pool : EnterTick(p))

FairSpec == Spec /\ Fairness

-----------------------------------------------------------------------------
(* Properties.                                                             *)

DrainTypeOK ==
  /\ _callback \in Callbacks \cup {NoCallback} /\ _running \in BOOLEAN
  /\ timer \in {"none", "disarmed", "armed"}
  /\ pending \in 0 .. MaxPending
  /\ owner \in {"idle", "pinning", "starting", "arming", "cancelling", "waiting", "closing"}
  /\ starting \in Callbacks \cup {NoCallback}
  /\ tick \in [Pool -> {"out", "entered", "holding", "inside"}]
  /\ calling \in [Pool -> Callbacks \cup {NoCallback}]
  /\ pinned \in BOOLEAN /\ loaded \in BOOLEAN

Busy(p) == tick[p] \in {"holding", "inside"}

(* Callbacks of a drain that takes longer than the interval overlap, and   *)
(* only one of them drains (PeriodicDrain.cpp:33).                         *)
OneAtATime == \A p, q \in Pool : Busy(p) /\ Busy(q) => p = q

(* A callback under way calls what Start was given, never a null pointer   *)
(* or the function of another start: _callback is plain memory, written    *)
(* only while no thread is in Tick (PeriodicDrain.cpp:14, 36, 46-51).      *)
CallsWhatWasStarted ==
  \A p \in Pool : tick[p] = "inside" => calling[p] = starting /\ calling[p] # NoCallback

(* "Timer callbacks must not point into an unloaded DLL": pinning comes    *)
(* before the timer (Logging.cpp:121-125).                                 *)
NeverUnloadedUnderTimer ==
  timer # "none" \/ (\E p \in Pool : tick[p] # "out") => loaded

(* As long as the timer runs, incidents are drained again and again: no    *)
(* callback leaves the flag behind that makes all others skip              *)
(* (PeriodicDrain.cpp:33-37).                                              *)
KeepsTicking == timer = "armed" ~> (timer # "armed" \/ \E p \in Pool : tick[p] = "inside")
=============================================================================
