---------------------------- MODULE SaveLoadGuard ----------------------------
(***************************************************************************)
(* The guard at run time (Hooks/SaveLoadGuard.cpp): engine threads go      *)
(* through the hooked call (GuardedGetFormEditorID), and their incidents   *)
(* reach the log through the queue, the drain lock and the coalescer       *)
(* (DrainLogsImpl).  Timer callbacks and F4SE messages drain too.          *)
(*                                                                         *)
(* Composition: the queue is IncidentTransport, which IncidentQueue is     *)
(* shown to implement; the table a drain folds its batch into is           *)
(* IncidentCoalescer.  The actions below conjoin theirs.                   *)
(*                                                                         *)
(* The hook is installed and the mode fixed before this module starts.     *)
(* What validation finds is a choice of the environment, since forms are   *)
(* freed and reused by the engine.                                         *)
(***************************************************************************)
EXTENDS Integers, Sequences, FiniteSets

CONSTANTS Guards,         (* engine threads that reach the hooked call      *)
          Ticks,          (* periodic drain and F4SE message drains         *)
          Rejections,     (* reasons ValidateEditorIdTarget can give        *)
          NoIncident,
          N,              (* capacity of the queue and budget of one drain  *)
          Capacity,       (* slots of the coalescer                         *)
          Limit,          (* its saturation bound                           *)
          MaxDispatches   (* bound on the hooked calls of one behaviour     *)

Threads == Guards \cup Ticks
Reasons == Rejections \cup {"InvalidEditorIdResult", "FaultDuringEditorId"}

(* The fields that matter: the collapse rule's, who reports, and which of  *)
(* its incidents.  The runtime and the callsite are fixed by Install.      *)
Incidents == [incidentId : Nat, threadId : Guards, reason : Reasons,
              action : {"Prevented", "Observed"},
              runtimeCode : {"runtime"}, callsite : {"callsite"}]

ASSUME GuardAssumption ==
  /\ N \in Nat \ {0} /\ Capacity \in Nat \ {0} /\ Limit \in Nat \ {0}
  /\ MaxDispatches \in Nat
  /\ Guards \cap Ticks = {}
  /\ {"InvalidEditorIdResult", "FaultDuringEditorId"} \cap Rejections = {}
  /\ NoIncident \notin Incidents

VARIABLES lane, first, dropped, op, at, held,    (* the queue               *)
          slots, active, collapsed, untracked,   (* the drain's table       *)
          prevention,      (* PreventionEnabled()                           *)
          alive,           (* the process has not died of an exception      *)
          pc, incident,    (* per thread: where it is, what it reports      *)
          processed,       (* records popped by the drain in progress       *)
          g_workingPending, g_workingLogged, g_draining,
          g_prevented, g_observed, g_unlogged, g_lastDropped, g_nextIncident,
          dispatches,      (* hooked calls so far                           *)
          accounted,       (* incidents the written log lines stand for     *)
          workingLines     (* "working" lines written                       *)

Queue == INSTANCE IncidentTransport
Table == INSTANCE IncidentCoalescer WITH Blank <- NoIncident

queue    == <<lane, first, dropped, op, at, held>>
table    == <<slots, active, collapsed, untracked>>
fixed    == <<prevention>>
working  == <<g_workingPending, g_workingLogged, workingLines>>
totals   == <<g_prevented, g_observed>>
reported == <<g_unlogged, g_lastDropped, accounted>>
vars     == <<queue, table, fixed, alive, pc, incident, processed, working,
              g_draining, totals, reported, g_nextIncident, dispatches>>

Init ==
  /\ Queue!TransportInit
  /\ Table!EmptyTable
  /\ prevention \in BOOLEAN
  /\ alive = TRUE
  /\ pc       = [t \in Threads |-> "outside"]
  /\ incident = [t \in Threads |-> NoIncident]
  /\ processed = 0
  /\ g_workingPending = FALSE /\ g_workingLogged = FALSE
  /\ g_draining = FALSE
  /\ g_prevented = 0 /\ g_observed = 0
  /\ g_unlogged = 0 /\ g_lastDropped = 0
  /\ g_nextIncident = 1
  /\ dispatches = 0 /\ accounted = 0 /\ workingLines = 0

Goto(t, from, to) ==
  /\ pc[t] = from
  /\ pc' = [pc EXCEPT ![t] = to]

-----------------------------------------------------------------------------
(* GuardedGetFormEditorID.                                                 *)

Dispatch(t) ==
  /\ dispatches < MaxDispatches
  /\ dispatches' = dispatches + 1
  /\ g_workingPending' = TRUE
  /\ Goto(t, "outside", "validating")
  /\ UNCHANGED <<queue, table, alive, incident, processed, g_workingLogged,
                 workingLines, g_draining, totals, reported, g_nextIncident>>

(* Everything an incident is about, before QueueIncident numbers it.       *)
Describe(t, reason, action) ==
  incident' = [incident EXCEPT ![t] =
    [incidentId |-> 0, threadId |-> t, reason |-> reason, action |-> action,
     runtimeCode |-> "runtime", callsite |-> "callsite"]]

ActionForCurrentMode == IF prevention THEN "Prevented" ELSE "Observed"

LocalStep == UNCHANGED <<queue, table, alive, processed, working, g_draining,
                         totals, reported, g_nextIncident, dispatches>>

Reject(t) ==
  /\ Goto(t, "validating", "counting")
  /\ \E reason \in Rejections : Describe(t, reason, ActionForCurrentMode)
  /\ LocalStep

Accept(t) ==
  /\ Goto(t, "validating", "calling")
  /\ UNCHANGED incident
  /\ LocalStep

(* The engine's function returned a string the warning can print.          *)
CallReturns(t) ==
  /\ Goto(t, "calling", "outside")
  /\ UNCHANGED incident
  /\ LocalStep

CallReturnsUnreadable(t) ==
  /\ Goto(t, "calling", "counting")
  /\ Describe(t, "InvalidEditorIdResult", ActionForCurrentMode)
  /\ LocalStep

(* An access violation or in-page error inside the function, with the      *)
(* protected call in place.                                                *)
CallFaults(t) ==
  /\ prevention
  /\ Goto(t, "calling", "counting")
  /\ Describe(t, "FaultDuringEditorId", "Prevented")
  /\ LocalStep

(* Any other exception, or any exception without protection: the filter    *)
(* declines it and the process dies.                                       *)
CallEscapes(t) ==
  /\ pc[t] = "calling"
  /\ alive' = FALSE
  /\ UNCHANGED <<queue, table, pc, incident, processed, working, g_draining,
                 totals, reported, g_nextIncident, dispatches>>

CountIncident(t) ==
  /\ Goto(t, "counting", "queueing")
  /\ IF incident[t].action = "Prevented"
       THEN g_prevented' = g_prevented + 1 /\ UNCHANGED g_observed
       ELSE g_observed'  = g_observed + 1  /\ UNCHANGED g_prevented
  /\ UNCHANGED <<queue, table, alive, incident, processed, working, g_draining,
                 reported, g_nextIncident, dispatches>>

QueueIncident(t) ==
  /\ Goto(t, "queueing", "pushing")
  /\ g_nextIncident' = g_nextIncident + 1
  /\ incident' = [incident EXCEPT ![t].incidentId = g_nextIncident]
  /\ Queue!CallPush(t, incident'[t])
  /\ UNCHANGED <<table, alive, processed, working, g_draining, totals,
                 reported, dispatches>>

QueueStep == UNCHANGED <<table, alive, incident, processed, working, g_draining,
                         totals, reported, g_nextIncident, dispatches>>

PushClaims(t) ==
  /\ pc[t] = "pushing"
  /\ Queue!Claim(t) \/ Queue!Refuse(t)
  /\ UNCHANGED pc
  /\ QueueStep

(* Variant: an accepted record is left to the next periodic drain.         *)
PushedAndReturns(t) ==
  /\ Goto(t, "pushing", "outside")
  /\ Queue!Publish(t)
  /\ incident' = [incident EXCEPT ![t] = NoIncident]
  /\ UNCHANGED <<table, alive, processed, working, g_draining, totals, reported,
                 g_nextIncident, dispatches>>

Pushed(t) ==
  /\ Goto(t, "pushing", "waiting")
  /\ Queue!Publish(t)
  /\ QueueStep

PushRefused(t) ==
  /\ Goto(t, "pushing", "missing")
  /\ Queue!CountDrop(t)
  /\ QueueStep

(* Variant: a refused record is not counted.                               *)
CountNothing(t) ==
  /\ Goto(t, "missing", "waiting")
  /\ UNCHANGED <<queue, table, alive, incident, processed, working, g_draining,
                 totals, reported, g_nextIncident, dispatches>>

CountUnlogged(t) ==
  /\ Goto(t, "missing", "waiting")
  /\ g_unlogged' = g_unlogged + 1
  /\ UNCHANGED <<queue, table, alive, incident, processed, working, g_draining,
                 totals, g_lastDropped, accounted, g_nextIncident, dispatches>>

-----------------------------------------------------------------------------
(* DrainLogsImpl: waited for by engine threads (DrainLogsImmediately),     *)
(* skipped by ticks and messages when it is running (DrainLogs).           *)

DrainLocal == UNCHANGED <<alive, incident, totals, g_nextIncident, dispatches>>

Tick(t) ==
  /\ Goto(t, "outside", "waiting")
  /\ UNCHANGED <<queue, table, processed, working, g_draining, reported>>
  /\ DrainLocal

SkipDrain(t) ==
  /\ g_draining
  /\ Goto(t, "waiting", "outside")
  /\ UNCHANGED <<queue, table, processed, working, g_draining, reported>>
  /\ DrainLocal

(* test_and_set succeeds; the drain starts with an empty table.            *)
AcquireDrain(t) ==
  /\ ~g_draining
  /\ Goto(t, "waiting", "announcing")
  /\ g_draining' = TRUE
  /\ Table!Reset
  /\ processed' = 0
  /\ UNCHANGED <<queue, working, reported>>
  /\ DrainLocal

(* Variant: the flags are exchanged in the other order, so the line is     *)
(* used up by a drain that has nothing to announce.                        *)
AnnounceWorkingSwapped(t) ==
  /\ Goto(t, "announcing", "popping")
  /\ g_workingLogged' = TRUE
  /\ IF ~g_workingLogged
       THEN /\ g_workingPending' = FALSE
            /\ workingLines' = IF g_workingPending THEN workingLines + 1 ELSE workingLines
       ELSE UNCHANGED <<g_workingPending, workingLines>>
  /\ UNCHANGED <<queue, table, processed, g_draining, reported>>
  /\ DrainLocal

(* Variant: the line is written whenever the hook was reached again.       *)
AnnounceEveryTime(t) ==
  /\ Goto(t, "announcing", "popping")
  /\ g_workingPending' = FALSE
  /\ g_workingLogged'  = (g_workingLogged \/ g_workingPending)
  /\ workingLines' = IF g_workingPending THEN workingLines + 1 ELSE workingLines
  /\ UNCHANGED <<queue, table, processed, g_draining, reported>>
  /\ DrainLocal

AnnounceWorking(t) ==
  /\ Goto(t, "announcing", "popping")
  /\ g_workingPending' = FALSE
  /\ g_workingLogged'  = (g_workingLogged \/ g_workingPending)
  /\ workingLines' = IF g_workingPending /\ ~g_workingLogged
                       THEN workingLines + 1 ELSE workingLines
  /\ UNCHANGED <<queue, table, processed, g_draining, reported>>
  /\ DrainLocal

(* Variant: the budget of a drain is one record too large.                 *)
PopStartsOverBudget(t) ==
  /\ pc[t] = "popping" /\ processed <= N
  /\ Queue!CallPop(t)
  /\ UNCHANGED <<table, pc, processed, working, g_draining, reported>>
  /\ DrainLocal

PopStarts(t) ==
  /\ pc[t] = "popping" /\ processed < N
  /\ Queue!CallPop(t)
  /\ UNCHANGED <<table, pc, processed, working, g_draining, reported>>
  /\ DrainLocal

PopTakes(t) ==
  /\ pc[t] = "popping"
  /\ Queue!Take(t)
  /\ UNCHANGED <<table, pc, processed, working, g_draining, reported>>
  /\ DrainLocal

PopFolds(t) ==
  /\ pc[t] = "popping"
  /\ Queue!Release(t)
  /\ Table!TryAdd(held[t])
  /\ processed' = processed + 1
  /\ UNCHANGED <<pc, working, g_draining, reported>>
  /\ DrainLocal

PopFindsNothing(t) ==
  /\ Goto(t, "popping", "logging")
  /\ Queue!FindNothing(t)
  /\ UNCHANGED <<table, processed, working, g_draining, reported>>
  /\ DrainLocal

PopBudgetSpent(t) ==
  /\ op[t] = "idle" /\ processed = N
  /\ Goto(t, "popping", "logging")
  /\ UNCHANGED <<queue, table, processed, working, g_draining, reported>>
  /\ DrainLocal

(* LogIncident: one line, and one more when the aggregate repeats.         *)
LogAggregate(t) ==
  /\ pc[t] = "logging"
  /\ Table!TryPop
  /\ accounted' = accounted + slots[Table!FirstOf(Table!Used)].count
  /\ UNCHANGED <<queue, pc, processed, working, g_draining, g_unlogged, g_lastDropped>>
  /\ DrainLocal

(* Variant: g_unlogged is read, not exchanged for zero.                    *)
LogUncountableWithLoad(t) ==
  /\ Table!Used = {}
  /\ Goto(t, "logging", "comparing")
  /\ accounted' = accounted + untracked + g_unlogged
  /\ UNCHANGED <<queue, table, processed, working, g_draining, g_unlogged, g_lastDropped>>
  /\ DrainLocal

(* The two lines about what did not fit the table and the queue.           *)
LogUncountable(t) ==
  /\ Table!Used = {}
  /\ Goto(t, "logging", "comparing")
  /\ accounted' = accounted + untracked + g_unlogged
  /\ g_unlogged' = 0
  /\ UNCHANGED <<queue, table, processed, working, g_draining, g_lastDropped>>
  /\ DrainLocal

CompareDropped(t) ==
  /\ Goto(t, "comparing", "releasing")
  /\ g_lastDropped' = dropped
  /\ UNCHANGED <<queue, table, processed, working, g_draining, g_unlogged, accounted>>
  /\ DrainLocal

(* Variant: a drain that logged nothing leaves the flag set.               *)
ReturnWithoutRelease(t) ==
  /\ Goto(t, "releasing", "outside")
  /\ g_draining' = (processed = 0)
  /\ incident' = [incident EXCEPT ![t] = NoIncident]
  /\ UNCHANGED <<queue, table, alive, processed, working, totals, reported,
                 g_nextIncident, dispatches>>

(* ~ReleaseDrain, then back to the engine or to sleep.                     *)
ReleaseDrain(t) ==
  /\ Goto(t, "releasing", "outside")
  /\ g_draining' = FALSE
  /\ incident' = [incident EXCEPT ![t] = NoIncident]
  /\ UNCHANGED <<queue, table, alive, processed, working, totals, reported,
                 g_nextIncident, dispatches>>

-----------------------------------------------------------------------------

Guarded(t) ==
  \/ Reject(t) \/ Accept(t)
  \/ CallReturns(t) \/ CallReturnsUnreadable(t) \/ CallFaults(t) \/ CallEscapes(t)
  \/ CountIncident(t) \/ QueueIncident(t)
  \/ PushClaims(t) \/ Pushed(t) \/ PushRefused(t) \/ CountUnlogged(t)

Drain(t) ==
  \/ AnnounceWorking(t)
  \/ PopStarts(t) \/ PopTakes(t) \/ PopFolds(t)
  \/ PopFindsNothing(t) \/ PopBudgetSpent(t)
  \/ LogAggregate(t) \/ LogUncountable(t) \/ CompareDropped(t)
  \/ ReleaseDrain(t)

GuardStep(t) == alive /\ (Guarded(t) \/ Drain(t)) /\ UNCHANGED fixed
TickStep(t)  == alive /\ (Tick(t) \/ SkipDrain(t) \/ AcquireDrain(t) \/ Drain(t))
                      /\ UNCHANGED fixed
Acquire(t)   == alive /\ AcquireDrain(t) /\ UNCHANGED fixed
Enter(t)     == alive /\ Dispatch(t) /\ UNCHANGED fixed

(* The process is gone; nothing happens any more.                          *)
Dead == ~alive /\ UNCHANGED vars

Next ==
  \/ \E t \in Guards : Enter(t) \/ GuardStep(t) \/ Acquire(t)
  \/ \E t \in Ticks  : TickStep(t)
  \/ Dead

Spec == Init /\ [][Next]_vars

(* Running threads keep running, the timer keeps firing, and the engine's  *)
(* function returns or faults.  The drain flag is a spin lock without a    *)
(* queue: a waiting engine thread gets it if it finds it free again and    *)
(* again.  Nobody is obliged to enter the hook.                            *)
Fairness ==
  /\ \A t \in Guards : WF_vars(GuardStep(t)) /\ SF_vars(Acquire(t))
  /\ \A t \in Ticks  : WF_vars(TickStep(t))

FairSpec == Spec /\ Fairness

-----------------------------------------------------------------------------
(* Properties.                                                             *)

Locations ==
  {"outside", "validating", "calling", "counting", "queueing", "pushing", "missing",
   "waiting", "announcing", "popping", "logging", "comparing", "releasing"}

TypeOK ==
  /\ \A k \in 1 .. Len(lane) : lane[k].incident \in Incidents /\ lane[k].ready \in BOOLEAN
  /\ Len(lane) <= N
  /\ pc \in [Threads -> Locations]
  /\ prevention \in BOOLEAN /\ alive \in BOOLEAN
  /\ processed \in 0 .. N
  /\ g_workingPending \in BOOLEAN /\ g_workingLogged \in BOOLEAN /\ g_draining \in BOOLEAN
  /\ {g_prevented, g_observed, g_unlogged, g_lastDropped, accounted} \subseteq 0 .. MaxDispatches
  /\ g_nextIncident \in 1 .. MaxDispatches + 1

(* No thread is inside the hooked call.                                    *)
GuardsOutside == alive /\ \A t \in Guards : pc[t] = "outside"

(* Once no engine thread is inside the guard, the log accounts for every   *)
(* incident that was counted: by a line, as untracked or as unlogged.      *)
(* Nothing stays in the queue, though a drain pops at most N records and   *)
(* stops at the first unpublished one, and periodic drains interfere       *)
(* (SaveLoadGuard.cpp:199-254, 439-451).                                   *)
AccountedAtRest ==
  GuardsOutside =>
    /\ accounted = g_prevented + g_observed
    /\ lane = << >>
    /\ g_unlogged = 0
    /\ g_lastDropped = dropped

(* The totals a log line prints never fall behind the incidents the log    *)
(* has already reported: an incident is counted before it is queued.       *)
NeverOverreported == accounted <= g_prevented + g_observed

(* A call that returned may have left its record in the queue, but only    *)
(* behind the record of a call that is still inside and will drain after   *)
(* publishing, or under a drain that is still popping: no record depends   *)
(* on the periodic drain alone.                                            *)
StillInside(r) ==
  /\ incident[r.threadId] # NoIncident
  /\ incident[r.threadId].incidentId = r.incidentId

NeverStranded ==
  alive /\ (\A t \in Threads : pc[t] # "popping") =>
    \A k \in 1 .. Len(lane) : \E j \in 1 .. k : StillInside(lane[j].incident)

(* At most one "working" line is ever written, and never none once an      *)
(* incident was reported and its caller returned (SaveLoadGuard.cpp:212).  *)
WorkingLineOnce ==
  /\ workingLines <= 1
  /\ GuardsOutside /\ accounted > 0 => workingLines = 1

(* Every hooked call returns to the engine, unless the process dies: the   *)
(* spin on g_draining ends, and the drain itself ends.                     *)
DispatchReturns ==
  \A t \in Guards : pc[t] # "outside" ~> (pc[t] = "outside" \/ ~alive)

(* The hook being reached is reported, even when no incident follows and   *)
(* only the periodic drain runs (README.md, "working" line).               *)
WorkingReported == g_workingPending ~> (workingLines = 1 \/ ~alive)
=============================================================================
