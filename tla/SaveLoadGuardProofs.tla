------------------------- MODULE SaveLoadGuardProofs -------------------------
(***************************************************************************)
(* Proofs about SaveLoadGuard, for any number of engine threads, timers    *)
(* and hooked calls, any capacity and any table: no record is stranded,    *)
(* the "working" line is written once, and the books balance.              *)
(*                                                                         *)
(* No record is stranded because of budgets.  A drain may pop N records,   *)
(* and the lane holds at most N when it begins, so whatever is behind its  *)
(* budget was claimed since; whoever claimed it cannot have drained, since *)
(* the lock was taken, and so has a drain of its own still before it.  A   *)
(* drain that stops early stops at a record that is being written, whose   *)
(* thread has its drain before it too.                                     *)
(*                                                                         *)
(* The books balance because an incident is moved, never copied: it is     *)
(* with a thread, in the lane, in a slot of the table or in a counter, and *)
(* each of these has an engine thread inside that will write it.           *)
(***************************************************************************)
EXTENDS SaveLoadGuard, FiniteSetTheorems, TLAPS

Records == Incidents \cup {NoIncident}
Entries == [incident : Incidents, ready : BOOLEAN]

GuardTypes ==
  /\ pc \in [Threads -> Locations] /\ incident \in [Threads -> Records]
  /\ op \in [Threads -> {"idle", "push", "refused", "writing", "pop", "copying"}]
  /\ at \in [Threads -> Nat] /\ held \in [Threads -> Records]
  /\ lane \in Seq(Entries) /\ Len(lane) <= N /\ first \in Nat
  /\ g_nextIncident \in Nat /\ processed \in 0 .. N

(* Where the calls on the queue stand, and whose record each thread moves. *)
Calls ==
  \A t \in Threads :
    /\ pc[t] = "pushing" <=> op[t] \in {"push", "refused", "writing"}
    /\ op[t] \in {"pop", "copying"} => pc[t] = "popping" /\ processed < N
    /\ incident[t] # NoIncident => incident[t].threadId = t
    /\ pc[t] \in {"counting", "queueing", "pushing"} => incident[t] # NoIncident
    /\ op[t] \in {"push", "writing"} => held[t] = incident[t]

Draining == {"announcing", "popping", "logging", "comparing", "releasing"}

OneDrain ==
  \A t \in Threads : pc[t] \in Draining =>
    g_draining /\ \A u \in Threads : pc[u] \in Draining => u = t

(* An unpublished record is the one its thread is writing.                 *)
Writers ==
  \A t \in Threads : op[t] = "writing" =>
    /\ at[t] - first + 1 \in 1 .. Len(lane)
    /\ lane[at[t] - first + 1] = [incident |-> incident[t], ready |-> FALSE]
Unpublished ==
  \A k \in 1 .. Len(lane) : ~lane[k].ready =>
    /\ op[lane[k].incident.threadId] = "writing"
    /\ at[lane[k].incident.threadId] = first + k - 1

(* The thread of a record has its drain still before it.                   *)
Owes(r, places) ==
  StillInside(r) /\ (op[r.threadId] = "writing" \/ pc[r.threadId] \in places)

(* The records the drain of t can still pop.                               *)
Budget(t) == IF op[t] = "copying" THEN N - processed - 1 ELSE N - processed
Scanning(t) == pc[t] \in {"announcing", "popping"}

BeyondBudget ==
  \A t \in Threads : Scanning(t) =>
    \A k \in 1 .. Len(lane) : k > Budget(t) => Owes(lane[k].incident, {"waiting"})
HeadOwes ==
  lane # << >> =>
    /\ (\A t \in Threads : pc[t] # "popping") =>
         Owes(lane[1].incident, {"waiting", "announcing"})
    /\ (\A t \in Threads : ~Scanning(t)) => Owes(lane[1].incident, {"waiting"})

LaneInv   == Writers /\ Unpublished /\ BeyondBudget /\ HeadOwes
StrandInv == GuardTypes /\ Calls /\ OneDrain /\ LaneInv

-----------------------------------------------------------------------------

LEMMA StrandInit == ASSUME Init PROVE StrandInv
<1> USE GuardAssumption DEF Init, Queue!TransportInit
<1>1. GuardTypes
  BY DEF GuardTypes, Records, Locations
<1>2. Calls /\ OneDrain
  BY DEF Calls, OneDrain, Draining
<1>3. LaneInv
  BY DEF LaneInv, Writers, Unpublished, BeyondBudget, HeadOwes, Scanning
<1> QED BY <1>1, <1>2, <1>3 DEF StrandInv

(* What a lane entry is.                                                   *)
LEMMA EntryTypes ==
  ASSUME GuardTypes, NEW k \in 1 .. Len(lane)
  PROVE  /\ lane[k] \in Entries /\ lane[k].incident \in Incidents
         /\ lane[k].incident.threadId \in Guards
         /\ lane[k].incident.threadId \in Threads
<1>1. lane[k] \in Entries
  BY DEF GuardTypes
<1>2. lane[k].incident \in Incidents
  BY <1>1 DEF Entries
<1>3. lane[k].incident.threadId \in Guards
  BY <1>2 DEF Incidents
<1> QED BY <1>1, <1>2, <1>3 DEF Threads

(* A thread that owes no record a drain may move anywhere but into one.    *)
LEMMA Apart ==
  ASSUME StrandInv, NEW t \in Threads,
         UNCHANGED <<lane, first, processed>>,
         \A u \in Threads \ {t} : /\ pc'[u] = pc[u] /\ op'[u] = op[u] /\ at'[u] = at[u]
                                  /\ incident'[u] = incident[u],
         op[t] # "writing", op'[t] # "writing", ~Scanning(t), ~Scanning(t)',
         t \in Ticks \/ pc[t] # "waiting"
  PROVE  LaneInv'
<1>1. ASSUME NEW k \in 1 .. Len(lane), NEW places \in SUBSET {"waiting", "announcing"},
             Owes(lane[k].incident, places)
      PROVE  Owes(lane[k].incident, places)'
  <2>1. lane[k].incident.threadId \in Threads \ {t}
    BY <1>1, EntryTypes, GuardAssumption DEF StrandInv, Owes, Scanning
  <2> QED BY <1>1, <2>1 DEF Owes, StillInside
<1>2. Writers'
  BY DEF StrandInv, LaneInv, Writers
<1>3. Unpublished'
  <2>1. SUFFICES ASSUME NEW k \in 1 .. Len(lane), ~lane[k].ready
                 PROVE  /\ op'[lane[k].incident.threadId] = "writing"
                        /\ at'[lane[k].incident.threadId] = first + k - 1
    BY DEF Unpublished
  <2>2. lane[k].incident.threadId \in Threads \ {t}
    BY <2>1, EntryTypes DEF StrandInv, LaneInv, Unpublished
  <2> QED BY <2>1, <2>2 DEF StrandInv, LaneInv, Unpublished
<1>4. \A u \in Threads : Scanning(u)' => Scanning(u) /\ Budget(u)' = Budget(u)
  BY DEF Scanning, Budget
<1>5. BeyondBudget'
  BY <1>1, <1>4 DEF StrandInv, LaneInv, BeyondBudget
<1>6. HeadOwes'
  <2>1. SUFFICES ASSUME lane # << >> PROVE HeadOwes'
    BY DEF HeadOwes
  <2>2. 1 \in 1 .. Len(lane)
    BY <2>1 DEF StrandInv, GuardTypes
  <2>3. /\ (\A u \in Threads : pc'[u] # "popping") => \A u \in Threads : pc[u] # "popping"
        /\ (\A u \in Threads : ~Scanning(u)') => \A u \in Threads : ~Scanning(u)
    BY DEF Scanning
  <2> QED BY <1>1, <2>1, <2>2, <2>3 DEF StrandInv, LaneInv, HeadOwes
<1> QED BY <1>2, <1>3, <1>5, <1>6 DEF LaneInv

-----------------------------------------------------------------------------
(* Types, calls and the lock, action by action.                            *)

TypesInv == GuardTypes /\ Calls /\ OneDrain

(* Moving one thread keeps the lock exclusive unless it takes it.          *)
LEMMA LockKept ==
  ASSUME OneDrain, NEW t \in Threads,
         \A u \in Threads \ {t} : pc'[u] = pc[u],
         pc'[t] \in Draining => pc[t] \in Draining,
         UNCHANGED g_draining
  PROVE  OneDrain'
BY DEF OneDrain

LEMMA TypesCall ==
  ASSUME TypesInv, NEW t \in Guards,
         \/ Dispatch(t) \/ Reject(t) \/ Accept(t) \/ CallReturns(t)
         \/ CallReturnsUnreadable(t) \/ CallFaults(t)
         \/ CountIncident(t) \/ QueueIncident(t) \/ CountUnlogged(t)
  PROVE  TypesInv'
<1> USE DEF Goto, LocalStep, queue, Locations
<1>1. t \in Threads /\ pc \in [Threads -> Locations] /\ incident \in [Threads -> Records]
  BY DEF TypesInv, GuardTypes, Threads
<1>2. ASSUME NEW reason \in Reasons, NEW action \in {"Prevented", "Observed"},
             Describe(t, reason, action)
      PROVE  /\ incident' \in [Threads -> Records]
             /\ incident'[t] # NoIncident /\ incident'[t].threadId = t
             /\ \A u \in Threads \ {t} : incident'[u] = incident[u]
  <2> DEFINE r == [incidentId |-> 0, threadId |-> t, reason |-> reason, action |-> action,
                   runtimeCode |-> "runtime", callsite |-> "callsite"]
  <2>1. r \in Incidents /\ r # NoIncident /\ r.threadId = t
    BY GuardAssumption DEF Incidents
  <2>2. incident' = [incident EXCEPT ![t] = r]
    BY <1>2 DEF Describe
  <2> HIDE DEF r
  <2> QED BY <1>1, <2>1, <2>2 DEF Records
<1>3. CASE Dispatch(t)
  <2>1. GuardTypes' BY <1>1, <1>3 DEF TypesInv, GuardTypes, Dispatch
  <2>2. Calls' BY <1>1, <1>3 DEF TypesInv, GuardTypes, Calls, Dispatch
  <2> QED BY <1>1, <1>3, <2>1, <2>2, LockKept DEF TypesInv, Dispatch, Draining
<1>4. CASE Accept(t) \/ CallReturns(t)
  <2> USE DEF Accept, CallReturns
  <2>1. GuardTypes' BY <1>1, <1>4 DEF TypesInv, GuardTypes
  <2>2. Calls' BY <1>1, <1>4 DEF TypesInv, GuardTypes, Calls
  <2> QED BY <1>1, <1>4, <2>1, <2>2, LockKept DEF TypesInv, Draining
<1>5. CASE Reject(t) \/ CallReturnsUnreadable(t) \/ CallFaults(t)
  <2>1. \E reason \in Reasons, action \in {"Prevented", "Observed"} : Describe(t, reason, action)
    BY <1>5 DEF Reject, CallReturnsUnreadable, CallFaults, Reasons, ActionForCurrentMode
  <2>2. /\ incident' \in [Threads -> Records]
        /\ incident'[t] # NoIncident /\ incident'[t].threadId = t
        /\ \A u \in Threads \ {t} : incident'[u] = incident[u]
    BY <1>2, <2>1
  <2>3. /\ pc[t] \in {"validating", "calling"} /\ pc' = [pc EXCEPT ![t] = "counting"]
        /\ UNCHANGED <<queue, processed, g_nextIncident, g_draining>>
    BY <1>5 DEF Reject, CallReturnsUnreadable, CallFaults
  <2>4. GuardTypes' BY <1>1, <2>2, <2>3 DEF TypesInv, GuardTypes
  <2>5. Calls' BY <1>1, <2>2, <2>3 DEF TypesInv, GuardTypes, Calls
  <2> QED BY <1>1, <2>3, <2>4, <2>5, LockKept DEF TypesInv, Draining
<1>6. CASE CountIncident(t)
  <2>1. GuardTypes' BY <1>1, <1>6 DEF TypesInv, GuardTypes, CountIncident
  <2>2. Calls' BY <1>1, <1>6 DEF TypesInv, GuardTypes, Calls, CountIncident
  <2> QED BY <1>1, <1>6, <2>1, <2>2, LockKept DEF TypesInv, CountIncident, Draining
<1>7. CASE QueueIncident(t)
  <2>1. incident[t] \in Incidents /\ incident[t].threadId = t /\ g_nextIncident \in Nat
    BY <1>1, <1>7 DEF TypesInv, GuardTypes, Calls, QueueIncident, Records
  <2> DEFINE r == [incident[t] EXCEPT !.incidentId = g_nextIncident]
  <2>2. r \in Incidents /\ r # NoIncident /\ r.threadId = t
    BY <2>1, GuardAssumption DEF Incidents
  <2>3. incident' = [incident EXCEPT ![t] = r]
    BY <1>7 DEF QueueIncident
  <2> HIDE DEF r
  <2>4. /\ incident'[t] = r /\ incident' \in [Threads -> Records]
        /\ \A u \in Threads \ {t} : incident'[u] = incident[u]
    BY <1>1, <2>2, <2>3 DEF Records
  <2>5. /\ op[t] = "idle" /\ op' = [op EXCEPT ![t] = "push"]
        /\ held' = [held EXCEPT ![t] = r]
        /\ pc[t] = "queueing" /\ pc' = [pc EXCEPT ![t] = "pushing"]
        /\ g_nextIncident' = g_nextIncident + 1
        /\ UNCHANGED <<lane, first, at, processed, g_draining>>
    BY <1>7, <2>4 DEF QueueIncident, Queue!CallPush
  <2>6. GuardTypes' BY <1>1, <2>1, <2>2, <2>4, <2>5 DEF TypesInv, GuardTypes, Records
  <2>7. Calls' BY <1>1, <2>2, <2>4, <2>5 DEF TypesInv, GuardTypes, Calls
  <2> QED BY <1>1, <2>5, <2>6, <2>7, LockKept DEF TypesInv, Draining
<1>8. CASE CountUnlogged(t)
  <2>1. GuardTypes' BY <1>1, <1>8 DEF TypesInv, GuardTypes, CountUnlogged
  <2>2. Calls' BY <1>1, <1>8 DEF TypesInv, GuardTypes, Calls, CountUnlogged
  <2> QED BY <1>1, <1>8, <2>1, <2>2, LockKept DEF TypesInv, CountUnlogged, Draining
<1> QED BY <1>3, <1>4, <1>5, <1>6, <1>7, <1>8

LEMMA TypesPush ==
  ASSUME TypesInv, Writers, NEW t \in Guards,
         PushClaims(t) \/ Pushed(t) \/ PushRefused(t)
  PROVE  TypesInv'
<1> USE DEF Goto, QueueStep, Locations
<1>1. t \in Threads /\ pc \in [Threads -> Locations] /\ N \in Nat
  BY GuardAssumption DEF TypesInv, GuardTypes, Threads
<1>2. CASE PushClaims(t) /\ Queue!Claim(t)
  <2>1. held[t] \in Incidents
    BY <1>1, <1>2 DEF TypesInv, GuardTypes, Calls, Records, PushClaims, Queue!Claim
  <2> DEFINE e == [incident |-> held[t], ready |-> FALSE]
  <2>2. /\ e \in Entries /\ lane' = Append(lane, e) /\ ~(Len(lane) >= N)
        /\ lane \in Seq(Entries)
    BY <1>2, <2>1 DEF Entries, Queue!Claim, Queue!Occupied, TypesInv, GuardTypes
  <2> HIDE DEF e
  <2>3. lane' \in Seq(Entries) /\ Len(lane)' <= N
    BY <1>1, <2>2
  <2>4. Queue!NextTicket \in Nat
    BY <2>2 DEF Queue!NextTicket, TypesInv, GuardTypes
  <2>5. GuardTypes'
    BY <1>1, <1>2, <2>3, <2>4 DEF TypesInv, GuardTypes, PushClaims, Queue!Claim
  <2>6. Calls'
    BY <1>1, <1>2 DEF TypesInv, GuardTypes, Calls, PushClaims, Queue!Claim
  <2> QED BY <1>1, <1>2, <2>5, <2>6, LockKept DEF TypesInv, PushClaims, Draining
<1>3. CASE PushClaims(t) /\ Queue!Refuse(t)
  <2>1. GuardTypes'
    BY <1>1, <1>3 DEF TypesInv, GuardTypes, PushClaims, Queue!Refuse
  <2>2. Calls'
    BY <1>1, <1>3 DEF TypesInv, GuardTypes, Calls, PushClaims, Queue!Refuse
  <2> QED BY <1>1, <1>3, <2>1, <2>2, LockKept DEF TypesInv, PushClaims, Draining
<1>4. CASE Pushed(t)
  <2> DEFINE i == at[t] - first + 1
             e == [lane[i] EXCEPT !.ready = TRUE]
  <2>1. /\ i \in 1 .. Len(lane) /\ lane \in Seq(Entries)
        /\ lane' = [lane EXCEPT ![i] = e]
    BY <1>1, <1>4 DEF Writers, TypesInv, GuardTypes, Pushed, Queue!Publish
  <2>2. e \in Entries
    <3>1. lane[i] \in Entries
      BY <2>1
    <3> HIDE DEF i
    <3> QED BY <3>1 DEF Entries
  <2> HIDE DEF i, e
  <2>3. lane' \in Seq(Entries) /\ Len(lane') = Len(lane)
    BY <2>1, <2>2
  <2>4. GuardTypes'
    BY <1>1, <1>4, <2>3 DEF TypesInv, GuardTypes, Pushed, Queue!Publish, Queue!Finish, Records
  <2>5. Calls'
    BY <1>1, <1>4 DEF TypesInv, GuardTypes, Calls, Pushed, Queue!Publish, Queue!Finish
  <2> QED BY <1>1, <1>4, <2>4, <2>5, LockKept DEF TypesInv, Pushed, Draining
<1>5. CASE PushRefused(t)
  <2>1. GuardTypes'
    BY <1>1, <1>5 DEF TypesInv, GuardTypes, PushRefused, Queue!CountDrop, Queue!Finish, Records
  <2>2. Calls'
    BY <1>1, <1>5 DEF TypesInv, GuardTypes, Calls, PushRefused, Queue!CountDrop, Queue!Finish
  <2> QED BY <1>1, <1>5, <2>1, <2>2, LockKept DEF TypesInv, PushRefused, Draining
<1> QED BY <1>2, <1>3, <1>4, <1>5 DEF PushClaims

LEMMA TypesLock ==
  ASSUME TypesInv, NEW t \in Threads,
         \/ (t \in Ticks /\ (Tick(t) \/ SkipDrain(t)))
         \/ AcquireDrain(t) \/ ReleaseDrain(t)
  PROVE  TypesInv'
<1> USE DEF Goto, DrainLocal, queue, Locations
<1>1. pc \in [Threads -> Locations] /\ N \in Nat
  BY GuardAssumption DEF TypesInv, GuardTypes
<1>2. CASE Tick(t) \/ SkipDrain(t)
  <2> USE DEF Tick, SkipDrain
  <2>1. GuardTypes' BY <1>1, <1>2 DEF TypesInv, GuardTypes
  <2>2. Calls' BY <1>1, <1>2 DEF TypesInv, GuardTypes, Calls
  <2> QED BY <1>1, <1>2, <2>1, <2>2, LockKept DEF TypesInv, Draining
<1>3. CASE AcquireDrain(t)
  <2>1. GuardTypes' BY <1>1, <1>3 DEF TypesInv, GuardTypes, AcquireDrain
  <2>2. \A u \in Threads : pc[u] \notin Draining
    BY <1>3 DEF TypesInv, OneDrain, AcquireDrain
  <2>3. OneDrain' BY <1>1, <1>3, <2>2 DEF OneDrain, AcquireDrain
  <2>4. Calls' BY <1>1, <1>3, <2>2 DEF TypesInv, GuardTypes, Calls, AcquireDrain, Draining
  <2> QED BY <2>1, <2>3, <2>4 DEF TypesInv
<1>4. CASE ReleaseDrain(t)
  <2>1. GuardTypes' BY <1>1, <1>4 DEF TypesInv, GuardTypes, ReleaseDrain, Records
  <2>2. \A u \in Threads : pc'[u] \notin Draining
    BY <1>1, <1>4 DEF TypesInv, OneDrain, ReleaseDrain, Draining
  <2>3. Calls' BY <1>1, <1>4 DEF TypesInv, GuardTypes, Calls, ReleaseDrain
  <2> QED BY <2>1, <2>2, <2>3 DEF TypesInv, OneDrain
<1> QED BY <1>2, <1>3, <1>4

LEMMA TypesDrain ==
  ASSUME TypesInv, NEW t \in Threads,
         \/ AnnounceWorking(t) \/ PopStarts(t) \/ PopTakes(t) \/ PopFolds(t)
         \/ PopFindsNothing(t) \/ PopBudgetSpent(t)
         \/ LogAggregate(t) \/ LogUncountable(t) \/ CompareDropped(t)
  PROVE  TypesInv'
<1> USE DEF Goto, DrainLocal, queue, Locations
<1>1. pc \in [Threads -> Locations] /\ N \in Nat
  BY GuardAssumption DEF TypesInv, GuardTypes
<1>2. CASE \/ AnnounceWorking(t) \/ PopBudgetSpent(t) \/ LogAggregate(t)
           \/ LogUncountable(t) \/ CompareDropped(t)
  <2> USE DEF AnnounceWorking, PopBudgetSpent, LogAggregate, LogUncountable, CompareDropped
  <2>1. GuardTypes' BY <1>1, <1>2 DEF TypesInv, GuardTypes
  <2>2. Calls' BY <1>1, <1>2 DEF TypesInv, GuardTypes, Calls
  <2> QED BY <1>1, <1>2, <2>1, <2>2, LockKept DEF TypesInv, Draining
<1>3. CASE PopStarts(t)
  <2>1. GuardTypes' BY <1>1, <1>3 DEF TypesInv, GuardTypes, PopStarts, Queue!CallPop
  <2>2. Calls' BY <1>1, <1>3 DEF TypesInv, GuardTypes, Calls, PopStarts, Queue!CallPop
  <2> QED BY <1>1, <1>3, <2>1, <2>2, LockKept DEF TypesInv, PopStarts, Draining
<1>4. CASE PopTakes(t)
  <2>1. lane \in Seq(Entries) /\ lane # << >> /\ lane' = Tail(lane)
    BY <1>4 DEF TypesInv, GuardTypes, PopTakes, Queue!Take, Queue!HeadReady
  <2>2. lane' \in Seq(Entries) /\ Len(lane') <= Len(lane)
    BY <2>1
  <2>3. Head(lane).incident \in Records
    <3>1. Head(lane) \in Entries
      BY <2>1
    <3> QED BY <3>1 DEF Entries, Records
  <2>4. GuardTypes'
    BY <1>1, <1>4, <2>2, <2>3 DEF TypesInv, GuardTypes, PopTakes, Queue!Take
  <2>5. Calls' BY <1>1, <1>4 DEF TypesInv, GuardTypes, Calls, PopTakes, Queue!Take
  <2> QED BY <1>1, <1>4, <2>4, <2>5, LockKept DEF TypesInv, PopTakes, Draining
<1>5. CASE PopFolds(t)
  <2>1. processed < N
    BY <1>5 DEF TypesInv, Calls, PopFolds, Queue!Release
  <2>2. GuardTypes'
    BY <1>1, <1>5, <2>1 DEF TypesInv, GuardTypes, PopFolds, Queue!Release, Queue!Finish, Records
  <2>3. \A u \in Threads \ {t} : pc[u] # "popping"
    BY <1>5 DEF TypesInv, OneDrain, PopFolds, Draining
  <2>4. Calls'
    BY <1>1, <1>5, <2>3 DEF TypesInv, GuardTypes, Calls, PopFolds, Queue!Release, Queue!Finish
  <2> QED BY <1>1, <1>5, <2>2, <2>4, LockKept DEF TypesInv, PopFolds, Draining
<1>6. CASE PopFindsNothing(t)
  <2>1. GuardTypes'
    BY <1>1, <1>6 DEF TypesInv, GuardTypes, PopFindsNothing, Queue!FindNothing, Queue!Finish, Records
  <2>2. Calls'
    BY <1>1, <1>6 DEF TypesInv, GuardTypes, Calls, PopFindsNothing, Queue!FindNothing, Queue!Finish
  <2> QED BY <1>1, <1>6, <2>1, <2>2, LockKept DEF TypesInv, PopFindsNothing, Draining
<1> QED BY <1>2, <1>3, <1>4, <1>5, <1>6

-----------------------------------------------------------------------------
(* The lane, action by action.                                             *)

(* A push, from its claim to its publication, owes the record it writes.   *)
LEMMA LaneClaim ==
  ASSUME StrandInv, NEW t \in Guards, PushClaims(t), Queue!Claim(t)
  PROVE  LaneInv'
<1>1. t \in Threads /\ N \in Nat
  BY GuardAssumption DEF Threads
<1> DEFINE e == [incident |-> incident[t], ready |-> FALSE]
<1>2. /\ pc[t] = "pushing" /\ op[t] = "push" /\ held[t] = incident[t]
      /\ incident[t] # NoIncident /\ incident[t] \in Incidents /\ incident[t].threadId = t
  BY <1>1 DEF StrandInv, Calls, GuardTypes, Records, PushClaims, Goto, Queue!Claim
<1>3. /\ lane \in Seq(Entries) /\ first \in Nat /\ at \in [Threads -> Nat]
      /\ lane' = Append(lane, e)
      /\ op' = [op EXCEPT ![t] = "writing"] /\ op'[t] = "writing"
      /\ at' = [at EXCEPT ![t] = first + Len(lane)] /\ at'[t] = first + Len(lane)
      /\ UNCHANGED <<first, pc, incident, processed>>
  BY <1>1, <1>2 DEF StrandInv, GuardTypes, PushClaims, QueueStep, Queue!Claim, Queue!NextTicket
<1>4. e \in Entries /\ e.incident = incident[t] /\ e.ready = FALSE
  BY <1>2 DEF Entries
<1>5. /\ Len(lane') = Len(lane) + 1 /\ lane'[Len(lane) + 1] = e
      /\ \A k \in 1 .. Len(lane) : lane'[k] = lane[k]
      /\ Len(lane) \in Nat
  <2> HIDE DEF e
  <2> QED BY <1>3, <1>4
<1> HIDE DEF e
<1>6. ASSUME NEW k \in 1 .. Len(lane), NEW places, Owes(lane[k].incident, places)
      PROVE  Owes(lane[k].incident, places)'
  <2>1. lane'[k] = lane[k] /\ lane[k].incident.threadId \in Threads
    BY <1>5, EntryTypes DEF StrandInv
  <2>2. op[lane[k].incident.threadId] = "writing" => op'[lane[k].incident.threadId] = "writing"
    BY <1>3, <2>1 DEF StrandInv, GuardTypes
  <2> QED BY <1>3, <1>6, <2>1, <2>2 DEF Owes, StillInside
<1>7. ASSUME NEW places PROVE (Owes(lane[Len(lane)].incident, places))'
  BY <1>2, <1>3, <1>4, <1>5 DEF Owes, StillInside
<1>8. Writers'
  <2>1. SUFFICES ASSUME NEW u \in Threads, op'[u] = "writing"
                 PROVE  /\ at'[u] - first + 1 \in 1 .. Len(lane')
                        /\ lane'[at'[u] - first + 1]
                             = [incident |-> incident[u], ready |-> FALSE]
    BY <1>3 DEF Writers
  <2>2. CASE u = t
    BY <1>3, <1>5, <2>2 DEF e
  <2>3. CASE u # t
    BY <1>3, <1>5, <2>1, <2>3 DEF StrandInv, LaneInv, Writers, GuardTypes
  <2> QED BY <2>2, <2>3
<1>9. Unpublished'
  <2>1. SUFFICES ASSUME NEW k \in 1 .. Len(lane'), ~lane'[k].ready
                 PROVE  /\ op'[lane'[k].incident.threadId] = "writing"
                        /\ at'[lane'[k].incident.threadId] = first + k - 1
    BY <1>3 DEF Unpublished
  <2>2. CASE k = Len(lane) + 1
    BY <1>2, <1>3, <1>4, <1>5, <2>2
  <2>3. CASE k \in 1 .. Len(lane)
    <3>1. /\ lane'[k] = lane[k]
          /\ op[lane[k].incident.threadId] = "writing"
          /\ at[lane[k].incident.threadId] = first + k - 1
          /\ lane[k].incident.threadId \in Threads
      BY <1>5, <2>1, <2>3, EntryTypes DEF StrandInv, LaneInv, Unpublished
    <3>2. lane[k].incident.threadId # t
      BY <1>2, <3>1
    <3> QED BY <1>3, <3>1, <3>2 DEF StrandInv, GuardTypes
  <2> QED BY <1>5, <2>1, <2>2, <2>3
<1>10. BeyondBudget'
  <2>1. SUFFICES ASSUME NEW u \in Threads, Scanning(u)',
                        NEW k \in 1 .. Len(lane'), k > Budget(u)'
                 PROVE  (Owes(lane[k].incident, {"waiting"}))'
    BY DEF BeyondBudget
  <2>2. u # t /\ Scanning(u) /\ Budget(u)' = Budget(u)
    BY <1>2, <1>3, <2>1 DEF Scanning, Budget, StrandInv, GuardTypes
  <2>3. CASE k = Len(lane) + 1
    BY <1>5, <1>7, <2>3
  <2>4. CASE k \in 1 .. Len(lane)
    BY <1>6, <2>1, <2>2, <2>4 DEF StrandInv, LaneInv, BeyondBudget
  <2> QED BY <1>5, <2>1, <2>3, <2>4
<1>11. HeadOwes'
  <2>1. CASE lane = << >>
    BY <1>5, <1>7, <2>1 DEF HeadOwes
  <2>2. CASE lane # << >>
    <3>1. 1 \in 1 .. Len(lane)
      BY <1>3, <2>2
    <3> QED BY <1>3, <1>6, <2>2, <3>1 DEF StrandInv, LaneInv, HeadOwes, Scanning
  <2> QED BY <2>1, <2>2
<1> QED BY <1>8, <1>9, <1>10, <1>11 DEF LaneInv

(* Published, the record is owed by a thread that waits for the lock.      *)
LEMMA LanePublish ==
  ASSUME StrandInv, NEW t \in Guards, Pushed(t)
  PROVE  LaneInv'
<1>1. t \in Threads
  BY DEF Threads
<1> DEFINE i == at[t] - first + 1
           e == [lane[i] EXCEPT !.ready = TRUE]
<1>2. /\ pc[t] = "pushing" /\ op[t] = "writing"
      /\ incident[t] # NoIncident /\ incident[t].threadId = t
      /\ i \in 1 .. Len(lane) /\ lane[i] = [incident |-> incident[t], ready |-> FALSE]
  BY <1>1 DEF StrandInv, Calls, LaneInv, Writers, Pushed, Goto, Queue!Publish
<1>3. /\ lane \in Seq(Entries) /\ first \in Nat /\ at \in [Threads -> Nat]
      /\ lane' = [lane EXCEPT ![i] = e]
      /\ op' = [op EXCEPT ![t] = "idle"] /\ op'[t] = "idle"
      /\ pc' = [pc EXCEPT ![t] = "waiting"] /\ pc'[t] = "waiting"
      /\ at' = [at EXCEPT ![t] = 0]
      /\ UNCHANGED <<first, incident, processed>>
  BY <1>1 DEF StrandInv, GuardTypes, Pushed, Goto, QueueStep, Queue!Publish, Queue!Finish
<1>4. e.incident = lane[i].incident /\ e.ready = TRUE /\ e \in Entries
  <2>1. lane[i] \in Entries
    BY <1>2, <1>3
  <2> HIDE DEF i
  <2> QED BY <2>1 DEF Entries
<1>5. /\ i \in Int /\ Len(lane') = Len(lane) /\ lane'[i] = e
      /\ \A k \in 1 .. Len(lane) : k # i => lane'[k] = lane[k]
      /\ \A k \in 1 .. Len(lane) : lane'[k].incident = lane[k].incident
  <2> HIDE DEF i, e
  <2> QED BY <1>2, <1>3, <1>4
<1> HIDE DEF e
<1>6. \A u \in Threads \ {t} : pc'[u] = pc[u] /\ op'[u] = op[u] /\ at'[u] = at[u]
  BY <1>3 DEF StrandInv, GuardTypes
<1>7. ASSUME NEW k \in 1 .. Len(lane), NEW places, "waiting" \in places,
             Owes(lane[k].incident, places)
      PROVE  (Owes(lane[k].incident, places))'
  <2>1. lane'[k].incident = lane[k].incident /\ lane[k].incident.threadId \in Threads
    BY <1>5, EntryTypes DEF StrandInv
  <2> QED BY <1>3, <1>6, <1>7, <2>1 DEF Owes, StillInside
<1>8. Writers'
  <2>1. SUFFICES ASSUME NEW u \in Threads, op'[u] = "writing"
                 PROVE  /\ at'[u] - first + 1 \in 1 .. Len(lane')
                        /\ lane'[at'[u] - first + 1]
                             = [incident |-> incident[u], ready |-> FALSE]
    BY <1>3 DEF Writers
  <2> DEFINE j == at[u] - first + 1
  <2>2. u # t /\ op[u] = "writing" /\ at'[u] = at[u]
    BY <1>3, <1>6, <2>1
  <2>3. j \in 1 .. Len(lane) /\ lane[j] = [incident |-> incident[u], ready |-> FALSE]
    BY <2>2 DEF StrandInv, LaneInv, Writers
  <2>4. incident[u] # NoIncident /\ incident[u].threadId = u
    BY <2>2 DEF StrandInv, Calls
  <2>5. j # i
    <3> HIDE DEF i, j
    <3> QED BY <1>2, <2>2, <2>3, <2>4
  <2>6. lane'[j] = lane[j]
    BY <1>5, <2>3, <2>5
  <2> QED BY <1>5, <2>2, <2>3, <2>6
<1>9. Unpublished'
  <2>1. SUFFICES ASSUME NEW k \in 1 .. Len(lane'), ~lane'[k].ready
                 PROVE  /\ op'[lane'[k].incident.threadId] = "writing"
                        /\ at'[lane'[k].incident.threadId] = first + k - 1
    BY <1>3 DEF Unpublished
  <2>2. k # i /\ k \in 1 .. Len(lane) /\ lane'[k] = lane[k]
    BY <1>4, <1>5, <2>1
  <2>3. /\ op[lane[k].incident.threadId] = "writing"
        /\ at[lane[k].incident.threadId] = first + k - 1
        /\ lane[k].incident.threadId \in Threads
    BY <2>1, <2>2, EntryTypes DEF StrandInv, LaneInv, Unpublished
  <2>4. lane[k].incident.threadId # t
    BY <1>1, <1>3, <2>2, <2>3
  <2> QED BY <1>6, <2>2, <2>3, <2>4
<1>10. \A u \in Threads : Scanning(u)' => Scanning(u) /\ Budget(u)' = Budget(u)
  BY <1>3, <1>6 DEF Scanning, Budget
<1>11. BeyondBudget'
  BY <1>5, <1>7, <1>10 DEF StrandInv, LaneInv, BeyondBudget
<1>12. HeadOwes'
  <2>1. SUFFICES ASSUME lane' # << >> PROVE HeadOwes'
    BY DEF HeadOwes
  <2>2. 1 \in 1 .. Len(lane) /\ lane # << >>
    BY <1>2, <1>3
  <2>3. /\ (\A u \in Threads : pc'[u] # "popping") => \A u \in Threads : pc[u] # "popping"
        /\ (\A u \in Threads : ~Scanning(u)') => \A u \in Threads : ~Scanning(u)
    BY <1>2, <1>6 DEF Scanning
  <2> QED BY <1>7, <2>2, <2>3 DEF StrandInv, LaneInv, HeadOwes
<1> QED BY <1>8, <1>9, <1>11, <1>12 DEF LaneInv

(* While a drain is in its scan it is alone: what it does to the records   *)
(* leaves the debts of all other threads.                                  *)
LEMMA ScanKeeps ==
  ASSUME StrandInv, NEW t \in Threads, UNCHANGED <<lane, first, incident>>,
         Scanning(t) \/ pc[t] = "waiting", op[t] # "writing", op'[t] # "writing",
         pc[t] = "waiting" => pc'[t] = "announcing",
         \A u \in Threads \ {t} : pc'[u] = pc[u] /\ op'[u] = op[u] /\ at'[u] = at[u]
  PROVE  /\ Writers' /\ Unpublished'
         /\ \A k \in 1 .. Len(lane) :
              Owes(lane[k].incident, {"waiting"}) =>
                /\ (Owes(lane[k].incident, {"waiting", "announcing"}))'
                /\ Scanning(t) => (Owes(lane[k].incident, {"waiting"}))'
<1>1. Writers'
  BY DEF StrandInv, LaneInv, Writers
<1>2. Unpublished'
  <2>1. SUFFICES ASSUME NEW k \in 1 .. Len(lane), ~lane[k].ready
                 PROVE  /\ op'[lane[k].incident.threadId] = "writing"
                        /\ at'[lane[k].incident.threadId] = first + k - 1
    BY DEF Unpublished
  <2>2. lane[k].incident.threadId \in Threads \ {t}
    BY <2>1, EntryTypes DEF StrandInv, LaneInv, Unpublished
  <2> QED BY <2>1, <2>2 DEF StrandInv, LaneInv, Unpublished
<1>3. ASSUME NEW k \in 1 .. Len(lane), Owes(lane[k].incident, {"waiting"})
      PROVE  /\ (Owes(lane[k].incident, {"waiting", "announcing"}))'
             /\ Scanning(t) => (Owes(lane[k].incident, {"waiting"}))'
  <2>1. lane[k].incident.threadId \in Threads
    BY EntryTypes DEF StrandInv
  <2>2. CASE lane[k].incident.threadId # t
    BY <1>3, <2>1, <2>2 DEF Owes, StillInside
  <2>3. CASE lane[k].incident.threadId = t
    BY <1>3, <2>3 DEF Owes, StillInside, Scanning
  <2> QED BY <2>2, <2>3
<1> QED BY <1>1, <1>2, <1>3

LEMMA LaneAcquire ==
  ASSUME StrandInv, NEW t \in Threads, AcquireDrain(t)
  PROVE  LaneInv'
<1>1. /\ pc[t] = "waiting" /\ pc' = [pc EXCEPT ![t] = "announcing"] /\ pc'[t] = "announcing"
      /\ op[t] = "idle" /\ processed' = 0
      /\ UNCHANGED <<lane, first, op, at, incident>>
  BY DEF AcquireDrain, Goto, DrainLocal, queue, StrandInv, GuardTypes, Calls
<1>2. \A u \in Threads : pc[u] \notin Draining
  BY DEF StrandInv, OneDrain, AcquireDrain
<1>3. \A u \in Threads \ {t} : pc'[u] = pc[u] /\ ~Scanning(u)'
  BY <1>1, <1>2 DEF StrandInv, GuardTypes, Scanning, Draining
<1>4. /\ Writers' /\ Unpublished'
      /\ \A k \in 1 .. Len(lane) : Owes(lane[k].incident, {"waiting"}) =>
           (Owes(lane[k].incident, {"waiting", "announcing"}))'
  BY <1>1, <1>3, ScanKeeps
<1>5. Budget(t)' = N
  BY <1>1, GuardAssumption DEF Budget
<1>6. BeyondBudget'
  BY <1>1, <1>3, <1>5, GuardAssumption DEF BeyondBudget, StrandInv, GuardTypes
<1>7. HeadOwes'
  <2>1. \A u \in Threads : ~Scanning(u)
    BY <1>2 DEF Scanning, Draining
  <2>2. lane # << >> => 1 \in 1 .. Len(lane)
    BY DEF StrandInv, GuardTypes
  <2>3. Scanning(t)'
    BY <1>1 DEF Scanning
  <2> QED BY <1>1, <1>4, <2>1, <2>2, <2>3 DEF HeadOwes, StrandInv, LaneInv
<1> QED BY <1>4, <1>6, <1>7 DEF LaneInv

LEMMA LaneScan ==
  ASSUME StrandInv, NEW t \in Threads,
         \/ AnnounceWorking(t) \/ PopStarts(t) \/ PopFolds(t)
         \/ PopFindsNothing(t) \/ PopBudgetSpent(t)
  PROVE  LaneInv'
<1> USE DEF Goto, DrainLocal, queue, Queue!CallPop, Queue!Release, Queue!FindNothing, Queue!Finish
<1>1. /\ Scanning(t) /\ UNCHANGED <<lane, first, incident>>
      /\ op[t] # "writing" /\ op'[t] # "writing"
      /\ \A u \in Threads \ {t} : pc'[u] = pc[u] /\ op'[u] = op[u] /\ at'[u] = at[u]
  BY DEF AnnounceWorking, PopStarts, PopFolds, PopFindsNothing, PopBudgetSpent, Scanning,
     StrandInv, GuardTypes, Calls
<1>2. \A u \in Threads \ {t} : pc[u] \notin Draining /\ ~Scanning(u) /\ ~Scanning(u)'
  BY <1>1 DEF StrandInv, OneDrain, Scanning, Draining
<1>3. /\ Writers' /\ Unpublished'
      /\ \A k \in 1 .. Len(lane) :
           Owes(lane[k].incident, {"waiting"}) => (Owes(lane[k].incident, {"waiting"}))'
  BY <1>1, ScanKeeps DEF Scanning
<1>4. processed \in Nat /\ N \in Nat /\ op \in [Threads -> {"idle", "push", "refused",
        "writing", "pop", "copying"}] /\ pc \in [Threads -> Locations]
  BY GuardAssumption DEF StrandInv, GuardTypes
<1>5. CASE AnnounceWorking(t) \/ PopStarts(t) \/ PopFolds(t)
  <2>1. Budget(t)' = Budget(t) /\ pc'[t] = "popping"
    <3>1. CASE AnnounceWorking(t)
      BY <1>4, <3>1 DEF AnnounceWorking, Budget
    <3>2. CASE PopStarts(t)
      BY <1>4, <3>2 DEF PopStarts, Budget
    <3>3. CASE PopFolds(t)
      BY <1>4, <3>3 DEF PopFolds, Budget
    <3> QED BY <1>5, <3>1, <3>2, <3>3
  <2>2. BeyondBudget'
    BY <1>1, <1>2, <1>3, <2>1 DEF StrandInv, LaneInv, BeyondBudget
  <2>3. HeadOwes'
    BY <2>1 DEF HeadOwes, Scanning
  <2> QED BY <1>3, <2>2, <2>3 DEF LaneInv
<1>6. CASE PopFindsNothing(t) \/ PopBudgetSpent(t)
  <2>1. pc[t] = "popping" /\ pc'[t] = "logging"
    BY <1>4, <1>6 DEF PopFindsNothing, PopBudgetSpent
  <2>2. BeyondBudget'
    BY <1>2, <2>1 DEF BeyondBudget, Scanning
  <2>3. ASSUME lane # << >> PROVE (Owes(lane[1].incident, {"waiting"}))'
    <3>1. 1 \in 1 .. Len(lane) /\ lane[1].incident.threadId \in Threads
      BY <2>3, EntryTypes DEF StrandInv, GuardTypes
    <3>2. CASE PopFindsNothing(t)
      <4> DEFINE v == lane[1].incident.threadId
      <4>1. ~lane[1].ready
        BY <2>3, <3>2, <3>1 DEF PopFindsNothing, Queue!HeadReady, StrandInv, GuardTypes
      <4>2. op[v] = "writing" /\ at[v] = first + 1 - 1 /\ at[v] \in Nat /\ first \in Nat
        BY <3>1, <4>1 DEF StrandInv, LaneInv, Unpublished, GuardTypes
      <4>3. at[v] - first + 1 = 1
        BY <4>2
      <4>4. lane[1] = [incident |-> incident[v], ready |-> FALSE]
        BY <3>1, <4>2, <4>3 DEF StrandInv, LaneInv, Writers
      <4>5. incident[v] # NoIncident
        BY <3>1, <4>2 DEF StrandInv, Calls
      <4>6. Owes(lane[1].incident, {"waiting"})
        BY <4>2, <4>4, <4>5 DEF Owes, StillInside
      <4> QED BY <1>3, <3>1, <4>6
    <3>3. CASE PopBudgetSpent(t)
      <4>1. Budget(t) = 0
        BY <1>4, <3>3 DEF PopBudgetSpent, Budget
      <4> QED BY <1>1, <1>3, <3>1, <4>1 DEF StrandInv, LaneInv, BeyondBudget
    <3> QED BY <1>6, <3>2, <3>3
  <2>4. HeadOwes'
    <3>1. SUFFICES ASSUME lane # << >> PROVE HeadOwes'
      BY <1>1 DEF HeadOwes
    <3>2. (Owes(lane[1].incident, {"waiting"}))'
      BY <2>3, <3>1
    <3> QED BY <3>2 DEF HeadOwes, Owes
  <2> QED BY <1>3, <2>2, <2>4 DEF LaneInv
<1> QED BY <1>5, <1>6

LEMMA LaneTake ==
  ASSUME StrandInv, NEW t \in Threads, PopTakes(t)
  PROVE  LaneInv'
<1>1. /\ pc[t] = "popping" /\ op[t] = "pop" /\ lane # << >> /\ lane[1].ready
      /\ lane' = Tail(lane) /\ first' = first + 1
      /\ op' = [op EXCEPT ![t] = "copying"] /\ op'[t] = "copying"
      /\ at' = [at EXCEPT ![t] = first]
      /\ UNCHANGED <<pc, incident, processed>>
      /\ lane \in Seq(Entries) /\ first \in Nat /\ processed \in Nat /\ N \in Nat
      /\ at \in [Threads -> Nat]
  BY GuardAssumption DEF PopTakes, DrainLocal, Queue!Take, Queue!HeadReady, StrandInv, GuardTypes
<1>2. /\ Len(lane') = Len(lane) - 1 /\ Len(lane) \in Nat
      /\ \A k \in 1 .. Len(lane') : lane'[k] = lane[k + 1] /\ k + 1 \in 1 .. Len(lane)
  BY <1>1
<1>3. \A u \in Threads \ {t} : op'[u] = op[u] /\ at'[u] = at[u]
  BY <1>1 DEF StrandInv, GuardTypes
<1>4. Writers'
  <2>1. SUFFICES ASSUME NEW u \in Threads, op'[u] = "writing"
                 PROVE  /\ at'[u] - first' + 1 \in 1 .. Len(lane')
                        /\ lane'[at'[u] - first' + 1]
                             = [incident |-> incident[u], ready |-> FALSE]
    BY <1>1 DEF Writers
  <2> DEFINE j == at[u] - first + 1
  <2>2. u # t /\ op[u] = "writing" /\ at'[u] = at[u] /\ at[u] \in Nat
    BY <1>1, <1>3, <2>1
  <2>3. j \in 1 .. Len(lane) /\ lane[j] = [incident |-> incident[u], ready |-> FALSE]
    BY <2>2 DEF StrandInv, LaneInv, Writers
  <2>4. j # 1
    <3> HIDE DEF j
    <3> QED BY <1>1, <2>3
  <2>5. at'[u] - first' + 1 = j - 1 /\ j - 1 \in 1 .. Len(lane')
    BY <1>1, <1>2, <2>2, <2>3, <2>4
  <2>6. lane'[j - 1] = lane[j]
    <3> HIDE DEF j
    <3> QED BY <1>2, <2>3, <2>5
  <2> QED BY <2>3, <2>5, <2>6
<1>5. Unpublished'
  <2>1. SUFFICES ASSUME NEW k \in 1 .. Len(lane'), ~lane'[k].ready
                 PROVE  /\ op'[lane'[k].incident.threadId] = "writing"
                        /\ at'[lane'[k].incident.threadId] = first' + k - 1
    BY DEF Unpublished
  <2>2. /\ lane'[k] = lane[k + 1]
        /\ op[lane[k + 1].incident.threadId] = "writing"
        /\ at[lane[k + 1].incident.threadId] = first + (k + 1) - 1
        /\ lane[k + 1].incident.threadId \in Threads
    BY <1>2, <2>1, EntryTypes DEF StrandInv, LaneInv, Unpublished
  <2>3. lane[k + 1].incident.threadId # t
    BY <1>1, <2>2
  <2>4. first + (k + 1) - 1 = first' + k - 1
    BY <1>1
  <2> QED BY <1>3, <2>2, <2>3, <2>4
<1>6. BeyondBudget'
  <2>1. SUFFICES ASSUME NEW u \in Threads, Scanning(u)',
                        NEW k \in 1 .. Len(lane'), k > Budget(u)'
                 PROVE  (Owes(lane[k].incident, {"waiting"}))'
    BY DEF BeyondBudget
  <2>2. u = t
    BY <1>1, <2>1 DEF StrandInv, OneDrain, Scanning, Draining
  <2>3. k + 1 > Budget(t)
    BY <1>1, <2>1, <2>2 DEF Budget
  <2>4. Owes(lane[k + 1].incident, {"waiting"}) /\ lane'[k] = lane[k + 1]
    BY <1>1, <1>2, <2>3 DEF StrandInv, LaneInv, BeyondBudget, Scanning
  <2>5. lane[k + 1].incident.threadId \in Threads \ {t}
    BY <1>1, <1>2, <2>4, EntryTypes DEF StrandInv, Owes
  <2> QED BY <1>1, <1>3, <2>4, <2>5 DEF Owes, StillInside
<1>7. HeadOwes'
  BY <1>1 DEF HeadOwes, Scanning
<1> QED BY <1>4, <1>5, <1>6, <1>7 DEF LaneInv

-----------------------------------------------------------------------------

LEMMA StrandGuarded ==
  ASSUME StrandInv, NEW t \in Guards, Dispatch(t) \/ Guarded(t)
  PROVE  StrandInv'
<1>1. t \in Threads /\ t \notin Ticks
  BY GuardAssumption DEF Threads
<1>2. CASE CallEscapes(t)
  BY <1>2 DEF CallEscapes, queue, StrandInv, GuardTypes, Calls, OneDrain, LaneInv, Writers,
     Unpublished, BeyondBudget, HeadOwes, Budget, Scanning, Owes, StillInside
<1>3. CASE PushClaims(t) /\ Queue!Claim(t)
  BY <1>3, TypesPush, LaneClaim DEF StrandInv, TypesInv, LaneInv
<1>4. CASE Pushed(t)
  BY <1>4, TypesPush, LanePublish DEF StrandInv, TypesInv, LaneInv
<1>5. CASE PushRefused(t) \/ (PushClaims(t) /\ Queue!Refuse(t))
  <2>1. /\ UNCHANGED <<lane, first, processed, incident>>
        /\ op[t] # "writing" /\ op'[t] # "writing" /\ ~Scanning(t) /\ ~Scanning(t)'
        /\ pc[t] # "waiting"
        /\ \A u \in Threads \ {t} : pc'[u] = pc[u] /\ op'[u] = op[u] /\ at'[u] = at[u]
    BY <1>1, <1>5 DEF PushRefused, PushClaims, Goto, QueueStep, Queue!Refuse, Queue!CountDrop,
       Queue!Finish, StrandInv, GuardTypes, Scanning
  <2>2. LaneInv'
    BY <1>1, <2>1, Apart
  <2> QED BY <1>5, <2>2, TypesPush DEF StrandInv, TypesInv, LaneInv
<1>6. CASE \/ Dispatch(t) \/ Reject(t) \/ Accept(t) \/ CallReturns(t)
           \/ CallReturnsUnreadable(t) \/ CallFaults(t)
           \/ CountIncident(t) \/ QueueIncident(t) \/ CountUnlogged(t)
  <2>1. /\ UNCHANGED <<lane, first, processed>>
        /\ op[t] # "writing" /\ op'[t] # "writing" /\ ~Scanning(t) /\ ~Scanning(t)'
        /\ pc[t] # "waiting"
        /\ \A u \in Threads \ {t} : pc'[u] = pc[u] /\ op'[u] = op[u] /\ at'[u] = at[u]
                                    /\ incident'[u] = incident[u]
    <3> USE <1>1 DEF Goto, LocalStep, queue, StrandInv, GuardTypes, Calls, Scanning
    <3>1. CASE Dispatch(t)
      BY <3>1 DEF Dispatch
    <3>2. CASE Accept(t) \/ CallReturns(t)
      BY <3>2 DEF Accept, CallReturns
    <3>3. CASE Reject(t) \/ CallReturnsUnreadable(t) \/ CallFaults(t)
      BY <3>3 DEF Reject, CallReturnsUnreadable, CallFaults, Describe
    <3>4. CASE CountIncident(t) \/ CountUnlogged(t)
      BY <3>4 DEF CountIncident, CountUnlogged
    <3>5. CASE QueueIncident(t)
      BY <3>5 DEF QueueIncident, Queue!CallPush
    <3> QED BY <1>6, <3>1, <3>2, <3>3, <3>4, <3>5
  <2>2. LaneInv'
    BY <1>1, <2>1, Apart
  <2> QED BY <1>6, <2>2, TypesCall DEF StrandInv, TypesInv, LaneInv
<1>7. PushClaims(t) => PushClaims(t) /\ (Queue!Claim(t) \/ Queue!Refuse(t))
  BY DEF PushClaims
<1> QED BY <1>2, <1>3, <1>4, <1>5, <1>6, <1>7 DEF Guarded

LEMMA StrandDrain ==
  ASSUME StrandInv, NEW t \in Threads,
         AcquireDrain(t) \/ Drain(t) \/ (t \in Ticks /\ (Tick(t) \/ SkipDrain(t)))
  PROVE  StrandInv'
<1>1. CASE AcquireDrain(t)
  BY <1>1, TypesLock, LaneAcquire DEF StrandInv, TypesInv, LaneInv
<1>2. CASE PopTakes(t)
  BY <1>2, TypesDrain, LaneTake DEF StrandInv, TypesInv, LaneInv
<1>3. CASE \/ AnnounceWorking(t) \/ PopStarts(t) \/ PopFolds(t)
           \/ PopFindsNothing(t) \/ PopBudgetSpent(t)
  BY <1>3, TypesDrain, LaneScan DEF StrandInv, TypesInv, LaneInv
<1>4. CASE \/ LogAggregate(t) \/ LogUncountable(t) \/ CompareDropped(t) \/ ReleaseDrain(t)
           \/ (t \in Ticks /\ (Tick(t) \/ SkipDrain(t)))
  <2>1. /\ UNCHANGED <<lane, first, processed>>
        /\ op[t] # "writing" /\ op'[t] # "writing" /\ ~Scanning(t) /\ ~Scanning(t)'
        /\ t \in Ticks \/ pc[t] # "waiting"
        /\ \A u \in Threads \ {t} : pc'[u] = pc[u] /\ op'[u] = op[u] /\ at'[u] = at[u]
                                    /\ incident'[u] = incident[u]
    <3> USE DEF Goto, DrainLocal, queue, StrandInv, GuardTypes, Calls, Scanning
    <3>1. CASE LogAggregate(t) \/ LogUncountable(t) \/ CompareDropped(t)
      BY <3>1 DEF LogAggregate, LogUncountable, CompareDropped
    <3>2. CASE ReleaseDrain(t)
      BY <3>2 DEF ReleaseDrain
    <3>3. CASE t \in Ticks /\ (Tick(t) \/ SkipDrain(t))
      BY <3>3 DEF Tick, SkipDrain
    <3> QED BY <1>4, <3>1, <3>2, <3>3
  <2>2. LaneInv'
    BY <2>1, Apart
  <2> QED BY <1>4, <2>2, TypesLock, TypesDrain DEF StrandInv, TypesInv, LaneInv
<1> QED BY <1>1, <1>2, <1>3, <1>4 DEF Drain

LEMMA StrandStep == ASSUME StrandInv, [Next]_vars PROVE StrandInv'
<1>1. CASE UNCHANGED vars
  BY <1>1 DEF vars, queue, StrandInv, GuardTypes, Calls, OneDrain, LaneInv, Writers,
     Unpublished, BeyondBudget, HeadOwes, Budget, Scanning, Owes, StillInside
<1>2. Guards \subseteq Threads /\ Ticks \subseteq Threads
  BY DEF Threads
<1>3. CASE \E t \in Guards : Enter(t) \/ GuardStep(t) \/ Acquire(t)
  BY <1>2, <1>3, StrandGuarded, StrandDrain DEF Enter, GuardStep, Acquire
<1>4. CASE \E t \in Ticks : TickStep(t)
  BY <1>2, <1>4, StrandDrain DEF TickStep
<1> QED BY <1>1, <1>3, <1>4 DEF Next, Dead

(* No record is left to the periodic drain: while nobody pops, the thread  *)
(* of the oldest one is still inside and drains before it leaves           *)
(* (SaveLoadGuard.cpp:199-254, 439-451).                                   *)
THEOREM NothingStranded == Spec => []NeverStranded
<1>1. StrandInv => NeverStranded
  <2>1. SUFFICES ASSUME StrandInv, \A t \in Threads : pc[t] # "popping",
                        NEW k \in 1 .. Len(lane)
                 PROVE  \E j \in 1 .. k : StillInside(lane[j].incident)
    BY DEF NeverStranded
  <2>2. lane # << >> /\ 1 \in 1 .. k
    BY <2>1 DEF StrandInv, GuardTypes
  <2>3. StillInside(lane[1].incident)
    BY <2>1, <2>2 DEF StrandInv, LaneInv, HeadOwes, Owes
  <2> QED BY <2>2, <2>3
<1>2. Init => StrandInv
  BY StrandInit
<1>3. StrandInv /\ [Next]_vars => StrandInv'
  BY StrandStep
<1> QED BY <1>1, <1>2, <1>3, PTL DEF Spec
-----------------------------------------------------------------------------
(* The "working" line.  While it is unwritten, a trace of an incident      *)
(* anywhere means that some engine thread has not announced yet, and it    *)
(* will: it set the pending flag when it came in.                          *)

Ahead  == {"pushing", "missing", "waiting", "announcing"}
Behind == {"popping", "logging", "comparing", "releasing"}

NoTrace ==
  /\ accounted = 0 /\ g_unlogged = 0 /\ untracked = 0
  /\ Table!Used = {} /\ lane = << >>
  /\ \A t \in Threads : op[t] # "copying"

WorkingInv ==
  /\ workingLines = IF g_workingLogged THEN 1 ELSE 0
  /\ g_workingPending \in BOOLEAN /\ g_workingLogged \in BOOLEAN
  /\ ~g_workingLogged =>
       /\ \A t \in Guards : pc[t] # "outside" => g_workingPending
       /\ \A t \in Guards : pc[t] \notin Behind
       /\ NoTrace \/ \E t \in Guards : pc[t] \in Ahead

(* A step that leaves the flags alone.                                     *)
LEMMA WorkingKept ==
  ASSUME WorkingInv, NEW t \in Threads, UNCHANGED working,
         \A u \in Threads \ {t} : pc'[u] = pc[u],
         pc'[t] # "outside" /\ t \in Guards => pc[t] # "outside",
         pc'[t] \in Behind /\ t \in Guards => pc[t] \in Behind,
         pc[t] \in Ahead /\ t \in Guards => pc'[t] \in Ahead,
         NoTrace => NoTrace' \/ (t \in Guards /\ pc'[t] \in Ahead)
  PROVE  WorkingInv'
<1>1. Guards \subseteq Threads
  BY DEF Threads
<1>2. /\ g_workingPending' = g_workingPending /\ g_workingLogged' = g_workingLogged
      /\ workingLines' = workingLines
  BY DEF working
<1>3. ASSUME ~g_workingLogged PROVE NoTrace' \/ \E u \in Guards : pc'[u] \in Ahead
  <2>1. CASE NoTrace
    BY <2>1
  <2>2. CASE \E u \in Guards : pc[u] \in Ahead
    BY <1>1, <2>2
  <2> QED BY <1>3, <2>1, <2>2 DEF WorkingInv
<1> QED BY <1>1, <1>2, <1>3 DEF WorkingInv

LEMMA WorkingInit == ASSUME Init PROVE WorkingInv
<1>1. NoTrace
  BY DEF Init, Queue!TransportInit, Table!EmptyTable, Table!Used, Table!Unused, Table!Slots, NoTrace
<1> QED BY <1>1 DEF Init, WorkingInv, Threads, Behind

LEMMA WorkingGuarded ==
  ASSUME StrandInv, WorkingInv, NEW t \in Guards, Dispatch(t) \/ Guarded(t)
  PROVE  WorkingInv'
<1>1. t \in Threads /\ pc \in [Threads -> Locations] /\ Guards \subseteq Threads
  BY DEF Threads, StrandInv, GuardTypes
<1>2. CASE Dispatch(t)
  <2>1. /\ g_workingPending' = TRUE /\ UNCHANGED <<g_workingLogged, workingLines>>
        /\ pc[t] = "outside" /\ pc' = [pc EXCEPT ![t] = "validating"]
        /\ NoTrace' = NoTrace
    BY <1>2 DEF Dispatch, Goto, NoTrace, reported, table, queue, Table!Used, Table!Slots
  <2> QED BY <1>1, <2>1 DEF WorkingInv, Ahead, Behind
<1>3. CASE Guarded(t)
  <2> USE <1>1 DEF Goto, LocalStep, QueueStep, queue, table, reported, working, Ahead, Behind
  <2>1. CASE CallEscapes(t)
    <3>1. UNCHANGED working /\ UNCHANGED pc
      BY <2>1 DEF CallEscapes
    <3>2. NoTrace => NoTrace'
      BY <2>1 DEF CallEscapes, NoTrace, Table!Used, Table!Slots
    <3> QED BY <3>1, <3>2, WorkingKept
  <2>2. CASE Reject(t) \/ Accept(t) \/ CallReturns(t) \/ CallReturnsUnreadable(t) \/ CallFaults(t)
    <3> USE DEF Reject, Accept, CallReturns, CallReturnsUnreadable, CallFaults
    <3>1. NoTrace => NoTrace'
      BY <2>2 DEF NoTrace, Table!Used, Table!Slots
    <3>2. /\ UNCHANGED working /\ \A u \in Threads \ {t} : pc'[u] = pc[u]
          /\ pc[t] \in {"validating", "calling"}
          /\ pc'[t] \in {"outside", "calling", "counting"}
      BY <2>2
    <3> QED BY <3>1, <3>2, WorkingKept
  <2>3. CASE CountIncident(t)
    <3>1. NoTrace => NoTrace'
      BY <2>3 DEF CountIncident, NoTrace, Table!Used, Table!Slots
    <3> QED BY <2>3, <3>1, WorkingKept DEF CountIncident
  <2>4. CASE QueueIncident(t)
    BY <2>4, WorkingKept DEF QueueIncident
  <2>5. CASE PushClaims(t) \/ Pushed(t) \/ PushRefused(t) \/ CountUnlogged(t)
    <3> USE DEF PushClaims, Pushed, PushRefused, CountUnlogged
    <3>1. pc[t] = "pushing" \/ pc[t] = "missing"
      BY <2>5
    <3>2. UNCHANGED working /\ \A u \in Threads \ {t} : pc'[u] = pc[u]
      BY <2>5
    <3>3. pc'[t] \in {"pushing", "waiting", "missing"}
      BY <2>5
    <3> QED BY <3>1, <3>2, <3>3, WorkingKept
  <2> QED BY <1>3, <2>1, <2>2, <2>3, <2>4, <2>5 DEF Guarded
<1> QED BY <1>2, <1>3

LEMMA WorkingDrain ==
  ASSUME StrandInv, WorkingInv, NEW t \in Threads,
         AcquireDrain(t) \/ Drain(t) \/ (t \in Ticks /\ (Tick(t) \/ SkipDrain(t)))
  PROVE  WorkingInv'
<1>1. /\ pc \in [Threads -> Locations] /\ Guards \subseteq Threads
      /\ t \in Guards => t \notin Ticks
      /\ op \in [Threads -> {"idle", "push", "refused", "writing", "pop", "copying"}]
  BY GuardAssumption DEF Threads, StrandInv, GuardTypes
<1> USE <1>1 DEF Goto, DrainLocal, queue, table, reported, working, Ahead, Behind
<1>2. CASE AcquireDrain(t)
  <2>1. NoTrace => NoTrace'
    BY <1>2 DEF AcquireDrain, Table!Reset, NoTrace, Table!Used, Table!Unused, Table!Slots
  <2> QED BY <1>2, <2>1, WorkingKept DEF AcquireDrain
<1>3. CASE AnnounceWorking(t)
  <2>1. /\ pc[t] = "announcing" /\ pc' = [pc EXCEPT ![t] = "popping"]
        /\ g_workingPending' = FALSE
        /\ g_workingLogged' = (g_workingLogged \/ g_workingPending)
        /\ workingLines' = IF g_workingPending /\ ~g_workingLogged
                             THEN workingLines + 1 ELSE workingLines
    BY <1>3 DEF AnnounceWorking
  <2>2. NoTrace => NoTrace'
    BY <1>3 DEF AnnounceWorking, NoTrace, Table!Used, Table!Slots
  <2>3. CASE g_workingLogged \/ g_workingPending
    <3>1. g_workingLogged' = TRUE /\ g_workingPending' = FALSE
      BY <2>1, <2>3, Zenon
    <3>2. CASE g_workingLogged
      <4>1. workingLines = 1 /\ workingLines' = workingLines
        BY <2>1, <3>2, Zenon DEF WorkingInv
      <4> QED BY <3>1, <4>1 DEF WorkingInv
    <3>3. CASE ~g_workingLogged
      <4>1. workingLines = 0 /\ workingLines' = workingLines + 1
        BY <2>1, <2>3, <3>3, Zenon DEF WorkingInv
      <4>2. workingLines' = 1
        BY <4>1
      <4> QED BY <3>1, <4>2 DEF WorkingInv
    <3> QED BY <3>2, <3>3
  <2>4. CASE ~g_workingLogged /\ ~g_workingPending
    <3>1. \A u \in Guards : pc[u] = "outside"
      BY <2>4 DEF WorkingInv
    <3>2. t \notin Guards /\ NoTrace
      BY <2>1, <2>4, <3>1 DEF WorkingInv
    <3>3. \A u \in Guards : pc'[u] = "outside"
      BY <2>1, <3>1, <3>2
    <3> QED BY <2>1, <2>2, <2>4, <3>2, <3>3 DEF WorkingInv
  <2> QED BY <2>3, <2>4 DEF WorkingInv
<1>4. CASE PopStarts(t) \/ PopFindsNothing(t) \/ PopBudgetSpent(t)
  <2> USE DEF PopStarts, PopFindsNothing, PopBudgetSpent,
              Queue!CallPop, Queue!FindNothing, Queue!Finish
  <2>1. NoTrace => NoTrace'
    BY <1>4 DEF NoTrace, Table!Used, Table!Slots
  <2>2. UNCHANGED working /\ \A u \in Threads \ {t} : pc'[u] = pc[u]
    BY <1>4
  <2>3. pc[t] = "popping" /\ pc'[t] \in {"popping", "logging"}
    BY <1>4
  <2> QED BY <2>1, <2>2, <2>3, WorkingKept
<1>5. CASE PopTakes(t) \/ PopFolds(t) \/ LogAggregate(t)
  <2> USE DEF PopTakes, PopFolds, LogAggregate
  <2>1. ~NoTrace
    BY <1>5 DEF NoTrace, Queue!Take, Queue!HeadReady, Queue!Release, Table!TryPop
  <2>2. UNCHANGED working /\ UNCHANGED pc
    BY <1>5
  <2> QED BY <2>1, <2>2, WorkingKept
<1>6. CASE LogUncountable(t)
  <2>1. NoTrace => NoTrace'
    BY <1>6 DEF LogUncountable, NoTrace, Table!Used, Table!Slots
  <2> QED BY <1>6, <2>1, WorkingKept DEF LogUncountable
<1>7. CASE CompareDropped(t) \/ ReleaseDrain(t)
  <2> USE DEF CompareDropped, ReleaseDrain
  <2>1. NoTrace => NoTrace'
    BY <1>7 DEF NoTrace, Table!Used, Table!Slots
  <2>2. UNCHANGED working /\ \A u \in Threads \ {t} : pc'[u] = pc[u]
    BY <1>7
  <2>3. pc[t] \in {"comparing", "releasing"} /\ pc'[t] \in {"releasing", "outside"}
    BY <1>7
  <2> QED BY <2>1, <2>2, <2>3, WorkingKept
<1>8. CASE t \in Ticks /\ (Tick(t) \/ SkipDrain(t))
  <2> USE DEF Tick, SkipDrain
  <2>1. NoTrace => NoTrace'
    BY <1>8 DEF NoTrace, Table!Used, Table!Slots
  <2>2. UNCHANGED working /\ \A u \in Threads \ {t} : pc'[u] = pc[u]
    BY <1>8
  <2> QED BY <1>8, <2>1, <2>2, WorkingKept
<1> QED BY <1>2, <1>3, <1>4, <1>5, <1>6, <1>7, <1>8 DEF Drain

LEMMA WorkingStep == ASSUME StrandInv, WorkingInv, [Next]_vars PROVE WorkingInv'
<1>1. CASE UNCHANGED vars
  BY <1>1 DEF vars, queue, table, working, reported, WorkingInv, NoTrace, Table!Used, Table!Slots
<1>2. Guards \subseteq Threads /\ Ticks \subseteq Threads
  BY DEF Threads
<1>3. CASE \E t \in Guards : Enter(t) \/ GuardStep(t) \/ Acquire(t)
  BY <1>2, <1>3, WorkingGuarded, WorkingDrain DEF Enter, GuardStep, Acquire
<1>4. CASE \E t \in Ticks : TickStep(t)
  BY <1>2, <1>4, WorkingDrain DEF TickStep
<1> QED BY <1>1, <1>3, <1>4 DEF Next, Dead

(* The "working" line is written at most once, and is there once an        *)
(* incident was reported and the guard is empty (SaveLoadGuard.cpp:212).   *)
THEOREM WorkingLineHolds == Spec => []WorkingLineOnce
<1>1. WorkingInv => WorkingLineOnce
  BY DEF WorkingInv, WorkingLineOnce, GuardsOutside, NoTrace, Ahead
<1>2. Init => StrandInv /\ WorkingInv
  BY StrandInit, WorkingInit
<1>3. StrandInv /\ WorkingInv /\ [Next]_vars => (StrandInv /\ WorkingInv)'
  BY StrandStep, WorkingStep
<1> QED BY <1>1, <1>2, <1>3, PTL DEF Spec
-----------------------------------------------------------------------------
(* The books.  Every counted incident is somewhere, once: with a thread    *)
(* that has not queued it yet, in the lane, being copied, in the table, in *)
(* a counter a drain has still to write, or written.  Sets of threads and  *)
(* of table places are counted by their cardinality.  (The ledger of the   *)
(* table's own specification has no part in a drain.)                      *)

TableFacts == INSTANCE IncidentCoalescerProofs
  WITH Blank <- NoIncident, tracked <- << >>, delivered <- << >>, refusals <- 0

Counted    == g_prevented + g_observed
Entered    == {t \in Guards : pc[t] \in {"validating", "calling", "counting"}}
Numbering  == {t \in Guards : pc[t] = "queueing"}
Trying     == {t \in Guards : op[t] \in {"push", "refused"}}
Unreported == {t \in Guards : pc[t] \in {"queueing", "missing"} \/ op[t] \in {"push", "refused"}}
Copying    == {t \in Threads : op[t] = "copying"}

(* Once its line is written, untracked is only waiting to be reset.        *)
Folding   == {"announcing", "popping", "logging"}
Uncounted == IF \E t \in Threads : pc[t] \in Folding THEN untracked ELSE 0

(* Counted incidents on their way to a drain, and inside one.              *)
Loose  == Len(lane) + Cardinality(Unreported) + g_unlogged
Inside == Cardinality(TableFacts!Tallied) + Uncounted + Cardinality(Copying)
Stands == Inside + Loose

BookTypes ==
  /\ g_prevented \in Nat /\ g_observed \in Nat /\ g_unlogged \in Nat
  /\ g_lastDropped \in Nat /\ dropped \in Nat /\ accounted \in Nat
  /\ untracked \in Nat /\ dispatches \in Nat /\ g_nextIncident \in Nat
  /\ TableFacts!SlotsTyped
  /\ \A t \in Threads : op[t] = "copying" => held[t] \in Incidents
  /\ IsFiniteSet(Entered) /\ IsFiniteSet(Numbering) /\ IsFiniteSet(Trying)
  /\ IsFiniteSet(Unreported) /\ IsFiniteSet(Copying)

Numbers ==
  /\ Counted + Cardinality(Entered) <= dispatches /\ dispatches <= MaxDispatches
  /\ g_nextIncident - 1 + Cardinality(Numbering) = Counted
  /\ dropped + Cardinality(Trying) <= g_nextIncident - 1
  /\ g_lastDropped <= dropped

Balance ==
  /\ accounted + Stands <= Counted
  /\ MaxDispatches <= Limit => accounted + Stands = Counted

(* A drain begins with an empty table and leaves one.                      *)
TableInUse ==
  /\ (\A t \in Threads : pc[t] \notin {"popping", "logging"}) => TableFacts!Used = {}
  /\ (\E t \in Threads : pc[t] = "announcing") => untracked = 0

(* What is unwritten has an engine thread that will write it, or that      *)
(* waits until somebody has.                                               *)
Settling(places) == \E t \in Guards : pc[t] \in places

ForRecords == {"pushing", "missing", "waiting", "announcing", "popping", "logging"}
ForUnlogged == {"waiting", "announcing", "popping", "logging"}
ForDropped == {"missing", "waiting", "announcing", "popping", "logging", "comparing"}

InTransit == lane # << >> \/ TableFacts!Used # {} \/ Copying # {} \/ Uncounted # 0

Debts ==
  /\ InTransit => Settling(ForRecords)
  /\ g_unlogged # 0 => Settling(ForUnlogged)
  /\ g_lastDropped # dropped => Settling(ForDropped)

BooksInv == BookTypes /\ Numbers /\ Balance /\ TableInUse /\ Debts

-----------------------------------------------------------------------------

(* A set of threads after one thread has moved.                            *)
Recounted(S, T, t) ==
  /\ IsFiniteSet(T) /\ Cardinality(T) \in Nat /\ Cardinality(S) \in Nat
  /\ (t \in S <=> t \in T) => Cardinality(T) = Cardinality(S)
  /\ t \notin S /\ t \in T => Cardinality(T) = Cardinality(S) + 1
  /\ t \in S /\ t \notin T => Cardinality(T) = Cardinality(S) - 1

LEMMA Recount ==
  ASSUME NEW S, NEW T, NEW t, IsFiniteSet(S), \A u : u # t => (u \in S <=> u \in T)
  PROVE  Recounted(S, T, t)
<1>1. Cardinality(S) \in Nat
  BY FS_CardinalityType
<1>2. CASE t \in S <=> t \in T
  <2>1. S = T
    BY <1>2
  <2> QED BY <1>1, <1>2, <2>1 DEF Recounted
<1>3. CASE t \notin S /\ t \in T
  <2>1. T = S \cup {t}
    BY <1>3
  <2>2. IsFiniteSet(T) /\ Cardinality(T) = Cardinality(S) + 1
    BY <1>3, <2>1, FS_AddElement
  <2> QED BY <1>1, <1>3, <2>2 DEF Recounted
<1>4. CASE t \in S /\ t \notin T
  <2>1. T = S \ {t}
    BY <1>4
  <2>2. IsFiniteSet(T) /\ Cardinality(T) = Cardinality(S) - 1
    BY <1>4, <2>1, FS_RemoveElement
  <2>3. Cardinality(T) \in Nat
    BY <2>2, FS_CardinalityType
  <2> QED BY <1>1, <1>4, <2>2, <2>3 DEF Recounted
<1> QED BY <1>2, <1>3, <1>4

LEMMA Moved ==
  ASSUME BookTypes, NEW t \in Threads,
         \A u \in Threads \ {t} : pc'[u] = pc[u] /\ op'[u] = op[u]
  PROVE  /\ Recounted(Entered, Entered', t) /\ Recounted(Numbering, Numbering', t)
         /\ Recounted(Trying, Trying', t) /\ Recounted(Unreported, Unreported', t)
         /\ Recounted(Copying, Copying', t)
<1>1. Guards \subseteq Threads
  BY DEF Threads
<1>2. Recounted(Entered, Entered', t)
  <2>1. \A u : u # t => (u \in Entered <=> u \in Entered')
    BY <1>1 DEF Entered
  <2>2. IsFiniteSet(Entered)
    BY DEF BookTypes
  <2> HIDE DEF Entered
  <2> QED BY <2>1, <2>2, Recount
<1>3. Recounted(Numbering, Numbering', t)
  <2>1. \A u : u # t => (u \in Numbering <=> u \in Numbering')
    BY <1>1 DEF Numbering
  <2>2. IsFiniteSet(Numbering)
    BY DEF BookTypes
  <2> QED BY <2>1, <2>2, Recount
<1>4. Recounted(Trying, Trying', t)
  <2>1. \A u : u # t => (u \in Trying <=> u \in Trying')
    BY <1>1 DEF Trying
  <2>2. IsFiniteSet(Trying)
    BY DEF BookTypes
  <2> QED BY <2>1, <2>2, Recount
<1>5. Recounted(Unreported, Unreported', t)
  <2>1. \A u : u # t => (u \in Unreported <=> u \in Unreported')
    BY <1>1 DEF Unreported
  <2>2. IsFiniteSet(Unreported)
    BY DEF BookTypes
  <2> QED BY <2>1, <2>2, Recount
<1>6. Recounted(Copying, Copying', t)
  <2>1. \A u : u # t => (u \in Copying <=> u \in Copying')
    BY DEF Copying
  <2>2. IsFiniteSet(Copying)
    BY DEF BookTypes
  <2> QED BY <2>1, <2>2, Recount
<1> QED BY <1>2, <1>3, <1>4, <1>5, <1>6

(* The table operations in both names of the table.                        *)
LEMMA SameTable ==
  /\ Table!Used = TableFacts!Used
  /\ Table!FirstOf(Table!Used) = TableFacts!FirstOf(TableFacts!Used)
  /\ Table!Reset => TableFacts!Reset
  /\ Table!TryPop => TableFacts!TryPop
  /\ \A i \in Incidents : Table!TryAdd(i) => TableFacts!TryAdd(i)
<1>1. Table!Used = TableFacts!Used
  BY DEF Table!Used, TableFacts!Used, Table!Slots, TableFacts!Slots
<1>2. \A S : Table!FirstOf(S) = TableFacts!FirstOf(S)
  BY DEF Table!FirstOf, TableFacts!FirstOf
<1>3. Table!Unused = TableFacts!Unused
  BY DEF Table!Unused, TableFacts!Unused
<1>4. Table!Reset => TableFacts!Reset
  BY <1>3 DEF Table!Reset, TableFacts!Reset, Table!Slots, TableFacts!Slots
<1>5. Table!TryPop => TableFacts!TryPop
  BY <1>1, <1>2, <1>3 DEF Table!TryPop, TableFacts!TryPop
<1>6. ASSUME NEW i \in Incidents, Table!TryAdd(i)
      PROVE  TableFacts!TryAdd(i)
  <2>1. Table!Matches(i) = TableFacts!Matches(i) /\ Table!Free = TableFacts!Free
    BY <1>1 DEF Table!Matches, TableFacts!Matches, Table!Signature, TableFacts!Signature,
                Table!Free, TableFacts!Free, Table!Slots, TableFacts!Slots
  <2>2. \A n : Table!SaturatingIncrement(n) = TableFacts!SaturatingIncrement(n)
    BY DEF Table!SaturatingIncrement, TableFacts!SaturatingIncrement
  <2>3. CASE Table!Merge(i)
    BY <1>2, <2>1, <2>2, <2>3 DEF Table!Merge, TableFacts!Merge, TableFacts!TryAdd
  <2>4. CASE Table!Open(i)
    BY <1>2, <2>1, <2>4 DEF Table!Open, TableFacts!Open, TableFacts!TryAdd
  <2>5. CASE Table!GiveUp(i)
    BY <2>1, <2>2, <2>5 DEF Table!GiveUp, TableFacts!GiveUp, TableFacts!TryAdd
  <2> QED BY <1>6, <2>3, <2>4, <2>5 DEF Table!TryAdd
<1> QED BY <1>1, <1>2, <1>4, <1>5, <1>6

(* What only depends on where the threads are, after one has moved.        *)
LEMMA Elsewhere ==
  ASSUME NEW t \in Threads, \A u \in Threads \ {t} : pc'[u] = pc[u],
         NEW places, t \in Guards /\ pc[t] \in places => pc'[t] \in places,
         Settling(places)
  PROVE  Settling(places)'
BY DEF Settling, Threads

(* A step that leaves the books alone.                                     *)
LEMMA BooksKept ==
  ASSUME BooksInv, NEW t \in Threads,
         \A u \in Threads \ {t} : pc'[u] = pc[u] /\ op'[u] = op[u] /\ held'[u] = held[u],
         UNCHANGED <<slots, untracked, totals, reported, dropped, g_nextIncident, dispatches>>,
         Len(lane') = Len(lane), lane' = << >> <=> lane = << >>,
         t \in Entered' => t \in Entered,
         t \in Numbering' <=> t \in Numbering, t \in Trying' <=> t \in Trying,
         t \in Unreported' <=> t \in Unreported,
         op[t] # "copying", op'[t] # "copying",
         pc'[t] \in Folding <=> pc[t] \in Folding,
         pc[t] \in {"popping", "logging"} => pc'[t] \in {"popping", "logging"},
         pc'[t] = "announcing" => pc[t] = "announcing",
         t \in Guards =>
           /\ pc[t] \in ForRecords  => pc'[t] \in ForRecords
           /\ pc[t] \in ForUnlogged => pc'[t] \in ForUnlogged
           /\ pc[t] \in ForDropped  => pc'[t] \in ForDropped
  PROVE  BooksInv'
<1>1. /\ Recounted(Entered, Entered', t) /\ Recounted(Numbering, Numbering', t)
      /\ Recounted(Trying, Trying', t) /\ Recounted(Unreported, Unreported', t)
      /\ Recounted(Copying, Copying', t)
  BY Moved DEF BooksInv
<1>2. /\ UNCHANGED <<g_prevented, g_observed, g_unlogged, g_lastDropped, accounted>>
      /\ Counted' = Counted
  BY DEF totals, reported, Counted
<1>3. /\ TableFacts!Tallied' = TableFacts!Tallied /\ TableFacts!Used' = TableFacts!Used
      /\ (TableFacts!SlotsTyped <=> TableFacts!SlotsTyped')
  BY DEF TableFacts!Tallied, TableFacts!Used, TableFacts!SlotsTyped
<1>4. Copying' = Copying /\ Cardinality(Copying') = Cardinality(Copying)
  BY DEF Copying
<1>5. /\ Cardinality(Numbering') = Cardinality(Numbering)
      /\ Cardinality(Trying') = Cardinality(Trying)
      /\ Cardinality(Unreported') = Cardinality(Unreported)
      /\ Cardinality(Entered') <= Cardinality(Entered)
      /\ Cardinality(Entered') \in Nat /\ Cardinality(Entered) \in Nat
  BY <1>1 DEF Recounted
<1>6. Uncounted' = Uncounted
  <2>1. (\E u \in Threads : pc'[u] \in Folding) <=> (\E u \in Threads : pc[u] \in Folding)
    OBVIOUS
  <2> QED BY <2>1 DEF Uncounted
<1>7. BookTypes'
  BY <1>1, <1>2, <1>3 DEF BooksInv, BookTypes, Recounted
<1>8. Numbers'
  <2>1. Counted \in Nat
    BY DEF BooksInv, BookTypes, Counted
  <2>2. dispatches \in Nat
    BY DEF BooksInv, BookTypes
  <2> QED BY <1>2, <1>5, <2>1, <2>2 DEF BooksInv, Numbers
<1>9. Stands' = Stands
  BY <1>2, <1>3, <1>4, <1>5, <1>6 DEF Stands, Inside, Loose
<1>10. Balance'
  BY <1>2, <1>9 DEF BooksInv, Balance
<1>11. TableInUse'
  <2>1. (\A u \in Threads : pc'[u] \notin {"popping", "logging"}) =>
          \A u \in Threads : pc[u] \notin {"popping", "logging"}
    OBVIOUS
  <2>2. (\E u \in Threads : pc'[u] = "announcing") => \E u \in Threads : pc[u] = "announcing"
    OBVIOUS
  <2> QED BY <1>3, <2>1, <2>2 DEF BooksInv, TableInUse
<1>12. Debts'
  <2>1. InTransit' = InTransit
    BY <1>3, <1>4, <1>6 DEF InTransit
  <2> QED BY <1>2, <2>1, Elsewhere DEF BooksInv, Debts
<1> QED BY <1>7, <1>8, <1>10, <1>11, <1>12 DEF BooksInv

LEMMA BooksInit == ASSUME Init PROVE BooksInv
<1> USE DEF Init, Queue!TransportInit, Table!EmptyTable
<1>1. /\ Entered = {} /\ Numbering = {} /\ Trying = {} /\ Unreported = {} /\ Copying = {}
  BY DEF Entered, Numbering, Trying, Unreported, Copying, Threads
<1>2. IsFiniteSet({}) /\ Cardinality({}) = 0
  BY FS_EmptySet
<1>3. TableFacts!SlotsTyped /\ TableFacts!Used = {}
  BY DEF TableFacts!SlotsTyped, TableFacts!SlotType, TableFacts!Used, Table!Slots,
         TableFacts!Slots, Table!Unused, TableFacts!Unused
<1>4. TableFacts!Tallied = {}
  BY <1>3, TableFacts!TallyEmpty, GuardAssumption
<1>5. Uncounted = 0
  BY DEF Uncounted
<1>6. BookTypes
  BY <1>1, <1>2, <1>3 DEF BookTypes
<1>7. Numbers /\ Balance
  BY <1>1, <1>2, <1>4, <1>5, GuardAssumption DEF Numbers, Balance, Stands, Inside, Loose, Counted
<1>8. TableInUse /\ Debts
  BY <1>1, <1>3, <1>5 DEF TableInUse, Debts, InTransit
<1> QED BY <1>6, <1>7, <1>8 DEF BooksInv

(* The steps of the guard that touch no book, or close an entry.           *)
LEMMA BooksQuietGuard ==
  ASSUME StrandInv, BooksInv, NEW t \in Guards,
         \/ Reject(t) \/ Accept(t) \/ CallReturns(t) \/ CallReturnsUnreadable(t)
         \/ CallFaults(t) \/ CallEscapes(t) \/ Pushed(t)
         \/ (PushClaims(t) /\ Queue!Refuse(t))
  PROVE  BooksInv'
<1>1. t \in Threads /\ pc \in [Threads -> Locations] /\ Guards \subseteq Threads
      /\ op \in [Threads -> {"idle", "push", "refused", "writing", "pop", "copying"}]
      /\ held \in [Threads -> Records]
  BY DEF Threads, StrandInv, GuardTypes
<1> USE DEF Goto, LocalStep, QueueStep, queue, table
<1>2. /\ pc[t] = "pushing" <=> op[t] \in {"push", "refused", "writing"}
      /\ op[t] \in {"pop", "copying"} => pc[t] = "popping"
  BY <1>1 DEF StrandInv, Calls
<1>3. CASE CallEscapes(t)
  <2>1. UNCHANGED <<pc, op, held, lane, slots, untracked, totals, reported, dropped,
                    g_nextIncident, dispatches>>
    BY <1>3 DEF CallEscapes
  <2>2. pc[t] = "calling"
    BY <1>3 DEF CallEscapes
  <2>3. /\ op[t] # "copying" /\ Entered' = Entered /\ Numbering' = Numbering
        /\ Trying' = Trying /\ Unreported' = Unreported
    BY <1>2, <2>1, <2>2 DEF Entered, Numbering, Trying, Unreported
  <2> QED BY <1>1, <2>1, <2>2, <2>3, BooksKept
<1>4. CASE Reject(t) \/ Accept(t) \/ CallReturns(t) \/ CallReturnsUnreadable(t) \/ CallFaults(t)
  <2> USE DEF Reject, Accept, CallReturns, CallReturnsUnreadable, CallFaults
  <2>1. UNCHANGED <<op, held, lane, slots, untracked, totals, reported, dropped,
                    g_nextIncident, dispatches>>
    BY <1>4
  <2>2. /\ pc[t] \in {"validating", "calling"} /\ pc'[t] \in {"calling", "outside", "counting"}
        /\ \A u \in Threads \ {t} : pc'[u] = pc[u]
    BY <1>1, <1>4
  <2>3. op[t] \notin {"push", "refused", "copying"} /\ op'[t] = op[t]
    BY <1>2, <2>1, <2>2
  <2>4. /\ t \in Entered /\ t \notin Numbering /\ t \notin Trying /\ t \notin Unreported
        /\ t \notin Numbering' /\ t \notin Trying' /\ t \notin Unreported'
    BY <2>2, <2>3 DEF Entered, Numbering, Trying, Unreported
  <2>5. /\ pc[t] \notin Folding /\ pc'[t] \notin Folding /\ pc[t] \notin {"popping", "logging"}
        /\ pc'[t] # "announcing"
        /\ pc[t] \notin ForRecords /\ pc[t] \notin ForUnlogged /\ pc[t] \notin ForDropped
    BY <2>2 DEF Folding, ForRecords, ForUnlogged, ForDropped
  <2> QED BY <1>1, <2>1, <2>2, <2>3, <2>4, <2>5, BooksKept
<1>5. CASE Pushed(t)
  <2>1. /\ UNCHANGED <<slots, untracked, totals, reported, dropped, g_nextIncident, dispatches>>
        /\ pc[t] = "pushing" /\ pc'[t] = "waiting" /\ op[t] = "writing" /\ op'[t] = "idle"
        /\ \A u \in Threads \ {t} : pc'[u] = pc[u] /\ op'[u] = op[u] /\ held'[u] = held[u]
    BY <1>1, <1>5 DEF Pushed, Queue!Publish, Queue!Finish
  <2>2. Len(lane') = Len(lane) /\ (lane' = << >> <=> lane = << >>)
    <3>1. PICK i \in 1 .. Len(lane), e \in Entries : lane' = [lane EXCEPT ![i] = e]
      <4>1. at[t] - first + 1 \in 1 .. Len(lane)
        BY <1>1, <2>1 DEF StrandInv, LaneInv, Writers
      <4> DEFINE i == at[t] - first + 1
                 e == [lane[i] EXCEPT !.ready = TRUE]
      <4>2. lane' = [lane EXCEPT ![i] = e] /\ lane[i] \in Entries
        BY <1>5, <4>1 DEF Pushed, Queue!Publish, StrandInv, GuardTypes
      <4> HIDE DEF i
      <4>3. e \in Entries
        BY <4>2 DEF Entries
      <4> QED BY <4>1, <4>2, <4>3 DEF i
    <3>2. lane \in Seq(Entries)
      BY DEF StrandInv, GuardTypes
    <3>3. lane' \in Seq(Entries) /\ Len(lane') = Len(lane)
      BY <3>1, <3>2
    <3> QED BY <3>2, <3>3
  <2>3. /\ t \notin Entered' /\ t \notin Numbering /\ t \notin Trying /\ t \notin Unreported
        /\ t \notin Numbering' /\ t \notin Trying' /\ t \notin Unreported'
    BY <2>1 DEF Entered, Numbering, Trying, Unreported
  <2>4. /\ pc[t] \notin Folding /\ pc'[t] \notin Folding
        /\ pc'[t] \in ForRecords /\ pc'[t] \in ForUnlogged /\ pc'[t] \in ForDropped
    BY <2>1 DEF Folding, ForRecords, ForUnlogged, ForDropped
  <2> QED BY <1>1, <2>1, <2>2, <2>3, <2>4, BooksKept
<1>6. CASE PushClaims(t) /\ Queue!Refuse(t)
  <2>1. /\ UNCHANGED <<pc, held, lane, slots, untracked, totals, reported, dropped,
                       g_nextIncident, dispatches>>
        /\ pc[t] = "pushing" /\ op[t] = "push" /\ op'[t] = "refused"
        /\ \A u \in Threads \ {t} : op'[u] = op[u]
    BY <1>1, <1>6 DEF PushClaims, Queue!Refuse
  <2>2. /\ t \notin Entered' /\ t \notin Numbering /\ t \in Trying /\ t \in Unreported
        /\ t \notin Numbering' /\ t \in Trying' /\ t \in Unreported'
    BY <2>1 DEF Entered, Numbering, Trying, Unreported
  <2> QED BY <1>1, <2>1, <2>2, BooksKept
<1> QED BY <1>3, <1>4, <1>5, <1>6

(* The steps of a drain that touch no book.                                *)
LEMMA BooksQuietDrain ==
  ASSUME StrandInv, BooksInv, NEW t \in Threads,
         \/ (t \in Ticks /\ (Tick(t) \/ SkipDrain(t)))
         \/ AnnounceWorking(t) \/ PopStarts(t) \/ PopFindsNothing(t) \/ PopBudgetSpent(t)
         \/ ReleaseDrain(t)
  PROVE  BooksInv'
<1>1. /\ pc \in [Threads -> Locations] /\ held \in [Threads -> Records]
      /\ op \in [Threads -> {"idle", "push", "refused", "writing", "pop", "copying"}]
  BY DEF StrandInv, GuardTypes
<1> USE DEF Goto, DrainLocal, queue, table, Queue!CallPop, Queue!FindNothing, Queue!Finish
<1>2. /\ pc[t] = "pushing" <=> op[t] \in {"push", "refused", "writing"}
      /\ op[t] \in {"pop", "copying"} => pc[t] = "popping"
  BY <1>1 DEF StrandInv, Calls
<1>3. /\ UNCHANGED <<lane, slots, untracked, totals, reported, dropped, g_nextIncident, dispatches>>
      /\ \A u \in Threads \ {t} : pc'[u] = pc[u] /\ op'[u] = op[u] /\ held'[u] = held[u]
  BY <1>1 DEF Tick, SkipDrain, AnnounceWorking, PopStarts, PopFindsNothing, PopBudgetSpent,
              ReleaseDrain
<1>4. /\ op[t] \notin {"push", "refused", "copying"} /\ op'[t] \notin {"push", "refused", "copying"}
      /\ \/ pc[t] = "outside" /\ pc'[t] = "waiting" /\ t \in Ticks
         \/ pc[t] = "waiting" /\ pc'[t] = "outside" /\ t \in Ticks
         \/ pc[t] = "announcing" /\ pc'[t] = "popping"
         \/ pc[t] = "popping" /\ pc'[t] = "popping"
         \/ pc[t] = "popping" /\ pc'[t] = "logging"
         \/ pc[t] = "releasing" /\ pc'[t] = "outside"
  <2>1. CASE t \in Ticks /\ Tick(t)
    BY <1>1, <1>2, <2>1 DEF Tick
  <2>2. CASE t \in Ticks /\ SkipDrain(t)
    BY <1>1, <1>2, <2>2 DEF SkipDrain
  <2>3. CASE AnnounceWorking(t)
    BY <1>1, <1>2, <2>3 DEF AnnounceWorking
  <2>4. CASE PopStarts(t)
    BY <1>1, <1>2, <2>4 DEF PopStarts
  <2>5. CASE PopFindsNothing(t)
    BY <1>1, <1>2, <2>5 DEF PopFindsNothing
  <2>6. CASE PopBudgetSpent(t)
    BY <1>1, <1>2, <2>6 DEF PopBudgetSpent
  <2>7. CASE ReleaseDrain(t)
    BY <1>1, <1>2, <2>7 DEF ReleaseDrain
  <2> QED BY <2>1, <2>2, <2>3, <2>4, <2>5, <2>6, <2>7
<1>5. /\ t \notin Entered' /\ t \notin Numbering /\ t \notin Trying /\ t \notin Unreported
      /\ t \notin Numbering' /\ t \notin Trying' /\ t \notin Unreported'
  BY <1>4 DEF Entered, Numbering, Trying, Unreported
<1>6. /\ pc'[t] \in Folding <=> pc[t] \in Folding
      /\ pc[t] \in {"popping", "logging"} => pc'[t] \in {"popping", "logging"}
      /\ pc'[t] # "announcing"
  BY <1>4 DEF Folding
<1>7. t \in Guards =>
        /\ pc[t] \in ForRecords  => pc'[t] \in ForRecords
        /\ pc[t] \in ForUnlogged => pc'[t] \in ForUnlogged
        /\ pc[t] \in ForDropped  => pc'[t] \in ForDropped
  BY <1>4, GuardAssumption DEF ForRecords, ForUnlogged, ForDropped
<1> QED BY <1>3, <1>4, <1>5, <1>6, <1>7, BooksKept

LEMMA SameCardinality == \A S : TableFacts!Cardinality(S) = Cardinality(S)
BY DEF Cardinality, TableFacts!Cardinality

LEMMA TalliedIsNatural == Cardinality(TableFacts!Tallied) \in Nat
BY TableFacts!TalliedFinite, SameCardinality, GuardAssumption

(* The same total, with one incident elsewhere in it.                      *)
LEMMA BalanceCarried ==
  ASSUME BookTypes, Balance, UNCHANGED accounted,
         TableFacts!Tallied' = TableFacts!Tallied, Copying' = Copying, Uncounted' = Uncounted,
         Counted' \in Nat, Loose \in Nat, Loose' \in Nat,
         Loose' + Counted = Loose + Counted'
  PROVE  Balance'
<1>1. Counted \in Nat /\ accounted \in Nat /\ Uncounted \in Nat
  BY DEF BookTypes, Counted, Uncounted
<1>2. Cardinality(TableFacts!Tallied) \in Nat
  BY TalliedIsNatural
<1>3. Cardinality(Copying) \in Nat
  BY FS_CardinalityType DEF BookTypes
<1>4. Inside \in Nat /\ Inside' = Inside
  BY <1>1, <1>2, <1>3 DEF Inside
<1>5. PICK counted \in Nat, loose \in Nat : counted = Counted' /\ loose = Loose'
  OBVIOUS
<1>6. Stands' = Inside + loose /\ accounted' = accounted
  BY <1>4, <1>5, Zenon DEF Stands
<1>7. loose + Counted = Loose + counted
  BY <1>5, Zenon
<1>8. /\ accounted + Stands <= Counted => accounted + (Inside + loose) <= counted
      /\ accounted + Stands = Counted => accounted + (Inside + loose) = counted
  BY <1>1, <1>4, <1>7 DEF Stands
<1> QED BY <1>5, <1>6, <1>8, Zenon DEF Balance

(* A step of the guard that moves an incident along, outside the drain.    *)
LEMMA BooksPassedOn ==
  ASSUME BooksInv, NEW t \in Guards,
         \A u \in Threads \ {t} : pc'[u] = pc[u] /\ op'[u] = op[u] /\ held'[u] = held[u],
         UNCHANGED <<slots, untracked, accounted, g_lastDropped>>,
         g_prevented' \in Nat, g_observed' \in Nat, g_unlogged' \in Nat, dropped' \in Nat,
         dispatches' \in Nat, g_nextIncident' \in Nat, Len(lane') \in Nat, Len(lane) \in Nat,
         op[t] # "copying", op'[t] # "copying",
         pc[t] \notin Folding, pc'[t] \notin Folding,
         Numbers',
         Loose' + Counted = Loose + Counted',
         pc[t] \in ForRecords  => pc'[t] \in ForRecords,
         pc[t] \in ForUnlogged => pc'[t] \in ForUnlogged,
         pc[t] \in ForDropped  => pc'[t] \in ForDropped,
         lane' = lane \/ pc'[t] \in ForRecords,
         g_unlogged' = g_unlogged \/ pc'[t] \in ForUnlogged,
         dropped' = dropped \/ pc'[t] \in ForDropped
  PROVE  BooksInv'
<1>1. t \in Threads
  BY DEF Threads
<1>2. /\ Recounted(Entered, Entered', t) /\ Recounted(Numbering, Numbering', t)
      /\ Recounted(Trying, Trying', t) /\ Recounted(Unreported, Unreported', t)
      /\ Recounted(Copying, Copying', t)
  BY <1>1, Moved DEF BooksInv
<1>3. /\ TableFacts!Tallied' = TableFacts!Tallied /\ TableFacts!Used' = TableFacts!Used
      /\ (TableFacts!SlotsTyped <=> TableFacts!SlotsTyped')
  BY DEF TableFacts!Tallied, TableFacts!Used, TableFacts!SlotsTyped
<1>4. Copying' = Copying
  BY <1>1 DEF Copying
<1>5. Uncounted' = Uncounted
  <2>1. (\E u \in Threads : pc'[u] \in Folding) <=> (\E u \in Threads : pc[u] \in Folding)
    OBVIOUS
  <2> QED BY <2>1 DEF Uncounted
<1>6. BookTypes'
  BY <1>1, <1>2, <1>3 DEF BooksInv, BookTypes, Recounted
<1>7. Balance'
  <2>1. Counted' \in Nat
    BY DEF Counted
  <2>2. Cardinality(Unreported) \in Nat /\ Cardinality(Unreported') \in Nat
    BY <1>2 DEF Recounted
  <2>3. Loose \in Nat /\ Loose' \in Nat
    BY <2>2 DEF Loose, BooksInv, BookTypes
  <2> QED BY <1>3, <1>4, <1>5, <2>1, <2>3, BalanceCarried DEF BooksInv
<1>8. TableInUse'
  <2>1. (\A u \in Threads : pc'[u] \notin {"popping", "logging"}) =>
          \A u \in Threads : pc[u] \notin {"popping", "logging"}
    BY DEF Folding
  <2>2. (\E u \in Threads : pc'[u] = "announcing") => \E u \in Threads : pc[u] = "announcing"
    BY DEF Folding
  <2> QED BY <1>3, <2>1, <2>2 DEF BooksInv, TableInUse
<1>9. Debts'
  <2>1. InTransit' => InTransit \/ pc'[t] \in ForRecords
    BY <1>3, <1>4, <1>5 DEF InTransit
  <2>2. ASSUME NEW places, pc'[t] \in places PROVE Settling(places)'
    BY <2>2 DEF Settling
  <2> QED BY <1>1, <2>1, <2>2, Elsewhere DEF BooksInv, Debts
<1> QED BY <1>6, <1>7, <1>8, <1>9 DEF BooksInv

LEMMA BooksCount ==
  ASSUME StrandInv, BooksInv, NEW t \in Guards,
         \/ Dispatch(t) \/ CountIncident(t) \/ QueueIncident(t)
         \/ (PushClaims(t) /\ Queue!Claim(t)) \/ PushRefused(t) \/ CountUnlogged(t)
  PROVE  BooksInv'
<1>1. t \in Threads /\ pc \in [Threads -> Locations] /\ Guards \subseteq Threads
      /\ op \in [Threads -> {"idle", "push", "refused", "writing", "pop", "copying"}]
      /\ held \in [Threads -> Records] /\ lane \in Seq(Entries) /\ Len(lane) \in Nat
  BY DEF Threads, StrandInv, GuardTypes
<1> USE DEF Goto, LocalStep, QueueStep, queue, table, totals, reported
<1>2. /\ pc[t] = "pushing" <=> op[t] \in {"push", "refused", "writing"}
      /\ op[t] \in {"pop", "copying"} => pc[t] = "popping"
  BY <1>1 DEF StrandInv, Calls
<1>3. /\ g_prevented \in Nat /\ g_observed \in Nat /\ g_unlogged \in Nat /\ g_lastDropped \in Nat
      /\ dropped \in Nat /\ dispatches \in Nat /\ g_nextIncident \in Nat /\ Counted \in Nat
      /\ MaxDispatches \in Nat
  BY GuardAssumption DEF BooksInv, BookTypes, Counted
<1>4. ASSUME \A u \in Threads \ {t} : pc'[u] = pc[u] /\ op'[u] = op[u]
      PROVE  /\ Recounted(Entered, Entered', t) /\ Recounted(Numbering, Numbering', t)
             /\ Recounted(Trying, Trying', t) /\ Recounted(Unreported, Unreported', t)
  BY <1>1, <1>4, Moved DEF BooksInv
<1>5. CASE Dispatch(t)
  <2>1. /\ UNCHANGED <<op, held, lane, slots, untracked, accounted, g_lastDropped, g_prevented,
                       g_observed, g_unlogged, dropped, g_nextIncident>>
        /\ pc[t] = "outside" /\ pc'[t] = "validating"
        /\ dispatches' = dispatches + 1 /\ dispatches < MaxDispatches
        /\ \A u \in Threads \ {t} : pc'[u] = pc[u]
    BY <1>1, <1>5 DEF Dispatch
  <2>2. op[t] \notin {"push", "refused", "copying"} /\ op'[t] = op[t]
    BY <1>2, <2>1
  <2>3. /\ t \notin Entered /\ t \notin Numbering /\ t \notin Trying /\ t \notin Unreported
        /\ t \in Entered' /\ t \notin Numbering' /\ t \notin Trying' /\ t \notin Unreported'
    BY <2>1, <2>2 DEF Entered, Numbering, Trying, Unreported
  <2>4. /\ Cardinality(Entered') = Cardinality(Entered) + 1 /\ Cardinality(Entered) \in Nat
        /\ Cardinality(Numbering') = Cardinality(Numbering)
        /\ Cardinality(Trying') = Cardinality(Trying)
        /\ Cardinality(Unreported') = Cardinality(Unreported)
    BY <1>4, <2>1, <2>2, <2>3 DEF Recounted
  <2>5. Counted' = Counted /\ Loose' = Loose
    BY <2>1, <2>4 DEF Counted, Loose
  <2>6. Numbers'
    BY <1>3, <2>1, <2>4, <2>5 DEF BooksInv, Numbers
  <2>7. /\ pc[t] \notin Folding /\ pc'[t] \notin Folding
        /\ pc[t] \notin ForRecords /\ pc[t] \notin ForUnlogged /\ pc[t] \notin ForDropped
    BY <2>1 DEF Folding, ForRecords, ForUnlogged, ForDropped
  <2>8. dispatches' \in Nat
    BY <1>3, <2>1
  <2> QED BY <1>1, <1>3, <2>1, <2>2, <2>4, <2>5, <2>6, <2>7, <2>8, BooksPassedOn
<1>6. CASE CountIncident(t)
  <2>1. /\ UNCHANGED <<op, held, lane, slots, untracked, accounted, g_lastDropped,
                       g_unlogged, dropped, g_nextIncident, dispatches>>
        /\ pc[t] = "counting" /\ pc'[t] = "queueing"
        /\ \A u \in Threads \ {t} : pc'[u] = pc[u]
    BY <1>1, <1>6 DEF CountIncident
  <2>2. op[t] \notin {"push", "refused", "copying"} /\ op'[t] = op[t]
    BY <1>2, <2>1
  <2>3. /\ t \in Entered /\ t \notin Numbering /\ t \notin Trying /\ t \notin Unreported
        /\ t \notin Entered' /\ t \in Numbering' /\ t \notin Trying' /\ t \in Unreported'
    BY <2>1, <2>2 DEF Entered, Numbering, Trying, Unreported
  <2>4. /\ Cardinality(Entered') = Cardinality(Entered) - 1 /\ Cardinality(Entered) \in Nat
        /\ Cardinality(Numbering') = Cardinality(Numbering) + 1
        /\ Cardinality(Numbering) \in Nat
        /\ Cardinality(Trying') = Cardinality(Trying)
        /\ Cardinality(Unreported') = Cardinality(Unreported) + 1
        /\ Cardinality(Unreported) \in Nat
    BY <1>4, <2>1, <2>2, <2>3 DEF Recounted
  <2>5. Counted' = Counted + 1 /\ g_prevented' \in Nat /\ g_observed' \in Nat
    BY <1>3, <1>6 DEF Counted, CountIncident
  <2>6. Numbers'
    BY <1>3, <2>1, <2>4, <2>5 DEF BooksInv, Numbers
  <2>7. Loose' + Counted = Loose + Counted'
    <3>1. Loose \in Nat /\ Loose' = Loose + 1
      BY <1>1, <1>3, <2>1, <2>4 DEF Loose
    <3> HIDE DEF Loose
    <3> QED BY <1>3, <2>5, <3>1
  <2>8. /\ pc[t] \notin Folding /\ pc'[t] \notin Folding
        /\ pc[t] \notin ForRecords /\ pc[t] \notin ForUnlogged /\ pc[t] \notin ForDropped
    BY <2>1 DEF Folding, ForRecords, ForUnlogged, ForDropped
  <2> QED BY <1>1, <1>3, <2>1, <2>2, <2>5, <2>6, <2>7, <2>8, BooksPassedOn
<1>7. CASE QueueIncident(t)
  <2>1. /\ UNCHANGED <<lane, slots, untracked, accounted, g_lastDropped, g_prevented,
                       g_observed, g_unlogged, dropped, dispatches>>
        /\ pc[t] = "queueing" /\ pc'[t] = "pushing" /\ op'[t] = "push"
        /\ g_nextIncident' = g_nextIncident + 1
        /\ \A u \in Threads \ {t} : pc'[u] = pc[u] /\ op'[u] = op[u] /\ held'[u] = held[u]
    BY <1>1, <1>7 DEF QueueIncident, Queue!CallPush
  <2>2. op[t] \notin {"push", "refused", "copying"}
    BY <1>2, <2>1
  <2>3. /\ t \notin Entered /\ t \in Numbering /\ t \notin Trying /\ t \in Unreported
        /\ t \notin Entered' /\ t \notin Numbering' /\ t \in Trying' /\ t \in Unreported'
    BY <2>1, <2>2 DEF Entered, Numbering, Trying, Unreported
  <2>4. /\ Cardinality(Entered') = Cardinality(Entered)
        /\ Cardinality(Numbering') = Cardinality(Numbering) - 1
        /\ Cardinality(Numbering) \in Nat
        /\ Cardinality(Trying') = Cardinality(Trying) + 1 /\ Cardinality(Trying) \in Nat
        /\ Cardinality(Unreported') = Cardinality(Unreported)
    BY <1>4, <2>1, <2>2, <2>3 DEF Recounted
  <2>5. Counted' = Counted /\ Loose' = Loose /\ g_nextIncident' \in Nat
    BY <1>3, <2>1, <2>4 DEF Counted, Loose
  <2>6. Numbers'
    BY <1>3, <2>1, <2>4, <2>5 DEF BooksInv, Numbers
  <2>7. /\ pc[t] \notin Folding /\ pc'[t] \notin Folding
        /\ pc[t] \notin ForRecords /\ pc[t] \notin ForUnlogged /\ pc[t] \notin ForDropped
    BY <2>1 DEF Folding, ForRecords, ForUnlogged, ForDropped
  <2> QED BY <1>1, <1>3, <2>1, <2>2, <2>4, <2>5, <2>6, <2>7, BooksPassedOn
<1>8. CASE PushClaims(t) /\ Queue!Claim(t)
  <2>1. /\ UNCHANGED <<pc, held, slots, untracked, accounted, g_lastDropped, g_prevented,
                       g_observed, g_unlogged, dropped, dispatches, g_nextIncident>>
        /\ pc[t] = "pushing" /\ op[t] = "push" /\ op'[t] = "writing"
        /\ \A u \in Threads \ {t} : op'[u] = op[u]
    BY <1>1, <1>8 DEF PushClaims, Queue!Claim
  <2>2. Len(lane') = Len(lane) + 1
    BY <1>1, <1>8 DEF Queue!Claim
  <2>3. /\ t \notin Entered /\ t \notin Numbering /\ t \in Trying /\ t \in Unreported
        /\ t \notin Entered' /\ t \notin Numbering' /\ t \notin Trying' /\ t \notin Unreported'
    BY <2>1 DEF Entered, Numbering, Trying, Unreported
  <2>4. /\ Cardinality(Entered') = Cardinality(Entered)
        /\ Cardinality(Numbering') = Cardinality(Numbering)
        /\ Cardinality(Trying') = Cardinality(Trying) - 1 /\ Cardinality(Trying) \in Nat
        /\ Cardinality(Unreported') = Cardinality(Unreported) - 1
        /\ Cardinality(Unreported) \in Nat
    BY <1>4, <2>1, <2>3 DEF Recounted
  <2>5. Counted' = Counted
    BY <2>1 DEF Counted
  <2>6. Numbers'
    BY <1>3, <2>1, <2>4, <2>5 DEF BooksInv, Numbers
  <2>7. Loose' + Counted = Loose + Counted'
    BY <1>1, <1>3, <2>1, <2>2, <2>4, <2>5 DEF Loose
  <2>8. /\ pc[t] \notin Folding /\ pc'[t] \notin Folding /\ pc'[t] \in ForRecords
        /\ pc[t] \notin ForUnlogged /\ pc[t] \notin ForDropped
    BY <2>1 DEF Folding, ForRecords, ForUnlogged, ForDropped
  <2>9. Len(lane') \in Nat
    BY <1>1, <2>2
  <2> QED BY <1>1, <1>3, <2>1, <2>6, <2>7, <2>8, <2>9, BooksPassedOn
<1>9. CASE PushRefused(t)
  <2>1. /\ UNCHANGED <<lane, slots, untracked, accounted, g_lastDropped, g_prevented,
                       g_observed, g_unlogged, dispatches, g_nextIncident>>
        /\ pc[t] = "pushing" /\ pc'[t] = "missing" /\ op[t] = "refused" /\ op'[t] = "idle"
        /\ dropped' = dropped + 1
        /\ \A u \in Threads \ {t} : pc'[u] = pc[u] /\ op'[u] = op[u] /\ held'[u] = held[u]
    BY <1>1, <1>9 DEF PushRefused, Queue!CountDrop, Queue!Finish
  <2>2. /\ t \notin Entered /\ t \notin Numbering /\ t \in Trying /\ t \in Unreported
        /\ t \notin Entered' /\ t \notin Numbering' /\ t \notin Trying' /\ t \in Unreported'
    BY <2>1 DEF Entered, Numbering, Trying, Unreported
  <2>3. /\ Cardinality(Entered') = Cardinality(Entered)
        /\ Cardinality(Numbering') = Cardinality(Numbering)
        /\ Cardinality(Trying') = Cardinality(Trying) - 1 /\ Cardinality(Trying) \in Nat
        /\ Cardinality(Unreported') = Cardinality(Unreported)
    BY <1>4, <2>1, <2>2 DEF Recounted
  <2>4. Counted' = Counted /\ Loose' = Loose /\ dropped' \in Nat
    BY <1>3, <2>1, <2>3 DEF Counted, Loose
  <2>5. Numbers'
    BY <1>3, <2>1, <2>3, <2>4 DEF BooksInv, Numbers
  <2>6. /\ pc[t] \notin Folding /\ pc'[t] \notin Folding /\ pc'[t] \in ForRecords
        /\ pc[t] \notin ForUnlogged /\ pc'[t] \in ForDropped
    BY <2>1 DEF Folding, ForRecords, ForUnlogged, ForDropped
  <2> QED BY <1>1, <1>3, <2>1, <2>3, <2>4, <2>5, <2>6, BooksPassedOn
<1>10. CASE CountUnlogged(t)
  <2>1. /\ UNCHANGED <<op, held, lane, slots, untracked, accounted, g_lastDropped, g_prevented,
                       g_observed, dropped, dispatches, g_nextIncident>>
        /\ pc[t] = "missing" /\ pc'[t] = "waiting" /\ g_unlogged' = g_unlogged + 1
        /\ \A u \in Threads \ {t} : pc'[u] = pc[u]
    BY <1>1, <1>10 DEF CountUnlogged
  <2>2. op[t] \notin {"push", "refused", "copying"} /\ op'[t] = op[t]
    BY <1>2, <2>1
  <2>3. /\ t \notin Entered /\ t \notin Numbering /\ t \notin Trying /\ t \in Unreported
        /\ t \notin Entered' /\ t \notin Numbering' /\ t \notin Trying' /\ t \notin Unreported'
    BY <2>1, <2>2 DEF Entered, Numbering, Trying, Unreported
  <2>4. /\ Cardinality(Entered') = Cardinality(Entered)
        /\ Cardinality(Numbering') = Cardinality(Numbering)
        /\ Cardinality(Trying') = Cardinality(Trying)
        /\ Cardinality(Unreported') = Cardinality(Unreported) - 1
        /\ Cardinality(Unreported) \in Nat
    BY <1>4, <2>1, <2>2, <2>3 DEF Recounted
  <2>5. Counted' = Counted /\ g_unlogged' \in Nat
    BY <1>3, <2>1 DEF Counted
  <2>6. Numbers'
    BY <1>3, <2>1, <2>4, <2>5 DEF BooksInv, Numbers
  <2>7. Loose' + Counted = Loose + Counted'
    <3>1. Len(lane') = Len(lane) /\ g_unlogged' = g_unlogged + 1
      BY <2>1
    <3>2. Loose' = Loose
      BY <1>1, <1>3, <2>4, <3>1 DEF Loose
    <3> QED BY <2>5, <3>2
  <2>8. /\ pc[t] \notin Folding /\ pc'[t] \notin Folding /\ pc'[t] \in ForRecords
        /\ pc'[t] \in ForUnlogged /\ pc'[t] \in ForDropped
    BY <2>1 DEF Folding, ForRecords, ForUnlogged, ForDropped
  <2> QED BY <1>1, <1>3, <2>1, <2>2, <2>5, <2>6, <2>7, <2>8, BooksPassedOn
<1> QED BY <1>5, <1>6, <1>7, <1>8, <1>9, <1>10

(* A step of a drain moves no thread between the sets of the guard.        *)
LEMMA DrainKeeps ==
  ASSUME BooksInv, NEW t \in Threads,
         \A u \in Threads \ {t} : pc'[u] = pc[u] /\ op'[u] = op[u],
         pc[t] \in Draining \cup {"waiting"}, pc'[t] \in Draining \cup {"waiting"},
         op[t] \notin {"push", "refused"}, op'[t] \notin {"push", "refused"},
         UNCHANGED <<totals, dropped, g_nextIncident, dispatches>>,
         g_lastDropped' \in {g_lastDropped, dropped}
  PROVE  /\ Entered' = Entered /\ Numbering' = Numbering /\ Trying' = Trying
         /\ Unreported' = Unreported /\ Counted' = Counted
         /\ Numbers'
<1>1. Guards \subseteq Threads
  BY DEF Threads
<1>2. Entered' = Entered
  BY <1>1 DEF Entered, Draining
<1>3. Numbering' = Numbering
  BY <1>1 DEF Numbering, Draining
<1>4. Trying' = Trying
  BY <1>1 DEF Trying
<1>5. Unreported' = Unreported
  BY <1>1 DEF Unreported, Draining
<1>6. Counted' = Counted
  BY DEF Counted, totals
<1>7. Numbers'
  <2>1. CASE g_lastDropped' = g_lastDropped
    BY <1>2, <1>3, <1>4, <1>6, <2>1 DEF BooksInv, Numbers
  <2>2. CASE g_lastDropped' = dropped
    <3>1. dropped \in Nat
      BY DEF BooksInv, BookTypes
    <3> QED BY <1>2, <1>3, <1>4, <1>6, <2>2, <3>1 DEF BooksInv, Numbers
  <2> QED BY <2>1, <2>2
<1> QED BY <1>2, <1>3, <1>4, <1>5, <1>6, <1>7

LEMMA BooksAcquire ==
  ASSUME StrandInv, BooksInv, NEW t \in Threads, AcquireDrain(t)
  PROVE  BooksInv'
<1> USE DEF Goto, DrainLocal, queue, totals, reported
<1>1. /\ pc[t] = "waiting" /\ pc' = [pc EXCEPT ![t] = "announcing"] /\ pc'[t] = "announcing"
      /\ UNCHANGED <<op, held, lane, g_prevented, g_observed, dropped, g_nextIncident,
                     dispatches, g_unlogged, g_lastDropped, accounted>>
      /\ TableFacts!Reset
      /\ pc \in [Threads -> Locations]
  BY SameTable DEF AcquireDrain, StrandInv, GuardTypes
<1>2. op[t] \notin {"push", "refused", "copying"}
  BY <1>1 DEF StrandInv, Calls
<1>3. \A u \in Threads : pc[u] \notin Draining
  BY DEF StrandInv, OneDrain, AcquireDrain
<1>4. \A u \in Threads : pc[u] \notin Folding /\ pc[u] \notin {"popping", "logging"}
  BY <1>3 DEF Draining, Folding
<1>5. \A u \in Threads \ {t} : pc'[u] = pc[u]
  BY <1>1
<1>6. /\ Entered' = Entered /\ Numbering' = Numbering /\ Trying' = Trying
      /\ Unreported' = Unreported /\ Counted' = Counted
      /\ Numbers'
  BY <1>1, <1>2, <1>5, DrainKeeps DEF Draining
<1>7. /\ TableFacts!SlotsTyped' /\ TableFacts!Tallied' = {} /\ TableFacts!Used' = {}
      /\ untracked' = 0
  BY <1>1, TableFacts!TallyReset, GuardAssumption DEF TableFacts!Reset
<1>8. TableFacts!Used = {} /\ TableFacts!Tallied = {}
  <2>1. TableFacts!Used = {}
    BY <1>4 DEF BooksInv, TableInUse
  <2> QED BY <2>1, TableFacts!TallyEmpty, GuardAssumption DEF BooksInv, BookTypes
<1>9. Uncounted = 0 /\ Uncounted' = 0
  BY <1>4, <1>7 DEF Uncounted
<1>10. Copying' = Copying
  BY <1>1 DEF Copying
<1>11. BookTypes'
  BY <1>1, <1>6, <1>7, <1>10 DEF BooksInv, BookTypes
<1>12. Balance'
  <2>1. Stands' = Stands
    BY <1>1, <1>6, <1>7, <1>8, <1>9, <1>10 DEF Stands, Inside, Loose
  <2> QED BY <1>1, <1>6, <2>1 DEF BooksInv, Balance
<1>13. TableInUse'
  BY <1>7 DEF TableInUse
<1>14. Debts'
  <2>1. InTransit' => InTransit
    BY <1>1, <1>7, <1>9, <1>10 DEF InTransit
  <2>2. /\ pc'[t] \in ForRecords /\ pc'[t] \in ForUnlogged /\ pc'[t] \in ForDropped
    BY <1>1 DEF ForRecords, ForUnlogged, ForDropped
  <2> QED BY <1>1, <1>5, <2>1, <2>2, Elsewhere DEF BooksInv, Debts
<1> QED BY <1>6, <1>11, <1>12, <1>13, <1>14 DEF BooksInv

(* The record goes from the lane to the copy.                              *)
LEMMA BooksTake ==
  ASSUME StrandInv, BooksInv, NEW t \in Threads, PopTakes(t)
  PROVE  BooksInv'
<1> USE DEF DrainLocal, totals, reported, table
<1>1. /\ pc[t] = "popping" /\ op[t] = "pop" /\ op'[t] = "copying" /\ lane # << >>
      /\ lane' = Tail(lane) /\ held' = [held EXCEPT ![t] = Head(lane).incident]
      /\ UNCHANGED <<pc, slots, untracked, g_prevented, g_observed, dropped, g_nextIncident,
                     dispatches, g_unlogged, g_lastDropped, accounted>>
      /\ \A u \in Threads \ {t} : op'[u] = op[u] /\ held'[u] = held[u]
      /\ lane \in Seq(Entries) /\ held \in [Threads -> Records]
  BY DEF PopTakes, Queue!Take, Queue!HeadReady, StrandInv, GuardTypes
<1>2. /\ Entered' = Entered /\ Numbering' = Numbering /\ Trying' = Trying
      /\ Unreported' = Unreported /\ Counted' = Counted
      /\ Numbers'
  BY <1>1, DrainKeeps DEF Draining
<1>3. /\ TableFacts!Tallied' = TableFacts!Tallied /\ TableFacts!Used' = TableFacts!Used
      /\ (TableFacts!SlotsTyped <=> TableFacts!SlotsTyped') /\ Uncounted' = Uncounted
  BY <1>1 DEF TableFacts!Tallied, TableFacts!Used, TableFacts!SlotsTyped, Uncounted
<1>4. Recounted(Copying, Copying', t)
  BY <1>1, Moved DEF BooksInv
<1>5. /\ t \notin Copying /\ t \in Copying'
  BY <1>1 DEF Copying
<1>6. /\ Cardinality(Copying') = Cardinality(Copying) + 1 /\ Cardinality(Copying) \in Nat
      /\ IsFiniteSet(Copying')
  BY <1>4, <1>5 DEF Recounted
<1>7. held'[t] \in Incidents
  <2>1. Head(lane) \in Entries
    BY <1>1
  <2> QED BY <1>1, <2>1 DEF Entries
<1>8. BookTypes'
  BY <1>1, <1>2, <1>3, <1>6, <1>7 DEF BooksInv, BookTypes
<1>9. Balance'
  <2>1. Len(lane) \in Nat /\ Len(lane') = Len(lane) - 1
    BY <1>1
  <2>2. /\ Uncounted \in Nat /\ g_unlogged \in Nat /\ accounted \in Nat
        /\ Cardinality(TableFacts!Tallied) \in Nat
    BY TalliedIsNatural DEF BooksInv, BookTypes, Uncounted
  <2>3. Cardinality(Unreported) \in Nat
    BY FS_CardinalityType DEF BooksInv, BookTypes
  <2>4. Inside' = Inside + 1 /\ Inside \in Nat
    BY <1>3, <1>6, <2>2 DEF Inside
  <2>5. Loose' = Loose - 1 /\ Loose \in Nat
    BY <1>1, <1>2, <2>1, <2>2, <2>3 DEF Loose
  <2>6. Stands' = Stands
    BY <2>4, <2>5 DEF Stands
  <2> QED BY <1>1, <1>2, <2>6 DEF BooksInv, Balance
<1>10. TableInUse'
  BY <1>1, <1>3 DEF BooksInv, TableInUse
<1>11. Debts'
  <2>1. InTransit
    BY <1>1 DEF InTransit
  <2>2. \A places : Settling(places)' <=> Settling(places)
    BY <1>1 DEF Settling
  <2> QED BY <1>1, <2>1, <2>2 DEF BooksInv, Debts
<1> QED BY <1>2, <1>8, <1>9, <1>10, <1>11 DEF BooksInv

(* From the copy to the table: to a slot, or to untracked.                 *)
LEMMA BooksFold ==
  ASSUME StrandInv, BooksInv, NEW t \in Threads, PopFolds(t)
  PROVE  BooksInv'
<1> USE DEF DrainLocal, totals, reported
<1>1. /\ pc[t] = "popping" /\ op[t] = "copying" /\ op'[t] = "idle"
      /\ UNCHANGED <<pc, lane, g_prevented, g_observed, dropped, g_nextIncident,
                     dispatches, g_unlogged, g_lastDropped, accounted>>
      /\ \A u \in Threads \ {t} : op'[u] = op[u] /\ held'[u] = held[u]
      /\ Table!TryAdd(held[t])
  BY DEF PopFolds, Queue!Release, Queue!Finish, StrandInv, GuardTypes
<1>2. /\ Entered' = Entered /\ Numbering' = Numbering /\ Trying' = Trying
      /\ Unreported' = Unreported /\ Counted' = Counted
      /\ Numbers'
  BY <1>1, DrainKeeps DEF Draining
<1>3. held[t] \in Incidents /\ TableFacts!TryAdd(held[t]) /\ untracked \in Nat
  BY <1>1, SameTable DEF BooksInv, BookTypes
<1> DEFINE tally  == Cardinality(TableFacts!Tallied)
           copies == Cardinality(Copying)
<1>4. /\ TableFacts!SlotsTyped' /\ untracked' \in Nat /\ tally' \in Nat
      /\ tally' + untracked' <= tally + untracked + 1
      /\ tally + untracked < Limit => tally' + untracked' = tally + untracked + 1
  <2>1. TableFacts!SlotsTyped
    BY DEF BooksInv, BookTypes
  <2> QED BY <1>3, <2>1, TableFacts!TallyAdd, SameCardinality, GuardAssumption
<1>5. Recounted(Copying, Copying', t)
  BY <1>1, Moved DEF BooksInv
<1>6. t \in Copying /\ t \notin Copying'
  BY <1>1 DEF Copying
<1>7. /\ copies' = copies - 1 /\ copies \in Nat /\ copies' \in Nat /\ IsFiniteSet(Copying')
  BY <1>5, <1>6 DEF Recounted
<1>8. Uncounted = untracked /\ Uncounted' = untracked'
  BY <1>1 DEF Uncounted, Folding
<1>9. BookTypes'
  BY <1>1, <1>2, <1>4, <1>6, <1>7 DEF BooksInv, BookTypes
<1>10. Balance'
  <2>1. tally \in Nat /\ tally' \in Nat
    BY <1>4, TalliedIsNatural
  <2>2. Loose' = Loose
    BY <1>1, <1>2 DEF Loose
  <2>3. Loose \in Nat
    <3>1. Len(lane) \in Nat
      BY DEF StrandInv, GuardTypes
    <3>2. Cardinality(Unreported) \in Nat /\ g_unlogged \in Nat
      BY FS_CardinalityType DEF BooksInv, BookTypes
    <3> QED BY <3>1, <3>2 DEF Loose
  <2> HIDE DEF tally, copies
  <2>4. PICK ta \in Nat, un \in Nat : ta = tally' /\ un = untracked'
    BY <1>4, <2>1
  <2>5. Inside' = ta + un + (copies - 1)
    BY <1>7, <1>8, <2>4, Zenon DEF Inside, tally, copies
  <2>6. Inside = tally + untracked + copies
    BY <1>8, Zenon DEF Inside, tally, copies
  <2>7. /\ ta + un <= tally + untracked + 1
        /\ tally + untracked < Limit => ta + un = tally + untracked + 1
    BY <1>4, <2>4, Zenon
  <2>8. copies >= 1
    <3>1. copies # 0
      BY <1>6, FS_EmptySet DEF copies, BooksInv, BookTypes
    <3> QED BY <1>7, <3>1
  <2>9. /\ accounted \in Nat /\ Counted \in Nat /\ Limit \in Nat /\ MaxDispatches \in Nat
        /\ Counted <= MaxDispatches
    <3>1. dispatches \in Nat /\ Counted \in Nat /\ accounted \in Nat
      BY DEF BooksInv, BookTypes, Counted
    <3>2. Cardinality(Entered) \in Nat
      BY FS_CardinalityType DEF BooksInv, BookTypes
    <3> QED BY <3>1, <3>2, GuardAssumption DEF BooksInv, Numbers
  <2>10. /\ accounted + (tally + untracked + copies + Loose) <= Counted
         /\ MaxDispatches <= Limit => accounted + (tally + untracked + copies + Loose) = Counted
    BY <2>6, Zenon DEF BooksInv, Balance, Stands
  <2>11. /\ accounted + (ta + un + (copies - 1) + Loose) <= Counted
         /\ MaxDispatches <= Limit => accounted + (ta + un + (copies - 1) + Loose) = Counted
    BY <1>3, <1>7, <2>1, <2>3, <2>7, <2>8, <2>9, <2>10
  <2>12. Stands' = ta + un + (copies - 1) + Loose /\ accounted' = accounted
    BY <1>1, <2>2, <2>5, Zenon DEF Stands
  <2> QED BY <1>2, <2>11, <2>12, Zenon DEF Balance
<1>11. TableInUse'
  BY <1>1 DEF BooksInv, TableInUse, StrandInv, OneDrain, Draining
<1>12. Debts'
  <2>1. InTransit
    BY <1>6 DEF InTransit
  <2>2. \A places : Settling(places)' <=> Settling(places)
    BY <1>1 DEF Settling
  <2> QED BY <1>1, <2>1, <2>2 DEF BooksInv, Debts
<1> QED BY <1>2, <1>9, <1>10, <1>11, <1>12 DEF BooksInv

(* What the sums are made of.                                              *)
LEMMA BookNumbers ==
  ASSUME StrandInv, BooksInv
  PROVE  /\ Cardinality(TableFacts!Tallied) \in Nat /\ Uncounted \in Nat
         /\ Cardinality(Copying) \in Nat /\ Loose \in Nat /\ Inside \in Nat
         /\ accounted \in Nat /\ Counted \in Nat /\ Counted <= MaxDispatches
<1>1. Cardinality(TableFacts!Tallied) \in Nat /\ Uncounted \in Nat
  BY TalliedIsNatural DEF BooksInv, BookTypes, Uncounted
<1>2. Cardinality(Copying) \in Nat /\ Cardinality(Unreported) \in Nat /\ Cardinality(Entered) \in Nat
  BY FS_CardinalityType DEF BooksInv, BookTypes
<1>3. Len(lane) \in Nat /\ g_unlogged \in Nat /\ accounted \in Nat /\ Counted \in Nat
      /\ dispatches \in Nat
  BY DEF StrandInv, GuardTypes, BooksInv, BookTypes, Counted
<1>4. Loose \in Nat
  BY <1>2, <1>3 DEF Loose
<1>5. Inside \in Nat
  BY <1>1, <1>2 DEF Inside
<1>6. Counted <= MaxDispatches
  BY <1>2, <1>3, GuardAssumption DEF BooksInv, Numbers
<1> QED BY <1>1, <1>2, <1>3, <1>4, <1>5, <1>6

(* An aggregate leaves the table for the log, with all it stands for.      *)
LEMMA BooksLogAggregate ==
  ASSUME StrandInv, BooksInv, NEW t \in Threads, LogAggregate(t)
  PROVE  BooksInv'
<1> USE DEF DrainLocal, totals, queue
<1> DEFINE tally == Cardinality(TableFacts!Tallied)
           c     == slots[TableFacts!FirstOf(TableFacts!Used)].count
<1>1. /\ pc[t] = "logging" /\ accounted' = accounted + c
      /\ UNCHANGED <<pc, op, held, lane, untracked, g_prevented, g_observed, dropped,
                     g_nextIncident, dispatches, g_unlogged, g_lastDropped>>
      /\ TableFacts!TryPop /\ TableFacts!Used # {}
  BY SameTable DEF LogAggregate, Table!TryPop
<1>2. op[t] \notin {"push", "refused", "copying"}
  BY <1>1 DEF StrandInv, Calls
<1>3. /\ Entered' = Entered /\ Numbering' = Numbering /\ Trying' = Trying
      /\ Unreported' = Unreported /\ Counted' = Counted
      /\ Numbers'
  BY <1>1, <1>2, DrainKeeps DEF Draining
<1>4. /\ TableFacts!SlotsTyped' /\ c \in Nat /\ tally' \in Nat /\ tally' + c = tally
  <2>1. TableFacts!SlotsTyped
    BY DEF BooksInv, BookTypes
  <2> QED BY <1>1, <2>1, TableFacts!TallyPop, SameCardinality, GuardAssumption
<1> HIDE DEF c, tally
<1>5. /\ Copying' = Copying /\ Uncounted' = Uncounted /\ Loose' = Loose
  BY <1>1, <1>3 DEF Copying, Uncounted, Loose
<1>6. /\ tally \in Nat /\ Uncounted \in Nat /\ Cardinality(Copying) \in Nat
      /\ Loose \in Nat /\ accounted \in Nat /\ Counted \in Nat
  BY BookNumbers DEF tally
<1>7. accounted' \in Nat
  BY <1>1, <1>4, <1>6
<1>8. BookTypes'
  BY <1>1, <1>3, <1>4, <1>5, <1>7 DEF BooksInv, BookTypes
<1>9. Balance'
  <2>1. PICK left \in Nat : left = tally'
    BY <1>4
  <2>2. left + c = tally
    BY <1>4, <2>1, Zenon
  <2>3. Stands' = left + Uncounted + Cardinality(Copying) + Loose
    BY <1>5, <2>1, Zenon DEF Stands, Inside, tally
  <2>4. Stands = tally + Uncounted + Cardinality(Copying) + Loose
    BY Zenon DEF Stands, Inside, tally
  <2>5. (accounted + c) + (left + Uncounted + Cardinality(Copying) + Loose)
          = accounted + (tally + Uncounted + Cardinality(Copying) + Loose)
    BY <1>4, <1>6, <2>2
  <2>6. accounted' + Stands' = accounted + Stands
    BY <1>1, <2>3, <2>4, <2>5, Zenon
  <2> QED BY <1>3, <2>6, Zenon DEF BooksInv, Balance
<1>10. TableInUse'
  BY <1>1 DEF BooksInv, TableInUse
<1>11. Debts'
  <2>1. InTransit
    BY <1>1 DEF InTransit
  <2>2. \A places : Settling(places)' <=> Settling(places)
    BY <1>1 DEF Settling
  <2> QED BY <1>1, <2>1, <2>2 DEF BooksInv, Debts
<1> QED BY <1>3, <1>8, <1>9, <1>10, <1>11 DEF BooksInv

(* The counters of what was not kept, read and reset: what is left is in   *)
(* the lane, and whoever owes the oldest record is about to wait.          *)
LEMMA BooksLogUncountable ==
  ASSUME StrandInv, BooksInv, NEW t \in Threads, LogUncountable(t)
  PROVE  BooksInv'
<1> USE DEF Goto, DrainLocal, totals, queue, table
<1>1. /\ pc[t] = "logging" /\ pc'[t] = "comparing" /\ \A u \in Threads \ {t} : pc'[u] = pc[u]
      /\ accounted' = accounted + untracked + g_unlogged /\ g_unlogged' = 0
      /\ UNCHANGED <<op, held, lane, slots, untracked, g_prevented, g_observed, dropped,
                     g_nextIncident, dispatches, g_lastDropped>>
      /\ TableFacts!Used = {} /\ pc \in [Threads -> Locations]
  BY SameTable DEF LogUncountable, StrandInv, GuardTypes
<1>2. op[t] \notin {"push", "refused", "copying"}
  BY <1>1 DEF StrandInv, Calls
<1>3. /\ Entered' = Entered /\ Numbering' = Numbering /\ Trying' = Trying
      /\ Unreported' = Unreported /\ Counted' = Counted
      /\ Numbers'
  BY <1>1, <1>2, DrainKeeps DEF Draining
<1>4. \A u \in Threads \ {t} : pc[u] \notin Draining
  BY <1>1 DEF StrandInv, OneDrain, Draining
<1>5. /\ \A u \in Threads : pc'[u] \notin Folding
      /\ \A u \in Threads : pc'[u] \notin {"popping", "logging"}
  BY <1>1, <1>4 DEF Draining, Folding
<1>6. /\ TableFacts!Tallied' = TableFacts!Tallied /\ TableFacts!Used' = TableFacts!Used
      /\ (TableFacts!SlotsTyped <=> TableFacts!SlotsTyped') /\ Copying' = Copying
  BY <1>1 DEF TableFacts!Tallied, TableFacts!Used, TableFacts!SlotsTyped, Copying
<1>7. Copying = {}
  BY <1>1, <1>4 DEF Copying, StrandInv, Calls, Draining
<1>8. Uncounted = untracked /\ Uncounted' = 0
  BY <1>1, <1>5 DEF Uncounted, Folding
<1>9. /\ Cardinality(TableFacts!Tallied) \in Nat /\ Cardinality(Copying) \in Nat
      /\ accounted \in Nat /\ Counted \in Nat /\ untracked \in Nat /\ g_unlogged \in Nat
  BY BookNumbers DEF BooksInv, BookTypes
<1>10. accounted' \in Nat
  BY <1>1, <1>9
<1>11. BookTypes'
  BY <1>1, <1>3, <1>6, <1>10 DEF BooksInv, BookTypes
<1>12. Balance'
  <2>1. Len(lane) \in Nat /\ Cardinality(Unreported) \in Nat
    BY FS_CardinalityType DEF StrandInv, GuardTypes, BooksInv, BookTypes
  <2> DEFINE rest == Cardinality(TableFacts!Tallied) + Cardinality(Copying)
                       + Len(lane) + Cardinality(Unreported)
  <2>2. Stands' = rest
    BY <1>1, <1>3, <1>6, <1>8, <1>9, <2>1 DEF Stands, Inside, Loose
  <2>3. Stands = rest + untracked + g_unlogged
    BY <1>8, <1>9, <2>1 DEF Stands, Inside, Loose
  <2>4. rest \in Nat
    BY <1>9, <2>1
  <2> HIDE DEF rest
  <2>5. (accounted + untracked + g_unlogged) + rest = accounted + (rest + untracked + g_unlogged)
    BY <1>9, <2>4
  <2>6. accounted' + Stands' = accounted + Stands
    BY <1>1, <2>2, <2>3, <2>5, Zenon
  <2> QED BY <1>3, <2>6, Zenon DEF BooksInv, Balance
<1>13. TableInUse'
  BY <1>1, <1>4, <1>6 DEF TableInUse, Draining
<1>14. Debts'
  <2>1. InTransit' => Settling(ForRecords)'
    <3>1. SUFFICES ASSUME lane # << >> PROVE Settling(ForRecords)'
      BY <1>1, <1>6, <1>7, <1>8 DEF InTransit
    <3>2. 1 \in 1 .. Len(lane)
      BY <3>1 DEF StrandInv, GuardTypes
    <3> DEFINE v == lane[1].incident.threadId
    <3>3. v \in Guards /\ v \in Threads
      BY <3>2, EntryTypes DEF StrandInv
    <3>4. op[v] = "writing" \/ pc[v] \in {"waiting"}
      BY <1>1, <1>4, <3>1 DEF StrandInv, LaneInv, HeadOwes, Owes, Scanning, Draining
    <3> HIDE DEF v
    <3>5. pc[v] = "pushing" \/ pc[v] = "waiting"
      BY <3>3, <3>4 DEF StrandInv, Calls
    <3>6. pc'[v] \in ForRecords
      BY <1>1, <3>3, <3>5 DEF ForRecords
    <3> QED BY <3>3, <3>6 DEF Settling
  <2>2. g_lastDropped' # dropped' => Settling(ForDropped)'
    <3>1. /\ \A u \in Threads \ {t} : pc'[u] = pc[u]
          /\ t \in Guards /\ pc[t] \in ForDropped => pc'[t] \in ForDropped
      BY <1>1 DEF ForDropped
    <3> QED BY <1>1, <3>1, Elsewhere DEF BooksInv, Debts
  <2> QED BY <1>1, <2>1, <2>2 DEF Debts
<1> QED BY <1>3, <1>11, <1>12, <1>13, <1>14 DEF BooksInv

LEMMA BooksCompare ==
  ASSUME StrandInv, BooksInv, NEW t \in Threads, CompareDropped(t)
  PROVE  BooksInv'
<1> USE DEF Goto, DrainLocal, totals, queue, table
<1>1. /\ pc[t] = "comparing" /\ pc'[t] = "releasing" /\ \A u \in Threads \ {t} : pc'[u] = pc[u]
      /\ g_lastDropped' = dropped
      /\ UNCHANGED <<op, held, lane, slots, untracked, g_prevented, g_observed, dropped,
                     g_nextIncident, dispatches, g_unlogged, accounted>>
      /\ pc \in [Threads -> Locations]
  BY DEF CompareDropped, StrandInv, GuardTypes
<1>2. op[t] \notin {"push", "refused", "copying"}
  BY <1>1 DEF StrandInv, Calls
<1>3. /\ Entered' = Entered /\ Numbering' = Numbering /\ Trying' = Trying
      /\ Unreported' = Unreported /\ Counted' = Counted
      /\ Numbers'
  BY <1>1, <1>2, DrainKeeps DEF Draining
<1>4. /\ TableFacts!Tallied' = TableFacts!Tallied /\ TableFacts!Used' = TableFacts!Used
      /\ (TableFacts!SlotsTyped <=> TableFacts!SlotsTyped') /\ Copying' = Copying
  BY <1>1 DEF TableFacts!Tallied, TableFacts!Used, TableFacts!SlotsTyped, Copying
<1>5. Uncounted' = Uncounted
  <2>1. (\E u \in Threads : pc'[u] \in Folding) <=> (\E u \in Threads : pc[u] \in Folding)
    BY <1>1 DEF Folding
  <2> QED BY <1>1, <2>1 DEF Uncounted
<1>6. BookTypes'
  BY <1>1, <1>3, <1>4 DEF BooksInv, BookTypes
<1>7. Balance'
  <2>1. Stands' = Stands
    BY <1>1, <1>3, <1>4, <1>5 DEF Stands, Inside, Loose
  <2> QED BY <1>1, <1>3, <2>1 DEF BooksInv, Balance
<1>8. TableInUse'
  BY <1>1, <1>4 DEF BooksInv, TableInUse
<1>9. Debts'
  <2>1. InTransit' = InTransit
    BY <1>1, <1>4, <1>5 DEF InTransit
  <2>2. /\ t \in Guards /\ pc[t] \in ForRecords => pc'[t] \in ForRecords
        /\ t \in Guards /\ pc[t] \in ForUnlogged => pc'[t] \in ForUnlogged
    BY <1>1 DEF ForRecords, ForUnlogged
  <2> QED BY <1>1, <2>1, <2>2, Elsewhere DEF BooksInv, Debts
<1> QED BY <1>3, <1>6, <1>7, <1>8, <1>9 DEF BooksInv

LEMMA BooksDrain ==
  ASSUME StrandInv, BooksInv, NEW t \in Threads, Drain(t) \/ AcquireDrain(t)
  PROVE  BooksInv'
BY BooksQuietDrain, BooksAcquire, BooksTake, BooksFold, BooksLogAggregate,
   BooksLogUncountable, BooksCompare DEF Drain

LEMMA BooksGuarded ==
  ASSUME StrandInv, BooksInv, NEW t \in Guards, Dispatch(t) \/ Guarded(t)
  PROVE  BooksInv'
<1>1. CASE PushClaims(t)
  <2>1. Queue!Claim(t) \/ Queue!Refuse(t)
    BY <1>1 DEF PushClaims
  <2> QED BY <1>1, <2>1, BooksCount, BooksQuietGuard
<1>2. CASE Dispatch(t) \/ (Guarded(t) /\ ~PushClaims(t))
  BY <1>2, BooksCount, BooksQuietGuard DEF Guarded
<1> QED BY <1>1, <1>2

LEMMA BooksStep == ASSUME StrandInv, BooksInv, [Next]_vars PROVE BooksInv'
<1>1. CASE UNCHANGED vars
  <2>1. UNCHANGED <<lane, dropped, op, held, slots, untracked, pc, g_prevented, g_observed,
                    g_unlogged, g_lastDropped, accounted, g_nextIncident, dispatches>>
    BY <1>1 DEF vars, queue, table, totals, reported
  <2>2. /\ UNCHANGED <<Entered, Numbering, Trying, Unreported, Copying, Counted, Uncounted>>
        /\ UNCHANGED <<TableFacts!Tallied, TableFacts!Used, ForRecords, ForUnlogged, ForDropped>>
        /\ (TableFacts!SlotsTyped <=> TableFacts!SlotsTyped')
    BY <2>1 DEF Entered, Numbering, Trying, Unreported, Copying, Counted, Uncounted,
                TableFacts!Tallied, TableFacts!Used, TableFacts!SlotsTyped,
                ForRecords, ForUnlogged, ForDropped
  <2>3. BookTypes' /\ Numbers'
    BY <2>1, <2>2 DEF BooksInv, BookTypes, Numbers
  <2>4. Balance'
    BY <2>1, <2>2 DEF BooksInv, Balance, Stands, Inside, Loose
  <2>5. TableInUse'
    BY <2>1, <2>2 DEF BooksInv, TableInUse
  <2>6. Debts'
    BY <2>1, <2>2 DEF BooksInv, Debts, Settling, InTransit
  <2> QED BY <2>3, <2>4, <2>5, <2>6 DEF BooksInv
<1>2. Guards \subseteq Threads /\ Ticks \subseteq Threads
  BY DEF Threads
<1>3. CASE \E t \in Guards : Enter(t) \/ GuardStep(t) \/ Acquire(t)
  BY <1>2, <1>3, BooksGuarded, BooksDrain DEF Enter, GuardStep, Acquire
<1>4. CASE \E t \in Ticks : TickStep(t)
  BY <1>2, <1>4, BooksQuietDrain, BooksDrain DEF TickStep
<1> QED BY <1>1, <1>3, <1>4 DEF Next, Dead

BooksHold == StrandInv /\ WorkingInv /\ BooksInv

LEMMA BooksAlways == Spec => []BooksHold
<1>1. Init => BooksHold
  BY StrandInit, WorkingInit, BooksInit DEF BooksHold
<1>2. BooksHold /\ [Next]_vars => BooksHold'
  BY StrandStep, WorkingStep, BooksStep DEF BooksHold
<1> QED BY <1>1, <1>2, PTL DEF Spec

(* The log never reports more incidents than the totals it prints count:   *)
(* what is written, and what is still on its way, was counted before       *)
(* (SaveLoadGuard.cpp:262-271, 212-254).                                   *)
THEOREM NeverOverreportedHolds == Spec => []NeverOverreported
<1>1. BooksHold => NeverOverreported
  <2>1. SUFFICES ASSUME BooksHold PROVE NeverOverreported
    OBVIOUS
  <2>2. Inside \in Nat /\ Loose \in Nat /\ accounted \in Nat /\ Counted \in Nat
    BY <2>1, BookNumbers DEF BooksHold
  <2>3. accounted <= Counted
    BY <2>1, <2>2 DEF BooksHold, BooksInv, Balance, Stands
  <2> QED BY <2>3 DEF NeverOverreported, Counted
<1> QED BY <1>1, BooksAlways, PTL

(* Once no engine thread is inside the guard, the log accounts for every   *)
(* incident that was counted, and nothing waits in the queue: every debt   *)
(* has an engine thread inside, and the balance then has nothing else to   *)
(* stand for it (SaveLoadGuard.cpp:199-254, 439-451).  The bound keeps the *)
(* coalescer below its saturation, where it stops counting by design.      *)
THEOREM AccountedHolds ==
  ASSUME MaxDispatches <= Limit
  PROVE  Spec => []AccountedAtRest
<1>1. BooksHold => AccountedAtRest
  <2>1. SUFFICES ASSUME BooksHold, GuardsOutside
                 PROVE  /\ accounted = Counted /\ lane = << >>
                        /\ g_unlogged = 0 /\ g_lastDropped = dropped
    BY DEF AccountedAtRest, Counted
  <2>2. /\ ~Settling(ForRecords) /\ ~Settling(ForUnlogged) /\ ~Settling(ForDropped)
    BY <2>1 DEF GuardsOutside, Settling, ForRecords, ForUnlogged, ForDropped
  <2>3. /\ lane = << >> /\ TableFacts!Used = {} /\ Copying = {} /\ Uncounted = 0
        /\ g_unlogged = 0 /\ g_lastDropped = dropped
    BY <2>1, <2>2 DEF BooksHold, BooksInv, Debts, InTransit
  <2>4. Unreported = {}
    BY <2>1 DEF GuardsOutside, Unreported, BooksHold, StrandInv, Calls, Threads
  <2>5. TableFacts!Tallied = {}
    BY <2>1, <2>3, TableFacts!TallyEmpty, GuardAssumption DEF BooksHold, BooksInv, BookTypes
  <2>6. Cardinality({}) = 0 /\ Len(<< >>) = 0
    BY FS_EmptySet
  <2>7. Stands = 0
    BY <2>3, <2>4, <2>5, <2>6 DEF Stands, Inside, Loose
  <2>8. accounted = Counted
    BY <2>1, <2>7, BookNumbers DEF BooksHold, BooksInv, Balance
  <2> QED BY <2>3, <2>8
<1> QED BY <1>1, BooksAlways, PTL

(* The flags, of which no other argument depends on all.                   *)
Flags == prevention \in BOOLEAN /\ alive \in BOOLEAN /\ g_draining \in BOOLEAN

LEMMA FlagsStep == ASSUME Flags, [Next]_vars PROVE Flags'
<1> USE DEF Flags
<1>1. CASE UNCHANGED vars
  BY <1>1 DEF vars, fixed
<1>2. ASSUME NEW t, Drain(t) \/ AcquireDrain(t) \/ Tick(t) \/ SkipDrain(t)
      PROVE  alive' = alive /\ g_draining' \in BOOLEAN
  BY <1>2 DEF Drain, AcquireDrain, Tick, SkipDrain, AnnounceWorking, PopStarts, PopTakes, PopFolds,
              PopFindsNothing, PopBudgetSpent, LogAggregate, LogUncountable, CompareDropped,
              ReleaseDrain, DrainLocal
<1>3. ASSUME NEW t, Dispatch(t) \/ Guarded(t)
      PROVE  alive' \in BOOLEAN /\ g_draining' = g_draining
  BY <1>3 DEF Dispatch, Guarded, Reject, Accept, CallReturns, CallReturnsUnreadable, CallFaults,
              CallEscapes, CountIncident, QueueIncident, PushClaims, Pushed, PushRefused,
              CountUnlogged, LocalStep, QueueStep
<1> QED BY <1>1, <1>2, <1>3 DEF Next, Enter, GuardStep, Acquire, TickStep, Dead, fixed

(* Every variable keeps its type, and no counter outgrows the number of    *)
(* hooked calls (SaveLoadGuard.cpp:199-271).                               *)
THEOREM GuardTypeOK == Spec => []TypeOK
<1>1. BooksHold /\ Flags => TypeOK
  <2>1. SUFFICES ASSUME BooksHold, Flags PROVE TypeOK
    OBVIOUS
  <2>2. ASSUME NEW k \in 1 .. Len(lane)
        PROVE  lane[k].incident \in Incidents /\ lane[k].ready \in BOOLEAN
    BY <2>1, EntryTypes DEF BooksHold, StrandInv, Entries
  <2>3. /\ Inside \in Nat /\ Loose \in Nat /\ accounted \in Nat /\ Counted \in Nat
        /\ Counted <= MaxDispatches
    BY <2>1, BookNumbers DEF BooksHold
  <2>4. accounted \in 0 .. MaxDispatches
    BY <2>1, <2>3, GuardAssumption DEF BooksHold, BooksInv, Balance, Stands
  <2>5. g_prevented \in 0 .. MaxDispatches /\ g_observed \in 0 .. MaxDispatches
    BY <2>1, <2>3, GuardAssumption DEF BooksHold, BooksInv, BookTypes, Counted
  <2>6. g_unlogged \in 0 .. MaxDispatches
    <3>1. /\ g_unlogged \in Nat /\ Len(lane) \in Nat /\ Cardinality(Unreported) \in Nat
      BY <2>1, FS_CardinalityType DEF BooksHold, BooksInv, BookTypes, StrandInv, GuardTypes
    <3>2. g_unlogged <= Loose
      BY <3>1 DEF Loose
    <3>3. accounted + (Inside + Loose) <= Counted
      BY <2>1 DEF BooksHold, BooksInv, Balance, Stands
    <3> QED BY <2>3, <3>1, <3>2, <3>3, GuardAssumption
  <2>7. g_lastDropped \in 0 .. MaxDispatches /\ g_nextIncident \in 1 .. MaxDispatches + 1
    <3>1. /\ Cardinality(Numbering) \in Nat /\ Cardinality(Trying) \in Nat
          /\ g_nextIncident \in Nat /\ dropped \in Nat /\ g_lastDropped \in Nat
      BY <2>1, FS_CardinalityType DEF BooksHold, BooksInv, BookTypes
    <3>2. /\ g_nextIncident - 1 + Cardinality(Numbering) = Counted
          /\ dropped + Cardinality(Trying) <= g_nextIncident - 1
          /\ g_lastDropped <= dropped
      BY <2>1 DEF BooksHold, BooksInv, Numbers
    <3> QED BY <2>3, <3>1, <3>2, GuardAssumption
  <2>8. /\ pc \in [Threads -> Locations] /\ processed \in 0 .. N /\ Len(lane) <= N
        /\ g_workingPending \in BOOLEAN /\ g_workingLogged \in BOOLEAN
    BY <2>1 DEF BooksHold, StrandInv, GuardTypes, WorkingInv
  <2> QED BY <2>1, <2>2, <2>4, <2>5, <2>6, <2>7, <2>8 DEF TypeOK, Flags
<1>2. Init => Flags
  BY DEF Init, Flags
<1>3. Flags /\ [Next]_vars => Flags'
  BY FlagsStep
<1> QED BY <1>1, <1>2, <1>3, BooksAlways, PTL DEF Spec
=============================================================================
