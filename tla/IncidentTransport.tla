-------------------------- MODULE IncidentTransport --------------------------
(***************************************************************************)
(* What TypedIncidentQueue promises its callers, without its ring.         *)
(*                                                                         *)
(* A push takes the next ticket (Claim) and makes the record visible later *)
(* (Publish); tickets are handed out in one total order, publications      *)
(* happen in any order.  A pop removes the oldest ticket, and only once    *)
(* that ticket has been published; while the record is being copied out    *)
(* (Release not yet taken) its place still counts as occupied.  A push     *)
(* that meets an occupied place is refused and counted, it never waits.    *)
(*                                                                         *)
(* The queue is therefore not a linearizable FIFO: a pop may report        *)
(* "empty" although a later push has already returned, as long as an       *)
(* earlier one has not been published, and a push may be refused although  *)
(* fewer than N records are waiting.  Both are allowed here on purpose:    *)
(* they are what the callers in SaveLoadGuard.cpp have to live with.       *)
(***************************************************************************)
EXTENDS Integers, Sequences

CONSTANTS Threads,      (* callers of TryPush and TryPop                    *)
          Incidents,    (* records that can be pushed                       *)
          NoIncident,   (* "no record": the local of a thread not in a call *)
          N             (* capacity of the ring                             *)

VARIABLES lane,         (* tickets claimed and not taken, oldest first      *)
          first,        (* number of the oldest ticket in the lane          *)
          dropped,      (* refused pushes that have been counted            *)
          op,           (* what each thread's call is doing                 *)
          at,           (* the ticket a writing or copying thread owns      *)
          held          (* the record a thread is moving in or out          *)

transportVars == <<lane, first, dropped, op, at, held>>

(* The ticket the next successful push will get.                           *)
NextTicket == first + Len(lane)

(* The place of the next ticket is occupied while the ticket one full lap  *)
(* behind it is still waiting or still being copied out.                   *)
Occupied ==
  \/ Len(lane) >= N
  \/ \E t \in Threads : op[t] = "copying" /\ at[t] + N = NextTicket

HeadReady == lane # << >> /\ Head(lane).ready

Finish(t) ==
  /\ op'   = [op EXCEPT ![t] = "idle"]
  /\ at'   = [at EXCEPT ![t] = 0]
  /\ held' = [held EXCEPT ![t] = NoIncident]

TransportInit ==
  /\ lane    = << >>
  /\ first   = 0
  /\ dropped = 0
  /\ op      = [t \in Threads |-> "idle"]
  /\ at      = [t \in Threads |-> 0]
  /\ held    = [t \in Threads |-> NoIncident]

CallPush(t, i) ==
  /\ op[t] = "idle"
  /\ op'   = [op EXCEPT ![t] = "push"]
  /\ held' = [held EXCEPT ![t] = i]
  /\ UNCHANGED <<lane, first, dropped, at>>

Claim(t) ==
  /\ op[t] = "push"
  /\ ~Occupied
  /\ lane' = Append(lane, [incident |-> held[t], ready |-> FALSE])
  /\ op'   = [op EXCEPT ![t] = "writing"]
  /\ at'   = [at EXCEPT ![t] = NextTicket]
  /\ UNCHANGED <<first, dropped, held>>

Publish(t) ==
  /\ op[t] = "writing"
  /\ lane' = [lane EXCEPT ![at[t] - first + 1].ready = TRUE]
  /\ Finish(t)
  /\ UNCHANGED <<first, dropped>>

Refuse(t) ==
  /\ op[t] = "push"
  /\ Occupied
  /\ op' = [op EXCEPT ![t] = "refused"]
  /\ UNCHANGED <<lane, first, dropped, at, held>>

CountDrop(t) ==
  /\ op[t] = "refused"
  /\ dropped' = dropped + 1
  /\ Finish(t)
  /\ UNCHANGED <<lane, first>>

CallPop(t) ==
  /\ op[t] = "idle"
  /\ op' = [op EXCEPT ![t] = "pop"]
  /\ UNCHANGED <<lane, first, dropped, at, held>>

Take(t) ==
  /\ op[t] = "pop"
  /\ HeadReady
  /\ lane'  = Tail(lane)
  /\ first' = first + 1
  /\ op'    = [op EXCEPT ![t] = "copying"]
  /\ at'    = [at EXCEPT ![t] = first]
  /\ held'  = [held EXCEPT ![t] = Head(lane).incident]
  /\ UNCHANGED dropped

FindNothing(t) ==
  /\ op[t] = "pop"
  /\ ~HeadReady
  /\ Finish(t)
  /\ UNCHANGED <<lane, first, dropped>>

Release(t) ==
  /\ op[t] = "copying"
  /\ Finish(t)
  /\ UNCHANGED <<lane, first, dropped>>

TransportStep(t) ==
  \/ \E i \in Incidents : CallPush(t, i)
  \/ Claim(t)   \/ Publish(t)
  \/ Refuse(t)  \/ CountDrop(t)
  \/ CallPop(t) \/ Take(t) \/ FindNothing(t) \/ Release(t)

TransportNext == \E t \in Threads : TransportStep(t)

TransportSpec == TransportInit /\ [][TransportNext]_transportVars
=============================================================================
