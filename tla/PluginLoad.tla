------------------------------ MODULE PluginLoad ------------------------------
(***************************************************************************)
(* F4SEPlugin_Load in several game processes on one machine: each reserves *)
(* a numbered log file (Platform/Logging.cpp), reads the INI they share    *)
(* (Configuration.cpp) and registers its message handler.  A process can   *)
(* die at any point; starting the game again is another process.           *)
(***************************************************************************)
EXTENDS Configuration

CONSTANTS Processes,
          Inis,                        (* contents the INI may have         *)
          MaximumLogNumber,            (* 1000000                           *)
          MaxDeletions                 (* bound on Delete                   *)

ASSUME PluginAssumption ==
  /\ Inis \subseteq Seq(Lines)
  /\ MaximumLogNumber \in Nat \ {0}
  /\ MaxDeletions \in Nat

Numbers == 1 .. MaximumLogNumber
None == 0

VARIABLES
  ini,                        (* lines of SaveLoadGuardF4.ini              *)
  files,                      (* numbers whose file exists                 *)
  writers,                    (* whose lines a file holds                  *)
  pc, number,                 (* per process: where in Load; the file probed *)
  logger,                     (* the file it has open, or None             *)
  g_configuration,
  readTo, interrupted,        (* lines it read; whether an exception ended it *)
  unguarded, deletions        (* numbers deleted while reserved but not open *)

disk == <<files, writers, unguarded, deletions>>
settings == <<g_configuration, readTo, interrupted>>
vars == <<ini, disk, pc, number, logger, settings>>

Init ==
  /\ ini \in Inis
  /\ files = {} /\ writers = [n \in Numbers |-> {}]
  /\ pc = [p \in Processes |-> "off"]
  /\ number = [p \in Processes |-> 1]
  /\ logger = [p \in Processes |-> None]
  /\ g_configuration = [p \in Processes |-> Defaults]
  /\ readTo = [p \in Processes |-> 0]
  /\ interrupted = [p \in Processes |-> FALSE]
  /\ unguarded = {} /\ deletions = 0

Goto(p, from, to) ==
  /\ pc[p] = from
  /\ pc' = [pc EXCEPT ![p] = to]

(* A line to the log is written and flushed at once; without a logger it   *)
(* is dropped.                                                             *)
WriteLog(p) ==
  writers' = [n \in Numbers |-> IF n = logger[p] THEN writers[n] \cup {p} ELSE writers[n]]

-----------------------------------------------------------------------------
(* InitializeLogging.                                                      *)

LogStep == UNCHANGED <<ini, settings, unguarded, deletions>>

(* The interface and the loader's version pass their checks.               *)
Enter(p) ==
  /\ Goto(p, "off", "probing")
  /\ UNCHANGED <<files, writers, number, logger>>
  /\ LogStep

(* No interface, or a loader older than the layout the plugin knows.       *)
Reject(p) ==
  /\ Goto(p, "off", "refused")
  /\ UNCHANGED <<files, writers, number, logger>>
  /\ LogStep

(* Variant: CREATE_ALWAYS.                                                 *)
ReserveAnyway(p) ==
  /\ Goto(p, "probing", "opening")
  /\ files' = files \cup {number[p]}
  /\ writers' = [writers EXCEPT ![number[p]] = {}]
  /\ UNCHANGED <<number, logger>>
  /\ LogStep

(* CREATE_NEW decides and creates in one step; the handle is closed.       *)
Reserve(p) ==
  /\ Goto(p, "probing", "opening")
  /\ number[p] \notin files
  /\ files' = files \cup {number[p]}
  /\ UNCHANGED <<writers, number, logger>>
  /\ LogStep

Taken(p) ==
  /\ pc[p] = "probing"
  /\ number[p] \in files
  /\ number[p] < MaximumLogNumber
  /\ number' = [number EXCEPT ![p] = @ + 1]
  /\ UNCHANGED <<pc, files, writers, logger>>
  /\ LogStep

(* The last number is taken, the folder cannot be had, or the file cannot  *)
(* be created for another reason: the plugin goes on without a log.        *)
LoggingFails(p) ==
  /\ Goto(p, "probing", "configuring")
  /\ UNCHANGED <<files, writers, number, logger>>
  /\ LogStep

(* Variant: the sink truncates.                                            *)
OpenTruncating(p) ==
  /\ Goto(p, "opening", "configuring")
  /\ logger' = [logger EXCEPT ![p] = number[p]]
  /\ files' = files \cup {number[p]}
  /\ writers' = [writers EXCEPT ![number[p]] = {}]
  /\ UNCHANGED number
  /\ LogStep

(* The sink opens the name again, to append; a file deleted meanwhile is   *)
(* created again.                                                          *)
Open(p) ==
  /\ Goto(p, "opening", "configuring")
  /\ logger' = [logger EXCEPT ![p] = number[p]]
  /\ files' = files \cup {number[p]}
  /\ UNCHANGED <<writers, number>>
  /\ LogStep

OpenFails(p) ==
  /\ Goto(p, "opening", "configuring")
  /\ UNCHANGED <<files, writers, number, logger>>
  /\ LogStep

-----------------------------------------------------------------------------
(* LoadConfiguration, the line that reports it, and the listener.          *)

(* The file may end early: no path, no file, or a stream that fails reads  *)
(* like an end; an exception does not.                                     *)
LoadConfiguration(p) ==
  /\ Goto(p, "configuring", "registering")
  /\ \E k \in 0 .. Len(ini), thrown \in BOOLEAN :
       /\ readTo' = [readTo EXCEPT ![p] = k]
       /\ interrupted' = [interrupted EXCEPT ![p] = thrown]
       /\ g_configuration' = [g_configuration EXCEPT ![p] =
            IF thrown THEN Interrupted(SubSeq(ini, 1, k)) ELSE Finished(SubSeq(ini, 1, k))]
  /\ WriteLog(p)
  /\ UNCHANGED <<ini, files, number, logger, unguarded, deletions>>

Register(p) ==
  /\ Goto(p, "registering", "listening")
  /\ UNCHANGED <<ini, disk, number, logger, settings>>

(* The messaging interface is missing, too old, or refuses the listener.   *)
RegisterFails(p) ==
  /\ Goto(p, "registering", "refused")
  /\ WriteLog(p)
  /\ UNCHANGED <<ini, files, number, logger, settings, unguarded, deletions>>

-----------------------------------------------------------------------------
(* The world outside.                                                      *)

(* The process ends, crashed or not; the system closes its file.           *)
End(p) ==
  /\ pc[p] \notin {"off", "ended"}
  /\ pc' = [pc EXCEPT ![p] = "ended"]
  /\ logger' = [logger EXCEPT ![p] = None]
  /\ g_configuration' = [g_configuration EXCEPT ![p] = Defaults]
  /\ readTo' = [readTo EXCEPT ![p] = 0]
  /\ interrupted' = [interrupted EXCEPT ![p] = FALSE]
  /\ UNCHANGED <<ini, disk, number>>

(* Somebody cleans up.  A file that is open cannot be deleted.             *)
Delete(n) ==
  /\ deletions < MaxDeletions
  /\ n \in files
  /\ \A p \in Processes : logger[p] # n
  /\ files' = files \ {n}
  /\ writers' = [writers EXCEPT ![n] = {}]
  /\ unguarded' = IF \E p \in Processes : pc[p] = "opening" /\ number[p] = n
                    THEN unguarded \cup {n} ELSE unguarded
  /\ deletions' = deletions + 1
  /\ UNCHANGED <<ini, pc, number, logger, settings>>

Load(p) ==
  \/ Enter(p) \/ Reject(p)
  \/ Reserve(p) \/ Taken(p) \/ LoggingFails(p) \/ Open(p) \/ OpenFails(p)
  \/ LoadConfiguration(p) \/ Register(p) \/ RegisterFails(p)

Next ==
  \/ \E p \in Processes : Load(p) \/ End(p)
  \/ \E n \in Numbers : Delete(n)

Spec == Init /\ [][Next]_vars

-----------------------------------------------------------------------------
(* Properties.                                                             *)

Locations ==
  {"off", "probing", "opening", "configuring", "registering", "listening", "refused", "ended"}

LoadTypeOK ==
  /\ ini \in Inis
  /\ files \subseteq Numbers /\ unguarded \subseteq Numbers
  /\ writers \in [Numbers -> SUBSET Processes]
  /\ pc \in [Processes -> Locations]
  /\ number \in [Processes -> Numbers]
  /\ logger \in [Processes -> Numbers \cup {None}]
  /\ readTo \in [Processes -> 0 .. Len(ini)]
  /\ interrupted \in [Processes -> BOOLEAN]
  /\ deletions \in 0 .. MaxDeletions

(* "Reserve a fresh filename for every process": a log holds the lines of  *)
(* one process, dead or alive, however many start at once.  The one way    *)
(* around it is a deletion between the reservation and the sink's open     *)
(* (Logging.cpp:26-29, 45-47, 80).                                         *)
OneWriter ==
  \A n \in Numbers \ unguarded : \A p, q \in writers[n] : p = q

(* "never truncates an earlier numbered log": as long as a file exists its *)
(* lines stay, whoever starts or dies (Logging.cpp:78-80).                 *)
NeverTruncated ==
  [][\A n \in files \cap files' : writers[n] \subseteq writers'[n]]_vars

Configured == {p \in Processes : pc[p] \in {"registering", "listening", "refused"}}
Seen(p) == SubSeq(ini, 1, readTo[p])

(* However reading ended, each setting is what the last line understood    *)
(* says, nothing else counts, and every other line with a known key or     *)
(* without a separator is reported (Configuration.cpp:99-145).             *)
ConfigurationMeans ==
  \A p \in Configured :
    LET config == g_configuration[p]
    IN  /\ \A key \in Settings \ {"mode"} : config[key] = LastSays(Seen(p), key)
        /\ config.mode \in {LastSays(Seen(p), "mode"), "Off"}
        /\ config.invalidEntries
             = Cardinality({i \in 1 .. readTo[p] : Invalid(ini[i])})
                 + (IF interrupted[p] THEN 1 ELSE 0)

(* The mode the hook will run in is the one the file asks for, and a       *)
(* plugin the file disables installs nothing, also when an exception kept  *)
(* LoadConfiguration from turning the mode off: Install looks again        *)
(* (Configuration.cpp:138-140, SaveLoadGuard.cpp:296).                     *)
ModeAsAsked ==
  \A p \in Configured :
    EffectiveMode(g_configuration[p])
      = IF LastSays(Seen(p), "enabled") THEN LastSays(Seen(p), "mode") ELSE "Off"
=============================================================================
