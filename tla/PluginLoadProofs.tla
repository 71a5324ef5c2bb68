--------------------------- MODULE PluginLoadProofs ---------------------------
(***************************************************************************)
(* Proofs about PluginLoad, for any number of processes, log numbers and   *)
(* deletions and for INI files of any length: a log holds one process's    *)
(* lines and keeps them, and the settings mean what the file says.         *)
(*                                                                         *)
(* The argument: a process has a claim to a file from its reservation on,  *)
(* which no other process can get while the file exists, and the file can  *)
(* only go while the claim rests on a name alone.  After every line the    *)
(* record of settings says what the lines up to it mean; a first line      *)
(* after which it did not would follow one after which it did.             *)
(***************************************************************************)
EXTENDS PluginLoad, SequenceTheorems, FiniteSetTheorems, WellFoundedInduction, TLAPS

Claims(p, n) == (pc[p] = "opening" /\ number[p] = n) \/ logger[p] = n \/ p \in writers[n]

ClaimedExists ==
  \A n \in Numbers \ unguarded : \A p \in Processes : Claims(p, n) => n \in files
OneClaimant ==
  \A n \in Numbers \ unguarded : \A p, q \in Processes : Claims(p, n) /\ Claims(q, n) => p = q

LoadInv == LoadTypeOK /\ ClaimedExists /\ OneClaimant

LEMMA LoadInit == ASSUME Init PROVE LoadInv
<1> USE PluginAssumption DEF Init
<1>1. 1 \in Numbers /\ 0 \in 0 .. MaxDeletions
  BY DEF Numbers
<1>2. Len(ini) \in Nat
  <2>1. ini \in Seq(Lines)
    OBVIOUS
  <2> QED BY <2>1, LenProperties
<1>3. LoadTypeOK
  <2>1. /\ files \subseteq Numbers /\ unguarded \subseteq Numbers
        /\ writers \in [Numbers -> SUBSET Processes]
        /\ pc \in [Processes -> Locations]
        /\ number \in [Processes -> Numbers] /\ logger \in [Processes -> Numbers \cup {None}]
    BY <1>1 DEF Locations
  <2>2. readTo \in [Processes -> 0 .. Len(ini)]
    BY <1>2
  <2>3. interrupted \in [Processes -> BOOLEAN]
    OBVIOUS
  <2> QED BY <1>1, <2>1, <2>2, <2>3 DEF LoadTypeOK
<1>4. ASSUME NEW p \in Processes, NEW n \in Numbers PROVE ~Claims(p, n)
  BY DEF Claims, None, Numbers
<1> QED BY <1>3, <1>4 DEF LoadInv, ClaimedExists, OneClaimant

(* A step that gives nobody a new claim and takes no file away.            *)
LEMMA NoNewClaims ==
  ASSUME LoadInv,
         files \subseteq files', unguarded \subseteq unguarded',
         \A p \in Processes, n \in Numbers : Claims(p, n)' => Claims(p, n)
  PROVE  ClaimedExists' /\ OneClaimant'
BY DEF LoadInv, ClaimedExists, OneClaimant, Numbers

(* What most steps of Load are: one process moves on.                      *)
LEMMA MoveKeeps ==
  ASSUME LoadInv, NEW p \in Processes,
         NEW to \in Locations \ {"opening"}, pc' = [pc EXCEPT ![p] = to],
         \/ UNCHANGED number
         \/ number[p] < MaximumLogNumber /\ number' = [number EXCEPT ![p] = @ + 1] /\ pc[p] # "opening",
         UNCHANGED <<ini, files, writers, logger, unguarded, deletions, readTo, interrupted>>
  PROVE  LoadInv'
<1>1. LoadTypeOK'
  <2>1. number' \in [Processes -> Numbers]
    <3>1. number \in [Processes -> Numbers]
      BY DEF LoadInv, LoadTypeOK
    <3>2. CASE number[p] < MaximumLogNumber /\ number' = [number EXCEPT ![p] = @ + 1]
      <4>1. number[p] + 1 \in Numbers
        BY <3>1, <3>2, PluginAssumption DEF Numbers
      <4> QED BY <3>1, <3>2, <4>1
    <3> QED BY <3>1, <3>2
  <2>2. pc' \in [Processes -> Locations]
    BY DEF LoadInv, LoadTypeOK
  <2> QED BY <2>1, <2>2 DEF LoadInv, LoadTypeOK
<1>2. \A q \in Processes, n \in Numbers : Claims(q, n)' => Claims(q, n)
  BY DEF LoadInv, LoadTypeOK, Claims
<1> QED BY <1>1, <1>2, NoNewClaims DEF LoadInv

LEMMA ReserveKeeps ==
  ASSUME LoadInv, NEW p \in Processes, Reserve(p)
  PROVE  LoadInv'
<1> USE DEF Reserve, Goto, LogStep, settings
<1>1. LoadTypeOK'
  BY DEF LoadInv, LoadTypeOK, Locations
<1>2. \A q \in Processes, n \in Numbers \ unguarded :
        n # number[p] => (Claims(q, n)' <=> Claims(q, n))
  BY DEF LoadInv, LoadTypeOK, Claims
<1>3. number[p] \notin unguarded => \A q \in Processes : Claims(q, number[p])' => q = p
  BY DEF LoadInv, LoadTypeOK, Claims, ClaimedExists
<1>4. ClaimedExists'
  BY <1>2 DEF LoadInv, ClaimedExists
<1>5. OneClaimant'
  BY <1>2, <1>3 DEF LoadInv, OneClaimant
<1> QED BY <1>1, <1>4, <1>5 DEF LoadInv

LEMMA OpenKeeps ==
  ASSUME LoadInv, NEW p \in Processes, Open(p)
  PROVE  LoadInv'
<1> USE DEF Open, Goto, LogStep, settings
<1>1. LoadTypeOK'
  BY DEF LoadInv, LoadTypeOK, Locations
<1>2. \A q \in Processes, n \in Numbers : Claims(q, n)' => Claims(q, n)
  BY DEF LoadInv, LoadTypeOK, Claims
<1> QED BY <1>1, <1>2, NoNewClaims DEF LoadInv

(* Lines go to the file the process has open, to which it has a claim.     *)
LEMMA WriteKeeps ==
  ASSUME LoadInv, NEW p \in Processes, WriteLog(p),
         NEW to \in Locations \ {"opening"}, pc' = [pc EXCEPT ![p] = to],
         UNCHANGED <<ini, files, number, logger, unguarded, deletions>>,
         readTo' \in [Processes -> 0 .. Len(ini)], interrupted' \in [Processes -> BOOLEAN]
  PROVE  LoadInv'
<1>1. LoadTypeOK'
  BY DEF LoadInv, LoadTypeOK, WriteLog
<1>2. \A q \in Processes, n \in Numbers : Claims(q, n)' => Claims(q, n)
  BY DEF LoadInv, LoadTypeOK, Claims, WriteLog
<1> QED BY <1>1, <1>2, NoNewClaims DEF LoadInv

LEMMA LoadKeeps ==
  ASSUME LoadInv, NEW p \in Processes, Load(p)
  PROVE  LoadInv'
<1>1. CASE Enter(p) \/ Reject(p) \/ LoggingFails(p) \/ OpenFails(p) \/ Register(p)
  BY <1>1, MoveKeeps DEF Enter, Reject, LoggingFails, OpenFails, Register, Goto, LogStep,
     settings, disk, Locations
<1>2. CASE Taken(p)
  <2>1. pc' = [pc EXCEPT ![p] = "probing"]
    BY <1>2 DEF Taken, LoadInv, LoadTypeOK
  <2> QED BY <1>2, <2>1, MoveKeeps DEF Taken, LogStep, settings, Locations
<1>3. CASE LoadConfiguration(p)
  <2>1. PICK k \in 0 .. Len(ini), thrown \in BOOLEAN :
          readTo' = [readTo EXCEPT ![p] = k] /\ interrupted' = [interrupted EXCEPT ![p] = thrown]
    BY <1>3 DEF LoadConfiguration
  <2>2. readTo' \in [Processes -> 0 .. Len(ini)] /\ interrupted' \in [Processes -> BOOLEAN]
    BY <2>1 DEF LoadInv, LoadTypeOK
  <2> QED BY <1>3, <2>2, WriteKeeps DEF LoadConfiguration, Goto, Locations
<1>4. CASE RegisterFails(p)
  <2>1. readTo' \in [Processes -> 0 .. Len(ini)] /\ interrupted' \in [Processes -> BOOLEAN]
    BY <1>4 DEF RegisterFails, settings, LoadInv, LoadTypeOK
  <2> QED BY <1>4, <2>1, WriteKeeps DEF RegisterFails, Goto, Locations
<1> QED BY <1>1, <1>2, <1>3, <1>4, ReserveKeeps, OpenKeeps DEF Load

LEMMA EndKeeps ==
  ASSUME LoadInv, NEW p \in Processes, End(p)
  PROVE  LoadInv'
<1> USE DEF End, disk
<1>1. LoadTypeOK'
  <2>1. Len(ini) \in Nat
    BY PluginAssumption, LenProperties DEF LoadInv, LoadTypeOK
  <2> QED BY <2>1 DEF LoadInv, LoadTypeOK, Locations
<1>2. \A q \in Processes, n \in Numbers : Claims(q, n)' => Claims(q, n)
  BY DEF LoadInv, LoadTypeOK, Claims, None, Numbers
<1> QED BY <1>1, <1>2, NoNewClaims DEF LoadInv

LEMMA DeleteKeeps ==
  ASSUME LoadInv, NEW m \in Numbers, Delete(m)
  PROVE  LoadInv'
<1> USE DEF Delete, settings
<1>1. LoadTypeOK'
  BY PluginAssumption DEF LoadInv, LoadTypeOK
<1>2. \A q \in Processes, n \in Numbers : n # m => (Claims(q, n)' <=> Claims(q, n))
  BY DEF LoadInv, LoadTypeOK, Claims
<1>3. m \notin unguarded' => \A q \in Processes : ~Claims(q, m)'
  BY DEF LoadInv, LoadTypeOK, Claims
<1>4. unguarded \subseteq unguarded' /\ files' = files \ {m}
  OBVIOUS
<1> QED BY <1>1, <1>2, <1>3, <1>4 DEF LoadInv, ClaimedExists, OneClaimant, Numbers

LEMMA LoadStep == ASSUME LoadInv, [Next]_vars PROVE LoadInv'
<1>1. CASE UNCHANGED vars
  BY <1>1 DEF vars, disk, settings, LoadInv, LoadTypeOK, ClaimedExists, OneClaimant, Claims
<1> QED BY <1>1, LoadKeeps, EndKeeps, DeleteKeeps DEF Next

LEMMA LoadInvHolds == Spec => []LoadInv
<1>1. Init => LoadInv
  BY LoadInit
<1>2. LoadInv /\ [Next]_vars => LoadInv'
  BY LoadStep
<1> QED BY <1>1, <1>2, PTL DEF Spec

(* However many processes start and die, a log belongs to one of them,     *)
(* unless it was deleted before its owner had it open (Logging.cpp:26-48). *)
THEOREM LogHasOneWriter == Spec => []OneWriter
<1>1. LoadInv => OneWriter
  BY DEF LoadInv, LoadTypeOK, OneClaimant, Claims, OneWriter
<1> QED BY <1>1, LoadInvHolds, PTL

(* Lines stay as long as their file does (Logging.cpp:78-80).              *)
THEOREM LinesStay == Spec => NeverTruncated
<1>1. LoadInv /\ [Next]_vars =>
        [\A n \in files \cap files' : writers[n] \subseteq writers'[n]]_vars
  <2> SUFFICES ASSUME LoadInv, Next, NEW n \in files \cap files'
               PROVE  writers[n] \subseteq writers'[n]
    OBVIOUS
  <2>1. n \in Numbers
    BY DEF LoadInv, LoadTypeOK
  <2>2. ASSUME NEW p \in Processes, Load(p) \/ End(p)
        PROVE  UNCHANGED writers \/ WriteLog(p)
    BY <2>2 DEF Load, End, Enter, Reject, Reserve, Taken, LoggingFails, Open, OpenFails,
       LoadConfiguration, Register, RegisterFails, disk
  <2>3. ASSUME NEW p \in Processes, Load(p) \/ End(p)
        PROVE  writers[n] \subseteq writers'[n]
    BY <2>1, <2>2, <2>3 DEF WriteLog
  <2>4. ASSUME NEW m \in Numbers, Delete(m)
        PROVE  writers[n] \subseteq writers'[n]
    BY <2>1, <2>4 DEF Delete, LoadInv, LoadTypeOK
  <2> QED BY <2>3, <2>4 DEF Next
<1> QED BY <1>1, LoadInvHolds, PTL DEF Spec, NeverTruncated
-----------------------------------------------------------------------------
(* What a file means.  The loop reads each line once and keeps what it set *)
(* in one record; the meaning of the file looks at all lines at once.      *)

LEMMA LeastExists ==
  ASSUME NEW S \in SUBSET Nat, S # {}
  PROVE  \E n \in S : \A m \in S : n <= m
<1>1. PICK R : R = {mn \in Nat \X Nat : mn[1] < mn[2]}
  OBVIOUS
<1>2. IsWellFoundedOn(R, Nat)
  BY <1>1, NatLessThanWellFounded DEF OpToRel
<1>3. PICK n \in S : \A m \in S : ~ (<<m, n>> \in R)
  BY <1>2, WFMin, Zenon
<1>4. \A m \in S : ~ (m < n)
  BY <1>1, <1>3
<1> QED BY <1>4

(* The loop is a function of the number of lines read: a least number of   *)
(* lines it could not get through would have a predecessor it did.         *)
LEMMA LoopRuns ==
  ASSUME NEW lines \in Seq(Lines)
  PROVE  AfterEach(lines) =
           [n \in 0 .. Len(lines) |->
              IF n = 0 THEN Defaults ELSE ApplyLine(AfterEach(lines)[n - 1], lines[n])]
<1> DEFINE Run(h, n) ==
      h = [k \in 0 .. n |-> IF k = 0 THEN Defaults ELSE ApplyLine(h[k - 1], lines[k])]
           N == Len(lines)
           bad == {n \in 0 .. N : ~\E h : Run(h, n)}
<1>1. N \in Nat
  BY LenProperties
<1>2. bad = {}
  <2>1. SUFFICES ASSUME bad # {} PROVE FALSE
    OBVIOUS
  <2>2. bad \in SUBSET Nat
    BY <1>1
  <2> HIDE DEF Run, N
  <2>3. PICK n \in bad : \A m \in bad : n <= m
    <3> HIDE DEF bad
    <3> QED BY <2>1, <2>2, LeastExists
  <2>4. n \in Nat /\ n <= N /\ ~\E h : Run(h, n)
    BY <1>1, <2>3
  <2>5. CASE n = 0
    <3>1. Run([k \in 0 .. 0 |-> Defaults], 0)
      BY DEF Run
    <3> QED BY <2>4, <2>5, <3>1
  <2>6. CASE n # 0
    <3>1. n - 1 \in 0 .. N /\ n - 1 \notin bad
      BY <1>1, <2>2, <2>3, <2>4, <2>6
    <3>2. PICK h : Run(h, n - 1)
      BY <3>1
    <3> DEFINE g == [k \in 0 .. n |-> IF k < n THEN h[k] ELSE ApplyLine(h[n - 1], lines[n])]
    <3>3. ASSUME NEW k \in 0 .. n
          PROVE  g[k] = IF k = 0 THEN Defaults ELSE ApplyLine(g[k - 1], lines[k])
      <4>1. CASE k = n
        <5>1. n - 1 \in 0 .. n /\ n - 1 < n
          BY <2>4, <2>6
        <5> QED BY <2>4, <2>6, <4>1, <5>1
      <4>2. CASE k < n
        <5>1. k \in 0 .. n - 1 /\ (k # 0 => k - 1 \in 0 .. n /\ k - 1 < n)
          BY <2>4, <4>2
        <5>2. h[k] = IF k = 0 THEN Defaults ELSE ApplyLine(h[k - 1], lines[k])
          BY <3>2, <5>1 DEF Run
        <5> QED BY <2>4, <4>2, <5>1, <5>2
      <4> QED BY <2>4, <4>1, <4>2
    <3>4. Run(g, n)
      BY <3>3 DEF Run
    <3> QED BY <2>4, <3>4
  <2> QED BY <2>4, <2>5, <2>6
<1>3. \E h : Run(h, N)
  <2> HIDE DEF Run
  <2>1. N \in 0 .. N
    BY <1>1
  <2> QED BY <1>2, <2>1
<1>4. AfterEach(lines) = CHOOSE h : Run(h, N)
  BY DEF AfterEach
<1>5. Run(AfterEach(lines), N)
  <2> HIDE DEF Run, N
  <2> QED BY <1>3, <1>4
<1> QED BY <1>5

(* The meaning of the first n lines, and what the record says of it.       *)
Said(lines, n, key) == {i \in 1 .. n : lines[i].key = key /\ Understood(lines[i])}
LastOf(S) == CHOOSE i \in S : \A j \in S : j <= i
Says(lines, n, key) ==
  IF Said(lines, n, key) = {} THEN Defaults[key]
  ELSE Parsers[key][lines[LastOf(Said(lines, n, key))].value]
Reported(lines, n) == {i \in 1 .. n : Invalid(lines[i])}

Means(config, lines, n) ==
  /\ DOMAIN config = DOMAIN Defaults
  /\ \A key \in Settings : config[key] = Says(lines, n, key)
  /\ config.invalidEntries = Cardinality(Reported(lines, n))

LEMMA SettingsAre ==
  /\ Settings = {"enabled", "mode", "detailedIncidents", "allowUnqualifiedSuppression"}
  /\ DOMAIN Defaults = Settings \cup {"invalidEntries"}
  /\ "invalidEntries" \notin Settings
BY DEF Settings, Parsers, Defaults

LEMMA ReportedFinite ==
  ASSUME NEW lines, NEW n \in Nat
  PROVE  IsFiniteSet(Reported(lines, n)) /\ Cardinality(Reported(lines, n)) \in Nat
<1>1. IsFiniteSet(1 .. n)
  BY FS_Interval
<1>2. Reported(lines, n) \in SUBSET (1 .. n)
  BY DEF Reported
<1> QED BY <1>1, <1>2, FS_Subset, FS_CardinalityType

(* The last line of a set that has n in it, and nothing above n.           *)
LEMMA LastIs ==
  ASSUME NEW n \in Nat, NEW S \in SUBSET (1 .. n), n \in S
  PROVE  LastOf(S) = n
<1>1. \A j \in S : j <= n
  OBVIOUS
<1>2. \A i \in S : (\A j \in S : j <= i) => i = n
  OBVIOUS
<1> QED BY <1>1, <1>2 DEF LastOf

LEMMA NothingSaid ==
  ASSUME NEW lines
  PROVE  Means(Defaults, lines, 0)
<1>1. \A key \in Settings : Said(lines, 0, key) = {}
  BY DEF Said
<1>2. Reported(lines, 0) = {}
  BY DEF Reported
<1>3. Defaults.invalidEntries = 0
  BY DEF Defaults
<1> QED BY <1>1, <1>2, <1>3, FS_EmptySet DEF Means, Says

(* One more line: a setting understood replaces what was said before,      *)
(* anything else leaves the settings alone, and is counted or is not.      *)
LEMMA LineMeans ==
  ASSUME NEW lines, NEW n \in Nat \ {0}, NEW config, Means(config, lines, n - 1)
  PROVE  Means(ApplyLine(config, lines[n]), lines, n)
<1> DEFINE line == lines[n]
           next == ApplyLine(config, line)
<1>1. 1 .. n = (1 .. n - 1) \cup {n} /\ n \notin 1 .. n - 1 /\ n - 1 \in Nat
  OBVIOUS
<1>2. \A key \in Settings :
        Said(lines, n, key) = IF line.key = key /\ Understood(line)
                                THEN Said(lines, n - 1, key) \cup {n} ELSE Said(lines, n - 1, key)
  BY <1>1 DEF Said
<1>3. /\ Invalid(line) => Reported(lines, n) = Reported(lines, n - 1) \cup {n}
      /\ ~Invalid(line) => Reported(lines, n) = Reported(lines, n - 1)
      /\ n \notin Reported(lines, n - 1)
  BY <1>1 DEF Reported
<1>4. Understood(line) => line.key \in Settings /\ ~Invalid(line)
  BY DEF Understood, Invalid, Settings, Parsers
<1> HIDE DEF line
<1>5. /\ IsFiniteSet(Reported(lines, n - 1))
      /\ Cardinality(Reported(lines, n - 1)) \in Nat
  BY <1>1, ReportedFinite
<1>6. Cardinality(Reported(lines, n))
        = IF Invalid(line) THEN config.invalidEntries + 1 ELSE config.invalidEntries
  BY <1>3, <1>5, FS_AddElement DEF Means
<1>7. CASE Understood(line)
  <2>1. next = [config EXCEPT ![line.key] = Parsers[line.key][line.value]]
    BY <1>7 DEF ApplyLine
  <2>2. DOMAIN next = DOMAIN Defaults /\ next.invalidEntries = config.invalidEntries
    BY <1>4, <1>7, <2>1, SettingsAre DEF Means
  <2>3. ASSUME NEW key \in Settings PROVE next[key] = Says(lines, n, key)
    <3>1. CASE line.key = key
      <4>1. n \in Said(lines, n, key) /\ Said(lines, n, key) \in SUBSET (1 .. n)
        BY <1>2, <1>7, <3>1 DEF Said
      <4>2. Says(lines, n, key) = Parsers[key][line.value]
        BY <4>1, LastIs DEF Says, line
      <4>3. next[key] = Parsers[key][line.value]
        BY <2>1, <3>1, SettingsAre DEF Means
      <4> QED BY <4>2, <4>3
    <3>2. CASE line.key # key
      <4>1. Said(lines, n, key) = Said(lines, n - 1, key)
        BY <1>2, <3>2
      <4>2. next[key] = config[key]
        BY <2>1, <3>2, SettingsAre DEF Means
      <4> QED BY <4>1, <4>2 DEF Means, Says
    <3> QED BY <3>1, <3>2
  <2> QED BY <1>4, <1>6, <1>7, <2>2, <2>3 DEF Means, line
<1>8. CASE ~Understood(line)
  <2>1. \A key \in Settings : Says(lines, n, key) = Says(lines, n - 1, key)
    BY <1>2, <1>8 DEF Says
  <2>2. /\ DOMAIN next = DOMAIN Defaults
        /\ \A key \in Settings : next[key] = config[key]
        /\ next.invalidEntries
             = IF Invalid(line) THEN config.invalidEntries + 1 ELSE config.invalidEntries
    BY <1>8, SettingsAre DEF ApplyLine, Means
  <2> QED BY <1>6, <2>1, <2>2 DEF Means, line
<1> QED BY <1>7, <1>8

(* All lines, by the least number of lines that would go wrong.            *)
LEMMA LoopMeans ==
  ASSUME NEW lines \in Seq(Lines)
  PROVE  Means(AfterLines(lines), lines, Len(lines))
<1> DEFINE N == Len(lines)
           after == AfterEach(lines)
           bad == {n \in 0 .. N : ~Means(after[n], lines, n)}
<1>1. N \in Nat
  BY LenProperties
<1>2. \A n \in 0 .. N :
        after[n] = IF n = 0 THEN Defaults ELSE ApplyLine(after[n - 1], lines[n])
  <2>1. after = [n \in 0 .. N |-> IF n = 0 THEN Defaults ELSE ApplyLine(after[n - 1], lines[n])]
    BY LoopRuns
  <2> HIDE DEF after, N
  <2> QED BY <2>1
<1> HIDE DEF after, N
<1>3. bad = {}
  <2>1. SUFFICES ASSUME bad # {} PROVE FALSE
    OBVIOUS
  <2>2. bad \in SUBSET Nat
    BY <1>1
  <2>3. PICK n \in bad : \A m \in bad : n <= m
    <3> HIDE DEF bad
    <3> QED BY <2>1, <2>2, LeastExists
  <2>4. n \in 0 .. N /\ n \in Nat /\ ~Means(after[n], lines, n)
    BY <1>1, <2>3
  <2>5. n # 0
    BY <1>2, <2>4, NothingSaid
  <2>6. n - 1 \in 0 .. N /\ n - 1 \notin bad
    BY <1>1, <2>2, <2>3, <2>4, <2>5
  <2>7. Means(after[n - 1], lines, n - 1)
    BY <2>6
  <2>8. Means(ApplyLine(after[n - 1], lines[n]), lines, n)
    BY <2>4, <2>5, <2>7, LineMeans
  <2> QED BY <1>2, <2>4, <2>5, <2>8
<1>4. N \in 0 .. N
  BY <1>1
<1>5. Means(after[N], lines, N)
  BY <1>3, <1>4
<1> QED BY <1>5 DEF AfterLines, after, N

LEMMA SaysIsLastSays ==
  ASSUME NEW lines \in Seq(Lines), NEW key
  PROVE  Says(lines, Len(lines), key) = LastSays(lines, key)
<1>1. DOMAIN lines = 1 .. Len(lines)
  BY LenProperties
<1> QED BY <1>1 DEF Says, Said, LastOf, LastSays

(* Settings that mean what k lines of a file say, and the mode asked for.  *)
Meant(config, lines, k, thrown) ==
  LET seen == SubSeq(lines, 1, k)
  IN  /\ \A key \in Settings \ {"mode"} : config[key] = LastSays(seen, key)
      /\ config.mode \in {LastSays(seen, "mode"), "Off"}
      /\ config.invalidEntries
           = Cardinality({i \in 1 .. k : Invalid(lines[i])}) + (IF thrown THEN 1 ELSE 0)
      /\ EffectiveMode(config)
           = IF LastSays(seen, "enabled") THEN LastSays(seen, "mode") ELSE "Off"

(* What LoadConfiguration returns when it got k lines, however it ended.   *)
LEMMA ReadMeans ==
  ASSUME NEW lines \in Seq(Lines), NEW k \in 0 .. Len(lines), NEW thrown \in BOOLEAN,
         NEW config,
         config = IF thrown THEN Interrupted(SubSeq(lines, 1, k)) ELSE Finished(SubSeq(lines, 1, k))
  PROVE  Meant(config, lines, k, thrown)
<1> DEFINE seen == SubSeq(lines, 1, k)
           after == AfterLines(seen)
<1>1. Len(lines) \in Nat /\ k \in Nat
  BY LenProperties
<1>2. /\ seen \in Seq(Lines) /\ Len(seen) = k
      /\ \A i \in 1 .. k : seen[i] = lines[i]
  BY <1>1
<1> HIDE DEF seen
<1>3. Means(after, seen, k)
  BY <1>2, LoopMeans
<1>4. /\ DOMAIN after = Settings \cup {"invalidEntries"}
      /\ \A key \in Settings : after[key] = LastSays(seen, key)
      /\ after.invalidEntries = Cardinality(Reported(seen, k))
  BY <1>2, <1>3, SaysIsLastSays, SettingsAre DEF Means
<1>5. Reported(seen, k) = {i \in 1 .. k : Invalid(lines[i])}
  BY <1>2 DEF Reported
<1>6. Cardinality(Reported(seen, k)) \in Nat
  BY <1>1, ReportedFinite
<1>7. after.enabled = LastSays(seen, "enabled") /\ after.mode = LastSays(seen, "mode")
  BY <1>4, SettingsAre
<1> HIDE DEF after
<1>8. /\ \A key \in Settings \ {"mode"} : config[key] = after[key]
      /\ config.invalidEntries = after.invalidEntries + (IF thrown THEN 1 ELSE 0)
      /\ config.mode \in {after.mode, "Off"}
      /\ after.enabled => config.mode = after.mode
  <2>1. CASE thrown
    <3>1. config = [after EXCEPT !.invalidEntries = after.invalidEntries + 1]
      BY <2>1 DEF Interrupted, after, seen
    <3> QED BY <1>4, <2>1, <3>1, SettingsAre
  <2>2. CASE ~thrown
    <3>1. config = IF after.enabled THEN after ELSE [after EXCEPT !.mode = "Off"]
      BY <2>2 DEF Finished, after, seen
    <3>2. after.invalidEntries + 0 = after.invalidEntries
      BY <1>4, <1>6
    <3>3. CASE after.enabled
      BY <2>2, <3>1, <3>2, <3>3
    <3>4. CASE ~after.enabled
      BY <1>4, <2>2, <3>1, <3>2, <3>4, SettingsAre
    <3> QED BY <3>3, <3>4
  <2> QED BY <2>1, <2>2
<1>9. EffectiveMode(config) = IF after.enabled THEN after.mode ELSE "Off"
  <2>1. config.enabled = after.enabled
    BY <1>8, SettingsAre
  <2> QED BY <1>8, <2>1 DEF EffectiveMode
<1>10. \A key \in Settings \ {"mode"} : config[key] = LastSays(seen, key)
  BY <1>4, <1>8
<1>11. config.mode \in {LastSays(seen, "mode"), "Off"}
  BY <1>7, <1>8
<1>12. config.invalidEntries
         = Cardinality({i \in 1 .. k : Invalid(lines[i])}) + (IF thrown THEN 1 ELSE 0)
  BY <1>4, <1>5, <1>8
<1>13. EffectiveMode(config)
         = IF LastSays(seen, "enabled") THEN LastSays(seen, "mode") ELSE "Off"
  BY <1>7, <1>9
<1> QED BY <1>10, <1>11, <1>12, <1>13 DEF Meant, seen

AllMeant ==
  \A p \in Configured : Meant(g_configuration[p], ini, readTo[p], interrupted[p])
Untouched ==
  \A p \in Processes :
    pc[p] = "off" => g_configuration[p] = Defaults /\ readTo[p] = 0 /\ interrupted[p] = FALSE
ConfigurationInv == LoadInv /\ DOMAIN g_configuration = Processes /\ AllMeant /\ Untouched

(* A plugin that was refused at the start has read nothing.                *)
LEMMA DefaultsMeant ==
  ASSUME NEW lines \in Seq(Lines)
  PROVE  Meant(Defaults, lines, 0, FALSE)
<1> DEFINE none == SubSeq(lines, 1, 0)
<1>1. Len(lines) \in Nat
  BY LenProperties
<1>2. none \in Seq(Lines) /\ Len(none) = 0
  BY <1>1
<1> HIDE DEF none
<1>3. AfterLines(none) = Defaults
  <2> DEFINE after == AfterEach(none)
  <2>1. after = [n \in 0 .. Len(none) |->
                   IF n = 0 THEN Defaults ELSE ApplyLine(after[n - 1], none[n])]
    BY <1>2, LoopRuns
  <2> HIDE DEF after
  <2>2. 0 \in 0 .. Len(none)
    BY <1>2
  <2>3. after[0] = Defaults
    BY <2>1, <2>2
  <2> QED BY <1>2, <2>3 DEF AfterLines, after
<1>4. Finished(none) = Defaults
  BY <1>3 DEF Finished, Defaults
<1>5. Defaults = IF FALSE THEN Interrupted(none) ELSE Finished(none)
  BY <1>4
<1>6. 0 \in 0 .. Len(lines) /\ FALSE \in BOOLEAN
  BY <1>1
<1> QED BY <1>5, <1>6, ReadMeans DEF none

(* What a process loaded stays what it was.                                *)
LEMMA ConfigurationKept ==
  ASSUME ConfigurationInv, LoadInv', UNCHANGED <<ini, g_configuration, readTo, interrupted>>,
         Configured' \subseteq Configured,
         \A p \in Processes : pc'[p] = "off" => pc[p] = "off"
  PROVE  ConfigurationInv'
<1>1. AllMeant'
  BY DEF ConfigurationInv, AllMeant
<1>2. Untouched'
  BY DEF ConfigurationInv, Untouched
<1> QED BY <1>1, <1>2 DEF ConfigurationInv

(* One process changes its settings.                                       *)
LEMMA ConfigurationChanged ==
  ASSUME ConfigurationInv, LoadInv', UNCHANGED ini, NEW p \in Processes, NEW config, NEW k, NEW thrown,
         g_configuration' = [g_configuration EXCEPT ![p] = config],
         readTo' = [readTo EXCEPT ![p] = k], interrupted' = [interrupted EXCEPT ![p] = thrown],
         Configured' \subseteq Configured \cup {p},
         \A q \in Processes : pc'[q] = "off" => pc[q] = "off" /\ q # p,
         p \in Configured' => Meant(config, ini, k, thrown)
  PROVE  ConfigurationInv'
<1>1. DOMAIN g_configuration' = Processes
  BY DEF ConfigurationInv
<1>2. AllMeant'
  <2>1. SUFFICES ASSUME NEW q \in Configured'
                 PROVE  Meant(g_configuration'[q], ini, readTo'[q], interrupted'[q])
    BY DEF AllMeant
  <2>2. CASE q = p
    BY <2>1, <2>2 DEF ConfigurationInv, LoadInv, LoadTypeOK
  <2>3. CASE q # p
    <3>1. q \in Configured /\ q \in Processes
      BY <2>1, <2>3 DEF Configured
    <3>2. /\ g_configuration'[q] = g_configuration[q]
          /\ readTo'[q] = readTo[q] /\ interrupted'[q] = interrupted[q]
      BY <2>3, <3>1 DEF ConfigurationInv, LoadInv, LoadTypeOK
    <3> QED BY <3>1, <3>2 DEF ConfigurationInv, AllMeant
  <2> QED BY <2>2, <2>3
<1>3. Untouched'
  BY DEF ConfigurationInv, LoadInv, LoadTypeOK, Untouched
<1> QED BY <1>1, <1>2, <1>3 DEF ConfigurationInv

LEMMA ConfigurationStep == ASSUME ConfigurationInv, [Next]_vars PROVE ConfigurationInv'
<1>1. LoadInv'
  BY LoadStep DEF ConfigurationInv
<1>2. CASE UNCHANGED vars
  BY <1>1, <1>2, ConfigurationKept DEF vars, disk, settings, Configured
<1>3. ASSUME NEW p \in Processes,
             \/ Enter(p) \/ Reserve(p) \/ Taken(p) \/ LoggingFails(p) \/ Open(p) \/ OpenFails(p)
             \/ Register(p) \/ RegisterFails(p)
      PROVE  ConfigurationInv'
  <2>1. UNCHANGED <<ini, g_configuration, readTo, interrupted>>
    BY <1>3 DEF Enter, Reserve, Taken, LoggingFails, Open, OpenFails, Register, RegisterFails,
       LogStep, settings
  <2>2. /\ Configured' \subseteq Configured
        /\ \A q \in Processes : pc'[q] = "off" => pc[q] = "off"
    <3>1. \/ UNCHANGED pc
          \/ /\ pc[p] \in {"off", "probing", "opening"}
             /\ pc' = [pc EXCEPT ![p] = "probing"] \/ pc' = [pc EXCEPT ![p] = "opening"]
                  \/ pc' = [pc EXCEPT ![p] = "configuring"]
          \/ /\ pc[p] = "registering"
             /\ pc' = [pc EXCEPT ![p] = "listening"] \/ pc' = [pc EXCEPT ![p] = "refused"]
      BY <1>3 DEF Enter, Reserve, Taken, LoggingFails, Open, OpenFails, Register, RegisterFails, Goto
    <3> QED BY <3>1 DEF Configured, ConfigurationInv, LoadInv, LoadTypeOK
  <2> QED BY <1>1, <2>1, <2>2, ConfigurationKept
<1>4. ASSUME NEW p \in Processes, LoadConfiguration(p)
      PROVE  ConfigurationInv'
  <2>1. PICK k \in 0 .. Len(ini), thrown \in BOOLEAN :
          /\ readTo' = [readTo EXCEPT ![p] = k]
          /\ interrupted' = [interrupted EXCEPT ![p] = thrown]
          /\ g_configuration' = [g_configuration EXCEPT ![p] =
               IF thrown THEN Interrupted(SubSeq(ini, 1, k)) ELSE Finished(SubSeq(ini, 1, k))]
    BY <1>4 DEF LoadConfiguration
  <2>2. ini \in Seq(Lines) /\ UNCHANGED ini
    BY <1>4, PluginAssumption DEF ConfigurationInv, LoadInv, LoadTypeOK, LoadConfiguration
  <2>3. /\ Configured' \subseteq Configured \cup {p}
        /\ \A q \in Processes : pc'[q] = "off" => pc[q] = "off" /\ q # p
    BY <1>4 DEF LoadConfiguration, Goto, Configured, ConfigurationInv, LoadInv, LoadTypeOK
  <2> QED BY <1>1, <2>1, <2>2, <2>3, ReadMeans, ConfigurationChanged
<1>5. ASSUME NEW p \in Processes, End(p)
      PROVE  ConfigurationInv'
  <2>1. /\ g_configuration' = [g_configuration EXCEPT ![p] = Defaults]
        /\ readTo' = [readTo EXCEPT ![p] = 0] /\ interrupted' = [interrupted EXCEPT ![p] = FALSE]
        /\ UNCHANGED ini
    BY <1>5 DEF End
  <2>2. /\ Configured' \subseteq Configured /\ p \notin Configured'
        /\ \A q \in Processes : pc'[q] = "off" => pc[q] = "off" /\ q # p
    BY <1>5 DEF End, Configured, ConfigurationInv, LoadInv, LoadTypeOK
  <2> QED BY <1>1, <2>1, <2>2, ConfigurationChanged
<1>6. ASSUME NEW n \in Numbers, Delete(n)
      PROVE  ConfigurationInv'
  BY <1>1, <1>6, ConfigurationKept DEF Delete, settings, Configured
<1>7. ASSUME NEW p \in Processes, Reject(p)
      PROVE  ConfigurationInv'
  <2>1. /\ UNCHANGED <<ini, g_configuration, readTo, interrupted>>
        /\ pc[p] = "off" /\ pc' = [pc EXCEPT ![p] = "refused"]
    BY <1>7 DEF Reject, Goto, LogStep, settings
  <2>2. ini \in Seq(Lines)
    BY PluginAssumption DEF ConfigurationInv, LoadInv, LoadTypeOK
  <2>3. Meant(g_configuration[p], ini, readTo[p], interrupted[p])
    BY <2>1, <2>2, DefaultsMeant DEF ConfigurationInv, Untouched
  <2>4. Configured' \subseteq Configured \cup {p}
    BY <2>1 DEF Configured, ConfigurationInv, LoadInv, LoadTypeOK
  <2>5. AllMeant'
    BY <2>1, <2>3, <2>4 DEF ConfigurationInv, AllMeant
  <2>6. Untouched'
    BY <2>1 DEF ConfigurationInv, LoadInv, LoadTypeOK, Untouched
  <2> QED BY <1>1, <2>1, <2>5, <2>6 DEF ConfigurationInv
<1> QED BY <1>2, <1>3, <1>4, <1>5, <1>6, <1>7 DEF Next, Load

LEMMA ConfigurationInvHolds == Spec => []ConfigurationInv
<1>1. Init => ConfigurationInv
  <2>1. SUFFICES ASSUME Init PROVE ConfigurationInv
    OBVIOUS
  <2>2. Configured = {} /\ DOMAIN g_configuration = Processes
    BY <2>1 DEF Init, Configured
  <2>3. Untouched
    BY <2>1 DEF Init, Untouched
  <2> QED BY <2>1, <2>2, <2>3, LoadInit DEF ConfigurationInv, AllMeant
<1>2. ConfigurationInv /\ [Next]_vars => ConfigurationInv'
  BY ConfigurationStep
<1> QED BY <1>1, <1>2, PTL DEF Spec

(* The settings of every process are those its file stands for, for files  *)
(* of any length and wherever reading stopped: a later line overrides an   *)
(* earlier one, one that is not understood changes nothing and is counted  *)
(* (Configuration.cpp:98-145).                                             *)
THEOREM SettingsAreMeant == Spec => []ConfigurationMeans
<1>1. ConfigurationInv => ConfigurationMeans
  BY DEF ConfigurationInv, AllMeant, Meant, ConfigurationMeans, Seen
<1> QED BY <1>1, ConfigurationInvHolds, PTL

(* The guard runs in the mode the file asks for, and in none when the file *)
(* disables the plugin, also after an exception                            *)
(* (Configuration.cpp:138-145, SaveLoadGuard.cpp:296).                     *)
THEOREM ModeIsAsked == Spec => []ModeAsAsked
<1>1. ConfigurationInv => ModeAsAsked
  BY DEF ConfigurationInv, AllMeant, Meant, ModeAsAsked, Seen
<1> QED BY <1>1, ConfigurationInvHolds, PTL
=============================================================================
