---------------------------- MODULE Configuration ----------------------------
(***************************************************************************)
(* LoadConfiguration (Configuration.cpp): the settings a list of INI lines *)
(* stands for.  A line is its key and a class of values; case, blanks and  *)
(* the spellings of a class ("1", "true", "yes", "on") are gone.           *)
(***************************************************************************)
EXTENDS Integers, FiniteSets, Sequences

(* "off" is the one text that both parsers understand.                     *)
ParseBool == [true |-> TRUE, false |-> FALSE, off |-> FALSE]
ParseMode == [off |-> "Off", observe |-> "Observe", prevent |-> "Prevent"]
Texts == {"true", "false", "off", "observe", "prevent", "nonsense"}

Parsers ==
  [enabled |-> ParseBool, mode |-> ParseMode,
   detailedIncidents |-> ParseBool, allowUnqualifiedSuppression |-> ParseBool]
Settings == DOMAIN Parsers

(* Keys of lines that set nothing: comments and sections, lines without    *)
(* "=", settings of a later version.                                       *)
OtherKeys == {"comment", "noSeparator", "unknown"}
Lines == [key : Settings \cup OtherKeys, value : Texts]

Defaults ==
  [enabled |-> TRUE, mode |-> "Prevent", detailedIncidents |-> FALSE,
   allowUnqualifiedSuppression |-> TRUE, invalidEntries |-> 0]

Understood(line) == line.key \in Settings /\ line.value \in DOMAIN Parsers[line.key]
Invalid(line) == line.key = "noSeparator" \/ (line.key \in Settings /\ ~Understood(line))

(* Variant: a value that is not understood resets its setting.             *)
ApplyLineOrReset(config, line) ==
  IF Understood(line) THEN [config EXCEPT ![line.key] = Parsers[line.key][line.value]]
  ELSE IF line.key \in Settings
    THEN [config EXCEPT ![line.key] = Defaults[line.key], !.invalidEntries = @ + 1]
  ELSE IF Invalid(line) THEN [config EXCEPT !.invalidEntries = @ + 1]
  ELSE config

(* A value that is not understood leaves the setting as it was.            *)
ApplyLine(config, line) ==
  IF Understood(line) THEN [config EXCEPT ![line.key] = Parsers[line.key][line.value]]
  ELSE IF Invalid(line) THEN [config EXCEPT !.invalidEntries = @ + 1]
  ELSE config

(* The loop: what is set after each number of lines.                       *)
AfterEach(lines) ==
  LET config[n \in 0 .. Len(lines)] ==
        IF n = 0 THEN Defaults ELSE ApplyLine(config[n - 1], lines[n])
  IN  config

AfterLines(lines) == AfterEach(lines)[Len(lines)]

(* The end of the file, a stream that stops delivering, or no file at all. *)
Finished(lines) ==
  LET config == AfterLines(lines)
  IN  IF config.enabled THEN config ELSE [config EXCEPT !.mode = "Off"]

(* An exception behind these lines: what they set stays, and enabled is    *)
(* not looked at any more.                                                 *)
Interrupted(lines) ==
  LET config == AfterLines(lines)
  IN  [config EXCEPT !.invalidEntries = @ + 1]

(* Variant: Install trusts LoadConfiguration to have turned the mode off.  *)
EffectiveModeTrusting(config) == config.mode

(* Install's use of the settings.                                          *)
EffectiveMode(config) == IF config.enabled THEN config.mode ELSE "Off"

-----------------------------------------------------------------------------
(* What a file says, without the loop: the last line understood decides.   *)

LastSays(lines, key) ==
  LET said == {i \in DOMAIN lines : lines[i].key = key /\ Understood(lines[i])}
  IN  IF said = {} THEN Defaults[key]
      ELSE LET last == CHOOSE i \in said : \A j \in said : j <= i
           IN  Parsers[key][lines[last].value]
=============================================================================
