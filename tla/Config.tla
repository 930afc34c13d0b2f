------------------------------- MODULE Config -------------------------------
(***************************************************************************)
(* The configuration of config/config.go: a file that people edit, a       *)
(* temporary file next to it that the process writes, and what the process *)
(* has loaded.  The temporary file takes the place of the other at the     *)
(* next start.                                                             *)
(***************************************************************************)
CONSTANTS
  Keys,     (* the settings                                                *)
  Vals,     (* their values                                                *)
  Default,  (* globalDefaults, the same for each                           *)
  None      (* no file                                                     *)

(* The defaults are values; None is no setting, no file and no writer.     *)
ConfigConstants == /\ Default \in Vals /\ None \notin Keys
                   /\ \A S \in SUBSET Keys : None \notin [S -> Vals]
                   /\ None \notin [key : Keys \cup {None}, map : [Keys -> Vals]]

VARIABLES
  file,     (* the file: its settings, or None                             *)
  temp,     (* the temporary file                                          *)
  loaded,   (* c.v, None while the process is down                         *)
  writer,   (* who is in Write2tempCall: [key, map], or None               *)
  event,    (* the file has changed and the watcher has not looked         *)
  watch,    (* the watcher: "idle", "read" (the file), "write" (temp)      *)
  latest,   (* latest[k]: the last value that anybody gave k (history)     *)
  sets,     (* the keys given by SetValue since the start (history)        *)
  edits,    (* those edited since the watcher read the file (history)      *)
  unsaved,  (* those read and not yet in the temporary file (history)      *)
  lost      (* those whose latest value the next start misses (history)    *)

configVars == <<file, temp, loaded, writer, event, watch, latest, sets, edits, unsaved, lost>>

Up == loaded # None

(* What a file means: the defaults for what it does not say. *)
Full(f) == [k \in Keys |-> IF k \in DOMAIN f THEN f[k] ELSE Default]
Empty == [k \in {} |-> Default]

(* f with another value for k. *)
Given(k, v, f) == [j \in {k} \cup DOMAIN f |-> IF j = k THEN v ELSE f[j]]

Init == /\ file = None /\ temp = None /\ loaded = None
        /\ writer = None
        /\ event = FALSE /\ watch = "idle"
        /\ latest = [k \in Keys |-> Default]
        /\ sets = {} /\ edits = {} /\ unsaved = {} /\ lost = {}

-----------------------------------------------------------------------------
(* load: swapTempConfigFile, writeDefaultConfigIfNotExists, ReadInConfig.  *)
Swapped == IF temp # None THEN temp ELSE file

Load ==
  /\ ~Up
  /\ file' = IF Swapped = None THEN Full(Empty) ELSE Swapped
  /\ temp' = None
  /\ loaded' = Full(IF Swapped = None THEN Empty ELSE Swapped)
  /\ latest' = loaded'
  /\ lost' = {}
  /\ UNCHANGED <<writer, event, watch, sets, edits, unsaved>>

(* Write2tempCall starts from what is loaded, which SetValue does not      *)
(* change; a mutant starts from nothing.                                   *)
FromNothing(k, v) == Given(k, v, Empty)
Settings(k, v) == Given(k, v, loaded)

(* The lock, fn, and the file is opened and with it emptied. *)
SetValue(k, v) ==
  /\ Up /\ writer = None
  /\ writer' = [key |-> k, map |-> Settings(k, v)]
  /\ temp' = Empty
  /\ UNCHANGED <<file, loaded, event, watch, latest, sets, edits, unsaved, lost>>

Rewrite ==
  /\ watch = "read" /\ writer = None
  /\ writer' = [key |-> None, map |-> loaded]
  /\ temp' = Empty
  /\ watch' = "write"
  /\ UNCHANGED <<file, loaded, event, latest, sets, edits, unsaved, lost>>

(* The settings are in the file: those of earlier calls are not. *)
Written ==
  LET k == writer.key IN
  /\ writer # None
  /\ temp' = writer.map
  /\ writer' = None
  /\ latest' = IF k = None THEN latest ELSE [latest EXCEPT ![k] = writer.map[k]]
  /\ lost' = (lost \cup sets) \ {k}
  /\ sets' = IF k = None THEN sets ELSE sets \cup {k}
  /\ watch' = IF k = None THEN "idle" ELSE watch
  /\ unsaved' = IF k = None THEN {} ELSE unsaved
  /\ UNCHANGED <<file, loaded, event, edits>>

(* viper's watcher has seen the change and reads the file. *)
Reread ==
  /\ event /\ watch = "idle"
  /\ event' = FALSE
  /\ loaded' = Full(file)
  /\ watch' = "read"
  /\ unsaved' = unsaved \cup edits
  /\ edits' = {}
  /\ UNCHANGED <<file, temp, writer, latest, sets, lost>>

(* Somebody edits the file. *)
Edit(k, v) ==
  /\ file # None
  /\ file' = Given(k, v, file)
  /\ latest' = [latest EXCEPT ![k] = v]
  /\ IF Up THEN /\ event' = TRUE
                /\ edits' = edits \cup {k}
                /\ sets' = sets \ {k}
                /\ lost' = lost \ {k}
     ELSE /\ lost' = IF temp = None THEN lost \ {k} ELSE lost \cup {k}
          /\ UNCHANGED <<event, edits, sets>>
  /\ UNCHANGED <<temp, loaded, writer, watch, unsaved>>

(* The process ends, or crashes in the middle of a write. *)
End ==
  /\ Up
  /\ loaded' = None
  /\ writer' = None
  /\ event' = FALSE /\ watch' = "idle"
  /\ lost' = IF writer # None THEN Keys
             ELSE IF temp # None THEN lost \cup edits \cup unsaved ELSE lost
  /\ sets' = {} /\ edits' = {} /\ unsaved' = {}
  /\ UNCHANGED <<file, temp, latest>>

Next == \/ Load \/ Rewrite \/ Written \/ Reread \/ End
        \/ \E k \in Keys, v \in Vals : SetValue(k, v) \/ Edit(k, v)

Spec == Init /\ [][Next]_configVars

-----------------------------------------------------------------------------
Files == UNION {[S -> Vals] : S \in SUBSET Keys}

TypeOK == /\ {file, temp} \subseteq Files \cup {None}
          /\ loaded \in [Keys -> Vals] \cup {None}
          /\ event \in BOOLEAN /\ watch \in {"idle", "read", "write"}
          /\ latest \in [Keys -> Vals]
          /\ sets \cup edits \cup unsaved \cup lost \subseteq Keys

(* A start finds every setting as it was last given, by SetValue or by an  *)
(* edit, but for what a later write of the temporary file left out, what   *)
(* was edited under a temporary file, or a crash in the middle of a write. *)
ChangesKept ==
  (loaded = None /\ loaded' # None) => \A k \in Keys \ lost : loaded'[k] = latest[k]
=============================================================================
