-------------------------------- MODULE Once --------------------------------
(***************************************************************************)
(* Objects that are made once and found by name: the single instances of   *)
(* util/singleton.go, made under the lock, and the redis clients of        *)
(* mdb/redisv9.go and log writers of util/logger.go, looked up under the   *)
(* read lock and made under the lock without another look.                 *)
(***************************************************************************)
EXTENDS Naturals, Sequences, FiniteSets, SequencesExt

CONSTANTS
  Callers,  (* the goroutines                                              *)
  Names,    (* the names                                                   *)
  Nested,   (* Nested[k]: what the newFunc of k loads itself, or None      *)
  Objects,  (* the objects that can be made, a bound                       *)
  None      (* no object, no name                                          *)

(* None is nobody and nothing; a newFunc loads another by its name. *)
OnceConstants == /\ None \notin Callers /\ None \notin Names /\ None \notin Objects
                 /\ Nested \in [Names -> Names \cup {None}]

VARIABLES
  holder,   (* which of them: "single", "client" or "writer"               *)
  m,        (* m[k]: the object of that name, or None                      *)
  lock,     (* who has the write lock, or None                             *)
  caller,   (* caller[c]: [pc, stack, got]                                 *)
  up,       (* the objects that are made and not closed                    *)
  name,     (* name[o]: the name for which o was made, or None (history)   *)
  since,    (* since[c]: the objects made since c looked (history)         *)
  raced,    (* the objects replaced by a caller that had looked before     *)
            (* they were made (history)                                    *)
  closing   (* Close has been called (history)                             *)

onceVars == <<holder, m, lock, caller, up, name, since, raced, closing>>

Init == /\ holder \in {"single", "client", "writer"}
        /\ m = [k \in Names |-> None]
        /\ lock = None
        /\ caller = [c \in Callers |-> [pc |-> "idle", stack |-> <<>>, got |-> None]]
        /\ up = {} /\ raced = {} /\ since = [c \in Callers |-> {}]
        /\ name = [o \in Objects |-> None]
        /\ closing = FALSE

Key(c) == Head(caller[c].stack)
To(c, pc) == caller' = [caller EXCEPT ![c].pc = pc]
Fresh == {o \in Objects : name[o] = None}

Get(c, k) ==
  /\ caller[c].pc = "idle"
  /\ caller' = [caller EXCEPT ![c] = [pc |-> IF holder = "single" THEN "lock" ELSE "look",
                                      stack |-> <<k>>, got |-> None]]
  /\ UNCHANGED <<holder, m, lock, up, name, since, raced, closing>>

Has(c, o) == caller' = [caller EXCEPT ![c] = [pc |-> "has", stack |-> @.stack, got |-> o]]

(* Under the read lock. *)
Look(c) ==
  /\ caller[c].pc = "look" /\ lock = None
  /\ IF m[Key(c)] = None THEN To(c, "lock") ELSE Has(c, m[Key(c)])
  /\ since' = [since EXCEPT ![c] = {}]
  /\ UNCHANGED <<holder, m, lock, up, name, raced, closing>>

(* The lock is not one that its owner can take again. *)
Lock(c) ==
  /\ caller[c].pc = "lock" /\ lock = None
  /\ lock' = c
  /\ To(c, "make")
  /\ UNCHANGED <<holder, m, up, name, since, raced, closing>>

(* Whether load makes one; a mutant does not look under the lock.          *)
NoLook(k) == TRUE
Absent(k) == m[k] = None
MakesNow(k) == holder # "single" \/ Absent(k)

Found(c) ==
  /\ caller[c].pc = "make" /\ ~MakesNow(Key(c))
  /\ lock' = None
  /\ Has(c, m[Key(c)])
  /\ UNCHANGED <<holder, m, up, name, since, raced, closing>>

(* newFunc loads another single instance. *)
Nest(c) ==
  LET k == Key(c) IN
  /\ caller[c].pc = "make" /\ holder = "single" /\ Absent(k) /\ Nested[k] # None
  /\ caller' = [caller EXCEPT ![c].pc = "lock", ![c].stack = <<Nested[k]>> \o @]
  /\ UNCHANGED <<holder, m, lock, up, name, since, raced, closing>>

Make(c, o) ==
  LET k == Key(c) IN
  /\ caller[c].pc = "make" /\ MakesNow(k)
  /\ holder = "single" => Nested[k] = None
  /\ o \in Fresh
  /\ name' = [name EXCEPT ![o] = k]
  /\ raced' = raced \cup ({m[k]} \cap since[c])
  /\ since' = [d \in Callers |-> IF d # c /\ caller[d].pc = "lock" THEN since[d] \cup {o}
                               ELSE {}]
  /\ m' = [m EXCEPT ![k] = o]
  /\ up' = up \cup {o}
  /\ lock' = None
  /\ Has(c, o)
  /\ UNCHANGED <<holder, closing>>

Done(c) ==
  /\ caller[c].pc = "has"
  /\ caller' = [caller EXCEPT ![c].pc = "idle", ![c].stack = <<>>]
  /\ UNCHANGED <<holder, m, lock, up, name, since, raced, closing>>

(* RedisV9.Close forgets what it closes, logWriterMap.Close does not: a    *)
(* writer opens its file again.                                            *)
Close ==
  /\ holder # "single" /\ lock = None /\ ~closing
  /\ closing' = TRUE
  /\ up' = up \ {m[k] : k \in Names}
  /\ m' = IF holder = "client" THEN [k \in Names |-> None] ELSE m
  /\ UNCHANGED <<holder, lock, caller, name, since, raced>>

Next == \/ \E c \in Callers : \/ \E k \in Names : Get(c, k)
                              \/ Look(c) \/ Lock(c) \/ Found(c) \/ Nest(c) \/ Done(c)
                              \/ \E o \in Objects : Make(c, o)
        \/ Close

Spec == Init /\ [][Next]_onceVars

-----------------------------------------------------------------------------
TypeOK ==
  /\ m \in [Names -> Objects \cup {None}]
  /\ lock \in Callers \cup {None}
  /\ up \subseteq Objects /\ raced \subseteq Objects
  /\ \A c \in Callers : /\ caller[c].pc \in {"idle", "look", "lock", "make", "has"}
                        /\ caller[c].stack \in Seq(Names)

(* A single instance is made at most once, whoever asks for it and when.   *)
MadeOnce == holder = "single" => \A o, p \in Objects :
              (o # p /\ name[o] # None) => name[o] # name[p]

(* An object that nobody finds any more and nobody will close was replaced *)
(* by a caller that had looked for it before it was made.                  *)
LeakExplained == \A o \in up : o \in raced \/ o = m[name[o]]

(* A caller waits for ever only for the lock that it holds itself, in a    *)
(* newFunc that loads a single instance.                                   *)
StuckExplained ==
  \A c \in Callers : (lock = c /\ caller[c].pc = "lock")
    => Len(caller[c].stack) = 2 /\ Nested[Last(caller[c].stack)] # None

OneEach == MadeOnce /\ LeakExplained /\ StuckExplained
=============================================================================
