------------------------------ MODULE DbStart -------------------------------
(***************************************************************************)
(* The start of a process with its database, mdb/db.go and migrate.go:     *)
(* Initialize creates the database and opens it, MigrateModels creates the *)
(* tables, inserts the initial rows and writes the lock file of its host,  *)
(* CreateIfNotExists inserts a record later on.  Several processes start   *)
(* on one database; any of them may be killed at any point and started     *)
(* again.                                                                  *)
(***************************************************************************)
EXTENDS Naturals, FiniteSets

CONSTANTS
  Procs,    (* the processes                                               *)
  Host,     (* Host[p]: the root directory, with its lock file, of p       *)
  Tables,   (* the tables of the models, all of them ItfModelInitializer   *)
  Record,   (* the table CreateIfNotExists is used on                      *)
  Unique,   (* the tables whose rows have unique keys                      *)
  Options,  (* the settings in use: [type, open, idle, life, idleLife],    *)
            (* the type "mysql" or "pg"                                    *)
  Asks      (* whether MigrateModels is told to migrate: a set of BOOLEAN  *)

(* The settings are not negative. *)
DbConstants == \A o \in Options : {o.open, o.idle, o.life, o.idleLife} \subseteq Nat

VARIABLES
  opt,      (* the dialect and the settings                                *)
  exists,   (* the database exists                                         *)
  tables,   (* the tables that exist                                       *)
  seeds,    (* seeds[t]: how often the initial rows are in t, up to 2      *)
  others,   (* the tables with rows of the application                     *)
  lock,     (* the hosts with a lock file                                  *)
  proc,     (* proc[p], [pc, todo, at]                                     *)
  raced,    (* the tables where a process counted while another was about  *)
            (* to insert, or whose count failed (history)                  *)
  dropped   (* the database was dropped (history)                          *)

dbVars == <<opt, exists, tables, seeds, others, lock, proc, raced, dropped>>

database == <<exists, tables, seeds, others>>

All == Tables \cup {Record}

-----------------------------------------------------------------------------
(* The settings of the pool in dbInitiate.  An idle time of 0 is no limit  *)
(* for database/sql.                                                       *)
Capped(n, default, most) == IF n = 0 THEN default ELSE IF n >= most THEN most ELSE n

(* A mutant keeps as many idle connections as were asked for. *)
AsAsked(idle, open) == IF idle = 0 THEN 50 ELSE idle
IdleConns(idle, open) ==
  LET n == IF idle = 0 THEN 50 ELSE idle
  IN  IF n >= open THEN open \div 2 ELSE n

IdleTime(n, life) ==
  LET t == IF n = 0 THEN 30 ELSE n
  IN  IF t >= life THEN (life * 80) \div 100 ELSE t

Pool(o) ==
  LET open == Capped(o.open, 200, 2000)
      life == Capped(o.life, 30, 3600)
  IN  [open |-> open, idle |-> IdleConns(o.idle, open),
       life |-> life, idleLife |-> IdleTime(o.idleLife, life)]

-----------------------------------------------------------------------------
Off == [pc |-> "off", todo |-> {}, at |-> Record]

Init == /\ opt \in Options
        /\ exists = FALSE
        /\ tables = {} /\ others = {}
        /\ seeds = [t \in All |-> 0]
        /\ lock = {}
        /\ proc = [p \in Procs |-> Off]
        /\ raced = {} /\ dropped = FALSE

To(p, pc) == proc' = [proc EXCEPT ![p].pc = pc]

(* log.Fatalf *)
Fatal(p) == proc' = [proc EXCEPT ![p] = Off]

(* createDB: at once in mysql; postgres counts first and creates then. *)
CreateMySQL(p) ==
  /\ proc[p].pc = "off" /\ opt.type = "mysql"
  /\ exists' = TRUE
  /\ To(p, "open")
  /\ UNCHANGED <<opt, tables, seeds, others, lock, raced, dropped>>

CountDB(p) ==
  /\ proc[p].pc = "off" /\ opt.type = "pg"
  /\ To(p, IF exists THEN "open" ELSE "create")
  /\ UNCHANGED <<opt, database, lock, raced, dropped>>

CreatePG(p) ==
  /\ proc[p].pc = "create"
  /\ IF exists THEN Fatal(p) ELSE To(p, "open")
  /\ exists' = TRUE
  /\ UNCHANGED <<opt, tables, seeds, others, lock, raced, dropped>>

(* dbInitiate *)
Open(p) ==
  /\ proc[p].pc = "open"
  /\ IF exists THEN To(p, "models") ELSE Fatal(p)
  /\ UNCHANGED <<opt, database, lock, raced, dropped>>

(* MigrateModels: the lock file, or nobody asked for it. *)
Locked(h) == h \in lock

MigrateModels(p, migrate) ==
  /\ proc[p].pc = "models"
  /\ proc' = [proc EXCEPT ![p].pc = IF Locked(Host[p]) \/ ~migrate THEN "up" ELSE "migrate",
                          ![p].todo = {}]
  /\ UNCHANGED <<opt, database, lock, raced, dropped>>

(* AutoMigrate looks which tables are missing, and creates them. *)
AutoMigrate(p) ==
  /\ proc[p].pc = "migrate"
  /\ IF exists THEN proc' = [proc EXCEPT ![p].pc = "tables", ![p].todo = All \ tables]
     ELSE Fatal(p)
  /\ UNCHANGED <<opt, database, lock, raced, dropped>>

CreateTables(p) ==
  /\ proc[p].pc = "tables"
  /\ IF ~exists \/ proc[p].todo \cap tables # {}
     THEN Fatal(p) /\ UNCHANGED tables
     ELSE /\ tables' = tables \cup proc[p].todo
          /\ proc' = [proc EXCEPT ![p].pc = "seed", ![p].todo = Tables]
  /\ UNCHANGED <<opt, exists, seeds, others, lock, raced, dropped>>

(* A process that is about to insert into t. *)
Inserting(t) == {q \in Procs : proc[q].pc \in {"insert", "create1"} /\ proc[q].at = t}

Empty(t) == seeds[t] = 0 /\ t \notin others

(* initializeModel: the count decides; a mutant inserts anyway. *)
Always(t) == TRUE
Wanted(t) == Empty(t)

CountRows(p, t) ==
  /\ proc[p].pc = "seed" /\ t \in proc[p].todo
  /\ IF t \notin tables THEN Fatal(p)
     ELSE proc' = [proc EXCEPT ![p].todo = @ \ {t}, ![p].at = t,
                               ![p].pc = IF Wanted(t) THEN "insert" ELSE "seed"]
  /\ raced' = IF Inserting(t) # {} THEN raced \cup {t} ELSE raced
  /\ UNCHANGED <<opt, database, lock, dropped>>

(* CreateInBatches and Create: a transaction, refused when keys are taken. *)
Refuses(t) == t \notin tables \/ (t \in Unique /\ seeds[t] > 0)

InsertInto(t) == seeds' = [seeds EXCEPT ![t] = IF @ = 2 THEN 2 ELSE @ + 1]

InsertRows(p) ==
  /\ proc[p].pc = "insert"
  /\ IF Refuses(proc[p].at) THEN Fatal(p) /\ UNCHANGED seeds
     ELSE InsertInto(proc[p].at) /\ To(p, "seed")
  /\ UNCHANGED <<opt, exists, tables, others, lock, raced, dropped>>

(* createMigrateLockFile, whose error is ignored. *)
WriteLock(p) ==
  /\ proc[p].pc = "seed" /\ proc[p].todo = {}
  /\ lock' \in {lock, lock \cup {Host[p]}}
  /\ To(p, "up")
  /\ UNCHANGED <<opt, database, raced, dropped>>

-----------------------------------------------------------------------------
(* CreateIfNotExists: a count that fails is a count of zero.               *)
CountRecord(p) ==
  /\ proc[p].pc = "up"
  /\ \E fails \in BOOLEAN :
       /\ proc' = [proc EXCEPT ![p].at = Record,
                               ![p].pc = IF fails \/ Empty(Record) THEN "create1" ELSE "up"]
       /\ raced' = IF fails \/ Inserting(Record) # {} THEN raced \cup {Record} ELSE raced
  /\ UNCHANGED <<opt, database, lock, dropped>>

CreateRecord(p) ==
  /\ proc[p].pc = "create1"
  /\ IF Refuses(Record) THEN UNCHANGED seeds ELSE InsertInto(Record)
  /\ To(p, "up")
  /\ UNCHANGED <<opt, exists, tables, others, lock, raced, dropped>>

(* The application inserts rows of its own. *)
AppInserts(p, t) ==
  /\ proc[p].pc = "up" /\ t \in tables
  /\ others' = others \cup {t}
  /\ UNCHANGED <<opt, exists, tables, seeds, lock, proc, raced, dropped>>

(* A refusal, by postgres for one in use, ends the process as in Crash.    *)
DropDB(p) ==
  /\ proc[p].pc = "up"
  /\ exists' = FALSE /\ tables' = {} /\ others' = {}
  /\ seeds' = [t \in All |-> 0]
  /\ dropped' = TRUE
  /\ UNCHANGED <<opt, lock, proc, raced>>

(* The process is killed, or ends. *)
Crash(p) ==
  /\ proc[p].pc # "off"
  /\ Fatal(p)
  /\ UNCHANGED <<opt, database, lock, raced, dropped>>

Starts(p) == \/ CreateMySQL(p) \/ CountDB(p) \/ CreatePG(p) \/ Open(p)
             \/ \E migrate \in Asks : MigrateModels(p, migrate)
             \/ AutoMigrate(p) \/ CreateTables(p) \/ InsertRows(p) \/ WriteLock(p)
             \/ \E t \in Tables : CountRows(p, t)

Runs(p) == \/ CountRecord(p) \/ CreateRecord(p) \/ DropDB(p)
           \/ \E t \in All : AppInserts(p, t)

Next == \E p \in Procs : Starts(p) \/ Runs(p) \/ Crash(p)

Spec == Init /\ [][Next]_dbVars

-----------------------------------------------------------------------------
TypeOK ==
  /\ exists \in BOOLEAN /\ dropped \in BOOLEAN
  /\ tables \subseteq All /\ others \subseteq tables /\ raced \subseteq All
  /\ seeds \in [All -> 0..2]
  /\ opt \in Options
  /\ lock \subseteq {Host[p] : p \in Procs}
  /\ proc \in [Procs -> [pc : {"off", "create", "open", "models", "migrate", "tables",
                              "seed", "insert", "up", "create1"},
                        todo : SUBSET All, at : All]]

(* The initial rows are there once, however often processes are killed and *)
(* started between the insert and the lock file, and so is a record of     *)
(* CreateIfNotExists.  Twice takes two processes between count and insert  *)
(* at the same time, or a count that failed, and no unique key.            *)
SeededOnce == \A t \in All : seeds[t] > 1 => t \in raced \ Unique

(* Where the lock file tells later starts to skip the migration, there is  *)
(* nothing left to migrate: tables exist and none was left empty.          *)
LockMeansDone == (lock # {} /\ ~dropped) => tables = All /\ \A t \in Tables : ~Empty(t)

(* The pool that a process runs with: idle connections within the open     *)
(* ones, idle time within the lifetime, and a limit for it but for the     *)
(* lifetime of a second, whose 80% are 0.                                  *)
PoolWithin ==
  LET o == Pool(opt) IN
  (\E p \in Procs : proc[p].pc \notin {"off", "create", "open"})
    => /\ o.open \in 1..2000 /\ o.life \in 1..3600
       /\ o.idle <= o.open /\ o.idleLife <= o.life
       /\ o.idleLife = 0 => o.life = 1

(* A start can be repeated and raced.                                      *)
StartRepeatable == SeededOnce /\ LockMeansDone /\ PoolWithin
=============================================================================
