----------------------------- MODULE DataProofs -----------------------------
(***************************************************************************)
(* Proofs about the machines of Data: the start of the database, which can *)
(* be repeated and raced; the stores, whose cleaners take what is expired; *)
(* the tokens of giris, which come to an end; retention, which deletes the *)
(* rows it has counted, and no others; the keys of the cache; the pages of *)
(* a search, which meet every record.  At the end the types of them all.   *)
(***************************************************************************)
EXTENDS Data, FiniteSetTheorems, SequenceTheorems, WellFoundedInduction, TLAPS

-----------------------------------------------------------------------------
(* The machine that runs takes its own steps, or none.                     *)
LEMMA OneBegins ==
  ASSUME DataInit
  PROVE  /\ Init
         /\ machine = "keys" => K!Init
         /\ machine = "stores" => T!Init
         /\ machine = "db" => B!Init
         /\ machine = "giris" => G!Init
         /\ machine = "paging" => P!Init
BY Zenon DEF DataInit

LEMMA OneRuns ==
  ASSUME [DataNext]_dataVars
  PROVE  /\ machine' = machine
         /\ [Next]_vars
         /\ machine = "keys" => [K!Next]_keysVars
         /\ machine = "stores" => [T!Next]_storeVars
         /\ machine = "db" => [B!Next]_dbVars
         /\ machine = "giris" => [G!Next]_girisVars
         /\ machine = "paging" => [P!Next]_pagingVars
<1>1. CASE DataNext
  <2>1. machine' = machine
    BY <1>1, Zenon DEF DataNext, Others
  <2>2. /\ machine = "keys" => K!Next
        /\ machine = "stores" => T!Next
        /\ machine = "db" => B!Next
        /\ machine = "giris" => G!Next
        /\ machine = "paging" => P!Next
    BY <1>1 DEF DataNext
  <2>3. Next \/ UNCHANGED vars
    <3>1. CASE machine = "retention"
      BY <1>1, <3>1 DEF DataNext
    <3>2. CASE machine # "retention"
      BY <1>1, <3>2, Zenon DEF DataNext, Others
    <3>3. QED
      BY <3>1, <3>2
  <2>4. QED
    BY <2>1, <2>2, <2>3, Zenon
<1>2. CASE UNCHANGED dataVars
  BY <1>2, Zenon DEF dataVars
<1>3. QED
  BY <1>1, <1>2

-----------------------------------------------------------------------------
(* Where nobody counted beside an insert there is one who inserts, into an *)
(* empty table, and the rows are there once at most.                       *)
Single(t) ==
  t \notin raced => /\ \A p, q \in B!Inserting(t) : p = q
                    /\ B!Inserting(t) # {} => seeds[t] = 0
                    /\ seeds[t] <= 1

Keyed(t) == t \in Unique => seeds[t] <= 1

(* A process that creates one record is at the table of the records.       *)
AtRecord == \A p \in Procs : proc[p].pc = "create1" => proc[p].at = Record

(* What a start has done when it is beyond the migration of the tables:    *)
(* they exist, and those it has counted have rows, but for the one that it *)
(* is about to insert into.                                                *)
Creates == \A p \in Procs : proc[p].pc = "tables" => B!All \ tables \subseteq proc[p].todo

Counted(p) ==
  proc[p].pc \in {"seed", "insert"} =>
    /\ tables = B!All
    /\ \A t \in Tables \ proc[p].todo :
         B!Empty(t) => proc[p].pc = "insert" /\ proc[p].at = t

Locked == lock # {} => tables = B!All /\ \A t \in Tables : ~B!Empty(t)

Settled == ~dropped => Creates /\ Locked /\ \A p \in Procs : Counted(p)

DbInv == /\ B!TypeOK /\ AtRecord /\ Settled
         /\ \A t \in B!All : Single(t) /\ Keyed(t)

-----------------------------------------------------------------------------
LEMMA DbInit == B!Init => DbInv
<1> SUFFICES ASSUME B!Init PROVE DbInv
  OBVIOUS
<1>1. B!TypeOK
  <2>1. exists \in BOOLEAN /\ dropped \in BOOLEAN
    BY Zenon DEF B!Init
  <2>2. B!Off \in [pc : {"off"}, todo : SUBSET B!All, at : B!All]
    BY DEF B!Off, B!All
  <2>3. QED
    BY <2>1, <2>2 DEF B!Init, B!TypeOK
<1>2. AtRecord /\ Settled
  BY DEF B!Init, B!Off, AtRecord, Settled, Creates, Counted, Locked
<1>3. ASSUME NEW t \in B!All PROVE Single(t) /\ Keyed(t)
  BY <1>3 DEF B!Init, B!Off, Single, Keyed, B!Inserting
<1>4. QED
  BY <1>1, <1>2, <1>3 DEF DbInv

LEMMA DbTyped == ASSUME B!TypeOK, B!Next PROVE B!TypeOK'
<1> USE DEF B!TypeOK
<1>1. PICK p \in Procs : B!Starts(p) \/ B!Runs(p) \/ B!Crash(p)
  BY DEF B!Next
<1>2. CASE B!CreateMySQL(p)
  BY <1>2 DEF B!CreateMySQL, B!To
<1>3. CASE B!CountDB(p)
  BY <1>3 DEF B!CountDB, B!To, B!database
<1>4. CASE B!CreatePG(p)
  BY <1>4 DEF B!CreatePG, B!To, B!Fatal, B!Off, B!All
<1>5. CASE B!Open(p)
  BY <1>5 DEF B!Open, B!To, B!Fatal, B!Off, B!All, B!database
<1>6. ASSUME NEW m \in Asks, B!MigrateModels(p, m) PROVE B!TypeOK'
  BY <1>6 DEF B!MigrateModels, B!database
<1>7. CASE B!AutoMigrate(p)
  BY <1>7 DEF B!AutoMigrate, B!Fatal, B!Off, B!All, B!database
<1>8. CASE B!CreateTables(p)
  BY <1>8 DEF B!CreateTables, B!Fatal, B!Off, B!All
<1>9. ASSUME NEW t \in Tables, B!CountRows(p, t) PROVE B!TypeOK'
  BY <1>9 DEF B!CountRows, B!Fatal, B!Off, B!All, B!database
<1>10. CASE B!InsertRows(p)
  BY <1>10 DEF B!InsertRows, B!InsertInto, B!To, B!Fatal, B!Off, B!All
<1>11. CASE B!WriteLock(p)
  BY <1>11 DEF B!WriteLock, B!To, B!database
<1>12. CASE B!CountRecord(p)
  <2>1. proc' = [proc EXCEPT ![p].at = Record, ![p].pc = proc'[p].pc]
        /\ proc'[p].pc \in {"create1", "up"}
    BY <1>12 DEF B!CountRecord
  <2>2. raced' \subseteq B!All
    BY <1>12 DEF B!CountRecord, B!All
  <2>3. UNCHANGED <<opt, exists, tables, seeds, others, lock, dropped>>
    BY <1>12 DEF B!CountRecord, B!database
  <2>4. QED
    BY <2>1, <2>2, <2>3 DEF B!All
<1>13. CASE B!CreateRecord(p)
  BY <1>13 DEF B!CreateRecord, B!InsertInto, B!To, B!All
<1>14. CASE B!DropDB(p)
  <2>1. exists' \in BOOLEAN /\ dropped' \in BOOLEAN
    BY <1>14, Zenon DEF B!DropDB
  <2>2. QED
    BY <1>14, <2>1 DEF B!DropDB
<1>15. ASSUME NEW t \in B!All, B!AppInserts(p, t) PROVE B!TypeOK'
  BY <1>15 DEF B!AppInserts
<1>16. CASE B!Crash(p)
  BY <1>16 DEF B!Crash, B!Fatal, B!Off, B!All, B!database
<1>17. QED
  BY <1>1, <1>2, <1>3, <1>4, <1>5, <1>6, <1>7, <1>8, <1>9, <1>10, <1>11, <1>12, <1>13, <1>14,
     <1>15, <1>16 DEF B!Starts, B!Runs

(* A step of p leaves the others where they are. *)
LEMMA DbOthers ==
  ASSUME B!TypeOK, NEW p \in Procs, B!Starts(p) \/ B!Runs(p) \/ B!Crash(p)
  PROVE  \A q \in Procs \ {p} : proc'[q] = proc[q]
<1> USE DEF B!TypeOK, B!To, B!Fatal, B!database
<1>1. CASE B!Starts(p)
  BY <1>1 DEF B!Starts, B!CreateMySQL, B!CountDB, B!CreatePG, B!Open, B!MigrateModels,
              B!AutoMigrate, B!CreateTables, B!CountRows, B!InsertRows, B!WriteLock
<1>2. CASE B!Runs(p)
  BY <1>2 DEF B!Runs, B!CountRecord, B!CreateRecord, B!DropDB, B!AppInserts
<1>3. CASE B!Crash(p)
  BY <1>3 DEF B!Crash
<1>4. QED
  BY <1>1, <1>2, <1>3

(* Which step takes p where it does what others must not do beside it. *)
LEMMA DbLands ==
  ASSUME B!TypeOK, NEW p \in Procs, B!Starts(p) \/ B!Runs(p) \/ B!Crash(p), proc' # proc
  PROVE  /\ proc'[p].pc = "tables" => B!AutoMigrate(p)
         /\ proc'[p].pc = "create1" => B!CountRecord(p)
         /\ proc'[p].pc = "insert" => \E t \in Tables : B!CountRows(p, t)
         /\ proc'[p].pc = "seed" => \/ B!CreateTables(p) \/ B!InsertRows(p)
                                    \/ \E t \in Tables : B!CountRows(p, t)
<1> USE DEF B!TypeOK, B!To, B!Fatal, B!Off, B!database
<1>1. CASE B!CreateMySQL(p) \/ B!CountDB(p) \/ B!CreatePG(p) \/ B!Open(p)
  BY <1>1 DEF B!CreateMySQL, B!CountDB, B!CreatePG, B!Open
<1>2. ASSUME NEW m \in Asks, B!MigrateModels(p, m) PROVE proc'[p].pc \in {"up", "migrate"}
  BY <1>2 DEF B!MigrateModels
<1>3. CASE B!AutoMigrate(p)
  BY <1>3 DEF B!AutoMigrate
<1>4. CASE B!CreateTables(p)
  BY <1>4 DEF B!CreateTables
<1>5. ASSUME NEW t \in Tables, B!CountRows(p, t) PROVE proc'[p].pc \in {"seed", "insert", "off"}
  BY <1>5 DEF B!CountRows
<1>6. CASE B!InsertRows(p) \/ B!WriteLock(p)
  BY <1>6 DEF B!InsertRows, B!WriteLock
<1>7. CASE B!CountRecord(p)
  BY <1>7 DEF B!CountRecord
<1>8. CASE B!CreateRecord(p) \/ B!Crash(p)
  BY <1>8 DEF B!CreateRecord, B!Crash
<1>9. CASE B!DropDB(p) \/ \E t \in B!All : B!AppInserts(p, t)
  BY <1>9 DEF B!DropDB, B!AppInserts
<1>10. QED
  BY <1>1, <1>2, <1>3, <1>4, <1>5, <1>6, <1>7, <1>8, <1>9 DEF B!Starts, B!Runs

(* Nobody but one who counts comes to be about to insert. *)
LEMMA DbInserters ==
  ASSUME B!TypeOK, NEW p \in Procs, B!Starts(p) \/ B!Runs(p) \/ B!Crash(p),
         \A t \in Tables : ~B!CountRows(p, t), ~B!CountRecord(p)
  PROVE  raced' = raced /\ \A t \in B!All : B!Inserting(t)' \subseteq B!Inserting(t)
<1>1. raced' = raced
  BY DEF B!Starts, B!CreateMySQL, B!CountDB, B!CreatePG, B!Open, B!MigrateModels, B!AutoMigrate,
         B!CreateTables, B!InsertRows, B!WriteLock, B!Runs, B!CreateRecord, B!DropDB,
         B!AppInserts, B!Crash
<1>2. proc' # proc => proc'[p].pc \notin {"insert", "create1"}
  BY DbLands
<1>3. \A t \in B!All : B!Inserting(t)' \subseteq B!Inserting(t)
  BY <1>2, DbOthers DEF B!Inserting
<1>4. QED
  BY <1>1, <1>3

LEMMA SingleStep ==
  ASSUME B!TypeOK, AtRecord, B!Next, NEW t \in B!All, Single(t)
  PROVE  Single(t)'
<1> USE DEF B!TypeOK
<1>1. PICK p \in Procs : B!Starts(p) \/ B!Runs(p) \/ B!Crash(p)
  BY DEF B!Next
<1>2. \A q \in Procs \ {p} : proc'[q] = proc[q]
  BY <1>1, DbOthers
<1>3. ASSUME NEW u \in Tables, B!CountRows(p, u) PROVE Single(t)'
  <2>1. /\ UNCHANGED seeds /\ (u = t /\ B!Inserting(t) # {} => t \in raced')
        /\ raced \subseteq raced' /\ (proc'[p].pc = "insert" => proc'[p].at = u /\ B!Empty(u))
        /\ proc'[p].pc # "create1"
    BY <1>3 DEF B!CountRows, B!Wanted, B!Fatal, B!Off, B!database
  <2>2. \/ B!Inserting(t)' \subseteq B!Inserting(t)
        \/ u = t /\ B!Inserting(t)' \subseteq B!Inserting(t) \cup {p} /\ seeds[t] = 0
    BY <1>2, <2>1 DEF B!Inserting, B!Empty
  <2>3. QED
    BY <2>1, <2>2 DEF Single
<1>4. CASE B!CountRecord(p)
  <2>1. /\ UNCHANGED seeds /\ (t = Record /\ B!Inserting(t) # {} => t \in raced')
        /\ raced \subseteq raced' /\ proc'[p].pc # "insert"
        /\ proc'[p].pc = "create1" => /\ proc'[p].at = Record
                                      /\ Record \in raced' \/ seeds[Record] = 0
    BY <1>4 DEF B!CountRecord, B!Empty, B!All, B!database
  <2>2. \/ B!Inserting(t)' \subseteq B!Inserting(t)
        \/ /\ t = Record /\ B!Inserting(t)' \subseteq B!Inserting(t) \cup {p}
           /\ t \in raced' \/ seeds[t] = 0
    BY <1>2, <2>1 DEF B!Inserting
  <2>3. QED
    BY <2>1, <2>2 DEF Single
<1>5. CASE (\A u \in Tables : ~B!CountRows(p, u)) /\ ~B!CountRecord(p)
  <2>1. raced' = raced /\ B!Inserting(t)' \subseteq B!Inserting(t)
    BY <1>1, <1>5, DbInserters
  <2>2. CASE UNCHANGED seeds \/ seeds' = [u \in B!All |-> 0]
    BY <2>1, <2>2 DEF Single
  <2>3. ASSUME proc[p].pc = "insert" \/ (proc[p].pc = "create1" /\ proc[p].at = Record),
               B!InsertInto(proc[p].at), proc'[p].pc \notin {"insert", "create1"}
        PROVE  Single(t)'
    <3>1. CASE proc[p].at = t
      <4>1. p \in B!Inserting(t) /\ p \notin B!Inserting(t)'
        BY <2>3, <3>1 DEF B!Inserting
      <4>2. t \notin raced => B!Inserting(t)' = {} /\ seeds[t] = 0
        BY <2>1, <4>1 DEF Single
      <4>3. seeds'[t] = IF seeds[t] = 2 THEN 2 ELSE seeds[t] + 1
        BY <2>3, <3>1 DEF B!InsertInto
      <4>4. QED
        BY <2>1, <4>2, <4>3 DEF Single
    <3>2. CASE proc[p].at # t
      <4>1. seeds'[t] = seeds[t]
        BY <2>3, <3>2 DEF B!InsertInto
      <4>2. QED
        BY <2>1, <4>1 DEF Single
    <3>3. QED
      BY <3>1, <3>2
  <2>4. CASE B!InsertRows(p) \/ B!CreateRecord(p)
    <3>1. /\ proc[p].pc = "insert" \/ (proc[p].pc = "create1" /\ proc[p].at = Record)
          /\ proc'[p].pc \notin {"insert", "create1"}
      BY <2>4 DEF B!InsertRows, B!CreateRecord, B!To, B!Fatal, B!Off, AtRecord
    <3>2. UNCHANGED seeds \/ B!InsertInto(proc[p].at)
      BY <2>4 DEF B!InsertRows, B!CreateRecord, AtRecord
    <3>3. QED
      BY <2>2, <2>3, <3>1, <3>2
  <2>5. CASE ~B!InsertRows(p) /\ ~B!CreateRecord(p)
    <3>1. UNCHANGED seeds \/ seeds' = [u \in B!All |-> 0]
      BY <1>1, <1>5, <2>5
         DEF B!Starts, B!CreateMySQL, B!CountDB, B!CreatePG, B!Open, B!MigrateModels, B!AutoMigrate,
             B!CreateTables, B!WriteLock, B!Runs, B!DropDB, B!AppInserts, B!Crash, B!database
    <3>2. QED
      BY <2>2, <3>1
  <2>6. QED
    BY <2>4, <2>5
<1>6. QED
  BY <1>3, <1>4, <1>5

LEMMA KeyedStep ==
  ASSUME B!TypeOK, AtRecord, B!Next, NEW t \in B!All, Keyed(t)
  PROVE  Keyed(t)'
<1> USE DEF B!TypeOK
<1>1. PICK p \in Procs : B!Starts(p) \/ B!Runs(p) \/ B!Crash(p)
  BY DEF B!Next
<1>2. \/ seeds'[t] \in {0, seeds[t]}
      \/ ~B!Refuses(proc[p].at) /\ B!InsertInto(proc[p].at)
  <2>1. CASE B!InsertRows(p) \/ B!CreateRecord(p)
    BY <2>1 DEF B!InsertRows, B!CreateRecord, AtRecord
  <2>2. CASE ~B!InsertRows(p) /\ ~B!CreateRecord(p)
    <3>1. UNCHANGED seeds \/ seeds' = [u \in B!All |-> 0]
      BY <1>1, <2>2
         DEF B!Starts, B!CreateMySQL, B!CountDB, B!CreatePG, B!Open, B!MigrateModels, B!AutoMigrate,
             B!CreateTables, B!CountRows, B!WriteLock, B!Runs, B!CountRecord, B!DropDB,
             B!AppInserts, B!Crash, B!database
    <3>2. QED
      BY <3>1
  <2>3. QED
    BY <2>1, <2>2
<1>3. QED
  BY <1>2 DEF Keyed, B!Refuses, B!InsertInto

LEMMA AtRecordStep == ASSUME B!TypeOK, AtRecord, B!Next PROVE AtRecord'
<1> USE DEF B!TypeOK, AtRecord
<1>1. PICK p \in Procs : B!Starts(p) \/ B!Runs(p) \/ B!Crash(p)
  BY DEF B!Next
<1>2. proc' = proc \/ B!CountRecord(p) \/ proc'[p].pc # "create1"
  BY <1>1, DbLands
<1>3. B!CountRecord(p) => proc'[p].at = Record
  BY DEF B!CountRecord
<1>4. QED
  BY <1>1, <1>2, <1>3, DbOthers

(* But for DropDB, tables are only added, and rows to them. *)
LEMMA DbGrows ==
  ASSUME B!TypeOK, NEW p \in Procs, B!Starts(p) \/ B!Runs(p) \/ B!Crash(p), ~B!DropDB(p)
  PROVE  /\ tables \subseteq tables' /\ dropped' = dropped
         /\ \A t \in B!All : B!Empty(t)' => B!Empty(t)
<1> USE DEF B!TypeOK, B!database
<1>1. CASE B!InsertRows(p) \/ B!CreateRecord(p)
  BY <1>1 DEF B!InsertRows, B!CreateRecord, B!InsertInto, B!Empty
<1>2. CASE \E t \in B!All : B!AppInserts(p, t)
  BY <1>2 DEF B!AppInserts, B!Empty
<1>3. CASE B!CreateTables(p)
  BY <1>3 DEF B!CreateTables, B!Empty
<1>4. CASE UNCHANGED <<tables, seeds, others, dropped>>
  BY <1>4 DEF B!Empty
<1>5. QED
  BY <1>1, <1>2, <1>3, <1>4
     DEF B!Starts, B!CreateMySQL, B!CountDB, B!CreatePG, B!Open, B!MigrateModels, B!AutoMigrate,
         B!CountRows, B!WriteLock, B!Runs, B!CountRecord, B!Crash

LEMMA SettledStep == ASSUME B!TypeOK, AtRecord, Settled, B!Next PROVE Settled'
<1> SUFFICES ASSUME ~dropped' PROVE (Creates /\ Locked /\ \A p \in Procs : Counted(p))'
  BY DEF Settled
<1> USE DEF B!TypeOK
<1>1. PICK p \in Procs : B!Starts(p) \/ B!Runs(p) \/ B!Crash(p)
  BY DEF B!Next
<1>2. ~B!DropDB(p)
  BY DEF B!DropDB
<1>3. /\ tables \subseteq tables' /\ tables' \subseteq B!All /\ ~dropped
      /\ \A t \in B!All : B!Empty(t)' => B!Empty(t)
  BY <1>1, <1>2, DbGrows, DbTyped
<1>4. Creates /\ Locked /\ \A q \in Procs : Counted(q)
  BY <1>3 DEF Settled
<1>5. \A q \in Procs \ {p} : proc'[q] = proc[q]
  BY <1>1, DbOthers
<1>6. Creates'
  <2>1. proc'[p].pc = "tables" => B!All \ tables' \subseteq proc'[p].todo
    <3>1. CASE proc' = proc
      BY <1>3, <1>4, <3>1 DEF Creates
    <3>2. CASE B!AutoMigrate(p)
      BY <3>2 DEF B!AutoMigrate, B!Fatal, B!Off, B!database
    <3>3. QED
      BY <1>1, <3>1, <3>2, DbLands
  <2>2. QED
    BY <1>3, <1>4, <1>5, <2>1 DEF Creates
<1>7. ASSUME NEW q \in Procs PROVE Counted(q)'
  <2>1. CASE proc'[q] = proc[q]
    BY <1>3, <1>4, <2>1 DEF Counted, B!All
  <2>2. CASE q = p /\ proc'[p] # proc[p]
    <3>1. CASE B!CreateTables(p)
      <4>1. tables' = B!All \/ proc'[p].pc = "off"
        <5>1. proc'[p].pc = "off" \/ tables' = tables \cup proc[p].todo
          BY <3>1 DEF B!CreateTables, B!Fatal, B!Off
        <5>2. B!All \ tables \subseteq proc[p].todo
          BY <1>4, <3>1 DEF B!CreateTables, Creates
        <5>3. QED
          BY <1>3, <5>1, <5>2
      <4>2. proc'[p].pc = "seed" => proc'[p].todo = Tables
        BY <3>1 DEF B!CreateTables, B!Fatal, B!Off
      <4>3. proc'[p].pc \in {"seed", "off"}
        BY <3>1 DEF B!CreateTables, B!Fatal, B!Off
      <4>4. QED
        BY <2>2, <4>1, <4>2, <4>3 DEF Counted
    <3>2. ASSUME NEW t \in Tables, B!CountRows(p, t) PROVE Counted(p)'
      BY <1>3, <1>4, <3>2 DEF B!CountRows, B!Wanted, B!Fatal, B!Off, B!database, Counted, B!All
    <3>3. CASE B!InsertRows(p)
      BY <1>3, <1>4, <3>3
         DEF B!InsertRows, B!InsertInto, B!To, B!Fatal, B!Off, B!Empty, Counted, B!All
    <3>4. CASE /\ ~B!CreateTables(p) /\ ~B!InsertRows(p)
               /\ \A t \in Tables : ~B!CountRows(p, t)
      <4>1. proc'[p].pc \notin {"seed", "insert"}
        BY <1>1, <2>2, <3>4, DbLands
      <4>2. QED
        BY <2>2, <4>1 DEF Counted
    <3>5. QED
      BY <2>2, <3>1, <3>2, <3>3, <3>4
  <2>3. QED
    BY <1>5, <2>1, <2>2
<1>8. Locked'
  <2>1. CASE lock' = lock
    BY <1>3, <1>4, <2>1 DEF Locked, B!All
  <2>2. CASE B!WriteLock(p)
    BY <1>3, <1>4, <2>2 DEF B!WriteLock, Counted, Locked, B!All
  <2>3. QED
    BY <1>1, <1>2, <2>1, <2>2
       DEF B!Starts, B!CreateMySQL, B!CountDB, B!CreatePG, B!Open, B!MigrateModels, B!AutoMigrate,
           B!CreateTables, B!InsertRows, B!CountRows, B!Runs, B!CountRecord, B!CreateRecord,
           B!AppInserts, B!Crash, B!database
<1>9. QED
  BY <1>6, <1>7, <1>8

-----------------------------------------------------------------------------
LEMMA DbInvStep == DbInv /\ [B!Next]_dbVars => DbInv'
<1> SUFFICES ASSUME DbInv, [B!Next]_dbVars PROVE DbInv'
  OBVIOUS
<1>1. CASE B!Next
  BY <1>1, DbTyped, AtRecordStep, SettledStep, SingleStep, KeyedStep DEF DbInv, B!All
<1>2. CASE UNCHANGED dbVars
  BY <1>2 DEF DbInv, dbVars, B!TypeOK, AtRecord, Settled, Creates, Locked, Counted, B!Empty,
              Single, Keyed, B!Inserting
<1>3. QED
  BY <1>1, <1>2

(* What dbInitiate makes of any settings is a pool that works.             *)
LEMMA PoolOf ==
  ASSUME B!DbConstants, opt \in Options
  PROVE  B!PoolWithin
<1> DEFINE conns == B!Capped(opt.open, 200, 2000)
           time  == B!Capped(opt.life, 30, 3600)
<1>1. opt.open \in Nat /\ opt.idle \in Nat /\ opt.life \in Nat /\ opt.idleLife \in Nat
  BY DEF B!DbConstants
<1>2. conns \in 1..2000
  <2>1. PICK n \in Nat : n = opt.open
    BY <1>1
  <2>2. B!Capped(n, 200, 2000) \in 1..2000
    BY DEF B!Capped
  <2>3. QED
    BY <2>1, <2>2
<1>3. time \in 1..3600
  <2>1. PICK n \in Nat : n = opt.life
    BY <1>1
  <2>2. B!Capped(n, 30, 3600) \in 1..3600
    BY DEF B!Capped
  <2>3. QED
    BY <2>1, <2>2
<1> HIDE DEF conns, time
<1>4. B!IdleConns(opt.idle, conns) <= conns
  BY <1>1, <1>2 DEF B!IdleConns
<1>5. /\ B!IdleTime(opt.idleLife, time) <= time
      /\ B!IdleTime(opt.idleLife, time) = 0 => time = 1
  BY <1>1, <1>3 DEF B!IdleTime
<1>6. B!Pool(opt) = [open |-> conns, idle |-> B!IdleConns(opt.idle, conns),
                     life |-> time, idleLife |-> B!IdleTime(opt.idleLife, time)]
  BY DEF B!Pool, conns, time
<1>7. QED
  BY <1>2, <1>3, <1>4, <1>5, <1>6 DEF B!PoolWithin

(* MigrateModels, initializeModel, CreateIfNotExists and dbInitiate can be *)
(* repeated, raced and killed at any point: initial rows are there once,   *)
(* a lock file means that nothing is left to migrate, and the pool works,  *)
(* for any number of processes, hosts and tables and any settings.         *)
THEOREM StartsRepeat == DataSpec => []StartRepeatable
<1>1. DbInv => B!StartRepeatable
  <2> SUFFICES ASSUME DbInv PROVE B!StartRepeatable
    OBVIOUS
  <2>1. B!SeededOnce
    BY DEF DbInv, Single, Keyed, B!SeededOnce, B!TypeOK
  <2>2. B!LockMeansDone
    BY DEF DbInv, Settled, Locked, B!LockMeansDone
  <2>3. B!PoolWithin
    BY PoolOf, DataAssumption DEF DbInv, B!TypeOK
  <2>4. QED
    BY <2>1, <2>2, <2>3 DEF B!StartRepeatable
<1> DEFINE I == machine = "db" => DbInv
<1>2. DataInit => I
  BY DbInit, OneBegins
<1>3. I /\ [DataNext]_dataVars => I'
  BY DbInvStep, OneRuns, DataAssumption
<1>4. I => StartRepeatable
  BY <1>1 DEF StartRepeatable
<1>5. QED
  BY <1>2, <1>3, <1>4, PTL DEF DataSpec

-----------------------------------------------------------------------------
(* What lives although somebody has found it expired was written since.    *)
StoreTyped ==
  /\ kind \in {"cc", "free", "redis"}
  /\ val \in [Keys -> Int \cup {None}]
  /\ getter \in [Clients -> Keys \cup {None}]
  /\ gc \in [pc : {"idle", "scan", "delete"}, hash : T!Hashes \cup {None},
             left : SUBSET Keys, doomed : SUBSET Keys]

Lives(k) == val[k] # None /\ val[k] >= 0

StoreInv == StoreTyped /\ \A k \in Keys : T!Condemned(k) /\ Lives(k) => k \in rewritten

LEMMA StoreInit == T!Init => StoreInv
<1> SUFFICES ASSUME T!Init PROVE StoreInv
  OBVIOUS
<1>1. StoreTyped
  BY DEF T!Init, T!NoGC, StoreTyped
<1>2. ASSUME NEW k \in Keys PROVE ~Lives(k)
  BY DEF T!Init, Lives
<1>3. QED
  BY <1>1, <1>2 DEF StoreInv

(* A step that writes no value and finds none expired. *)
LEMMA NothingFound ==
  ASSUME StoreInv, StoreTyped', rewritten' = rewritten,
         \A k \in Keys : T!Condemned(k)' => T!Condemned(k),
         \A k \in Keys : Lives(k)' => Lives(k)
  PROVE  StoreInv'
BY DEF StoreInv

LEMMA StoreTypes == ASSUME T!StoreConstants, StoreTyped, T!Next PROVE StoreTyped'
<1> USE DEF StoreTyped, T!StoreConstants
<1>1. ASSUME NEW ks PROVE T!Without(ks) \in [Keys -> Int \cup {None}]
  BY DEF T!Without
<1>2. CASE T!Tick
  BY <1>2 DEF T!Tick
<1>3. ASSUME NEW k \in Keys, T!Evict(k) PROVE StoreTyped'
  BY <1>1, <1>3 DEF T!Evict
<1>4. CASE T!GCDelete
  BY <1>1, <1>4 DEF T!GCDelete, T!NoGC
<1>5. ASSUME NEW h \in T!Hashes, T!GCStart(h) PROVE StoreTyped'
  BY <1>5 DEF T!GCStart, T!OfHash
<1>6. ASSUME NEW k \in Keys, T!GCScan(k) PROVE StoreTyped'
  BY <1>6 DEF T!GCScan
<1>7. ASSUME NEW c \in Clients, T!Calls(c) PROVE StoreTyped'
  <2>1. ASSUME NEW k \in Keys, NEW ttl \in T!TTLs, T!Set(c, k, ttl) PROVE StoreTyped'
    <3>1. T!Life(ttl) \in Int
      BY DEF T!Life, T!TTLs, T!Forever
    <3>2. QED
      BY <2>1, <3>1 DEF T!Set
  <2>2. ASSUME NEW k \in Keys, T!Del(c, k) \/ T!GetExpired(c, k) PROVE StoreTyped'
    BY <1>1, <2>2 DEF T!Del, T!GetExpired
  <2>3. CASE T!GetDeletes(c) \/ T!DropDeletes(c) \/ T!ClearAll(c)
    BY <1>1, <2>3 DEF T!GetDeletes, T!DropDeletes, T!ClearAll
  <2>4. ASSUME NEW h \in T!Hashes, T!DropAtOnce(c, h) \/ T!DropBegins(c, h) PROVE StoreTyped'
    BY <1>1, <2>4 DEF T!DropAtOnce, T!DropBegins
  <2>5. QED
    BY <1>7, <2>1, <2>2, <2>3, <2>4 DEF T!Calls
<1>8. QED
  BY <1>2, <1>3, <1>4, <1>5, <1>6, <1>7 DEF T!Next, T!Collects

(* The steps that only take values away, and what they let go.             *)
LEMMA Without ==
  ASSUME NEW ks, val' = T!Without(ks)
  PROVE  \A k \in Keys : Lives(k)' => Lives(k)
BY DEF T!Without, Lives

LEMMA StoreStep ==
  ASSUME T!StoreConstants
  PROVE  StoreInv /\ [T!Next]_storeVars => StoreInv'
<1> SUFFICES ASSUME StoreInv, [T!Next]_storeVars PROVE StoreInv'
  OBVIOUS
<1> USE DEF StoreInv
<1>1. CASE UNCHANGED storeVars
  BY <1>1 DEF storeVars, StoreTyped, T!Condemned, Lives
<1>2. CASE T!Next
  <2>0. StoreTyped'
    BY <1>2, StoreTypes
  <2>1. CASE T!Tick
    <3>1. ASSUME NEW k \in Keys PROVE Lives(k)' => Lives(k)
      BY <2>1 DEF T!Tick, StoreTyped, Lives
    <3>2. QED
      BY <2>0, <2>1, <3>1, NothingFound DEF T!Tick, T!Condemned
  <2>2. ASSUME NEW k \in Keys, T!Evict(k) PROVE StoreInv'
    BY <2>0, <2>2, Without, NothingFound DEF T!Evict, T!Condemned
  <2>3. CASE T!GCDelete
    <3>1. gc'.doomed = {}
      BY <2>3 DEF T!GCDelete, T!NoGC, StoreTyped
    <3>2. QED
      BY <2>0, <2>3, <3>1, Without, NothingFound DEF T!GCDelete, T!Condemned
  <2>4. ASSUME NEW h \in T!Hashes, T!GCStart(h) PROVE StoreInv'
    BY <2>0, <2>4, NothingFound DEF T!GCStart, T!Condemned, Lives
  <2>5. ASSUME NEW k \in Keys, T!GCScan(k) PROVE StoreInv'
    <3>1. gc'.doomed \subseteq gc.doomed \cup {k} /\ (k \in gc'.doomed \ gc.doomed => T!Expired(val[k]))
      BY <2>5 DEF T!GCScan, StoreTyped
    <3>2. UNCHANGED <<val, getter, rewritten>>
      BY <2>5 DEF T!GCScan
    <3>3. QED
      BY <2>0, <3>1, <3>2 DEF T!Condemned, T!Expired, Lives, StoreTyped
  <2>6. ASSUME NEW c \in Clients, NEW k \in Keys, NEW ttl \in T!TTLs, T!Set(c, k, ttl)
        PROVE  StoreInv'
    BY <2>0, <2>6 DEF T!Set, T!Condemned, Lives, StoreTyped
  <2>7. ASSUME NEW c \in Clients, NEW k \in Keys, T!GetExpired(c, k) PROVE StoreInv'
    BY <2>0, <2>7 DEF T!GetExpired, T!Condemned, T!Expired, Lives, StoreTyped
  <2>8. ASSUME NEW c \in Clients, T!GetDeletes(c) PROVE StoreInv'
    <3>1. ASSUME NEW k \in Keys, Lives(k)', T!Condemned(k)' PROVE T!Condemned(k)
      <4>1. gc' = gc /\ \A d \in Clients : getter'[d] \in {getter[d], None}
        BY <2>8 DEF T!GetDeletes, StoreTyped
      <4>2. QED
        BY <3>1, <4>1 DEF T!Condemned, T!StoreConstants
    <3>2. QED
      BY <2>0, <2>8, <3>1, Without DEF T!GetDeletes
  <2>9. ASSUME NEW c \in Clients, NEW k \in Keys, T!Del(c, k) PROVE StoreInv'
    BY <2>0, <2>9, Without, NothingFound DEF T!Del, T!Condemned
  <2>10. ASSUME NEW c \in Clients, T!DropDeletes(c) \/ T!ClearAll(c) PROVE StoreInv'
    BY <2>0, <2>10, Without, NothingFound DEF T!DropDeletes, T!ClearAll, T!Condemned
  <2>11. ASSUME NEW c \in Clients, NEW h \in T!Hashes, T!DropAtOnce(c, h) PROVE StoreInv'
    BY <2>0, <2>11, Without, NothingFound DEF T!DropAtOnce, T!Condemned
  <2>12. ASSUME NEW c \in Clients, NEW h \in T!Hashes, T!DropBegins(c, h) PROVE StoreInv'
    BY <2>0, <2>12, NothingFound DEF T!DropBegins, T!Condemned, Lives
  <2>13. QED
    BY <1>2, <2>1, <2>2, <2>3, <2>4, <2>5, <2>6, <2>7, <2>8, <2>9, <2>10, <2>11, <2>12
       DEF T!Next, T!Collects, T!Calls
<1>3. QED
  BY <1>1, <1>2

(* Who cleans takes what he has found expired. *)
LEMMA StoreCleans ==
  ASSUME StoreInv, T!Next
  PROVE  T!OnlyRacedLost
<1> USE DEF StoreInv, StoreTyped
<1> SUFFICES ASSUME gc' # gc \/ \E c \in Clients : getter[c] # None /\ getter'[c] = None,
                    NEW k \in Keys, Lives(k), val'[k] = None
             PROVE  T!Condemned(k)
  BY DEF T!OnlyRacedLost, Lives
<1>1. val' # val
  BY DEF Lives
<1>2. CASE T!GCDelete
  BY <1>2 DEF T!GCDelete, T!Without, T!Condemned, Lives
<1>3. ASSUME NEW c \in Clients, T!GetDeletes(c) PROVE T!Condemned(k)
  BY <1>3 DEF T!GetDeletes, T!Without, T!Condemned, Lives
<1>4. ASSUME UNCHANGED <<gc, getter>> PROVE FALSE
  BY <1>4
<1>5. ASSUME UNCHANGED val PROVE FALSE
  BY <1>1, <1>5
<1>6. ASSUME NEW c \in Clients, T!Calls(c) PROVE T!Condemned(k)
  <2>1. ASSUME NEW j \in Keys, NEW ttl \in T!TTLs, T!Set(c, j, ttl) PROVE FALSE
    BY <1>4, <2>1 DEF T!Set
  <2>2. ASSUME NEW j \in Keys, T!Del(c, j) PROVE FALSE
    BY <1>4, <2>2 DEF T!Del
  <2>3. ASSUME NEW j \in Keys, T!GetExpired(c, j) PROVE FALSE
    BY <1>5, <2>3 DEF T!GetExpired
  <2>4. ASSUME NEW h \in T!Hashes, T!DropAtOnce(c, h) PROVE FALSE
    BY <1>4, <2>4 DEF T!DropAtOnce
  <2>5. ASSUME NEW h \in T!Hashes, T!DropBegins(c, h) PROVE FALSE
    BY <1>5, <2>5 DEF T!DropBegins
  <2>6. ASSUME T!DropDeletes(c) \/ T!ClearAll(c) PROVE FALSE
    BY <1>4, <2>6 DEF T!DropDeletes, T!ClearAll
  <2>7. QED
    BY <1>3, <1>6, <2>1, <2>2, <2>3, <2>4, <2>5, <2>6 DEF T!Calls
<1>7. CASE T!Tick
  BY <1>4, <1>7 DEF T!Tick
<1>8. ASSUME NEW j \in Keys, T!Evict(j) PROVE FALSE
  BY <1>4, <1>8 DEF T!Evict
<1>9. ASSUME NEW h \in T!Hashes, T!GCStart(h) PROVE FALSE
  BY <1>5, <1>9 DEF T!GCStart
<1>10. ASSUME NEW j \in Keys, T!GCScan(j) PROVE FALSE
  BY <1>5, <1>10 DEF T!GCScan
<1>11. QED
  BY <1>2, <1>6, <1>7, <1>8, <1>9, <1>10 DEF T!Next, T!Collects

(* Nobody who cleans up takes a value that lives, unless that was written  *)
(* after it had been found expired: for any keys, clients and batches, in  *)
(* all three stores.                                                       *)
THEOREM CleansExpired == DataSpec => OnlyRacedLost
<1> DEFINE I == machine = "stores" => StoreInv
<1>1. DataInit => I
  BY StoreInit, OneBegins
<1>2. I /\ [DataNext]_dataVars => I'
  BY StoreStep, OneRuns, DataAssumption
<1>3. I /\ [DataNext]_dataVars => [machine = "stores" => T!OnlyRacedLost]_dataVars
  <2> SUFFICES ASSUME I, DataNext, machine = "stores" PROVE T!OnlyRacedLost
    OBVIOUS
  <2>1. T!Next
    BY DEF DataNext
  <2>2. QED
    BY <2>1, StoreCleans
<1>4. QED
  BY <1>1, <1>2, <1>3, PTL DEF DataSpec, OnlyRacedLost
-----------------------------------------------------------------------------
(* The tokens of giris. *)

Entry == [t : G!Token, ttl : Nat]
Job == [pc : {"idle", "mem", "hget", "fill", "check", "accepted", "hset", "set"},
        p : Procs \cup {None}, op : {"verify", "login"}, tok : Tokens \cup {None},
        t : G!Token \cup {None}, ends : SUBSET Tokens]

(* A request has its process and, where it needs one, its copy; a new      *)
(* token is none of those it ends.                                         *)
HandFull(e) ==
  /\ e.pc # "idle" => e.p \in Procs
  /\ e.pc \in {"fill", "check", "hset", "set"} => e.t # None
  /\ e.pc \in {"hset", "set"} => e.t.tok \notin e.ends

HandsFull == /\ job \in [Reqs -> Job]
             /\ \A r \in Reqs : HandFull(job[r]) /\ job[r].ends \subseteq made

GirisTyped ==
  /\ hash \in G!Token \cup {None}
  /\ near \in [Procs -> Entry \cup {None}]
  /\ made \subseteq Tokens /\ over \subseteq made
  /\ age \in [Tokens -> Nat]
  /\ sweep \in {"idle", "doomed", "stale"}
  /\ HandsFull

(* t is a copy of a token: in redis, in the hands of a request, in a memory. *)
Copy(t) ==
  /\ t # None
  /\ \/ t = hash
     \/ \E r \in Reqs : t = job[r].t
     \/ \E p \in Procs : near[p] # None /\ t = near[p].t

(* What redis holds beside a new token that has already been written is a  *)
(* copy that the writer does not reach.                                    *)
Overwritten(r) ==
  job[r].pc = "set" /\ hash # None /\ hash.tok \in job[r].ends => hash.tok \in ghosts

(* A copy that has not expired counts down as its token ages. *)
InStep(t) == t.tok \in made /\ (t.rem >= 0 => age[t.tok] + t.rem <= Expire)

GirisInv ==
  /\ GirisTyped
  /\ \A r \in Reqs : Overwritten(r) /\ G!Unreached(r) \subseteq ghosts
  /\ \A t : Copy(t) => InStep(t)
  /\ G!OverIsOver
  /\ sweep = "doomed" => hash = None \/ G!Expired(hash)

LEMMA HeldCopies ==
  ASSUME G!GirisConstants, GirisTyped
  PROVE  /\ \A k : k \in G!Held <=> \E t : Copy(t) /\ t.tok = k
         /\ \A t : Copy(t) => t \in G!Token
<1> USE DEF GirisTyped, HandsFull, G!GirisConstants
<1>1. \A t : Copy(t) <=> t \in G!Hands \cup G!Memories \cup ({hash} \ {None})
  BY DEF Copy, G!Hands, G!Memories, Entry
<1>2. \A t : Copy(t) => t \in G!Token
  BY DEF Copy, Entry, Job
<1>3. QED
  BY <1>1, <1>2 DEF G!Held

LEMMA GirisInit == ASSUME G!GirisConstants PROVE G!Init => GirisInv
<1> SUFFICES ASSUME G!Init PROVE GirisInv
  OBVIOUS
<1> USE DEF G!Init, G!Idle
<1>1. GirisTyped
  BY DEF GirisTyped, HandsFull, HandFull, Job
<1>2. \A t : ~Copy(t)
  BY DEF Copy
<1>3. \A r \in Reqs : Overwritten(r) /\ G!Unreached(r) \subseteq ghosts
  BY DEF Overwritten, G!Unreached
<1>4. QED
  BY <1>1, <1>2, <1>3 DEF GirisInv, G!OverIsOver

(* The next token is one that has not been made. *)
LEMMA TokenIsNew ==
  ASSUME GirisTyped, made # Tokens
  PROVE  G!generateToken \in Tokens \ made
<1>1. \E k \in Tokens : k \notin made
  BY DEF GirisTyped
<1>2. QED
  BY <1>1 DEF G!generateToken

LEMMA TokenTyped == ASSUME G!GirisConstants, NEW k \in Tokens
                    PROVE  [tok |-> k, rem |-> Expire] \in G!Token
BY DEF G!GirisConstants, G!Token

LEMMA OlderTyped ==
  ASSUME G!GirisConstants, NEW t \in G!Token \cup {None}
  PROVE  /\ G!Older(t) \in G!Token \cup {None}
         /\ t = None <=> G!Older(t) = None
         /\ t # None => /\ G!Older(t).tok = t.tok
                        /\ G!Expired(t) => G!Older(t) = t
                        /\ G!Older(t).rem >= 0 => t.rem = G!Older(t).rem + 1
<1>1. CASE t = None
  BY <1>1 DEF G!Older
<1>2. CASE t # None /\ G!Expired(t)
  BY <1>2 DEF G!Older, G!Expired, G!Token, G!GirisConstants
<1>3. CASE t # None /\ ~G!Expired(t)
  <2>1. t \in G!Token /\ G!Older(t) = [t EXCEPT !.rem = t.rem - 1]
    BY <1>3 DEF G!Older
  <2>2. G!Older(t) \in G!Token /\ G!Older(t).tok = t.tok /\ G!Older(t).rem = t.rem - 1
    BY <1>3, <2>1 DEF G!Token, G!Expired, G!GirisConstants
  <2>3. QED
    BY <1>3, <2>2 DEF G!GirisConstants, G!Token
<1>4. QED
  BY <1>1, <1>2, <1>3

LEMMA HandReplaced ==
  ASSUME HandsFull, NEW r \in Reqs, NEW e \in Job, job' = [job EXCEPT ![r] = e],
         HandFull(e), e.ends \subseteq made', made \subseteq made'
  PROVE  HandsFull'
BY DEF HandsFull

LEMMA HandsEmptied == G!Idle \in Job /\ HandFull(G!Idle) /\ G!Idle.ends = {}
BY DEF G!Idle, Job, HandFull

LEMMA GirisTypes == ASSUME G!GirisConstants, GirisTyped, G!Happens PROVE GirisTyped'
<1> USE DEF GirisTyped
<1>0. \A r \in Reqs : job[r] \in Job /\ HandFull(job[r]) /\ job[r].ends \subseteq made
  BY DEF HandsFull
<1>1. ASSUME NEW r \in Reqs, G!GetMem(r) PROVE GirisTyped'
  <2> DEFINE m == near[job[r].p]
             e == [job[r] EXCEPT !.pc = IF m = None THEN "hget" ELSE "check",
                                 !.t = IF m = None THEN None ELSE m.t]
  <2>1. m \in Entry \cup {None}
    BY <1>0, <1>1 DEF G!GetMem, HandFull
  <2>2. e \in Job /\ HandFull(e) /\ e.ends = job[r].ends
    BY <1>0, <1>1, <2>1 DEF G!GetMem, Job, Entry, HandFull, G!GirisConstants
  <2>3. job' = [job EXCEPT ![r] = e] /\ made' = made
    BY <1>1 DEF G!GetMem
  <2> HIDE DEF e
  <2>4. HandsFull'
    BY <1>0, <2>2, <2>3, HandReplaced
  <2>5. QED
    BY <1>1, <2>4 DEF G!GetMem
<1>2. ASSUME NEW r \in Reqs, G!HGet(r) PROVE GirisTyped'
  <2>1. CASE hash = None
    <3>1. HandsFull'
      BY <1>2, <2>1, HandReplaced, HandsEmptied DEF G!HGet, G!Answer
    <3>2. QED
      BY <1>2, <3>1 DEF G!HGet
  <2>2. CASE hash # None
    <3> DEFINE e == [job[r] EXCEPT !.pc = "fill", !.t = hash]
    <3>1. e \in Job /\ HandFull(e) /\ e.ends = job[r].ends
      BY <1>0, <1>2, <2>2 DEF G!HGet, Job, HandFull
    <3>2. job' = [job EXCEPT ![r] = e] /\ made' = made
      BY <1>2, <2>2 DEF G!HGet
    <3> HIDE DEF e
    <3>3. HandsFull'
      BY <1>0, <3>1, <3>2, HandReplaced
    <3>4. QED
      BY <1>2, <3>3 DEF G!HGet
  <2>3. QED
    BY <2>1, <2>2
<1>3. ASSUME NEW r \in Reqs, G!FillMem(r) \/ G!HSet(r) PROVE GirisTyped'
  <2> DEFINE e == [job[r] EXCEPT !.pc = IF job[r].pc = "fill" THEN "check" ELSE "set"]
  <2>1. e \in Job /\ HandFull(e) /\ e.ends = job[r].ends
    BY <1>0, <1>3 DEF G!FillMem, G!HSet, Job, HandFull
  <2>2. job' = [job EXCEPT ![r] = e] /\ made' = made
    BY <1>3 DEF G!FillMem, G!HSet, G!To
  <2> HIDE DEF e
  <2>3. HandsFull'
    BY <1>0, <2>1, <2>2, HandReplaced
  <2>4. CASE G!FillMem(r)
    <3>1. [t |-> job[r].t, ttl |-> Minute] \in Entry
      BY <1>0, <2>4 DEF G!FillMem, HandFull, Job, Entry, G!GirisConstants
    <3>2. QED
      BY <2>3, <2>4, <3>1 DEF G!FillMem
  <2>5. CASE G!HSet(r)
    BY <1>0, <2>3, <2>5 DEF G!HSet, Job
  <2>6. QED
    BY <1>3, <2>4, <2>5
<1>4. ASSUME NEW r \in Reqs, G!Refused(r) \/ G!Called(r) \/ G!HSetFails(r) PROVE GirisTyped'
  <2>1. job' = [job EXCEPT ![r] = G!Idle] /\ UNCHANGED <<hash, near, made, told, age, over, sweep>>
    BY <1>4 DEF G!Refused, G!Called, G!HSetFails, G!Answer
  <2>2. HandsFull'
    BY <2>1, HandReplaced, HandsEmptied
  <2>3. QED
    BY <2>1, <2>2
<1>5. ASSUME NEW r \in Reqs PROVE /\ G!Accepted(job[r]) \in Job
                                  /\ job[r].pc # "idle" => HandFull(G!Accepted(job[r]))
                                  /\ G!Accepted(job[r]).ends = {}
  BY <1>0 DEF G!Accepted, Job, HandFull
<1>6. ASSUME NEW r \in Reqs, G!Accept(r) PROVE GirisTyped'
  <2>1. HandsFull'
    BY <1>5, <1>6, HandReplaced DEF G!Accept
  <2>2. QED
    BY <1>6, <2>1 DEF G!Accept
<1>7. ASSUME NEW r \in Reqs, G!SetMem(r) PROVE GirisTyped'
  <2> DEFINE e == IF job[r].op = "login" THEN G!Idle ELSE G!Accepted(job[r])
  <2>1. HandsFull'
    <3>1. job' = [job EXCEPT ![r] = e] /\ made' = made
      BY <1>7 DEF G!SetMem
    <3>2. e \in Job /\ HandFull(e) /\ e.ends = {}
      BY <1>5, <1>7, HandsEmptied DEF G!SetMem
    <3> HIDE DEF e
    <3>3. QED
      BY <3>1, <3>2, HandReplaced
  <2>2. [t |-> job[r].t, ttl |-> Expire] \in Entry
    BY <1>0, <1>7 DEF G!SetMem, HandFull, Job, Entry, G!GirisConstants
  <2>3. QED
    BY <1>0, <1>7, <2>1, <2>2 DEF G!SetMem
<1>8. ASSUME NEW r \in Reqs, G!Refresh(r, G!generateToken) PROVE GirisTyped'
  <2> DEFINE k == G!generateToken
             e == [job[r] EXCEPT !.pc = "hset", !.t = [tok |-> k, rem |-> Expire],
                                 !.ends = G!Current]
  <2>1. k \in Tokens \ made
    BY <1>8, TokenIsNew DEF G!Refresh
  <2>2. [tok |-> k, rem |-> Expire] \in G!Token
    BY <2>1, TokenTyped
  <2> HIDE DEF k
  <2>3. e \in Job /\ HandFull(e) /\ e.ends \subseteq made
    BY <1>0, <1>8, <2>1, <2>2 DEF G!Refresh, G!Current, Job, HandFull, G!GirisConstants
  <2>4. job' = [job EXCEPT ![r] = e] /\ made' = made \cup {k}
    BY <1>8 DEF G!Refresh, G!Generates, k
  <2> HIDE DEF e
  <2>5. HandsFull'
    BY <2>3, <2>4, HandReplaced
  <2>6. QED
    BY <1>8, <2>1, <2>4, <2>5 DEF G!Refresh, G!Generates
<1>9. ASSUME NEW r \in Reqs, NEW p \in Procs, G!AfterLogin(r, p, G!generateToken)
      PROVE  GirisTyped'
  <2> DEFINE k == G!generateToken
             e == [pc |-> "hset", p |-> p, op |-> "login", tok |-> k,
                   t |-> [tok |-> k, rem |-> Expire], ends |-> G!Current]
  <2>1. k \in Tokens \ made
    BY <1>9, TokenIsNew DEF G!AfterLogin
  <2>2. [tok |-> k, rem |-> Expire] \in G!Token
    BY <2>1, TokenTyped
  <2> HIDE DEF k
  <2>3. e \in Job /\ HandFull(e) /\ e.ends \subseteq made
    BY <2>1, <2>2 DEF G!Current, Job, HandFull, G!GirisConstants
  <2>4. job' = [job EXCEPT ![r] = e] /\ made' = made \cup {k}
    BY <1>9 DEF G!AfterLogin, k
  <2> HIDE DEF e
  <2>5. HandsFull'
    BY <2>3, <2>4, HandReplaced
  <2>6. QED
    BY <1>9, <2>1, <2>4, <2>5 DEF G!AfterLogin
<1>10. ASSUME NEW r \in Reqs, NEW p \in Procs, NEW k \in Tokens, G!Verify(r, p, k)
       PROVE  GirisTyped'
  <2> DEFINE e == [G!Idle EXCEPT !.pc = "mem", !.p = p, !.tok = k]
  <2>1. e \in Job /\ HandFull(e) /\ e.ends = {}
    BY DEF G!Idle, Job, HandFull
  <2>2. job' = [job EXCEPT ![r] = e] /\ made' = made
    BY <1>10 DEF G!Verify
  <2> HIDE DEF e
  <2>3. HandsFull'
    BY <2>1, <2>2, HandReplaced
  <2>4. QED
    BY <1>10, <2>3 DEF G!Verify
<1>11. ASSUME NEW p \in Procs, G!Restart(p) PROVE GirisTyped'
  <2>1. HandsFull'
    BY <1>0, <1>11, HandsEmptied DEF G!Restart, HandsFull
  <2>2. QED
    BY <1>11, <2>1 DEF G!Restart
<1>12. CASE G!Logout
  BY <1>12 DEF G!Logout, G!Deleted, G!Current, HandsFull
<1>13. CASE G!Scan \/ G!Sweep
  BY <1>13 DEF G!Scan, G!Sweep, HandsFull
<1>14. CASE G!Tick
  <2>1. hash' \in G!Token \cup {None}
    BY <1>14, OlderTyped DEF G!Tick
  <2>2. near' \in [Procs -> Entry \cup {None}]
    <3>1. ASSUME NEW p \in Procs, near[p] # None, near[p].ttl # 0
          PROVE  [t |-> G!Older(near[p].t), ttl |-> near[p].ttl - 1] \in Entry
      <4>1. near[p] \in Entry
        BY <3>1
      <4>2. G!Older(near[p].t) \in G!Token
        BY <4>1, OlderTyped DEF Entry, G!GirisConstants
      <4>3. QED
        BY <3>1, <4>1, <4>2 DEF Entry, G!GirisConstants
    <3>2. QED
      BY <1>14, <3>1 DEF G!Tick
  <2>3. ASSUME NEW r \in Reqs
        PROVE  job'[r] \in Job /\ HandFull(job'[r]) /\ job'[r].ends \subseteq made'
    <3>1. job'[r] = [job[r] EXCEPT !.t = G!Older(job[r].t)] /\ made' = made
      BY <1>14 DEF G!Tick
    <3>2. job[r].t \in G!Token \cup {None}
      BY <1>0 DEF Job
    <3>3. /\ G!Older(job[r].t) \in G!Token \cup {None}
          /\ job[r].t = None <=> G!Older(job[r].t) = None
          /\ job[r].t # None => G!Older(job[r].t).tok = job[r].t.tok
      BY <3>2, OlderTyped
    <3>4. QED
      BY <1>0, <3>1, <3>3 DEF Job, HandFull
  <2>4. HandsFull'
    BY <1>14, <2>3 DEF G!Tick, HandsFull
  <2>5. age' \in [Tokens -> Nat]
    BY <1>14 DEF G!Tick, G!GirisConstants
  <2>6. QED
    BY <1>14, <2>1, <2>2, <2>4, <2>5 DEF G!Tick
<1> HIDE DEF GirisTyped
<1>15. QED
  BY <1>1, <1>2, <1>3, <1>4, <1>6, <1>7, <1>8, <1>9, <1>10, <1>11, <1>12, <1>13, <1>14
     DEF G!Happens, G!Step, G!Arrives

(* A step finds its copies where there were some, makes one of a new token, *)
(* or lets all of them age.                                                *)
Made(t) == /\ t.tok \notin made /\ made' = made \cup {t.tok}
           /\ t.rem = Expire /\ age' = [age EXCEPT ![t.tok] = 0]

LEMMA CopiesStay ==
  ASSUME G!GirisConstants, GirisTyped, G!Happens, ~G!Tick,
         NEW t, Copy(t)'
  PROVE  Copy(t) \/ Made(t)
<1> USE DEF GirisTyped
<1>0. \A r \in Reqs : job[r] \in Job /\ HandFull(job[r])
  BY DEF HandsFull
<1>1. /\ hash # None => Copy(hash)
      /\ \A p \in Procs : near[p] # None => Copy(near[p].t)
      /\ \A r \in Reqs : job[r].t # None => Copy(job[r].t)
  BY DEF Copy, Entry, G!GirisConstants
<1> DEFINE Hash == hash' # None => Copy(hash')
           Near == \A p \in Procs : near'[p] # None => Copy(near'[p].t)
           Hand(r) == job'[r].t # None => Copy(job'[r].t) \/ Made(job'[r].t)
<1>2. SUFFICES Hash /\ Near /\ \A r \in Reqs : Hand(r)
  BY DEF Copy
<1>3. hash' = hash => Hash
  BY <1>1
<1>4. near' = near => Near
  BY <1>1
<1>5. ASSUME NEW r \in Reqs, NEW e, job' = [job EXCEPT ![r] = e],
             e.t # None => Copy(e.t) \/ Made(e.t)
      PROVE  \A s \in Reqs : Hand(s)
  BY <1>1, <1>5 DEF HandsFull
<1>6. job' = job => \A s \in Reqs : Hand(s)
  BY <1>1
<1> HIDE DEF Hash, Near, Hand, GirisTyped
<1>7. G!Idle.t = None /\ \A r \in Reqs : G!Accepted(job[r]).t = None
  BY <1>0 DEF G!Idle, G!Accepted, Job
<1>8. ASSUME NEW r \in Reqs, G!GetMem(r) PROVE Near /\ Hash /\ \A s \in Reqs : Hand(s)
  <2> DEFINE m == near[job[r].p]
             e == [job[r] EXCEPT !.pc = IF m = None THEN "hget" ELSE "check",
                                 !.t = IF m = None THEN None ELSE m.t]
  <2>1. job' = [job EXCEPT ![r] = e]
    BY <1>8 DEF G!GetMem
  <2>2. e.t # None => Copy(e.t)
    BY <1>0, <1>1, <1>8 DEF G!GetMem, HandFull, Job
  <2> HIDE DEF e
  <2>3. QED
    BY <1>3, <1>4, <1>5, <1>8, <2>1, <2>2 DEF G!GetMem
<1>9. ASSUME NEW r \in Reqs, G!HGet(r) PROVE Near /\ Hash /\ \A s \in Reqs : Hand(s)
  <2> DEFINE e == IF hash = None THEN G!Idle ELSE [job[r] EXCEPT !.pc = "fill", !.t = hash]
  <2>1. job' = [job EXCEPT ![r] = e]
    BY <1>9 DEF G!HGet, G!Answer
  <2>2. e.t # None => Copy(e.t)
    BY <1>0, <1>1, <1>7, <1>9 DEF Job
  <2> HIDE DEF e
  <2>3. QED
    BY <1>3, <1>4, <1>5, <1>9, <2>1, <2>2 DEF G!HGet
<1>10. ASSUME NEW r \in Reqs, G!FillMem(r) \/ G!HSet(r)
       PROVE  Near /\ Hash /\ \A s \in Reqs : Hand(s)
  <2> DEFINE e == [job[r] EXCEPT !.pc = IF job[r].pc = "fill" THEN "check" ELSE "set"]
  <2>1. job' = [job EXCEPT ![r] = e]
    BY <1>10 DEF G!FillMem, G!HSet, G!To
  <2>2. e.t # None => Copy(e.t)
    BY <1>0, <1>1 DEF Job
  <2> HIDE DEF e
  <2>3. \A s \in Reqs : Hand(s)
    BY <1>5, <2>1, <2>2
  <2>4. Copy(job[r].t)
    BY <1>0, <1>1, <1>10 DEF HandFull, G!FillMem, G!HSet
  <2>5. CASE G!FillMem(r)
    BY <1>1, <1>3, <2>3, <2>4, <2>5 DEF G!FillMem, Near, GirisTyped
  <2>6. CASE G!HSet(r)
    BY <1>4, <2>3, <2>4, <2>6 DEF G!HSet, Hash
  <2>7. QED
    BY <1>10, <2>5, <2>6
<1>11. ASSUME NEW r \in Reqs, G!Refused(r) \/ G!Called(r) \/ G!HSetFails(r) \/ G!Accept(r)
       PROVE  Near /\ Hash /\ \A s \in Reqs : Hand(s)
  BY <1>3, <1>4, <1>5, <1>7, <1>11
     DEF G!Refused, G!Called, G!HSetFails, G!Accept, G!Answer
<1>12. ASSUME NEW r \in Reqs, G!SetMem(r) PROVE Near /\ Hash /\ \A s \in Reqs : Hand(s)
  <2>1. \A s \in Reqs : Hand(s)
    BY <1>5, <1>7, <1>12 DEF G!SetMem
  <2>2. Copy(job[r].t)
    BY <1>0, <1>1, <1>12 DEF HandFull, G!SetMem
  <2>3. QED
    BY <1>1, <1>3, <1>12, <2>1, <2>2 DEF G!SetMem, Near, GirisTyped
<1>13. ASSUME NEW r \in Reqs, G!Refresh(r, G!generateToken)
       PROVE  Near /\ Hash /\ \A s \in Reqs : Hand(s)
  <2> DEFINE k == G!generateToken
             u == [tok |-> k, rem |-> Expire]
             e == [job[r] EXCEPT !.pc = "hset", !.t = u, !.ends = G!Current]
  <2>1. k \notin made
    BY <1>13, TokenIsNew DEF G!Refresh
  <2>2. Made(u)
    BY <1>13, <2>1 DEF G!Refresh, G!Generates, Made
  <2>3. job' = [job EXCEPT ![r] = e]
    BY <1>13 DEF G!Refresh, G!Generates
  <2>4. e.t = u
    BY <1>0 DEF Job
  <2> HIDE DEF k, u, e
  <2>5. QED
    BY <1>3, <1>4, <1>5, <1>13, <2>2, <2>3, <2>4 DEF G!Refresh
<1>14. ASSUME NEW r \in Reqs, NEW p \in Procs, G!AfterLogin(r, p, G!generateToken)
       PROVE  Near /\ Hash /\ \A s \in Reqs : Hand(s)
  <2> DEFINE k == G!generateToken
             u == [tok |-> k, rem |-> Expire]
             e == [pc |-> "hset", p |-> p, op |-> "login", tok |-> k, t |-> u,
                   ends |-> G!Current]
  <2>1. k \notin made
    BY <1>14, TokenIsNew DEF G!AfterLogin
  <2>2. Made(u)
    BY <1>14, <2>1 DEF G!AfterLogin, Made
  <2>3. job' = [job EXCEPT ![r] = e] /\ e.t = u
    BY <1>14 DEF G!AfterLogin
  <2> HIDE DEF k, u, e
  <2>4. QED
    BY <1>3, <1>4, <1>5, <1>14, <2>2, <2>3 DEF G!AfterLogin
<1>15. ASSUME NEW r \in Reqs, NEW p \in Procs, NEW k \in Tokens, G!Verify(r, p, k)
       PROVE  Near /\ Hash /\ \A s \in Reqs : Hand(s)
  <2> DEFINE e == [G!Idle EXCEPT !.pc = "mem", !.p = p, !.tok = k]
  <2>1. e.t = None
    BY DEF G!Idle
  <2>2. job' = [job EXCEPT ![r] = e]
    BY <1>15 DEF G!Verify
  <2> HIDE DEF e
  <2>3. QED
    BY <1>3, <1>4, <1>5, <1>15, <2>1, <2>2 DEF G!Verify
<1>16. ASSUME NEW p \in Procs, G!Restart(p) PROVE Near /\ Hash /\ \A s \in Reqs : Hand(s)
  <2>1. \A s \in Reqs : Hand(s)
    BY <1>1, <1>7, <1>16 DEF G!Restart, Hand
  <2>2. Near
    BY <1>1, <1>16 DEF G!Restart, Near, GirisTyped
  <2>3. QED
    BY <1>3, <1>16, <2>1, <2>2 DEF G!Restart
<1>17. ASSUME G!Logout \/ G!Scan \/ G!Sweep PROVE Near /\ Hash /\ \A s \in Reqs : Hand(s)
  BY <1>3, <1>4, <1>6, <1>17 DEF G!Logout, G!Deleted, G!Scan, G!Sweep, Hash
<1>18. QED
  BY <1>8, <1>9, <1>10, <1>11, <1>12, <1>13, <1>14, <1>15, <1>16, <1>17
     DEF G!Happens, G!Step, G!Arrives

(* When all age, every copy comes from one. *)
LEMMA CopiesAge ==
  ASSUME G!GirisConstants, GirisTyped, G!Tick, NEW t, Copy(t)'
  PROVE  \E u : Copy(u) /\ t = G!Older(u)
<1> USE DEF GirisTyped, HandsFull
<1>1. CASE t = hash'
  BY <1>1, OlderTyped DEF G!Tick, Copy
<1>2. ASSUME NEW r \in Reqs, t = job'[r].t PROVE \E u : Copy(u) /\ t = G!Older(u)
  <2>1. t = G!Older(job[r].t) /\ job[r].t \in G!Token \cup {None}
    BY <1>2 DEF G!Tick, Job
  <2>2. job[r].t # None
    BY <2>1, OlderTyped DEF Copy
  <2>3. QED
    BY <2>1, <2>2 DEF Copy
<1>3. ASSUME NEW p \in Procs, near'[p] # None, t = near'[p].t
      PROVE  \E u : Copy(u) /\ t = G!Older(u)
  <2>1. near[p] # None /\ t = G!Older(near[p].t)
    BY <1>3 DEF G!Tick
  <2>2. near[p].t # None
    BY <2>1 DEF Entry, G!GirisConstants
  <2>3. QED
    BY <2>1, <2>2 DEF Copy
<1>4. QED
  BY <1>1, <1>2, <1>3 DEF Copy

(* What was made stays made, and only a Tick ages it. *)
LEMMA TokensStay ==
  ASSUME GirisTyped, G!Happens
  PROVE  /\ made \subseteq made'
         /\ \A k \in made : k \in Tokens /\ (age'[k] = age[k] \/ G!Tick)
<1>1. ASSUME NEW r \in Reqs, G!Refresh(r, G!generateToken) PROVE
        made \subseteq made' /\ \A k \in made : age'[k] = age[k]
  BY <1>1, TokenIsNew DEF G!Refresh, G!Generates, GirisTyped
<1>2. ASSUME NEW r \in Reqs, NEW p \in Procs, G!AfterLogin(r, p, G!generateToken)
      PROVE  made \subseteq made' /\ \A k \in made : age'[k] = age[k]
  BY <1>2, TokenIsNew DEF G!AfterLogin, GirisTyped
<1>3. \/ made' = made /\ age' = age
      \/ G!Tick /\ made' = made
      \/ (\E r \in Reqs : G!Refresh(r, G!generateToken)
                          \/ \E p \in Procs : G!AfterLogin(r, p, G!generateToken))
  BY DEF G!Happens, G!Step, G!Arrives, G!GetMem, G!HGet, G!FillMem, G!Refused, G!Accept,
         G!Called, G!HSet, G!HSetFails, G!SetMem, G!Verify, G!Restart, G!Logout, G!Scan,
         G!Sweep, G!Tick
<1>4. QED
  BY <1>1, <1>2, <1>3 DEF GirisTyped

LEMMA CopiesInStep ==
  ASSUME G!GirisConstants, GirisTyped, GirisTyped', G!Happens,
         \A t : Copy(t) => InStep(t), NEW t, Copy(t)'
  PROVE  InStep(t)'
<1>1. CASE G!Tick
  <2>1. PICK u : Copy(u) /\ t = G!Older(u)
    BY <1>1, CopiesAge
  <2>2. u \in G!Token /\ u # None /\ InStep(u)
    BY <2>1, HeldCopies DEF Copy
  <2>3. t.tok = u.tok /\ (t.rem >= 0 => u.rem = t.rem + 1) /\ t \in G!Token
    BY <2>1, <2>2, OlderTyped DEF G!GirisConstants
  <2>4. made' = made /\ u.tok \in Tokens /\ age'[u.tok] <= age[u.tok] + 1
    BY <1>1, <2>2 DEF G!Tick, GirisTyped, G!Token
  <2>5. age[u.tok] \in Nat /\ age'[u.tok] \in Nat /\ Expire \in Nat /\ t.rem \in Int
    BY <2>3, <2>4 DEF GirisTyped, G!GirisConstants, G!Token
  <2>6. QED
    BY <2>2, <2>3, <2>4, <2>5 DEF InStep
<1>2. CASE ~G!Tick /\ Copy(t)
  BY <1>2, TokensStay DEF InStep
<1>3. CASE Made(t)
  <2>1. t.tok \in Tokens /\ age'[t.tok] = 0
    BY <1>3 DEF Made, GirisTyped
  <2>2. QED
    BY <1>3, <2>1 DEF Made, InStep, G!GirisConstants
<1>4. QED
  BY <1>1, <1>2, <1>3, CopiesStay

(* Nothing that was held by nobody comes back: a token held after a step    *)
(* was held before, or is new.                                             *)
LEMMA HeldBefore ==
  ASSUME G!GirisConstants, GirisTyped, GirisTyped', G!Happens, NEW k, k \in G!Held'
  PROVE  k \in G!Held \/ k \notin made
<1>1. PICK t : Copy(t)' /\ t.tok = k
  <2>1. k \in G!Held' => \E t : Copy(t)' /\ t.tok = k
    BY DEF G!Held, G!Hands, G!Memories, Copy, Entry, GirisTyped, HandsFull, G!GirisConstants
  <2>2. QED
    BY <2>1
<1>2. CASE G!Tick
  <2>1. PICK u : Copy(u) /\ t = G!Older(u)
    BY <1>1, <1>2, CopiesAge
  <2>2. u \in G!Token /\ u # None
    BY <2>1, HeldCopies DEF Copy
  <2>3. t.tok = u.tok
    BY <2>1, <2>2, OlderTyped
  <2>4. QED
    BY <1>1, <2>1, <2>3, HeldCopies
<1>3. CASE ~G!Tick
  BY <1>1, <1>3, CopiesStay, HeldCopies DEF Made
<1>4. QED
  BY <1>2, <1>3

LEMMA HashHeld ==
  ASSUME G!GirisConstants, GirisTyped, hash # None
  PROVE  hash.tok \in G!Held
BY HeldCopies DEF Copy

(* The ghosts that are still held stay ghosts, and new ones come. *)
LEMMA GhostsStay ==
  ASSUME G!Haunting
  PROVE  /\ \A k \in G!Held' : k \in ghosts \/ k \in G!Left => k \in ghosts'
         /\ \A r \in Reqs : G!Unreached(r)' \cap G!Held' \subseteq ghosts'
BY DEF G!Haunting

(* Redis is written by HSet alone, which is where a request comes to "set", *)
(* and tokens end in SetMem and Logout.                                    *)
LEMMA HashMoves ==
  ASSUME G!Happens
  PROVE  hash' = hash \/ hash' = None \/ G!Tick \/ \E r \in Reqs : G!HSet(r)
BY DEF G!Happens, G!Step, G!Arrives, G!GetMem, G!HGet, G!FillMem, G!Refused, G!Accept,
       G!Called, G!HSetFails, G!SetMem, G!Refresh, G!AfterLogin, G!Verify, G!Restart,
       G!Logout, G!Deleted, G!Scan, G!Sweep

LEMMA OverMoves ==
  ASSUME G!Happens
  PROVE  over' = over \/ G!Logout \/ \E r \in Reqs : G!SetMem(r)
BY DEF G!Happens, G!Step, G!Arrives, G!GetMem, G!HGet, G!FillMem, G!Refused, G!Accept,
       G!Called, G!HSet, G!HSetFails, G!Refresh, G!AfterLogin, G!Verify, G!Restart,
       G!Scan, G!Sweep, G!Tick

LEMMA SetMoves ==
  ASSUME GirisTyped, G!Happens, NEW r \in Reqs, job'[r].pc = "set"
  PROVE  G!HSet(r) \/ (job[r].pc = "set" /\ job'[r].ends = job[r].ends)
<1>1. job \in [Reqs -> Job]
  BY DEF GirisTyped, HandsFull
<1>2. ASSUME NEW s \in Reqs, NEW e, job' = [job EXCEPT ![s] = e], e.pc # "set"
      PROVE  job[r].pc = "set" /\ job'[r].ends = job[r].ends
  BY <1>1, <1>2
<1>3. G!Idle.pc # "set" /\ \A s \in Reqs : G!Accepted(job[s]).pc # "set"
  BY <1>1 DEF G!Idle, G!Accepted, Job
<1>4. ASSUME NEW s \in Reqs,
             \/ G!GetMem(s) \/ G!HGet(s) \/ G!FillMem(s) \/ G!Refresh(s, G!generateToken)
      PROVE  job[r].pc = "set" /\ job'[r].ends = job[r].ends
  <2>1. CASE G!GetMem(s)
    BY <1>1, <2>1 DEF G!GetMem, Job
  <2>2. CASE G!HGet(s)
    BY <1>1, <1>3, <2>2 DEF G!HGet, G!Answer, Job
  <2>3. CASE G!FillMem(s)
    BY <1>1, <2>3 DEF G!FillMem, G!To, Job
  <2>4. CASE G!Refresh(s, G!generateToken)
    <3> DEFINE e == [job[s] EXCEPT !.pc = "hset",
                                   !.t = [tok |-> G!generateToken, rem |-> Expire],
                                   !.ends = G!Current]
    <3>1. job' = [job EXCEPT ![s] = e]
      BY <2>4 DEF G!Refresh, G!Generates
    <3>2. e.pc = "hset"
      BY <1>1 DEF Job
    <3> HIDE DEF e
    <3>3. QED
      BY <1>2, <3>1, <3>2
  <2>5. QED
    BY <1>4, <2>1, <2>2, <2>3, <2>4
<1>5. ASSUME NEW s \in Reqs,
             \/ G!Refused(s) \/ G!Called(s) \/ G!HSetFails(s) \/ G!Accept(s) \/ G!SetMem(s)
      PROVE  job[r].pc = "set" /\ job'[r].ends = job[r].ends
  <2>1. \/ job' = [job EXCEPT ![s] = G!Idle]
        \/ job' = [job EXCEPT ![s] = G!Accepted(job[s])]
    BY <1>5 DEF G!Refused, G!Called, G!HSetFails, G!Accept, G!SetMem, G!Answer
  <2>2. CASE job' = [job EXCEPT ![s] = G!Idle]
    BY <1>2, <1>3, <2>2
  <2>3. CASE job' = [job EXCEPT ![s] = G!Accepted(job[s])]
    BY <1>2, <1>3, <2>3
  <2>4. QED
    BY <2>1, <2>2, <2>3
<1>6. ASSUME NEW s \in Reqs, NEW p \in Procs,
             G!AfterLogin(s, p, G!generateToken) \/ \E k \in Tokens : G!Verify(s, p, k)
      PROVE  job[r].pc = "set" /\ job'[r].ends = job[r].ends
  <2>1. CASE G!AfterLogin(s, p, G!generateToken)
    <3> DEFINE e == [pc |-> "hset", p |-> p, op |-> "login", tok |-> G!generateToken,
                     t |-> [tok |-> G!generateToken, rem |-> Expire], ends |-> G!Current]
    <3>1. job' = [job EXCEPT ![s] = e] /\ e.pc = "hset"
      BY <2>1 DEF G!AfterLogin
    <3> HIDE DEF e
    <3>2. QED
      BY <1>2, <3>1
  <2>2. CASE \E k \in Tokens : G!Verify(s, p, k)
    BY <1>1, <2>2 DEF G!Verify, G!Idle
  <2>3. QED
    BY <1>6, <2>1, <2>2
<1>7. ASSUME NEW p \in Procs, G!Restart(p)
      PROVE  job[r].pc = "set" /\ job'[r].ends = job[r].ends
  BY <1>1, <1>3, <1>7 DEF G!Restart
<1>8. ASSUME G!Logout \/ G!Scan \/ G!Sweep \/ G!Tick
      PROVE  job[r].pc = "set" /\ job'[r].ends = job[r].ends
  BY <1>1, <1>8 DEF G!Logout, G!Scan, G!Sweep, G!Tick, Job
<1>9. ASSUME NEW s \in Reqs, G!HSet(s)
      PROVE  r = s \/ (job[r].pc = "set" /\ job'[r].ends = job[r].ends)
  BY <1>1, <1>9 DEF G!HSet, G!To, Job
<1>10. QED
  BY <1>4, <1>5, <1>6, <1>7, <1>8, <1>9 DEF G!Happens, G!Step, G!Arrives

(* What redis holds beside a new token. *)
LEMMA StillOverwritten ==
  ASSUME G!GirisConstants, GirisInv, GirisTyped', G!Happens, G!Haunting, NEW r \in Reqs
  PROVE  Overwritten(r)'
<1> SUFFICES ASSUME job'[r].pc = "set", hash' # None, hash'.tok \in job'[r].ends
             PROVE  hash'.tok \in ghosts'
  BY DEF Overwritten
<1> USE DEF GirisInv
<1>1. hash'.tok \in G!Held'
  <2>1. G!Held' = {t.tok : t \in (G!Hands \cup G!Memories)' \cup ({hash'} \ {None})}
    BY DEF G!Held
  <2>2. QED
    BY <2>1
<1>2. SUFFICES hash'.tok \in ghosts
  BY <1>1, GhostsStay
<1>3. ASSUME NEW s \in Reqs, G!HSet(s) PROVE hash'.tok \in ghosts
  <2>1. job \in [Reqs -> Job] /\ HandFull(job[s]) /\ HandFull(job[r])
    BY DEF GirisTyped, HandsFull
  <2>2. CASE r = s
    BY <1>3, <2>1, <2>2 DEF G!HSet, G!To, HandFull, Job
  <2>3. CASE r # s
    <3>1. job'[r] = job[r] /\ hash' = job[s].t /\ job[s].t # None
      BY <1>3, <2>1, <2>3 DEF G!HSet, G!To
    <3>2. job[s].t.tok \in G!Unreached(r)
      BY <2>3, <3>1 DEF G!Unreached
    <3>3. QED
      BY <3>1, <3>2
  <2>4. QED
    BY <2>2, <2>3
<1>4. ASSUME ~\E s \in Reqs : G!HSet(s) PROVE hash'.tok \in ghosts
  <2>1. job[r].pc = "set" /\ job'[r].ends = job[r].ends
    BY <1>4, SetMoves
  <2>2. CASE hash' = hash
    BY <2>1, <2>2 DEF Overwritten
  <2>3. CASE G!Tick
    <3>1. hash' = G!Older(hash) /\ hash \in G!Token \cup {None}
      BY <2>3 DEF G!Tick, GirisTyped
    <3>2. hash # None /\ hash'.tok = hash.tok
      BY <3>1, OlderTyped
    <3>3. QED
      BY <2>1, <3>2 DEF Overwritten
  <2>4. QED
    BY <1>4, <2>2, <2>3, HashMoves
<1>5. QED
  BY <1>3, <1>4

(* The copies of a token that ends in SetMem are ghosts already, or are     *)
(* those that it leaves.                                                   *)
LEMMA EndsLeft ==
  ASSUME G!GirisConstants, GirisInv, GirisTyped', NEW r \in Reqs, G!SetMem(r),
         NEW k, k \in job[r].ends \ over, k \in G!Held'
  PROVE  k \in ghosts \/ k \in G!Left
<1> USE DEF GirisInv
<1>1. job \in [Reqs -> Job] /\ HandFull(job[r])
  BY DEF GirisTyped, HandsFull
<1>2. PICK t : Copy(t)' /\ t.tok = k
  <2>1. k \in G!Held' => \E t : Copy(t)' /\ t.tok = k
    BY DEF G!Held, G!Hands, G!Memories, Copy, Entry, GirisTyped, HandsFull, G!GirisConstants
  <2>2. QED
    BY <2>1
<1>3. ASSUME t \in G!Hands \cup G!Memories PROVE k \in G!Left
  BY <1>2, <1>3 DEF G!Left, G!SetMem
<1>4. CASE t = hash'
  BY <1>2, <1>4 DEF Copy, G!SetMem, Overwritten
<1>5. ASSUME NEW s \in Reqs, t = job'[s].t PROVE t \in G!Hands
  <2>1. s # r
    BY <1>1, <1>2, <1>5 DEF G!SetMem, G!Idle, G!Accepted, Job, Copy
  <2>2. QED
    BY <1>1, <1>2, <1>5, <2>1 DEF G!SetMem, Copy, G!Hands
<1>6. ASSUME NEW p \in Procs, near'[p] # None, t = near'[p].t PROVE t \in G!Memories
  <2>1. p # job[r].p
    BY <1>1, <1>2, <1>6 DEF G!SetMem, HandFull, GirisTyped
  <2>2. near'[p] = near[p]
    BY <2>1 DEF G!SetMem, GirisTyped
  <2>3. QED
    BY <1>6, <2>2 DEF G!Memories
<1>7. QED
  BY <1>2, <1>3, <1>4, <1>5, <1>6 DEF Copy

LEMMA OverStaysOver ==
  ASSUME G!GirisConstants, GirisInv, GirisTyped', G!Happens, G!Haunting
  PROVE  G!OverIsOver'
<1> SUFFICES ASSUME NEW k, k \in over', k \in G!Held' PROVE k \in ghosts \/ k \in G!Left
  BY GhostsStay DEF G!OverIsOver
<1> USE DEF GirisInv
<1>1. CASE k \in over
  BY <1>1, HeldBefore DEF G!OverIsOver, GirisTyped
<1>2. CASE k \notin over /\ G!Logout
  <2>1. PICK t \in G!Hands' \cup G!Memories' : t.tok = k
    BY <1>2 DEF G!Held, G!Logout, G!Deleted
  <2>2. G!Hands' = G!Hands /\ G!Memories' = G!Memories
    BY <1>2 DEF G!Logout, G!Hands, G!Memories
  <2>3. QED
    BY <1>2, <2>1, <2>2 DEF G!Left
<1>3. ASSUME k \notin over, NEW r \in Reqs, G!SetMem(r) PROVE k \in ghosts \/ k \in G!Left
  <2>1. k \in job[r].ends
    BY <1>3 DEF G!SetMem
  <2>2. QED
    BY <1>3, <2>1, EndsLeft
<1>4. QED
  BY <1>1, <1>2, <1>3, OverMoves

LEMMA GirisStep == ASSUME G!GirisConstants PROVE GirisInv /\ [G!Next]_girisVars => GirisInv'
<1> SUFFICES ASSUME GirisInv, [G!Next]_girisVars PROVE GirisInv'
  OBVIOUS
<1>1. CASE UNCHANGED girisVars
  BY <1>1 DEF girisVars, GirisInv, GirisTyped, HandsFull, Copy, InStep, Overwritten,
              G!Unreached, G!OverIsOver, G!Held, G!Hands, G!Memories, G!Expired
<1>2. CASE G!Next
  <2>1. G!Happens /\ G!Haunting /\ GirisTyped
    BY <1>2 DEF G!Next, GirisInv
  <2>2. GirisTyped'
    BY <2>1, GirisTypes
  <2>3. ASSUME NEW r \in Reqs PROVE (G!Unreached(r) \subseteq ghosts)'
    <3>1. G!Unreached(r)' \subseteq G!Held'
      <4>1. \A k \in G!Unreached(r)' : \E t : Copy(t)' /\ t.tok = k
        BY <2>2 DEF G!Unreached, Copy, Entry, GirisTyped, G!GirisConstants
      <4>2. \A k : (\E t : Copy(t)' /\ t.tok = k) => k \in G!Held'
        BY DEF Copy, G!Held, G!Hands, G!Memories
      <4>3. QED
        BY <4>1, <4>2
    <3>2. QED
      BY <2>1, <3>1, GhostsStay
  <2>4. \A r \in Reqs : Overwritten(r)'
    BY <2>1, <2>2, StillOverwritten
  <2>5. \A t : Copy(t)' => InStep(t)'
    BY <2>1, <2>2, CopiesInStep DEF GirisInv
  <2>6. G!OverIsOver'
    BY <2>1, <2>2, OverStaysOver
  <2>7. (sweep = "doomed" => hash = None \/ G!Expired(hash))'
    <3> SUFFICES ASSUME sweep' = "doomed", hash' # None PROVE G!Expired(hash')
      BY DEF G!Expired
    <3>1. CASE G!Tick
      <4>1. hash' = G!Older(hash) /\ hash \in G!Token \cup {None} /\ sweep = "doomed"
        BY <2>1, <3>1 DEF G!Tick, GirisTyped
      <4>2. QED
        BY <4>1, OlderTyped DEF GirisInv
    <3>2. ASSUME ~G!Tick PROVE ~\E r \in Reqs : G!HSet(r)
      BY DEF G!HSet
    <3>3. ASSUME hash' = hash PROVE sweep = "doomed" \/ G!Scan
      BY <2>1 DEF G!Happens, G!Step, G!Arrives, G!GetMem, G!HGet, G!FillMem, G!Refused, G!Accept,
         G!Called, G!HSet, G!HSetFails, G!SetMem, G!Refresh, G!AfterLogin, G!Verify, G!Restart,
         G!Logout, G!Sweep, G!Tick
    <3>4. QED
      BY <2>1, <3>1, <3>2, <3>3, HashMoves DEF GirisInv, G!Scan, G!Expired
  <2>8. QED
    BY <2>2, <2>3, <2>4, <2>5, <2>6, <2>7 DEF GirisInv
<1>3. QED
  BY <1>1, <1>2

(* No token is accepted late. *)
LEMMA GirisInTime ==
  ASSUME G!GirisConstants, GirisInv, G!Happens
  PROVE  G!AcceptedInTime
<1> SUFFICES ASSUME NEW r \in Reqs, job[r].pc = "check", job'[r].pc \in {"accepted", "hset"}
             PROVE  age[job[r].tok] <= Expire
  BY DEF G!AcceptedInTime
<1>1. job \in [Reqs -> Job] /\ HandFull(job[r])
  BY DEF GirisInv, GirisTyped, HandsFull
<1>2. ASSUME G!Valid(job[r].t, job[r].tok) PROVE age[job[r].tok] <= Expire
  <2>1. Copy(job[r].t)
    BY <1>1 DEF HandFull, Copy
  <2>2. InStep(job[r].t) /\ job[r].t \in G!Token /\ GirisTyped
    BY <2>1, HeldCopies DEF GirisInv
  <2>3. QED
    BY <1>2, <2>2 DEF InStep, G!Valid, G!Expired, G!Token, GirisTyped, G!GirisConstants
<1>3. G!Valid(job[r].t, job[r].tok)
  <2>1. ASSUME NEW s \in Reqs, NEW e, job' = [job EXCEPT ![s] = e] PROVE s = r
    BY <1>1, <2>1
  <2>2. ASSUME NEW s \in Reqs, G!Step(s) PROVE s = r
    <3>1. CASE G!Refresh(s, G!generateToken)
      <4> DEFINE e == [job[s] EXCEPT !.pc = "hset",
                                     !.t = [tok |-> G!generateToken, rem |-> Expire],
                                     !.ends = G!Current]
      <4>1. job' = [job EXCEPT ![s] = e]
        BY <3>1 DEF G!Refresh, G!Generates
      <4> HIDE DEF e
      <4>2. QED
        BY <2>1, <4>1
    <3>2. CASE G!GetMem(s) \/ G!HGet(s)
      BY <2>1, <3>2 DEF G!GetMem, G!HGet, G!Answer
    <3>3. CASE G!FillMem(s) \/ G!HSet(s)
      BY <2>1, <3>3 DEF G!FillMem, G!HSet, G!To
    <3>4. CASE G!Refused(s) \/ G!Called(s) \/ G!HSetFails(s) \/ G!Accept(s) \/ G!SetMem(s)
      BY <2>1, <3>4 DEF G!Refused, G!Called, G!HSetFails, G!Accept, G!SetMem, G!Answer
    <3>5. QED
      BY <2>2, <3>1, <3>2, <3>3, <3>4 DEF G!Step
  <2>3. ASSUME G!Step(r) PROVE G!Valid(job[r].t, job[r].tok)
    BY <1>1, <2>3
       DEF G!Step, G!GetMem, G!HGet, G!FillMem, G!Refused, G!Called, G!HSet, G!HSetFails,
           G!SetMem, G!Accept, G!Refresh, G!Answer, G!Idle
  <2>4. ASSUME NEW s \in Reqs, NEW p \in Procs PROVE ~G!Arrives(s, p)
    BY <1>1, <2>1 DEF G!Arrives, G!AfterLogin, G!Verify
  <2>5. ASSUME NEW p \in Procs PROVE ~G!Restart(p)
    BY <1>1 DEF G!Restart, G!Idle
  <2>6. ~G!Logout /\ ~G!Scan /\ ~G!Sweep /\ ~G!Tick
    BY <1>1 DEF G!Logout, G!Scan, G!Sweep, G!Tick, Job
  <2>7. QED
    BY <2>2, <2>3, <2>4, <2>5, <2>6 DEF G!Happens
<1>4. QED
  BY <1>2, <1>3

(* The collector spares a live token, unless it was stored late. *)
LEMMA GirisSweeps ==
  ASSUME GirisInv, G!Happens
  PROVE  G!SweepsExpired
<1>1. sweep # "idle" /\ sweep' = "idle" => G!Sweep
  BY DEF GirisInv, GirisTyped, G!Happens, G!Step, G!Arrives, G!GetMem, G!HGet, G!FillMem,
         G!Refused, G!Accept, G!Called, G!HSet, G!HSetFails, G!SetMem, G!Refresh,
         G!AfterLogin, G!Verify, G!Restart, G!Logout, G!Scan, G!Tick
<1>2. QED
  BY DEF GirisInv, GirisTyped, G!SweepsExpired

(* For any processes, requests, tokens and lifetimes: what has been ended   *)
(* lives on only in the copies that the end did not reach, no token is     *)
(* accepted later than Expire after it was made, and the collector takes a *)
(* live one only when that was stored after it had looked.                 *)
THEOREM GirisTokensEnd == DataSpec => TokensEnd
<1> DEFINE I == machine = "giris" => GirisInv
<1>1. DataInit => I
  BY GirisInit, OneBegins, DataAssumption
<1>2. I /\ [DataNext]_dataVars => I'
  BY GirisStep, OneRuns, DataAssumption
<1>3. I /\ [DataNext]_dataVars => [machine = "giris" => G!TokensEnd]_dataVars
  <2> SUFFICES ASSUME I, DataNext, machine = "giris" PROVE G!TokensEnd
    OBVIOUS
  <2>1. G!Next
    BY DEF DataNext
  <2>2. G!OverIsOver'
    BY <2>1, GirisStep, DataAssumption DEF GirisInv
  <2>3. G!AcceptedInTime /\ G!SweepsExpired
    BY <2>1, GirisInTime, GirisSweeps, DataAssumption DEF G!Next
  <2>4. QED
    BY <2>2, <2>3 DEF G!TokensEnd
<1>4. QED
  BY <1>1, <1>2, <1>3, PTL DEF DataSpec, TokensEnd
-----------------------------------------------------------------------------
(* Retention: the sizes of the batches add up to the count.                *)
LEMMA Division ==
  ASSUME NEW n \in Nat, NEW e \in Nat \ {0}
  PROVE  /\ n \div e \in Nat /\ n % e \in 0..(e - 1)
         /\ n = e * (n \div e) + (n % e)
OBVIOUS

LEMMA LoopsAre ==
  ASSUME NEW n \in Nat \ {0}
  PROVE  /\ Loops(n) = IF n % Each = 0 THEN n \div Each ELSE n \div Each + 1
         /\ Loops(n) \in Nat \ {0}
<1> DEFINE q == n \div Each
           m == n % Each
           b == n + Each - 1
           L == b \div Each
           k == b % Each
<1>0. Each \in Nat \ {0}
  BY RetentionAssumption
<1>1. q \in Nat /\ m \in 0..(Each - 1) /\ n = (Each * q) + m
  BY <1>0, Division
<1>2. L \in Nat /\ k \in 0..(Each - 1) /\ n + Each - 1 = Each * L + k
  <2>1. b \in Nat
    BY <1>0
  <2> HIDE DEF b
  <2>2. L \in Nat /\ k \in 0..(Each - 1) /\ b = Each * L + k
    BY <1>0, <2>1, Division
  <2>3. QED
    BY <2>2 DEF b
<1> HIDE DEF q, m, L, k
<1>3. Each * (L - q) = m + Each - 1 - k
  BY <1>0, <1>1, <1>2
<1>4. L - q < 2
  <2> SUFFICES ASSUME L - q >= 2 PROVE FALSE
    BY <1>1, <1>2
  <2>1. Each * (L - q) >= Each * 2
    BY <1>0, <1>1, <1>2
  <2>2. QED
    BY <1>0, <1>1, <1>2, <1>3, <2>1
<1>5. L - q >= 0
  <2> SUFFICES ASSUME L - q <= -1 PROVE FALSE
    BY <1>1, <1>2
  <2>1. Each * (L - q) <= -Each
    BY <1>0, <1>1, <1>2
  <2>2. QED
    BY <1>0, <1>1, <1>2, <1>3, <2>1
<1>6. L = q \/ L = q + 1
  BY <1>1, <1>2, <1>4, <1>5
<1>7. L = IF m = 0 THEN q ELSE q + 1
  <2>1. CASE L = q
    BY <1>0, <1>1, <1>2, <1>3, <2>1
  <2>2. CASE L = q + 1
    BY <1>0, <1>1, <1>2, <1>3, <2>2
  <2>3. QED
    BY <1>6, <2>1, <2>2
<1>8. L > 0
  BY <1>0, <1>1, <1>7
<1>9. QED
  BY <1>2, <1>7, <1>8 DEF q, m, L, k, Loops

LEMMA BatchesAddUp ==
  ASSUME NEW n \in Nat \ {0}, NEW i \in 1..Loops(n)
  PROVE  /\ Offset(n, i) \in Nat \ {0}
         /\ (i - 1) * Each + Offset(n, i) <= n
         /\ i = Loops(n) => (i - 1) * Each + Offset(n, i) = n
         /\ i < Loops(n) => Offset(n, i) = Each
<1> DEFINE q == n \div Each
           m == n % Each
<1>0. Each \in Nat \ {0}
  BY RetentionAssumption
<1>1. q \in Nat /\ m \in 0..(Each - 1) /\ n = (Each * q) + m
  BY <1>0, Division
<1>2. Loops(n) = (IF m = 0 THEN q ELSE q + 1) /\ Loops(n) \in Nat
  BY LoopsAre
<1>3. Offset(n, i) = IF m > 0 /\ i = Loops(n) THEN m ELSE Each
  BY DEF Offset
<1>4. i \in Nat /\ i <= Loops(n)
  BY <1>2
<1> HIDE DEF q, m
<1>5. CASE m = 0
  <2>1. i <= q /\ Offset(n, i) = Each
    BY <1>2, <1>3, <1>4, <1>5
  <2>2. (i - 1) * Each + Each = i * Each
    BY <1>0, <1>4
  <2>3. i * Each <= q * Each
    BY <1>0, <1>1, <1>4, <2>1
  <2>4. QED
    BY <1>0, <1>1, <1>2, <1>4, <1>5, <2>1, <2>2, <2>3
<1>6. CASE m # 0 /\ i = Loops(n)
  BY <1>0, <1>1, <1>2, <1>3, <1>4, <1>6
<1>7. CASE m # 0 /\ i < Loops(n)
  <2>1. i <= q /\ Offset(n, i) = Each
    BY <1>1, <1>2, <1>3, <1>4, <1>7
  <2>2. (i - 1) * Each + Each = i * Each
    BY <1>0, <1>4
  <2>3. i * Each <= q * Each
    BY <1>0, <1>1, <1>4, <2>1
  <2>4. QED
    BY <1>0, <1>1, <1>2, <1>4, <1>7, <2>1, <2>2, <2>3
<1>8. QED
  BY <1>2, <1>4, <1>5, <1>6, <1>7

(* In a finite set of naturals every rank below its size is taken.          *)
LEMMA Ranked ==
  ASSUME NEW S \in SUBSET Nat, IsFiniteSet(S), NEW k \in Nat, k < Cardinality(S)
  PROVE  \E x \in S : Cardinality({y \in S : y < x}) = k
<1> DEFINE f == [x \in S |-> Cardinality({y \in S : y < x})]
           N == Cardinality(S)
           Ranks == 0..(N - 1)
<1>1. N \in Nat
  BY FS_CardinalityType
<1>2. ASSUME NEW x \in S PROVE IsFiniteSet({y \in S : y < x}) /\ f[x] \in Nat /\ f[x] < N
  <2>1. {y \in S : y < x} \in SUBSET S /\ {y \in S : y < x} # S
    BY <1>2
  <2>2. QED
    BY <1>1, <2>1, FS_Subset, FS_CardinalityType
<1>3. ASSUME NEW x \in S, NEW z \in S, x < z PROVE f[x] < f[z]
  <2>0. \A y \in S : y < x => y < z
    BY <1>3
  <2>1. {y \in S : y < x} \subseteq {y \in S : y < z}
    BY <2>0
  <2>2. x \in {y \in S : y < z} /\ x \notin {y \in S : y < x}
    BY <1>3
  <2>3. Cardinality({y \in S : y < x}) <= Cardinality({y \in S : y < z})
        /\ Cardinality({y \in S : y < x}) # Cardinality({y \in S : y < z})
    BY <1>2, <2>1, <2>2, FS_Subset
  <2>4. QED
    BY <1>2, <2>3
<1>4. f \in Injection(S, Ranks)
  <2>1. f \in [S -> Ranks]
    BY <1>1, <1>2
  <2>2. ASSUME NEW x \in S, NEW z \in S, f[x] = f[z] PROVE x = z
    BY <1>2, <1>3, <2>2
  <2>3. QED
    BY <2>1, <2>2 DEF Injection, IsInjective
<1>5. IsFiniteSet(Ranks) /\ Cardinality(Ranks) = N
  <2> HIDE DEF N
  <2>1. N - 1 \in Int
    BY <1>1
  <2>2. QED
    BY <1>1, <2>1, FS_Interval
<1>6. f \in Surjection(S, Ranks)
  BY <1>4, <1>5, FS_Injection
<1>7. k \in Ranks
  BY <1>1
<1>8. QED
  BY <1>6, <1>7 DEF Surjection

(* The row After a batch leaves as many below it.                          *)
LEMMA Picked ==
  ASSUME NEW S \in SUBSET (Nat \ {0}), IsFiniteSet(S), NEW k \in Nat \ {0}, After(S, k) # 0
  PROVE  After(S, k) \in S /\ Cardinality({y \in S : y < After(S, k)}) = k
<1>1. k < Cardinality(S)
  BY FS_CardinalityType DEF After
<1>2. \E x \in S : Cardinality({y \in S : y < x}) = k
  BY <1>1, Ranked
<1>3. After(S, k) = CHOOSE x \in S : Cardinality({y \in S : y < x}) = k
  BY <1>1, FS_CardinalityType DEF After
<1>4. QED
  BY <1>2, <1>3

LEMMA PickedNone ==
  ASSUME NEW S \in SUBSET (Nat \ {0}), IsFiniteSet(S), NEW k \in Nat \ {0}, After(S, k) = 0
  PROVE  Cardinality(S) <= k
<1> SUFFICES ASSUME ~(Cardinality(S) <= k) PROVE FALSE
  OBVIOUS
<1>1. k < Cardinality(S)
  BY FS_CardinalityType
<1>2. \E x \in S : Cardinality({y \in S : y < x}) = k
  BY <1>1, Ranked
<1>3. After(S, k) = CHOOSE x \in S : Cardinality({y \in S : y < x}) = k
  BY <1>1, FS_CardinalityType DEF After
<1>4. QED
  BY <1>2, <1>3

(* The rows up to the one that Save others follow.                          *)
LEMMA BeyondSave ==
  ASSUME NEW S \in SUBSET (Nat \ {0}), IsFiniteSet(S),
         {r \in S : r <= FromEnd(S, Save)} # {}
  PROVE  Cardinality({r \in S : r <= FromEnd(S, Save)}) = Cardinality(S) - Save
<1> DEFINE N == Cardinality(S)
           x == FromEnd(S, Save)
<1>0. Save \in Nat \ {0} /\ N \in Nat
  BY RetentionAssumption, FS_CardinalityType
<1>1. Save < N
  <2> SUFFICES ASSUME Save >= N PROVE FALSE
    BY <1>0
  <2>1. FromEnd(S, Save) = 0
    BY <1>0 DEF FromEnd
  <2>2. \A r \in S : ~(r <= 0)
    OBVIOUS
  <2>3. QED
    BY <2>1, <2>2
<1>2. x = CHOOSE z \in S : Cardinality({y \in S : y > z}) = Save
  BY <1>0, <1>1 DEF FromEnd
<1>3. PICK z \in S : Cardinality({y \in S : y < z}) = N - Save - 1
  <2>1. N - Save - 1 \in Nat /\ N - Save - 1 < N
    BY <1>0, <1>1
  <2>2. QED
    BY <2>1, Ranked
<1>4. ASSUME NEW w \in S
      PROVE  /\ IsFiniteSet({y \in S : y > w}) /\ IsFiniteSet({y \in S : y <= w})
             /\ Cardinality({y \in S : y > w}) = N - Cardinality({y \in S : y <= w})
             /\ Cardinality({y \in S : y <= w}) = Cardinality({y \in S : y < w}) + 1
             /\ Cardinality({y \in S : y <= w}) \in Nat
  <2>1. /\ IsFiniteSet({y \in S : y > w}) /\ IsFiniteSet({y \in S : y <= w})
        /\ IsFiniteSet({y \in S : y < w})
    BY FS_Subset
  <2>0. \A y \in S : (y > w <=> ~(y <= w)) /\ (y <= w <=> y < w \/ y = w)
    OBVIOUS
  <2>2. {y \in S : y > w} = S \ {y \in S : y <= w}
    BY <2>0
  <2>3. S \cap {y \in S : y <= w} = {y \in S : y <= w}
    OBVIOUS
  <2>4. Cardinality({y \in S : y > w}) = N - Cardinality({y \in S : y <= w})
    BY <2>2, <2>3, FS_Difference
  <2>5. {y \in S : y <= w} = {y \in S : y < w} \cup {w} /\ w \notin {y \in S : y < w}
    BY <2>0
  <2>6. Cardinality({y \in S : y <= w}) = Cardinality({y \in S : y < w}) + 1
    BY <2>1, <2>5, FS_AddElement
  <2>7. QED
    BY <2>1, <2>4, <2>6, FS_CardinalityType
<1>5. Cardinality({y \in S : y > z}) = Save
  <2>1. /\ Cardinality({y \in S : y > z}) = N - Cardinality({y \in S : y <= z})
        /\ Cardinality({y \in S : y <= z}) = (N - Save - 1) + 1
    BY <1>3, <1>4
  <2> HIDE DEF N
  <2>2. QED
    BY <1>0, <2>1
<1>6. x \in S /\ Cardinality({y \in S : y > x}) = Save
  BY <1>2, <1>5
<1>7. /\ Cardinality({y \in S : y > x}) = N - Cardinality({y \in S : y <= x})
      /\ Cardinality({y \in S : y <= x}) \in Nat
  BY <1>4, <1>6
<1>8. Cardinality({y \in S : y <= x}) = N - Save
  <2> HIDE DEF N, x
  <2>1. QED
    BY <1>0, <1>6, <1>7
<1>9. QED
  BY <1>8

(* As many of the lowest rows as are old are all old.                       *)
LEMMA LowestOld ==
  ASSUME NEW S \in SUBSET Nat, IsFiniteSet(S), NEW a \in Nat, NEW cut \in Nat,
         Cardinality({y \in S : y < cut}) <= Cardinality({y \in S : y <= a})
  PROVE  \A r \in S : r < cut => r <= a
<1> SUFFICES ASSUME NEW r \in S, r < cut, ~(r <= a) PROVE FALSE
  OBVIOUS
<1>1. /\ IsFiniteSet({y \in S : y < cut}) /\ IsFiniteSet({y \in S : y <= a})
      /\ Cardinality({y \in S : y < cut}) \in Nat /\ Cardinality({y \in S : y <= a}) \in Nat
  BY FS_Subset, FS_CardinalityType
<1>2. {y \in S : y <= a} \subseteq {y \in S : y < cut}
  <2>1. \A y \in S : y <= a => y < cut
    OBVIOUS
  <2>2. QED
    BY <2>1
<1>3. r \in {y \in S : y < cut} /\ r \notin {y \in S : y <= a}
  OBVIOUS
<1>4. Cardinality({y \in S : y <= a}) <= Cardinality({y \in S : y < cut})
      /\ Cardinality({y \in S : y <= a}) # Cardinality({y \in S : y < cut})
  BY <1>1, <1>2, <1>3, FS_Subset
<1>5. QED
  BY <1>1, <1>4

(* The number of rows that may go now. *)
Spare == IF mode = "count" THEN Cardinality(rows) - Save
         ELSE Cardinality({r \in rows : r <= aged})

Cleaner == [pc : PC, count : Nat, i : Nat, cut : Nat, deleted : Nat]

(* What a cleaner has still to delete may go, and the rows that it is about *)
(* to delete are one batch.                                                *)
CleanerInv(e) ==
  /\ e.pc \in {"pick", "delete"} =>
       /\ e.count # 0 /\ e.i \in 1..Loops(e.count)
       /\ e.deleted = (e.i - 1) * Each
       /\ e.count - e.deleted <= Spare
  /\ e.pc = "delete" =>
       /\ e.cut # 0 /\ e.cut < next
       /\ Cardinality({r \in rows : r < e.cut}) = Offset(e.count, e.i)
  /\ e.pc = "done" => e.deleted = e.count \/ (mode = "days" /\ e.cut = 0)

TableInv ==
  /\ mode \in {"count", "days"}
  /\ next \in Nat \ {0} /\ aged \in Nat /\ aged < next
  /\ rows \subseteq 1..(next - 1)
  /\ cl \in [Cleaners -> Cleaner]

RetentionInv == TableInv /\ \A c \in Cleaners : CleanerInv(cl[c])

LEMMA RowsFinite ==
  ASSUME TableInv
  PROVE  /\ rows \in SUBSET (Nat \ {0}) /\ IsFiniteSet(rows) /\ Cardinality(rows) \in Nat
         /\ \A S : S \in SUBSET rows => IsFiniteSet(S) /\ Cardinality(S) \in Nat
<1>1. 1 \in Int /\ next - 1 \in Int
  BY DEF TableInv
<1>2. IsFiniteSet(1..(next - 1))
  BY <1>1, FS_Interval
<1>3. IsFiniteSet(rows) /\ rows \in SUBSET (Nat \ {0})
  <2>1. rows \in SUBSET (1..(next - 1)) /\ 1..(next - 1) \subseteq Nat \ {0}
    BY DEF TableInv
  <2>2. QED
    BY <1>2, <2>1, FS_Subset
<1>4. QED
  BY <1>3, FS_Subset, FS_CardinalityType

LEMMA RetentionInit == Init => RetentionInv
<1> SUFFICES ASSUME Init PROVE RetentionInv
  OBVIOUS
<1>1. TableInv
  BY DEF Init, Idle, TableInv, Cleaner, PC
<1>2. QED
  BY <1>1 DEF Init, Idle, RetentionInv, CleanerInv

(* What Delete takes. *)
LEMMA BatchExpired ==
  ASSUME RetentionInv, NEW c \in Cleaners, cl[c].pc = "delete"
  PROVE  LET gone == {r \in rows : r < cl[c].cut}
         IN  /\ \A r \in gone : Expired(r)
             /\ Cardinality(gone) = Offset(cl[c].count, cl[c].i)
             /\ Cardinality(rows \ gone) = Cardinality(rows) - Cardinality(gone)
             /\ mode = "days" =>
                  Cardinality({r \in rows \ gone : r <= aged})
                    = Cardinality({r \in rows : r <= aged}) - Cardinality(gone)
<1> DEFINE gone == {r \in rows : r < cl[c].cut}
           e == cl[c]
           o == Offset(e.count, e.i)
<1>1. e \in Cleaner /\ CleanerInv(e) /\ TableInv /\ e.pc = "delete"
  BY DEF RetentionInv, TableInv
<1>2. /\ Cardinality(gone) = o /\ e.cut \in Nat /\ e.count \in Nat \ {0}
      /\ e.i \in 1..Loops(e.count) /\ e.deleted = (e.i - 1) * Each /\ e.count - e.deleted <= Spare
  BY <1>1 DEF CleanerInv, Cleaner
<1>3. o \in Nat \ {0} /\ (e.i - 1) * Each + o <= e.count
  BY <1>2, BatchesAddUp
<1>4. Spare \in Int /\ e.deleted \in Int
  BY <1>1, RowsFinite, RetentionAssumption DEF Spare, Cleaner
<1>5. o <= Spare
  BY <1>2, <1>3, <1>4
<1>6. /\ rows \in SUBSET (Nat \ {0}) /\ IsFiniteSet(rows) /\ Cardinality(rows) \in Nat
      /\ IsFiniteSet(gone) /\ gone \in SUBSET rows
  BY <1>1, RowsFinite
<1>7. Cardinality(rows \ gone) = Cardinality(rows) - Cardinality(gone)
  <2>1. rows \cap gone = gone
    OBVIOUS
  <2>2. QED
    BY <1>6, <2>1, FS_Difference
<1>8. CASE mode = "count"
  <2>1. Cardinality(rows \ gone) >= Save
    BY <1>2, <1>3, <1>5, <1>6, <1>7, <1>8, RetentionAssumption DEF Spare
  <2>2. ASSUME NEW r \in gone PROVE Expired(r)
    <3>1. rows \ gone \subseteq {q \in rows : q > r}
      <4>1. r \in Nat /\ r < e.cut /\ \A q \in rows : q \in Nat
        BY <1>6, <2>2
      <4>2. \A q \in rows : ~(q < e.cut) => q > r
        BY <1>2, <4>1
      <4>3. QED
        BY <4>2
    <3>2. /\ IsFiniteSet({q \in rows : q > r}) /\ Cardinality({q \in rows : q > r}) \in Nat
          /\ Cardinality(rows \ gone) \in Nat
      BY <1>1, RowsFinite
    <3>3. Cardinality(rows \ gone) <= Cardinality({q \in rows : q > r})
      BY <3>1, <3>2, FS_Subset
    <3>4. QED
      BY <1>8, <2>1, <3>2, <3>3, RetentionAssumption DEF Expired
  <2>3. QED
    BY <1>2, <1>7, <1>8, <2>2
<1>9. CASE mode = "days"
  <2>1. Cardinality(gone) <= Cardinality({r \in rows : r <= aged})
    BY <1>2, <1>5, <1>9 DEF Spare
  <2>2. \A r \in rows : r < e.cut => r <= aged
    BY <1>1, <1>2, <1>6, <2>1, LowestOld DEF TableInv
  <2>3. gone \in SUBSET {r \in rows : r <= aged}
    BY <2>2
  <2>4. {r \in rows \ gone : r <= aged} = {r \in rows : r <= aged} \ gone
    OBVIOUS
  <2>5. {r \in rows : r <= aged} \cap gone = gone
    BY <2>3
  <2>6. IsFiniteSet({r \in rows : r <= aged})
    BY <1>1, RowsFinite
  <2>7. Cardinality({r \in rows : r <= aged} \ gone)
          = Cardinality({r \in rows : r <= aged}) - Cardinality(gone)
    BY <1>6, <2>5, <2>6, FS_Difference
  <2>8. QED
    BY <1>2, <1>7, <1>9, <2>2, <2>4, <2>7 DEF Expired
<1>10. QED
  BY <1>1, <1>8, <1>9 DEF TableInv

(* Which types the steps keep. *)
LEMMA TableStays == ASSUME RetentionInv, Next PROVE TableInv'
<1> USE DEF RetentionInv, TableInv
<1>1. \A c \in Cleaners : cl[c] \in Cleaner
  OBVIOUS
<1>2. CASE Insert
  BY <1>2 DEF Insert
<1>3. CASE Age
  BY <1>3 DEF Age
<1>4. ASSUME NEW c \in Cleaners, Count(c) PROVE TableInv'
  <2> DEFINE n == Cardinality({r \in rows : r <= LastToDelete})
  <2>1. n \in Nat
    <3>1. {r \in rows : r <= LastToDelete} \in SUBSET rows
      OBVIOUS
    <3>2. QED
      BY <3>1, RowsFinite
  <2> HIDE DEF n
  <2>2. cl' = [cl EXCEPT ![c] = [Idle EXCEPT !.pc = "pick", !.count = n, !.i = 1]]
        /\ UNCHANGED <<mode, rows, next, aged>>
    BY <1>4 DEF Count, n
  <2>3. QED
    BY <2>1, <2>2 DEF Idle, Cleaner, PC
<1>5. ASSUME NEW c \in Cleaners, Pick(c) PROVE TableInv'
  <2> DEFINE o == Offset(cl[c].count, cl[c].i)
             cut == After(rows, o)
  <2>1. cut \in Nat
    <3>1. cl[c].count \in Nat \ {0} /\ cl[c].i \in 1..Loops(cl[c].count)
      BY <1>1, <1>5 DEF Pick, CleanerInv, Cleaner
    <3>2. o \in Nat \ {0}
      BY <3>1, BatchesAddUp
    <3>3. rows \in SUBSET (Nat \ {0}) /\ IsFiniteSet(rows)
      BY RowsFinite
    <3> HIDE DEF o, TableInv, RetentionInv
    <3>4. cut = 0 \/ cut \in rows
      BY <3>2, <3>3, Picked
    <3>5. CASE cut = 0
      BY <3>5
    <3>6. CASE cut \in rows
      BY <3>3, <3>6
    <3>7. QED
      BY <3>4, <3>5, <3>6
  <2> HIDE DEF cut
  <2>2. cl' = [cl EXCEPT ![c].pc = IF cut = 0 THEN "done" ELSE "delete", ![c].cut = cut]
        /\ UNCHANGED <<mode, rows, next, aged>>
    BY <1>5 DEF Pick, cut
  <2>3. QED
    BY <2>1, <2>2 DEF Cleaner, PC
<1>6. ASSUME NEW c \in Cleaners, Delete(c) PROVE TableInv'
  <2> DEFINE n == Cardinality({r \in rows : r < cl[c].cut})
             l == Loops(cl[c].count)
  <2>1. n \in Nat
    <3>1. {r \in rows : r < cl[c].cut} \in SUBSET rows
      OBVIOUS
    <3>2. QED
      BY <3>1, RowsFinite
  <2>2. rows' \subseteq rows
    BY <1>6 DEF Delete
  <2> HIDE DEF n, l
  <2>3. cl' = [cl EXCEPT ![c].pc = IF cl[c].i = l THEN "done" ELSE "pick",
                         ![c].i = @ + 1, ![c].deleted = @ + n]
        /\ UNCHANGED <<mode, next, aged>>
    BY <1>6 DEF Delete, n, l
  <2>4. cl' \in [Cleaners -> Cleaner]
    BY <2>1, <2>3 DEF Cleaner, PC
  <2>5. QED
    BY <2>2, <2>3, <2>4
<1>7. ASSUME NEW c \in Cleaners, Return(c) PROVE TableInv'
  BY <1>7 DEF Return, Idle, Cleaner, PC
<1>8. QED
  BY <1>2, <1>3, <1>4, <1>5, <1>6, <1>7 DEF Next

OneCleaner == \A c, d \in Cleaners : c = d

(* Inserted rows are above every cut, and only add to what may go. *)
LEMMA InsertKeeps ==
  ASSUME RetentionInv, TableInv', Insert, NEW c \in Cleaners
  PROVE  CleanerInv(cl[c])'
<1> DEFINE e == cl[c]
<1>1. cl'[c] = e /\ mode' = mode /\ aged' = aged /\ next' = next + 1 /\ rows' = rows \cup {next}
  BY DEF Insert
<1>2. e \in Cleaner /\ CleanerInv(e) /\ TableInv /\ next \notin rows /\ aged < next
  BY DEF RetentionInv, TableInv
<1>3. Spare <= Spare' /\ Spare \in Int /\ Spare' \in Int
  <2>1. Cardinality(rows') = Cardinality(rows) + 1 /\ Cardinality(rows) \in Nat
    BY <1>1, <1>2, RowsFinite, FS_AddElement
  <2>2. {r \in rows' : r <= aged'} = {r \in rows : r <= aged}
    BY <1>1, <1>2 DEF TableInv
  <2>3. Cardinality({r \in rows : r <= aged}) \in Nat
    BY <1>2, RowsFinite
  <2>4. CASE mode = "count"
    BY <1>1, <2>1, <2>4, RetentionAssumption DEF Spare
  <2>5. CASE mode # "count"
    <3>1. Spare' = Cardinality({r \in rows' : r <= aged'})
      BY <1>1, <2>5 DEF Spare
    <3>2. Spare = Cardinality({r \in rows : r <= aged})
      BY <2>5 DEF Spare
    <3>3. QED
      BY <2>2, <2>3, <3>1, <3>2
  <2>6. QED
    BY <2>4, <2>5
<1>4. e.cut < next => {r \in rows' : r < e.cut} = {r \in rows : r < e.cut}
  BY <1>1, <1>2 DEF Cleaner, TableInv
<1>5. e.count \in Nat /\ e.deleted \in Nat /\ e.cut \in Nat /\ next \in Nat
  BY <1>2 DEF Cleaner, TableInv
<1>6. e.cut < next => Cardinality({r \in rows' : r < cl'[c].cut})
                         = Cardinality({r \in rows : r < e.cut})
  BY <1>1, <1>4
<1>7. e.count - e.deleted <= Spare => e.count - e.deleted <= Spare'
  BY <1>3, <1>5
<1> HIDE DEF e
<1>8. QED
  BY <1>1, <1>2, <1>5, <1>6, <1>7 DEF CleanerInv

LEMMA AgeKeeps ==
  ASSUME RetentionInv, TableInv', Age, NEW c \in Cleaners
  PROVE  CleanerInv(cl[c])'
<1> DEFINE e == cl[c]
<1>1. cl'[c] = e /\ mode' = mode /\ aged' = aged + 1 /\ next' = next /\ rows' = rows
  BY DEF Age
<1>2. e \in Cleaner /\ CleanerInv(e) /\ TableInv
  BY DEF RetentionInv, TableInv
<1>3. Spare <= Spare' /\ Spare \in Int /\ Spare' \in Int
  <2>1. \A r \in rows : r <= aged => r <= aged'
    BY <1>1, <1>2 DEF TableInv
  <2>2. {r \in rows : r <= aged} \in SUBSET {r \in rows : r <= aged'}
    BY <2>1
  <2>3. /\ IsFiniteSet({r \in rows : r <= aged'}) /\ Cardinality({r \in rows : r <= aged'}) \in Nat
        /\ Cardinality({r \in rows : r <= aged}) \in Nat /\ Cardinality(rows) \in Nat
    BY <1>2, RowsFinite
  <2>4. Cardinality({r \in rows : r <= aged}) <= Cardinality({r \in rows : r <= aged'})
    BY <2>2, <2>3, FS_Subset
  <2>5. QED
    BY <1>1, <2>3, <2>4, RetentionAssumption DEF Spare
<1>4. e.count \in Nat /\ e.deleted \in Nat
  BY <1>2 DEF Cleaner
<1>5. QED
  BY <1>1, <1>2, <1>3, <1>4 DEF CleanerInv

LEMMA CountBegins ==
  ASSUME RetentionInv, TableInv', NEW c \in Cleaners, Count(c)
  PROVE  CleanerInv(cl[c])'
<1> DEFINE n == Cardinality({r \in rows : r <= LastToDelete})
<1>0. TableInv /\ RetentionInv
  BY DEF RetentionInv
<1>1. n \in Nat \ {0} /\ {r \in rows : r <= LastToDelete} # {}
  <2>1. {r \in rows : r <= LastToDelete} \in SUBSET rows /\ n > 0
    BY DEF Count
  <2>2. QED
    BY <1>0, <2>1, RowsFinite, FS_EmptySet
<1>2. n = Spare
  <2>1. CASE mode = "count"
    <3>1. {r \in rows : r <= FromEnd(rows, Save)} # {} /\ LastToDelete = FromEnd(rows, Save)
      BY <1>1, <2>1 DEF LastToDelete
    <3>2. QED
      BY <1>0, <2>1, <3>1, RowsFinite, BeyondSave DEF Spare
  <2>2. CASE mode # "count"
    BY <2>2 DEF Spare, LastToDelete
  <2>3. QED
    BY <2>1, <2>2
<1>3. 1 \in 1..Loops(n)
  BY <1>1, LoopsAre
<1> HIDE DEF n
<1>4. cl' = [cl EXCEPT ![c] = [Idle EXCEPT !.pc = "pick", !.count = n, !.i = 1]]
      /\ UNCHANGED <<mode, rows, next, aged>>
  BY DEF Count, n
<1>5. Spare' = Spare
  BY <1>4 DEF Spare
<1>6. Each \in Nat
  BY RetentionAssumption
<1>7. cl'[c] = [pc |-> "pick", count |-> n, i |-> 1, cut |-> 0, deleted |-> 0]
  BY <1>0, <1>4 DEF Idle, TableInv
<1>8. QED
  BY <1>1, <1>2, <1>3, <1>5, <1>6, <1>7 DEF CleanerInv

LEMMA PickKeeps ==
  ASSUME RetentionInv, TableInv', NEW c \in Cleaners, Pick(c)
  PROVE  CleanerInv(cl[c])'
<1> DEFINE e == cl[c]
           o == Offset(e.count, e.i)
           cut == After(rows, o)
<1>0. e \in Cleaner /\ CleanerInv(e) /\ TableInv /\ e.pc = "pick"
  BY DEF RetentionInv, TableInv, Pick
<1>1. /\ e.count \in Nat \ {0} /\ e.i \in 1..Loops(e.count) /\ e.deleted = (e.i - 1) * Each
      /\ e.count - e.deleted <= Spare /\ e.deleted \in Nat
  BY <1>0 DEF CleanerInv, Cleaner
<1>2. o \in Nat \ {0} /\ e.deleted + o <= e.count
  BY <1>1, BatchesAddUp
<1> HIDE DEF o
<1>3. cut # 0 => cut \in rows /\ Cardinality({r \in rows : r < cut}) = o
  BY <1>0, <1>2, RowsFinite, Picked
<1>4. cut = 0 => mode = "days"
  <2> SUFFICES ASSUME cut = 0, mode = "count" PROVE FALSE
    BY <1>0 DEF TableInv
  <2>1. Cardinality(rows) <= o
    BY <1>0, <1>2, RowsFinite, PickedNone
  <2>2. e.count - e.deleted <= Cardinality(rows) - Save /\ Cardinality(rows) \in Nat
    BY <1>0, <1>1, RowsFinite DEF Spare
  <2>3. QED
    BY <1>1, <1>2, <2>1, <2>2, RetentionAssumption
<1> HIDE DEF cut
<1>5. cl' = [cl EXCEPT ![c].pc = IF cut = 0 THEN "done" ELSE "delete", ![c].cut = cut]
      /\ UNCHANGED <<mode, rows, next, aged>>
  BY DEF Pick, o, cut
<1>6. Spare' = Spare
  BY <1>5 DEF Spare
<1>7. cl'[c] = [e EXCEPT !.pc = IF cut = 0 THEN "done" ELSE "delete", !.cut = cut]
  BY <1>0, <1>5 DEF TableInv
<1>8. /\ cl'[c].pc = (IF cut = 0 THEN "done" ELSE "delete") /\ cl'[c].cut = cut
      /\ cl'[c].count = e.count /\ cl'[c].i = e.i /\ cl'[c].deleted = e.deleted
  BY <1>0, <1>7 DEF Cleaner
<1>9. cut # 0 => cut < next /\ Cardinality({r \in rows' : r < cl'[c].cut}) = o
  <2>1. \A r \in rows : r < next
    BY <1>0 DEF TableInv
  <2>2. QED
    BY <1>3, <1>5, <1>8, <2>1
<1>10. CASE cut = 0
  BY <1>4, <1>5, <1>8, <1>10 DEF CleanerInv
<1>11. CASE cut # 0
  <2>1. cl'[c].pc = "delete" /\ cl'[c].cut # 0 /\ cl'[c].cut < next'
    BY <1>5, <1>8, <1>9, <1>11
  <2>2. Cardinality({r \in rows' : r < cl'[c].cut}) = Offset(cl'[c].count, cl'[c].i)
    BY <1>8, <1>9, <1>11 DEF o
  <2>3. /\ cl'[c].count # 0 /\ cl'[c].i \in 1..Loops(cl'[c].count)
        /\ cl'[c].deleted = (cl'[c].i - 1) * Each
        /\ cl'[c].count - cl'[c].deleted <= Spare'
    BY <1>1, <1>6, <1>8
  <2> HIDE DEF e
  <2>4. QED
    BY <2>1, <2>2, <2>3 DEF CleanerInv
<1>12. QED
  BY <1>10, <1>11

LEMMA DeleteKeeps ==
  ASSUME RetentionInv, TableInv', NEW c \in Cleaners, Delete(c)
  PROVE  CleanerInv(cl[c])'
<1> DEFINE e == cl[c]
           o == Offset(e.count, e.i)
           gone == {r \in rows : r < e.cut}
<1>0. e \in Cleaner /\ CleanerInv(e) /\ TableInv /\ e.pc = "delete"
  BY DEF RetentionInv, TableInv, Delete
<1>1. /\ e.count \in Nat \ {0} /\ e.i \in 1..Loops(e.count) /\ e.deleted = (e.i - 1) * Each
      /\ e.count - e.deleted <= Spare /\ e.deleted \in Nat
  BY <1>0 DEF CleanerInv, Cleaner
<1>2. /\ o \in Nat \ {0} /\ e.deleted + o <= e.count
      /\ e.i = Loops(e.count) => e.deleted + o = e.count
      /\ e.i < Loops(e.count) => o = Each
  BY <1>1, BatchesAddUp
<1>3. Loops(e.count) \in Nat /\ Each \in Nat
  BY <1>1, LoopsAre, RetentionAssumption
<1>4. /\ Cardinality(gone) = o
      /\ Cardinality(rows \ gone) = Cardinality(rows) - o
      /\ mode = "days" => Cardinality({r \in rows \ gone : r <= aged})
                            = Cardinality({r \in rows : r <= aged}) - o
  BY <1>0, BatchExpired
<1>5. /\ cl' = [cl EXCEPT ![c].pc = IF e.i = Loops(e.count) THEN "done" ELSE "pick",
                          ![c].i = @ + 1, ![c].deleted = @ + o]
      /\ UNCHANGED <<mode, next, aged>> /\ rows' = rows \ gone
  BY <1>4 DEF Delete
<1> HIDE DEF o, gone
<1>6. Spare' = Spare - o
  <2>1. CASE mode = "count"
    <3>1. Spare = Cardinality(rows) - Save /\ Spare' = Cardinality(rows \ gone) - Save
      BY <1>5, <2>1 DEF Spare
    <3>2. Cardinality(rows) \in Nat
      BY <1>0, RowsFinite
    <3>3. QED
      BY <1>2, <1>4, <3>1, <3>2, RetentionAssumption
  <2>2. CASE mode = "days"
    <3>1. Spare = Cardinality({r \in rows : r <= aged})
      BY <2>2 DEF Spare
    <3>2. Spare' = Cardinality({r \in rows \ gone : r <= aged})
      BY <1>5, <2>2 DEF Spare
    <3>3. QED
      BY <1>4, <2>2, <3>1, <3>2
  <2>3. QED
    BY <1>0, <2>1, <2>2 DEF TableInv
<1>7. Spare \in Int
  BY <1>0, RowsFinite, RetentionAssumption DEF Spare
<1>8. /\ cl'[c].pc = (IF e.i = Loops(e.count) THEN "done" ELSE "pick") /\ cl'[c].cut = e.cut
      /\ cl'[c].count = e.count /\ cl'[c].i = e.i + 1 /\ cl'[c].deleted = e.deleted + o
  BY <1>0, <1>5 DEF Cleaner, TableInv
<1>9. CASE e.i = Loops(e.count)
  BY <1>2, <1>8, <1>9 DEF CleanerInv
<1>10. CASE e.i # Loops(e.count)
  <2>1. e.i + 1 \in 1..Loops(e.count) /\ o = Each
    BY <1>1, <1>2, <1>3, <1>10
  <2>2. e.deleted + o = ((e.i + 1) - 1) * Each
    BY <1>1, <1>3, <2>1
  <2>3. e.count - (e.deleted + o) <= Spare'
    BY <1>1, <1>2, <1>6, <1>7
  <2>4. QED
    BY <1>1, <1>8, <1>10, <2>1, <2>2, <2>3 DEF CleanerInv
<1>11. QED
  BY <1>9, <1>10

LEMMA RetentionStep ==
  ASSUME OneCleaner
  PROVE  RetentionInv /\ [Next]_vars => RetentionInv'
<1> SUFFICES ASSUME RetentionInv, [Next]_vars PROVE RetentionInv'
  OBVIOUS
<1>1. CASE UNCHANGED vars
  BY <1>1 DEF vars, RetentionInv, TableInv, CleanerInv, Spare
<1>2. CASE Next
  <2>1. TableInv'
    BY <1>2, TableStays
  <2>2. ASSUME NEW c \in Cleaners PROVE CleanerInv(cl[c])'
    <3>1. CASE Return(c)
      BY <3>1 DEF Return, Idle, CleanerInv, RetentionInv, TableInv
    <3>2. Insert \/ Age \/ Count(c) \/ Pick(c) \/ Delete(c) \/ Return(c)
      BY <1>2 DEF Next, OneCleaner
    <3>3. QED
      BY <2>1, <3>1, <3>2, InsertKeeps, AgeKeeps, CountBegins, PickKeeps, DeleteKeeps
  <2>3. QED
    BY <2>1, <2>2 DEF RetentionInv
<1>3. QED
  BY <1>1, <1>2

LEMMA RetentionInvariant == ASSUME OneCleaner PROVE DataSpec => []RetentionInv
<1>1. DataInit => RetentionInv
  BY RetentionInit, OneBegins
<1>2. RetentionInv /\ [DataNext]_dataVars => RetentionInv'
  BY RetentionStep, OneRuns
<1>3. QED
  BY <1>1, <1>2, PTL DEF DataSpec

(* One cleaner at a time deletes only rows that the save tag no longer     *)
(* covers when it does, for any number to save, size of batches and        *)
(* inserts in between.                                                     *)
THEOREM OnlyExpiredGo == ASSUME OneCleaner PROVE DataSpec => OnlyExpired
<1>1. RetentionInv /\ [DataNext]_dataVars => [\A r \in rows \ rows' : Expired(r)]_vars
  <2> SUFFICES ASSUME RetentionInv, Next, NEW r \in rows \ rows' PROVE Expired(r)
    BY OneRuns
  <2>1. PICK c \in Cleaners : Delete(c)
    BY DEF Next, Insert, Age, Count, Pick, Return
  <2>2. QED
    BY <2>1, BatchExpired DEF Delete
<1>2. QED
  BY <1>1, RetentionInvariant, PTL DEF DataSpec, OnlyExpired

(* And it deletes as many as it counted, in batches of any size, unless    *)
(* the last would have emptied the table.                                  *)
THEOREM CountIsDeleted == ASSUME OneCleaner PROVE DataSpec => []DeletesUnlessAll
<1>1. RetentionInv => DeletesUnlessAll
  BY DEF RetentionInv, CleanerInv, DeletesUnlessAll
<1>2. QED
  BY <1>1, RetentionInvariant, PTL
-----------------------------------------------------------------------------
(* The keys of the cache.                                                  *)
Rowed(d) == \A i \in K!Ids : d[i] # Absent => d[i] \in K!Rows /\ d[i].id = i

(* An entry holds what the database does. *)
KeysInv ==
  /\ db \in [K!Ids -> K!Rows \cup {Absent}] /\ Rowed(db)
  /\ pkc \in [0..LastId -> K!Rows \cup {Absent, Miss}]
  /\ search \in [Clauses -> K!Ids \cup {Absent, Miss}]
  /\ \A k \in K!Ids : pkc[k] # Miss => pkc[k] = db[k]
  /\ \A c \in Clauses : search[c] # Miss => search[c] = K!SearchEntry(K!DbAnswer(c, db))
  /\ got = K!DbAnswer(asked, db)

LEMMA LeastOf ==
  ASSUME NEW S, S \subseteq Nat, S # {}
  PROVE  K!Min(S) \in S
<1>1. PICK i \in S : \A j \in S : <<j, i>> \notin OpToRel(<, Nat)
  BY NatLessThanWellFounded, WFMin
<1>2. ASSUME NEW j \in S PROVE i =< j
  <2>1. i \in Nat /\ j \in Nat
    OBVIOUS
  <2>2. ~(j < i)
    BY <1>1, <2>1 DEF OpToRel
  <2>3. QED
    BY <2>1, <2>2
<1>3. QED
  BY <1>2 DEF K!Min

(* The database's answer is one of its rows, or there is none.             *)
LEMMA AnswerIs ==
  ASSUME K!KeysConstants, NEW d \in [K!Ids -> K!Rows \cup {Absent}], Rowed(d), NEW w
  PROVE  \/ K!DbAnswer(w, d) = Absent /\ K!Satisfying(w, d) = {}
         \/ \E i \in K!Satisfying(w, d) : /\ i \in K!Ids /\ K!DbAnswer(w, d) = d[i]
                                          /\ d[i] \in K!Rows /\ d[i].id = i
<1> DEFINE hits == K!Satisfying(w, d)
<1>1. hits \subseteq K!Ids /\ K!Ids \subseteq Nat /\ \A i \in hits : d[i] # Absent
  BY DEF K!Satisfying, K!Ids, K!KeysConstants
<1>2. CASE hits = {}
  BY <1>2 DEF K!DbAnswer
<1>3. CASE hits # {}
  <2>1. K!Min(hits) \in hits
    BY <1>1, <1>3, LeastOf
  <2>2. K!DbAnswer(w, d) = d[K!Min(hits)]
    BY <1>3 DEF K!DbAnswer
  <2>3. QED
    BY <1>1, <2>1, <2>2 DEF Rowed
<1>4. QED
  BY <1>2, <1>3

(* A query by primary keys alone asks for the row of the key it is given.  *)
LEMMA AsksForItsKey ==
  ASSUME K!KeysConstants, NEW d \in [K!Ids -> K!Rows \cup {Absent}], Rowed(d),
         NEW w \in Clauses, \A j \in DOMAIN w : w[j].kind = "pk", K!QueryKey(w) # K!NoKey
  PROVE  K!QueryKey(w) \in K!Ids /\ K!DbAnswer(w, d) = d[K!QueryKey(w)]
<1>1. /\ LastId \in Nat /\ w \in Seq(K!Condition)
      /\ \A j \in DOMAIN w : w[j] \in K!Condition
  BY DEF K!KeysConstants
<1>2. \A j \in DOMAIN w : K!ClauseKey(w[j]) = w[j].id /\ w[j].id \in K!Ids
  BY <1>1 DEF K!ClauseKey, K!Condition
<1>3. K!KeysFound(w) \subseteq K!Ids /\ IsFiniteSet(K!KeysFound(w))
  <2>1. K!KeysFound(w) \subseteq 1..LastId
    BY <1>2 DEF K!KeysFound, K!Ids
  <2>2. IsFiniteSet(1..LastId)
    BY <1>1, FS_Interval
  <2>3. QED
    BY <2>1, <2>2, FS_Subset DEF K!Ids
<1>4. PICK k : K!KeysFound(w) = {k}
  <2>1. Cardinality(K!KeysFound(w)) = 1
    BY DEF K!QueryKey, K!Cardinality, K!IsFiniteSet, Cardinality, IsFiniteSet
  <2>2. QED
    BY <1>3, <2>1, FS_Singleton
<1>5. k \in K!Ids /\ \A j \in DOMAIN w : w[j].id = k
  <2>1. \A j \in DOMAIN w : w[j].id \in K!KeysFound(w)
    BY <1>1, <1>2 DEF K!KeysFound, K!Ids
  <2>2. QED
    BY <1>3, <1>4, <2>1
<1>6. DOMAIN w # {}
  BY <1>4 DEF K!KeysFound
<1>7. K!Last(w) = w[Len(w)] /\ Len(w) \in DOMAIN w
  BY <1>1, <1>6 DEF K!Last
<1>8. K!QueryKey(w) = k
  BY <1>2, <1>5, <1>7 DEF K!QueryKey
<1>9. \A i \in K!Satisfying(w, d) : i = k
  <2> SUFFICES ASSUME NEW i \in K!Satisfying(w, d) PROVE i = k
    OBVIOUS
  <2>1. d[i].id = i
    BY DEF K!Satisfying, Rowed
  <2>2. d[i].id = w[Len(w)].id
    BY <1>7 DEF K!Satisfying, K!Holds
  <2>3. QED
    BY <1>5, <1>7, <2>1, <2>2
<1>10. d[k] # Absent => k \in K!Satisfying(w, d)
  BY <1>5 DEF K!Satisfying, K!Holds, Rowed
<1>11. QED
  BY <1>5, <1>8, <1>9, <1>10, AnswerIs

LEMMA KeysInit == ASSUME K!KeysConstants PROVE K!Init => KeysInv
<1> SUFFICES ASSUME K!Init PROVE KeysInv
  OBVIOUS
<1>1. db \in [K!Ids -> K!Rows \cup {Absent}] /\ Rowed(db)
  BY DEF K!Init, Rowed
<1>2. pkc = [k \in 0..LastId |-> Miss] /\ search = [c \in Clauses |-> Miss]
  BY DEF K!Init
<1>3. \A k \in K!Ids : k \in 0..LastId /\ pkc[k] = Miss
  BY <1>2 DEF K!Ids, K!KeysConstants
<1>4. got = K!DbAnswer(asked, db)
  BY DEF K!Init
<1>5. QED
  BY <1>1, <1>2, <1>3, <1>4 DEF KeysInv

LEMMA SameAnswers ==
  ASSUME db' = db
  PROVE  \A c : K!SearchEntry(K!DbAnswer(c, db))' = K!SearchEntry(K!DbAnswer(c, db))
BY DEF K!DbAnswer, K!Satisfying, K!SearchEntry

LEMMA KeysByKey ==
  ASSUME K!KeysConstants, KeysInv, NEW w \in Clauses, K!QueryByKey(w),
         \A j \in DOMAIN w : w[j].kind = "pk"
  PROVE  KeysInv'
<1> DEFINE k == K!QueryKey(w)
<1>1. /\ db' = db /\ search' = search /\ k # K!NoKey
      /\ asked' = w
      /\ got' = (IF pkc[k] # Miss THEN pkc[k] ELSE K!DbAnswer(w, db))
      /\ pkc' = (IF pkc[k] # Miss THEN pkc ELSE [pkc EXCEPT ![k] = K!DbAnswer(w, db)])
  BY DEF K!QueryByKey, K!Reply
<1>2. k \in K!Ids /\ K!DbAnswer(w, db) = db[k]
  BY <1>1, AsksForItsKey DEF KeysInv
<1> HIDE DEF k
<1>3. got' = db[k]
  BY <1>1, <1>2 DEF KeysInv
<1>4. db[k] \in K!Rows \cup {Absent}
  BY <1>2 DEF KeysInv
<1>5. /\ pkc' \in [0..LastId -> K!Rows \cup {Absent, Miss}]
      /\ \A i \in K!Ids : pkc'[i] # Miss => pkc'[i] = db[i]
  BY <1>1, <1>2, <1>4 DEF KeysInv, K!Ids
<1>6. got' = K!DbAnswer(asked, db)'
  BY <1>1, <1>2, <1>3 DEF K!DbAnswer, K!Satisfying
<1>7. \A c \in Clauses : search'[c] # Miss => search'[c] = K!SearchEntry(K!DbAnswer(c, db))'
  BY <1>1, SameAnswers DEF KeysInv
<1>8. QED
  BY <1>1, <1>5, <1>6, <1>7 DEF KeysInv, Rowed

LEMMA KeysBySearch ==
  ASSUME K!KeysConstants, KeysInv, NEW w \in Clauses, K!QueryBySearch(w)
  PROVE  KeysInv'
<1> DEFINE row == K!DbAnswer(w, db)
<1>1. /\ db' = db /\ asked' = w
      /\ \/ search[w] = Absent /\ got' = Absent /\ UNCHANGED <<pkc, search>>
         \/ /\ search[w] # Absent /\ search[w] # Miss /\ pkc[search[w]] # Miss
            /\ got' = pkc[search[w]] /\ UNCHANGED <<pkc, search>>
         \/ /\ got' = row /\ search' = [search EXCEPT ![w] = K!SearchEntry(row)]
            /\ pkc' = (IF row = Absent THEN pkc ELSE [pkc EXCEPT ![row.id] = row])
  BY DEF K!QueryBySearch, K!Reply
<1>2. \/ row = Absent
      \/ row \in K!Rows /\ row.id \in K!Ids /\ db[row.id] = row /\ row # Absent
  BY AnswerIs DEF KeysInv, K!KeysConstants
<1>3. K!SearchEntry(row) = IF row = Absent THEN Absent ELSE row.id
  BY DEF K!SearchEntry
<1>4. search[w] # Miss => search[w] = K!SearchEntry(row)
  BY DEF KeysInv
<1>5. Absent # Miss /\ Absent \notin K!Ids /\ Miss \notin K!Ids /\ K!Ids \subseteq 0..LastId
  BY DEF K!KeysConstants, K!Ids
<1> HIDE DEF row
<1>6. got' = row
  <2>1. CASE search[w] = Absent
    <3>1. row = Absent
      BY <1>2, <1>3, <1>4, <1>5, <2>1
    <3>2. QED
      BY <1>1, <2>1, <3>1
  <2>2. CASE search[w] # Absent /\ search[w] # Miss /\ pkc[search[w]] # Miss
                                 /\ got' = pkc[search[w]]
    <3>1. row # Absent /\ search[w] = row.id
      BY <1>3, <1>4, <2>2
    <3>2. pkc[row.id] = db[row.id] /\ db[row.id] = row
      BY <1>2, <2>2, <3>1 DEF KeysInv
    <3>3. QED
      BY <2>2, <3>1, <3>2
  <2>3. QED
    BY <1>1, <2>1, <2>2
<1>7. /\ search' \in [Clauses -> K!Ids \cup {Absent, Miss}]
      /\ search' = search \/ search' = [search EXCEPT ![w] = K!SearchEntry(row)]
  BY <1>1, <1>2, <1>3 DEF KeysInv
<1>8. /\ pkc' \in [0..LastId -> K!Rows \cup {Absent, Miss}]
      /\ \A i \in K!Ids : pkc'[i] # Miss => pkc'[i] = db[i]
  BY <1>1, <1>2, <1>5 DEF KeysInv
<1>9. \A c \in Clauses : search'[c] # Miss => search'[c] = K!SearchEntry(K!DbAnswer(c, db))
  BY <1>7 DEF KeysInv, row
<1>10. got' = K!DbAnswer(asked, db)'
  BY <1>1, <1>6 DEF row, K!DbAnswer, K!Satisfying
<1>11. \A c \in Clauses : search'[c] # Miss => search'[c] = K!SearchEntry(K!DbAnswer(c, db))'
  BY <1>1, <1>9, SameAnswers
<1>12. QED
  BY <1>1, <1>7, <1>8, <1>10, <1>11 DEF KeysInv, Rowed

(* A write leaves no entry of a row that it changes.                       *)
LEMMA KeysWrite ==
  ASSUME K!KeysConstants, KeysInv, NEW w \in Clauses, NEW model \in K!Ids \cup {0},
         NEW flag \in BOOLEAN \cup {Absent}, K!Write(w, model, flag)
  PROVE  KeysInv'
<1> DEFINE where == IF model = 0 THEN w ELSE Append(w, [kind |-> "pk", id |-> model])
           hit == K!Satisfying(where, db)
<1>1. /\ db' = [i \in K!Ids |-> IF i \notin hit THEN db[i]
                               ELSE IF flag = Absent THEN Absent
                               ELSE [id |-> i, flag |-> flag]]
      /\ pkc' = K!EntriesLeft(where, model)
      /\ search' = [c \in Clauses |-> Miss]
      /\ asked' = <<>>
  BY DEF K!Write, K!Reply
<1>2. got' = K!DbAnswer(asked, db)'
  BY <1>1 DEF K!Write, K!Reply, K!DbAnswer, K!Satisfying
<1>3. where \in Seq(K!Condition) /\ (model # 0 => Len(where) \in DOMAIN where /\ where[Len(where)].id = model
                                                  /\ where[Len(where)].kind = "pk")
  <2>1. [kind |-> "pk", id |-> model].id = model
    OBVIOUS
  <2>2. w \in Seq(K!Condition)
    BY DEF K!KeysConstants
  <2>3. CASE model = 0
    BY <2>2, <2>3
  <2>4. CASE model # 0
    <3>1. [kind |-> "pk", id |-> model] \in K!Condition
      BY <2>4 DEF K!Condition
    <3>2. QED
      BY <2>2, <2>4, <3>1
  <2>5. QED
    BY <2>3, <2>4
<1> HIDE DEF where
<1> DEFINE named == {j \in DOMAIN where : K!ClauseKey(where[j]) # 0}
<1>4. LastId \in Nat /\ K!Ids \subseteq 0..LastId /\ 0 \notin K!Ids /\ K!NoKey \notin K!Ids
  BY DEF K!KeysConstants, K!Ids, K!NoKey
<1>5. ASSUME named = {}
      PROVE  /\ pkc' \in [0..LastId -> K!Rows \cup {Absent, Miss}]
             /\ \A i \in K!Ids : pkc'[i] # Miss => i \notin hit /\ pkc'[i] = pkc[i]
  <2>1. model = 0
    BY <1>3, <1>5 DEF K!ClauseKey
  <2>2. K!WriteKey(where) = K!NoKey
    BY <1>5 DEF K!WriteKey
  <2>3. pkc' = [k \in 0..LastId |-> Miss]
    BY <1>1, <2>1, <2>2 DEF K!EntriesLeft
  <2>4. QED
    BY <1>4, <2>3
<1>6. ASSUME named # {}
      PROVE  /\ pkc' \in [0..LastId -> K!Rows \cup {Absent, Miss}]
             /\ \A i \in K!Ids : pkc'[i] # Miss => i \notin hit /\ pkc'[i] = pkc[i]
  <2> DEFINE k == K!WriteKey(where)
  <2>1. named \subseteq Nat
    BY <1>3
  <2>2. PICK j \in named : k = K!ClauseKey(where[j])
    BY <1>6, <2>1, LeastOf DEF K!WriteKey
  <2>3. j \in DOMAIN where /\ where[j].kind = "pk" /\ where[j].id = k /\ k \in K!Ids
    BY <1>3, <2>2 DEF K!ClauseKey, K!Condition
  <2>4. pkc' = [pkc EXCEPT ![k] = Miss]
    BY <1>1, <1>4, <2>3 DEF K!EntriesLeft
  <2>5. \A i \in K!Ids : i \in hit => i = k
    BY <2>3 DEF K!Satisfying, K!Holds, KeysInv, Rowed
  <2> HIDE DEF k, hit
  <2>6. QED
    BY <1>4, <2>3, <2>4, <2>5 DEF KeysInv
<1>7. /\ pkc' \in [0..LastId -> K!Rows \cup {Absent, Miss}]
      /\ \A i \in K!Ids : pkc'[i] # Miss => i \notin hit /\ pkc'[i] = pkc[i]
  BY <1>5, <1>6
<1> HIDE DEF hit
<1>8. \A i \in K!Ids : flag # Absent => [id |-> i, flag |-> flag] \in K!Rows
  BY DEF K!Rows
<1>9. db' \in [K!Ids -> K!Rows \cup {Absent}] /\ Rowed(db')
  BY <1>1, <1>8 DEF KeysInv, Rowed
<1>10. \A i \in K!Ids : pkc'[i] # Miss => pkc'[i] = db'[i]
  BY <1>1, <1>7 DEF KeysInv
<1>11. search' \in [Clauses -> K!Ids \cup {Absent, Miss}] /\ \A c \in Clauses : search'[c] = Miss
  BY <1>1
<1>12. QED
  BY <1>2, <1>7, <1>9, <1>10, <1>11 DEF KeysInv, Rowed

(* Every clause names the primary key in all of its conditions or in none. *)
Unmixed == \A w \in Clauses : \/ \A j \in DOMAIN w : w[j].kind = "pk"
                              \/ \A j \in DOMAIN w : w[j].kind # "pk"

LEMMA KeysStep ==
  ASSUME K!KeysConstants, Unmixed
  PROVE  KeysInv /\ [K!Next]_keysVars => KeysInv'
<1> SUFFICES ASSUME KeysInv, [K!Next]_keysVars PROVE KeysInv'
  OBVIOUS
<1>1. ASSUME NEW w \in Clauses, K!QueryByKey(w) PROVE KeysInv'
  <2>1. CASE \A j \in DOMAIN w : w[j].kind = "pk"
    BY <1>1, <2>1, KeysByKey
  <2>2. CASE \A j \in DOMAIN w : w[j].kind # "pk"
    <3>1. K!KeysFound(w) = {}
      BY <2>2 DEF K!KeysFound, K!ClauseKey
    <3>2. K!QueryKey(w) = K!NoKey
      <4>1. IsFiniteSet({}) /\ Cardinality({}) = 0
        BY FS_EmptySet
      <4>2. K!Cardinality({}) = 0
        BY <4>1 DEF K!Cardinality, K!IsFiniteSet, Cardinality, IsFiniteSet
      <4>3. QED
        BY <3>1, <4>2 DEF K!QueryKey
    <3>3. QED
      BY <1>1, <3>2 DEF K!QueryByKey
  <2>3. QED
    BY <2>1, <2>2 DEF Unmixed
<1>2. CASE K!Next
  BY <1>1, <1>2, KeysBySearch, KeysWrite DEF K!Next
<1>3. CASE UNCHANGED keysVars
  <2>1. K!DbAnswer(asked, db)' = K!DbAnswer(asked, db)
    BY <1>3 DEF keysVars, K!DbAnswer, K!Satisfying
  <2>2. QED
    BY <1>3, <2>1, SameAnswers DEF keysVars, KeysInv, Rowed
<1>4. QED
  BY <1>2, <1>3

(* Whoever asks gets the answer of the database whatever entries other     *)
(* queries and writes have left behind: for any number of rows and any     *)
(* clauses that do not mix the primary key with other conditions.          *)
THEOREM QueriesAnswered == ASSUME Unmixed PROVE DataSpec => []AnswersOwnQuery
<1> DEFINE I == machine = "keys" => KeysInv
<1>1. DataInit => I
  BY KeysInit, OneBegins, DataAssumption
<1>2. I /\ [DataNext]_dataVars => I'
  BY KeysStep, OneRuns, DataAssumption
<1>3. I => AnswersOwnQuery
  BY DEF AnswersOwnQuery, K!AnswersOwnQuery, KeysInv
<1>4. QED
  BY <1>1, <1>2, <1>3, PTL DEF DataSpec

-----------------------------------------------------------------------------
(* The pages of a search.  Where the order is total, the place of a record *)
(* is the number of those that precede it.                                 *)
Precedes(a, b) == IF walk.order = "desc" THEN a > b ELSE a < b
Place(a) == Cardinality({b \in P!Ids : Precedes(b, a)})

Walking == walk.pc \in {"count", "select"}
Done == (walk.index - 1) * walk.size
Got(a) == \E n \in DOMAIN read : read[n] = a

Walk == [pc : {"idle", "count", "select", "over"}, order : P!Orders, size : 1..MaxSize,
         first : Int, index : Nat \ {0}, pages : Nat]

PagingTyped ==
  /\ recs \in SUBSET [id : 1..newest, grade : P!Grades]
  /\ \A x, y \in recs : x.id = y.id => x = y
  /\ newest \in 0..Records
  /\ walk \in Walk /\ walk.index >= walk.first
  /\ read \in Seq(1..newest) /\ stayed \subseteq P!Ids
  /\ moved \subseteq {"in", "out"} /\ torn \in BOOLEAN /\ (torn => "in" \in moved)
  /\ walk.pc = "idle" => read = <<>> /\ moved = {}

(* A walk that began behind the first page has read nothing before it; any *)
(* other page has an offset that is an int, since a count was one.         *)
Offsets ==
  Walking => /\ walk.first > 1 /\ walk.index = walk.first => read = <<>>
             /\ Done <= MaxInt \/ (walk.first > 1 /\ walk.index = walk.first)

(* The pages are those of the table, if nobody went or came in between.    *)
PagesKnown ==
  walk.pc = "select" =>
    /\ walk.pages # 0 => (walk.pages - 1) * walk.size < MaxInt
    /\ "out" \notin moved /\ ~torn => walk.pages = P!Pages(Cardinality(recs), walk.size)

(* While nobody comes in, records only move to places already read.        *)
ReadOnce ==
  (P!Total /\ "in" \notin moved) =>
    /\ \A m, n \in DOMAIN read : read[m] = read[n] => m = n
    /\ Walking => \A a \in P!Ids : Got(a) => Place(a) < Done

(* While nobody goes out, records only move to places not read yet.        *)
ReadAll ==
  (walk.first <= 1 /\ P!Total /\ "out" \notin moved) =>
    /\ Walking => \A a \in stayed : Place(a) < Done => Got(a)
    /\ walk.pc = "over" /\ ~torn => \A a \in stayed : Got(a)

(* While nobody does either, the pages follow each other.                  *)
ReadInOrder ==
  moved = {} =>
    /\ walk.first <= 1 => /\ Walking => Len(read) = Done /\ Done <= Cardinality(recs)
                          /\ walk.pc = "over" => Len(read) = Cardinality(recs)
    /\ P!Total => /\ \A m, n \in DOMAIN read : m < n => Precedes(read[m], read[n])
                  /\ \A n \in DOMAIN read : read[n] \in P!Ids
    /\ Walking /\ walk.first > 1 /\ walk.index > walk.first =>
         walk.index <= P!Pages(Cardinality(recs), walk.size)

PagingInv == /\ PagingTyped /\ Offsets /\ PagesKnown /\ ReadOnce /\ ReadAll /\ ReadInOrder
             /\ P!EmptyBehind

(* FiniteSets is the same in an instance. *)
LEMMA SameCardinality == \A S : P!Cardinality(S) = Cardinality(S)
BY DEF P!Cardinality, Cardinality

(* As many records as ids. *)
LEMMA RecordsAre ==
  ASSUME NEW S, NEW n \in Nat, S \in SUBSET [id : 1..n, grade : P!Grades],
         \A x, y \in S : x.id = y.id => x = y
  PROVE  /\ IsFiniteSet(S) /\ IsFiniteSet({x.id : x \in S})
         /\ Cardinality(S) = Cardinality({x.id : x \in S})
         /\ Cardinality(S) \in Nat /\ Cardinality(S) <= n
<1> DEFINE ids == {x.id : x \in S}
           f == [x \in S |-> x.id]
<1>1. ids \in SUBSET (1..n)
  OBVIOUS
<1>2. IsFiniteSet(1..n) /\ Cardinality(1..n) = n
  BY FS_Interval
<1>3. IsFiniteSet(ids) /\ Cardinality(ids) <= Cardinality(1..n)
  BY <1>1, <1>2, FS_Subset
<1>4. f \in [S -> ids] /\ (\A x, y \in S : f[x] = f[y] => x = y) /\ \A i \in ids : \E x \in S : f[x] = i
  OBVIOUS
<1>5. f \in Injection(S, ids) /\ f \in Surjection(S, ids)
  BY <1>4 DEF Injection, IsInjective, Surjection
<1>6. IsFiniteSet(S) /\ Cardinality(S) = Cardinality(ids)
  BY <1>3, <1>5, FS_Injection
<1>7. QED
  BY <1>2, <1>3, <1>6, FS_CardinalityType

LEMMA PlaceFacts ==
  ASSUME P!PagingConstants, PagingTyped
  PROVE  /\ P!Ids \in SUBSET Nat /\ IsFiniteSet(P!Ids) /\ IsFiniteSet(recs)
         /\ Cardinality(recs) = Cardinality(P!Ids)
         /\ Cardinality(recs) \in Nat /\ Cardinality(recs) <= MaxInt
         /\ \A a : Place(a) \in Nat
         /\ \A a, b \in P!Ids : P!Total /\ Precedes(a, b) => Place(a) < Place(b)
         /\ \A a, b \in P!Ids : P!Total => a = b \/ Precedes(a, b) \/ Precedes(b, a)
<1>1. P!Ids \in SUBSET (1..newest) /\ newest \in Nat /\ newest <= MaxInt /\ MaxInt \in Nat
  BY DEF P!Ids, PagingTyped, P!PagingConstants
<1>2. /\ IsFiniteSet(P!Ids) /\ IsFiniteSet(recs) /\ Cardinality(recs) = Cardinality(P!Ids)
      /\ Cardinality(recs) \in Nat /\ Cardinality(recs) <= newest
  BY <1>1, RecordsAre DEF PagingTyped, P!Ids
<1>3. ASSUME NEW a PROVE Place(a) \in Nat /\ IsFiniteSet({b \in P!Ids : Precedes(b, a)})
  BY <1>2, FS_Subset, FS_CardinalityType DEF Place
<1>4. ASSUME NEW a \in P!Ids, NEW b \in P!Ids, P!Total
      PROVE  /\ Precedes(a, b) => Place(a) < Place(b)
             /\ a = b \/ Precedes(a, b) \/ Precedes(b, a)
  <2> DEFINE Lower == {c \in P!Ids : Precedes(c, a)}
             Upper == {c \in P!Ids : Precedes(c, b)}
  <2>1. P!Ids \subseteq Int
    BY <1>1
  <2>0. a \in Int /\ b \in Int
    BY <1>4, <2>1
  <2>2. ASSUME Precedes(a, b) PROVE Lower \subseteq Upper /\ a \in Upper /\ a \notin Lower
    <3>1. \A c \in P!Ids : Precedes(c, a) => Precedes(c, b)
      BY <2>0, <2>1, <2>2 DEF Precedes
    <3>2. ~Precedes(a, a)
      BY <2>0 DEF Precedes
    <3>3. QED
      BY <1>4, <2>2, <3>1, <3>2
  <2>3. ASSUME Precedes(a, b) PROVE Cardinality(Lower) < Cardinality(Upper)
    <3>1. Cardinality(Lower) <= Cardinality(Upper) /\ Cardinality(Lower) # Cardinality(Upper)
      BY <1>3, <2>2, <2>3, FS_Subset
    <3>2. Cardinality(Lower) \in Nat /\ Cardinality(Upper) \in Nat
      BY <1>3, FS_CardinalityType
    <3>3. QED
      BY <3>1, <3>2
  <2>4. a = b \/ Precedes(a, b) \/ Precedes(b, a)
    BY <2>0 DEF Precedes
  <2>5. QED
    BY <2>3, <2>4 DEF Place
<1>5. P!Ids \in SUBSET Nat /\ Cardinality(recs) <= MaxInt
  BY <1>1, <1>2
<1>6. QED
  BY <1>2, <1>3, <1>4, <1>5, Zenon

(* What a select sorts: every record is in one place, and in a total order *)
(* it is that of its id.                                                   *)
LEMMA SortedFacts ==
  ASSUME P!PagingConstants, PagingTyped, NEW s \in P!Sorted(walk.order)
  PROVE  /\ s \in Seq(recs) /\ Len(s) = Cardinality(recs)
         /\ \A x \in recs : \E i \in DOMAIN s : s[i] = x
         /\ P!Total => \A i \in DOMAIN s : Place(s[i].id) = i - 1
<1> DEFINE N == Cardinality(recs)
<1>1. /\ P!Ids \in SUBSET Nat /\ IsFiniteSet(P!Ids) /\ IsFiniteSet(recs) /\ N \in Nat
  BY PlaceFacts
<1>2. /\ s \in [1..N -> recs] /\ \A i, j \in 1..N : i # j => s[i] # s[j]
      /\ \A i, j \in DOMAIN s : i < j => ~P!Before(walk.order, s[j], s[i])
  BY SameCardinality DEF P!Sorted, P!SetToSeqs
<1>3. s \in Seq(recs) /\ Len(s) = N /\ DOMAIN s = 1..N
  BY <1>1, <1>2
<1>4. \A x \in recs : \E i \in DOMAIN s : s[i] = x
  <2>1. s \in Injection(1..N, recs)
    BY <1>2 DEF Injection, IsInjective
  <2>2. Cardinality(1..N) = N
    BY <1>1, FS_Interval
  <2>3. s \in Surjection(1..N, recs)
    BY <1>1, <2>1, <2>2, FS_Injection
  <2>4. QED
    BY <1>3, <2>3 DEF Surjection
<1>5. ASSUME P!Total, NEW i \in 1..N, NEW j \in 1..N, i < j
      PROVE  Precedes(s[i].id, s[j].id) /\ ~Precedes(s[j].id, s[i].id)
  <2>1. s[i] \in recs /\ s[j] \in recs /\ s[i] # s[j] /\ s[i].id # s[j].id
    BY <1>2, <1>5 DEF PagingTyped
  <2>2. s[i].id \in Int /\ s[j].id \in Int
    BY <2>1 DEF PagingTyped
  <2>3. walk.order \in {"desc", "id"}
    BY <1>5 DEF PagingTyped, P!Total, Walk, P!Orders
  <2>4. ~P!Before(walk.order, s[j], s[i])
    BY <1>2, <1>3, <1>5
  <2>5. CASE walk.order = "desc"
    BY <2>1, <2>2, <2>4, <2>5 DEF P!Before, Precedes
  <2>6. CASE walk.order = "id"
    BY <2>1, <2>2, <2>4, <2>6 DEF P!Before, Precedes
  <2>7. QED
    BY <2>3, <2>5, <2>6
<1>6. ASSUME P!Total, NEW i \in 1..N PROVE Place(s[i].id) = i - 1
  <2> DEFINE Preceding == {b \in P!Ids : Precedes(b, s[i].id)}
             f == [n \in 1..(i - 1) |-> s[n].id]
  <2>1. \A n \in 1..(i - 1) : n \in 1..N /\ n < i
    BY <1>1, <1>6
  <2>2. \A n \in 1..(i - 1) : s[n] \in recs /\ s[n].id \in P!Ids
    BY <1>2, <2>1 DEF P!Ids
  <2>3. f \in [1..(i - 1) -> Preceding]
    BY <1>5, <1>6, <2>1, <2>2
  <2>4. ASSUME NEW m \in 1..(i - 1), NEW n \in 1..(i - 1), f[m] = f[n] PROVE m = n
    BY <1>2, <2>1, <2>2, <2>4 DEF PagingTyped
  <2>5. ASSUME NEW b \in Preceding PROVE \E n \in 1..(i - 1) : f[n] = b
    <3>1. PICK n \in 1..N : s[n].id = b
      BY <1>3, <1>4 DEF P!Ids
    <3>2. n # i
      <4>1. s[i].id \in P!Ids /\ P!Ids \subseteq Int
        BY <1>1, <1>2, <1>6 DEF P!Ids
      <4>2. s[i].id \in Int
        BY <4>1
      <4>3. ~Precedes(s[i].id, s[i].id)
        BY <4>2 DEF Precedes
      <4>4. QED
        BY <3>1, <4>3
    <3>3. ~(i < n)
      BY <1>5, <1>6, <3>1
    <3>4. n \in 1..(i - 1)
      BY <1>1, <3>2, <3>3
    <3>5. QED
      BY <3>1, <3>4
  <2>6. f \in Bijection(1..(i - 1), Preceding)
    BY <2>3, <2>4, <2>5 DEF Bijection, Injection, IsInjective, Surjection
  <2>7. IsFiniteSet(1..(i - 1)) /\ Cardinality(1..(i - 1)) = i - 1
    <3>1. i - 1 \in Int /\ 1 \in Int
      BY <1>1, <1>6
    <3>2. /\ IsFiniteSet(1..(i - 1))
          /\ Cardinality(1..(i - 1)) = IF 1 > i - 1 THEN 0 ELSE i - 1 - 1 + 1
      BY <3>1, FS_Interval
    <3>3. QED
      BY <1>1, <1>6, <3>2
  <2>8. Cardinality(Preceding) = i - 1
    BY <2>6, <2>7, FS_Bijection DEF ExistsBijection
  <2>9. QED
    BY <2>8 DEF Place
<1>7. QED
  BY <1>3, <1>4, <1>6

(* The number of pages: the last one has the end of the table. *)
LEMMA PagesAre ==
  ASSUME NEW t \in Nat, NEW n \in Nat \ {0}
  PROVE  /\ P!Pages(t, n) \in Nat
         /\ \A i \in Nat : i < P!Pages(t, n) => i * n < t
         /\ \A i \in Nat : P!Pages(t, n) <= i => t <= i * n
<1> DEFINE q == t \div n
           m == t % n
           p == P!Pages(t, n)
<1>1. q \in Nat /\ m \in 0..(n - 1) /\ t = (n * q) + m
  BY Division
<1>2. p = q + (IF m > 0 THEN 1 ELSE 0)
  BY DEF P!Pages
<1> HIDE DEF q, m, p
<1>3. ASSUME NEW i \in Nat, i < p PROVE i * n < t
  <2>1. CASE i < q
    <3>1. (i + 1) * n <= q * n
      BY <1>1, <1>3, <2>1
    <3>2. i * n + n <= q * n
      BY <3>1, <1>3
    <3>3. QED
      BY <1>1, <1>3, <3>2
  <2>2. CASE i = q /\ m > 0
    BY <1>1, <2>2
  <2>3. QED
    BY <1>1, <1>2, <1>3, <2>1, <2>2
<1>4. ASSUME NEW i \in Nat, p <= i PROVE t <= i * n
  <2>1. p * n <= i * n
    BY <1>1, <1>2, <1>4
  <2>2. t <= p * n
    <3>1. CASE m > 0
      <4>1. p * n = q * n + n
        BY <1>1, <1>2, <3>1
      <4>2. QED
        BY <1>1, <4>1
    <3>2. CASE m = 0
      BY <1>1, <1>2, <3>2
    <3>3. QED
      BY <1>1, <3>1, <3>2
  <2>3. QED
    BY <1>1, <1>2, <1>4, <2>1, <2>2
<1>5. QED
  BY <1>1, <1>2, <1>3, <1>4 DEF p

(* An offset that is an int is left as it is. *)
LEMMA OffsetIs ==
  ASSUME P!PagingConstants, NEW i \in Nat \ {0}, NEW n \in Nat \ {0}
  PROVE  /\ P!Offset(i, n) \in Int
         /\ (i - 1) * n \in Nat
         /\ (i - 1) * n <= MaxInt => P!Offset(i, n) = (i - 1) * n
<1> DEFINE o == (i - 1) * n
           M == 2 * (MaxInt + 1)
           z == o + MaxInt + 1
<1>1. o \in Nat /\ MaxInt \in Nat
  BY DEF P!PagingConstants
<1>2. P!Offset(i, n) = (z % M) - (MaxInt + 1)
  BY DEF P!Offset, P!Wrapped
<1>3. M \in Nat \ {0} /\ z \in Nat
  BY <1>1
<1> HIDE DEF o
<1>4. ASSUME o <= MaxInt PROVE z % M = z
  <2>1. z < M
    BY <1>1, <1>4
  <2> HIDE DEF z, M
  <2>2. QED
    BY <1>3, <2>1
<1>5. z % M \in Nat
  <2> HIDE DEF z, M
  <2>1. QED
    BY <1>3
<1>6. QED
  BY <1>1, <1>2, <1>4, <1>5 DEF o

(* A page is a piece of what was sorted, and begins at its offset, or at   *)
(* the first record when that is none.                                     *)
LEMMA PageIs ==
  ASSUME P!PagingConstants, NEW s \in Seq(recs), NEW i \in Nat \ {0}, NEW n \in Nat \ {0}
  PROVE  \E from \in Nat :
           /\ (i - 1) * n <= MaxInt => from = (i - 1) * n
           /\ P!Page(s, i, n) \in Seq(recs)
           /\ Len(P!Page(s, i, n)) = IF Len(s) <= from THEN 0
                                     ELSE IF from + n < Len(s) THEN n ELSE Len(s) - from
           /\ \A k \in DOMAIN P!Page(s, i, n) : /\ from + k \in DOMAIN s
                                                /\ P!Page(s, i, n)[k] = s[from + k]
<1> DEFINE from == IF i > 1 /\ P!Offset(i, n) > 0 THEN P!Offset(i, n) ELSE 0
           upto == IF from + n < Len(s) THEN from + n ELSE Len(s)
<1>1. from \in Nat
  BY OffsetIs
<1>2. (i - 1) * n <= MaxInt => from = (i - 1) * n
  <2> SUFFICES ASSUME (i - 1) * n <= MaxInt PROVE from = (i - 1) * n
    OBVIOUS
  <2>1. P!Offset(i, n) = (i - 1) * n /\ (i - 1) * n \in Nat
    BY OffsetIs
  <2>2. i = 1 => (i - 1) * n = 0
    OBVIOUS
  <2>3. i = 1 \/ i > 1
    OBVIOUS
  <2>4. QED
    BY <2>1, <2>2, <2>3
<1>3. P!Page(s, i, n) = SubSeq(s, from + 1, upto)
  BY DEF P!Page
<1> HIDE DEF from
<1>4. Len(s) \in Nat /\ DOMAIN s = 1..Len(s) /\ upto \in Nat /\ upto <= Len(s)
  BY <1>1
<1>5. \A k \in (from + 1)..upto : s[k] \in recs
  BY <1>1, <1>4
<1>6. /\ SubSeq(s, from + 1, upto) \in Seq(recs)
      /\ Len(SubSeq(s, from + 1, upto)) = IF from + 1 <= upto THEN upto - (from + 1) + 1 ELSE 0
      /\ \A k \in 1..(upto - (from + 1) + 1) :
           SubSeq(s, from + 1, upto)[k] = s[from + 1 + k - 1]
  BY <1>1, <1>4, <1>5, SubSeqProperties
<1>7. Len(SubSeq(s, from + 1, upto)) = IF Len(s) <= from THEN 0
                                       ELSE IF from + n < Len(s) THEN n ELSE Len(s) - from
  BY <1>1, <1>4, <1>6
<1>8. ASSUME NEW k \in DOMAIN SubSeq(s, from + 1, upto)
      PROVE  from + k \in DOMAIN s /\ SubSeq(s, from + 1, upto)[k] = s[from + k]
  <2>1. k \in 1..Len(SubSeq(s, from + 1, upto))
    BY <1>6, <1>8
  <2>2. k \in 1..(upto - (from + 1) + 1) /\ from + 1 + k - 1 = from + k /\ from + k \in 1..upto
    <3> HIDE DEF upto
    <3>1. QED
      BY <1>1, <1>4, <1>6, <2>1
  <2>3. QED
    BY <1>4, <1>6, <2>2
<1>9. QED
  BY <1>1, <1>2, <1>3, <1>6, <1>7, <1>8

LEMMA PagingInit == P!PagingConstants /\ P!Init => PagingInv
<1> SUFFICES ASSUME P!PagingConstants, P!Init PROVE PagingInv
  OBVIOUS
<1>1. walk = [pc |-> "idle", order |-> "id", size |-> 1, first |-> 1, index |-> 1, pages |-> 0]
  BY DEF P!Init, P!NoWalk
<1>2. read = <<>> /\ recs = {} /\ newest = 0 /\ stayed = {} /\ moved = {} /\ torn = FALSE
  BY DEF P!Init
<1>3. walk \in Walk
  BY <1>1 DEF Walk, P!Orders, P!PagingConstants
<1>4. read \in Seq(1..newest) /\ DOMAIN read = {}
  BY <1>2
<1>5. PagingTyped
  <2>1. recs \in SUBSET [id : 1..newest, grade : P!Grades] /\ stayed \subseteq P!Ids
    BY <1>2
  <2>2. newest \in 0..Records
    BY <1>2 DEF P!PagingConstants
  <2>3. walk.index >= walk.first
    BY <1>1
  <2>4. QED
    BY <1>2, <1>3, <1>4, <2>1, <2>2, <2>3 DEF PagingTyped
<1>6. Offsets /\ PagesKnown /\ ReadOnce /\ ReadAll /\ ReadInOrder /\ P!EmptyBehind
  BY <1>1, <1>2, <1>4 DEF Offsets, PagesKnown, ReadOnce, ReadAll, ReadInOrder, P!EmptyBehind, Walking
<1>7. QED
  BY <1>5, <1>6 DEF PagingInv

(* What the writes of others do to a walk. *)
LEMMA WriteIs ==
  ASSUME PagingTyped, P!PagingConstants, P!Writes
  PROVE  /\ PagingTyped'
         /\ walk' = walk /\ read' = read /\ stayed' \subseteq stayed
         /\ moved \subseteq moved' /\ (torn => torn')
         /\ walk.pc # "idle" => /\ "in" \notin moved' => P!Ids' \subseteq P!Ids
                                /\ "out" \notin moved' => P!Ids \subseteq P!Ids'
         /\ walk.pc = "select" /\ ~torn' => P!Ids' \subseteq P!Ids
<1> USE DEF PagingTyped
<1>0. newest \in Nat /\ Records \in Nat /\ \A x \in recs : x = [id |-> x.id, grade |-> x.grade]
  BY DEF P!PagingConstants
<1>1. ASSUME NEW x \in [id : 1..newest', grade : P!Grades], x.id \notin P!Ids, P!ComesIn(x),
             newest' \in newest..Records, UNCHANGED <<walk, read, stayed>>
      PROVE  /\ PagingTyped' /\ moved \subseteq moved' /\ (torn => torn')
             /\ P!Ids \subseteq P!Ids' /\ (walk.pc # "idle" => "in" \in moved')
             /\ walk.pc = "select" => torn'
  <2>1. recs' = recs \cup {x} /\ torn' = (torn \/ walk.pc = "select")
        /\ moved' = IF walk.pc # "idle" THEN moved \cup {"in"} ELSE moved
    BY <1>1 DEF P!ComesIn, P!Moves
  <2>2. P!Ids \subseteq P!Ids'
    BY <2>1 DEF P!Ids
  <2>3. recs' \in SUBSET [id : 1..newest', grade : P!Grades]
    BY <1>0, <1>1, <2>1
  <2>4. \A y, z \in recs' : y.id = z.id => y = z
    BY <1>1, <2>1 DEF P!Ids
  <2>5. read' \in Seq(1..newest')
    <3>1. 1..newest \subseteq 1..newest'
      BY <1>0, <1>1
    <3>2. QED
      BY <1>1, <3>1
  <2>6. newest' \in 0..Records
    BY <1>0, <1>1
  <2>7. moved' \subseteq {"in", "out"} /\ torn' \in BOOLEAN /\ (torn' => "in" \in moved')
    BY <2>1
  <2>8. QED
    BY <1>1, <2>1, <2>2, <2>3, <2>4, <2>5, <2>6, <2>7
<1>2. ASSUME NEW g \in P!Grades, P!Create(g)
      PROVE  /\ PagingTyped' /\ moved \subseteq moved' /\ (torn => torn')
             /\ P!Ids \subseteq P!Ids' /\ (walk.pc # "idle" => "in" \in moved')
             /\ walk.pc = "select" => torn'
             /\ UNCHANGED <<walk, read, stayed>>
  <2>1. newest' = newest + 1 /\ newest < Records /\ P!ComesIn([id |-> newest + 1, grade |-> g])
        /\ UNCHANGED <<walk, read, stayed>>
    BY <1>2 DEF P!Create
  <2>2. newest + 1 \notin P!Ids
    BY <1>0 DEF P!Ids
  <2>3. QED
    BY <1>0, <1>1, <1>2, <2>1, <2>2
<1>3. ASSUME NEW g \in P!Grades, NEW i \in 1..Records, P!UpdateIn(i, g)
      PROVE  /\ PagingTyped' /\ moved \subseteq moved' /\ (torn => torn')
             /\ P!Ids \subseteq P!Ids' /\ (walk.pc # "idle" => "in" \in moved')
             /\ walk.pc = "select" => torn'
             /\ UNCHANGED <<walk, read, stayed>>
  <2>1. newest' = newest /\ i \in 1..newest /\ i \notin P!Ids
        /\ P!ComesIn([id |-> i, grade |-> g]) /\ UNCHANGED <<walk, read, stayed>>
    BY <1>3 DEF P!UpdateIn
  <2>2. QED
    BY <1>0, <1>1, <1>3, <2>1
<1>4. ASSUME NEW x \in recs, P!GoesOut(x)
      PROVE  /\ PagingTyped' /\ moved \subseteq moved' /\ torn' = torn
             /\ P!Ids' \subseteq P!Ids /\ (walk.pc # "idle" => "out" \in moved')
             /\ UNCHANGED <<walk, read>> /\ stayed' \subseteq stayed
  <2>1. /\ recs' = recs \ {x} /\ stayed' = stayed \ {x.id}
        /\ moved' = IF walk.pc # "idle" THEN moved \cup {"out"} ELSE moved
        /\ UNCHANGED <<newest, walk, read, torn>>
    BY <1>4 DEF P!GoesOut, P!Moves
  <2>2. P!Ids' \subseteq P!Ids /\ P!Ids \ {x.id} \subseteq P!Ids'
    BY <2>1 DEF P!Ids
  <2>3. recs' \in SUBSET [id : 1..newest', grade : P!Grades] /\ \A y, z \in recs' : y.id = z.id => y = z
    BY <2>1
  <2>4. stayed' \subseteq P!Ids'
    BY <2>1, <2>2
  <2>5. moved' \subseteq {"in", "out"} /\ (torn' => "in" \in moved') /\ torn' \in BOOLEAN
    BY <2>1
  <2>6. QED
    BY <2>1, <2>2, <2>3, <2>4, <2>5
<1>5. ASSUME NEW g \in P!Grades, NEW x \in recs, P!UpdateGrade(x, g)
      PROVE  /\ PagingTyped' /\ moved \subseteq moved' /\ torn' = torn
             /\ P!Ids' = P!Ids /\ UNCHANGED <<walk, read, stayed>>
  <2>1. /\ recs' = (recs \ {x}) \cup {[x EXCEPT !.grade = g]}
        /\ \/ moved' = moved
           \/ moved' = moved \cup {"in", "out"} /\ walk.pc # "idle"
           \/ moved' = moved \cup {}
        /\ UNCHANGED <<newest, walk, read, stayed, torn>>
    BY <1>5 DEF P!UpdateGrade, P!Moves
  <2> DEFINE y == [x EXCEPT !.grade = g]
  <2>2. y \in [id : 1..newest, grade : P!Grades] /\ y.id = x.id
    BY <1>5
  <2> HIDE DEF y
  <2>3. P!Ids' = P!Ids
    BY <2>1, <2>2 DEF P!Ids, y
  <2>4. recs' \in SUBSET [id : 1..newest', grade : P!Grades] /\ \A u, v \in recs' : u.id = v.id => u = v
    BY <2>1, <2>2 DEF y
  <2>5. /\ moved \subseteq moved' /\ moved' \subseteq {"in", "out"}
        /\ walk.pc = "idle" => moved' = {}
    BY <2>1
  <2>6. QED
    BY <2>1, <2>3, <2>4, <2>5
<1>6. QED
  <2> HIDE DEF PagingTyped
  <2>1. CASE \E g \in P!Grades : P!Create(g) \/ \E i \in 1..Records : P!UpdateIn(i, g)
    BY <1>2, <1>3, <2>1
  <2>2. CASE \E x \in recs : P!GoesOut(x)
    BY <1>4, <2>2
  <2>3. CASE \E g \in P!Grades : \E x \in recs : P!UpdateGrade(x, g)
    BY <1>5, <2>3
  <2>4. QED
    BY <2>1, <2>2, <2>3 DEF P!Writes

(* The places change with the ids that come and go. *)
LEMMA PlaceMoves ==
  ASSUME P!PagingConstants, PagingTyped, PagingTyped', walk' = walk
  PROVE  /\ \A a : Place(a)' \in Nat
         /\ P!Ids' \subseteq P!Ids => \A a : Place(a)' <= Place(a)
         /\ P!Ids \subseteq P!Ids' => \A a : Place(a) <= Place(a)'
         /\ P!Ids' = P!Ids => Cardinality(recs') = Cardinality(recs)
<1>1. /\ IsFiniteSet(P!Ids) /\ IsFiniteSet(P!Ids')
      /\ Cardinality(recs) = Cardinality(P!Ids) /\ Cardinality(recs') = Cardinality(P!Ids')
  <2>1. /\ recs \in SUBSET [id : 1..newest, grade : P!Grades] /\ newest \in Nat
        /\ \A x, y \in recs : x.id = y.id => x = y
    BY DEF PagingTyped, P!PagingConstants
  <2>2. /\ recs' \in SUBSET [id : 1..newest', grade : P!Grades] /\ newest' \in Nat
        /\ \A x, y \in recs' : x.id = y.id => x = y
    BY DEF PagingTyped, P!PagingConstants
  <2>3. P!Ids = {x.id : x \in recs} /\ P!Ids' = {x.id : x \in recs'}
    BY DEF P!Ids
  <2>4. QED
    BY <2>1, <2>2, <2>3, RecordsAre
<1>2. ASSUME NEW a
      PROVE  /\ Place(a)' = Cardinality({b \in P!Ids' : Precedes(b, a)})
             /\ {b \in P!Ids' : Precedes(b, a)} \in SUBSET P!Ids'
             /\ {b \in P!Ids : Precedes(b, a)} \in SUBSET P!Ids
  BY DEF Place, Precedes
<1>3. ASSUME NEW a
      PROVE  /\ IsFiniteSet({b \in P!Ids' : Precedes(b, a)})
             /\ IsFiniteSet({b \in P!Ids : Precedes(b, a)})
  BY <1>1, <1>2, FS_Subset
<1>4. ASSUME NEW a PROVE Place(a)' \in Nat
  BY <1>2, <1>3, FS_CardinalityType
<1>5. ASSUME NEW a, P!Ids' \subseteq P!Ids PROVE Place(a)' <= Place(a)
  <2>1. {b \in P!Ids' : Precedes(b, a)} \in SUBSET {b \in P!Ids : Precedes(b, a)}
    BY <1>5
  <2>2. QED
    BY <1>2, <1>3, <2>1, FS_Subset DEF Place
<1>6. ASSUME NEW a, P!Ids \subseteq P!Ids' PROVE Place(a) <= Place(a)'
  <2>1. {b \in P!Ids : Precedes(b, a)} \in SUBSET {b \in P!Ids' : Precedes(b, a)}
    BY <1>6
  <2>2. Cardinality({b \in P!Ids : Precedes(b, a)}) <= Cardinality({b \in P!Ids' : Precedes(b, a)})
    BY <1>3, <2>1, FS_Subset
  <2>3. Place(a) = Cardinality({b \in P!Ids : Precedes(b, a)})
    BY DEF Place
  <2>4. QED
    BY <1>2, <2>2, <2>3
<1>7. QED
  BY <1>1, <1>4, <1>5, <1>6, Zenon

LEMMA WriteStep ==
  ASSUME P!PagingConstants, PagingInv, P!Writes
  PROVE  PagingInv'
<1> USE DEF PagingInv
<1>1. /\ PagingTyped' /\ walk' = walk /\ read' = read /\ stayed' \subseteq stayed
      /\ moved \subseteq moved' /\ (torn => torn')
      /\ walk.pc # "idle" => /\ "in" \notin moved' => P!Ids' \subseteq P!Ids
                             /\ "out" \notin moved' => P!Ids \subseteq P!Ids'
      /\ walk.pc = "select" /\ ~torn' => P!Ids' \subseteq P!Ids
  BY WriteIs
<1>2. /\ \A a : Place(a)' \in Nat /\ Place(a) \in Nat
      /\ P!Ids' \subseteq P!Ids => \A a : Place(a)' <= Place(a)
      /\ P!Ids \subseteq P!Ids' => \A a : Place(a) <= Place(a)'
      /\ P!Ids' = P!Ids => Cardinality(recs') = Cardinality(recs)
  BY <1>1, PlaceMoves, PlaceFacts
<1>3. /\ (Walking' <=> Walking) /\ Done' = Done /\ (P!Total' <=> P!Total)
      /\ (\A a : Got(a)' <=> Got(a)) /\ \A a, b : Precedes(a, b)' <=> Precedes(a, b)
  BY <1>1 DEF Walking, Done, P!Total, Got, Precedes
<1>4. walk.pc # "idle" \/ (~Walking /\ read = <<>>)
  BY DEF Walking, PagingTyped
<1>5. DOMAIN read' = DOMAIN read /\ stayed \subseteq P!Ids /\ Done \in Int
  BY <1>1 DEF PagingTyped, Done, Walk
<1>6. Offsets'
  BY <1>1, <1>3 DEF Offsets
<1>7. PagesKnown'
  BY <1>1, <1>2 DEF PagesKnown
<1>8. ReadOnce'
  <2> SUFFICES ASSUME P!Total, "in" \notin moved' PROVE ReadOnce'
    BY <1>3 DEF ReadOnce
  <2>1. \A m, n \in DOMAIN read : read[m] = read[n] => m = n
    BY <1>1 DEF ReadOnce
  <2>2. ASSUME Walking, NEW a \in P!Ids', Got(a) PROVE Place(a)' < Done
    <3>1. P!Ids' \subseteq P!Ids
      BY <1>1, <1>4, <2>2
    <3>2. Place(a) < Done
      BY <1>1, <2>2, <3>1 DEF ReadOnce
    <3>3. QED
      BY <1>2, <1>5, <3>1, <3>2
  <2>3. QED
    BY <1>1, <1>3, <2>1, <2>2 DEF ReadOnce
<1>9. ReadAll'
  <2> SUFFICES ASSUME P!Total, walk.first <= 1, "out" \notin moved' PROVE ReadAll'
    BY <1>1, <1>3 DEF ReadAll
  <2>1. ASSUME Walking, NEW a \in stayed', Place(a)' < Done PROVE Got(a)
    <3>1. P!Ids \subseteq P!Ids' /\ a \in stayed
      BY <1>1, <1>4, <2>1
    <3>2. Place(a) < Done
      BY <1>2, <1>5, <2>1, <3>1
    <3>3. QED
      BY <1>1, <2>1, <3>1, <3>2 DEF ReadAll
  <2>2. walk.pc = "over" /\ ~torn' => \A a \in stayed' : Got(a)
    BY <1>1 DEF ReadAll
  <2>3. QED
    BY <1>1, <1>3, <2>1, <2>2 DEF ReadAll
<1>10. ReadInOrder' /\ P!EmptyBehind'
  <2>1. CASE walk.pc = "idle"
    BY <1>1, <1>3, <1>4, <2>1 DEF ReadInOrder, P!EmptyBehind
  <2>2. CASE walk.pc # "idle" /\ moved' = {}
    <3>1. moved = {} /\ P!Ids' = P!Ids
      BY <1>1, <2>2
    <3>2. ReadInOrder'
      BY <1>1, <1>2, <1>3, <3>1 DEF ReadInOrder
    <3>3. QED
      BY <1>1, <3>1, <3>2 DEF P!EmptyBehind
  <2>3. CASE moved' # {}
    BY <2>3 DEF ReadInOrder, P!EmptyBehind
  <2>4. QED
    BY <2>1, <2>2, <2>3
<1>11. QED
  BY <1>1, <1>6, <1>7, <1>8, <1>9, <1>10

LEMMA BeginStep ==
  ASSUME P!PagingConstants, PagingInv, NEW o \in P!Orders, NEW n \in Sizes, NEW i \in Indexes,
         P!Begins(o, n, i)
  PROVE  PagingInv'
<1>1. /\ walk' = [pc |-> "count", order |-> o, size |-> P!PageSize(n), first |-> i,
                  index |-> IF i > 1 THEN i ELSE 1, pages |-> 0]
      /\ stayed' = P!Ids /\ read' = <<>> /\ moved' = {} /\ torn' = FALSE
      /\ UNCHANGED <<recs, newest>>
  BY DEF P!Begins
<1>2. i \in Int /\ P!PageSize(n) \in 1..MaxSize
  BY DEF P!PagingConstants, P!PageSize
<1>3. walk' \in Walk /\ walk'.index >= walk'.first
  BY <1>1, <1>2 DEF Walk
<1>4. PagingTyped'
  <2>1. read' \in Seq(1..newest') /\ P!Ids' = P!Ids /\ walk'.pc # "idle"
    BY <1>1 DEF P!Ids
  <2>2. /\ recs \in SUBSET [id : 1..newest, grade : P!Grades] /\ newest \in 0..Records
        /\ \A x, y \in recs : x.id = y.id => x = y
    BY DEF PagingInv, PagingTyped
  <2>3. QED
    BY <1>1, <1>3, <2>1, <2>2 DEF PagingTyped
<1>5. walk'.first = i /\ walk'.index = (IF i > 1 THEN i ELSE 1) /\ walk'.pc = "count"
      /\ walk'.size \in Nat
  BY <1>1, <1>2
<1>6. Done' = (walk'.index - 1) * walk'.size
  BY DEF Done
<1>7. i <= 1 => Done' = 0
  BY <1>2, <1>5, <1>6
<1>8. /\ Cardinality(recs') \in Nat /\ \A a : Place(a)' \in Nat /\ MaxInt \in Nat
  <2>1. IsFiniteSet(P!Ids') /\ Cardinality(recs') \in Nat
    <3>1. /\ recs' \in SUBSET [id : 1..newest', grade : P!Grades] /\ newest' \in Nat
          /\ \A x, y \in recs' : x.id = y.id => x = y
      BY <1>4 DEF PagingTyped, P!PagingConstants
    <3>2. P!Ids' = {x.id : x \in recs'}
      BY DEF P!Ids
    <3>3. QED
      BY <3>1, <3>2, RecordsAre
  <2>2. ASSUME NEW a PROVE Place(a)' \in Nat
    <3>1. Place(a)' = Cardinality({b \in P!Ids' : Precedes(b, a)'})
      BY DEF Place
    <3>2. {b \in P!Ids' : Precedes(b, a)'} \in SUBSET P!Ids'
      OBVIOUS
    <3>3. QED
      BY <2>1, <3>1, <3>2, FS_Subset, FS_CardinalityType
  <2>3. QED
    BY <2>1, <2>2 DEF P!PagingConstants
<1>9. Offsets' /\ PagesKnown' /\ P!EmptyBehind'
  BY <1>1, <1>2, <1>5, <1>7, <1>8 DEF Offsets, PagesKnown, P!EmptyBehind, Walking
<1>10. ReadOnce' /\ ReadAll' /\ ReadInOrder'
  <2>1. DOMAIN read' = {} /\ Len(read') = 0 /\ \A a : ~Got(a)'
    BY <1>1 DEF Got
  <2>2. ReadOnce'
    BY <2>1 DEF ReadOnce
  <2>3. ReadAll'
    BY <1>2, <1>5, <1>7, <1>8 DEF ReadAll, Walking
  <2>4. ReadInOrder'
    BY <1>2, <1>5, <1>7, <1>8, <2>1 DEF ReadInOrder, Walking
  <2>5. QED
    BY <2>2, <2>3, <2>4
<1>11. QED
  BY <1>4, <1>9, <1>10 DEF PagingInv

LEMMA LeaveStep ==
  ASSUME P!PagingConstants, PagingInv, P!Leaves
  PROVE  PagingInv'
<1>1. /\ walk' = [pc |-> "idle", order |-> "id", size |-> 1, first |-> 1, index |-> 1, pages |-> 0]
      /\ read' = <<>> /\ stayed' = {} /\ moved' = {} /\ torn' = FALSE /\ UNCHANGED <<recs, newest>>
  BY DEF P!Leaves, P!NoWalk
<1>2. walk' \in Walk /\ walk'.index >= walk'.first
  BY <1>1 DEF Walk, P!Orders, P!PagingConstants
<1>3. PagingTyped'
  <2>1. read' \in Seq(1..newest')
    BY <1>1
  <2>2. /\ recs \in SUBSET [id : 1..newest, grade : P!Grades] /\ newest \in 0..Records
        /\ \A x, y \in recs : x.id = y.id => x = y
    BY DEF PagingInv, PagingTyped
  <2>3. QED
    BY <1>1, <1>2, <2>1, <2>2 DEF PagingTyped
<1>4. DOMAIN read' = {} /\ walk'.pc = "idle"
  BY <1>1
<1>5. Offsets' /\ PagesKnown' /\ ReadOnce' /\ ReadAll' /\ ReadInOrder' /\ P!EmptyBehind'
  BY <1>4 DEF Offsets, PagesKnown, ReadOnce, ReadAll, ReadInOrder, P!EmptyBehind, Walking
<1>6. QED
  BY <1>3, <1>5 DEF PagingInv

LEMMA CountStep ==
  ASSUME P!PagingConstants, PagingInv, P!Count
  PROVE  PagingInv'
<1> DEFINE t == Cardinality(recs)
           n == walk.size
<1>1. /\ walk \in Walk /\ walk.pc = "count"
      /\ walk' = [walk EXCEPT !.pc = "select", !.pages = P!Pages(t, n)]
      /\ torn' = FALSE /\ UNCHANGED <<recs, newest, read, stayed, moved>>
  BY SameCardinality DEF P!Count, PagingInv, PagingTyped
<1>2. t \in Nat /\ t <= MaxInt /\ MaxInt \in Nat /\ n \in Nat \ {0}
  BY <1>1, PlaceFacts DEF PagingInv, P!PagingConstants, Walk
<1>3. /\ P!Pages(t, n) \in Nat
      /\ \A i \in Nat : i < P!Pages(t, n) => i * n < t
  BY <1>2, PagesAre
<1>4. /\ walk'.pc = "select" /\ walk'.order = walk.order /\ walk'.size = n
      /\ walk'.first = walk.first /\ walk'.index = walk.index /\ walk'.pages = P!Pages(t, n)
      /\ walk' \in Walk
  BY <1>1, <1>3 DEF Walk
<1>5. PagingTyped'
  <2>1. P!Ids' = P!Ids
    BY <1>1 DEF P!Ids
  <2>2. QED
    BY <1>1, <1>4, <2>1 DEF PagingInv, PagingTyped
<1>6. PagesKnown'
  <2>1. ASSUME P!Pages(t, n) # 0 PROVE (P!Pages(t, n) - 1) * n < MaxInt
    <3>1. P!Pages(t, n) - 1 \in Nat /\ P!Pages(t, n) - 1 < P!Pages(t, n)
      BY <1>3, <2>1
    <3>2. (P!Pages(t, n) - 1) * n < t /\ (P!Pages(t, n) - 1) * n \in Int
      BY <1>2, <1>3, <3>1
    <3>3. QED
      BY <1>2, <3>2
  <2>2. QED
    BY <1>1, <1>4, <2>1 DEF PagesKnown
<1>7. /\ Walking /\ Walking' /\ Done' = Done /\ (P!Total' <=> P!Total) /\ P!Ids' = P!Ids
      /\ (\A a : Got(a)' <=> Got(a)) /\ \A a, b : Precedes(a, b)' <=> Precedes(a, b)
  BY <1>1, <1>4 DEF Walking, Done, P!Total, Got, Precedes, P!Ids
<1>8. \A a : Place(a)' = Place(a)
  BY <1>7 DEF Place
<1>9. Offsets' /\ ReadOnce' /\ ReadAll'
  BY <1>1, <1>4, <1>7, <1>8 DEF PagingInv, Offsets, ReadOnce, ReadAll
<1>10. ReadInOrder' /\ P!EmptyBehind'
  BY <1>1, <1>4, <1>7 DEF PagingInv, ReadInOrder, P!EmptyBehind
<1>11. QED
  BY <1>5, <1>6, <1>9, <1>10 DEF PagingInv

LEMMA PlaceBelow ==
  ASSUME P!PagingConstants, PagingTyped
  PROVE  \A a \in P!Ids : Place(a) < Cardinality(recs)
<1> SUFFICES ASSUME NEW a \in P!Ids PROVE Place(a) < Cardinality(recs)
  OBVIOUS
<1>1. /\ P!Ids \in SUBSET Nat /\ IsFiniteSet(P!Ids) /\ Cardinality(recs) = Cardinality(P!Ids)
      /\ Place(a) \in Nat /\ Cardinality(P!Ids) \in Nat
  BY PlaceFacts
<1>2. a \in Int /\ ~Precedes(a, a)
  BY <1>1 DEF Precedes
<1>3. {b \in P!Ids : Precedes(b, a)} \in SUBSET P!Ids /\ {b \in P!Ids : Precedes(b, a)} # P!Ids
  BY <1>2
<1>4. Place(a) <= Cardinality(P!Ids) /\ Place(a) # Cardinality(P!Ids)
  BY <1>1, <1>3, FS_Subset DEF Place
<1>5. QED
  BY <1>1, <1>4

(* What a select adds to what was read. *)
Adds(p, from) ==
  /\ p \in Seq(1..newest)
  /\ Done <= MaxInt => from = Done
  /\ Len(p) = IF Cardinality(recs) <= from THEN 0
              ELSE IF from + walk.size < Cardinality(recs) THEN walk.size
              ELSE Cardinality(recs) - from
  /\ P!Total =>
       /\ \A k \in DOMAIN p : p[k] \in P!Ids /\ Place(p[k]) = from + k - 1
       /\ \A a \in P!Ids : from <= Place(a) /\ Place(a) < from + walk.size
                             => \E k \in DOMAIN p : p[k] = a

LEMMA IsSequence ==
  ASSUME NEW S, NEW m \in Nat, NEW q \in [1..m -> S]
  PROVE  q \in Seq(S) /\ Len(q) = m /\ DOMAIN q = 1..m
OBVIOUS

LEMMA PageRead ==
  ASSUME P!PagingConstants, PagingTyped, P!Select
  PROVE  \E p : \E from \in Nat : Adds(p, from) /\ read' = read \o p
<1>1. PICK s \in P!Sorted(walk.order) :
        read' = read \o [k \in DOMAIN P!Page(s, walk.index, walk.size) |->
                           P!Page(s, walk.index, walk.size)[k].id]
  BY DEF P!Select
<1> DEFINE page == P!Page(s, walk.index, walk.size)
           p == [k \in DOMAIN page |-> page[k].id]
<1>2. /\ s \in Seq(recs) /\ Len(s) = Cardinality(recs)
      /\ \A x \in recs : \E i \in DOMAIN s : s[i] = x
      /\ P!Total => \A i \in DOMAIN s : Place(s[i].id) = i - 1
  BY SortedFacts
<1>3. walk.index \in Nat \ {0} /\ walk.size \in Nat \ {0}
  BY DEF PagingTyped, Walk
<1>4. PICK from \in Nat :
        /\ (walk.index - 1) * walk.size <= MaxInt => from = (walk.index - 1) * walk.size
        /\ page \in Seq(recs)
        /\ Len(page) = IF Len(s) <= from THEN 0
                       ELSE IF from + walk.size < Len(s) THEN walk.size ELSE Len(s) - from
        /\ \A k \in DOMAIN page : from + k \in DOMAIN s /\ page[k] = s[from + k]
  BY <1>2, <1>3, PageIs
<1> HIDE DEF page
<1>5. /\ p \in Seq(1..newest) /\ Len(p) = Len(page) /\ DOMAIN p = 1..Len(page)
      /\ \A k \in DOMAIN p : p[k] = s[from + k].id /\ from + k \in DOMAIN s
  <2>1. DOMAIN page = 1..Len(page) /\ Len(page) \in Nat
    BY <1>4
  <2>2. \A k \in 1..Len(page) : page[k] \in recs /\ page[k].id \in 1..newest
    BY <1>4, <2>1 DEF PagingTyped
  <2>3. p \in [1..Len(page) -> 1..newest]
    BY <2>1, <2>2
  <2>4. \A k \in 1..Len(page) : p[k] = s[from + k].id /\ from + k \in DOMAIN s
    BY <1>4, <2>1
  <2> HIDE DEF p
  <2>5. p \in Seq(1..newest) /\ Len(p) = Len(page) /\ DOMAIN p = 1..Len(page)
    BY <2>1, <2>3, IsSequence
  <2>6. QED
    BY <2>4, <2>5
<1> HIDE DEF p
<1>6. ASSUME P!Total, NEW k \in DOMAIN p PROVE p[k] \in P!Ids /\ Place(p[k]) = from + k - 1
  <2>1. p[k] = s[from + k].id /\ from + k \in DOMAIN s
    BY <1>5, <1>6
  <2>2. s[from + k] \in recs
    BY <1>2, <2>1
  <2>3. Place(s[from + k].id) = from + k - 1
    <3>1. from + k \in DOMAIN s /\ k \in Nat /\ from + k \in Nat
      BY <1>5, <1>6, <2>1
    <3>2. \A i \in DOMAIN s : Place(s[i].id) = i - 1
      BY <1>2, <1>6
    <3>3. Place(s[from + k].id) = (from + k) - 1
      BY <3>1, <3>2
    <3>4. QED
      BY <3>1, <3>3
  <2>4. QED
    BY <2>1, <2>2, <2>3 DEF P!Ids
<1>7. ASSUME P!Total, NEW a \in P!Ids, from <= Place(a), Place(a) < from + walk.size
      PROVE  \E k \in DOMAIN p : p[k] = a
  <2>1. PICK i \in DOMAIN s : s[i].id = a
    BY <1>2 DEF P!Ids
  <2>2. i \in 1..Len(s) /\ Place(a) = i - 1 /\ Len(s) \in Nat
    BY <1>2, <1>7, <2>1
  <2>3. /\ i \in Int /\ from \in Int /\ from <= i - 1 /\ i - 1 < from + walk.size
        /\ i <= Len(s) /\ Len(s) \in Int /\ walk.size \in Int
    BY <1>3, <1>7, <2>2
  <2>4. Len(page) = IF from + walk.size < Len(s) THEN walk.size ELSE Len(s) - from
    BY <1>4, <2>3
  <2>5. i - from \in 1..Len(page) /\ from + (i - from) = i
    <3>1. CASE from + walk.size < Len(s)
      BY <2>3, <2>4, <3>1
    <3>2. CASE ~(from + walk.size < Len(s))
      BY <2>3, <2>4, <3>2
    <3>3. QED
      BY <3>1, <3>2
  <2>6. QED
    BY <1>5, <2>1, <2>5
<1>8. Adds(p, from)
  BY <1>2, <1>4, <1>5, <1>6, <1>7 DEF Adds, Done
<1>9. QED
  BY <1>1, <1>8 DEF p, page

LEMMA SelectStep ==
  ASSUME P!PagingConstants, PagingInv, P!Select
  PROVE  PagingInv'
<1> DEFINE n == walk.size
           t == Cardinality(recs)
<1>0. PagingTyped /\ walk \in Walk /\ read \in Seq(1..newest)
  BY DEF PagingInv, PagingTyped
<1>1. PICK p : \E from \in Nat : Adds(p, from) /\ read' = read \o p
  BY <1>0, PageRead
<1>2. PICK from \in Nat : Adds(p, from) /\ read' = read \o p
  BY <1>1
<1>3. /\ p \in Seq(1..newest) /\ Len(p) \in Nat /\ DOMAIN p = 1..Len(p)
      /\ Len(read) \in Nat /\ DOMAIN read = 1..Len(read)
      /\ read' \in Seq(1..newest) /\ Len(read') = Len(read) + Len(p)
      /\ DOMAIN read' = 1..(Len(read) + Len(p))
      /\ \A k \in DOMAIN read' : read'[k] = IF k <= Len(read) THEN read[k] ELSE p[k - Len(read)]
  <2>1. p \in Seq(1..newest)
    BY <1>2 DEF Adds
  <2>2. /\ read \o p \in Seq(1..newest) /\ Len(read \o p) = Len(read) + Len(p)
        /\ \A k \in 1..(Len(read) + Len(p)) :
             (read \o p)[k] = IF k <= Len(read) THEN read[k] ELSE p[k - Len(read)]
    BY <1>0, <2>1, ConcatProperties
  <2>3. QED
    BY <1>0, <1>2, <2>1, <2>2
<1>4. /\ walk.pc = "select" /\ UNCHANGED <<recs, newest, stayed, moved, torn>>
      /\ walk' \in Walk /\ walk'.order = walk.order /\ walk'.size = n
      /\ walk'.first = walk.first /\ walk'.pages = walk.pages
      /\ \/ walk.index < walk.pages /\ walk'.pc = "count" /\ walk'.index = walk.index + 1
         \/ walk.index >= walk.pages /\ walk'.pc = "over" /\ walk'.index = walk.index
  <2>1. /\ walk.pc = "select" /\ UNCHANGED <<recs, newest, stayed, moved, torn>>
        /\ walk' = IF walk.index < walk.pages
                   THEN [walk EXCEPT !.pc = "count", !.index = @ + 1]
                   ELSE [walk EXCEPT !.pc = "over"]
    BY DEF P!Select
  <2>2. walk.index \in Nat \ {0} /\ walk.pages \in Nat
    BY <1>0 DEF Walk
  <2>3. CASE walk.index < walk.pages
    <3>1. walk' = [walk EXCEPT !.pc = "count", !.index = walk.index + 1]
      BY <2>1, <2>3
    <3>2. walk.index + 1 \in Nat \ {0}
      BY <2>2
    <3>3. QED
      BY <1>0, <2>1, <2>3, <3>1, <3>2 DEF Walk
  <2>4. CASE walk.index >= walk.pages
    <3>1. walk' = [walk EXCEPT !.pc = "over"]
      BY <2>1, <2>2, <2>4
    <3>2. QED
      BY <1>0, <2>1, <2>4, <3>1 DEF Walk
  <2>5. QED
    BY <2>2, <2>3, <2>4
<1>5. /\ n \in Nat \ {0} /\ walk.index \in Nat \ {0} /\ walk.pages \in Nat /\ MaxInt \in Nat
      /\ t \in Nat /\ t <= MaxInt /\ walk.first \in Int /\ walk.index >= walk.first
      /\ \A a : Place(a) \in Nat
  BY <1>0, PlaceFacts DEF Walk, PagingTyped, P!PagingConstants
<1>6. /\ Walking /\ Done = (walk.index - 1) * n /\ Done \in Nat
      /\ walk.index * n = Done + n
  <2>1. Walking /\ Done = (walk.index - 1) * n
    BY <1>4 DEF Walking, Done
  <2>2. Done \in Nat
    BY <1>5, <2>1
  <2>3. walk.index * n = (walk.index - 1) * n + n
    BY <1>5
  <2>4. QED
    BY <2>1, <2>2, <2>3
<1>7. /\ (P!Total' <=> P!Total) /\ P!Ids' = P!Ids /\ \A a, b : Precedes(a, b)' <=> Precedes(a, b)
  BY <1>4 DEF P!Total, P!Ids, Precedes
<1>8. \A a : Place(a)' = Place(a)
  BY <1>7 DEF Place
<1>9. \A a : Got(a)' <=> Got(a) \/ \E k \in DOMAIN p : p[k] = a
  <2>1. ASSUME NEW a, Got(a) PROVE Got(a)'
    BY <1>3, <2>1 DEF Got
  <2>2. ASSUME NEW k \in DOMAIN p PROVE Got(p[k])'
    <3>1. Len(read) + k \in DOMAIN read' /\ read'[Len(read) + k] = p[k]
      BY <1>3, <2>2
    <3>2. QED
      BY <3>1 DEF Got
  <2>3. ASSUME NEW a, Got(a)' PROVE Got(a) \/ \E k \in DOMAIN p : p[k] = a
    <3>1. PICK m \in DOMAIN read' : read'[m] = a
      BY <2>3 DEF Got
    <3>2. m \in DOMAIN read \/ m - Len(read) \in DOMAIN p
      BY <1>3
    <3>3. QED
      BY <1>3, <3>1, <3>2 DEF Got
  <2>4. QED
    BY <2>1, <2>2, <2>3
<1>10. /\ walk'.pc = "count" => Walking' /\ Done' = Done + n /\ Done + n < MaxInt
       /\ walk'.pc = "over" => ~Walking'
  <2>1. ASSUME walk.index < walk.pages PROVE Done + n < MaxInt
    <3>1. (walk.pages - 1) * n < MaxInt
      BY <1>4, <1>5, <2>1 DEF PagingInv, PagesKnown
    <3>2. walk.index * n <= (walk.pages - 1) * n
      BY <1>5, <2>1
    <3>3. (walk.pages - 1) * n \in Int
      BY <1>5
    <3>4. QED
      BY <1>5, <1>6, <3>1, <3>2, <3>3
  <2>2. walk'.pc = "count" => Done' = (walk.index + 1 - 1) * n
    BY <1>4, <1>5 DEF Done
  <2>3. walk.index + 1 - 1 = walk.index
    BY <1>5
  <2>4. QED
    BY <1>4, <1>6, <2>1, <2>2, <2>3 DEF Walking
<1>11. PagingTyped'
  BY <1>0, <1>3, <1>4, <1>5, <1>7 DEF PagingTyped
<1>12. Offsets' /\ PagesKnown'
  BY <1>4, <1>5, <1>6, <1>10 DEF Offsets, PagesKnown
(* What was read before: nothing, or the page is the next one. *)
<1>13. \/ Done <= MaxInt /\ from = Done
       \/ walk.first > 1 /\ walk.index = walk.first /\ read = <<>> /\ walk'.pc = "over"
  <2>1. CASE Done <= MaxInt
    BY <1>2, <2>1 DEF Adds
  <2>2. CASE ~(Done <= MaxInt)
    BY <1>4, <1>5, <1>6, <1>10, <2>2 DEF PagingInv, Offsets
  <2>3. QED
    BY <2>1, <2>2
<1>14. ASSUME P!Total
       PROVE  /\ \A k \in DOMAIN p : p[k] \in P!Ids /\ Place(p[k]) = from + k - 1
              /\ \A a \in P!Ids : from <= Place(a) /\ Place(a) < from + n
                                    => \E k \in DOMAIN p : p[k] = a
  BY <1>2, <1>14 DEF Adds
<1>15. Len(p) = IF t <= from THEN 0 ELSE IF from + n < t THEN n ELSE t - from
  BY <1>2 DEF Adds
<1>16. ReadOnce'
  <2> SUFFICES ASSUME P!Total, "in" \notin moved PROVE ReadOnce'
    BY <1>4, <1>7 DEF ReadOnce
  <2>1. /\ \A i, j \in DOMAIN read : read[i] = read[j] => i = j
        /\ \A a \in P!Ids : Got(a) => Place(a) < Done
    BY <1>6 DEF PagingInv, ReadOnce
  <2>2. ASSUME NEW k \in DOMAIN p, NEW i \in DOMAIN read PROVE read[i] # p[k]
    <3>1. p[k] \in P!Ids /\ Place(p[k]) = from + k - 1 /\ k \in Nat /\ k >= 1
      BY <1>3, <1>14, <2>2
    <3>2. DOMAIN read # {}
      BY <2>2
    <3>3. from = Done
      BY <1>3, <1>13, <2>2
    <3>4. ~(Place(p[k]) < Done)
      BY <1>6, <3>1, <3>3
    <3>5. ~Got(p[k])
      BY <2>1, <3>1, <3>4
    <3>6. QED
      BY <2>2, <3>5 DEF Got
  <2>3. ASSUME NEW k \in DOMAIN p, NEW l \in DOMAIN p, p[k] = p[l] PROVE k = l
    BY <1>3, <1>14, <2>3
  <2>4. ASSUME NEW i \in DOMAIN read', NEW j \in DOMAIN read', read'[i] = read'[j] PROVE i = j
    <3>1. CASE i <= Len(read) /\ j <= Len(read)
      BY <1>3, <2>1, <2>4, <3>1
    <3>2. CASE i <= Len(read) /\ ~(j <= Len(read))
      <4>1. i \in DOMAIN read /\ j - Len(read) \in DOMAIN p
        BY <1>3, <2>4, <3>2
      <4>2. QED
        BY <1>3, <2>2, <2>4, <3>2, <4>1
    <3>3. CASE ~(i <= Len(read)) /\ j <= Len(read)
      <4>1. j \in DOMAIN read /\ i - Len(read) \in DOMAIN p
        BY <1>3, <2>4, <3>3
      <4>2. QED
        BY <1>3, <2>2, <2>4, <3>3, <4>1
    <3>4. CASE ~(i <= Len(read)) /\ ~(j <= Len(read))
      <4>1. i - Len(read) \in DOMAIN p /\ j - Len(read) \in DOMAIN p
        BY <1>3, <2>4, <3>4
      <4>2. i - Len(read) = j - Len(read)
        BY <1>3, <2>3, <2>4, <3>4, <4>1
      <4>3. QED
        BY <1>3, <2>4, <4>2
    <3>5. QED
      BY <3>1, <3>2, <3>3, <3>4
  <2>5. ASSUME walk'.pc = "count", NEW a \in P!Ids, Got(a)' PROVE Place(a)' < Done'
    <3>1. Done' = Done + n /\ Place(a)' = Place(a) /\ from = Done
      BY <1>4, <1>5, <1>6, <1>8, <1>10, <1>13, <2>5
    <3>2. CASE Got(a)
      BY <1>5, <1>6, <2>1, <3>1, <3>2
    <3>3. CASE \E k \in DOMAIN p : p[k] = a
      <4>1. PICK k \in DOMAIN p : p[k] = a
        BY <3>3
      <4>2. Place(a) = from + k - 1 /\ k \in 1..Len(p) /\ Len(p) <= n
        <5>1. Len(p) <= n
          BY <1>5, <1>15
        <5>2. QED
          BY <1>3, <1>14, <4>1, <5>1
      <4>3. QED
        BY <1>3, <1>5, <1>6, <3>1, <4>2
    <3>4. QED
      BY <1>9, <2>5, <3>2, <3>3
  <2>6. QED
    BY <1>4, <1>7, <1>10, <2>4, <2>5 DEF ReadOnce
<1>17. ReadAll'
  <2> SUFFICES ASSUME walk.first <= 1, P!Total, "out" \notin moved PROVE ReadAll'
    BY <1>4, <1>7 DEF ReadAll
  <2>1. \A a \in stayed : Place(a) < Done => Got(a)
    BY <1>6 DEF PagingInv, ReadAll
  <2>2. from = Done
    BY <1>5, <1>13
  <2>3. ASSUME NEW a \in stayed, Place(a) < Done + n PROVE Got(a)'
    <3>1. a \in P!Ids /\ Place(a) \in Nat
      BY <1>0, <1>5 DEF PagingTyped
    <3>2. CASE Place(a) < Done
      BY <1>9, <2>1, <3>2
    <3>3. CASE ~(Place(a) < Done)
      <4>1. from <= Place(a) /\ Place(a) < from + n
        BY <1>6, <2>2, <2>3, <3>1, <3>3
      <4>2. QED
        BY <1>9, <1>14, <3>1, <4>1
    <3>4. QED
      BY <3>2, <3>3
  <2>4. ASSUME walk'.pc = "over", ~torn, NEW a \in stayed PROVE Got(a)'
    <3>1. walk.pages = P!Pages(t, n) /\ walk.index >= walk.pages
      BY <1>4, <2>4 DEF PagingInv, PagesKnown
    <3>2. t <= walk.index * n
      BY <1>5, <3>1, PagesAre
    <3>3. Place(a) < t
      BY <1>0, PlaceBelow DEF PagingTyped
    <3>4. Place(a) < Done + n
      BY <1>5, <1>6, <3>2, <3>3
    <3>5. QED
      BY <2>3, <3>4
  <2>5. QED
    BY <1>4, <1>7, <1>8, <1>10, <2>3, <2>4 DEF ReadAll
<1>18. ReadInOrder' /\ P!EmptyBehind'
  <2> SUFFICES ASSUME moved = {} PROVE ReadInOrder' /\ P!EmptyBehind'
    BY <1>4 DEF ReadInOrder, P!EmptyBehind
  <2>1. walk.pages = P!Pages(t, n) /\ ~torn
    BY <1>0, <1>4 DEF PagingInv, PagesKnown, PagingTyped
  <2>2. /\ walk.index < walk.pages => Done + n < t
        /\ walk.index >= walk.pages => t <= Done + n
    BY <1>5, <1>6, <2>1, PagesAre
  <2>3. ASSUME walk.first <= 1
        PROVE  /\ walk'.pc = "count" => Len(read') = Done + n /\ Done + n <= t
               /\ walk'.pc = "over" => Len(read') = t
    <3>1. Len(read) = Done /\ Done <= t /\ from = Done
      BY <1>5, <1>6, <1>13, <2>3 DEF PagingInv, ReadInOrder
    <3>2. Len(read') = Done + Len(p)
      BY <1>3, <3>1
    <3>3. CASE walk'.pc = "count"
      <4>1. Done + n < t
        BY <1>4, <2>2, <3>3
      <4>2. Len(p) = n
        BY <1>5, <1>6, <1>15, <3>1, <4>1
      <4>3. QED
        BY <1>5, <1>6, <3>2, <3>3, <4>1, <4>2
    <3>4. CASE walk'.pc = "over"
      <4>1. t <= Done + n
        BY <1>4, <2>2, <3>4
      <4>2. Len(p) = t - Done
        BY <1>5, <1>6, <1>15, <3>1, <4>1
      <4>3. QED
        BY <1>5, <1>6, <3>2, <3>4, <4>2
    <3>5. QED
      BY <1>4, <3>3, <3>4
  <2>4. ASSUME P!Total
        PROVE  /\ \A i, j \in DOMAIN read' : i < j => Precedes(read'[i], read'[j])
               /\ \A i \in DOMAIN read' : read'[i] \in P!Ids
    <3>1. /\ \A i, j \in DOMAIN read : i < j => Precedes(read[i], read[j])
          /\ \A i \in DOMAIN read : read[i] \in P!Ids
          /\ \A a \in P!Ids : Got(a) => Place(a) < Done
      BY <1>6, <2>4 DEF PagingInv, ReadInOrder, ReadOnce
    <3>2. \A a, b \in P!Ids : Place(a) < Place(b) => Precedes(a, b)
      <4> SUFFICES ASSUME NEW a \in P!Ids, NEW b \in P!Ids, Place(a) < Place(b) PROVE Precedes(a, b)
        OBVIOUS
      <4>1. a = b \/ Precedes(a, b) \/ Precedes(b, a)
        BY <1>0, <2>4, PlaceFacts
      <4>2. Precedes(b, a) => Place(b) < Place(a)
        BY <1>0, <2>4, PlaceFacts
      <4>3. Place(a) \in Nat /\ Place(b) \in Nat
        BY <1>5
      <4>4. QED
        BY <4>1, <4>2, <4>3
    <3>3. ASSUME NEW i \in DOMAIN read, NEW k \in DOMAIN p PROVE Precedes(read[i], p[k])
      <4>1. Place(read[i]) < Done /\ read[i] \in P!Ids
        BY <3>1, <3>3 DEF Got
      <4>2. from = Done
        BY <1>3, <1>13, <3>3
      <4>3. p[k] \in P!Ids /\ Place(p[k]) >= Done
        BY <1>3, <1>6, <1>14, <2>4, <3>3, <4>2
      <4>4. Place(read[i]) < Place(p[k])
        BY <1>5, <1>6, <4>1, <4>3
      <4>5. QED
        BY <3>2, <4>1, <4>3, <4>4
    <3>4. ASSUME NEW k \in DOMAIN p, NEW l \in DOMAIN p, k < l PROVE Precedes(p[k], p[l])
      BY <1>3, <1>14, <2>4, <3>2, <3>4
    <3>5. ASSUME NEW i \in DOMAIN read' PROVE read'[i] \in P!Ids
      <4>1. i \in DOMAIN read \/ (~(i <= Len(read)) /\ i - Len(read) \in DOMAIN p)
        BY <1>3, <3>5
      <4>2. QED
        BY <1>3, <1>14, <2>4, <3>1, <3>5, <4>1
    <3>6. ASSUME NEW i \in DOMAIN read', NEW j \in DOMAIN read', i < j
          PROVE  Precedes(read'[i], read'[j])
      <4>1. CASE j <= Len(read)
        <5>1. i \in DOMAIN read /\ j \in DOMAIN read /\ i <= Len(read)
          BY <1>3, <3>6, <4>1
        <5>2. QED
          BY <1>3, <3>1, <3>6, <4>1, <5>1
      <4>2. CASE i <= Len(read) /\ ~(j <= Len(read))
        <5>1. i \in DOMAIN read /\ j - Len(read) \in DOMAIN p
          BY <1>3, <3>6, <4>2
        <5>2. QED
          BY <1>3, <3>3, <3>6, <4>2, <5>1
      <4>3. CASE ~(i <= Len(read)) /\ ~(j <= Len(read))
        <5>1. i - Len(read) \in DOMAIN p /\ j - Len(read) \in DOMAIN p /\ i - Len(read) < j - Len(read)
          BY <1>3, <3>6, <4>3
        <5>2. QED
          BY <1>3, <3>4, <3>6, <4>3, <5>1
      <4>4. QED
        BY <1>3, <3>6, <4>1, <4>2, <4>3
    <3>7. QED
      BY <3>5, <3>6
  <2>5. ReadInOrder'
    <3>1. walk'.pc = "count" => walk'.index <= P!Pages(Cardinality(recs'), walk'.size)
      BY <1>4, <1>5, <2>1
    <3>2. QED
      BY <1>4, <1>7, <1>10, <2>3, <2>4, <3>1 DEF ReadInOrder, Walking
  <2>6. P!EmptyBehind'
    <3> SUFFICES ASSUME walk'.pc = "over", walk.first > walk.pages, walk.first > 1,
                        (walk.first - 1) * n <= MaxInt
                 PROVE  read' = <<>>
      BY <1>4, <1>5 DEF P!EmptyBehind
    <3>1. walk.index = walk.first
      BY <1>4, <1>5, <1>6, <2>1 DEF PagingInv, ReadInOrder
    <3>2. read = <<>> /\ Done <= MaxInt
      BY <1>6, <3>1 DEF PagingInv, Offsets
    <3>3. from = Done
      BY <1>2, <3>2 DEF Adds
    <3>4. walk.index - 1 \in Nat /\ walk.pages <= walk.index - 1
      BY <1>5, <3>1
    <3>5. t <= (walk.index - 1) * n
      BY <1>5, <2>1, <3>4, PagesAre
    <3>6. Len(p) = 0
      BY <1>5, <1>6, <1>15, <3>3, <3>5
    <3>7. p = <<>>
      BY <1>3, <3>6
    <3>8. QED
      BY <1>2, <3>2, <3>7
  <2>7. QED
    BY <2>5, <2>6
<1>19. QED
  BY <1>11, <1>12, <1>16, <1>17, <1>18 DEF PagingInv

LEMMA PagingStep ==
  ASSUME P!PagingConstants, PagingInv, [P!Next]_pagingVars
  PROVE  PagingInv'
<1>1. CASE P!Writes
  BY <1>1, WriteStep
<1>2. CASE P!Reads
  BY <1>2, BeginStep, CountStep, SelectStep, LeaveStep DEF P!Reads
<1>3. CASE UNCHANGED pagingVars
  <2>1. /\ walk' = walk /\ recs' = recs /\ newest' = newest /\ read' = read
        /\ stayed' = stayed /\ moved' = moved /\ torn' = torn
    BY <1>3 DEF pagingVars
  <2>2. /\ P!Ids' = P!Ids /\ (P!Total' <=> P!Total) /\ (Walking' <=> Walking) /\ Done' = Done
        /\ (\A a : Got(a)' <=> Got(a)) /\ \A a, b : Precedes(a, b)' <=> Precedes(a, b)
    BY <2>1 DEF P!Ids, P!Total, Walking, Done, Got, Precedes
  <2>3. \A a : Place(a)' = Place(a)
    BY <2>2 DEF Place
  <2>4. PagingTyped' /\ Offsets' /\ PagesKnown'
    BY <2>1, <2>2 DEF PagingInv, PagingTyped, Offsets, PagesKnown
  <2>5. ReadOnce' /\ ReadAll'
    BY <2>1, <2>2, <2>3 DEF PagingInv, ReadOnce, ReadAll
  <2>6. ReadInOrder' /\ P!EmptyBehind'
    BY <2>1, <2>2 DEF PagingInv, ReadInOrder, P!EmptyBehind
  <2>7. QED
    BY <2>4, <2>5, <2>6 DEF PagingInv
<1>4. QED
  BY <1>1, <1>2, <1>3 DEF P!Next

(* What the invariant says of a walk that is over. *)
LEMMA PagesAreMet ==
  ASSUME P!PagingConstants, PagingInv
  PROVE  P!PagesMeetAll
<1> DEFINE N == Cardinality(recs)
<1>1. /\ PagingTyped /\ ReadOnce /\ ReadAll /\ ReadInOrder /\ P!EmptyBehind
  BY DEF PagingInv
<1>2. /\ read \in Seq(1..newest) /\ Len(read) \in Nat /\ DOMAIN read = 1..Len(read)
      /\ stayed \subseteq P!Ids
  BY <1>1 DEF PagingTyped
<1>3. P!ToSet(read) = {read[i] : i \in DOMAIN read}
  BY DEF P!ToSet
<1>4. P!MeetsAll
  <2> SUFFICES ASSUME P!Whole, P!Total, "out" \notin moved, ~torn, NEW a \in stayed
               PROVE  a \in P!ToSet(read)
    BY DEF P!MeetsAll
  <2>1. Got(a)
    BY <1>1 DEF ReadAll, P!Whole
  <2>2. QED
    BY <1>3, <2>1 DEF Got
<1>5. P!NoneTwice
  <2> SUFFICES ASSUME P!Total, "in" \notin moved PROVE Cardinality(P!ToSet(read)) = Len(read)
    BY SameCardinality DEF P!NoneTwice
  <2>1. \A m, n \in 1..Len(read) : read[m] = read[n] => m = n
    BY <1>1, <1>2 DEF ReadOnce
  <2>2. read \in [1..Len(read) -> P!ToSet(read)]
    BY <1>2, <1>3
  <2>3. \A a \in P!ToSet(read) : \E n \in 1..Len(read) : read[n] = a
    BY <1>2, <1>3
  <2>4. read \in Bijection(1..Len(read), P!ToSet(read))
    BY <2>1, <2>2, <2>3 DEF Bijection, Injection, IsInjective, Surjection
  <2>5. IsFiniteSet(1..Len(read)) /\ Cardinality(1..Len(read)) = Len(read)
    BY <1>2, FS_Interval
  <2>6. QED
    BY <2>4, <2>5, FS_Bijection DEF ExistsBijection
<1>6. P!InOrder
  <2> SUFFICES ASSUME P!Whole, moved = {}
               PROVE  /\ Len(read) = N
                      /\ P!Total => \E s \in P!Sorted(walk.order) :
                                      read = [i \in DOMAIN s |-> s[i].id]
    BY SameCardinality DEF P!InOrder
  <2>1. Len(read) = N
    BY <1>1 DEF ReadInOrder, P!Whole
  <2>2. ASSUME P!Total
        PROVE  \E s \in P!Sorted(walk.order) : read = [i \in DOMAIN s |-> s[i].id]
    <3> DEFINE RecordOf(a) == CHOOSE x \in recs : x.id = a
               s == [i \in 1..N |-> RecordOf(read[i])]
    <3>1. /\ \A m, n \in 1..N : m < n => Precedes(read[m], read[n])
          /\ \A n \in 1..N : read[n] \in P!Ids
          /\ \A m, n \in 1..N : read[m] = read[n] => m = n
      BY <1>1, <1>2, <2>1, <2>2 DEF ReadInOrder, ReadOnce
    <3>2. \A n \in 1..N : RecordOf(read[n]) \in recs /\ RecordOf(read[n]).id = read[n]
      <4> SUFFICES ASSUME NEW n \in 1..N
                   PROVE  RecordOf(read[n]) \in recs /\ RecordOf(read[n]).id = read[n]
        OBVIOUS
      <4>1. \E x \in recs : x.id = read[n]
        BY <3>1 DEF P!Ids
      <4>2. QED
        BY <4>1
    <3>3. s \in [1..N -> recs] /\ DOMAIN s = 1..N /\ \A i \in 1..N : s[i].id = read[i]
      BY <3>2
    <3> HIDE DEF s
    <3>4. s \in P!SetToSeqs(recs)
      <4>1. \A i, j \in 1..N : i # j => s[i] # s[j]
        BY <3>1, <3>3
      <4>2. QED
        BY <3>3, <4>1, SameCardinality DEF P!SetToSeqs
    <3>5. ASSUME NEW i \in 1..N, NEW j \in 1..N, i < j
          PROVE  ~P!Before(walk.order, s[j], s[i])
      <4>1. Precedes(read[i], read[j]) /\ s[i].id = read[i] /\ s[j].id = read[j]
        BY <3>1, <3>3, <3>5
      <4>2. read[i] \in Nat /\ read[j] \in Nat
        BY <1>1, <3>1, <3>5, PlaceFacts
      <4>3. walk.order \in {"desc", "id"}
        BY <1>1, <2>2 DEF PagingTyped, P!Total, Walk, P!Orders
      <4>4. CASE walk.order = "desc"
        BY <4>1, <4>2, <4>4 DEF P!Before, Precedes
      <4>5. CASE walk.order = "id"
        BY <4>1, <4>2, <4>5 DEF P!Before, Precedes
      <4>6. QED
        BY <4>3, <4>4, <4>5
    <3>6. s \in P!Sorted(walk.order)
      BY <3>3, <3>4, <3>5 DEF P!Sorted
    <3>7. read = [i \in DOMAIN s |-> s[i].id]
      <4>1. read \in [1..Len(read) -> 1..newest]
        BY <1>2, LenProperties
      <4>2. QED
        BY <2>1, <3>3, <4>1
    <3>8. QED
      BY <3>6, <3>7
  <2>3. QED
    BY <2>1, <2>2
<1>7. QED
  BY <1>1, <1>4, <1>5, <1>6 DEF P!PagesMeetAll

(* A walk through all pages of a search, in an order without ties, reads   *)
(* every record that was there all the time, unless one goes out or one    *)
(* comes in beside the last select; none twice unless one comes in; and    *)
(* while nothing moves it reads all there are in their order: for any      *)
(* number of records, page sizes and first pages.                          *)
THEOREM PagesMeet == DataSpec => []PagesMeetAll
<1> DEFINE I == machine = "paging" => PagingInv
<1>1. DataInit => I
  BY PagingInit, OneBegins, DataAssumption
<1>2. I /\ [DataNext]_dataVars => I'
  BY PagingStep, OneRuns, DataAssumption
<1>3. I => PagesMeetAll
  BY PagesAreMet, DataAssumption DEF PagesMeetAll
<1>4. QED
  BY <1>1, <1>2, <1>3, PTL DEF DataSpec
-----------------------------------------------------------------------------
(* The types of the machines, where the invariants above need less or more. *)
StoreBounds ==
  /\ val \in [Keys -> (-1..T!Forever) \cup {None}]
  /\ dropper \in [Clients -> SUBSET Keys]
  /\ rewritten \subseteq Keys

LEMMA StoreBoundsStep ==
  ASSUME T!StoreConstants, StoreTyped, StoreBounds, [T!Next]_storeVars
  PROVE  StoreBounds'
<1> USE DEF StoreBounds
<1>1. T!Forever \in Nat /\ T!Forever >= 1
  BY DEF T!Forever, T!StoreConstants
<1>2. ASSUME NEW ks PROVE T!Without(ks) \in [Keys -> (-1..T!Forever) \cup {None}]
  BY DEF T!Without
<1>3. CASE UNCHANGED storeVars
  BY <1>3 DEF storeVars
<1>4. CASE T!Tick
  <2>1. ASSUME NEW k \in Keys, val[k] \notin {None, T!Forever, -1}
        PROVE  val[k] - 1 \in -1..T!Forever
    <3>1. val[k] \in -1..T!Forever
      BY <2>1
    <3>2. QED
      BY <1>1, <2>1, <3>1
  <2>2. QED
    BY <1>4, <2>1 DEF T!Tick
<1>5. ASSUME NEW k \in Keys, T!Evict(k) PROVE StoreBounds'
  BY <1>2, <1>5 DEF T!Evict
<1>6. CASE T!Collects
  BY <1>2, <1>6 DEF T!Collects, T!GCDelete, T!GCStart, T!GCScan
<1>7. ASSUME NEW c \in Clients, T!Calls(c) PROVE StoreBounds'
  <2>1. ASSUME NEW k \in Keys, NEW ttl \in T!TTLs, T!Set(c, k, ttl) PROVE StoreBounds'
    <3>1. T!Life(ttl) \in -1..T!Forever
      BY <1>1 DEF T!Life, T!TTLs, T!Forever, T!StoreConstants
    <3>2. QED
      BY <2>1, <3>1 DEF T!Set
  <2>2. ASSUME NEW k \in Keys, T!Del(c, k) \/ T!GetExpired(c, k) PROVE StoreBounds'
    BY <1>2, <2>2 DEF T!Del, T!GetExpired
  <2>3. CASE T!GetDeletes(c) \/ T!ClearAll(c)
    BY <1>2, <2>3 DEF T!GetDeletes, T!ClearAll
  <2>4. CASE T!DropDeletes(c)
    BY <1>2, <2>4 DEF T!DropDeletes
  <2>5. ASSUME NEW h \in T!Hashes, T!DropAtOnce(c, h) \/ T!DropBegins(c, h) PROVE StoreBounds'
    BY <1>2, <2>5 DEF T!DropAtOnce, T!DropBegins, T!OfHash
  <2>6. QED
    BY <1>7, <2>1, <2>2, <2>3, <2>4, <2>5 DEF T!Calls
<1>8. QED
  BY <1>3, <1>4, <1>5, <1>6, <1>7 DEF T!Next

(* A token that a login is about to tell has been made. *)
LoginMade(e) == e.op = "login" => e.pc \in {"hset", "set"} /\ e.tok \in made

GirisBounds == /\ told \subseteq made /\ ghosts \subseteq made
               /\ age \in [Tokens -> 0..(Expire + 1)]
               /\ \A r \in Reqs : LoginMade(job[r])

LEMMA LoginsMade ==
  ASSUME GirisTyped, \A r \in Reqs : LoginMade(job[r]), G!Happens, made \subseteq made',
         NEW s \in Reqs
  PROVE  LoginMade(job[s])'
<1> USE DEF LoginMade, GirisTyped, HandsFull
<1>1. G!Idle.op = "verify"
  BY DEF G!Idle
<1>2. ASSUME NEW r \in Reqs, G!Step(r) PROVE LoginMade(job[s])'
  <2>1. CASE G!GetMem(r) \/ G!HGet(r) \/ G!FillMem(r) \/ G!Refused(r) \/ G!Called(r)
    BY <1>1, <2>1 DEF G!GetMem, G!HGet, G!FillMem, G!Refused, G!Called, G!To, G!Answer, Job
  <2>2. CASE G!Accept(r)
    BY <1>1, <2>2 DEF G!Accept, G!Accepted, Job
  <2>3. CASE G!HSet(r) \/ G!HSetFails(r)
    BY <1>1, <2>3 DEF G!HSet, G!HSetFails, G!To, G!Answer, Job
  <2>4. CASE G!SetMem(r)
    BY <1>1, <2>4 DEF G!SetMem, G!Accepted, Job
  <2>5. CASE G!Refresh(r, G!generateToken)
    BY <1>1, <2>5 DEF G!Refresh, G!Generates, Job
  <2>6. QED
    BY <1>2, <2>1, <2>2, <2>3, <2>4, <2>5 DEF G!Step
<1>3. ASSUME NEW r \in Reqs, NEW p \in Procs, G!Arrives(r, p) PROVE LoginMade(job[s])'
  <2>1. ASSUME NEW k, G!AfterLogin(r, p, k) PROVE LoginMade(job[s])'
    BY <2>1 DEF G!AfterLogin, Job
  <2>2. ASSUME NEW k \in Tokens, G!Verify(r, p, k) PROVE LoginMade(job[s])'
    BY <2>2 DEF G!Verify, G!Idle, Job
  <2>3. QED
    BY <1>3, <2>1, <2>2 DEF G!Arrives
<1>4. CASE G!Tick
  BY <1>4 DEF G!Tick, Job
<1>5. ASSUME NEW p \in Procs, G!Restart(p) PROVE LoginMade(job[s])'
  BY <1>1, <1>5 DEF G!Restart
<1>6. CASE G!Logout \/ G!Scan \/ G!Sweep
  BY <1>6 DEF G!Logout, G!Scan, G!Sweep
<1>7. QED
  BY <1>2, <1>3, <1>4, <1>5, <1>6 DEF G!Happens

LEMMA GirisBoundsStep ==
  ASSUME G!GirisConstants, GirisInv, GirisBounds, [G!Next]_girisVars
  PROVE  GirisBounds'
<1>1. CASE UNCHANGED girisVars
  BY <1>1 DEF girisVars, GirisBounds, LoginMade
<1>2. CASE G!Next
  <2>1. GirisInv' /\ GirisTyped /\ GirisTyped' /\ G!Happens /\ G!Haunting
    BY <1>2, GirisStep DEF GirisInv, G!Next
  <2>2. made \subseteq made'
    BY <2>1, TokensStay
  <2>3. ghosts' \subseteq made'
    <3> SUFFICES ASSUME NEW k \in G!Held' PROVE k \in made'
      BY <2>1 DEF G!Haunting
    <3>1. k \in G!Held' => \E t : Copy(t)' /\ t.tok = k
      BY <2>1 DEF G!Held, G!Hands, G!Memories, Copy, Entry, GirisTyped, HandsFull, G!GirisConstants
    <3>2. QED
      BY <2>1, <3>1 DEF GirisInv, InStep
  <2>4. told' \subseteq made'
    <3>1. \/ told' = told
          \/ \E r \in Reqs : job[r].op = "login" /\ told' = told \cup {job[r].tok}
      BY <2>1 DEF G!Happens, G!Step, G!Arrives, G!GetMem, G!HGet, G!FillMem, G!Refused, G!Accept,
         G!Called, G!HSet, G!HSetFails, G!SetMem, G!Refresh, G!AfterLogin, G!Verify, G!Restart,
         G!Logout, G!Scan, G!Sweep, G!Tick
    <3>2. QED
      BY <2>2, <3>1 DEF GirisBounds, LoginMade
  <2>5. age' \in [Tokens -> 0..(Expire + 1)]
    <3>1. \/ age' = age \/ (\E k : age' = [age EXCEPT ![k] = 0]) \/ G!Tick
      BY <2>1 DEF G!Happens, G!Step, G!Arrives, G!GetMem, G!HGet, G!FillMem, G!Refused, G!Accept,
         G!Called, G!HSet, G!HSetFails, G!SetMem, G!Refresh, G!Generates, G!AfterLogin, G!Verify,
         G!Restart, G!Logout, G!Scan, G!Sweep, G!Tick
    <3>2. CASE G!Tick
      BY <3>2 DEF GirisBounds, G!Tick, G!GirisConstants
    <3>3. QED
      BY <3>1, <3>2 DEF GirisBounds, G!GirisConstants
  <2>6. \A r \in Reqs : LoginMade(job[r])'
    BY <2>1, <2>2, LoginsMade DEF GirisBounds
  <2>7. QED
    BY <2>3, <2>4, <2>5, <2>6 DEF GirisBounds
<1>3. QED
  BY <1>1, <1>2

(* The entries have their types for any clauses, whatever they answer. *)
KeysTyped == K!TypeOK /\ Rowed(db)

LEMMA AnswerTyped ==
  ASSUME K!KeysConstants, NEW d \in [K!Ids -> K!Rows \cup {Absent}], Rowed(d), NEW w
  PROVE  /\ K!DbAnswer(w, d) \in K!Rows \cup {Absent}
         /\ K!DbAnswer(w, d) # Absent => K!DbAnswer(w, d).id \in K!Ids
BY AnswerIs

LEMMA KeysTypedStep ==
  ASSUME K!KeysConstants, KeysTyped, [K!Next]_keysVars
  PROVE  KeysTyped'
<1> USE DEF KeysTyped, K!TypeOK
<1>1. CASE UNCHANGED keysVars
  BY <1>1 DEF keysVars, Rowed
<1>2. ASSUME NEW w \in Clauses, K!QueryByKey(w) PROVE KeysTyped'
  <2> DEFINE k == K!QueryKey(w)
             row == K!DbAnswer(w, db)
  <2>1. /\ db' = db /\ search' = search /\ asked' = w /\ k # K!NoKey
        /\ got' = (IF pkc[k] # Miss THEN pkc[k] ELSE row)
        /\ pkc' = (IF pkc[k] # Miss THEN pkc ELSE [pkc EXCEPT ![k] = row])
    BY <1>2 DEF K!QueryByKey, K!Reply
  <2>2. k \in 0..LastId
    <3>1. LastId \in Nat /\ w \in Seq(K!Condition)
      BY DEF K!KeysConstants
    <3>2. k = K!ClauseKey(K!Last(w)) /\ K!KeysFound(w) # {}
      <4>1. K!Cardinality({}) = 0
        <5>1. IsFiniteSet({}) /\ Cardinality({}) = 0
          BY FS_EmptySet
        <5>2. QED
          BY <5>1 DEF K!Cardinality, K!IsFiniteSet, Cardinality, IsFiniteSet
      <4>2. K!Cardinality(K!KeysFound(w)) = 1
        BY <2>1 DEF K!QueryKey
      <4>3. K!KeysFound(w) # {}
        <5>1. K!KeysFound(w) = {} => K!Cardinality(K!KeysFound(w)) = 0
          BY <4>1, Zenon
        <5>2. QED
          BY <4>2, <5>1
      <4>4. QED
        BY <4>2, <4>3 DEF K!QueryKey
    <3>3. DOMAIN w # {}
      BY <3>2 DEF K!KeysFound
    <3>4. K!Last(w) \in K!Condition
      BY <3>1, <3>3 DEF K!Last
    <3>5. QED
      BY <3>1, <3>2, <3>4 DEF K!ClauseKey, K!Condition, K!Ids
  <2>3. row \in K!Rows \cup {Absent}
    BY AnswerTyped
  <2> HIDE DEF k, row
  <2>4. pkc[k] \in K!Rows \cup {Absent, Miss}
    BY <2>2
  <2>5. pkc' \in [0..LastId -> K!Rows \cup {Absent, Miss}]
    BY <2>1, <2>3
  <2>6. QED
    BY <2>1, <2>3, <2>4, <2>5 DEF Rowed
<1>3. ASSUME NEW w \in Clauses, K!QueryBySearch(w) PROVE KeysTyped'
  <2> DEFINE row == K!DbAnswer(w, db)
  <2>1. /\ db' = db /\ asked' = w
        /\ \/ search[w] = Absent /\ got' = Absent /\ UNCHANGED <<pkc, search>>
           \/ /\ search[w] # Absent /\ search[w] # Miss /\ pkc[search[w]] # Miss
              /\ got' = pkc[search[w]] /\ UNCHANGED <<pkc, search>>
           \/ /\ got' = row /\ search' = [search EXCEPT ![w] = K!SearchEntry(row)]
              /\ pkc' = (IF row = Absent THEN pkc ELSE [pkc EXCEPT ![row.id] = row])
    BY <1>3 DEF K!QueryBySearch, K!Reply
  <2>2. row \in K!Rows \cup {Absent} /\ (row # Absent => row.id \in K!Ids)
    BY AnswerTyped
  <2>3. K!SearchEntry(row) \in K!Ids \cup {Absent}
    BY <2>2 DEF K!SearchEntry
  <2> HIDE DEF row
  <2>4. K!Ids \subseteq 0..LastId
    BY DEF K!Ids, K!KeysConstants
  <2>5. search[w] # Absent /\ search[w] # Miss /\ pkc[search[w]] # Miss
          => pkc[search[w]] \in K!Rows \cup {Absent}
    BY <2>4
  <2>6. got' \in K!Rows \cup {Absent}
    BY <2>1, <2>2, <2>5
  <2>7. /\ pkc' \in [0..LastId -> K!Rows \cup {Absent, Miss}]
        /\ search' \in [Clauses -> K!Ids \cup {Absent, Miss}]
    BY <2>1, <2>2, <2>3
  <2>8. QED
    BY <2>1, <2>6, <2>7 DEF Rowed
<1>4. ASSUME NEW w \in Clauses, NEW model \in K!Ids \cup {0}, NEW flag \in BOOLEAN \cup {Absent},
             K!Write(w, model, flag)
      PROVE  KeysTyped'
  <2>1. PICK where, hit :
          /\ db' = [i \in K!Ids |-> IF i \notin hit THEN db[i]
                                    ELSE IF flag = Absent THEN Absent
                                    ELSE [id |-> i, flag |-> flag]]
          /\ pkc' = K!EntriesLeft(where, model)
          /\ search' = [c \in Clauses |-> Miss]
          /\ asked' = <<>> /\ got' = K!DbAnswer(<<>>, db')
    BY <1>4 DEF K!Write, K!Reply
  <2>2. \A i \in K!Ids : flag # Absent => [id |-> i, flag |-> flag] \in K!Rows
    BY DEF K!Rows
  <2>3. db' \in [K!Ids -> K!Rows \cup {Absent}] /\ Rowed(db')
    BY <2>1, <2>2 DEF Rowed
  <2>4. got' \in K!Rows \cup {Absent}
    BY <2>1, <2>3, AnswerTyped
  <2>5. pkc' \in [0..LastId -> K!Rows \cup {Absent, Miss}]
    BY <2>1 DEF K!EntriesLeft
  <2>6. QED
    BY <2>1, <2>3, <2>4, <2>5
<1>5. QED
  BY <1>1, <1>2, <1>3, <1>4 DEF K!Next

(* Every machine of Data has its types: for any size of its instance, and  *)
(* without the conditions that its other theorems need.                    *)
THEOREM DataTyping == DataSpec => []TypeOK
<1> DEFINE Kept == /\ machine = "keys" => KeysTyped
                   /\ machine = "stores" => StoreInv /\ StoreBounds
                   /\ machine = "db" => DbInv
                   /\ machine = "giris" => GirisInv /\ GirisBounds
                   /\ machine = "paging" => PagingInv
<1>1. DataInit => Kept
  <2>1. K!Init => KeysTyped
    <3>1. K!Init => KeysInv /\ asked = <<>>
      BY KeysInit, DataAssumption DEF K!Init
    <3>2. K!Init => K!DbAnswer(asked, db) \in K!Rows \cup {Absent}
      BY <3>1, AnswerTyped, DataAssumption DEF KeysInv
    <3>3. QED
      BY <3>1, <3>2 DEF KeysInv, KeysTyped, K!TypeOK
  <2>2. T!Init => StoreBounds
    BY DEF T!Init, StoreBounds
  <2>3. G!Init => GirisBounds
    BY DataAssumption DEF G!Init, G!Idle, GirisBounds, LoginMade, G!GirisConstants
  <2>4. QED
    BY <2>1, <2>2, <2>3, OneBegins, StoreInit, DbInit, GirisInit, PagingInit, DataAssumption
<1>2. Kept /\ [DataNext]_dataVars => Kept'
  <2> SUFFICES ASSUME Kept, [DataNext]_dataVars PROVE Kept'
    OBVIOUS
  <2>1. machine' = machine
    BY OneRuns
  <2>2. machine = "keys" => KeysTyped'
    BY OneRuns, KeysTypedStep, DataAssumption
  <2>3. machine = "stores" => StoreInv' /\ StoreBounds'
    BY OneRuns, StoreStep, StoreBoundsStep, DataAssumption DEF StoreInv
  <2>4. machine = "db" => DbInv'
    BY OneRuns, DbInvStep
  <2>5. machine = "giris" => GirisInv' /\ GirisBounds'
    BY OneRuns, GirisStep, GirisBoundsStep, DataAssumption
  <2>6. machine = "paging" => PagingInv'
    BY OneRuns, PagingStep, DataAssumption
  <2>7. QED
    BY <2>1, <2>2, <2>3, <2>4, <2>5, <2>6
<1>3. Kept => TypeOK
  <2>1. StoreInv /\ StoreBounds => T!TypeOK
    BY DEF StoreInv, StoreTyped, StoreBounds, T!TypeOK
  <2>2. GirisInv /\ GirisBounds => G!TypeOK
    BY DEF GirisInv, GirisTyped, HandsFull, Job, Entry, GirisBounds, G!TypeOK
  <2>3. PagingInv => P!TypeOK
    <3> SUFFICES ASSUME PagingTyped PROVE P!TypeOK
      BY DEF PagingInv
    <3>1. P!ToSet(read) \subseteq 1..newest
      BY DEF PagingTyped, P!ToSet
    <3>2. walk.pc \in {"idle", "count", "select", "over"} /\ walk.order \in P!Orders
          /\ walk.size \in 1..MaxSize /\ walk.pages \in Nat
      BY DEF PagingTyped, Walk
    <3>3. QED
      BY <3>1, <3>2 DEF PagingTyped, P!TypeOK
  <2>4. QED
    BY <2>1, <2>2, <2>3 DEF TypeOK, DbInv, KeysTyped
<1>4. QED
  BY <1>1, <1>2, <1>3, PTL DEF DataSpec
=============================================================================
