-------------------------------- MODULE Data --------------------------------
(***************************************************************************)
(* What keeps data beside the query cache and Curd, side by side:          *)
(* retention, the keys of the cache, the stores of mdb, the start of the   *)
(* database, the pages of a search and the token store of giris.  No step  *)
(* of one would read what another writes, so a behaviour is one of the     *)
(* machines.                                                               *)
(***************************************************************************)
EXTENDS Retention, Integers, Sequences

CONSTANTS
  LastId, Clauses, Absent, Miss, (* of CacheKeys                           *)
  Clients, Keys, Batch, Hour,    (* of Stores                              *)
  Procs, Host, Tables, Record, Unique, Options, Asks,
                                 (* of DbStart                             *)
  Reqs, Tokens, Expire, Minute,  (* of GirisJwt, and the processes         *)
  Records, Sizes, Indexes, DefaultSize, MaxSize, MaxInt,
                                 (* of Paging, which has so many Records   *)
  None                           (* nothing                                *)

VARIABLES
  machine,                       (* which one runs                         *)
  db, pkc, search, asked, got,
  kind, val, getter, dropper, gc, rewritten,
  opt, exists, tables, seeds, others, lock, proc, raced, dropped,
  hash, near, job, made, told, age, over, ghosts, sweep,
  recs, newest, walk, read, stayed, moved, torn

K == INSTANCE CacheKeys WITH MaxId <- LastId
T == INSTANCE Stores WITH raced <- rewritten
B == INSTANCE DbStart
G == INSTANCE GirisJwt
P == INSTANCE Paging WITH MaxId <- Records

keysVars == <<db, pkc, search, asked, got>>
storeVars == <<kind, val, getter, dropper, gc, rewritten>>
dbVars == <<opt, exists, tables, seeds, others, lock, proc, raced, dropped>>
girisVars == <<hash, near, job, made, told, age, over, ghosts, sweep>>
pagingVars == <<recs, newest, walk, read, stayed, moved, torn>>

dataVars == <<machine, vars, keysVars, storeVars, dbVars, girisVars, pagingVars>>

ASSUME DataAssumption ==
  /\ K!KeysConstants /\ B!DbConstants /\ T!StoreConstants /\ G!GirisConstants
  /\ P!PagingConstants

-----------------------------------------------------------------------------
(* The variables of a machine that does not run. *)
NoKeys == db = None /\ pkc = None /\ search = None /\ asked = None /\ got = None

NoStore == /\ kind = None /\ val = None /\ getter = None /\ dropper = None /\ gc = None
           /\ rewritten = None

NoDb == /\ opt = None /\ exists = None /\ tables = None /\ seeds = None
        /\ others = None /\ lock = None /\ proc = None /\ raced = None /\ dropped = None

NoGiris == /\ hash = None /\ near = None /\ job = None /\ made = None /\ told = None
           /\ age = None /\ over = None /\ ghosts = None /\ sweep = None

NoPaging == /\ recs = None /\ newest = None /\ walk = None /\ read = None /\ stayed = None
            /\ moved = None /\ torn = None

DataInit ==
  /\ machine \in {"retention", "keys", "stores", "db", "giris", "paging"}
  /\ Init /\ (machine # "retention" => mode = "count")
  /\ IF machine = "keys" THEN K!Init ELSE NoKeys
  /\ IF machine = "stores" THEN T!Init ELSE NoStore
  /\ IF machine = "db" THEN B!Init ELSE NoDb
  /\ IF machine = "giris" THEN G!Init ELSE NoGiris
  /\ IF machine = "paging" THEN P!Init ELSE NoPaging

(* The others stand still. *)
Others ==
  /\ UNCHANGED machine
  /\ IF machine = "retention" THEN TRUE ELSE UNCHANGED vars
  /\ IF machine = "keys" THEN TRUE ELSE UNCHANGED keysVars
  /\ IF machine = "stores" THEN TRUE ELSE UNCHANGED storeVars
  /\ IF machine = "db" THEN TRUE ELSE UNCHANGED dbVars
  /\ IF machine = "giris" THEN TRUE ELSE UNCHANGED girisVars
  /\ IF machine = "paging" THEN TRUE ELSE UNCHANGED pagingVars

DataNext ==
  /\ \/ machine = "retention" /\ Next
     \/ machine = "keys" /\ K!Next
     \/ machine = "stores" /\ T!Next
     \/ machine = "db" /\ B!Next
     \/ machine = "giris" /\ G!Next
     \/ machine = "paging" /\ P!Next
  /\ Others

DataSpec == DataInit /\ [][DataNext]_dataVars

-----------------------------------------------------------------------------
(* The type invariant of the machine that runs. *)
TypeOK == /\ machine = "keys" => K!TypeOK
          /\ machine = "stores" => T!TypeOK
          /\ machine = "db" => B!TypeOK
          /\ machine = "giris" => G!TypeOK
          /\ machine = "paging" => P!TypeOK

(* The properties of the machines, which their modules explain.            *)

(* Every query gets its own answer from the cache.                         *)
AnswersOwnQuery == machine = "keys" => K!AnswersOwnQuery

(* A value is lost early only when it was written while somebody who had   *)
(* found the one before expired was about to delete it.                    *)
OnlyRacedLost == [][machine = "stores" => T!OnlyRacedLost]_dataVars

(* The start of the database can be repeated and raced.                    *)
StartRepeatable == machine = "db" => B!StartRepeatable

(* A client that walks through the pages meets every record.               *)
PagesMeetAll == machine = "paging" => P!PagesMeetAll

(* The tokens of giris come to an end.                                     *)
TokensEnd == [][machine = "giris" => G!TokensEnd]_dataVars
=============================================================================
