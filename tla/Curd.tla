-------------------------------- MODULE Curd --------------------------------
(***************************************************************************)
(* Update and Delete of mdb/curd.go on one row of a model that carries the *)
(* Version field of mdb/version.go.  Update takes the old row, through the *)
(* query cache of mdb/gm2c.go, merges the caller's values into it and      *)
(* writes every column back, on condition that the version is still the    *)
(* one it read, or the one the caller sent.  With force_update only the    *)
(* caller's columns are written, still under the version just read.        *)
(*                                                                         *)
(* The entry of the row in the cache is kept in the detail that matters    *)
(* here: fills, invalidations before the commit, TTL; QueryCache has the   *)
(* rest.  The database is external: the statement locks the row until its  *)
(* transaction ends.                                                       *)
(***************************************************************************)
EXTENDS Naturals

CONSTANTS
  Clients,  (* the goroutines that call Update and Delete                  *)
  Columns,  (* the columns besides id and version                          *)
  Omit,     (* those whose JSON tag says omitempty                         *)
  MaxOps,   (* bound on the number of calls                                *)
  Absent,   (* no row; also the cached "null"                              *)
  Miss      (* no cache entry                                              *)

ASSUME CurdAssumption == /\ Omit \subseteq Columns
                         /\ MaxOps \in Nat
                         /\ Absent # Miss

(* The n-th call writes n into its columns; 0 is the empty value.          *)
Row == [cols : [Columns -> Nat], ver : Nat]

ASSUME RowsApart == Absent \notin Row /\ Miss \notin Row

FirstRow == [cols |-> [k \in Columns |-> 1], ver |-> 1]

(* The zero struct: a model without id and version. *)
ZeroRow == [cols |-> [k \in Columns |-> 0], ver |-> 0]

VARIABLES
  row,    (* the committed row                                             *)
  past,   (* every committed row (history)                                 *)
  cache,  (* the entry under the row's primary key                         *)
  cl,     (* cl[c]: a call, [pc, op, cols, n, given, old, failed]          *)
  ops     (* the number of the last call                                   *)

vars == <<row, past, cache, cl, ops>>

PC == {"idle", "take", "read", "fill", "stmt", "drop", "commit"}
Op == {"update", "force", "delete"}

Call(op, cols, n, given) ==
  [pc |-> "take", op |-> op, cols |-> cols, n |-> n, given |-> given,
   old |-> ZeroRow, failed |-> FALSE]

NoCall == [pc |-> "idle", op |-> "update", cols |-> {}, n |-> 0, given |-> 0,
           old |-> ZeroRow, failed |-> FALSE]

Init == /\ row = FirstRow
        /\ past = {FirstRow}
        /\ cache = Miss
        /\ cl = [c \in Clients |-> NoCall]
        /\ ops = 1

(* The call goes on at pc, with the old row it has and whether reading it  *)
(* failed.                                                                 *)
GoOn(c, pc, old, failed) ==
  cl' = [cl EXCEPT ![c] =
           [pc |-> pc, op |-> cl[c].op, cols |-> cl[c].cols, n |-> cl[c].n,
            given |-> cl[c].given, old |-> old, failed |-> failed]]

ClTo(c, pc) == GoOn(c, pc, cl[c].old, cl[c].failed)

(* cols are the columns that Values names; given is the version in it, one *)
(* the caller has seen, or 0 for none.                                     *)
Begin(c, op, cols, given) ==
  /\ cl[c].pc = "idle"
  /\ ops < MaxOps
  /\ ops' = ops + 1
  /\ cl' = [cl EXCEPT ![c] = Call(op, cols, ops + 1, given)]
  /\ UNCHANGED <<row, past, cache>>

-----------------------------------------------------------------------------
(* Take("id = ?") through the cache.                                       *)

(* The entry is the null value; a mutant that does not know it. *)
NullUnknown(entry) == FALSE
IsNull(entry) == entry = Absent

Take(c) ==
  /\ cl[c].pc = "take"
  /\ IF cache = Miss THEN ClTo(c, "read")
     ELSE IF IsNull(cache) THEN ClTo(c, "idle")
     ELSE GoOn(c, "stmt", cache, FALSE)
  /\ UNCHANGED <<row, past, cache, ops>>

ReadDb(c) ==
  /\ cl[c].pc = "read"
  /\ GoOn(c, "fill", row, row = Absent)
  /\ UNCHANGED <<row, past, cache, ops>>

(* A database error leaves Dest zero, and setCache does not look at it. *)
ReadFails(c) ==
  /\ cl[c].pc = "read"
  /\ GoOn(c, "fill", ZeroRow, TRUE)
  /\ UNCHANGED <<row, past, cache, ops>>

Fill(c) ==
  /\ cl[c].pc = "fill"
  /\ cache' = cl[c].old
  /\ ClTo(c, IF cl[c].failed THEN "idle" ELSE "stmt")
  /\ UNCHANGED <<row, past, ops>>

Expire == /\ cache # Miss
          /\ cache' = Miss
          /\ UNCHANGED <<row, past, cl, ops>>

-----------------------------------------------------------------------------
(* The statement.                                                          *)

(* MergeBean works on the JSON of both: an empty field of newVal is left   *)
(* out only if its tag says omitempty.                                     *)
Merged(c) == [k \in Columns |-> IF k \in cl[c].cols THEN cl[c].n
                                ELSE IF k \in Omit THEN cl[c].old.cols[k]
                                ELSE 0]

(* The version that ModifyStatement puts into the WHERE clause, 0 for no   *)
(* condition; a mutant that always takes the one just read.                *)
CallerIgnored(c) == cl[c].old.ver
WhereVersion(c) == IF cl[c].op = "update" /\ cl[c].given # 0 THEN cl[c].given
                   ELSE cl[c].old.ver

(* The rows the statement finds; a mutant without the version.             *)
Unversioned(c) == row # Absent
Matches(c) == /\ row # Absent
              /\ \/ cl[c].op = "delete"
                 \/ WhereVersion(c) \in {0, row.ver}

Written(c) ==
  IF cl[c].op = "force"
  THEN [k \in Columns |-> IF k \in cl[c].cols THEN cl[c].n ELSE row.cols[k]]
  ELSE Merged(c)

After(c) == IF ~Matches(c) THEN row
            ELSE IF cl[c].op = "delete" THEN Absent
            ELSE [cols |-> Written(c), ver |-> row.ver + 1]

(* The UPDATE or DELETE gets the row lock ... *)
Statement(c) ==
  /\ cl[c].pc = "stmt"
  /\ \A d \in Clients : cl[d].pc \notin {"drop", "commit"}
  /\ ClTo(c, "drop")
  /\ UNCHANGED <<row, past, cache, ops>>

(* ... afterUpdate drops the entry, whatever the statement did, ... *)
DropEntry(c) ==
  /\ cl[c].pc = "drop"
  /\ cache' = Miss
  /\ ClTo(c, "commit")
  /\ UNCHANGED <<row, past, ops>>

(* ... and the transaction commits.  0 rows affected is not an error. *)
Commit(c) ==
  /\ cl[c].pc = "commit"
  /\ row' = After(c)
  /\ past' = past \cup {row'}
  /\ ClTo(c, "idle")
  /\ UNCHANGED <<cache, ops>>

Rollback(c) ==
  /\ cl[c].pc = "commit"
  /\ ClTo(c, "idle")
  /\ UNCHANGED <<row, past, cache, ops>>

Seen == {0} \cup {r.ver : r \in past \ {Absent}}

Next == \/ Expire
        \/ \E c \in Clients :
             \/ \E op \in Op, cols \in SUBSET Columns, given \in Seen :
                  Begin(c, op, cols, given)
             \/ Take(c) \/ ReadDb(c) \/ ReadFails(c) \/ Fill(c)
             \/ Statement(c) \/ DropEntry(c) \/ Commit(c) \/ Rollback(c)

Spec == Init /\ [][Next]_vars

-----------------------------------------------------------------------------
(* The call has a row and is about to write it. *)
Writing(c) == cl[c].pc \in {"stmt", "drop", "commit"}

CallType == [pc : PC, op : Op, cols : SUBSET Columns, n : Nat, given : Nat,
             old : Row \cup {Absent}, failed : BOOLEAN]

TypeOK == /\ row \in Row \cup {Absent}
          /\ past \subseteq Row \cup {Absent}
          /\ cache \in Row \cup {Absent, Miss}
          /\ cl \in [Clients -> CallType]
          /\ \A c \in Clients : Writing(c) => cl[c].old \in Row
          /\ ops \in Nat

(* No lost update: a committed update changes no column that its caller    *)
(* did not name, although it writes all of them back from a row that was   *)
(* read long before, perhaps from a stale cache entry.  This is of the     *)
(* columns with omitempty (Merged empties the others), and of callers that *)
(* send no version, or that of the row the cache gave.                     *)
NoLostUpdate ==
  [][\A c \in Clients :
       (/\ Commit(c) /\ cl[c].op # "delete"
        /\ cl[c].old # ZeroRow /\ row # Absent
        /\ cl[c].given \in {0, cl[c].old.ver})
         => \A k \in Omit \ cl[c].cols : row'.cols[k] = row.cols[k]]_vars

(* The caller's version is a condition: an update that carries one changes *)
(* the row only if that is the row's version.                              *)
GivenVersionHolds ==
  [][\A c \in Clients :
       (Commit(c) /\ cl[c].op = "update" /\ cl[c].given # 0 /\ row' # row)
         => row.ver = cl[c].given]_vars

(* "get from db": the old row of an update is one the database has held.   *)
OldFromDb == \A c \in Clients : Writing(c) => cl[c].old \in past
=============================================================================
