----------------------------- MODULE Retention ------------------------------
(***************************************************************************)
(* AutoDelete of mdb/db.go on one table: a cleaner counts the rows to      *)
(* delete, those beyond the Save newest or those created before a day, and *)
(* BatchDeleteFromTop deletes as many, lowest ids first, in batches.  The  *)
(* count, the search for the end of a batch and the delete are statements  *)
(* of their own; rows are inserted in the meantime.                        *)
(*                                                                         *)
(* Ids grow with the time of creation (autoIncrement, CURRENT_TIMESTAMP).  *)
(***************************************************************************)
EXTENDS Naturals, FiniteSets

CONSTANTS
  Cleaners,  (* the goroutines or processes that call AutoDelete           *)
  Save,      (* the number of rows to save                                 *)
  Each,      (* eachCount, 1000 in the code                                *)
  MaxId      (* bound on the rows ever inserted                            *)

ASSUME RetentionAssumption == /\ Save \in Nat \ {0}
                              /\ Each \in Nat \ {0}
                              /\ MaxId \in Nat

VARIABLES
  mode,   (* the save tag: "count" or "days"                               *)
  rows,   (* the ids in the table                                          *)
  next,   (* the next id                                                   *)
  aged,   (* the rows up to this id were created before time1              *)
  cl      (* cl[c]: a cleaner, [pc, count, i, cut, deleted]                *)

vars == <<mode, rows, next, aged, cl>>

PC == {"idle", "pick", "delete", "done"}

Idle == [pc |-> "idle", count |-> 0, i |-> 0, cut |-> 0, deleted |-> 0]

Init == /\ mode \in {"count", "days"}
        /\ rows = {}
        /\ next = 1
        /\ aged = 0
        /\ cl = [c \in Cleaners |-> Idle]

Insert == /\ next <= MaxId
          /\ rows' = rows \cup {next}
          /\ next' = next + 1
          /\ UNCHANGED <<mode, aged, cl>>

(* Days pass. *)
Age == /\ aged + 1 < next
       /\ aged' = aged + 1
       /\ UNCHANGED <<mode, rows, next, cl>>

(* The element of S that exactly k others precede, 0 when there is none.   *)
After(S, k) == IF k >= Cardinality(S) THEN 0
               ELSE CHOOSE x \in S : Cardinality({y \in S : y < x}) = k

(* The element of S that exactly k others follow, 0 when there is none.    *)
FromEnd(S, k) == IF k >= Cardinality(S) THEN 0
                 ELSE CHOOSE x \in S : Cardinality({y \in S : y > x}) = k

(* deleteByCount: OFFSET save_count from the newest row; deleteByDays.  A  *)
(* mutant is off by one.                                                   *)
OneTooOld == IF mode = "count" THEN FromEnd(rows, Save - 1) ELSE aged + 1
LastToDelete == IF mode = "count" THEN FromEnd(rows, Save) ELSE aged

Count(c) ==
  LET n == Cardinality({r \in rows : r <= LastToDelete}) IN
  /\ cl[c].pc = "idle"
  /\ n > 0
  /\ cl' = [cl EXCEPT ![c] = [Idle EXCEPT !.pc = "pick", !.count = n, !.i = 1]]
  /\ UNCHANGED <<mode, rows, next, aged>>

Loops(count) == (count + Each - 1) \div Each

(* The size of batch i; a mutant that takes only whole batches. *)
WholeBatch(count, i) == Each
Offset(count, i) == IF count % Each > 0 /\ i = Loops(count) THEN count % Each
                    ELSE Each

(* The first row that stays; without one the loop breaks. *)
Pick(c) ==
  LET cut == After(rows, Offset(cl[c].count, cl[c].i)) IN
  /\ cl[c].pc = "pick"
  /\ cl' = [cl EXCEPT ![c].pc = IF cut = 0 THEN "done" ELSE "delete",
                      ![c].cut = cut]
  /\ UNCHANGED <<mode, rows, next, aged>>

Delete(c) ==
  LET gone == {r \in rows : r < cl[c].cut} IN
  /\ cl[c].pc = "delete"
  /\ rows' = rows \ gone
  /\ cl' = [cl EXCEPT ![c].pc = IF cl[c].i = Loops(cl[c].count) THEN "done" ELSE "pick",
                      ![c].i = @ + 1,
                      ![c].deleted = @ + Cardinality(gone)]
  /\ UNCHANGED <<mode, next, aged>>

Return(c) == /\ cl[c].pc = "done"
             /\ cl' = [cl EXCEPT ![c] = Idle]
             /\ UNCHANGED <<mode, rows, next, aged>>

Next == Insert \/ Age \/ \E c \in Cleaners : Count(c) \/ Pick(c) \/ Delete(c) \/ Return(c)

Spec == Init /\ [][Next]_vars

-----------------------------------------------------------------------------
(* A row that the save tag no longer covers. *)
Expired(r) == IF mode = "count" THEN Cardinality({q \in rows : q > r}) >= Save
              ELSE r <= aged

(* "days: save days; count: save rows count": no row is deleted that the   *)
(* tag covers at that moment, although the count was taken long before.    *)
OnlyExpired == [][\A r \in rows \ rows' : Expired(r)]_vars

(* "count: count of delete rows": a call of BatchDeleteFromTop deletes as  *)
(* many rows as it was told.                                               *)
DeletesCount == \A c \in Cleaners : cl[c].pc = "done" => cl[c].deleted = cl[c].count

(* It does, whatever was inserted since the count, unless its last batch   *)
(* would have emptied the table, which the save tag "count" never asks.    *)
DeletesUnlessAll ==
  \A c \in Cleaners :
    cl[c].pc = "done" => \/ cl[c].deleted = cl[c].count
                         \/ mode = "days" /\ cl[c].cut = 0
=============================================================================
