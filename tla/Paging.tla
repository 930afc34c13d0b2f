------------------------------- MODULE Paging -------------------------------
(***************************************************************************)
(* A client that walks through the pages of FindResultWithModel            *)
(* (mdb/curd.go, with FindRecordsWithDB of mdb/finds.go) while records are *)
(* created, changed and deleted.  Every page is two statements, a count    *)
(* and a select, in no transaction.  The destination is no struct, so the  *)
(* query cache has no part in it.                                          *)
(*                                                                         *)
(* Only the records that satisfy the condition are modelled: an update may *)
(* let one in or out.                                                      *)
(***************************************************************************)
EXTENDS Integers, Sequences, FiniteSets, SequencesExt

CONSTANTS
  MaxId,        (* the records ever created, a bound                       *)
  Sizes,        (* the page sizes asked for                                *)
  Indexes,      (* the pages a client begins with                          *)
  DefaultSize,  (* defaultPageSize                                         *)
  MaxSize,      (* maxPageSize                                             *)
  MaxInt        (* the largest int; they are -MaxInt-1..MaxInt             *)

(* A table has no more rows than an int counts. *)
PagingConstants == /\ MaxId \in Nat /\ MaxInt \in Nat /\ MaxId <= MaxInt
                   /\ Sizes \subseteq Int /\ Indexes \subseteq Int
                   /\ MaxSize \in Nat /\ DefaultSize \in 1..MaxSize

VARIABLES
  recs,   (* the records: [id, grade]                                      *)
  newest, (* the last id given                                             *)
  walk,   (* the client: [pc, order, size, first, index, pages]            *)
  read,   (* the ids it has read, in order                                 *)
  stayed, (* those that were there all the time (history)                  *)
  moved,  (* "in", "out": records that came and went in the order since    *)
          (* the walk began (history)                                      *)
  torn    (* one came between the last count and its select (history)      *)

pagingVars == <<recs, newest, walk, read, stayed, moved, torn>>

Grades == {1, 2}
Orders == {"desc", "id", "grade"}   (* "id DESC" is the default *)

Ids == {x.id : x \in recs}

NoWalk == [pc |-> "idle", order |-> "id", size |-> 1, first |-> 1, index |-> 1, pages |-> 0]

Init == /\ recs = {} /\ newest = 0
        /\ walk = NoWalk
        /\ read = <<>>
        /\ stayed = {} /\ moved = {} /\ torn = FALSE

-----------------------------------------------------------------------------
(* What an ORDER BY can return; records of one grade come in any order.    *)
Before(order, x, y) ==
  CASE order = "desc"  -> x.id > y.id
    [] order = "id"    -> x.id < y.id
    [] order = "grade" -> x.grade < y.grade

Sorted(order) ==
  {s \in SetToSeqs(recs) : \A i, j \in DOMAIN s : i < j => ~Before(order, s[j], s[i])}

(* prepareTx *)
PageSize(n) == IF n <= 0 THEN DefaultSize ELSE IF n > MaxSize THEN MaxSize ELSE n

(* The number of pages; a mutant forgets the last one. *)
FullPages(total, size) == total \div size
Pages(total, size) == (total \div size) + (IF total % size > 0 THEN 1 ELSE 0)

Wrapped(n) == ((n + MaxInt + 1) % (2 * (MaxInt + 1))) - (MaxInt + 1)

(* The rows to skip, which gorm leaves out when they are not positive; a   *)
(* mutant skips a page too many.                                           *)
SkipsOneMore(index, size) == Wrapped(index * size)
Offset(index, size) == Wrapped((index - 1) * size)

Page(s, index, size) ==
  LET from == IF index > 1 /\ Offset(index, size) > 0 THEN Offset(index, size) ELSE 0
  IN  SubSeq(s, from + 1, IF from + size < Len(s) THEN from + size ELSE Len(s))

-----------------------------------------------------------------------------
Begins(order, n, i) ==
  /\ walk.pc = "idle"
  /\ walk' = [pc |-> "count", order |-> order, size |-> PageSize(n), first |-> i,
              index |-> IF i > 1 THEN i ELSE 1, pages |-> 0]
  /\ stayed' = Ids
  /\ read' = <<>> /\ moved' = {} /\ torn' = FALSE
  /\ UNCHANGED <<recs, newest>>

Count ==
  /\ walk.pc = "count"
  /\ walk' = [walk EXCEPT !.pc = "select", !.pages = Pages(Cardinality(recs), walk.size)]
  /\ torn' = FALSE
  /\ UNCHANGED <<recs, newest, read, stayed, moved>>

(* FindRecordsWithDB: the ids of the page, joined with their records, in   *)
(* one statement.  The client asks for the next page while there are any.  *)
Select ==
  /\ walk.pc = "select"
  /\ \E s \in Sorted(walk.order) :
       read' = read \o [i \in DOMAIN Page(s, walk.index, walk.size) |->
                          Page(s, walk.index, walk.size)[i].id]
  /\ walk' = IF walk.index < walk.pages
             THEN [walk EXCEPT !.pc = "count", !.index = @ + 1]
             ELSE [walk EXCEPT !.pc = "over"]
  /\ UNCHANGED <<recs, newest, stayed, moved, torn>>

(* An error of the database or of ResultAfterFind, or the client has what  *)
(* it wants.                                                               *)
Leaves ==
  /\ walk.pc # "idle"
  /\ walk' = NoWalk
  /\ read' = <<>> /\ stayed' = {} /\ moved' = {} /\ torn' = FALSE
  /\ UNCHANGED <<recs, newest>>

-----------------------------------------------------------------------------
Moves(what) == moved' = IF walk.pc # "idle" THEN moved \cup what ELSE moved

ComesIn(x) ==
  /\ recs' = recs \cup {x}
  /\ Moves({"in"})
  /\ torn' = (torn \/ walk.pc = "select")

(* CurdParams.Create *)
Create(grade) ==
  /\ newest < MaxId
  /\ newest' = newest + 1
  /\ ComesIn([id |-> newest + 1, grade |-> grade])
  /\ UNCHANGED <<walk, read, stayed>>

(* CurdParams.Update, into the condition, out of it, or of the grade. *)
UpdateIn(i, grade) ==
  /\ i \in 1..newest /\ i \notin Ids
  /\ ComesIn([id |-> i, grade |-> grade])
  /\ UNCHANGED <<newest, walk, read, stayed>>

(* CurdParams.Delete, too. *)
GoesOut(x) ==
  /\ recs' = recs \ {x}
  /\ stayed' = stayed \ {x.id}
  /\ Moves({"out"})
  /\ UNCHANGED <<newest, walk, read, torn>>

UpdateGrade(x, grade) ==
  /\ grade # x.grade
  /\ recs' = (recs \ {x}) \cup {[x EXCEPT !.grade = grade]}
  /\ Moves(IF walk.order = "grade" THEN {"in", "out"} ELSE {})
  /\ UNCHANGED <<newest, walk, read, stayed, torn>>

Reads == \/ Count \/ Select \/ Leaves
         \/ \E o \in Orders, n \in Sizes, i \in Indexes : Begins(o, n, i)

Writes == \/ \E g \in Grades : \/ Create(g)
                               \/ \E i \in 1..MaxId : UpdateIn(i, g)
                               \/ \E x \in recs : UpdateGrade(x, g)
          \/ \E x \in recs : GoesOut(x)

Next == Reads \/ Writes

Spec == Init /\ [][Next]_pagingVars

-----------------------------------------------------------------------------
TypeOK ==
  /\ \A x \in recs : x.id \in 1..newest /\ x.grade \in Grades
  /\ newest \in 0..MaxId
  /\ walk.pc \in {"idle", "count", "select", "over"} /\ walk.order \in Orders
  /\ walk.size \in 1..MaxSize /\ walk.pages \in Nat
  /\ ToSet(read) \subseteq 1..newest /\ stayed \subseteq Ids
  /\ moved \subseteq {"in", "out"} /\ torn \in BOOLEAN

Total == walk.order # "grade"
Whole == walk.pc = "over" /\ walk.first <= 1

(* A walk through all pages reads every record that was there all the      *)
(* time, unless one went out before it, one came in between the last count *)
(* and its select, or the order has ties.                                  *)
MeetsAll == (Whole /\ Total /\ "out" \notin moved /\ ~torn) => stayed \subseteq ToSet(read)

(* It reads none twice, unless one came in or the order has ties.          *)
NoneTwice == (Total /\ "in" \notin moved) => Cardinality(ToSet(read)) = Len(read)

(* While nothing moves, a walk reads as many as there are, in their order. *)
InOrder == (Whole /\ moved = {}) =>
             /\ Len(read) = Cardinality(recs)
             /\ Total => \E s \in Sorted(walk.order) : read = [i \in DOMAIN s |-> s[i].id]

(* While nothing moves, a page behind the last is empty, unless its offset *)
(* is too large for an int.                                                *)
EmptyBehind ==
  (walk.pc = "over" /\ walk.first > walk.pages /\ walk.first > 1 /\ moved = {})
    => read = <<>> \/ (walk.first - 1) * walk.size > MaxInt

PagesMeetAll == MeetsAll /\ NoneTwice /\ InOrder /\ EmptyBehind
=============================================================================
