----------------------------- MODULE CacheKeys ------------------------------
(***************************************************************************)
(* Which cache entry a statement of mdb/gm2c.go uses: the WHERE conditions *)
(* are scanned for the primary key, and a key that was found replaces the  *)
(* statement's SQL text as the name of the entry.  One caller runs queries *)
(* and writes one after the other, so every wrong answer here is a matter  *)
(* of names, not of interleavings (QueryCache has those).                  *)
(***************************************************************************)
EXTENDS Naturals, Sequences, SequencesExt, FiniteSetsExt

CONSTANTS
  MaxId,     (* the primary keys are 1..MaxId                              *)
  Clauses,   (* the WHERE clauses in use: sequences of conditions          *)
  Absent,    (* no row; the cached "null"                                  *)
  Miss       (* no entry                                                   *)

Ids == 1..MaxId

(* A condition compares the primary key with a value, or is anything else; *)
(* the other condition selects the rows whose flag is set.                 *)
Condition == [kind : {"pk"}, id : Ids] \cup [kind : {"flag"}, id : {0}]

Rows == [id : Ids, flag : BOOLEAN]

(* No id and no row is Absent or Miss.                                     *)
KeysConstants == /\ MaxId \in Nat /\ Clauses \subseteq Seq(Condition)
                 /\ Absent # Miss /\ {Absent, Miss} \cap (Ids \cup Rows) = {}

VARIABLES
  db,     (* db[i]: Absent, or the row with its flag                       *)
  pkc,    (* pkc[k]: the entry of primary key k; 0 is the key with an      *)
          (* empty id, "p:table" and the separator                         *)
  search, (* search[c]: the entry of the SQL text of clause c              *)
  asked,  (* the clause of the last query                                  *)
  got     (* its answer                                                    *)

vars == <<db, pkc, search, asked, got>>

(* clauseFindPrimaryCacheKey: the id of a condition, 0 for the empty string. *)
ClauseKey(c) == IF c.kind = "pk" THEN c.id ELSE 0

KeysFound(cl) == {ClauseKey(cl[i]) : i \in DOMAIN cl} \ {0}

NoKey == MaxId + 1

(* findPrimaryCacheKey(stm, justHas): with justHas the first key found,    *)
(* otherwise the one key found, spelled with what the last condition gave. *)
(* The mutant accepts several keys.                                        *)
AcceptsSeveral(cl) ==
  IF KeysFound(cl) = {} THEN NoKey ELSE ClauseKey(Last(cl))
QueryKey(cl) ==
  IF Cardinality(KeysFound(cl)) # 1 THEN NoKey ELSE ClauseKey(Last(cl))

WriteKey(cl) ==
  LET hits == {j \in DOMAIN cl : ClauseKey(cl[j]) # 0}
  IN  IF hits = {} THEN NoKey ELSE ClauseKey(cl[Min(hits)])

Holds(c, row) == IF c.kind = "pk" THEN row.id = c.id ELSE row.flag

(* The database's answer: the first row that satisfies every condition. *)
Satisfying(cl, d) == {i \in Ids : d[i] # Absent /\ \A j \in DOMAIN cl : Holds(cl[j], d[i])}
DbAnswer(cl, d) == IF Satisfying(cl, d) = {} THEN Absent
                   ELSE d[Min(Satisfying(cl, d))]

Init == /\ db \in [Ids -> {Absent} \cup Rows]
        /\ \A i \in Ids : db[i] # Absent => db[i].id = i
        /\ pkc = [k \in 0..MaxId |-> Miss]
        /\ search = [c \in Clauses |-> Miss]
        /\ asked = <<>>
        /\ got = DbAnswer(<<>>, db)

Reply(cl, row) == asked' = cl /\ got' = row

(* getCache and setCache under a primary key. *)
QueryByKey(cl) ==
  LET k == QueryKey(cl) IN
  /\ k # NoKey
  /\ IF pkc[k] # Miss
     THEN Reply(cl, pkc[k]) /\ UNCHANGED pkc
     ELSE /\ Reply(cl, DbAnswer(cl, db))
          /\ pkc' = [pkc EXCEPT ![k] = DbAnswer(cl, db)]
  /\ UNCHANGED <<db, search>>

(* What an SQL text's entry holds; a mutant that forgets the null value.   *)
NullForgotten(row) == IF row = Absent THEN 0 ELSE row.id
SearchEntry(row) == IF row = Absent THEN Absent ELSE row.id

(* getCache and setCache under the SQL text: the entry names a row, whose  *)
(* own entry is used or filled.                                            *)
QueryBySearch(cl) ==
  LET row == DbAnswer(cl, db) IN
  /\ QueryKey(cl) = NoKey
  /\ IF search[cl] = Absent
     THEN Reply(cl, Absent) /\ UNCHANGED <<pkc, search>>
     ELSE IF search[cl] # Miss /\ pkc[search[cl]] # Miss
     THEN Reply(cl, pkc[search[cl]]) /\ UNCHANGED <<pkc, search>>
     ELSE /\ Reply(cl, row)
          /\ search' = [search EXCEPT ![cl] = SearchEntry(row)]
          /\ pkc' = IF row = Absent THEN pkc ELSE [pkc EXCEPT ![row.id] = row]
  /\ UNCHANGED db

(* What afterDelete leaves of the entries: those of its key, of the row    *)
(* the statement's model carries when no condition names one, or of the    *)
(* whole table.  The mutant trusts the model's row first.                  *)
ModelFirst(cl, model) ==
  IF model # 0 THEN [pkc EXCEPT ![model] = Miss]
  ELSE [k \in 0..MaxId |-> Miss]
EntriesLeft(cl, model) ==
  IF WriteKey(cl) # NoKey THEN [pkc EXCEPT ![WriteKey(cl)] = Miss]
  ELSE IF model # 0 THEN [pkc EXCEPT ![model] = Miss]
  ELSE [k \in 0..MaxId |-> Miss]

(* An update of every row the clause selects, of the flag or a deletion.   *)
(* gorm adds the condition id = model to the clause of a model that has    *)
(* one; model 0 is a model without an id.                                  *)
Write(cl, model, flag) ==
  LET where == IF model = 0 THEN cl ELSE Append(cl, [kind |-> "pk", id |-> model])
      hit   == Satisfying(where, db)
      new   == [i \in Ids |-> IF i \notin hit THEN db[i]
                              ELSE IF flag = Absent THEN Absent
                              ELSE [id |-> i, flag |-> flag]]
  IN
  /\ db' = new
  /\ pkc' = EntriesLeft(where, model)
  /\ search' = [c \in Clauses |-> Miss]
  /\ Reply(<<>>, DbAnswer(<<>>, new))

Next == \E cl \in Clauses :
          \/ QueryByKey(cl)
          \/ QueryBySearch(cl)
          \/ \E model \in Ids \cup {0}, flag \in BOOLEAN \cup {Absent} :
               Write(cl, model, flag)

Spec == Init /\ [][Next]_vars

-----------------------------------------------------------------------------
TypeOK == /\ db \in [Ids -> Rows \cup {Absent}]
          /\ pkc \in [0..MaxId -> Rows \cup {Absent, Miss}]
          /\ search \in [Clauses -> Ids \cup {Absent, Miss}]
          /\ asked \in Clauses \cup {<<>>}
          /\ got \in Rows \cup {Absent}

(* Whoever asks gets a row that satisfies all the conditions of the query, *)
(* or hears that there is none: the answer of the database, in spite of    *)
(* all the entries that other queries and writes have left behind.  "must  *)
(* all conditions be primary key?" is what the comments of                 *)
(* findPrimaryCacheKey ask for.                                            *)
AnswersOwnQuery == got = DbAnswer(asked, db)
=============================================================================
