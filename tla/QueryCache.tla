----------------------------- MODULE QueryCache -----------------------------
(***************************************************************************)
(* The gorm query cache of mdb/gm2c.go: one table, its rows, the cache     *)
(* entries of the plugin and the goroutines that query and write through   *)
(* it.  A query by primary key has one entry, the row itself; any other    *)
(* query of one row has a search entry, which holds a primary key, and is  *)
(* answered from that key's entry.  Equal SQL texts share one execution    *)
(* (singleflight).  After each write the plugin drops the search entries   *)
(* of the table and the entry of the key: inside the transaction when the  *)
(* caller opened it (mdb/curd.go), after the commit when gorm did.         *)
(*                                                                         *)
(* gorm and the database are external: a transaction shows its writes to   *)
(* the others when it commits, and writers of one row exclude each other.  *)
(***************************************************************************)
EXTENDS Naturals, FiniteSets

CONSTANTS
  Ids,       (* the primary keys, numbers: a search returns the first      *)
  Vals,      (* what a row can contain                                     *)
  Matching,  (* the contents the search condition selects                  *)
  Readers,   (* the goroutines that query                                  *)
  Writers,   (* the goroutines that write                                  *)
  Queries,   (* the queries they issue, a set of Query                     *)
  MaxTx,     (* bound on the number of transactions                        *)
  Absent,    (* no such row; also the cached "null"                        *)
  Zero,      (* the zero struct: what Dest holds when nothing was scanned  *)
  Miss,      (* no cache entry                                             *)
  Failed     (* a query that ends with a database error                    *)

(* id = 0 is the search query.  raise: First and Take report a missing     *)
(* row as ErrRecordNotFound, Find leaves Dest as it was.                   *)
Query == [id : Ids \cup {0}, raise : BOOLEAN]

ASSUME CacheAssumption ==
  /\ Ids \subseteq Nat \ {0}
  /\ IsFiniteSet(Ids)
  /\ Queries \subseteq Query
  /\ Matching \subseteq Vals
  /\ MaxTx \in Nat
  /\ {Absent, Zero, Miss, Failed} \cap Vals = {}
  /\ Absent \notin {Zero, Miss, Failed} /\ Zero \notin {Miss, Failed} /\ Miss # Failed
  /\ {Absent, Miss} \cap Ids = {}
  /\ Miss \notin Readers

VARIABLES
  db,      (* db[id]: the committed row                                    *)
  pkc,     (* pkc[id]: the entry under primaryCacheKey(id)                 *)
  sc,      (* the entry under searchCacheKey                               *)
  rd,      (* rd[r]: a reader                                              *)
  flight,  (* flight[q]: the reader that executes q for all, or Miss       *)
  tx,      (* tx[w]: a writer's transaction                                *)
  txs,     (* the number of transactions begun                             *)
  taintPk, (* taintPk[id]: the entry was filled while a transaction ran    *)
  taintSc  (* the same of the search entry (history)                       *)

cacheVars == <<pkc, sc, taintPk, taintSc>>
txVars == <<db, tx, txs>>
vars == <<cacheVars, txVars, rd, flight>>

Row == Vals \cup {Absent}

NoQuery == [id |-> 0, raise |-> FALSE]

ReaderPC == {"idle", "search", "pk", "read", "setSearch", "setPk", "follow",
             "done"}

WriterPC == {"idle", "dropSearch", "dropPk", "commit"}

IdleReader == [pc |-> "idle", q |-> NoQuery, key |-> 0, got |-> Miss,
               taint |-> FALSE, fillTaint |-> FALSE]

IdleWriter == [pc |-> "idle", id |-> 0, val |-> Miss, drop |-> {},
               own |-> FALSE, committed |-> FALSE]

Init == /\ db = [i \in Ids |-> Absent]
        /\ pkc = [i \in Ids |-> Miss]
        /\ sc = Miss
        /\ rd = [r \in Readers |-> IdleReader]
        /\ flight = [q \in Queries |-> Miss]
        /\ tx = [w \in Writers |-> IdleWriter]
        /\ txs = 0
        /\ taintPk = [i \in Ids |-> FALSE]
        /\ taintSc = FALSE

(* The first row that the search condition selects, 0 when there is none. *)
Selected(d) ==
  LET hits == {i \in Ids : d[i] \in Matching}
  IN  IF hits = {} THEN 0 ELSE CHOOSE i \in hits : \A j \in hits : i <= j

RowOf(d, i) == IF i = 0 THEN Absent ELSE d[i]

(* What the database answers. *)
Answer(q, d) == RowOf(d, IF q.id = 0 THEN Selected(d) ELSE q.id)

Writing == \E w \in Writers : tx[w].pc # "idle"

-----------------------------------------------------------------------------
(* query, queryWithCache and getCache.                                     *)

RdTo(r, pc) == [rd EXCEPT ![r].pc = pc]

RdDone(r, got, taint) == [rd EXCEPT ![r].pc = "done", ![r].got = got,
                                    ![r].taint = @ \/ taint, ![r].key = 0,
                                    ![r].fillTaint = FALSE]

(* Somebody executes the same SQL already; a mutant that never looks. *)
NeverJoins(q) == FALSE
Joins(q) == flight[q] # Miss

(* localSingleFlight.Do: the first one executes, the others wait for it. *)
Start(r, q) ==
  /\ rd[r].pc = "idle"
  /\ IF ~Joins(q)
     THEN /\ flight' = [flight EXCEPT ![q] = r]
          /\ rd' = [rd EXCEPT ![r] =
                      [IdleReader EXCEPT !.pc = IF q.id = 0 THEN "search" ELSE "pk",
                                         !.q = q, !.key = q.id,
                                         !.taint = Writing]]
     ELSE /\ UNCHANGED flight
          /\ rd' = [rd EXCEPT ![r] =
                      [IdleReader EXCEPT !.pc = "follow", !.q = q,
                                         !.taint = Writing]]
  /\ UNCHANGED <<cacheVars, txVars>>

(* queryCacheSearch: null answers the query, a key leads to its entry. *)
LookupSearch(r) ==
  /\ rd[r].pc = "search"
  /\ rd' = IF sc = Miss THEN RdTo(r, "read")
           ELSE IF sc = Absent
           THEN RdDone(r, Absent, taintSc)
           ELSE [rd EXCEPT ![r].pc = "pk", ![r].key = sc,
                           ![r].taint = @ \/ taintSc]
  /\ UNCHANGED <<cacheVars, txVars, flight>>

(* queryCachePk *)
LookupPk(r) ==
  LET i == rd[r].key IN
  /\ rd[r].pc = "pk"
  /\ rd' = IF pkc[i] = Miss THEN RdTo(r, "read")
           ELSE RdDone(r, pkc[i], taintPk[i])
  /\ UNCHANGED <<cacheVars, txVars, flight>>

(* callbacks.Query: the statement's own answer.  A statement that found    *)
(* nothing or failed leaves Dest zero.                                     *)
ReadDb(r) ==
  LET q == rd[r].q
      i == IF q.id = 0 THEN Selected(db) ELSE q.id
      missing == RowOf(db, i) = Absent
  IN
  /\ rd[r].pc = "read"
  /\ rd' = [rd EXCEPT ![r].pc = IF q.id = 0 THEN "setSearch" ELSE "setPk",
                      ![r].key = IF missing /\ q.id = 0 THEN 0 ELSE i,
                      ![r].got = IF missing /\ ~q.raise THEN Zero
                                 ELSE RowOf(db, i),
                      ![r].fillTaint = Writing]
  /\ UNCHANGED <<cacheVars, txVars, flight>>

(* callbacks.Query fails; setCache is called all the same. *)
ReadFails(r) ==
  /\ rd[r].pc = "read"
  /\ rd' = [rd EXCEPT ![r].pc = IF rd[r].q.id = 0 THEN "setSearch" ELSE "setPk",
                      ![r].key = rd[r].q.id,
                      ![r].got = Failed,
                      ![r].fillTaint = Writing]
  /\ UNCHANGED <<cacheVars, txVars, flight>>

(* setCache, the search entry: null for a missing row, the key of the row, *)
(* or nothing when Dest has no key.                                        *)
SetSearch(r) ==
  /\ rd[r].pc = "setSearch"
  /\ IF rd[r].got = Absent
     THEN sc' = Absent /\ taintSc' = rd[r].fillTaint /\ rd' = RdDone(r, rd[r].got, FALSE)
     ELSE IF rd[r].key = 0
     THEN rd' = RdDone(r, rd[r].got, FALSE) /\ UNCHANGED <<sc, taintSc>>
     ELSE sc' = rd[r].key /\ taintSc' = rd[r].fillTaint /\ rd' = RdTo(r, "setPk")
  /\ UNCHANGED <<pkc, taintPk, txVars, flight>>

(* What is stored under a primary key: an error is not looked at, so Dest  *)
(* is stored, zero as it is; a mutant that stores the error.               *)
StoredError(got) == got
Stored(got) == IF got = Failed THEN Zero ELSE got

(* setCache, the entry of the key. *)
SetPk(r) ==
  LET i == rd[r].key IN
  /\ rd[r].pc = "setPk"
  /\ pkc' = [pkc EXCEPT ![i] = Stored(rd[r].got)]
  /\ taintPk' = [taintPk EXCEPT ![i] = rd[r].fillTaint]
  /\ rd' = RdDone(r, rd[r].got, FALSE)
  /\ UNCHANGED <<sc, taintSc, txVars, flight>>

(* Those who wait for r's flight; a mutant that forgets them. *)
Forgotten(r) == {}
Followers(r) == {f \in Readers : rd[f].pc = "follow" /\ rd[f].q = rd[r].q}

(* The flight lands: every follower gets the leader's answer. *)
Finish(r) ==
  LET q == rd[r].q IN
  /\ rd[r].pc = "done"
  /\ IF flight[q] = r
     THEN /\ flight' = [flight EXCEPT ![q] = Miss]
          /\ rd' = [f \in Readers |->
                      IF f = r THEN IdleReader
                      ELSE IF f \in Followers(r)
                      THEN [rd[f] EXCEPT !.pc = "done", !.got = rd[r].got,
                                         !.taint = @ \/ rd[r].taint]
                      ELSE rd[f]]
     ELSE rd' = [rd EXCEPT ![r] = IdleReader] /\ UNCHANGED flight
  /\ UNCHANGED <<cacheVars, txVars>>

-----------------------------------------------------------------------------
(* Writers: a create, update or delete statement and afterDelete.          *)

(* The statement changes one row; own: the caller opened the transaction,  *)
(* so that the callback runs before the commit.  drop: the keys whose      *)
(* entries afterDelete drops, the row's or the whole table's.              *)
TxBegin(w, i, v, own, drop) ==
  /\ tx[w].pc = "idle"
  /\ txs < MaxTx
  /\ \A x \in Writers : tx[x].id = i => tx[x].committed
  /\ txs' = txs + 1
  /\ tx' = [tx EXCEPT ![w] = [pc |-> IF own THEN "dropSearch" ELSE "commit",
                              id |-> i, val |-> v, drop |-> drop, own |-> own,
                              committed |-> FALSE]]
  /\ rd' = [r \in Readers |->
              IF rd[r].pc = "idle" THEN rd[r]
              ELSE [rd[r] EXCEPT !.taint = TRUE, !.fillTaint = TRUE]]
  /\ UNCHANGED <<cacheVars, db, flight>>

(* DropPrefix(searchKeyPrefix); a mutant that keeps them. *)
SearchKept == sc
SearchDropped == Miss

DropSearch(w) ==
  /\ tx[w].pc = "dropSearch"
  /\ sc' = SearchDropped
  /\ taintSc' = (taintSc /\ sc' # Miss)
  /\ tx' = [tx EXCEPT ![w].pc = "dropPk"]
  /\ UNCHANGED <<pkc, taintPk, db, txs, rd, flight>>

(* Del(pk) or DropPrefix(primaryKeyPrefix); a mutant that drops nothing. *)
PkKept(drop) == pkc
PkDropped(drop) == [i \in Ids |-> IF i \in drop THEN Miss ELSE pkc[i]]

TaintLeft == [i \in Ids |-> taintPk[i] /\ pkc'[i] # Miss]

DropPk(w) ==
  /\ tx[w].pc = "dropPk"
  /\ pkc' = PkDropped(tx[w].drop)
  /\ taintPk' = TaintLeft
  /\ tx' = [tx EXCEPT ![w] = IF tx[w].own
                             THEN [@ EXCEPT !.pc = "commit", !.drop = {}]
                             ELSE IdleWriter]
  /\ UNCHANGED <<sc, taintSc, db, txs, rd, flight>>

(* The commit, or a rollback: the callback runs in both cases. *)
EndTx(w) ==
  /\ tx[w].pc = "commit"
  /\ db' \in {db, [db EXCEPT ![tx[w].id] = tx[w].val]}
  /\ tx' = [tx EXCEPT ![w] = IF tx[w].own THEN IdleWriter
                             ELSE [@ EXCEPT !.pc = "dropSearch", !.val = Miss,
                                            !.committed = TRUE]]
  /\ UNCHANGED <<cacheVars, txs, rd, flight>>

-----------------------------------------------------------------------------
(* TTL: an entry expires. *)
ExpireSearch == /\ sc # Miss
                /\ sc' = Miss
                /\ taintSc' = FALSE
                /\ UNCHANGED <<pkc, taintPk, txVars, rd, flight>>

(* A mutant of ExpirePk: entries without a TTL. *)
NoTTL(i) == FALSE

ExpirePk(i) == /\ pkc[i] # Miss
               /\ pkc' = [pkc EXCEPT ![i] = Miss]
               /\ taintPk' = TaintLeft
               /\ UNCHANGED <<sc, taintSc, txVars, rd, flight>>

ReadStep(r) == \/ LookupSearch(r) \/ LookupPk(r) \/ ReadDb(r) \/ ReadFails(r)
               \/ SetSearch(r) \/ SetPk(r) \/ Finish(r)

TxStep(w) == DropSearch(w) \/ DropPk(w) \/ EndTx(w)

Next == \/ \E r \in Readers : (\E q \in Queries : Start(r, q)) \/ ReadStep(r)
        \/ \E w \in Writers :
             \/ \E i \in Ids, v \in Row, own \in BOOLEAN :
                  \E drop \in {{i}, Ids} : TxBegin(w, i, v, own, drop)
             \/ TxStep(w)
        \/ ExpireSearch
        \/ \E i \in Ids : ExpirePk(i)

Spec == Init /\ [][Next]_vars

(* Goroutines run, the database answers, and a TTL passes. *)
LiveSpec == /\ Spec
            /\ \A r \in Readers : WF_vars(ReadStep(r))
            /\ \A w \in Writers : WF_vars(TxStep(w))
            /\ WF_vars(ExpireSearch)
            /\ \A i \in Ids : WF_vars(ExpirePk(i))

-----------------------------------------------------------------------------
TypeOK ==
  /\ db \in [Ids -> Row]
  /\ pkc \in [Ids -> Row \cup {Miss, Zero}]
  /\ sc \in Ids \cup {Miss, Absent}
  /\ rd \in [Readers -> [pc : ReaderPC, q : Query, key : Ids \cup {0},
                         got : Row \cup {Miss, Zero, Failed},
                         taint : BOOLEAN, fillTaint : BOOLEAN]]
  /\ flight \in [Queries -> Readers \cup {Miss}]
  /\ tx \in [Writers -> [pc : WriterPC, id : Ids \cup {0}, val : Row \cup {Miss},
                         drop : SUBSET Ids, own : BOOLEAN, committed : BOOLEAN]]
  /\ txs \in 0..MaxTx
  /\ taintPk \in [Ids -> BOOLEAN]
  /\ taintSc \in BOOLEAN

(* A row's entry differs from the committed row only if the fill overlapped *)
(* a transaction, or a transaction that gorm opened has committed and not   *)
(* yet dropped the entry, or a failed or empty statement stored the zero    *)
(* struct.  Everything else the invalidation catches.                       *)
RowsFresh ==
  \A i \in Ids :
    \/ pkc[i] \in {Miss, Zero, db[i]}
    \/ taintPk[i]
    \/ \E w \in Writers : tx[w].committed /\ tx[w].id = i

(* The same of the key a search leads to. *)
SearchFresh ==
  \/ sc = Miss
  \/ taintSc
  \/ \E w \in Writers : tx[w].committed /\ tx[w].pc = "dropSearch"
  \/ Selected(db) = (IF sc = Absent THEN 0 ELSE sc)

(* The entries of the table, whatever their fill met on the way.            *)
EntriesFresh == TypeOK /\ RowsFresh /\ SearchFresh

(* A query no transaction overlapped, which met no tainted entry, returns  *)
(* what the database holds, or the zero struct, or the error.              *)
QuietAnswers ==
  \A r \in Readers :
    (rd[r].pc = "done" /\ ~rd[r].taint)
      => rd[r].got \in {Zero, Failed, Answer(rd[r].q, db)}

(* Singleflight: a query under way has exactly one executor, the reader    *)
(* the flight names, and everybody else who asks the same waits for it.    *)
OneFlight ==
  \A q \in Queries :
    LET at == {r \in Readers : rd[r].q = q /\ rd[r].pc \notin {"idle", "done"}}
    IN  \A r \in at : rd[r].pc = "follow" <=> flight[q] # r

(* Nobody waits for ever for the answer of a flight. *)
Answered == \A r \in Readers : rd[r].pc # "idle" ~> rd[r].pc = "idle"

(* With a TTL staleness ends: once the transactions are over, the cache    *)
(* agrees with the database from some time on.                             *)
EventuallyFresh ==
  <>[](\A i \in Ids : pkc[i] \in {Miss, Zero, db[i]})
=============================================================================
