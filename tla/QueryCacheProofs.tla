-------------------------- MODULE QueryCacheProofs --------------------------
(***************************************************************************)
(* Proofs about QueryCache: what the entries and the answers may differ    *)
(* from the committed rows, and that a flight has one executor.  The       *)
(* argument: whatever overlapped a transaction is marked, so an unmarked   *)
(* fill or query was alone with the database, and a transaction the caller *)
(* opened has emptied the entries before it commits.                       *)
(***************************************************************************)
EXTENDS QueryCache, TLAPS, WellFoundedInduction

Executing == {"search", "pk", "read", "setSearch", "setPk"}

NoTx == \A w \in Writers : tx[w].pc = "idle"

(* Where a transaction is, and what it will drop. *)
TxShape ==
  \A w \in Writers :
    /\ tx[w].pc # "idle" => tx[w].id \in Ids
    /\ tx[w].pc # "idle" /\ ~tx[w].committed => tx[w].val \in Row
    /\ tx[w].committed <=> ~tx[w].own /\ tx[w].pc \in {"dropSearch", "dropPk"}
    /\ tx[w].pc \in {"dropSearch", "dropPk"} => tx[w].id \in tx[w].drop
    /\ tx[w].pc = "commit" /\ ~tx[w].own => tx[w].id \in tx[w].drop

(* The entries a transaction has dropped before its commit stay empty, or  *)
(* were filled by somebody it overlapped.                                  *)
OwnDropped ==
  \A w \in Writers :
    tx[w].own =>
      /\ tx[w].pc = "commit" => (pkc[tx[w].id] = Miss \/ taintPk[tx[w].id])
      /\ tx[w].pc \in {"dropPk", "commit"} => (sc = Miss \/ taintSc)

(* An unmarked query, or an unmarked fill, runs beside no transaction.     *)
Quiet(e) ==
  /\ e.pc # "idle" /\ ~e.taint => NoTx
  /\ e.pc \in {"setSearch", "setPk"} /\ ~e.fillTaint => NoTx

(* The key a query has found. *)
KeyFound(e) ==
  /\ e.pc \in {"search", "setSearch"} => e.q.id = 0
  /\ e.pc \in {"pk", "setPk"} => e.key \in Ids
  /\ e.pc = "pk" => IF e.q.id # 0 THEN e.key = e.q.id
                    ELSE e.taint \/ e.key = Selected(db)

(* An unmarked fill stores what the database holds. *)
FillFresh(e) ==
  ~e.fillTaint =>
    /\ e.pc = "setPk" => e.got \in {Zero, Failed, db[e.key]}
    /\ e.pc = "setSearch" =>
         IF e.got = Absent THEN Selected(db) = 0
         ELSE e.key # 0 => e.key = Selected(db) /\ e.got = db[e.key]

(* An unmarked query holds its answer from the statement on. *)
AnswerFresh(e) ==
  e.pc \in {"setSearch", "setPk", "done"} /\ ~e.taint =>
    e.got \in {Zero, Failed, Answer(e.q, db)}

ReaderRight(e) == Quiet(e) /\ KeyFound(e) /\ FillFresh(e) /\ AnswerFresh(e)

ReadersRight == \A r \in Readers : ReaderRight(rd[r])

(* A flight is led by one reader, until it has an answer. *)
Flights ==
  /\ \A r \in Readers :
       /\ rd[r].pc # "idle" => rd[r].q \in Queries
       /\ rd[r].pc \in Executing => flight[rd[r].q] = r
       /\ rd[r].pc = "follow" => flight[rd[r].q] \in Readers \ {r}
  /\ \A q \in Queries :
       LET r == flight[q] IN
       r # Miss => rd[r].q = q /\ rd[r].pc \in Executing \cup {"done"}

IInv == /\ TypeOK /\ TxShape /\ OwnDropped /\ RowsFresh /\ SearchFresh
        /\ ReadersRight /\ Flights

ReaderType == [pc : ReaderPC, q : Query, key : Ids \cup {0},
               got : Row \cup {Miss, Zero, Failed},
               taint : BOOLEAN, fillTaint : BOOLEAN]

WriterType == [pc : WriterPC, id : Ids \cup {0}, val : Row \cup {Miss},
               drop : SUBSET Ids, own : BOOLEAN, committed : BOOLEAN]

LEMMA IdleTypes == IdleReader \in ReaderType /\ IdleWriter \in WriterType
BY DEF IdleReader, IdleWriter, ReaderType, WriterType, ReaderPC, WriterPC,
       NoQuery, Query

-----------------------------------------------------------------------------
(* The first row a search finds: a row that matches, when there is one.    *)
LEMMA SmallestOf ==
  ASSUME NEW S, S \subseteq Nat, S # {}
  PROVE  \E i \in S : \A j \in S : i <= j
<1>1. PICK i \in S : \A j \in S : <<j, i>> \notin OpToRel(<, Nat)
  BY NatLessThanWellFounded, WFMin
<1>2. ASSUME NEW j \in S PROVE i <= j
  <2>1. i \in Nat /\ j \in Nat
    OBVIOUS
  <2>2. ~(j < i)
    BY <1>1, <2>1 DEF OpToRel
  <2>3. QED
    BY <2>1, <2>2
<1>3. QED
  BY <1>2

LEMMA SelectedIs ==
  ASSUME NEW d \in [Ids -> Row]
  PROVE  /\ Selected(d) \in Ids \cup {0}
         /\ Selected(d) # 0 => d[Selected(d)] # Absent
         /\ RowOf(d, Selected(d)) = Absent <=> Selected(d) = 0
<1> DEFINE hits == {i \in Ids : d[i] \in Matching}
<1>1. CASE hits = {}
  BY <1>1 DEF Selected, RowOf
<1>2. CASE hits # {}
  <2>1. \E i \in hits : \A j \in hits : i <= j
    BY <1>2, SmallestOf, CacheAssumption
  <2>2. Selected(d) \in hits
    BY <1>2, <2>1 DEF Selected
  <2>3. Selected(d) \in Ids /\ Selected(d) # 0 /\ d[Selected(d)] # Absent
    BY <2>2, CacheAssumption
  <2>4. QED
    BY <2>3 DEF RowOf
<1>3. QED
  BY <1>1, <1>2

-----------------------------------------------------------------------------
LEMMA InitIInv == Init => IInv
<1> SUFFICES ASSUME Init PROVE IInv
  OBVIOUS
<1>1. rd \in [Readers -> ReaderType] /\ tx \in [Writers -> WriterType]
  BY IdleTypes DEF Init
<1>2. TypeOK
  <2>1. txs \in 0..MaxTx
    BY CacheAssumption DEF Init
  <2>2. /\ db \in [Ids -> Row] /\ pkc \in [Ids -> Row \cup {Miss, Zero}]
        /\ sc \in Ids \cup {Miss, Absent}
        /\ flight \in [Queries -> Readers \cup {Miss}]
        /\ taintPk \in [Ids -> BOOLEAN] /\ taintSc \in BOOLEAN
    BY DEF Init, Row
  <2>3. QED
    BY <1>1, <2>1, <2>2 DEF TypeOK, ReaderType, WriterType
<1>3. TxShape /\ OwnDropped /\ RowsFresh /\ SearchFresh
  BY DEF Init, TxShape, OwnDropped, RowsFresh, SearchFresh, IdleWriter
<1>4. ReadersRight
  BY DEF Init, ReadersRight, ReaderRight, Quiet, KeyFound, FillFresh,
         AnswerFresh, IdleReader
<1>5. Flights
  BY DEF Init, Flights, IdleReader, Executing
<1>6. QED
  BY <1>2, <1>3, <1>4, <1>5 DEF IInv

-----------------------------------------------------------------------------
(* Steps of readers.                                                       *)

(* A reader alone goes on: what it takes with it has to be right. *)
LEMMA GoOn ==
  ASSUME IInv, NEW r \in Readers, NEW new \in ReaderType,
         rd' = [rd EXCEPT ![r] = new], UNCHANGED <<txVars, flight>>,
         rd[r].pc \in Executing, new.pc \in Executing \cup {"done"},
         new.q = rd[r].q, ReaderRight(new)
  PROVE  rd' \in [Readers -> ReaderType] /\ ReadersRight' /\ Flights'
<1>1. rd \in [Readers -> ReaderType]
  BY DEF IInv, TypeOK, ReaderType
<1>2. rd' \in [Readers -> ReaderType]
  BY <1>1
<1>3. ASSUME NEW x \in Readers PROVE ReaderRight(rd[x])'
  <2>1. ReaderRight(rd'[x])
    BY <1>1 DEF IInv, ReadersRight
  <2>2. QED
    BY <2>1 DEF ReaderRight, Quiet, KeyFound, FillFresh, AnswerFresh, NoTx,
                txVars, Answer, RowOf, Selected
<1>4. Flights'
  <2>1. ASSUME NEW x \in Readers
        PROVE  /\ rd'[x].pc # "idle" => rd'[x].q \in Queries
               /\ rd'[x].pc \in Executing => flight[rd'[x].q] = x
               /\ rd'[x].pc = "follow" => flight[rd'[x].q] \in Readers \ {x}
    BY <1>1 DEF IInv, Flights, Executing
  <2>2. ASSUME NEW q \in Queries, flight[q] # Miss
        PROVE  rd'[flight[q]].q = q /\ rd'[flight[q]].pc \in Executing \cup {"done"}
    BY <1>1, <2>2 DEF IInv, TypeOK, Flights, Executing
  <2>3. QED
    BY <2>1, <2>2 DEF Flights
<1>5. QED
  BY <1>2, <1>3, <1>4 DEF ReadersRight

(* A step that leaves the entries and the transactions alone. *)
LEMMA Untouched ==
  ASSUME IInv, UNCHANGED <<cacheVars, txVars>>
  PROVE  TxShape' /\ OwnDropped' /\ RowsFresh' /\ SearchFresh'
BY DEF IInv, cacheVars, txVars, TxShape, OwnDropped, RowsFresh, SearchFresh,
       Selected

LEMMA StartIInv ==
  ASSUME IInv, NEW r \in Readers, NEW q \in Queries, Start(r, q)
  PROVE  IInv'
<1> DEFINE new == [pc |-> IF Joins(q) THEN "follow"
                          ELSE IF q.id = 0 THEN "search" ELSE "pk",
                   q |-> q, key |-> IF Joins(q) THEN 0 ELSE q.id,
                   got |-> Miss, taint |-> Writing, fillTaint |-> FALSE]
<1>1. /\ rd \in [Readers -> ReaderType] /\ q \in Query /\ q.id \in Ids \cup {0}
      /\ flight \in [Queries -> Readers \cup {Miss}]
  BY CacheAssumption DEF IInv, TypeOK, ReaderType, Query
<1>2. rd' = [rd EXCEPT ![r] = new]
  BY DEF Start, IdleReader
<1>3. new \in ReaderType
  BY <1>1 DEF ReaderType, ReaderPC, Writing
<1>4. rd' \in [Readers -> ReaderType]
  BY <1>1, <1>2, <1>3
<1>5. UNCHANGED <<cacheVars, txVars>>
  BY DEF Start
<1>6. flight' = IF Joins(q) THEN flight ELSE [flight EXCEPT ![q] = r]
  BY DEF Start
<1>7. TypeOK'
  BY <1>1, <1>4, <1>5, <1>6 DEF IInv, TypeOK, ReaderType, cacheVars, txVars
<1>8. ReaderRight(new)
  BY <1>1 DEF ReaderRight, Quiet, KeyFound, FillFresh, AnswerFresh, NoTx, Writing
<1>9. ASSUME NEW x \in Readers PROVE ReaderRight(rd[x])'
  <2>1. ReaderRight(rd'[x])
    BY <1>1, <1>2, <1>8 DEF IInv, ReadersRight
  <2>2. QED
    BY <2>1, <1>5 DEF ReaderRight, Quiet, KeyFound, FillFresh, AnswerFresh,
                      NoTx, txVars, Answer, RowOf, Selected
<1>10. Flights'
  <2>1. rd[r].pc = "idle"
    BY DEF Start
  <2>2. ASSUME NEW x \in Readers
        PROVE  /\ rd'[x].pc # "idle" => rd'[x].q \in Queries
               /\ rd'[x].pc \in Executing => flight'[rd'[x].q] = x
               /\ rd'[x].pc = "follow" => flight'[rd'[x].q] \in Readers \ {x}
    <3>1. CASE x = r
      <4>1. CASE Joins(q)
        BY <1>1, <1>2, <1>6, <2>1, <3>1, <4>1
        DEF IInv, Flights, Executing, Joins
      <4>2. CASE ~Joins(q)
        BY <1>1, <1>2, <1>6, <3>1, <4>2 DEF Executing
      <4>3. QED
        BY <4>1, <4>2
    <3>2. CASE x # r
      <4>1. rd'[x] = rd[x]
        BY <1>1, <1>2, <3>2
      <4>2. rd[x].pc \in Executing \cup {"follow"} /\ rd[x].q = q => Joins(q)
        BY CacheAssumption DEF IInv, Flights, Joins, Executing
      <4>3. QED
        BY <1>1, <1>6, <4>1, <4>2 DEF IInv, Flights, Executing
    <3>3. QED
      BY <3>1, <3>2
  <2>3. ASSUME NEW p \in Queries, flight'[p] # Miss
        PROVE  rd'[flight'[p]].q = p /\ rd'[flight'[p]].pc \in Executing \cup {"done"}
    <3>1. CASE p = q /\ ~Joins(q)
      BY <1>1, <1>2, <1>6, <3>1 DEF Executing
    <3>2. CASE ~(p = q /\ ~Joins(q))
      <4>1. flight'[p] = flight[p] /\ flight[p] \in Readers \ {r}
        BY <1>1, <1>6, <2>1, <2>3, <3>2 DEF IInv, Flights, Executing
      <4>2. QED
        BY <1>1, <1>2, <4>1, <2>3 DEF IInv, Flights
    <3>3. QED
      BY <3>1, <3>2
  <2>4. QED
    BY <2>2, <2>3 DEF Flights
<1>11. QED
  BY <1>5, <1>7, <1>9, <1>10, Untouched DEF IInv, ReadersRight

(* The type facts the steps of one reader need. *)
LEMMA Typed ==
  ASSUME IInv, NEW r \in Readers
  PROVE  /\ rd \in [Readers -> ReaderType] /\ rd[r] \in ReaderType
         /\ db \in [Ids -> Row]
         /\ pkc \in [Ids -> Row \cup {Miss, Zero}]
         /\ sc \in Ids \cup {Miss, Absent}
BY DEF IInv, TypeOK, ReaderType

(* A reader that only reads the cache or the database goes on. *)
LEMMA ReadOn ==
  ASSUME IInv, NEW r \in Readers, NEW new \in ReaderType,
         rd' = [rd EXCEPT ![r] = new], UNCHANGED <<cacheVars, txVars, flight>>,
         rd[r].pc \in Executing, new.pc \in Executing \cup {"done"},
         new.q = rd[r].q, ReaderRight(new)
  PROVE  IInv'
<1>1. rd' \in [Readers -> ReaderType] /\ ReadersRight' /\ Flights'
  BY GoOn
<1>2. TypeOK'
  BY <1>1 DEF IInv, TypeOK, ReaderType, cacheVars, txVars
<1>3. QED
  BY <1>1, <1>2, Untouched DEF IInv

LEMMA LookupSearchIInv ==
  ASSUME IInv, NEW r \in Readers, LookupSearch(r)
  PROVE  IInv'
<1>1. /\ rd \in [Readers -> ReaderType] /\ rd[r] \in ReaderType
      /\ db \in [Ids -> Row] /\ sc \in Ids \cup {Miss, Absent}
  BY Typed
<1>2. rd[r].pc = "search" /\ UNCHANGED <<cacheVars, txVars, flight>>
  BY DEF LookupSearch
<1>3. rd[r].q.id = 0 /\ ReaderRight(rd[r])
  BY <1>2 DEF IInv, ReadersRight, ReaderRight, KeyFound
<1>4. ~rd[r].taint => NoTx
  BY <1>2, <1>3 DEF ReaderRight, Quiet
<1>5. ~rd[r].taint /\ ~taintSc /\ sc # Miss =>
        Selected(db) = (IF sc = Absent THEN 0 ELSE sc)
  BY <1>4 DEF IInv, SearchFresh, NoTx, TxShape
<1>6. CASE sc = Miss
  <2> DEFINE new == [rd[r] EXCEPT !.pc = "read"]
  <2>1. rd' = [rd EXCEPT ![r] = new]
    BY <1>1, <1>6 DEF LookupSearch, RdTo
  <2>2. new \in ReaderType /\ new.pc = "read" /\ new.q = rd[r].q
    BY <1>1 DEF ReaderType, ReaderPC
  <2>3. ReaderRight(new)
    BY <1>1, <1>2, <1>3
    DEF ReaderType, ReaderRight, Quiet, KeyFound, FillFresh, AnswerFresh
  <2>4. QED
    BY <1>2, <2>1, <2>2, <2>3, ReadOn DEF Executing
<1>7. CASE sc = Absent
  <2> DEFINE new == [rd[r] EXCEPT !.pc = "done", !.got = Absent,
                       !.taint = @ \/ taintSc, !.key = 0, !.fillTaint = FALSE]
  <2>1. rd' = [rd EXCEPT ![r] = new]
    BY <1>1, <1>7, CacheAssumption DEF LookupSearch, RdDone
  <2>2. /\ new \in ReaderType /\ new.pc = "done" /\ new.q = rd[r].q
        /\ new.got = Absent /\ new.taint = (rd[r].taint \/ taintSc)
    BY <1>1 DEF ReaderType, ReaderPC, Row, IInv, TypeOK
  <2>3. ~new.taint => NoTx /\ Answer(new.q, db) = Absent
    BY <1>3, <1>4, <1>5, <1>7, <2>2, CacheAssumption DEF Answer, RowOf
  <2>4. ReaderRight(new)
    BY <2>2, <2>3 DEF ReaderRight, Quiet, KeyFound, FillFresh, AnswerFresh
  <2>5. QED
    BY <1>2, <2>1, <2>2, <2>4, ReadOn DEF Executing
<1>8. CASE sc \notin {Miss, Absent}
  <2> DEFINE new == [rd[r] EXCEPT !.pc = "pk", !.key = sc,
                                  !.taint = @ \/ taintSc]
  <2>1. rd' = [rd EXCEPT ![r] = new]
    BY <1>1, <1>8 DEF LookupSearch
  <2>2. /\ new \in ReaderType /\ new.pc = "pk" /\ new.q = rd[r].q
        /\ new.key = sc /\ sc \in Ids /\ new.taint = (rd[r].taint \/ taintSc)
    BY <1>1, <1>8 DEF ReaderType, ReaderPC, IInv, TypeOK
  <2>3. ~new.taint => NoTx /\ new.key = Selected(db)
    BY <1>4, <1>5, <1>8, <2>2
  <2>4. ReaderRight(new)
    BY <1>3, <2>2, <2>3 DEF ReaderRight, Quiet, KeyFound, FillFresh, AnswerFresh
  <2>5. QED
    BY <1>2, <2>1, <2>2, <2>4, ReadOn DEF Executing
<1>9. QED
  BY <1>6, <1>7, <1>8

LEMMA LookupPkIInv ==
  ASSUME IInv, NEW r \in Readers, LookupPk(r)
  PROVE  IInv'
<1> DEFINE i == rd[r].key
<1>1. /\ rd \in [Readers -> ReaderType] /\ rd[r] \in ReaderType
      /\ db \in [Ids -> Row] /\ pkc \in [Ids -> Row \cup {Miss, Zero}]
  BY Typed
<1>2. rd[r].pc = "pk" /\ UNCHANGED <<cacheVars, txVars, flight>>
  BY DEF LookupPk
<1>3. ReaderRight(rd[r]) /\ i \in Ids
  BY <1>2 DEF IInv, ReadersRight, ReaderRight, KeyFound
<1>4. ~rd[r].taint => NoTx /\ Answer(rd[r].q, db) = db[i]
  BY <1>2, <1>3, CacheAssumption
  DEF ReaderRight, Quiet, KeyFound, Answer, RowOf
<1>5. CASE pkc[i] = Miss
  <2> DEFINE new == [rd[r] EXCEPT !.pc = "read"]
  <2>1. rd' = [rd EXCEPT ![r] = new]
    BY <1>1, <1>5 DEF LookupPk, RdTo
  <2>2. new \in ReaderType /\ new.pc = "read" /\ new.q = rd[r].q
    BY <1>1 DEF ReaderType, ReaderPC
  <2>3. ReaderRight(new)
    BY <1>1, <1>2, <1>3
    DEF ReaderType, ReaderRight, Quiet, KeyFound, FillFresh, AnswerFresh
  <2>4. QED
    BY <1>2, <2>1, <2>2, <2>3, ReadOn DEF Executing
<1>6. CASE pkc[i] # Miss
  <2> DEFINE new == [rd[r] EXCEPT !.pc = "done", !.got = pkc[i],
                       !.taint = @ \/ taintPk[i], !.key = 0, !.fillTaint = FALSE]
  <2>1. rd' = [rd EXCEPT ![r] = new]
    BY <1>1, <1>6 DEF LookupPk, RdDone
  <2>2. /\ new \in ReaderType /\ new.pc = "done" /\ new.q = rd[r].q
        /\ new.got = pkc[i] /\ new.taint = (rd[r].taint \/ taintPk[i])
    BY <1>1, <1>3, <1>6 DEF ReaderType, ReaderPC, Row, IInv, TypeOK
  <2>3. ~new.taint => NoTx /\ pkc[i] \in {Zero, db[i]}
    BY <1>3, <1>4, <1>6, <2>2 DEF IInv, RowsFresh, NoTx, TxShape
  <2>4. ReaderRight(new)
    BY <1>4, <2>2, <2>3
    DEF ReaderRight, Quiet, KeyFound, FillFresh, AnswerFresh
  <2>5. QED
    BY <1>2, <2>1, <2>2, <2>4, ReadOn DEF Executing
<1>7. QED
  BY <1>5, <1>6

(* The statement: what it answers is what the database holds.              *)
LEMMA ReadDbIInv ==
  ASSUME IInv, NEW r \in Readers, ReadDb(r) \/ ReadFails(r)
  PROVE  IInv'
<1>1. /\ rd \in [Readers -> ReaderType] /\ rd[r] \in ReaderType
      /\ db \in [Ids -> Row] /\ rd[r].q \in Query /\ rd[r].q.id \in Ids \cup {0}
  BY Typed DEF ReaderType, Query
<1>2. rd[r].pc = "read" /\ UNCHANGED <<cacheVars, txVars, flight>>
  BY DEF ReadDb, ReadFails
<1>3. ~rd[r].taint => NoTx
  BY <1>2 DEF IInv, ReadersRight, ReaderRight, Quiet
<1>4. CASE ReadFails(r)
  <2> DEFINE new == [rd[r] EXCEPT
                       !.pc = IF rd[r].q.id = 0 THEN "setSearch" ELSE "setPk",
                       !.key = rd[r].q.id, !.got = Failed, !.fillTaint = Writing]
  <2>1. rd' = [rd EXCEPT ![r] = new]
    BY <1>1, <1>4 DEF ReadFails
  <2>2. /\ new \in ReaderType /\ new.q = rd[r].q /\ new.got = Failed
        /\ new.pc = IF rd[r].q.id = 0 THEN "setSearch" ELSE "setPk"
        /\ new.key = rd[r].q.id /\ new.taint = rd[r].taint
        /\ new.fillTaint = Writing
    BY <1>1 DEF ReaderType, ReaderPC, Writing
  <2>3. ReaderRight(new)
    BY <1>1, <1>3, <2>2, CacheAssumption
    DEF ReaderRight, Quiet, KeyFound, FillFresh, AnswerFresh, NoTx, Writing
  <2>4. QED
    BY <1>2, <2>1, <2>2, <2>3, ReadOn DEF Executing
<1>5. CASE ReadDb(r)
  <2> DEFINE q == rd[r].q
             i == IF q.id = 0 THEN Selected(db) ELSE q.id
             missing == RowOf(db, i) = Absent
             new == [rd[r] EXCEPT
                       !.pc = IF q.id = 0 THEN "setSearch" ELSE "setPk",
                       !.key = IF missing /\ q.id = 0 THEN 0 ELSE i,
                       !.got = IF missing /\ ~q.raise THEN Zero
                               ELSE RowOf(db, i),
                       !.fillTaint = Writing]
  <2>1. rd' = [rd EXCEPT ![r] = new]
    BY <1>1, <1>5 DEF ReadDb
  <2>2. i \in Ids \cup {0} /\ RowOf(db, i) \in Row
    BY <1>1, SelectedIs DEF RowOf, Row
  <2>3. /\ new \in ReaderType /\ new.q = q
        /\ new.got \in {Zero, RowOf(db, i)}
        /\ new.got = Absent => missing
        /\ new.pc = IF q.id = 0 THEN "setSearch" ELSE "setPk"
        /\ new.key = IF missing /\ q.id = 0 THEN 0 ELSE i
        /\ new.taint = rd[r].taint /\ new.fillTaint = Writing
        /\ ~missing => new.got = RowOf(db, i)
    BY <1>1, <2>2, CacheAssumption DEF ReaderType, ReaderPC, Writing
  <2>4. Answer(q, db) = RowOf(db, i)
    BY DEF Answer
  <2>5. q.id = 0 => (missing <=> i = 0)
    BY <1>1, SelectedIs
  <2>6. i # 0 => RowOf(db, i) = db[i]
    BY DEF RowOf
  <2> HIDE DEF new, missing, i
  <2>7. Quiet(new)
    BY <1>3, <2>3 DEF Quiet, NoTx, Writing
  <2>8. KeyFound(new)
    BY <1>1, <2>3, CacheAssumption DEF KeyFound, i
  <2>9. FillFresh(new)
    <3>1. CASE q.id = 0
      BY <2>3, <2>5, <2>6, <3>1 DEF FillFresh, i
    <3>2. CASE q.id # 0
      BY <2>3, <2>6, <3>2 DEF FillFresh, i
    <3>3. QED
      BY <3>1, <3>2
  <2>10. AnswerFresh(new)
    BY <2>3, <2>4 DEF AnswerFresh
  <2>11. QED
    BY <1>2, <2>1, <2>3, <2>7, <2>8, <2>9, <2>10, ReadOn
    DEF Executing, ReaderRight
<1>6. QED
  BY <1>4, <1>5

(* setCache, the search entry.                                             *)
LEMMA SetSearchIInv ==
  ASSUME IInv, NEW r \in Readers, SetSearch(r)
  PROVE  IInv'
<1>1. rd \in [Readers -> ReaderType] /\ rd[r] \in ReaderType
  BY Typed
<1>2. rd[r].pc = "setSearch" /\ UNCHANGED <<pkc, taintPk, txVars, flight>>
  BY DEF SetSearch
<1>3. ReaderRight(rd[r])
  BY DEF IInv, ReadersRight
<1>4. TxShape' /\ RowsFresh'
  BY <1>2 DEF IInv, TxShape, RowsFresh, txVars
<1>5. CASE UNCHANGED <<sc, taintSc>> /\ rd' = RdDone(r, rd[r].got, FALSE)
  <2> DEFINE new == [rd[r] EXCEPT !.pc = "done", !.got = rd[r].got,
                       !.taint = @ \/ FALSE, !.key = 0, !.fillTaint = FALSE]
  <2>1. rd' = [rd EXCEPT ![r] = new]
    BY <1>1, <1>5 DEF RdDone
  <2>2. /\ new \in ReaderType /\ new.pc = "done" /\ new.q = rd[r].q
        /\ new.got = rd[r].got /\ new.taint = rd[r].taint
    BY <1>1 DEF ReaderType, ReaderPC
  <2>3. ReaderRight(new)
    BY <1>2, <1>3, <2>2
    DEF ReaderRight, Quiet, KeyFound, FillFresh, AnswerFresh
  <2>4. QED
    BY <1>2, <1>5, <2>1, <2>2, <2>3, ReadOn DEF Executing, cacheVars
<1>6. ASSUME sc' \in {Absent, rd[r].key}, taintSc' = rd[r].fillTaint,
             sc' = Absent => rd[r].got = Absent,
             sc' # Absent => rd[r].key # 0 /\ rd[r].got # Absent
      PROVE  /\ sc' \in Ids \cup {Absent} /\ taintSc' \in BOOLEAN
             /\ OwnDropped' /\ SearchFresh'
  <2>1. ~taintSc' => NoTx
    BY <1>2, <1>3, <1>6 DEF ReaderRight, Quiet
  <2>2. ~taintSc' => Selected(db) = (IF sc' = Absent THEN 0 ELSE sc')
    BY <1>2, <1>3, <1>6 DEF ReaderRight, FillFresh
  <2>3. sc' \in Ids \cup {Absent} /\ taintSc' \in BOOLEAN
    BY <1>1, <1>6 DEF ReaderType
  <2>4. OwnDropped'
    BY <1>2, <2>1, <2>3 DEF IInv, OwnDropped, NoTx, txVars
  <2>5. SearchFresh'
    BY <1>2, <2>2 DEF SearchFresh, Selected, txVars
  <2>6. QED
    BY <2>3, <2>4, <2>5
<1>7. CASE /\ sc' = Absent /\ taintSc' = rd[r].fillTaint /\ rd[r].got = Absent
           /\ rd' = RdDone(r, rd[r].got, FALSE)
  <2> DEFINE new == [rd[r] EXCEPT !.pc = "done", !.got = rd[r].got,
                       !.taint = @ \/ FALSE, !.key = 0, !.fillTaint = FALSE]
  <2>1. rd' = [rd EXCEPT ![r] = new]
    BY <1>1, <1>7 DEF RdDone
  <2>2. /\ new \in ReaderType /\ new.pc = "done" /\ new.q = rd[r].q
        /\ new.got = rd[r].got /\ new.taint = rd[r].taint
    BY <1>1 DEF ReaderType, ReaderPC
  <2>3. ReaderRight(new)
    BY <1>2, <1>3, <2>2
    DEF ReaderRight, Quiet, KeyFound, FillFresh, AnswerFresh
  <2>4. rd' \in [Readers -> ReaderType] /\ ReadersRight' /\ Flights'
    BY <1>2, <2>1, <2>2, <2>3, GoOn DEF Executing
  <2>5. TypeOK'
    BY <1>2, <1>6, <1>7, <2>4 DEF IInv, TypeOK, ReaderType, txVars
  <2>6. QED
    BY <1>4, <1>6, <1>7, <2>4, <2>5 DEF IInv
<1>8. CASE /\ sc' = rd[r].key /\ taintSc' = rd[r].fillTaint
           /\ rd[r].key # 0 /\ rd[r].got # Absent /\ rd' = RdTo(r, "setPk")
  <2> DEFINE new == [rd[r] EXCEPT !.pc = "setPk"]
  <2>1. rd' = [rd EXCEPT ![r] = new]
    BY <1>1, <1>8 DEF RdTo
  <2>2. /\ new \in ReaderType /\ new.pc = "setPk" /\ new.q = rd[r].q
        /\ new.got = rd[r].got /\ new.taint = rd[r].taint
        /\ new.key = rd[r].key /\ new.fillTaint = rd[r].fillTaint
    BY <1>1 DEF ReaderType, ReaderPC
  <2>3. new.key \in Ids
    BY <1>8, <2>2 DEF ReaderType
  <2>4. ReaderRight(new)
    BY <1>2, <1>3, <1>8, <2>2, <2>3
    DEF ReaderRight, Quiet, KeyFound, FillFresh, AnswerFresh
  <2>5. rd' \in [Readers -> ReaderType] /\ ReadersRight' /\ Flights'
    BY <1>2, <2>1, <2>2, <2>4, GoOn DEF Executing
  <2>6. /\ sc' \in Ids \cup {Absent} /\ taintSc' \in BOOLEAN
        /\ OwnDropped' /\ SearchFresh'
    BY <1>6, <1>8, <2>2, <2>3, CacheAssumption
  <2>7. TypeOK'
    BY <1>2, <2>5, <2>6 DEF IInv, TypeOK, ReaderType, txVars
  <2>8. QED
    BY <1>4, <2>5, <2>6, <2>7 DEF IInv
<1>9. QED
  BY <1>5, <1>7, <1>8 DEF SetSearch

(* setCache, the entry of the key.                                         *)
LEMMA SetPkIInv ==
  ASSUME IInv, NEW r \in Readers, SetPk(r)
  PROVE  IInv'
<1> DEFINE i == rd[r].key
           new == [rd[r] EXCEPT !.pc = "done", !.got = rd[r].got,
                     !.taint = @ \/ FALSE, !.key = 0, !.fillTaint = FALSE]
<1>1. /\ rd \in [Readers -> ReaderType] /\ rd[r] \in ReaderType
      /\ pkc \in [Ids -> Row \cup {Miss, Zero}] /\ taintPk \in [Ids -> BOOLEAN]
  BY Typed DEF IInv, TypeOK
<1>2. rd[r].pc = "setPk" /\ UNCHANGED <<sc, taintSc, txVars, flight>>
  BY DEF SetPk
<1>3. ReaderRight(rd[r]) /\ i \in Ids
  BY <1>2 DEF IInv, ReadersRight, ReaderRight, KeyFound
<1>4. rd' = [rd EXCEPT ![r] = new]
  BY <1>1 DEF SetPk, RdDone
<1>5. /\ new \in ReaderType /\ new.pc = "done" /\ new.q = rd[r].q
      /\ new.got = rd[r].got /\ new.taint = rd[r].taint
  BY <1>1 DEF ReaderType, ReaderPC
<1>6. ReaderRight(new)
  BY <1>2, <1>3, <1>5
  DEF ReaderRight, Quiet, KeyFound, FillFresh, AnswerFresh
<1>7. rd' \in [Readers -> ReaderType] /\ ReadersRight' /\ Flights'
  BY <1>2, <1>4, <1>5, <1>6, GoOn DEF Executing
<1>8. /\ pkc' = [pkc EXCEPT ![i] = Stored(rd[r].got)]
      /\ taintPk' = [taintPk EXCEPT ![i] = rd[r].fillTaint]
  BY DEF SetPk
<1>9. Stored(rd[r].got) \in Row \cup {Miss, Zero} /\ rd[r].fillTaint \in BOOLEAN
  BY <1>1 DEF Stored, ReaderType
<1>10. TypeOK'
  BY <1>1, <1>2, <1>7, <1>8, <1>9 DEF IInv, TypeOK, ReaderType, txVars
<1>11. TxShape' /\ SearchFresh'
  BY <1>2 DEF IInv, TxShape, SearchFresh, txVars, Selected
<1>12. ~rd[r].fillTaint => NoTx /\ Stored(rd[r].got) \in {Zero, db[i]}
  BY <1>2, <1>3 DEF ReaderRight, Quiet, FillFresh, Stored
<1>13. RowsFresh'
  BY <1>1, <1>2, <1>3, <1>8, <1>12 DEF IInv, RowsFresh, txVars
<1>14. OwnDropped'
  <2>1. CASE NoTx
    BY <1>2, <2>1 DEF OwnDropped, NoTx, txVars
  <2>2. CASE rd[r].fillTaint
    BY <1>1, <1>2, <1>3, <1>8, <2>2 DEF IInv, OwnDropped, TxShape, txVars
  <2>3. QED
    BY <2>1, <2>2, <1>12
<1>15. QED
  BY <1>7, <1>10, <1>11, <1>13, <1>14 DEF IInv

(* The flight lands: nobody is left who follows it.                        *)
LEMMA FinishIInv ==
  ASSUME IInv, NEW r \in Readers, Finish(r)
  PROVE  IInv'
<1> DEFINE q == rd[r].q
           landed(f) == [rd[f] EXCEPT !.pc = "done", !.got = rd[r].got,
                                      !.taint = @ \/ rd[r].taint]
<1>1. rd \in [Readers -> ReaderType] /\ rd[r] \in ReaderType
  BY Typed
<1>2. rd[r].pc = "done" /\ UNCHANGED <<cacheVars, txVars>> /\ ReaderRight(rd[r])
  BY DEF Finish, IInv, ReadersRight
<1>3. q \in Queries /\ flight \in [Queries -> Readers \cup {Miss}]
  BY <1>2 DEF IInv, Flights, TypeOK
<1>4. ReaderRight(IdleReader)
  BY DEF ReaderRight, Quiet, KeyFound, FillFresh, AnswerFresh, IdleReader
<1>5. ASSUME NEW f \in Readers, f \in Followers(r), f # r
      PROVE  /\ landed(f) \in ReaderType /\ landed(f).pc = "done"
             /\ landed(f).q = q /\ ReaderRight(landed(f))
  <2>1. rd[f].pc = "follow" /\ rd[f].q = q /\ rd[f] \in ReaderType
    BY <1>1, <1>5 DEF Followers
  <2>2. /\ landed(f) \in ReaderType /\ landed(f).pc = "done"
        /\ landed(f).q = q /\ landed(f).got = rd[r].got
        /\ landed(f).taint = (rd[f].taint \/ rd[r].taint)
    BY <1>1, <2>1 DEF ReaderType, ReaderPC
  <2>3. ReaderRight(landed(f))
    BY <1>2, <2>2
    DEF ReaderRight, Quiet, KeyFound, FillFresh, AnswerFresh
  <2>4. QED
    BY <2>2, <2>3
<1>6. ASSUME NEW x \in Readers
      PROVE  \/ rd'[x] = rd[x] /\ x # r
             \/ rd'[x] = IdleReader /\ x = r
             \/ rd'[x] = landed(x) /\ x \in Followers(r) /\ x # r /\ flight[q] = r
  BY <1>1 DEF Finish
<1>7. rd' = [x \in Readers |-> rd'[x]]
  BY <1>1 DEF Finish
<1>8. ASSUME NEW x \in Readers
      PROVE  rd'[x] \in ReaderType /\ ReaderRight(rd'[x])
  BY <1>1, <1>4, <1>5, <1>6, IdleTypes DEF IInv, ReadersRight
<1>9. ASSUME NEW x \in Readers PROVE ReaderRight(rd[x])'
  <2>1. ReaderRight(rd'[x])
    BY <1>8
  <2>2. QED
    BY <1>2, <2>1 DEF ReaderRight, Quiet, KeyFound, FillFresh, AnswerFresh,
                      NoTx, txVars, Answer, RowOf, Selected
<1>10. flight' = IF flight[q] = r THEN [flight EXCEPT ![q] = Miss] ELSE flight
  BY DEF Finish
<1>11. TypeOK'
  <2>1. rd' \in [Readers -> ReaderType]
    BY <1>7, <1>8
  <2>2. flight' \in [Queries -> Readers \cup {Miss}]
    BY <1>3, <1>10
  <2>3. QED
    BY <1>2, <2>1, <2>2 DEF IInv, TypeOK, ReaderType, cacheVars, txVars
<1>12. Flights'
  <2>1. ASSUME NEW x \in Readers
        PROVE  /\ rd'[x].pc # "idle" => rd'[x].q \in Queries
               /\ rd'[x].pc \in Executing => flight'[rd'[x].q] = x
               /\ rd'[x].pc = "follow" => flight'[rd'[x].q] \in Readers \ {x}
    <3>1. CASE rd'[x] = rd[x] /\ x # r
      <4>1. CASE flight[q] = r
        <5>1. ASSUME rd[x].pc = "follow", rd[x].q = q PROVE FALSE
          <6>1. x \in Followers(r)
            BY <5>1 DEF Followers
          <6>2. rd'[x] = landed(x)
            BY <3>1, <4>1, <6>1 DEF Finish
          <6>3. QED
            BY <1>5, <3>1, <5>1, <6>1, <6>2
        <5>2. QED
          BY <1>3, <1>10, <3>1, <4>1, <5>1 DEF IInv, Flights
      <4>2. CASE flight[q] # r
        BY <1>10, <3>1, <4>2 DEF IInv, Flights
      <4>3. QED
        BY <4>1, <4>2
    <3>2. CASE rd'[x] = IdleReader
      BY <3>2 DEF IdleReader, Executing
    <3>3. CASE rd'[x] = landed(x) /\ x \in Followers(r) /\ x # r
      BY <1>3, <1>5, <3>3 DEF Executing
    <3>4. QED
      BY <1>6, <3>1, <3>2, <3>3
  <2>2. ASSUME NEW p \in Queries, flight'[p] # Miss
        PROVE  rd'[flight'[p]].q = p /\ rd'[flight'[p]].pc \in Executing \cup {"done"}
    <3>1. flight'[p] = flight[p] /\ (flight[q] = r => p # q)
      BY <1>3, <1>10, <2>2
    <3>2. flight[p] \in Readers /\ flight[p] # r
      BY <1>3, <2>2, <3>1 DEF IInv, Flights
    <3>3. rd[flight[p]].q = p /\ rd[flight[p]].pc \in Executing \cup {"done"}
      BY <2>2, <3>1 DEF IInv, Flights
    <3>4. rd'[flight[p]] = rd[flight[p]]
      BY <1>6, <3>2, <3>3 DEF Followers, Executing
    <3>5. QED
      BY <3>1, <3>3, <3>4
  <2>3. QED
    BY <2>1, <2>2 DEF Flights
<1>13. QED
  BY <1>2, <1>9, <1>11, <1>12, Untouched DEF IInv, ReadersRight

-----------------------------------------------------------------------------
(* Steps of transactions, and the TTL.                                     *)

LEMMA TxTyped ==
  ASSUME IInv
  PROVE  /\ tx \in [Writers -> WriterType] /\ db \in [Ids -> Row]
         /\ pkc \in [Ids -> Row \cup {Miss, Zero}] /\ taintPk \in [Ids -> BOOLEAN]
         /\ sc \in Ids \cup {Miss, Absent} /\ taintSc \in BOOLEAN
         /\ rd \in [Readers -> ReaderType]
BY DEF IInv, TypeOK, WriterType, ReaderType

(* The readers have nothing to do with the entries.                        *)
LEMMA ReadersStay ==
  ASSUME IInv, rd' = rd, flight' = flight, db' = db, NoTx => NoTx'
  PROVE  ReadersRight' /\ Flights'
<1>1. Flights'
  BY DEF IInv, Flights
<1>2. ASSUME NEW x \in Readers PROVE ReaderRight(rd[x])'
  <2>1. ReaderRight(rd[x])
    BY DEF IInv, ReadersRight
  <2>2. QED
    BY <2>1 DEF ReaderRight, Quiet, KeyFound, FillFresh, AnswerFresh, Answer,
                RowOf, Selected
<1>3. QED
  BY <1>1, <1>2 DEF ReadersRight

(* A transaction begins: it marks every query under way.                   *)
LEMMA TxBeginIInv ==
  ASSUME IInv, NEW w \in Writers, NEW i \in Ids, NEW v \in Row,
         NEW own \in BOOLEAN, NEW drop \in {{i}, Ids},
         TxBegin(w, i, v, own, drop)
  PROVE  IInv'
<1> DEFINE new == [pc |-> IF own THEN "dropSearch" ELSE "commit",
                   id |-> i, val |-> v, drop |-> drop, own |-> own,
                   committed |-> FALSE]
           marked(r) == [rd[r] EXCEPT !.taint = TRUE, !.fillTaint = TRUE]
<1>1. /\ tx[w].pc = "idle" /\ ~tx[w].committed
      /\ tx' = [tx EXCEPT ![w] = new] /\ UNCHANGED <<cacheVars, db, flight>>
  BY DEF TxBegin, IInv, TxShape
<1>2. new \in WriterType
  BY DEF WriterType, WriterPC
<1>3. tx' \in [Writers -> WriterType] /\ txs' \in 0..MaxTx
  <2>1. txs \in 0..MaxTx /\ txs < MaxTx /\ txs' = txs + 1 /\ MaxTx \in Nat
    BY CacheAssumption DEF TxBegin, IInv, TypeOK
  <2>2. txs' \in 0..MaxTx
    BY <2>1
  <2>3. QED
    BY <1>1, <1>2, <2>2, TxTyped
<1>4. ASSUME NEW r \in Readers
      PROVE  /\ rd'[r] \in ReaderType /\ rd'[r].pc = rd[r].pc
             /\ rd'[r].q = rd[r].q /\ rd'[r].key = rd[r].key
             /\ rd'[r].pc # "idle" => rd'[r].taint /\ rd'[r].fillTaint
  BY TxTyped DEF TxBegin, ReaderType
<1>5. rd' \in [Readers -> ReaderType]
  BY <1>4 DEF TxBegin
<1>6. TypeOK'
  BY <1>1, <1>3, <1>5 DEF IInv, TypeOK, ReaderType, WriterType, cacheVars
<1>7. ASSUME NEW r \in Readers PROVE ReaderRight(rd[r])'
  <2>1. KeyFound(rd[r])
    BY DEF IInv, ReadersRight, ReaderRight
  <2>2. QED
    BY <1>4, <2>1 DEF ReaderRight, Quiet, KeyFound, FillFresh, AnswerFresh
<1>8. Flights'
  <2>1. ASSUME NEW r \in Readers
        PROVE  /\ rd'[r].pc # "idle" => rd'[r].q \in Queries
               /\ rd'[r].pc \in Executing => flight'[rd'[r].q] = r
               /\ rd'[r].pc = "follow" => flight'[rd'[r].q] \in Readers \ {r}
    BY <1>1, <1>4 DEF IInv, Flights
  <2>2. ASSUME NEW p \in Queries, flight'[p] # Miss
        PROVE  rd'[flight'[p]].q = p /\ rd'[flight'[p]].pc \in Executing \cup {"done"}
    BY <1>1, <1>4, <2>2 DEF IInv, Flights, TypeOK
  <2>3. QED
    BY <2>1, <2>2 DEF Flights
<1>9. \A x \in Writers : tx'[x] = IF x = w THEN new ELSE tx[x]
  BY <1>1, TxTyped
<1>10. TxShape' /\ OwnDropped'
  BY <1>1, <1>9 DEF IInv, TxShape, OwnDropped, cacheVars
<1>11. RowsFresh' /\ SearchFresh'
  BY <1>1, <1>9 DEF IInv, RowsFresh, SearchFresh, cacheVars, Selected
<1>12. QED
  BY <1>6, <1>7, <1>8, <1>10, <1>11 DEF IInv, ReadersRight

LEMMA DropSearchIInv ==
  ASSUME IInv, NEW w \in Writers, DropSearch(w)
  PROVE  IInv'
<1> DEFINE new == [tx[w] EXCEPT !.pc = "dropPk"]
<1>1. /\ tx[w].pc = "dropSearch" /\ sc' = Miss /\ taintSc' = FALSE
      /\ UNCHANGED <<pkc, taintPk, db, txs, rd, flight>>
  BY DEF DropSearch, SearchDropped
<1>2. /\ new \in WriterType /\ new.pc = "dropPk" /\ new.id = tx[w].id
      /\ new.drop = tx[w].drop /\ new.own = tx[w].own
      /\ new.committed = tx[w].committed /\ new.val = tx[w].val
  BY TxTyped DEF WriterType, WriterPC
<1>3. /\ \A x \in Writers : tx'[x] = IF x = w THEN new ELSE tx[x]
      /\ tx' \in [Writers -> WriterType]
  BY <1>2, TxTyped DEF DropSearch
<1> HIDE DEF new
<1>4. TypeOK'
  BY <1>1, <1>3 DEF IInv, TypeOK, WriterType
<1>5. ReadersRight' /\ Flights'
  BY <1>1, ReadersStay DEF NoTx
<1>6. TxShape' /\ OwnDropped'
  BY <1>1, <1>2, <1>3 DEF IInv, TxShape, OwnDropped
<1>7. RowsFresh' /\ SearchFresh'
  <2>1. \A x \in Writers :
          tx'[x].committed = tx[x].committed /\ tx'[x].id = tx[x].id
    BY <1>2, <1>3
  <2>2. QED
    BY <1>1, <2>1 DEF IInv, RowsFresh, SearchFresh
<1>8. QED
  BY <1>4, <1>5, <1>6, <1>7 DEF IInv

LEMMA DropPkIInv ==
  ASSUME IInv, NEW w \in Writers, DropPk(w)
  PROVE  IInv'
<1> DEFINE new == IF tx[w].own THEN [tx[w] EXCEPT !.pc = "commit", !.drop = {}]
                  ELSE IdleWriter
<1>1. /\ tx[w].pc = "dropPk"
      /\ UNCHANGED <<sc, taintSc, db, txs, rd, flight>>
  BY DEF DropPk
<1>2. /\ new \in WriterType /\ new.own = tx[w].own /\ ~new.committed
      /\ tx[w].own => /\ new.pc = "commit" /\ new.id = tx[w].id
                      /\ new.val = tx[w].val
      /\ ~tx[w].own => new.pc = "idle"
  BY TxTyped, IdleTypes, <1>1
  DEF WriterType, WriterPC, IdleWriter, IInv, TxShape
<1>3. /\ \A x \in Writers : tx'[x] = IF x = w THEN new ELSE tx[x]
      /\ tx' \in [Writers -> WriterType]
  BY <1>2, TxTyped DEF DropPk
<1> HIDE DEF new
<1>4. \A i \in Ids : \/ pkc'[i] = pkc[i] /\ taintPk'[i] = (taintPk[i] /\ pkc[i] # Miss)
                     \/ pkc'[i] = Miss
  BY DEF DropPk, PkDropped, TaintLeft
<1>5. \A i \in tx[w].drop : i \in Ids => pkc'[i] = Miss
  BY DEF DropPk, PkDropped
<1>6. /\ pkc' \in [Ids -> Row \cup {Miss, Zero}] /\ taintPk' \in [Ids -> BOOLEAN]
  BY TxTyped DEF DropPk, PkDropped, TaintLeft
<1>7. TypeOK'
  BY <1>1, <1>3, <1>6 DEF IInv, TypeOK, WriterType
<1>8. tx[w].id \in Ids /\ pkc'[tx[w].id] = Miss
  BY <1>1, <1>5 DEF IInv, TxShape
<1>9. ReadersRight' /\ Flights'
  BY <1>1, <1>3, ReadersStay DEF NoTx
<1>10. TxShape'
  BY <1>1, <1>2, <1>3, <1>8 DEF IInv, TxShape
<1>11. OwnDropped'
  <2>1. ASSUME NEW x \in Writers, tx'[x].own
        PROVE  /\ tx'[x].pc = "commit" =>
                    (pkc'[tx'[x].id] = Miss \/ taintPk'[tx'[x].id])
               /\ tx'[x].pc \in {"dropPk", "commit"} => (sc = Miss \/ taintSc)
    <3>1. CASE x = w
      BY <1>1, <1>2, <1>3, <1>8, <2>1, <3>1 DEF IInv, OwnDropped
    <3>2. CASE x # w
      <4>1. tx'[x] = tx[x] /\ (tx[x].pc # "idle" => tx[x].id \in Ids)
        BY <1>3, <3>2 DEF IInv, TxShape
      <4>2. QED
        BY <1>4, <2>1, <4>1 DEF IInv, OwnDropped
    <3>3. QED
      BY <3>1, <3>2
  <2>2. QED
    BY <1>1, <2>1 DEF OwnDropped
<1>12. RowsFresh'
  <2>1. ASSUME NEW i \in Ids, pkc'[i] # Miss, ~taintPk'[i]
        PROVE  \/ pkc'[i] \in {Zero, db[i]}
               \/ \E x \in Writers : tx'[x].committed /\ tx'[x].id = i
    <3>1. pkc'[i] = pkc[i] /\ ~taintPk[i] /\ i # tx[w].id
      BY <1>4, <1>8, <2>1
    <3>2. CASE \E x \in Writers : tx[x].committed /\ tx[x].id = i
      BY <1>3, <3>1, <3>2
    <3>3. QED
      BY <2>1, <3>1, <3>2 DEF IInv, RowsFresh
  <2>2. QED
    BY <1>1, <2>1 DEF RowsFresh
<1>13. SearchFresh'
  BY <1>1, <1>3 DEF IInv, SearchFresh, Selected
<1>14. QED
  BY <1>7, <1>9, <1>10, <1>11, <1>12, <1>13 DEF IInv

(* The transaction ends.  One that the caller opened has emptied the       *)
(* entries; one that gorm opened shows that it has not done so yet.        *)
LEMMA EndTxIInv ==
  ASSUME IInv, NEW w \in Writers, EndTx(w)
  PROVE  IInv'
<1> DEFINE t == tx[w]
           new == IF t.own THEN IdleWriter
                  ELSE [t EXCEPT !.pc = "dropSearch", !.val = Miss,
                                 !.committed = TRUE]
<1>1. t.pc = "commit" /\ UNCHANGED <<cacheVars, txs, rd, flight>>
  BY DEF EndTx
<1>2. t.id \in Ids /\ (~t.own => t.id \in t.drop) /\ ~NoTx
  BY <1>1 DEF IInv, TxShape, NoTx
<1>3. /\ new \in WriterType /\ new.own = IF t.own THEN FALSE ELSE t.own
      /\ t.own => new.pc = "idle" /\ ~new.committed
      /\ ~t.own => /\ new.pc = "dropSearch" /\ new.committed
                   /\ new.id = t.id /\ new.drop = t.drop
  BY TxTyped, IdleTypes DEF WriterType, WriterPC, IdleWriter
<1>4. /\ \A x \in Writers : tx'[x] = IF x = w THEN new ELSE tx[x]
      /\ tx' \in [Writers -> WriterType]
  BY <1>3, TxTyped DEF EndTx
<1>5. \A i \in Ids : i # t.id => db'[i] = db[i]
  BY TxTyped DEF EndTx
<1> HIDE DEF new
<1>6. db' \in [Ids -> Row]
  BY <1>1, <1>2, TxTyped DEF EndTx, IInv, TxShape
<1>7. TypeOK'
  BY <1>1, <1>4, <1>6 DEF IInv, TypeOK, WriterType, cacheVars
<1>8. ASSUME NEW r \in Readers
      PROVE  /\ rd[r].pc # "idle" => rd[r].taint
             /\ rd[r].pc \in {"setSearch", "setPk"} => rd[r].fillTaint
             /\ KeyFound(rd[r])
  BY <1>2 DEF IInv, ReadersRight, ReaderRight, Quiet
<1>9. ASSUME NEW r \in Readers PROVE ReaderRight(rd[r])'
  BY <1>1, <1>8 DEF ReaderRight, Quiet, KeyFound, FillFresh, AnswerFresh
<1>10. Flights'
  BY <1>1 DEF IInv, Flights
<1>11. TxShape'
  BY <1>1, <1>2, <1>3, <1>4 DEF IInv, TxShape
<1>12. OwnDropped'
  BY <1>1, <1>3, <1>4 DEF IInv, OwnDropped, cacheVars
<1>13. RowsFresh'
  <2>1. ASSUME NEW i \in Ids, pkc[i] # Miss, ~taintPk[i]
        PROVE  \/ pkc[i] \in {Zero, db'[i]}
               \/ \E x \in Writers : tx'[x].committed /\ tx'[x].id = i
    <3>1. CASE i = t.id
      <4>1. ~t.own
        BY <1>1, <2>1, <3>1 DEF IInv, OwnDropped
      <4>2. QED
        BY <1>3, <1>4, <3>1, <4>1
    <3>2. CASE i # t.id
      <4>1. CASE \E x \in Writers : tx[x].committed /\ tx[x].id = i
        BY <1>4, <3>2, <4>1
      <4>2. QED
        BY <1>5, <2>1, <3>2, <4>1 DEF IInv, RowsFresh
    <3>3. QED
      BY <3>1, <3>2
  <2>2. QED
    BY <1>1, <2>1 DEF RowsFresh, cacheVars
<1>14. SearchFresh'
  <2>1. CASE t.own
    BY <1>1, <2>1 DEF IInv, OwnDropped, SearchFresh, cacheVars
  <2>2. CASE ~t.own
    BY <1>3, <1>4, <2>2 DEF SearchFresh
  <2>3. QED
    BY <2>1, <2>2
<1>15. QED
  BY <1>7, <1>9, <1>10, <1>11, <1>12, <1>13, <1>14 DEF IInv, ReadersRight

LEMMA ExpireIInv ==
  ASSUME IInv, ExpireSearch \/ \E i \in Ids : ExpirePk(i)
  PROVE  IInv'
<1>1. UNCHANGED <<txVars, rd, flight>>
  BY DEF ExpireSearch, ExpirePk
<1>2. /\ sc' \in {sc, Miss} /\ taintSc' \in BOOLEAN
      /\ sc' # Miss => taintSc' = taintSc
      /\ pkc' \in [Ids -> Row \cup {Miss, Zero}] /\ taintPk' \in [Ids -> BOOLEAN]
      /\ \A i \in Ids : \/ pkc'[i] = pkc[i] /\ taintPk'[i] = (taintPk[i] /\ pkc[i] # Miss)
                        \/ pkc'[i] = pkc[i] /\ taintPk'[i] = taintPk[i]
                        \/ pkc'[i] = Miss
  BY TxTyped DEF ExpireSearch, ExpirePk, TaintLeft
<1>3. TypeOK'
  BY <1>1, <1>2 DEF IInv, TypeOK, txVars
<1>4. ReadersRight' /\ Flights'
  BY <1>1, ReadersStay DEF txVars, NoTx
<1>5. TxShape'
  BY <1>1 DEF IInv, TxShape, txVars
<1>6. OwnDropped'
  BY <1>1, <1>2 DEF IInv, TxShape, OwnDropped, txVars
<1>7. RowsFresh'
  BY <1>1, <1>2 DEF IInv, RowsFresh, txVars
<1>8. SearchFresh'
  BY <1>1, <1>2 DEF IInv, SearchFresh, txVars, Selected
<1>9. QED
  BY <1>3, <1>4, <1>5, <1>6, <1>7, <1>8 DEF IInv

-----------------------------------------------------------------------------
LEMMA NextIInv == IInv /\ [Next]_vars => IInv'
<1> SUFFICES ASSUME IInv, [Next]_vars PROVE IInv'
  OBVIOUS
<1>1. CASE UNCHANGED vars
  <2>1. TypeOK'
    BY <1>1 DEF IInv, TypeOK, vars, cacheVars, txVars
  <2>2. UNCHANGED <<cacheVars, txVars>> /\ rd' = rd /\ flight' = flight
        /\ db' = db /\ tx' = tx
    BY <1>1 DEF vars, txVars
  <2>3. QED
    BY <2>1, <2>2, Untouched, ReadersStay DEF IInv, NoTx
<1>2. ASSUME NEW r \in Readers, (\E q \in Queries : Start(r, q)) \/ ReadStep(r)
      PROVE  IInv'
  BY <1>2, StartIInv, LookupSearchIInv, LookupPkIInv, ReadDbIInv,
     SetSearchIInv, SetPkIInv, FinishIInv DEF ReadStep
<1>3. ASSUME NEW w \in Writers, NEW i \in Ids, NEW v \in Row,
             NEW own \in BOOLEAN, NEW drop \in {{i}, Ids},
             TxBegin(w, i, v, own, drop)
      PROVE  IInv'
  BY <1>3, TxBeginIInv
<1>4. ASSUME NEW w \in Writers, TxStep(w) PROVE IInv'
  BY <1>4, DropSearchIInv, DropPkIInv, EndTxIInv DEF TxStep
<1>5. CASE ExpireSearch \/ \E i \in Ids : ExpirePk(i)
  BY <1>5, ExpireIInv
<1>6. QED
  BY <1>1, <1>2, <1>3, <1>4, <1>5 DEF Next

(* An entry that differs from the database was filled beside a transaction *)
(* or waits for the invalidation of a committed one, and a query no        *)
(* transaction overlapped is answered from the rows (mdb/gm2c.go).         *)
THEOREM EntriesStayFresh == Spec => []EntriesFresh
BY InitIInv, NextIInv, PTL DEF Spec, IInv, EntriesFresh

(* A query that met no transaction and no tainted entry answers with what  *)
(* the database holds, whatever the cache went through before.             *)
THEOREM QuietQueriesRight == Spec => []QuietAnswers
<1>1. IInv => QuietAnswers
  BY DEF IInv, ReadersRight, ReaderRight, AnswerFresh, QuietAnswers
<1>2. QED
  BY <1>1, InitIInv, NextIInv, PTL DEF Spec

(* Equal queries under way have one executor (singleflight).               *)
THEOREM OneExecutor == Spec => []OneFlight
<1>1. ASSUME IInv, NEW q \in Queries, NEW r \in Readers,
             rd[r].q = q, rd[r].pc \notin {"idle", "done"}
      PROVE  rd[r].pc = "follow" <=> flight[q] # r
  <2>1. rd[r].pc \in Executing \cup {"follow"}
    BY <1>1 DEF IInv, TypeOK, ReaderPC, Executing
  <2>2. QED
    BY <1>1, <2>1 DEF IInv, Flights, Executing
<1>2. IInv => OneFlight
  BY <1>1 DEF OneFlight
<1>3. QED
  BY <1>2, InitIInv, NextIInv, PTL DEF Spec
=============================================================================
