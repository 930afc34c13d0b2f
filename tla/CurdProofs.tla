----------------------------- MODULE CurdProofs -----------------------------
(***************************************************************************)
(* Proofs about Curd: no update is lost, and the version a caller sends is *)
(* a condition.  The argument: two rows the database has held that agree   *)
(* on the version are the same row, so an old row, however stale, that     *)
(* passes the version test is the current row.                             *)
(***************************************************************************)
EXTENDS Curd, TLAPS

(* The committed versions grow, and a version identifies its row. *)
Versions ==
  /\ row \in past
  /\ \A p \in past \ {Absent} :
       p.ver # 0 /\ (row # Absent => p.ver <= row.ver)
  /\ \A p, q \in past \ {Absent} : p.ver = q.ver => p = q

(* The cache and the calls hold rows of the past, or the zero struct.      *)
FromPast ==
  /\ cache \in past \cup {ZeroRow, Absent, Miss}
  /\ \A c \in Clients : cl[c].old \in past \cup {ZeroRow, Absent}

(* A read that found no row has failed. *)
Checked == \A c \in Clients :
             cl[c].pc = "fill" /\ cl[c].old = Absent => cl[c].failed

IInv == TypeOK /\ Versions /\ FromPast /\ Checked

-----------------------------------------------------------------------------
LEMMA FirstRows == FirstRow \in Row /\ ZeroRow \in Row
BY DEF FirstRow, ZeroRow, Row

LEMMA InitIInv == Init => IInv
<1> SUFFICES ASSUME Init PROVE IInv
  OBVIOUS
<1>1. NoCall \in CallType
  BY FirstRows DEF NoCall, CallType, PC, Op
<1>2. TypeOK
  BY <1>1, FirstRows, RowsApart DEF Init, TypeOK, Writing, NoCall
<1>3. Versions
  BY DEF Init, Versions, FirstRow
<1>4. FromPast /\ Checked
  BY DEF Init, FromPast, Checked, NoCall
<1>5. QED
  BY <1>2, <1>3, <1>4 DEF IInv

(* One call goes on: what it takes with it has to be right. *)
LEMMA GoOnIInv ==
  ASSUME TypeOK, FromPast, Checked, past' = past, NEW c \in Clients,
         NEW pc \in PC, NEW old \in past \cup {ZeroRow, Absent},
         NEW failed \in BOOLEAN, GoOn(c, pc, old, failed),
         pc \in {"stmt", "drop", "commit"} => old \in Row,
         pc = "fill" /\ old = Absent => failed
  PROVE  /\ cl' \in [Clients -> CallType]
         /\ \A d \in Clients : Writing(d)' => cl'[d].old \in Row
         /\ \A d \in Clients : cl'[d].old \in past \cup {ZeroRow, Absent}
         /\ Checked'
<1> DEFINE new == [pc |-> pc, op |-> cl[c].op, cols |-> cl[c].cols,
                   n |-> cl[c].n, given |-> cl[c].given, old |-> old,
                   failed |-> failed]
<1>1. cl[c] \in CallType
  BY DEF TypeOK
<1>2. old \in Row \cup {Absent}
  BY FirstRows DEF TypeOK
<1>3. new \in CallType /\ new.pc = pc /\ new.old = old /\ new.failed = failed
  BY <1>1, <1>2 DEF CallType
<1>4. cl' = [cl EXCEPT ![c] = new]
  BY DEF GoOn
<1> HIDE DEF new
<1>5. cl' \in [Clients -> CallType]
  BY <1>3, <1>4 DEF TypeOK
<1>6. ASSUME NEW d \in Clients
      PROVE  /\ Writing(d)' => cl'[d].old \in Row
             /\ cl'[d].old \in past \cup {ZeroRow, Absent}
             /\ cl'[d].pc = "fill" /\ cl'[d].old = Absent => cl'[d].failed
  <2>1. CASE d = c
    BY <1>3, <1>4, <2>1 DEF TypeOK, Writing
  <2>2. CASE d # c
    <3>1. cl'[d] = cl[d]
      BY <1>4, <2>2 DEF TypeOK
    <3>2. QED
      BY <3>1 DEF TypeOK, FromPast, Checked, Writing
  <2>3. QED
    BY <2>1, <2>2
<1>7. QED
  BY <1>5, <1>6 DEF Checked

(* What a statement writes is the old row, no row, or a row with the next  *)
(* version.                                                                *)
LEMMA AfterCases ==
  ASSUME TypeOK, NEW c \in Clients, Writing(c)
  PROVE  \/ After(c) \in {row, Absent}
         \/ row \in Row /\ After(c) \in Row /\ After(c).ver = row.ver + 1
<1>1. cl[c] \in CallType /\ cl[c].old \in Row
  BY DEF TypeOK
<1>2. CASE ~Matches(c) \/ cl[c].op = "delete"
  BY <1>2 DEF After
<1>3. CASE Matches(c) /\ cl[c].op # "delete"
  <2>1. row \in Row
    BY <1>3 DEF Matches, TypeOK
  <2>2. Merged(c) \in [Columns -> Nat]
    <3>1. cl[c].n \in Nat /\ cl[c].old.cols \in [Columns -> Nat]
      BY <1>1 DEF CallType, Row
    <3>2. QED
      BY <3>1 DEF Merged
  <2>3. Written(c) \in [Columns -> Nat]
    <3>1. cl[c].n \in Nat /\ row.cols \in [Columns -> Nat]
      BY <1>1, <2>1 DEF CallType, Row
    <3>2. QED
      BY <2>2, <3>1 DEF Written
  <2>4. row.ver + 1 \in Nat
    BY <2>1 DEF Row
  <2>5. After(c) = [cols |-> Written(c), ver |-> row.ver + 1]
    BY <1>3 DEF After
  <2>6. QED
    BY <2>1, <2>3, <2>4, <2>5 DEF Row
<1>4. QED
  BY <1>2, <1>3

(* A commit keeps versions and rows in step. *)
LEMMA CommitIInv ==
  ASSUME IInv, NEW c \in Clients, Commit(c)
  PROVE  IInv'
<1>1. /\ cl[c].pc = "commit" /\ Writing(c)
      /\ row' = After(c) /\ past' = past \cup {row'} /\ cache' = cache
      /\ ops' = ops
  BY DEF Commit, Writing
<1>2. \/ row' \in {row, Absent}
      \/ row \in Row /\ row' \in Row /\ row'.ver = row.ver + 1
  BY <1>1, AfterCases DEF IInv
<1>3. /\ cl' \in [Clients -> CallType]
      /\ \A d \in Clients : Writing(d)' => cl'[d].old \in Row
      /\ \A d \in Clients : cl'[d].old \in past \cup {ZeroRow, Absent}
      /\ Checked'
  <2>1. GoOn(c, "idle", cl[c].old, cl[c].failed)
    BY DEF Commit, ClTo
  <2>2. cl[c].old \in past \cup {ZeroRow, Absent} /\ cl[c].failed \in BOOLEAN
    BY DEF IInv, FromPast, TypeOK, CallType
  <2>3. cl' = [cl EXCEPT ![c] = [pc |-> "idle", op |-> cl[c].op,
                 cols |-> cl[c].cols, n |-> cl[c].n, given |-> cl[c].given,
                 old |-> cl[c].old, failed |-> cl[c].failed]]
    BY <2>1 DEF GoOn
  <2>4. ASSUME NEW d \in Clients
        PROVE  /\ cl'[d] \in CallType
               /\ Writing(d)' => cl'[d].old \in Row
               /\ cl'[d].old \in past \cup {ZeroRow, Absent}
               /\ cl'[d].pc = "fill" /\ cl'[d].old = Absent => cl'[d].failed
    <3>1. CASE d = c
      <4>1. cl[c] \in CallType
        BY DEF IInv, TypeOK
      <4>2. cl'[c].pc = "idle" /\ cl'[c].old = cl[c].old /\ cl'[c] \in CallType
        BY <2>3, <4>1 DEF IInv, TypeOK, CallType, PC
      <4>3. QED
        BY <2>2, <3>1, <4>2 DEF Writing
    <3>2. CASE d # c
      <4>1. cl'[d] = cl[d]
        BY <2>3, <3>2 DEF IInv, TypeOK
      <4>2. QED
        BY <4>1 DEF IInv, TypeOK, FromPast, Checked, Writing
    <3>3. QED
      BY <3>1, <3>2
  <2>5. cl' \in [Clients -> CallType]
    BY <2>3, <2>4 DEF IInv, TypeOK
  <2>6. QED
    BY <2>4, <2>5 DEF Checked
<1>4. TypeOK'
  BY <1>1, <1>2, <1>3 DEF IInv, TypeOK
<1>5. Versions'
  <2>1. row' \in past'
    BY <1>1
  <2>2. CASE row' \in {row, Absent}
    BY <1>1, <2>1, <2>2 DEF IInv, Versions
  <2>3. CASE row \in Row /\ row' \in Row /\ row'.ver = row.ver + 1
    <3>1. row # Absent /\ row' # Absent
      BY <2>3, RowsApart
    <3>2. \A p \in past \ {Absent} : p \in Row /\ p.ver \in Nat
      BY DEF IInv, TypeOK, Row
    <3>3. \A p \in past \ {Absent} : p.ver # 0 /\ p.ver < row'.ver
      <4>1. row.ver \in Nat
        BY <2>3 DEF Row
      <4>2. QED
        BY <2>3, <3>1, <3>2, <4>1 DEF IInv, Versions
    <3>4. row'.ver \in Nat /\ row'.ver # 0
      BY <2>3 DEF Row
    <3>5. QED
      BY <1>1, <2>1, <3>1, <3>2, <3>3, <3>4 DEF IInv, Versions
  <2>4. QED
    BY <1>2, <2>2, <2>3
<1>6. FromPast'
  BY <1>1, <1>3 DEF IInv, FromPast
<1>7. QED
  BY <1>3, <1>4, <1>5, <1>6 DEF IInv

(* The steps of a call before its commit. *)
LEMMA CallIInv ==
  ASSUME IInv, NEW c \in Clients,
         Take(c) \/ ReadDb(c) \/ ReadFails(c) \/ Fill(c) \/ Statement(c)
           \/ DropEntry(c) \/ Rollback(c)
  PROVE  IInv'
<1>1. row' = row /\ past' = past /\ ops' = ops
  BY DEF Take, ReadDb, ReadFails, Fill, Statement, DropEntry, Rollback
<1>2. cl[c] \in CallType /\ cl[c].old \in past \cup {ZeroRow, Absent}
  BY DEF IInv, TypeOK, FromPast
<1>3. cl[c].failed \in BOOLEAN
  BY <1>2 DEF CallType
<1>4. PICK pc \in PC, old \in past \cup {ZeroRow, Absent}, failed \in BOOLEAN :
        /\ GoOn(c, pc, old, failed)
        /\ pc \in {"stmt", "drop", "commit"} => old \in Row
        /\ pc = "fill" /\ old = Absent => failed
        /\ cache' \in {cache, Miss, cl[c].old}
  <2>1. CASE Take(c)
    <3>1. CASE cache # Miss /\ cache # Absent
      <4>1. GoOn(c, "stmt", cache, FALSE) /\ cache' = cache
        BY <2>1, <3>1 DEF Take, IsNull
      <4>2. cache \in Row /\ cache \in past \cup {ZeroRow, Absent}
        BY <3>1 DEF IInv, TypeOK, FromPast
      <4>3. QED
        BY <4>1, <4>2 DEF PC
    <3>2. CASE cache = Miss \/ cache = Absent
      BY <1>2, <1>3, <2>1, <3>2, CurdAssumption DEF Take, IsNull, ClTo, PC
    <3>3. QED
      BY <3>1, <3>2
  <2>2. CASE ReadDb(c)
    BY <2>2 DEF ReadDb, IInv, Versions, PC
  <2>3. CASE ReadFails(c)
    BY <2>3 DEF ReadFails, PC
  <2>4. CASE Fill(c)
    <3>1. ~cl[c].failed => cl[c].old \in Row
      BY <1>2, <2>4 DEF Fill, IInv, Checked, CallType
    <3>2. QED
      BY <1>2, <1>3, <2>4, <3>1 DEF Fill, ClTo, PC
  <2>5. CASE Statement(c)
    BY <1>2, <1>3, <2>5 DEF Statement, ClTo, IInv, TypeOK, Writing, PC
  <2>6. CASE DropEntry(c)
    BY <1>2, <1>3, <2>6 DEF DropEntry, ClTo, IInv, TypeOK, Writing, PC
  <2>7. CASE Rollback(c)
    BY <1>2, <1>3, <2>7 DEF Rollback, ClTo, PC
  <2>8. QED
    BY <2>1, <2>2, <2>3, <2>4, <2>5, <2>6, <2>7
<1>5. /\ cl' \in [Clients -> CallType]
      /\ \A d \in Clients : Writing(d)' => cl'[d].old \in Row
      /\ \A d \in Clients : cl'[d].old \in past \cup {ZeroRow, Absent}
      /\ Checked'
  BY <1>1, <1>4, GoOnIInv, Zenon DEF IInv
<1>6. cache' \in past \cup {ZeroRow, Absent, Miss} /\ cache' \in Row \cup {Absent, Miss}
  BY <1>2, <1>4 DEF IInv, FromPast, TypeOK, CallType
<1>7. QED
  BY <1>1, <1>5, <1>6 DEF IInv, TypeOK, Versions, FromPast

LEMMA BeginIInv ==
  ASSUME IInv, NEW c \in Clients, NEW op \in Op, NEW cols \in SUBSET Columns,
         NEW given \in Seen, Begin(c, op, cols, given)
  PROVE  IInv'
<1>1. given \in Nat /\ ops + 1 \in Nat
  <2>1. \A r \in past \ {Absent} : r.ver \in Nat
    BY DEF IInv, TypeOK, Row
  <2>2. QED
    BY <2>1 DEF Seen, IInv, TypeOK
<1> DEFINE new == Call(op, cols, ops + 1, given)
<1>2. new \in CallType /\ new.pc = "take" /\ new.old = ZeroRow
  BY <1>1, FirstRows DEF Call, CallType, PC
<1>3. /\ cl' = [cl EXCEPT ![c] = new]
      /\ row' = row /\ past' = past /\ cache' = cache /\ ops' = ops + 1
  BY DEF Begin
<1> HIDE DEF new
<1>4. ASSUME NEW d \in Clients
      PROVE  \/ cl'[d] = cl[d]
             \/ cl'[d] = new
  BY <1>3 DEF IInv, TypeOK
<1>5. TypeOK'
  <2>1. cl' \in [Clients -> CallType]
    BY <1>2, <1>3 DEF IInv, TypeOK
  <2>2. \A d \in Clients : Writing(d)' => cl'[d].old \in Row
    BY <1>2, <1>4 DEF IInv, TypeOK, Writing
  <2>3. QED
    BY <1>1, <1>3, <2>1, <2>2 DEF IInv, TypeOK
<1>6. FromPast' /\ Checked'
  BY <1>2, <1>3, <1>4 DEF IInv, FromPast, Checked
<1>7. QED
  BY <1>3, <1>5, <1>6 DEF IInv, Versions

LEMMA NextIInv == IInv /\ [Next]_vars => IInv'
<1> SUFFICES ASSUME IInv, [Next]_vars PROVE IInv'
  OBVIOUS
<1>1. CASE Expire
  BY <1>1 DEF Expire, IInv, TypeOK, Versions, FromPast, Checked, Writing
<1>2. CASE UNCHANGED vars
  BY <1>2 DEF vars, IInv, TypeOK, Versions, FromPast, Checked, Writing
<1>3. ASSUME NEW c \in Clients, NEW op \in Op, NEW cols \in SUBSET Columns,
             NEW given \in Seen, Begin(c, op, cols, given)
      PROVE  IInv'
  BY <1>3, BeginIInv
<1>4. ASSUME NEW c \in Clients,
             Take(c) \/ ReadDb(c) \/ ReadFails(c) \/ Fill(c) \/ Statement(c)
               \/ DropEntry(c) \/ Rollback(c)
      PROVE  IInv'
  BY <1>4, CallIInv
<1>5. ASSUME NEW c \in Clients, Commit(c) PROVE IInv'
  BY <1>5, CommitIInv
<1>6. QED
  BY <1>1, <1>2, <1>3, <1>4, <1>5 DEF Next

(* TypeOK is an invariant: a call that writes has a row to write. *)
THEOREM CurdTyping == Spec => []TypeOK
BY InitIInv, NextIInv, PTL DEF Spec, IInv

-----------------------------------------------------------------------------
(* The heart of the matter: an old row that passes the version test is the *)
(* current row.                                                            *)
LEMMA MatchIsCurrent ==
  ASSUME IInv, NEW c \in Clients, Writing(c), cl[c].op # "delete",
         cl[c].old # ZeroRow, cl[c].given \in {0, cl[c].old.ver}, Matches(c)
  PROVE  cl[c].old = row
<1>1. cl[c].old \in Row /\ row \in Row
  BY DEF IInv, TypeOK, Matches
<1>2. cl[c].old \in past \ {Absent} /\ row \in past \ {Absent}
  BY <1>1, RowsApart DEF IInv, FromPast, Versions
<1>3. WhereVersion(c) = cl[c].old.ver
  BY DEF WhereVersion
<1>4. cl[c].old.ver # 0
  BY <1>2 DEF IInv, Versions
<1>5. row.ver = cl[c].old.ver
  BY <1>3, <1>4 DEF Matches
<1>6. QED
  BY <1>2, <1>5 DEF IInv, Versions

(* One commit changes no column of Omit that its caller did not name. *)
LEMMA CommitKeeps ==
  ASSUME IInv, NEW c \in Clients, Commit(c), cl[c].op # "delete",
         cl[c].old # ZeroRow, row # Absent,
         cl[c].given \in {0, cl[c].old.ver}, NEW k \in Omit \ cl[c].cols
  PROVE  row'.cols[k] = row.cols[k]
<1>1. Writing(c) /\ row' = After(c)
  BY DEF Commit, Writing
<1>2. CASE ~Matches(c)
  BY <1>1, <1>2 DEF After
<1>3. CASE Matches(c)
  <2>1. cl[c].old = row
    BY <1>1, <1>3, MatchIsCurrent
  <2>2. k \in Columns
    BY CurdAssumption
  <2>3. Written(c)[k] = row.cols[k]
    BY <2>1, <2>2 DEF Written, Merged
  <2>4. row' = [cols |-> Written(c), ver |-> row.ver + 1]
    BY <1>1, <1>3 DEF After
  <2>5. QED
    BY <2>3, <2>4
<1>4. QED
  BY <1>2, <1>3

(* No update is lost, whatever the cache holds and however many callers    *)
(* there are.                                                              *)
THEOREM NoUpdateLost == Spec => NoLostUpdate
<1>1. IInv /\ [Next]_vars =>
        [\A c \in Clients :
           (/\ Commit(c) /\ cl[c].op # "delete"
            /\ cl[c].old # ZeroRow /\ row # Absent
            /\ cl[c].given \in {0, cl[c].old.ver})
             => \A k \in Omit \ cl[c].cols : row'.cols[k] = row.cols[k]]_vars
  BY CommitKeeps
<1>2. QED
  BY <1>1, InitIInv, NextIInv, PTL DEF Spec, NoLostUpdate

(* An update that carries a version changes the row of that version only. *)
THEOREM VersionIsCondition == Spec => GivenVersionHolds
<1>1. ASSUME IInv, NEW c \in Clients, Commit(c), cl[c].op = "update",
             cl[c].given # 0, row' # row
      PROVE  row.ver = cl[c].given
  <2>1. Matches(c)
    BY <1>1 DEF Commit, After
  <2>2. QED
    BY <1>1, <2>1 DEF Matches, WhereVersion
<1>2. IInv /\ [Next]_vars =>
        [\A c \in Clients :
           (Commit(c) /\ cl[c].op = "update" /\ cl[c].given # 0 /\ row' # row)
             => row.ver = cl[c].given]_vars
  BY <1>1
<1>3. QED
  BY <1>2, InitIInv, NextIInv, PTL DEF Spec, GivenVersionHolds
=============================================================================
