--------------------------- MODULE SessionsProofs ---------------------------
(***************************************************************************)
(* Proofs about Sessions: a logout or a later login is final, and no       *)
(* session outlives its expiry.  The argument for the first: while a       *)
(* logout is under way, a copy it will not reach is marked, and redis, once *)
(* it is behind the logout, gets its token back from such a copy only.     *)
(* For the second: the age of a token and what a copy of it has left never *)
(* exceed Expire together.                                                 *)
(***************************************************************************)
EXTENDS Sessions, TLAPS

ReqType == [pc : PC, p : Procs \cup {None}, op : {"verify", "login", "logout"},
            tok : Tokens \cup {None}, t : Entry, ends : SUBSET Tokens]

Has(e, k) == e # None /\ e.tok = k

(* What a request has with it at each point. *)
ReqFits(q) ==
  /\ q.pc # "idle" => q.p \in Procs
  /\ q.pc \in {"fill", "check", "call", "setRedis", "setMem"} => q.t # None
  /\ q.pc \in {"setRedis", "delRedis"} => store = "redis"
  /\ q.op = "verify" => q.ends = {}
  /\ q.op = "login" => /\ q.pc \in {"setRedis", "setMem"}
                       /\ Has(q.t, q.tok) /\ q.tok \in issued \ q.ends
  /\ q.op = "logout" => q.pc \in {"delRedis", "delMem"} /\ q.t = None
  /\ q.ends \subseteq known

Fits ==
  /\ \A r \in Requests : ReqFits(req[r])
  /\ gone \subseteq known /\ known \subseteq issued
  /\ store = "map" => redis = None

(* A copy of k that r's login or logout does not reach. *)
Beside(r, k) == \/ \E s \in Requests \ {r} : Has(req[s].t, k)
                \/ \E q \in Procs \ {req[r].p} : Has(mem[q], k)

(* It is marked, and so is what redis got back behind r's step on redis.   *)
Marked ==
  \A r \in Requests : \A k \in req[r].ends :
    /\ Beside(r, k) => k \in haunted
    /\ req[r].pc \in {"setMem", "delMem"} /\ Has(redis, k) => k \in haunted

(* The age of a token and what is left of a copy. *)
Aged(e) == e # None /\ e.rem >= 0 => since[e.tok] + e.rem <= Expire

Ages == \A e \in Entries : Aged(e)

IInv == TypeOK /\ Fits /\ Marked /\ LogoutFinal /\ Ages

-----------------------------------------------------------------------------
LEMMA HeldIs ==
  ASSUME NEW k
  PROVE  /\ k \in Held <=> \/ Has(redis, k)
                           \/ \E p \in Procs : Has(mem[p], k)
                           \/ \E r \in Requests : Has(req[r].t, k)
         /\ k \in Held' <=> \/ Has(redis', k)
                            \/ \E p \in Procs : Has(mem'[p], k)
                            \/ \E r \in Requests : Has(req'[r].t, k)
BY DEF Held, Entries, Has

LEMMA OverlapIs ==
  ASSUME NEW k
  PROVE  k \in Overlap' <=>
           \E r \in Requests : /\ req'[r].op # "verify" /\ k \in req'[r].ends
                               /\ Beside(r, k)'
BY DEF Overlap, Beside, Has

(* What is marked stays so as long as there is a copy. *)
LEMMA MarksStay ==
  ASSUME Haunting, Fits', NEW k
  PROVE  /\ k \in haunted /\ k \in Held' => k \in haunted'
         /\ \A r \in Requests : k \in req'[r].ends /\ Beside(r, k)' => k \in haunted'
<1>1. ASSUME NEW r \in Requests, k \in req'[r].ends, Beside(r, k)'
      PROVE  k \in Overlap' /\ k \in Held'
  <2>1. req'[r].op # "verify"
    BY <1>1 DEF Fits, ReqFits
  <2>2. QED
    BY <1>1, <2>1, OverlapIs, HeldIs DEF Beside
<1>2. QED
  BY <1>1 DEF Haunting

LEMMA InitIInv == Init => IInv
<1> SUFFICES ASSUME Init PROVE IInv
  OBVIOUS
<1>1. TypeOK
  BY SessionAssumption DEF Init, TypeOK, Idle, PC, Entry
<1>2. Fits /\ Marked
  BY DEF Init, Fits, ReqFits, Marked, Idle, Has
<1>3. LogoutFinal /\ Ages
  BY DEF Init, LogoutFinal, Ages, Aged, Entries, Idle
<1>4. QED
  BY <1>1, <1>2, <1>3 DEF IInv

-----------------------------------------------------------------------------
(* What a step has to show.                                                *)

(* The type, but for haunted, which follows from the others.               *)
Typed ==
  /\ store \in {"map", "redis"} /\ redis \in Entry /\ mem \in [Procs -> Entry]
  /\ req \in [Requests -> ReqType]
  /\ issued \subseteq Tokens /\ known \subseteq Tokens /\ gone \subseteq Tokens
  /\ since \in [Tokens -> 0..Expire + 1]

LEMMA Preserved ==
  ASSUME IInv, Haunting, Typed', Fits', Ages',
         \A k \in gone' : k \in Held' => k \in haunted,
         \A r \in Requests : \A k \in req'[r].ends :
           req'[r].pc \in {"setMem", "delMem"} /\ Has(redis', k) => k \in haunted
  PROVE  IInv'
<1>1. haunted' \subseteq Tokens
  <2>1. ASSUME NEW k \in Overlap' PROVE k \in Tokens
    <3>1. PICK r \in Requests : k \in req'[r].ends
      BY <2>1, OverlapIs
    <3>2. QED
      BY <3>1 DEF Typed, ReqType
  <2>2. QED
    BY <2>1 DEF Haunting, IInv, TypeOK
<1>2. TypeOK'
  BY <1>1 DEF Typed, TypeOK, ReqType
<1>3. LogoutFinal'
  BY MarksStay DEF LogoutFinal
<1>4. Marked'
  <2>1. ASSUME NEW r \in Requests, NEW k \in req'[r].ends
        PROVE  /\ Beside(r, k)' => k \in haunted'
               /\ req'[r].pc \in {"setMem", "delMem"} /\ Has(redis', k) => k \in haunted'
    BY MarksStay, HeldIs
  <2>2. QED
    BY <2>1 DEF Marked, Has
<1>5. QED
  BY <1>2, <1>3, <1>4 DEF IInv

LEMMA IInvTyped == IInv => Typed
BY DEF IInv, TypeOK, Typed, ReqType

(* A step that changes one request. *)
LEMMA OneRequest ==
  ASSUME IInv, Haunting, NEW r \in Requests, NEW new \in ReqType,
         req' = [req EXCEPT ![r] = new],
         UNCHANGED <<store, redis, mem, gone, known>>,
         issued \subseteq issued', issued' \subseteq Tokens,
         since' \in [Tokens -> 0..Expire + 1],
         ReqFits(req[r])', new.t = None \/ new.t.tok \in Held \/ new.t.tok \notin gone,
         new.pc \in {"setMem", "delMem"} => new.ends = {} \/ redis = None,
         Aged(req[r].t)', \A e \in Entries : Aged(e)'
  PROVE  IInv'
<1>1. Typed /\ Fits /\ Marked /\ LogoutFinal
  BY IInvTyped DEF IInv
<1>2. /\ req'[r] = new
      /\ \A s \in Requests \ {r} : req'[s] = req[s]
      /\ req' \in [Requests -> ReqType]
  BY <1>1 DEF Typed
<1>3. Typed'
  BY <1>1, <1>2 DEF Typed
<1>4. Fits'
  <2>1. ASSUME NEW s \in Requests PROVE ReqFits(req[s])'
    BY <1>1, <1>2 DEF Fits, ReqFits, Has
  <2>2. QED
    BY <1>1, <2>1 DEF Fits
<1>5. Ages'
  <2>1. ASSUME NEW e \in Entries' PROVE e \in Entries \/ e = req'[r].t
    BY <1>2, <2>1 DEF Entries
  <2>2. QED
    BY <2>1 DEF Ages, Aged
<1>6. ASSUME NEW k \in gone', k \in Held' PROVE k \in haunted
  <2>1. Has(new.t, k) => k \in Held
    BY <1>6 DEF Has
  <2>2. k \in Held
    BY <1>2, <1>6, <2>1, HeldIs
  <2>3. QED
    BY <1>1, <1>6, <2>2 DEF LogoutFinal
<1>7. \A s \in Requests : \A k \in req'[s].ends :
        req'[s].pc \in {"setMem", "delMem"} /\ Has(redis', k) => k \in haunted
  BY <1>1, <1>2 DEF Marked, Has
<1>8. QED
  BY <1>3, <1>4, <1>5, <1>6, <1>7, Preserved

(* The ages do not change when since does not. *)
LEMMA AgesStay ==
  ASSUME IInv, since' = since
  PROVE  \A e \in Entries : Aged(e)'
BY DEF IInv, Ages, Aged

LEMMA IdleFits == Idle \in ReqType /\ Idle.t = None /\ Idle.ends = {} /\ Idle.op = "verify" /\ Idle.pc = "idle" /\ ReqFits(Idle)'
BY DEF Idle, ReqType, PC, Entry, ReqFits

LEMMA ArriveIInv ==
  ASSUME IInv, Haunting, NEW r \in Requests, NEW p \in Procs, Arrives(r, p)
  PROVE  IInv'
<1>1. Typed /\ Fits
  BY IInvTyped DEF IInv
<1>2. CASE \E k \in Tokens : Login(r, p, k)
  <2>1. PICK k \in Tokens : Login(r, p, k)
    BY <1>2
  <2> DEFINE new == [pc |-> FirstSet, p |-> p, op |-> "login", tok |-> k,
                     t |-> [tok |-> k, rem |-> Expire], ends |-> known \ gone]
  <2>2. /\ req' = [req EXCEPT ![r] = new] /\ k \notin issued
        /\ issued' = issued \cup {k} /\ since' = [since EXCEPT ![k] = 0]
        /\ UNCHANGED <<store, redis, mem, gone, known>>
    BY <2>1 DEF Login, Begin
  <2>3. [tok |-> k, rem |-> Expire] \in Token /\ new.t # None
    BY SessionAssumption DEF Token
  <2>4. new \in ReqType
    BY <1>1, <2>3 DEF ReqType, PC, Entry, FirstSet, Typed
  <2> HIDE DEF new
  <2>5. req'[r] = new
    BY <1>1, <2>2 DEF Typed
  <2>6. ReqFits(req[r])'
    BY <1>1, <2>2, <2>3, <2>5 DEF new, ReqFits, FirstSet, Has, Fits, Typed
  <2>7. since' \in [Tokens -> 0..Expire + 1]
    BY <1>1, <2>2, SessionAssumption DEF Typed
  <2>8. ASSUME NEW e \in Entry, Aged(e) PROVE Aged(e)'
    BY <1>1, <2>2, <2>8, SessionAssumption DEF Aged, Entry, Token, Typed
  <2>9. Aged(req[r].t)'
    BY <1>1, <2>2, <2>5, SessionAssumption DEF new, Aged, Typed
  <2>10. Entries \subseteq Entry
    BY <1>1 DEF Entries, Typed, ReqType
  <2>11. new.t.tok \notin gone /\ (new.pc = "setMem" => redis = None)
    BY <1>1, <2>2 DEF new, Fits, FirstSet, Typed
  <2>12. new.pc # "delMem"
    BY DEF new, FirstSet
  <2>13. QED
    BY <1>1, <2>2, <2>4, <2>6, <2>7, <2>8, <2>9, <2>10, <2>11, <2>12, OneRequest
    DEF IInv, Ages, Typed
<1>3. CASE Logout(r, p)
  <2> DEFINE new == [pc |-> FirstDel, p |-> p, op |-> "logout", tok |-> None,
                     t |-> None, ends |-> known \ gone]
  <2>1. /\ req' = [req EXCEPT ![r] = new]
        /\ UNCHANGED <<store, redis, mem, gone, known, issued, since>>
    BY <1>3 DEF Logout, Begin
  <2>2. new \in ReqType
    BY <1>1 DEF ReqType, PC, Entry, FirstDel, Typed
  <2>3. ReqFits(req[r])' /\ Aged(req[r].t)'
    <3>1. req'[r] = new
      BY <1>1, <2>1 DEF Typed
    <3>2. QED
      BY <1>1, <2>1, <3>1 DEF ReqFits, FirstDel, Has, Fits, Aged, Typed
  <2>4. (new.pc = "delMem" => redis = None) /\ new.pc # "setMem"
    BY <1>1 DEF Fits, FirstDel, Typed
  <2>5. QED
    BY <1>1, <2>1, <2>2, <2>3, <2>4, AgesStay, OneRequest DEF Typed
<1>4. CASE \E k \in Tokens : Verify(r, p, k)
  <2>1. PICK k \in Tokens : Verify(r, p, k)
    BY <1>4
  <2> DEFINE new == [pc |-> "mem", p |-> p, op |-> "verify", tok |-> k,
                     t |-> None, ends |-> {}]
  <2>2. /\ req' = [req EXCEPT ![r] = new]
        /\ UNCHANGED <<store, redis, mem, gone, known, issued, since>>
    BY <2>1 DEF Verify, Begin
  <2>3. new \in ReqType
    BY DEF ReqType, PC, Entry
  <2>5. ReqFits(req[r])' /\ Aged(req[r].t)'
    <3>1. req'[r] = new
      BY <1>1, <2>2 DEF Typed
    <3>2. QED
      BY <3>1 DEF ReqFits, Aged
  <2>4. QED
    BY <1>1, <2>2, <2>3, <2>5, AgesStay, OneRequest DEF Typed
<1>5. QED
  BY <1>2, <1>3, <1>4 DEF Arrives

-----------------------------------------------------------------------------
(* Steps of one request.                                                   *)

LEMMA AnswerIInv ==
  ASSUME IInv, Haunting, NEW r \in Requests, Answer(r),
         UNCHANGED <<store, redis, mem, issued, known, since, gone>>
  PROVE  IInv'
<1>1. Typed /\ req' = [req EXCEPT ![r] = Idle] /\ Idle \in ReqType
  BY IInvTyped, IdleFits DEF Answer
<1>2. req'[r] = Idle
  BY <1>1 DEF Typed
<1>3. ReqFits(req[r])' /\ Aged(req[r].t)'
  BY <1>2, IdleFits DEF ReqFits, Aged
<1>4. QED
  BY <1>1, <1>3, AgesStay, OneRequest, IdleFits DEF Typed

(* A request goes on with a copy it has met. *)
LEMMA HoldsIInv ==
  ASSUME IInv, Haunting, NEW r \in Requests, NEW pc \in PC, NEW t \in Entry,
         Holds(r, pc, t), UNCHANGED <<store, redis, mem, issued, known, since, gone>>,
         req[r].pc # "idle", req[r].op = "verify", pc \notin {"delRedis", "delMem"},
         pc \in {"fill", "check", "call", "setRedis", "setMem"} => t # None,
         pc = "setRedis" => store = "redis", t = None \/ t \in Entries
  PROVE  IInv'
<1> DEFINE new == [req[r] EXCEPT !.pc = pc, !.t = t]
<1>1. Typed /\ Fits /\ req' = [req EXCEPT ![r] = new]
  BY IInvTyped DEF Holds, IInv, Typed
<1>2. /\ new \in ReqType /\ new.pc = pc /\ new.t = t /\ new.op = "verify"
      /\ new.p = req[r].p /\ new.ends = {} /\ req'[r] = new
  BY <1>1 DEF Typed, ReqType, Fits, ReqFits
<1>3. ReqFits(req[r])'
  BY <1>1, <1>2 DEF ReqFits, Fits
<1>4. Aged(req[r].t)'
  BY <1>2, AgesStay DEF Aged
<1>5. t = None \/ t.tok \in Held
  BY DEF Held
<1>6. QED
  BY <1>1, <1>2, <1>3, <1>4, <1>5, AgesStay, OneRequest DEF Typed

LEMMA ReadStepIInv ==
  ASSUME IInv, Haunting, NEW r \in Requests,
         GetMem(r) \/ GetRedis(r) \/ Check(r) \/ CallFails(r) \/ Unrefreshed(r)
  PROVE  IInv'
<1>1. /\ UNCHANGED <<store, redis, mem, issued, known, since, gone>>
      /\ req[r].pc \in {"mem", "redis", "check", "call"}
  BY DEF GetMem, GetRedis, Check, CallFails, Unrefreshed
<1>2. Typed /\ ReqFits(req[r]) /\ req[r] \in ReqType
  BY IInvTyped DEF IInv, Fits, Typed
<1>3. req[r].op = "verify"
  BY <1>1, <1>2 DEF ReqFits, ReqType
<1>4. mem[req[r].p] \in Entries \cap Entry /\ redis \in Entries \cap Entry
        /\ req[r].t \in Entries \cap Entry
  BY <1>1, <1>2 DEF ReqFits, Entries, Typed, ReqType
<1>5. ASSUME NEW pc \in PC, ReqTo(r, pc) PROVE Holds(r, pc, req[r].t)
  BY <1>2, <1>5 DEF ReqTo, Holds, Typed, ReqType
<1>6. CASE GetMem(r)
  <2>1. \/ Holds(r, "check", mem[req[r].p]) /\ mem[req[r].p] # None
        \/ Answer(r) \/ ReqTo(r, "redis")
    BY <1>6 DEF GetMem
  <2>2. QED
    BY <1>1, <1>3, <1>4, <1>5, <2>1, HoldsIInv, AnswerIInv DEF PC
<1>7. CASE GetRedis(r)
  <2>1. Answer(r) \/ (Holds(r, "fill", redis) /\ redis # None)
    BY <1>7 DEF GetRedis
  <2>2. QED
    BY <1>1, <1>3, <1>4, <2>1, HoldsIInv, AnswerIInv DEF PC
<1>8. CASE Check(r)
  <2>1. (Answer(r) \/ ReqTo(r, "call")) /\ req[r].t # None
    BY <1>2, <1>8 DEF Check, ReqFits
  <2>2. QED
    BY <1>1, <1>3, <1>4, <1>5, <2>1, HoldsIInv, AnswerIInv DEF PC
<1>9. CASE CallFails(r) \/ Unrefreshed(r)
  BY <1>1, <1>9, AnswerIInv DEF CallFails, Unrefreshed
<1>10. QED
  BY <1>6, <1>7, <1>8, <1>9

-----------------------------------------------------------------------------
(* Steps that move copies.                                                 *)

LEMMA NoNewCopy ==
  ASSUME IInv, Haunting, Typed', Fits', Ages', gone' = gone,
         \A k \in Held' : k \in Held,
         \A r \in Requests : \A k \in req'[r].ends :
           req'[r].pc \in {"setMem", "delMem"} /\ Has(redis', k) =>
             k \in req[r].ends /\ req[r].pc \in {"setMem", "delMem"} /\ Has(redis, k)
  PROVE  IInv'
<1>1. \A k \in gone' : k \in Held' => k \in haunted
  BY DEF IInv, LogoutFinal
<1>2. \A r \in Requests : \A k \in req'[r].ends :
        req'[r].pc \in {"setMem", "delMem"} /\ Has(redis', k) => k \in haunted
  BY DEF IInv, Marked
<1>3. QED
  BY <1>1, <1>2, Preserved

LEMMA FillMemIInv ==
  ASSUME IInv, Haunting, NEW r \in Requests, FillMem(r)
  PROVE  IInv'
<1> DEFINE new == [req[r] EXCEPT !.pc = "check"]
<1>1. Typed /\ Fits /\ req[r].pc = "fill" /\ UNCHANGED <<store, redis, issued, known, since, gone>>
  BY IInvTyped DEF FillMem, IInv
<1>2. /\ mem' = [mem EXCEPT ![req[r].p] = req[r].t]
      /\ req' = [req EXCEPT ![r] = new]
  BY <1>1 DEF FillMem, ReqTo, Typed
<1>3. /\ new \in ReqType /\ new.pc = "check" /\ new.t = req[r].t /\ new.op = "verify"
      /\ new.p = req[r].p /\ new.ends = {}
      /\ req[r].p \in Procs /\ req[r].t # None /\ req[r].t \in Entry
  BY <1>1 DEF Typed, ReqType, PC, Fits, ReqFits
<1> HIDE DEF new
<1>4. /\ \A s \in Requests : req'[s] = IF s = r THEN new ELSE req[s]
      /\ \A q \in Procs : mem'[q] = IF q = req[r].p THEN req[r].t ELSE mem[q]
      /\ Typed'
  BY <1>1, <1>2, <1>3 DEF Typed
<1>5. Fits'
  <2>1. ASSUME NEW s \in Requests PROVE ReqFits(req[s])'
    BY <1>1, <1>3, <1>4 DEF Fits, ReqFits
  <2>2. QED
    BY <1>1, <2>1 DEF Fits
<1>6. Ages'
  <2>1. ASSUME NEW e \in Entries' PROVE e \in Entries
    BY <1>1, <1>3, <1>4, <2>1 DEF Entries
  <2>2. QED
    BY <1>1, <2>1, AgesStay DEF Ages
<1>7. ASSUME NEW k \in Held' PROVE k \in Held
  BY <1>1, <1>3, <1>4, HeldIs
<1>8. QED
  BY <1>1, <1>3, <1>4, <1>5, <1>6, <1>7, NoNewCopy

LEMMA RenewedIs ==
  ASSUME Typed, NEW e \in Entry, NEW k \in Tokens
  PROVE  /\ Renewed(e, k) \in Entry
         /\ Renewed(e, k) = None <=> e = None
         /\ e # None => Renewed(e, k).tok = e.tok
         /\ Has(e, k) => Renewed(e, k).rem = Expire
         /\ ~Has(e, k) => Renewed(e, k) = e
<1>1. [tok |-> k, rem |-> Expire] \in Token
  BY SessionAssumption DEF Token
<1>2. QED
  BY <1>1, SessionAssumption DEF Renewed, Entry, Has

LEMMA RefreshIInv ==
  ASSUME IInv, Haunting, NEW r \in Requests, Refresh(r)
  PROVE  IInv'
<1>1. Typed /\ Fits /\ req[r].pc = "call" /\ UNCHANGED <<store, redis, issued, known, gone>>
  BY IInvTyped DEF Refresh, IInv
<1>2. /\ req[r] \in ReqType /\ req[r].t # None /\ req[r].t \in Token
      /\ req[r].op = "verify" /\ req[r].ends = {} /\ req[r].p \in Procs
  BY <1>1 DEF Typed, ReqType, Fits, ReqFits, Entry
<1>3. PICK k \in Tokens : k = req[r].t.tok
  BY <1>2 DEF Token
<1>4. since' = [since EXCEPT ![k] = 0]
  BY <1>3 DEF Refresh
<1>5. since' \in [Tokens -> 0..Expire + 1]
  BY <1>1, <1>4, <1>2, SessionAssumption DEF Typed
<1>6. ASSUME NEW e \in Entry, Aged(e) PROVE Aged(e)'
  BY <1>1, <1>4, <1>2, <1>6, SessionAssumption DEF Aged, Entry, Token, Typed
<1>7. ASSUME NEW e \in Entry, Aged(e) PROVE Aged(Renewed(e, k))'
  <2>1. CASE Has(e, k)
    <3>1. Renewed(e, k).rem = Expire /\ Renewed(e, k).tok = k
      BY <1>1, <1>2, <2>1, RenewedIs DEF Has
    <3>2. since'[k] + Expire <= Expire
      BY <1>1, <1>4, <1>2, SessionAssumption DEF Typed
    <3>3. QED
      BY <3>1, <3>2 DEF Aged
  <2>2. CASE ~Has(e, k)
    BY <1>1, <1>2, <1>6, <1>7, <2>2, RenewedIs
  <2>3. QED
    BY <2>1, <2>2
<1>8. CASE store = "map"
  <2>1. /\ req' = [s \in Requests |->
                     [req[s] EXCEPT !.pc = IF s = r THEN "setMem" ELSE @,
                                    !.t = Renewed(@, k)]]
        /\ mem' = [p \in Procs |-> Renewed(mem[p], k)]
        /\ redis = None
    BY <1>1, <1>3, <1>8 DEF Refresh, Fits
  <2>2. ASSUME NEW s \in Requests
        PROVE  /\ req[s] \in ReqType /\ req'[s] \in ReqType
               /\ req'[s].t = Renewed(req[s].t, k)
               /\ req'[s].pc = (IF s = r THEN "setMem" ELSE req[s].pc)
               /\ req'[s].p = req[s].p /\ req'[s].op = req[s].op
               /\ req'[s].tok = req[s].tok /\ req'[s].ends = req[s].ends
    <3>1. req[s] \in ReqType
      BY <1>1 DEF Typed
    <3>2. Renewed(req[s].t, k) \in Entry
      BY <1>1, <1>2, <3>1, RenewedIs DEF ReqType
    <3>3. QED
      BY <2>1, <3>1, <3>2 DEF ReqType, PC
  <2>3. ASSUME NEW p \in Procs
        PROVE  mem[p] \in Entry /\ mem'[p] \in Entry /\ mem'[p] = Renewed(mem[p], k)
    BY <1>1, <1>2, <2>1, RenewedIs DEF Typed
  <2>4. Typed'
    <3>1. req' \in [Requests -> ReqType] /\ mem' \in [Procs -> Entry]
      BY <2>1, <2>2, <2>3
    <3>2. QED
      BY <1>1, <1>5, <3>1 DEF Typed
  <2>5. Fits'
    <3>1. ASSUME NEW s \in Requests PROVE ReqFits(req[s])'
      <4>1. /\ req'[s].t = None <=> req[s].t = None
            /\ req[s].t # None => req'[s].t.tok = req[s].t.tok
        BY <1>1, <1>2, <2>2, RenewedIs DEF ReqType
      <4>2. ReqFits(req[s])
        BY <1>1 DEF Fits
      <4>3. QED
        BY <1>1, <1>2, <2>2, <4>1, <4>2 DEF ReqFits, Has
    <3>2. QED
      BY <1>1, <3>1 DEF Fits
  <2>6. Ages'
    <3>1. ASSUME NEW e \in Entries' PROVE Aged(e)'
      <4>1. CASE e = redis'
        BY <1>1, <2>1, <4>1 DEF Aged
      <4>2. CASE \E p \in Procs : e = mem'[p]
        BY <1>7, <2>3, <4>2 DEF IInv, Ages, Entries
      <4>3. CASE \E s \in Requests : e = req'[s].t
        BY <1>7, <2>2, <4>3 DEF IInv, Ages, Entries, ReqType
      <4>4. QED
        BY <3>1, <4>1, <4>2, <4>3 DEF Entries
    <3>2. QED
      BY <3>1 DEF Ages
  <2>7. ASSUME NEW i \in Held' PROVE i \in Held
    <3>1. ASSUME NEW e \in Entry, Has(Renewed(e, k), i) PROVE Has(e, i)
      BY <1>1, <1>2, <3>1, RenewedIs DEF Has
    <3>2. QED
      BY <1>1, <2>2, <2>3, <2>7, <3>1, HeldIs DEF ReqType
  <2>8. \A i \in Tokens : ~Has(redis', i)
    BY <1>1, <2>1 DEF Has
  <2>9. QED
    BY <1>1, <2>2, <2>4, <2>5, <2>6, <2>7, <2>8, NoNewCopy DEF ReqType
<1>9. CASE store = "redis"
  <2> DEFINE new == [req[r] EXCEPT !.pc = "setRedis", !.t = Renewed(req[r].t, k)]
  <2>1. req' = [req EXCEPT ![r] = new] /\ UNCHANGED mem
    BY <1>1, <1>3, <1>9 DEF Refresh, Holds, Typed
  <2>2. /\ Renewed(req[r].t, k) \in Entry /\ Renewed(req[r].t, k) # None
        /\ Renewed(req[r].t, k).tok = k
    BY <1>1, <1>2, <1>3, RenewedIs DEF Entry
  <2>3. /\ new \in ReqType /\ new.pc = "setRedis" /\ new.t = Renewed(req[r].t, k)
        /\ new.op = "verify" /\ new.p = req[r].p /\ new.ends = {}
    BY <1>2, <2>2 DEF ReqType, PC
  <2> HIDE DEF new
  <2>4. req'[r] = new
    BY <1>1, <2>1 DEF Typed
  <2>5. ReqFits(req[r])'
    BY <1>1, <1>2, <1>9, <2>2, <2>3, <2>4 DEF ReqFits
  <2>6. req[r].t \in Entries /\ k \in Held
    BY <1>2, <1>3 DEF Entries, Held
  <2>7. Aged(req[r].t)'
    BY <1>2, <1>7, <2>3, <2>4, <2>6 DEF IInv, Ages, Entry, Aged
  <2>8. Entries \subseteq Entry
    BY <1>1 DEF Entries, Typed, ReqType
  <2>9. \A e \in Entries : Aged(e)'
    BY <1>6, <2>8 DEF IInv, Ages
  <2>10. QED
    BY <1>1, <1>5, <2>1, <2>2, <2>3, <2>5, <2>6, <2>7, <2>9, OneRequest DEF Typed
<1>10. QED
  BY <1>1, <1>8, <1>9 DEF Typed

(* A step that puts into redis what a request has in hand, or nothing, and *)
(* lets the request go on to its step on memory.                           *)
LEMMA RedisStepFacts ==
  ASSUME IInv, NEW r \in Requests, NEW pc \in PC, ReqTo(r, pc)
  PROVE  /\ req' \in [Requests -> ReqType]
         /\ req'[r].pc = pc /\ req'[r].t = req[r].t /\ req'[r].op = req[r].op
         /\ req'[r].p = req[r].p /\ req'[r].tok = req[r].tok
         /\ req'[r].ends = req[r].ends
         /\ \A s \in Requests \ {r} : req'[s] = req[s]
<1> DEFINE new == [req[r] EXCEPT !.pc = pc]
<1>1. Typed /\ req' = [req EXCEPT ![r] = new] /\ req[r] \in ReqType
  BY IInvTyped DEF ReqTo, Typed
<1>2. /\ new \in ReqType /\ new.pc = pc /\ new.t = req[r].t /\ new.op = req[r].op
      /\ new.p = req[r].p /\ new.tok = req[r].tok /\ new.ends = req[r].ends
  BY <1>1 DEF ReqType
<1> HIDE DEF new
<1>3. QED
  BY <1>1, <1>2 DEF Typed

LEMMA SetRedisIInv ==
  ASSUME IInv, Haunting, NEW r \in Requests, SetRedis(r)
  PROVE  IInv'
<1>1. /\ Typed /\ Fits /\ Marked /\ LogoutFinal /\ Ages /\ req[r].pc = "setRedis"
      /\ redis' = req[r].t /\ ReqTo(r, "setMem")
      /\ UNCHANGED <<store, mem, issued, known, since, gone>>
  BY IInvTyped DEF SetRedis, IInv
<1>2. /\ ReqFits(req[r]) /\ req[r].t \in Entry /\ req[r].t # None /\ store = "redis"
      /\ req[r] \in ReqType
  BY <1>1 DEF Fits, ReqFits, Typed, ReqType
<1>3. /\ req' \in [Requests -> ReqType] /\ req'[r].pc = "setMem"
      /\ \A s \in Requests : /\ req'[s].t = req[s].t /\ req'[s].op = req[s].op
                             /\ req'[s].p = req[s].p /\ req'[s].tok = req[s].tok
                             /\ req'[s].ends = req[s].ends
      /\ \A s \in Requests \ {r} : req'[s] = req[s]
  BY <1>1, RedisStepFacts DEF PC
<1>4. Typed'
  BY <1>1, <1>2, <1>3 DEF Typed
<1>5. Fits'
  <2>1. ASSUME NEW s \in Requests PROVE ReqFits(req[s])'
    BY <1>1, <1>2, <1>3 DEF Fits, ReqFits, Has
  <2>2. QED
    BY <1>1, <1>2, <2>1 DEF Fits
<1>6. Ages'
  <2>1. ASSUME NEW e \in Entries' PROVE e \in Entries
    BY <1>1, <1>3, <2>1 DEF Entries
  <2>2. QED
    BY <1>1, <2>1, AgesStay DEF Ages
<1>7. ASSUME NEW k \in gone', k \in Held' PROVE k \in haunted
  <2>1. k \in Held
    BY <1>1, <1>3, <1>7, HeldIs
  <2>2. QED
    BY <1>1, <1>7, <2>1 DEF LogoutFinal
<1>8. ASSUME NEW s \in Requests, NEW k \in req'[s].ends,
             req'[s].pc \in {"setMem", "delMem"}, Has(redis', k)
      PROVE  k \in haunted
  <2>1. CASE s = r
    BY <1>1, <1>2, <1>3, <1>8, <2>1 DEF ReqFits, Has, ReqType
  <2>2. CASE s # r
    <3>1. Beside(s, k)
      BY <1>1, <1>8, <2>2 DEF Beside
    <3>2. QED
      BY <1>1, <1>3, <1>8, <2>2, <3>1 DEF Marked
  <2>3. QED
    BY <2>1, <2>2
<1>9. QED
  BY <1>4, <1>5, <1>6, <1>7, <1>8, Preserved

LEMMA DelRedisIInv ==
  ASSUME IInv, Haunting, NEW r \in Requests, DelRedis(r)
  PROVE  IInv'
<1>1. /\ Typed /\ Fits /\ Ages /\ req[r].pc = "delRedis"
      /\ redis' = None /\ ReqTo(r, "delMem")
      /\ UNCHANGED <<store, mem, issued, known, since, gone>>
  BY IInvTyped DEF DelRedis, IInv
<1>2. ReqFits(req[r]) /\ req[r] \in ReqType
  BY <1>1 DEF Fits, Typed
<1>3. /\ req' \in [Requests -> ReqType] /\ req'[r].pc = "delMem"
      /\ \A s \in Requests : /\ req'[s].t = req[s].t /\ req'[s].op = req[s].op
                             /\ req'[s].p = req[s].p /\ req'[s].tok = req[s].tok
                             /\ req'[s].ends = req[s].ends
      /\ \A s \in Requests \ {r} : req'[s] = req[s]
  BY <1>1, RedisStepFacts DEF PC
<1>4. Typed'
  BY <1>1, <1>3 DEF Typed, Entry
<1>5. Fits'
  <2>1. ASSUME NEW s \in Requests PROVE ReqFits(req[s])'
    BY <1>1, <1>2, <1>3 DEF Fits, ReqFits, Has
  <2>2. QED
    BY <1>1, <2>1 DEF Fits
<1>6. Ages'
  <2>1. ASSUME NEW e \in Entries' PROVE e \in Entries \/ e = None
    BY <1>1, <1>3, <2>1 DEF Entries
  <2>2. QED
    BY <1>1, <2>1, AgesStay DEF Ages, Aged
<1>7. ASSUME NEW k \in Held' PROVE k \in Held
  BY <1>1, <1>3, <1>7, HeldIs DEF Has
<1>8. QED
  BY <1>1, <1>4, <1>5, <1>6, <1>7, NoNewCopy DEF Has

(* The last step of a request that put new in its process' memory: what it *)
(* ended has no copy that is not marked.                                   *)
LEMMA ReturnedIInv ==
  ASSUME IInv, Haunting, NEW r \in Requests, NEW e \in Entry, Returned(r),
         req[r].pc \in {"setMem", "delMem"}, e = None \/ e = req[r].t,
         mem' = [mem EXCEPT ![req[r].p] = e],
         UNCHANGED <<store, redis, issued, since>>
  PROVE  IInv'
<1>1. /\ Typed /\ Fits /\ Marked /\ LogoutFinal /\ Ages
      /\ req' = [req EXCEPT ![r] = Idle] /\ gone' = gone \cup req[r].ends
      /\ known' = IF req[r].op = "login" THEN known \cup {req[r].tok} ELSE known
  BY IInvTyped DEF IInv, Returned, Answer
<1>2. req[r] \in ReqType /\ ReqFits(req[r]) /\ req[r].p \in Procs
  BY <1>1 DEF Typed, Fits, ReqFits
<1>3. /\ req'[r] = Idle /\ \A s \in Requests \ {r} : req'[s] = req[s]
      /\ \A q \in Procs : mem'[q] = IF q = req[r].p THEN e ELSE mem[q]
      /\ req' \in [Requests -> ReqType] /\ mem' \in [Procs -> Entry]
  BY <1>1, <1>2, IdleFits DEF Typed
<1>4. known \subseteq known' /\ known' \subseteq issued /\ gone' \subseteq known
  BY <1>1, <1>2 DEF ReqFits, Fits
<1>5. Typed'
  BY <1>1, <1>3, <1>4 DEF Typed
<1>6. Fits'
  <2>1. ASSUME NEW s \in Requests PROVE ReqFits(req[s])'
    <3>1. CASE s = r
      BY <1>3, <3>1, IdleFits DEF ReqFits
    <3>2. CASE s # r
      BY <1>1, <1>3, <1>4, <3>2 DEF Fits, ReqFits, Has
    <3>3. QED
      BY <3>1, <3>2
  <2>2. QED
    BY <1>1, <1>4, <2>1 DEF Fits
<1>7. Ages'
  <2>1. ASSUME NEW x \in Entries' PROVE x \in Entries \/ x = None
    BY <1>2, <1>3, <2>1, IdleFits DEF Entries
  <2>2. QED
    BY <1>1, <2>1, AgesStay DEF Ages, Aged
<1>8. ASSUME NEW k \in gone', k \in Held' PROVE k \in haunted
  <2>1. CASE k \in gone
    <3>1. k \in Held
      BY <1>2, <1>3, <1>8, HeldIs, IdleFits DEF Has
    <3>2. QED
      BY <1>1, <2>1, <3>1 DEF LogoutFinal
  <2>2. CASE k \in req[r].ends
    <3>1. ~Has(req[r].t, k)
      BY <1>2, <2>2 DEF ReqFits, Has, ReqType
    <3>2. Has(redis, k) \/ Beside(r, k)
      BY <1>2, <1>3, <1>8, <3>1, HeldIs, IdleFits DEF Has, Beside
    <3>3. QED
      BY <1>1, <2>2, <3>2 DEF Marked
  <2>3. QED
    BY <1>1, <1>8, <2>1, <2>2
<1>9. \A s \in Requests : \A k \in req'[s].ends :
        req'[s].pc \in {"setMem", "delMem"} /\ Has(redis', k) => k \in haunted
  BY <1>1, <1>3, IdleFits DEF Marked
<1>10. QED
  BY <1>5, <1>6, <1>7, <1>8, <1>9, Preserved

LEMMA LastStepIInv ==
  ASSUME IInv, Haunting, NEW r \in Requests, SetMem(r) \/ DelMem(r)
  PROVE  IInv'
<1>1. Typed
  BY IInvTyped
<1>2. req[r].t \in Entry /\ None \in Entry
  BY <1>1 DEF Typed, ReqType, Entry
<1>3. CASE SetMem(r)
  BY <1>2, <1>3, ReturnedIInv DEF SetMem
<1>4. CASE DelMem(r)
  <2>1. mem' = [mem EXCEPT ![req[r].p] = None]
    BY <1>4 DEF DelMem, MemDeleted
  <2>2. QED
    BY <1>2, <1>4, <2>1, ReturnedIInv DEF DelMem
<1>5. QED
  BY <1>3, <1>4

LEMMA StepIInv ==
  ASSUME IInv, Haunting, NEW r \in Requests, Step(r)
  PROVE  IInv'
BY ReadStepIInv, FillMemIInv, RefreshIInv, SetRedisIInv, DelRedisIInv, LastStepIInv
DEF Step

-----------------------------------------------------------------------------
(* The ticker, a restart and time.                                         *)

LEMMA ClearExpiredTokenIInv ==
  ASSUME IInv, Haunting, NEW p \in Procs, ClearExpiredToken(p)
  PROVE  IInv'
<1>1. /\ Typed /\ Fits /\ Ages /\ mem' = [mem EXCEPT ![p] = Cleared(mem[p])]
      /\ UNCHANGED <<store, redis, req, issued, known, since, gone>>
  BY IInvTyped DEF ClearExpiredToken, IInv
<1>2. Cleared(mem[p]) \in {None, mem[p]}
  BY DEF Cleared
<1>3. \A q \in Procs : mem'[q] \in {None, mem[q]}
  BY <1>1, <1>2 DEF Typed
<1>4. Typed'
  BY <1>1, <1>2 DEF Typed, Entry
<1>5. Fits'
  BY <1>1 DEF Fits, ReqFits, Has
<1>6. Ages'
  <2>1. ASSUME NEW e \in Entries' PROVE e \in Entries \/ e = None
    BY <1>1, <1>3, <2>1 DEF Entries
  <2>2. QED
    BY <1>1, <2>1, AgesStay DEF Ages, Aged
<1>7. ASSUME NEW k \in Held' PROVE k \in Held
  BY <1>1, <1>3, <1>7, HeldIs DEF Has
<1>8. QED
  BY <1>1, <1>4, <1>5, <1>6, <1>7, NoNewCopy DEF Has

LEMMA RestartIInv ==
  ASSUME IInv, Haunting, NEW p \in Procs, Restart(p)
  PROVE  IInv'
<1>1. /\ Typed /\ Fits /\ Ages /\ mem' = [mem EXCEPT ![p] = None]
      /\ req' = [r \in Requests |-> IF req[r].p = p THEN Idle ELSE req[r]]
      /\ UNCHANGED <<store, redis, issued, known, since, gone>>
  BY IInvTyped DEF Restart, IInv
<1>2. /\ \A q \in Procs : mem'[q] \in {None, mem[q]}
      /\ \A r \in Requests : req'[r] \in {Idle, req[r]}
  BY <1>1 DEF Typed
<1>3. Typed'
  <2>1. req' \in [Requests -> ReqType]
    BY <1>1, IdleFits DEF Typed
  <2>2. QED
    BY <1>1, <2>1 DEF Typed, Entry
<1>4. Fits'
  <2>1. ASSUME NEW r \in Requests PROVE ReqFits(req[r])'
    <3>1. CASE req'[r] = Idle
      BY <3>1, IdleFits DEF ReqFits
    <3>2. CASE req'[r] = req[r]
      BY <1>1, <3>2 DEF Fits, ReqFits, Has
    <3>3. QED
      BY <1>2, <3>1, <3>2
  <2>2. QED
    BY <1>1, <2>1 DEF Fits
<1>5. Ages'
  <2>1. ASSUME NEW e \in Entries' PROVE e \in Entries \/ e = None
    BY <1>1, <1>2, <2>1, IdleFits DEF Entries
  <2>2. QED
    BY <1>1, <2>1, AgesStay DEF Ages, Aged
<1>6. ASSUME NEW k \in Held' PROVE k \in Held
  BY <1>1, <1>2, <1>6, HeldIs, IdleFits DEF Has
<1>7. QED
  BY <1>1, <1>2, <1>3, <1>4, <1>5, <1>6, NoNewCopy, IdleFits DEF Has

LEMMA OlderIs ==
  ASSUME NEW e \in Entry
  PROVE  /\ Older(e) \in Entry
         /\ Older(e) = None <=> e = None
         /\ e # None => Older(e).tok = e.tok
         /\ \A k : Has(Older(e), k) <=> Has(e, k)
<1>1. CASE e = None \/ e.rem < 0
  BY <1>1 DEF Older, Expired
<1>2. CASE e # None /\ ~(e.rem < 0)
  <2>1. e \in Token /\ Older(e) = [tok |-> e.tok, rem |-> e.rem - 1]
    BY <1>2 DEF Older, Expired, Entry
  <2>2. e.tok \in Tokens /\ e.rem - 1 \in -1..Expire
    BY <1>2, <2>1, SessionAssumption DEF Token
  <2>3. Older(e) \in Token
    BY <2>1, <2>2 DEF Token
  <2>4. QED
    BY <1>2, <2>1, <2>3, SessionAssumption DEF Entry, Has
<1>3. QED
  BY <1>1, <1>2

(* A copy has less left as its token gets older. *)
LEMMA OlderAged ==
  ASSUME Typed, NEW e \in Entry, Aged(e),
         since' = [k \in Tokens |-> IF since[k] > Expire THEN since[k] ELSE since[k] + 1]
  PROVE  Aged(Older(e))'
<1>1. CASE e = None \/ e.rem < 0
  <2>1. Older(e) = e
    BY <1>1 DEF Older, Expired
  <2>2. CASE e = None
    BY <2>1, <2>2 DEF Aged
  <2>3. CASE e # None
    <3>1. e \in Token /\ e.rem < 0
      BY <1>1, <2>3 DEF Entry
    <3>2. ~(e.rem >= 0)
      BY <3>1, SessionAssumption DEF Token
    <3>3. QED
      BY <2>1, <3>2 DEF Aged
  <2>4. QED
    BY <2>2, <2>3
<1>2. CASE e # None /\ ~(e.rem < 0)
  <2>1. e \in Token /\ Older(e) = [tok |-> e.tok, rem |-> e.rem - 1]
    BY <1>2 DEF Older, Expired, Entry
  <2>2. /\ e.tok \in Tokens /\ e.rem \in 0..Expire /\ Expire \in Nat
        /\ since[e.tok] \in 0..Expire + 1
    BY <1>2, <2>1, SessionAssumption DEF Token, Typed
  <2>3. since[e.tok] + e.rem <= Expire
    BY <1>2, <2>2 DEF Aged
  <2>4. since'[e.tok] + (e.rem - 1) <= Expire
    BY <2>2, <2>3
  <2>5. QED
    BY <2>1, <2>4 DEF Aged
<1>3. QED
  BY <1>1, <1>2

LEMMA TickIInv ==
  ASSUME IInv, Haunting, Tick
  PROVE  IInv'
<1>1. /\ Typed /\ Fits /\ Ages
      /\ redis' = Older(redis) /\ mem' = [p \in Procs |-> Older(mem[p])]
      /\ req' = [r \in Requests |-> [req[r] EXCEPT !.t = Older(@)]]
      /\ since' = [k \in Tokens |-> IF since[k] > Expire THEN since[k] ELSE since[k] + 1]
      /\ UNCHANGED <<store, issued, known, gone>>
  BY IInvTyped DEF Tick, IInv
<1>2. ASSUME NEW r \in Requests
      PROVE  /\ req[r].t \in Entry /\ req'[r] \in ReqType /\ req'[r].t = Older(req[r].t)
             /\ req'[r].pc = req[r].pc /\ req'[r].op = req[r].op /\ req'[r].p = req[r].p
             /\ req'[r].tok = req[r].tok /\ req'[r].ends = req[r].ends
  <2>1. req[r] \in ReqType /\ Older(req[r].t) \in Entry
    BY <1>1, OlderIs DEF Typed, ReqType
  <2>2. QED
    BY <1>1, <2>1 DEF ReqType
<1>3. redis \in Entry /\ \A p \in Procs : mem[p] \in Entry /\ mem'[p] = Older(mem[p])
  BY <1>1 DEF Typed
<1>4. Typed'
  <2>1. redis' \in Entry /\ mem' \in [Procs -> Entry]
    BY <1>1, <1>3, OlderIs
  <2>2. req' \in [Requests -> ReqType]
    BY <1>1, <1>2
  <2>3. since' \in [Tokens -> 0..Expire + 1]
    BY <1>1, SessionAssumption DEF Typed
  <2>4. QED
    BY <1>1, <2>1, <2>2, <2>3 DEF Typed
<1>5. Fits'
  <2>1. ASSUME NEW r \in Requests PROVE ReqFits(req[r])'
    <3>1. /\ req'[r].t = None <=> req[r].t = None
          /\ \A k : Has(req'[r].t, k) <=> Has(req[r].t, k)
      BY <1>2, OlderIs
    <3>2. ReqFits(req[r])
      BY <1>1 DEF Fits
    <3>3. QED
      BY <1>1, <1>2, <3>1, <3>2 DEF ReqFits
  <2>2. redis' = None <=> redis = None
    BY <1>1, <1>3, OlderIs
  <2>3. QED
    BY <1>1, <2>1, <2>2 DEF Fits
<1>6. Ages'
  <2>1. ASSUME NEW e \in Entries' PROVE Aged(e)'
    <3>1. PICK x \in Entries : x \in Entry /\ e = Older(x)
      BY <1>1, <1>2, <1>3, <2>1 DEF Entries
    <3>2. QED
      BY <1>1, <3>1, OlderAged DEF Ages
  <2>2. QED
    BY <2>1 DEF Ages
<1>7. \A k : (Has(redis', k) <=> Has(redis, k))
  BY <1>1, <1>3, OlderIs
<1>8. ASSUME NEW k \in Held' PROVE k \in Held
  BY <1>2, <1>3, <1>7, <1>8, OlderIs, HeldIs
<1>9. QED
  BY <1>1, <1>2, <1>4, <1>5, <1>6, <1>7, <1>8, NoNewCopy

LEMMA NextIInv == IInv /\ [Next]_vars => IInv'
<1>1. ASSUME IInv, Next PROVE IInv'
  BY <1>1, StepIInv, ArriveIInv, ClearExpiredTokenIInv, RestartIInv, TickIInv
  DEF Next, Happens
<1>2. ASSUME IInv, UNCHANGED vars PROVE IInv'
  BY <1>2 DEF IInv, TypeOK, Fits, ReqFits, Marked, Beside, LogoutFinal, Held,
              Entries, Ages, Aged, Has, vars, state
<1>3. QED
  BY <1>1, <1>2

-----------------------------------------------------------------------------
(* A logout is final, and so is a later login: once it has returned, the   *)
(* only copies of the tokens it ended are those that other requests had in *)
(* hand, or other processes in memory, in the meantime, and what came of   *)
(* them: for any number of processes, requests and tokens, whatever        *)
(* expires and restarts.                                                   *)
THEOREM LogoutIsFinal == Spec => []LogoutFinal
<1>1. IInv => LogoutFinal
  BY DEF IInv
<1>2. QED
  BY <1>1, InitIInv, NextIInv, PTL DEF Spec

(* No session outlives its expiry: VerifyToken calls back for a token only *)
(* within Expire of its login or its last refresh, whichever copy it met.  *)
THEOREM NoStaleToken == Spec => NoStaleAccept
<1> DEFINE Fresh == \A r \in Requests :
                      (req[r].pc # "call" /\ req'[r].pc = "call")
                        => since[req[r].tok] <= Expire
<1>1. ASSUME IInv, Next PROVE Fresh
  <2>1. ASSUME NEW r \in Requests, req[r].pc # "call", req'[r].pc = "call"
        PROVE  since[req[r].tok] <= Expire
    <3>1. Typed /\ Fits /\ Ages
      BY <1>1, IInvTyped DEF IInv
    <3>2. Check(r)
      <4>1. ASSUME NEW s \in Requests, NEW p \in Procs, Arrives(s, p) PROVE FALSE
        BY <2>1, <3>1, <4>1 DEF Arrives, Login, Logout, Verify, Begin, FirstSet, FirstDel, Typed
      <4>2. ASSUME NEW s \in Requests, Step(s) PROVE Check(r)
        <5>1. ASSUME NEW pc \in PC, ReqTo(s, pc) PROVE pc = "call" /\ s = r
          BY <2>1, <3>1, <5>1 DEF ReqTo, Typed, ReqType
        <5>2. ASSUME NEW pc \in PC, NEW t, Holds(s, pc, t) PROVE pc = "call"
          BY <2>1, <3>1, <5>2 DEF Holds, Typed, ReqType
        <5>3. ~Answer(s)
          BY <2>1, <3>1 DEF Answer, Idle, Typed
        <5>4. ~Refresh(s)
          <6>1. CASE store = "map"
            <7>1. req[r] \in ReqType
              BY <3>1 DEF Typed
            <7>2. Refresh(s) =>
                    req'[r] = [req[r] EXCEPT !.pc = IF r = s THEN "setMem" ELSE req[r].pc,
                                             !.t = Renewed(req[r].t, req[s].t.tok)]
              BY <6>1 DEF Refresh
            <7>3. Refresh(s) => req'[r].pc = IF r = s THEN "setMem" ELSE req[r].pc
              BY <7>1, <7>2 DEF ReqType
            <7>4. QED
              BY <2>1, <7>3
          <6>2. CASE store # "map"
            <7>1. Refresh(s) => Holds(s, "setRedis", Renewed(req[s].t, req[s].t.tok))
              BY <6>2 DEF Refresh
            <7>2. "setRedis" \in PC
              BY DEF PC
            <7>3. QED
              BY <5>2, <7>1, <7>2
          <6>3. QED
            BY <6>1, <6>2
        <5>5. CASE GetMem(s) \/ GetRedis(s) \/ FillMem(s)
          BY <5>1, <5>2, <5>3, <5>5 DEF GetMem, GetRedis, FillMem, PC
        <5>6. CASE CallFails(s) \/ Unrefreshed(s) \/ SetMem(s) \/ DelMem(s)
          BY <5>3, <5>6 DEF CallFails, Unrefreshed, SetMem, DelMem, Returned
        <5>7. CASE SetRedis(s) \/ DelRedis(s)
          BY <5>1, <5>7 DEF SetRedis, DelRedis, PC
        <5>8. CASE Check(s)
          BY <5>1, <5>3, <5>8 DEF Check, PC
        <5>9. QED
          BY <4>2, <5>4, <5>5, <5>6, <5>7, <5>8 DEF Step
      <4>3. ASSUME NEW p \in Procs, ClearExpiredToken(p) \/ Restart(p) PROVE FALSE
        BY <2>1, <4>3 DEF ClearExpiredToken, Restart, Idle
      <4>4. ~Tick
        BY <2>1, <3>1 DEF Tick, Typed, ReqType
      <4>5. QED
        BY <1>1, <4>1, <4>2, <4>3, <4>4 DEF Next, Happens
    <3>3. req[r].pc = "check" /\ ~Expired(req[r].t) /\ req[r].t.tok = req[r].tok
      BY <2>1, <3>1, <3>2 DEF Check, Answer, Idle, Typed
    <3>4. req[r].t \in Token /\ req[r].t # None /\ Aged(req[r].t)
      BY <3>1, <3>3 DEF Typed, ReqType, Fits, ReqFits, Entry, Ages, Entries
    <3>5. req[r].t.rem \in 0..Expire /\ req[r].t.tok \in Tokens /\ Expire \in Nat
      BY <3>3, <3>4, SessionAssumption DEF Expired, Token
    <3>6. since[req[r].t.tok] + req[r].t.rem <= Expire
      BY <3>4, <3>5 DEF Aged
    <3>7. since[req[r].t.tok] <= Expire
      BY <3>1, <3>5, <3>6 DEF Typed
    <3>8. QED
      BY <3>3, <3>7
  <2>2. QED
    BY <2>1
<1>2. IInv /\ [Next]_vars => [Fresh]_vars
  BY <1>1
<1>3. QED
  BY <1>2, InitIInv, NextIInv, PTL DEF Spec, NoStaleAccept
=============================================================================
