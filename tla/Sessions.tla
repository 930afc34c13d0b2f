------------------------------ MODULE Sessions ------------------------------
(***************************************************************************)
(* The token sessions of jwt/jwt.go and jwt/store.go (giris2/jwt.go is the *)
(* same with the map store alone) for one user: what AfterLogin, Logout,   *)
(* Verify with its sliding expiry, and the clearing ticker do to the       *)
(* stores.  Store "map" is the defaultTokenStore of each process, which    *)
(* shares its Token objects with those who got them.  Store "redis" is the *)
(* RedisTokenStore: a hash in redis (mdb/storage-redis.go), and in front   *)
(* of it the memory of each process (FreeStore of mdb/storage.go).         *)
(*                                                                         *)
(* Time is kept as what remains of each copy.  Every login makes another   *)
(* token: generateToken encrypts the id with a random initial vector.      *)
(***************************************************************************)
EXTENDS Integers

CONSTANTS
  Procs,     (* the processes                                              *)
  Requests,  (* the goroutines that handle requests                        *)
  Tokens,    (* the tokens that can be issued, a bound on the logins       *)
  Expire,    (* j.Expire                                                   *)
  None       (* no entry                                                   *)

(* A Token: rem is ExpiresAt minus now, less than 0 when it has expired.   *)
Token == [tok : Tokens, rem : -1..Expire]

ASSUME SessionAssumption == /\ Expire \in Nat \ {0}
                            /\ None \notin Tokens \cup Procs \cup Token

VARIABLES
  store,    (* which ItfTokenStore: "map" or "redis"                       *)
  redis,    (* the entry in redis                                          *)
  mem,      (* mem[p]: the entry in p's memory, or in its map              *)
  req,      (* req[r]: a request, [pc, p, op, tok, t, ends]                *)
  issued,   (* the tokens ever generated                                   *)
  known,    (* the tokens a login has returned to a client                 *)
  since,    (* since[k]: time since k's login or last refresh (history)    *)
  gone,     (* the tokens ended by a logout or a later login (history)     *)
  haunted   (* those of which a copy was about in the meantime (history)   *)

state == <<redis, mem, req>>
vars == <<store, state, issued, known, since, gone, haunted>>

Entry == Token \cup {None}

PC == {"idle", "mem", "redis", "fill", "check", "call", "setRedis", "setMem",
       "delRedis", "delMem"}

Idle == [pc |-> "idle", p |-> None, op |-> "verify", tok |-> None, t |-> None,
         ends |-> {}]

Init == /\ store \in {"map", "redis"}
        /\ redis = None
        /\ mem = [p \in Procs |-> None]
        /\ req = [r \in Requests |-> Idle]
        /\ issued = {} /\ known = {} /\ gone = {} /\ haunted = {}
        /\ since = [k \in Tokens |-> 0]

(* Where copies are. *)
Entries == {redis} \cup {mem[p] : p \in Procs}
             \cup {req[r].t : r \in Requests}

Held == {e.tok : e \in Entries \ {None}}

(* The copies beside the stores that a logout or login under way deals     *)
(* with: in another request's hand, in another process' memory.            *)
Overlap ==
  UNION {{k \in req[r].ends :
            \/ \E s \in Requests \ {r} : req[s].t # None /\ req[s].t.tok = k
            \/ \E q \in Procs \ {req[r].p} : mem[q] # None /\ mem[q].tok = k} :
           r \in {x \in Requests : req[x].op # "verify"}}

Haunting == haunted' = (haunted \cup Overlap') \cap Held'

-----------------------------------------------------------------------------
ReqTo(r, pc) == req' = [req EXCEPT ![r].pc = pc]

Holds(r, pc, t) == req' = [req EXCEPT ![r].pc = pc, ![r].t = t]

(* The request is answered. *)
Answer(r) == req' = [req EXCEPT ![r] = Idle]

Begin(r, p, op, pc, tok, t) ==
  /\ req[r].pc = "idle"
  /\ req' = [req EXCEPT ![r] =
               [pc |-> pc, p |-> p, op |-> op, tok |-> tok, t |-> t,
                ends |-> IF op = "verify" THEN {} ELSE known \ gone]]

(* Where a SetToken and a DelToken begin. *)
FirstSet == IF store = "map" THEN "setMem" ELSE "setRedis"
FirstDel == IF store = "map" THEN "delMem" ELSE "delRedis"

Login(r, p, k) ==
  /\ k \notin issued
  /\ Begin(r, p, "login", FirstSet, k, [tok |-> k, rem |-> Expire])
  /\ issued' = issued \cup {k}
  /\ since' = [since EXCEPT ![k] = 0]
  /\ UNCHANGED <<store, redis, mem, known, gone>>

Logout(r, p) ==
  /\ Begin(r, p, "logout", FirstDel, None, None)
  /\ UNCHANGED <<store, redis, mem, issued, known, since, gone>>

Verify(r, p, k) ==
  /\ k \in known
  /\ Begin(r, p, "verify", "mem", k, None)
  /\ UNCHANGED <<store, redis, mem, issued, known, since, gone>>

-----------------------------------------------------------------------------
(* GetToken: memory, then redis; what redis has goes into memory.          *)
GetMem(r) ==
  LET e == mem[req[r].p] IN
  /\ req[r].pc = "mem"
  /\ IF e # None THEN Holds(r, "check", e)
     ELSE IF store = "map" THEN Answer(r)
     ELSE ReqTo(r, "redis")
  /\ UNCHANGED <<store, redis, mem, issued, known, since, gone>>

GetRedis(r) ==
  /\ req[r].pc = "redis"
  /\ IF redis = None THEN Answer(r) ELSE Holds(r, "fill", redis)
  /\ UNCHANGED <<store, redis, mem, issued, known, since, gone>>

FillMem(r) ==
  /\ req[r].pc = "fill"
  /\ mem' = [mem EXCEPT ![req[r].p] = req[r].t]
  /\ ReqTo(r, "check")
  /\ UNCHANGED <<store, redis, issued, known, since, gone>>

(* The test of expiry; a mutant without it. *)
NeverExpired(t) == FALSE
Expired(t) == t.rem < 0

(* Expired, or another token: the request is turned away. *)
Check(r) ==
  /\ req[r].pc = "check"
  /\ IF Expired(req[r].t) \/ req[r].t.tok # req[r].tok
     THEN Answer(r)
     ELSE ReqTo(r, "call")
  /\ UNCHANGED <<store, redis, mem, issued, known, since, gone>>

(* An object of the map store is the same for everybody who has it. *)
Renewed(e, k) == IF e # None /\ e.tok = k THEN [tok |-> k, rem |-> Expire] ELSE e

(* call(t.ID) returned, with a user or an error, and refreshToken: in the  *)
(* second half of its life the token gets a new expiry.                    *)
CallFails(r) ==
  /\ req[r].pc = "call"
  /\ Answer(r)
  /\ UNCHANGED <<store, redis, mem, issued, known, since, gone>>

Unrefreshed(r) ==
  /\ req[r].pc = "call"
  /\ req[r].t.rem > Expire \div 2
  /\ Answer(r)
  /\ UNCHANGED <<store, redis, mem, issued, known, since, gone>>

Refresh(r) ==
  LET k == req[r].t.tok IN
  /\ req[r].pc = "call"
  /\ req[r].t.rem <= Expire \div 2
  /\ since' = [since EXCEPT ![k] = 0]
  /\ IF store = "map"
     THEN /\ req' = [s \in Requests |->
                       [req[s] EXCEPT !.pc = IF s = r THEN "setMem" ELSE @,
                                      !.t = Renewed(@, k)]]
          /\ mem' = [p \in Procs |-> Renewed(mem[p], k)]
     ELSE Holds(r, "setRedis", Renewed(req[r].t, k)) /\ UNCHANGED mem
  /\ UNCHANGED <<store, redis, issued, known, gone>>

-----------------------------------------------------------------------------
(* SetToken and DelToken.  With the last step a login or logout returns.   *)

Returned(r) ==
  /\ Answer(r)
  /\ gone' = gone \cup req[r].ends
  /\ known' = IF req[r].op = "login" THEN known \cup {req[r].tok} ELSE known

SetRedis(r) ==
  /\ req[r].pc = "setRedis"
  /\ redis' = req[r].t
  /\ ReqTo(r, "setMem")
  /\ UNCHANGED <<store, mem, issued, known, since, gone>>

SetMem(r) ==
  /\ req[r].pc = "setMem"
  /\ mem' = [mem EXCEPT ![req[r].p] = req[r].t]
  /\ Returned(r)
  /\ UNCHANGED <<store, redis, issued, since>>

DelRedis(r) ==
  /\ req[r].pc = "delRedis"
  /\ redis' = None
  /\ ReqTo(r, "delMem")
  /\ UNCHANGED <<store, mem, issued, known, since, gone>>

(* What a DelToken leaves in memory; a mutant forgets it. *)
MemKept(e) == e
MemDeleted(e) == None

DelMem(r) ==
  /\ req[r].pc = "delMem"
  /\ mem' = [mem EXCEPT ![req[r].p] = MemDeleted(@)]
  /\ Returned(r)
  /\ UNCHANGED <<store, redis, issued, since>>

-----------------------------------------------------------------------------
(* ClearExpiredToken, by the ticker.  The map loses its expired tokens.    *)
(* StoreGC deletes nothing from redis, where tokens have no TTL, but the   *)
(* memory is emptied (a full FreeStore also drops entries by itself).      *)
Cleared(e) == IF store = "redis" \/ (e # None /\ Expired(e)) THEN None ELSE e

ClearExpiredToken(p) ==
  /\ mem[p] # None
  /\ mem' = [mem EXCEPT ![p] = Cleared(@)]
  /\ UNCHANGED <<store, redis, req, issued, known, since, gone>>

(* A process ends, with all its requests, and starts again. *)
Restart(p) ==
  /\ mem' = [mem EXCEPT ![p] = None]
  /\ req' = [r \in Requests |-> IF req[r].p = p THEN Idle ELSE req[r]]
  /\ UNCHANGED <<store, redis, issued, known, since, gone>>

Older(e) == IF e = None \/ Expired(e) THEN e ELSE [tok |-> e.tok, rem |-> e.rem - 1]

(* Time passes. *)
Tick ==
  /\ redis' = Older(redis)
  /\ mem' = [p \in Procs |-> Older(mem[p])]
  /\ req' = [r \in Requests |-> [req[r] EXCEPT !.t = Older(@)]]
  /\ since' = [k \in Tokens |-> IF since[k] > Expire THEN since[k] ELSE since[k] + 1]
  /\ UNCHANGED <<store, issued, known, gone>>

-----------------------------------------------------------------------------
Step(r) == \/ GetMem(r) \/ GetRedis(r) \/ FillMem(r) \/ Check(r)
           \/ CallFails(r) \/ Unrefreshed(r) \/ Refresh(r)
           \/ SetRedis(r) \/ SetMem(r) \/ DelRedis(r) \/ DelMem(r)

Arrives(r, p) == \/ \E k \in Tokens : Login(r, p, k) \/ Verify(r, p, k)
                 \/ Logout(r, p)

Happens == \/ \E r \in Requests : Step(r) \/ \E p \in Procs : Arrives(r, p)
           \/ \E p \in Procs : ClearExpiredToken(p) \/ Restart(p)
           \/ Tick

Next == Happens /\ Haunting

Spec == Init /\ [][Next]_vars

-----------------------------------------------------------------------------
TypeOK ==
  /\ store \in {"map", "redis"}
  /\ redis \in Entry
  /\ mem \in [Procs -> Entry]
  /\ req \in [Requests -> [pc : PC, p : Procs \cup {None}, op : {"verify", "login", "logout"},
                           tok : Tokens \cup {None}, t : Entry, ends : SUBSET Tokens]]
  /\ issued \subseteq Tokens /\ known \subseteq Tokens
  /\ gone \subseteq Tokens /\ haunted \subseteq Tokens
  /\ since \in [Tokens -> 0..Expire + 1]

(* A logout is final, and so is a later login: a token that was known when *)
(* it began has no copy left in redis, in a memory or in a request's hand  *)
(* once it has returned.  The exceptions are the copies that other         *)
(* requests had in hand and other processes in memory in the meantime:     *)
(* those live on, and a refresh can even put them back into redis.         *)
LogoutFinal == \A k \in gone : k \in Held => k \in haunted

(* No session outlives its expiry: a token is accepted at most Expire      *)
(* after its login or its last refresh, whatever stale copy is met.        *)
NoStaleAccept ==
  [][\A r \in Requests :
       (req[r].pc # "call" /\ req'[r].pc = "call")
         => since[req[r].tok] <= Expire]_vars
=============================================================================
