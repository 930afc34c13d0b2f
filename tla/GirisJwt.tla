------------------------------ MODULE GirisJwt ------------------------------
(***************************************************************************)
(* The token sessions of giris/jwt.go for one user: a hash in redis, in    *)
(* front of it a memory in each process, and a collector of expired        *)
(* tokens.  It differs from jwt.go: a refresh makes another token, Logout  *)
(* leaves the memories alone, and a memory is filled for a minute.         *)
(*                                                                         *)
(* Time is kept as what remains: of a token, of an entry in a memory.      *)
(***************************************************************************)
EXTENDS Integers, FiniteSets

CONSTANTS
  Procs,   (* the processes                                                *)
  Reqs,    (* the requests                                                 *)
  Tokens,  (* the tokens that can be generated, a bound                    *)
  Expire,  (* j.Expire                                                     *)
  Minute,  (* how long a memory keeps what it read from redis              *)
  None     (* nothing                                                      *)

VARIABLES
  hash,    (* the user's token in redis                                    *)
  near,    (* near[p]: the entry in the memory of p, [t, ttl]              *)
  job,     (* job[r]: a request, [pc, p, op, tok, t, ends]                 *)
  made,    (* the tokens generated                                         *)
  told,    (* those a login has returned                                   *)
  age,     (* age[k]: the time since k was generated (history)             *)
  over,    (* the tokens ended by a later token or a logout (history)      *)
  ghosts,  (* those of which a copy was about in the meantime (history)    *)
  sweep    (* the collector: "idle", or what it will delete: "doomed", or  *)
           (* "stale" when a token was stored since (history)              *)

girisVars == <<hash, near, job, made, told, age, over, ghosts, sweep>>

Token == [tok : Tokens, rem : -1..Expire]

(* None is neither a token nor an entry. *)
GirisConstants == /\ Expire \in Nat /\ Minute \in Nat
                  /\ None \notin Token /\ None \notin [t : Token, ttl : Nat]

Expired(t) == t.rem < 0

Idle == [pc |-> "idle", p |-> None, op |-> "verify", tok |-> None, t |-> None, ends |-> {}]

Init == /\ hash = None
        /\ near = [p \in Procs |-> None]
        /\ job = [r \in Reqs |-> Idle]
        /\ made = {} /\ told = {} /\ over = {} /\ ghosts = {}
        /\ age = [k \in Tokens |-> 0]
        /\ sweep = "idle"

Hands == {job[r].t : r \in Reqs} \ {None}
Memories == {near[p].t : p \in {q \in Procs : near[q] # None}}
Held == {t.tok : t \in Hands \cup Memories \cup ({hash} \ {None})}

(* The copies that a login or a refresh does not reach: in other hands,    *)
(* and in the memories of other processes.                                 *)
Unreached(r) ==
  {k \in job[r].ends :
     \/ \E s \in Reqs \ {r} : job[s].t # None /\ job[s].t.tok = k
     \/ \E p \in Procs \ {job[r].p} : near[p] # None /\ near[p].t.tok = k}

(* Those that outlive the end of their token, which is all a logout leaves. *)
Left == {t.tok : t \in Hands \cup Memories} \cap (over' \ over)

Haunting == ghosts' = (ghosts \cup Left \cup UNION {Unreached(r)' : r \in Reqs}) \cap Held'

-----------------------------------------------------------------------------
To(r, pc) == job' = [job EXCEPT ![r].pc = pc]
Answer(r) == job' = [job EXCEPT ![r] = Idle]

(* What is left of a Verify whose token is good: the call of the user      *)
(* function.                                                               *)
Accepted(e) == [e EXCEPT !.pc = "accepted", !.tok = None, !.t = None, !.ends = {}]

(* The tokens that a login, refresh or logout puts an end to. *)
Current == made \ over

(* generateToken: any token that is none yet. *)
generateToken == CHOOSE k \in Tokens : k \notin made

(* A new token with a new expiry: toRedis begins. *)
Generates(r, k) ==
  /\ made' = made \cup {k}
  /\ age' = [age EXCEPT ![k] = 0]
  /\ job' = [job EXCEPT ![r].pc = "hset", ![r].t = [tok |-> k, rem |-> Expire],
                        ![r].ends = Current]

AfterLogin(r, p, k) ==
  /\ job[r].pc = "idle" /\ made # Tokens
  /\ made' = made \cup {k}
  /\ age' = [age EXCEPT ![k] = 0]
  /\ job' = [job EXCEPT ![r] = [pc |-> "hset", p |-> p, op |-> "login", tok |-> k,
                                t |-> [tok |-> k, rem |-> Expire], ends |-> Current]]
  /\ UNCHANGED <<hash, near, told, over, sweep>>

Verify(r, p, k) ==
  /\ job[r].pc = "idle" /\ k \in told
  /\ job' = [job EXCEPT ![r] = [Idle EXCEPT !.pc = "mem", !.p = p, !.tok = k]]
  /\ UNCHANGED <<hash, near, made, told, age, over, sweep>>

(* What HDel leaves; a mutant that deletes nothing. *)
NothingDeleted(t) == t
Deleted(t) == None

(* One call to redis; the memories are left alone. *)
Logout ==
  /\ hash' = Deleted(hash)
  /\ over' = over \cup Current
  /\ UNCHANGED <<near, job, made, told, age, sweep>>

-----------------------------------------------------------------------------
(* fromRedis *)

GetMem(r) ==
  LET e == near[job[r].p] IN
  /\ job[r].pc = "mem"
  /\ job' = [job EXCEPT ![r].pc = IF e = None THEN "hget" ELSE "check",
                        ![r].t = IF e = None THEN None ELSE e.t]
  /\ UNCHANGED <<hash, near, made, told, age, over, sweep>>

HGet(r) ==
  /\ job[r].pc = "hget"
  /\ IF hash = None THEN Answer(r)
     ELSE job' = [job EXCEPT ![r].pc = "fill", ![r].t = hash]
  /\ UNCHANGED <<hash, near, made, told, age, over, sweep>>

FillMem(r) ==
  /\ job[r].pc = "fill"
  /\ near' = [near EXCEPT ![job[r].p] = [t |-> job[r].t, ttl |-> Minute]]
  /\ To(r, "check")
  /\ UNCHANGED <<hash, made, told, age, over, sweep>>

Refused(r) ==
  /\ job[r].pc = "check"
  /\ job[r].t.tok # job[r].tok \/ Expired(job[r].t)
  /\ Answer(r)
  /\ UNCHANGED <<hash, near, made, told, age, over, sweep>>

(* The test of the token and its expiry; a mutant without the second.      *)
AnyAge(t, k) == t.tok = k
Valid(t, k) == t.tok = k /\ ~Expired(t)

(* A token in the first half of its life is accepted as it is. *)
Accept(r) ==
  /\ job[r].pc = "check"
  /\ Valid(job[r].t, job[r].tok)
  /\ job[r].t.rem >= Expire \div 2
  /\ job' = [job EXCEPT ![r] = Accepted(@)]
  /\ UNCHANGED <<hash, near, made, told, age, over, sweep>>

(* toRedis(t, true): nobody is told the new token.                         *)
Refresh(r, k) ==
  /\ job[r].pc = "check" /\ made # Tokens
  /\ Valid(job[r].t, job[r].tok)
  /\ job[r].t.rem < Expire \div 2
  /\ Generates(r, k)
  /\ UNCHANGED <<hash, near, told, over, sweep>>

(* The call of the user function, which may fail, ends a Verify. *)
Called(r) ==
  /\ job[r].pc = "accepted"
  /\ Answer(r)
  /\ UNCHANGED <<hash, near, made, told, age, over, sweep>>

-----------------------------------------------------------------------------
(* toRedis *)

HSet(r) ==
  /\ job[r].pc = "hset"
  /\ hash' = job[r].t
  /\ sweep' = IF sweep = "doomed" THEN "stale" ELSE sweep
  /\ To(r, "set")
  /\ UNCHANGED <<near, made, told, age, over>>

HSetFails(r) ==
  /\ job[r].pc = "hset"
  /\ Answer(r)
  /\ UNCHANGED <<hash, near, made, told, age, over, sweep>>

SetMem(r) ==
  /\ job[r].pc = "set"
  /\ near' = [near EXCEPT ![job[r].p] = [t |-> job[r].t, ttl |-> Expire]]
  /\ over' = over \cup job[r].ends
  /\ told' = IF job[r].op = "login" THEN told \cup {job[r].tok} ELSE told
  /\ job' = [job EXCEPT ![r] = IF job[r].op = "login" THEN Idle
                               ELSE Accepted(@)]
  /\ UNCHANGED <<hash, made, age, sweep>>

-----------------------------------------------------------------------------
(* ClearExpiredFunc: the scan, then the delete; by name, whatever is there. *)
Scan ==
  /\ sweep = "idle"
  /\ hash # None /\ Expired(hash)
  /\ sweep' = "doomed"
  /\ UNCHANGED <<hash, near, job, made, told, age, over>>

Sweep ==
  /\ sweep # "idle"
  /\ hash' = None
  /\ sweep' = "idle"
  /\ UNCHANGED <<near, job, made, told, age, over>>

(* A process ends and starts again. *)
Restart(p) ==
  /\ near' = [near EXCEPT ![p] = None]
  /\ job' = [r \in Reqs |-> IF job[r].p = p THEN Idle ELSE job[r]]
  /\ UNCHANGED <<hash, made, told, age, over, sweep>>

Older(t) == IF t = None \/ Expired(t) THEN t ELSE [t EXCEPT !.rem = @ - 1]

Tick ==
  /\ hash' = Older(hash)
  /\ near' = [p \in Procs |-> IF near[p] = None \/ near[p].ttl = 0 THEN None
                              ELSE [t |-> Older(near[p].t), ttl |-> near[p].ttl - 1]]
  /\ job' = [r \in Reqs |-> [job[r] EXCEPT !.t = Older(@)]]
  /\ age' = [k \in Tokens |-> IF age[k] > Expire THEN age[k] ELSE age[k] + 1]
  /\ UNCHANGED <<made, told, over, sweep>>

Step(r) == \/ GetMem(r) \/ HGet(r) \/ FillMem(r) \/ Refused(r) \/ Accept(r) \/ Called(r)
           \/ HSet(r) \/ HSetFails(r) \/ SetMem(r)
           \/ Refresh(r, generateToken)

Arrives(r, p) == \/ AfterLogin(r, p, generateToken)
                 \/ \E k \in Tokens : Verify(r, p, k)

Happens == \/ \E r \in Reqs : Step(r) \/ \E p \in Procs : Arrives(r, p)
           \/ \E p \in Procs : Restart(p)
           \/ Logout \/ Scan \/ Sweep \/ Tick

Next == Happens /\ Haunting

Spec == Init /\ [][Next]_girisVars

-----------------------------------------------------------------------------
TypeOK ==
  /\ hash \in Token \cup {None}
  /\ near \in [Procs -> [t : Token, ttl : Nat] \cup {None}]
  /\ \A r \in Reqs : /\ job[r].p \in Procs \cup {None} /\ job[r].t \in Token \cup {None}
                     /\ job[r].pc \in {"idle", "mem", "hget", "fill", "check", "accepted",
                                       "hset", "set"}
                     /\ job[r].tok \in Tokens \cup {None} /\ job[r].ends \subseteq made
  /\ told \subseteq made /\ over \subseteq made /\ ghosts \subseteq made
  /\ age \in [Tokens -> 0..(Expire + 1)]
  /\ sweep \in {"idle", "doomed", "stale"}

(* What a logout, a login or a refresh has ended is nowhere any more, but  *)
(* for the copies it does not reach: in the hands of other requests and in *)
(* memories, for a logout also in that of its own process.                 *)
OverIsOver == \A k \in over \cap Held : k \in ghosts

(* No token is accepted later than Expire after it was generated, whoever  *)
(* refreshed the session and whichever copy was met.                       *)
AcceptedInTime ==
  \A r \in Reqs : (job[r].pc = "check" /\ job'[r].pc \in {"accepted", "hset"})
                     => age[job[r].tok] <= Expire

(* The collector takes a live token only when that was stored after the    *)
(* collector had seen an expired one of the same user.                     *)
SweepsExpired ==
  (sweep # "idle" /\ sweep' = "idle" /\ hash # None /\ ~Expired(hash)) => sweep = "stale"

(* Tokens come to an end: after every step, and in it.                     *)
TokensEnd == OverIsOver' /\ AcceptedInTime /\ SweepsExpired
=============================================================================
