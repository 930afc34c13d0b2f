----------------------------- MODULE RpcProofs ------------------------------
(***************************************************************************)
(* Proofs about Rpc: contexts are reused, and yet an answer is that of its *)
(* request; a method is called at most once and only behind its gates.     *)
(* The argument: a context is either in the pool, empty, or belongs to the *)
(* one request it names, and what a context holds at each gate is what     *)
(* that request has put there.                                             *)
(*                                                                         *)
(* And about Rpc2, whose chain of handlers keeps its promises.  The        *)
(* argument: while an answer is due a handler that has called another has  *)
(* called Next, so that who is left last has come to the chain's end; and  *)
(* a function behind it has answered, or panics.                           *)
(***************************************************************************)
EXTENDS Runtime, SequenceTheorems, FiniteSetTheorems, WellFoundedInduction, TLAPS

PC == {"idle", "enter", "decode", "chain", "args", "call", "respond", "release", "done"}

CtxType == [req : Reqs \cup {None}, stopped : BOOLEAN, index : Nat, msg : R!Msg,
            started : Reqs \cup {None}]

ReqType == [pc : PC, in : Inputs \cup {None}, c : Ctxs \cup {None}, stack : Seq(Nat),
            err : R!Err]

CallType == [args : Seq({"new", "zero", "given", "nil"}), chain : Seq(Nat),
             stopped : BOOLEAN, started : Reqs \cup {None}]

AnswerType == [status : Nat, msg : R!Msg]

Typed ==
  /\ pool \subseteq Ctxs
  /\ ctx \in [Ctxs -> CtxType]
  /\ rq \in [Reqs -> ReqType]
  /\ answer \in [Reqs -> AnswerType \cup {None}]
  /\ ran \in [Reqs -> Seq(CallType)]
  /\ seen \in [Reqs -> Seq(Nat)]

(* A free context carries no message. *)
Clean == \A c \in pool : ctx[c].msg = R!NoMsg

(* A request under way has a context of its own. *)
Owns(r) ==
  IF rq[r].pc \in {"idle", "done"} THEN rq[r].c = None
  ELSE rq[r].c \in Ctxs \ pool /\ ctx[rq[r].c].req = r

Rising(s) == \A j, k \in DOMAIN s : j < k => s[j] < s[k]

(* What is known at each gate. *)
Gated(r) ==
  LET pc == rq[r].pc IN
  /\ pc \in {"enter", "decode"} => /\ ~R!Ctx(r).stopped
                                   /\ R!Ctx(r).index = 0
                                   /\ R!Ctx(r).msg = R!NoMsg
  /\ pc \in {"chain", "args", "call"} => R!Ctx(r).started = r /\ R!Found(rq[r].in) # {}
  /\ pc \in {"args", "call"} => ~R!Ctx(r).stopped
  /\ pc = "chain" => \A j \in DOMAIN seen[r] : seen[r][j] <= R!Ctx(r).index + 1
  /\ pc \in {"idle", "enter", "decode"} => seen[r] = <<>>
  /\ Rising(seen[r])
  /\ pc \notin {"respond", "release", "done"} => ran[r] = <<>> /\ rq[r].err = None
  /\ r \in refused => run = 0 /\ pc \in {"enter", "release", "done"}

(* What a message holds that is on its way through the gates. *)
NoId(in) == in.fault \in R!Unread \cup {"json"} \/ in.id = "absent"

Carries(r, m) ==
  /\ m.result \in {None, <<"made", r>>, <<"sent", r>>}
  /\ m.result = <<"made", r>> => ran[r] # <<>> /\ rq[r].err = None
  /\ m.result = <<"sent", r>> => "result" \in rq[r].in.carries

Filled(r) ==
  rq[r].pc \in {"chain", "args", "call", "respond"} =>
    /\ R!Ctx(r).msg.id = IF NoId(rq[r].in) THEN None ELSE r
    /\ rq[r].err = None => R!Ctx(r).msg.error = R!Brought(r, rq[r].in, "error", None)
    /\ Carries(r, R!Ctx(r).msg)

(* What an answer says. *)
Says(r) ==
  (answer[r] # None /\ answer[r].msg # R!NoMsg) =>
    /\ rq[r].pc \in {"release", "done"}
    /\ answer[r].msg.id = IF NoId(rq[r].in) THEN "1" ELSE r
    /\ answer[r].msg.error = IF rq[r].err # None THEN <<rq[r].err, r>>
                             ELSE R!Brought(r, rq[r].in, "error", None)
    /\ Carries(r, answer[r].msg)

(* How its method was called. *)
Called(r) ==
  /\ Len(ran[r]) <= 1
  /\ \A i \in DOMAIN ran[r] :
       /\ r \notin refused
       /\ ~ran[r][i].stopped
       /\ ran[r][i].started = r
       /\ Len(ran[r][i].args) = Len(R!ArgTypes(R!Method(r)))
       /\ Rising(ran[r][i].chain)

Fine(r) == Owns(r) /\ Gated(r) /\ Filled(r) /\ Says(r) /\ Called(r)

IInv == Typed /\ Clean /\ \A r \in Reqs : Fine(r)

-----------------------------------------------------------------------------
LEMMA InvGives == IInv => R!OwnAnswer /\ R!CallsGuarded
<1> SUFFICES ASSUME IInv PROVE R!OwnAnswer /\ R!CallsGuarded
  OBVIOUS
<1>1. R!OwnAnswer
  BY DEF IInv, Fine, Says, Carries, NoId, R!OwnAnswer
<1>2. R!CallsGuarded
  BY DEF IInv, Fine, Called, Rising, R!CallsGuarded
<1>3. QED
  BY <1>1, <1>2

LEMMA Empty == R!NoMsg \in R!Msg /\ R!NewContext \in CtxType /\ R!NoReq \in ReqType
BY DEF R!NoMsg, R!NewContext, R!NoReq, R!Msg, CtxType, ReqType, PC, R!Err

LEMMA FirstSeen ==
  /\ <<1>> \in Seq(Nat) /\ Rising(<<1>>) /\ \A j \in DOMAIN <<1>> : <<1>>[j] <= 1
  /\ <<>> \in Seq(Nat) /\ Rising(<<>>)
BY DEF Rising

LEMMA InitIInv == R!Init => IInv
<1> SUFFICES ASSUME R!Init PROVE IInv
  OBVIOUS
<1>1. Typed
  BY Empty DEF R!Init, Typed
<1>2. Clean
  BY DEF R!Init, Clean, R!NewContext
<1>3. ASSUME NEW r \in Reqs PROVE Fine(r)
  <2>1. rq[r].pc = "idle" /\ rq[r].c = None /\ rq[r].err = None
    BY DEF R!Init, R!NoReq
  <2>2. ran[r] = <<>> /\ seen[r] = <<>> /\ answer[r] = None /\ r \notin refused
    BY DEF R!Init
  <2>3. QED
    BY <2>1, <2>2 DEF Fine, Owns, Gated, Filled, Says, Called, Rising
<1>4. QED
  BY <1>1, <1>2, <1>3 DEF IInv

(* A step of r leaves the other requests alone: it changes no context but  *)
(* its own and free ones.                                                  *)
Alone(r) ==
  /\ \A s \in Reqs \ {r} : /\ rq'[s] = rq[s] /\ answer'[s] = answer[s]
                           /\ ran'[s] = ran[s] /\ seen'[s] = seen[s]
                           /\ s \in refused' => s \in refused
  /\ \A c \in Ctxs \ pool : c = rq[r].c \/ (c \notin pool' /\ ctx'[c] = ctx[c])
  /\ run = 0 => run' = 0

LEMMA OthersFine ==
  ASSUME R!RpcConstants, IInv, NEW r \in Reqs, Alone(r), NEW s \in Reqs \ {r}
  PROVE  Fine(s)'
<1>1. Typed /\ Fine(s) /\ Owns(r)
  BY DEF IInv, Fine
<1>2. /\ rq'[s] = rq[s] /\ answer'[s] = answer[s] /\ ran'[s] = ran[s]
      /\ seen'[s] = seen[s] /\ (s \in refused' => s \in refused) /\ (run = 0 => run' = 0)
  BY DEF Alone
<1>3. rq[s].pc \notin {"idle", "done"} =>
        rq[s].c \in Ctxs \ pool' /\ ctx'[rq[s].c] = ctx[rq[s].c]
  <2>1. rq[s].pc \notin {"idle", "done"} =>
          rq[s].c \in Ctxs \ pool /\ rq[s].c # rq[r].c
    BY <1>1 DEF Fine, Owns, R!RpcConstants
  <2>2. QED
    BY <2>1 DEF Alone
<1>4. Owns(s)'
  BY <1>1, <1>2, <1>3 DEF Fine, Owns
<1>5. Gated(s)'
  BY <1>1, <1>2, <1>3 DEF Fine, Gated, R!Ctx
<1>6. Filled(s)'
  BY <1>1, <1>2, <1>3 DEF Fine, Filled, Carries, R!Ctx
<1>7. Says(s)'
  BY <1>1, <1>2 DEF Fine, Says, Carries
<1>8. Called(s)'
  BY <1>1, <1>2 DEF Fine, Called, R!Method
<1>9. QED
  BY <1>4, <1>5, <1>6, <1>7, <1>8 DEF Fine

LEMMA StepFine ==
  ASSUME R!RpcConstants, IInv, NEW r \in Reqs, Alone(r), Typed', Clean', Fine(r)'
  PROVE  IInv'
BY OthersFine DEF IInv

LEMMA Busy ==
  ASSUME IInv, NEW r \in Reqs, rq[r].pc \notin {"idle", "done"}
  PROVE  /\ rq[r] \in ReqType /\ rq[r].c \in Ctxs \ pool /\ R!Ctx(r) = ctx[rq[r].c]
         /\ R!Ctx(r) \in CtxType /\ R!Ctx(r).req = r
         /\ Typed /\ Fine(r)
BY DEF IInv, Fine, Owns, Typed, R!Ctx

(* A step of a request within its own context. *)
LEMMA OwnStep ==
  ASSUME R!RpcConstants, IInv, NEW r \in Reqs, rq[r].pc \notin {"idle", "done"},
         NEW new \in ReqType, new.c = rq[r].c, new.pc \notin {"idle", "done"},
         NEW x \in CtxType, x.req = r,
         rq' = [rq EXCEPT ![r] = new], ctx' = [ctx EXCEPT ![rq[r].c] = x],
         answer' \in [Reqs -> AnswerType \cup {None}],
         \A s \in Reqs \ {r} : answer'[s] = answer[s],
         ran' \in [Reqs -> Seq(CallType)], \A s \in Reqs \ {r} : ran'[s] = ran[s],
         seen' \in [Reqs -> Seq(Nat)], \A s \in Reqs \ {r} : seen'[s] = seen[s],
         UNCHANGED <<run, pool, refused>>
  PROVE  /\ rq'[r] = new /\ R!Ctx(r)' = x
         /\ Gated(r)' /\ Filled(r)' /\ Says(r)' /\ Called(r)' => IInv'
<1>1. Typed /\ rq[r].c \in Ctxs \ pool /\ Clean
  BY Busy DEF IInv
<1>2. /\ rq'[r] = new /\ R!Ctx(r)' = x /\ \A s \in Reqs \ {r} : rq'[s] = rq[s]
      /\ \A c \in Ctxs : ctx'[c] = IF c = rq[r].c THEN x ELSE ctx[c]
      /\ ctx' \in [Ctxs -> CtxType] /\ rq' \in [Reqs -> ReqType]
  BY <1>1 DEF Typed, R!Ctx
<1>3. Typed'
  BY <1>1, <1>2 DEF Typed
<1>4. Clean'
  BY <1>1, <1>2 DEF Clean, Typed
<1>5. Alone(r)
  BY <1>1, <1>2 DEF Alone
<1>6. Owns(r)'
  BY <1>1, <1>2 DEF Owns, R!Ctx
<1>7. QED
  BY <1>2, <1>3, <1>4, <1>5, <1>6, StepFine DEF Fine

(* Some of the variables stay. *)
LEMMA SameCtx ==
  ASSUME Typed, NEW c \in Ctxs, ctx' = ctx
  PROVE  ctx' = [ctx EXCEPT ![c] = ctx[c]]
BY DEF Typed

LEMMA SameReq ==
  ASSUME Typed, NEW r \in Reqs, rq' = rq
  PROVE  rq' = [rq EXCEPT ![r] = rq[r]]
BY DEF Typed

LEMMA Plainly ==
  ASSUME NEW status \in Nat
  PROVE  R!Plain(status) \in AnswerType /\ R!Plain(status).msg = R!NoMsg
BY Empty DEF R!Plain, AnswerType

LEMMA Written ==
  ASSUME Typed, NEW r \in Reqs, NEW what \in AnswerType, R!Writes(r, what)
  PROVE  /\ answer' \in [Reqs -> AnswerType \cup {None}]
         /\ \A s \in Reqs \ {r} : answer'[s] = answer[s]
         /\ answer'[r] = IF answer[r] = None THEN what ELSE answer[r]
BY DEF Typed, R!Writes

-----------------------------------------------------------------------------
LEMMA EnterIInv ==
  ASSUME R!RpcConstants, IInv, NEW r \in Reqs, R!Enter(r)
  PROVE  IInv'
<1>1. /\ rq[r].pc = "enter" /\ UNCHANGED <<run, pool, ctx, ran, seen, refused>>
      /\ rq[r] \in ReqType /\ rq[r].c \in Ctxs \ pool /\ R!Ctx(r) = ctx[rq[r].c]
      /\ R!Ctx(r) \in CtxType /\ R!Ctx(r).req = r /\ Typed /\ Fine(r)
  BY Busy DEF R!Enter
<1>2. /\ answer' \in [Reqs -> AnswerType \cup {None}]
      /\ \A s \in Reqs \ {r} : answer'[s] = answer[s]
      /\ answer'[r] = answer[r] \/ answer'[r].msg = R!NoMsg
  <2>1. CASE answer' = answer
    BY <1>1, <2>1 DEF Typed
  <2>2. CASE \E f : R!Writes(r, R!Plain(R!Status(f)))
    <3>1. PICK f : R!Writes(r, R!Plain(R!Status(f)))
      BY <2>2
    <3>2. R!Plain(R!Status(f)) \in AnswerType /\ R!Plain(R!Status(f)).msg = R!NoMsg
      BY Plainly DEF R!Status
    <3>3. QED
      BY <1>1, <3>1, <3>2, Written
  <2>3. QED
    BY <2>1, <2>2 DEF R!Enter
<1>3. PICK pc \in {"release", "decode"} : R!To(r, pc) /\ (run = 0 => pc = "release")
  BY DEF R!Enter
<1> DEFINE new == [rq[r] EXCEPT !.pc = pc]
<1>4. /\ rq' = [rq EXCEPT ![r] = new] /\ new \in ReqType
      /\ new.pc = pc /\ new.c = rq[r].c /\ new.in = rq[r].in /\ new.err = rq[r].err
  BY <1>1, <1>3 DEF R!To, Typed, ReqType, PC
<1> HIDE DEF new
<1>5. ctx' = [ctx EXCEPT ![rq[r].c] = R!Ctx(r)]
  BY <1>1, SameCtx
<1>6. /\ rq'[r] = new /\ R!Ctx(r)' = R!Ctx(r)
      /\ Gated(r)' /\ Filled(r)' /\ Says(r)' /\ Called(r)' => IInv'
  BY <1>1, <1>2, <1>3, <1>4, <1>5, OwnStep DEF Typed
<1>7. Gated(r)'
  BY <1>1, <1>3, <1>4, <1>6 DEF Fine, Gated
<1>8. Filled(r)' /\ Says(r)'
  BY <1>1, <1>2, <1>3, <1>4, <1>6 DEF Fine, Filled, Says
<1>9. Called(r)'
  BY <1>1, <1>4, <1>6 DEF Fine, Called, R!Method
<1>10. QED
  BY <1>6, <1>7, <1>8, <1>9

LEMMA DecodeIInv ==
  ASSUME R!RpcConstants, IInv, NEW r \in Reqs, R!Decode(r)
  PROVE  IInv'
<1>1. /\ rq[r].pc = "decode" /\ UNCHANGED <<run, pool, answer, ran, refused>>
      /\ rq[r] \in ReqType /\ rq[r].c \in Ctxs \ pool /\ R!Ctx(r) = ctx[rq[r].c]
      /\ R!Ctx(r) \in CtxType /\ R!Ctx(r).req = r /\ Typed /\ Fine(r)
  BY Busy DEF R!Decode
<1> DEFINE in == rq[r].in
           m == R!Decoded(R!NoMsg, r, in)
           x == [R!Ctx(r) EXCEPT !.msg = m,
                               !.started = IF in.fault \in R!Unread THEN @ ELSE r]
<1>2. /\ R!Ctx(r).msg = R!NoMsg /\ ~R!Ctx(r).stopped /\ R!Ctx(r).index = 0
      /\ seen[r] = <<>> /\ ran[r] = <<>> /\ rq[r].err = None /\ r \notin refused
      /\ answer[r] = None \/ answer[r].msg = R!NoMsg
  BY <1>1 DEF Fine, Gated, Says
<1>3. /\ m \in R!Msg
      /\ m.id = IF NoId(in) THEN None ELSE r
      /\ in.fault \notin R!Unread \cup {"json"} => m.error = R!Brought(r, in, "error", None)
      /\ m.result \in {None, <<"sent", r>>}
      /\ m.result = <<"sent", r>> => "result" \in in.carries
      /\ m.result # <<"made", r>>
  BY Empty DEF R!Decoded, R!Brought, R!NoMsg, R!Msg, NoId, R!RpcConstants
<1>4. /\ x \in CtxType /\ x.req = r /\ x.msg = m /\ ~x.stopped /\ x.index = 0
      /\ in.fault \notin R!Unread => x.started = r
  BY <1>1, <1>2, <1>3 DEF CtxType
<1>5. ctx' = [ctx EXCEPT ![rq[r].c] = x]
  BY <1>1, <1>2 DEF R!Decode, Typed, CtxType
<1>6. R!Refusal(in) = None => in.fault \notin R!Unread \cup {"json"} /\ R!Found(in) # {}
  BY DEF R!Refusal, R!RpcConstants, R!Failures
<1>7. R!Refusal(in) \in R!Err
  BY DEF R!Refusal, R!Err, R!Failures
<1> HIDE DEF in, m, x
<1>8. CASE R!Refusal(in) # None
  <2> DEFINE new == [rq[r] EXCEPT !.pc = "respond", !.err = R!Refusal(in)]
  <2>1. /\ rq' = [rq EXCEPT ![r] = new] /\ new \in ReqType /\ seen' = seen
        /\ new.pc = "respond" /\ new.c = rq[r].c /\ new.in = in /\ new.err = R!Refusal(in)
    BY <1>1, <1>7, <1>8 DEF in, R!Decode, R!ToErr, Typed, ReqType, PC
  <2> HIDE DEF new
  <2>2. /\ rq'[r] = new /\ R!Ctx(r)' = x
        /\ Gated(r)' /\ Filled(r)' /\ Says(r)' /\ Called(r)' => IInv'
    BY <1>1, <1>4, <1>5, <2>1, OwnStep DEF Typed
  <2>3. Gated(r)'
    BY <1>1, <1>2, <2>1, <2>2 DEF Gated, Rising
  <2>4. Filled(r)' /\ Says(r)'
    BY <1>1, <1>2, <1>3, <1>4, <1>8, <2>1, <2>2 DEF Filled, Says, Carries, R!RpcConstants
  <2>5. Called(r)'
    BY <1>1, <1>2 DEF Called
  <2>6. QED
    BY <2>2, <2>3, <2>4, <2>5
<1>9. CASE R!Refusal(in) = None
  <2>1. PICK new \in ReqType :
          /\ rq' = [rq EXCEPT ![r] = new] /\ new.c = rq[r].c /\ new.in = in
          /\ new.err = None
          /\ \/ new.pc = "args" /\ seen' = seen
             \/ new.pc = "chain" /\ seen' = [seen EXCEPT ![r] = <<1>>]
    <3>1. CASE R!N = 0
      <4> DEFINE new == [rq[r] EXCEPT !.pc = "args"]
      <4>1. /\ rq' = [rq EXCEPT ![r] = new] /\ new \in ReqType /\ seen' = seen
            /\ new.pc = "args" /\ new.c = rq[r].c /\ new.in = in /\ new.err = None
        BY <1>1, <1>2, <1>9, <3>1 DEF in, R!Decode, R!To, Typed, ReqType, PC
      <4>2. QED
        BY <4>1
    <3>2. CASE R!N # 0
      <4> DEFINE new == [rq[r] EXCEPT !.pc = "chain", !.stack = <<1>>]
      <4>1. /\ rq' = [rq EXCEPT ![r] = new] /\ new \in ReqType
            /\ seen' = [seen EXCEPT ![r] = <<1>>]
            /\ new.pc = "chain" /\ new.c = rq[r].c /\ new.in = in /\ new.err = None
        BY <1>1, <1>2, <1>9, <3>2, FirstSeen DEF in, R!Decode, Typed, ReqType, PC
      <4>2. QED
        BY <4>1
    <3>3. QED
      BY <3>1, <3>2
  <2>2. /\ seen' \in [Reqs -> Seq(Nat)] /\ \A s \in Reqs \ {r} : seen'[s] = seen[s]
        /\ Rising(seen'[r])
        /\ new.pc = "chain" => \A j \in DOMAIN seen'[r] : seen'[r][j] <= x.index + 1
        /\ new.pc = "args" => ~x.stopped
    <3>1. CASE seen' = seen /\ new.pc = "args"
      BY <1>1, <1>2, <1>4, <3>1, FirstSeen DEF Typed
    <3>2. CASE seen' = [seen EXCEPT ![r] = <<1>>]
      <4>1. seen'[r] = <<1>> /\ x.index + 1 = 1
        BY <1>1, <1>4, <3>2 DEF Typed
      <4>2. QED
        BY <1>1, <1>4, <3>2, <4>1, FirstSeen DEF Typed
    <3>3. QED
      BY <2>1, <3>1, <3>2
  <2>3. /\ rq'[r] = new /\ R!Ctx(r)' = x
        /\ Gated(r)' /\ Filled(r)' /\ Says(r)' /\ Called(r)' => IInv'
    BY <1>1, <1>4, <1>5, <2>1, <2>2, OwnStep DEF Typed
  <2>4. Gated(r)'
    BY <1>1, <1>2, <1>4, <1>6, <1>9, <2>1, <2>2, <2>3 DEF Gated
  <2>5. Filled(r)' /\ Says(r)'
    BY <1>1, <1>2, <1>3, <1>4, <1>6, <1>9, <2>1, <2>3 DEF Filled, Says, Carries, R!RpcConstants
  <2>6. Called(r)'
    BY <1>1, <1>2 DEF Called
  <2>7. QED
    BY <2>3, <2>4, <2>5, <2>6
<1>10. QED
  BY <1>8, <1>9

-----------------------------------------------------------------------------
(* The chain and the preparation of the call.                              *)

LEMMA RisingAppend ==
  ASSUME NEW s \in Seq(Nat), NEW n \in Nat, Rising(s), \A j \in DOMAIN s : s[j] <= n
  PROVE  /\ Append(s, n + 1) \in Seq(Nat) /\ Rising(Append(s, n + 1))
         /\ \A j \in DOMAIN Append(s, n + 1) : Append(s, n + 1)[j] <= n + 1
<1> DEFINE t == Append(s, n + 1)
<1>1. /\ t \in Seq(Nat) /\ Len(s) \in Nat /\ DOMAIN t = 1..(Len(s) + 1)
      /\ DOMAIN s = 1..Len(s) /\ t[Len(s) + 1] = n + 1
      /\ \A j \in 1..Len(s) : t[j] = s[j] /\ s[j] \in Nat
  OBVIOUS
<1> HIDE DEF t
<1>2. ASSUME NEW j \in DOMAIN t, NEW k \in DOMAIN t, j < k PROVE t[j] < t[k]
  <2>1. j \in 1..Len(s) /\ t[j] = s[j] /\ s[j] \in Nat /\ s[j] <= n
    BY <1>1, <1>2
  <2>2. CASE k \in 1..Len(s)
    BY <1>1, <1>2, <2>1, <2>2 DEF Rising
  <2>3. CASE k = Len(s) + 1
    BY <1>1, <2>1, <2>3
  <2>4. QED
    BY <1>1, <2>2, <2>3
<1>3. ASSUME NEW j \in DOMAIN t PROVE t[j] <= n + 1
  <2>1. CASE j \in 1..Len(s)
    <3>1. t[j] \in Nat /\ t[j] <= n
      BY <1>1, <2>1
    <3>2. QED
      BY <3>1
  <2>2. CASE j = Len(s) + 1
    BY <1>1, <2>2
  <2>3. QED
    BY <1>1, <1>3, <2>1, <2>2
<1>4. QED
  BY <1>1, <1>2, <1>3 DEF t, Rising

(* A step that calls no method and changes no message. *)
LEMMA GoesOn ==
  ASSUME R!RpcConstants, IInv, NEW r \in Reqs, rq[r].pc \in {"chain", "args"},
         NEW new \in ReqType, NEW x \in CtxType,
         new.c = rq[r].c, new.in = rq[r].in,
         new.pc \in {"chain", "args", "call", "respond", "release"},
         x = [R!Ctx(r) EXCEPT !.stopped = x.stopped, !.index = x.index],
         new.pc \in {"chain", "args", "call"} => new.err = None,
         new.pc \in {"args", "call"} => ~x.stopped,
         rq' = [rq EXCEPT ![r] = new], ctx' = [ctx EXCEPT ![rq[r].c] = x],
         answer' \in [Reqs -> AnswerType \cup {None}],
         \A s \in Reqs \ {r} : answer'[s] = answer[s],
         answer'[r] = answer[r] \/ answer'[r].msg = R!NoMsg,
         seen' \in [Reqs -> Seq(Nat)], \A s \in Reqs \ {r} : seen'[s] = seen[s],
         Rising(seen'[r]),
         new.pc = "chain" => \A j \in DOMAIN seen'[r] : seen'[r][j] <= x.index + 1,
         UNCHANGED <<run, pool, ran, refused>>
  PROVE  IInv'
<1>1. /\ rq[r] \in ReqType /\ rq[r].c \in Ctxs \ pool /\ R!Ctx(r) = ctx[rq[r].c]
      /\ R!Ctx(r) \in CtxType /\ R!Ctx(r).req = r /\ Typed /\ Fine(r)
  BY Busy
<1>2. x.msg = R!Ctx(r).msg /\ x.started = R!Ctx(r).started /\ x.req = r
  BY <1>1 DEF CtxType
<1>3. /\ rq'[r] = new /\ R!Ctx(r)' = x
      /\ Gated(r)' /\ Filled(r)' /\ Says(r)' /\ Called(r)' => IInv'
  BY <1>1, <1>2, OwnStep, ZenonT(60) DEF Typed
<1>4. /\ ran[r] = <<>> /\ r \notin refused /\ R!Found(rq[r].in) # {} /\ R!Ctx(r).started = r
      /\ rq[r].err = None
  BY <1>1 DEF Fine, Gated
<1>5. answer[r] = None \/ answer[r].msg = R!NoMsg
  BY <1>1 DEF Fine, Says
<1>6. /\ R!Ctx(r).msg.error = R!Brought(r, rq[r].in, "error", None)
      /\ R!Ctx(r).msg.result # <<"made", r>>
  BY <1>1, <1>4 DEF Fine, Filled, Carries
<1>7. Gated(r)'
  BY <1>2, <1>3, <1>4 DEF Gated
<1>8. Filled(r)'
  <2>1. /\ rq'[r].in = rq[r].in /\ R!Ctx(r).msg = R!Ctx(r)'.msg
    BY <1>2, <1>3
  <2>2. /\ R!Ctx(r).msg.id = IF NoId(rq[r].in) THEN None ELSE r
        /\ Carries(r, R!Ctx(r).msg) /\ ran'[r] = ran[r]
    BY <1>1 DEF Fine, Filled
  <2>3. QED
    BY <1>4, <1>6, <2>1, <2>2 DEF Filled, Carries
<1>9. Says(r)' /\ Called(r)'
  BY <1>3, <1>4, <1>5 DEF Says, Called
<1>10. QED
  BY <1>3, <1>7, <1>8, <1>9

LEMMA ChainFacts ==
  ASSUME IInv, NEW r \in Reqs, rq[r].pc \in {"chain", "args"}
  PROVE  /\ rq[r] \in ReqType /\ rq[r].c \in Ctxs /\ R!Ctx(r) = ctx[rq[r].c]
         /\ R!Ctx(r) \in CtxType /\ R!Ctx(r).req = r /\ Typed
         /\ R!Ctx(r) = [R!Ctx(r) EXCEPT !.stopped = R!Ctx(r).stopped, !.index = R!Ctx(r).index]
         /\ Rising(seen[r]) /\ seen[r] \in Seq(Nat) /\ rq[r].err = None
         /\ rq[r].pc = "chain" => \A j \in DOMAIN seen[r] : seen[r][j] <= R!Ctx(r).index + 1
         /\ rq[r].pc = "args" => ~R!Ctx(r).stopped
         /\ rq[r].stack \in Seq(Nat)
<1>1. /\ rq[r] \in ReqType /\ rq[r].c \in Ctxs /\ R!Ctx(r) = ctx[rq[r].c]
      /\ R!Ctx(r) \in CtxType /\ R!Ctx(r).req = r /\ Typed /\ Fine(r)
  BY Busy
<1>2. R!Ctx(r) = [R!Ctx(r) EXCEPT !.stopped = R!Ctx(r).stopped, !.index = R!Ctx(r).index]
  BY <1>1 DEF CtxType
<1>3. QED
  BY <1>1, <1>2 DEF Fine, Gated, Typed, ReqType

LEMMA HandlerNextIInv ==
  ASSUME R!RpcConstants, IInv, NEW r \in Reqs, R!HandlerNext(r)
  PROVE  IInv'
<1> DEFINE i == R!Ctx(r).index + 1
           x == [R!Ctx(r) EXCEPT !.index = i]
<1>1. /\ rq[r].pc = "chain" /\ UNCHANGED <<run, pool, answer, ran, refused>>
      /\ rq[r] \in ReqType /\ rq[r].c \in Ctxs /\ R!Ctx(r) = ctx[rq[r].c]
      /\ R!Ctx(r) \in CtxType /\ Typed
      /\ Rising(seen[r]) /\ seen[r] \in Seq(Nat) /\ rq[r].err = None
      /\ \A j \in DOMAIN seen[r] : seen[r][j] <= R!Ctx(r).index + 1
      /\ rq[r].stack \in Seq(Nat)
  BY ChainFacts DEF R!HandlerNext
<1>2. i \in Nat /\ ctx' = [ctx EXCEPT ![rq[r].c] = x]
  BY <1>1 DEF R!HandlerNext, R!NextIndex, CtxType, Typed
<1>3. /\ x \in CtxType /\ x.index = i
      /\ x = [R!Ctx(r) EXCEPT !.stopped = x.stopped, !.index = x.index]
  BY <1>1, <1>2 DEF CtxType
<1>4. /\ Append(seen[r], i + 1) \in Seq(Nat) /\ Rising(Append(seen[r], i + 1))
      /\ \A j \in DOMAIN Append(seen[r], i + 1) : Append(seen[r], i + 1)[j] <= i + 1
  BY <1>1, <1>2, RisingAppend
<1>5. CASE rq' = [rq EXCEPT ![r].stack = Append(@, i + 1)]
           /\ seen' = [seen EXCEPT ![r] = Append(@, i + 1)]
  <2> DEFINE new == [rq[r] EXCEPT !.stack = Append(@, i + 1)]
  <2>1. Append(rq[r].stack, i + 1) \in Seq(Nat)
    BY <1>1, <1>2
  <2> HIDE DEF i
  <2>2. /\ new \in ReqType /\ new.c = rq[r].c /\ new.in = rq[r].in /\ new.pc = "chain"
        /\ new.err = None /\ rq' = [rq EXCEPT ![r] = new]
    BY <1>1, <1>5, <2>1 DEF ReqType, Typed
  <2>3. /\ seen'[r] = Append(seen[r], i + 1) /\ seen' \in [Reqs -> Seq(Nat)]
        /\ \A s \in Reqs \ {r} : seen'[s] = seen[s]
    BY <1>1, <1>4, <1>5 DEF Typed
  <2> HIDE DEF new, x
  <2>4. QED
    BY <1>1, <1>2, <1>3, <1>4, <2>2, <2>3, GoesOn DEF Typed
<1>6. CASE UNCHANGED <<rq, seen>>
  <2>1. rq' = [rq EXCEPT ![r] = rq[r]]
    BY <1>1, <1>6, SameReq
  <2>2. \A j \in DOMAIN seen[r] : seen[r][j] <= i + 1
    <3>1. \A j \in DOMAIN seen[r] : seen[r][j] \in Nat
      BY <1>1
    <3>2. QED
      BY <1>1, <1>2, <3>1 DEF CtxType
  <2> HIDE DEF x, i
  <2>3. QED
    BY <1>1, <1>2, <1>3, <1>6, <2>1, <2>2, GoesOn DEF Typed
<1>7. QED
  BY <1>5, <1>6 DEF R!HandlerNext, R!NextIndex

LEMMA HandlerStopIInv ==
  ASSUME R!RpcConstants, IInv, NEW r \in Reqs, R!HandlerStop(r)
  PROVE  IInv'
<1> DEFINE x == [R!Ctx(r) EXCEPT !.stopped = TRUE]
<1>1. /\ rq[r].pc = "chain" /\ UNCHANGED <<run, pool, rq, answer, ran, seen, refused>>
      /\ rq[r] \in ReqType /\ rq[r].c \in Ctxs /\ R!Ctx(r) = ctx[rq[r].c]
      /\ R!Ctx(r) \in CtxType /\ Typed /\ Rising(seen[r]) /\ rq[r].err = None
      /\ \A j \in DOMAIN seen[r] : seen[r][j] <= R!Ctx(r).index + 1
  BY ChainFacts DEF R!HandlerStop
<1>2. ctx' = [ctx EXCEPT ![rq[r].c] = x] /\ rq' = [rq EXCEPT ![r] = rq[r]]
  BY <1>1, SameReq DEF R!HandlerStop, Typed
<1>3. /\ x \in CtxType /\ x.index = R!Ctx(r).index
      /\ x = [R!Ctx(r) EXCEPT !.stopped = x.stopped, !.index = x.index]
  BY <1>1 DEF CtxType
<1> HIDE DEF x
<1>4. QED
  BY <1>1, <1>2, <1>3, GoesOn DEF Typed

LEMMA HandlerWritesIInv ==
  ASSUME R!RpcConstants, IInv, NEW r \in Reqs, R!HandlerWrites(r)
  PROVE  IInv'
<1>1. /\ rq[r].pc = "chain" /\ UNCHANGED <<run, pool, ctx, rq, ran, seen, refused>>
      /\ rq[r] \in ReqType /\ rq[r].c \in Ctxs /\ R!Ctx(r) = ctx[rq[r].c]
      /\ R!Ctx(r) \in CtxType /\ R!Ctx(r).req = r /\ Typed
      /\ R!Ctx(r) = [R!Ctx(r) EXCEPT !.stopped = R!Ctx(r).stopped, !.index = R!Ctx(r).index]
      /\ Rising(seen[r]) /\ rq[r].err = None
      /\ \A j \in DOMAIN seen[r] : seen[r][j] <= R!Ctx(r).index + 1
  BY ChainFacts DEF R!HandlerWrites
<1>2. ctx' = [ctx EXCEPT ![rq[r].c] = R!Ctx(r)] /\ rq' = [rq EXCEPT ![r] = rq[r]]
  BY <1>1, SameReq, SameCtx
<1>3. R!Plain(403) \in AnswerType /\ R!Plain(403).msg = R!NoMsg /\ R!Writes(r, R!Plain(403))
  BY <1>1, Plainly DEF R!HandlerWrites
<1>4. /\ answer' \in [Reqs -> AnswerType \cup {None}]
      /\ \A s \in Reqs \ {r} : answer'[s] = answer[s]
      /\ answer'[r] = answer[r] \/ answer'[r].msg = R!NoMsg
  BY <1>1, <1>3, Written
<1>5. QED
  BY <1>1, <1>2, <1>4, GoesOn DEF Typed

(* Steps that only let the request go on. *)
LEMMA RequestGoesOn ==
  ASSUME R!RpcConstants, IInv, NEW r \in Reqs, rq[r].pc \in {"chain", "args"},
         NEW new \in ReqType, rq' = [rq EXCEPT ![r] = new],
         new.c = rq[r].c, new.in = rq[r].in,
         new.pc \in {"args", "call", "respond", "release"} \/ new.pc = rq[r].pc,
         new.pc \in {"chain", "args", "call"} => new.err = None,
         new.pc \in {"args", "call"} => ~R!Ctx(r).stopped,
         UNCHANGED <<run, pool, ctx, answer, ran, seen, refused>>
  PROVE  IInv'
<1>1. /\ rq[r] \in ReqType /\ rq[r].c \in Ctxs /\ R!Ctx(r) = ctx[rq[r].c]
      /\ R!Ctx(r) \in CtxType /\ R!Ctx(r).req = r /\ Typed
      /\ R!Ctx(r) = [R!Ctx(r) EXCEPT !.stopped = R!Ctx(r).stopped, !.index = R!Ctx(r).index]
      /\ Rising(seen[r])
      /\ rq[r].pc = "chain" => \A j \in DOMAIN seen[r] : seen[r][j] <= R!Ctx(r).index + 1
  BY ChainFacts
<1>2. ctx' = [ctx EXCEPT ![rq[r].c] = R!Ctx(r)]
  BY <1>1, SameCtx
<1>3. QED
  BY <1>1, <1>2, GoesOn DEF Typed

LEMMA HandlerEndsIInv ==
  ASSUME R!RpcConstants, IInv, NEW r \in Reqs,
         R!HandlerPanics(r) \/ \E e \in {None, "handler"} : R!HandlerReturns(r, e)
  PROVE  IInv'
<1>1. /\ rq[r].pc = "chain" /\ UNCHANGED <<run, pool, ctx, answer, ran, seen, refused>>
      /\ rq[r] \in ReqType /\ Typed /\ rq[r].err = None /\ rq[r].stack \in Seq(Nat)
  <2>1. rq[r].pc = "chain" /\ UNCHANGED <<run, pool, ctx, answer, ran, seen, refused>>
    BY DEF R!HandlerPanics, R!HandlerReturns
  <2>2. QED
    BY <2>1, ChainFacts
<1>2. CASE R!HandlerPanics(r)
  <2> DEFINE new == [rq[r] EXCEPT !.stack = <<>>, !.pc = "release"]
  <2>1. /\ new \in ReqType /\ new.c = rq[r].c /\ new.in = rq[r].in /\ new.pc = "release"
        /\ rq' = [rq EXCEPT ![r] = new]
    BY <1>1, <1>2, FirstSeen DEF ReqType, PC, R!HandlerPanics, Typed
  <2> HIDE DEF new
  <2>2. QED
    BY <1>1, <2>1, RequestGoesOn
<1>3. ASSUME NEW e \in {None, "handler"}, R!HandlerReturns(r, e) PROVE IInv'
  <2>1. CASE Len(rq[r].stack) > 1
    <3> DEFINE new == [rq[r] EXCEPT !.stack = R!Front(@)]
    <3>1. R!Front(rq[r].stack) \in Seq(Nat)
      BY <1>1, <2>1 DEF R!Front
    <3>2. /\ new \in ReqType /\ new.c = rq[r].c /\ new.in = rq[r].in /\ new.pc = "chain"
          /\ new.err = None /\ rq' = [rq EXCEPT ![r] = new]
      BY <1>1, <1>3, <2>1, <3>1 DEF ReqType, R!HandlerReturns, Typed
    <3> HIDE DEF new
    <3>3. QED
      BY <1>1, <3>2, RequestGoesOn
  <2>2. CASE ~(Len(rq[r].stack) > 1)
    <3> DEFINE pc == IF e # None \/ R!Ctx(r).stopped THEN "respond" ELSE "args"
               new == [rq[r] EXCEPT !.stack = <<>>, !.err = e, !.pc = pc]
    <3>1. pc \in PC /\ pc \in {"respond", "args"}
          /\ (pc = "args" => e = None /\ ~R!Ctx(r).stopped)
      BY DEF PC
    <3>2. rq' = [rq EXCEPT ![r] = new]
      BY <1>1, <1>3, <2>2 DEF R!HandlerReturns, Typed
    <3> HIDE DEF pc
    <3>3. /\ new \in ReqType /\ new.c = rq[r].c /\ new.in = rq[r].in /\ new.pc = pc
          /\ new.err = e
      BY <1>1, <3>1, FirstSeen DEF ReqType, R!Err, R!Failures
    <3> HIDE DEF new
    <3>4. QED
      BY <1>1, <3>1, <3>2, <3>3, RequestGoesOn
  <2>3. QED
    BY <2>1, <2>2
<1>4. QED
  BY <1>2, <1>3

LEMMA PrepareIInv ==
  ASSUME R!RpcConstants, IInv, NEW r \in Reqs, R!Prepare(r)
  PROVE  IInv'
<1>1. /\ rq[r].pc = "args" /\ UNCHANGED <<run, pool, ctx, answer, ran, seen, refused>>
      /\ rq[r] \in ReqType /\ Typed /\ rq[r].err = None /\ ~R!Ctx(r).stopped
  BY ChainFacts DEF R!Prepare
<1>2. CASE R!To(r, "call")
  <2> DEFINE new == [rq[r] EXCEPT !.pc = "call"]
  <2>1. /\ new \in ReqType /\ new.c = rq[r].c /\ new.in = rq[r].in /\ new.pc = "call"
        /\ new.err = None /\ rq' = [rq EXCEPT ![r] = new]
    BY <1>1, <1>2 DEF ReqType, PC, R!To, Typed
  <2> HIDE DEF new
  <2>2. QED
    BY <1>1, <2>1, RequestGoesOn
<1>3. ASSUME NEW e \in R!Err, R!ToErr(r, "respond", e) PROVE IInv'
  <2> DEFINE new == [rq[r] EXCEPT !.pc = "respond", !.err = e]
  <2>1. /\ new \in ReqType /\ new.c = rq[r].c /\ new.in = rq[r].in /\ new.pc = "respond"
        /\ rq' = [rq EXCEPT ![r] = new]
    BY <1>1, <1>3 DEF ReqType, PC, R!ToErr, Typed
  <2> HIDE DEF new
  <2>2. QED
    BY <1>1, <2>1, RequestGoesOn
<1>4. QED
  BY <1>2, <1>3 DEF R!Prepare, R!Err, R!Failures

-----------------------------------------------------------------------------
(* The call, the answer and the return of the context.                     *)

LEMMA ArgumentsFit ==
  ASSUME NEW T, NEW types \in Seq(T), NEW params
  PROVE  /\ R!Arguments(params, types) \in Seq({"new", "zero", "given", "nil"})
         /\ Len(R!Arguments(params, types)) = Len(types)
<1>1. ASSUME NEW i \in DOMAIN types
      PROVE  R!Arguments(params, types)[i] \in {"new", "zero", "given", "nil"}
  BY DEF R!Arguments, R!Missing
<1>2. DOMAIN types = 1..Len(types) /\ Len(types) \in Nat
      /\ DOMAIN R!Arguments(params, types) = DOMAIN types
      /\ R!Arguments(params, types) = [i \in 1..Len(types) |-> R!Arguments(params, types)[i]]
  BY DEF R!Arguments
<1>3. QED
  BY <1>1, <1>2

(* The method that is found has a list of arguments. *)
LEMMA MethodTypes ==
  ASSUME R!RpcConstants, NEW r, R!Found(rq[r].in) # {}
  PROVE  R!ArgTypes(R!Method(r)) \in Seq({"ctx", "ctxlike", "ptr", "plain"})
<1>1. R!Method(r) \in R!Found(rq[r].in)
  BY DEF R!Method
<1>2. PICK i \in DOMAIN Receivers : R!Method(r) \in Receivers[i].methods
  BY <1>1 DEF R!Found, R!Services, R!Callbacks
<1>3. R!Method(r).ins \in Seq({"ctx", "ctxlike", "ptr", "plain"})
  BY <1>2 DEF R!RpcConstants
<1>4. QED
  BY <1>3 DEF R!ArgTypes, R!HasCtx

LEMMA CallIInv ==
  ASSUME R!RpcConstants, IInv, NEW r \in Reqs, R!Call(r)
  PROVE  IInv'
<1>1. /\ rq[r].pc = "call" /\ UNCHANGED <<run, pool, answer, seen, refused>>
      /\ rq[r] \in ReqType /\ rq[r].c \in Ctxs \ pool /\ R!Ctx(r) = ctx[rq[r].c]
      /\ R!Ctx(r) \in CtxType /\ R!Ctx(r).req = r /\ Typed /\ Fine(r)
  BY Busy DEF R!Call
<1>2. /\ R!Ctx(r).started = r /\ R!Found(rq[r].in) # {} /\ ~R!Ctx(r).stopped
      /\ Rising(seen[r]) /\ seen[r] \in Seq(Nat) /\ ran[r] = <<>> /\ rq[r].err = None
      /\ r \notin refused /\ (answer[r] = None \/ answer[r].msg = R!NoMsg)
      /\ R!Ctx(r).msg.id = (IF NoId(rq[r].in) THEN None ELSE r)
      /\ R!Ctx(r).msg.error = R!Brought(r, rq[r].in, "error", None)
      /\ R!Ctx(r).msg.result \in {None, <<"sent", r>>}
      /\ R!Ctx(r).msg.result = <<"sent", r>> => "result" \in rq[r].in.carries
  BY <1>1 DEF Fine, Gated, Says, Filled, Carries, Typed
<1> DEFINE args == R!Arguments(rq[r].in.params, R!ArgTypes(R!Method(r)))
           w == [args |-> args, chain |-> seen[r], stopped |-> R!Ctx(r).stopped,
                 started |-> R!Ctx(r).started]
<1>3. args \in Seq({"new", "zero", "given", "nil"}) /\ Len(args) = Len(R!ArgTypes(R!Method(r)))
  BY <1>2, MethodTypes, ArgumentsFit
<1>4. ran' = [ran EXCEPT ![r] = Append(@, w)]
  BY DEF R!Call
<1> HIDE DEF args
<1>5. /\ w \in CallType /\ w.args = args /\ w.chain = seen[r] /\ ~w.stopped /\ w.started = r
  BY <1>1, <1>2, <1>3 DEF CallType, CtxType
<1> HIDE DEF w
<1>6. /\ ran'[r] = <<w>> /\ ran'[r] # <<>> /\ ran' \in [Reqs -> Seq(CallType)]
      /\ \A s \in Reqs \ {r} : ran'[s] = ran[s]
  BY <1>1, <1>2, <1>4, <1>5 DEF Typed
<1>7. \/ UNCHANGED ctx /\ \E e \in R!Failures : R!ToErr(r, "respond", e)
      \/ UNCHANGED ctx /\ R!To(r, "respond")
      \/ ctx' = [ctx EXCEPT ![rq[r].c].msg.result = <<"made", r>>] /\ R!To(r, "respond")
  BY DEF R!Call, R!Failures
<1>8. PICK new \in ReqType, x \in CtxType :
        /\ rq' = [rq EXCEPT ![r] = new] /\ ctx' = [ctx EXCEPT ![rq[r].c] = x]
        /\ new.pc = "respond" /\ new.c = rq[r].c /\ new.in = rq[r].in
        /\ x.req = r
        /\ x.msg.id = R!Ctx(r).msg.id /\ x.msg.error = R!Ctx(r).msg.error
        /\ \/ x.msg.result = R!Ctx(r).msg.result
           \/ x.msg.result = <<"made", r>> /\ new.err = None
  <2>1. CASE ctx' = ctx /\ \E e \in R!Failures : R!ToErr(r, "respond", e)
    <3>1. PICK e \in R!Failures : R!ToErr(r, "respond", e)
      BY <2>1
    <3> DEFINE new == [rq[r] EXCEPT !.pc = "respond", !.err = e]
    <3>2. /\ new \in ReqType /\ new.c = rq[r].c /\ new.in = rq[r].in /\ new.pc = "respond"
          /\ rq' = [rq EXCEPT ![r] = new]
      BY <1>1, <3>1 DEF ReqType, PC, R!ToErr, Typed, R!Err
    <3>3. ctx' = [ctx EXCEPT ![rq[r].c] = R!Ctx(r)]
      BY <1>1, <2>1, SameCtx
    <3> HIDE DEF new
    <3>4. QED
      BY <1>1, <1>2, <3>2, <3>3
  <2>2. CASE R!To(r, "respond")
    <3> DEFINE new == [rq[r] EXCEPT !.pc = "respond"]
               x == [R!Ctx(r) EXCEPT !.msg.result = <<"made", r>>]
    <3>1. /\ new \in ReqType /\ new.c = rq[r].c /\ new.in = rq[r].in /\ new.pc = "respond"
          /\ new.err = None /\ rq' = [rq EXCEPT ![r] = new]
      BY <1>1, <1>2, <2>2 DEF ReqType, PC, R!To, Typed
    <3>2. /\ x \in CtxType /\ x.req = r /\ x.msg.id = R!Ctx(r).msg.id
          /\ x.msg.error = R!Ctx(r).msg.error /\ x.msg.result = <<"made", r>>
      <4>1. [R!Ctx(r).msg EXCEPT !.result = <<"made", r>>] \in R!Msg
        BY <1>1 DEF CtxType, R!Msg
      <4>2. QED
        BY <1>1, <1>2, <4>1 DEF CtxType, R!Msg
    <3>3. CASE ctx' = ctx
      <4>1. ctx' = [ctx EXCEPT ![rq[r].c] = R!Ctx(r)]
        BY <1>1, <3>3, SameCtx
      <4> HIDE DEF new
      <4>2. QED
        BY <1>1, <1>2, <3>1, <4>1
    <3>4. CASE ctx' = [ctx EXCEPT ![rq[r].c].msg.result = <<"made", r>>]
      <4>1. ctx' = [ctx EXCEPT ![rq[r].c] = x]
        BY <1>1, <3>4 DEF Typed, CtxType
      <4> HIDE DEF new, x
      <4>2. QED
        BY <3>1, <3>2, <4>1
    <3>5. QED
      BY <1>7, <3>3, <3>4
  <2>3. QED
    BY <1>7, <2>1, <2>2
<1>9. /\ rq'[r] = new /\ R!Ctx(r)' = x
      /\ Gated(r)' /\ Filled(r)' /\ Says(r)' /\ Called(r)' => IInv'
  BY <1>1, <1>6, <1>8, OwnStep DEF Typed
<1>10. Gated(r)' /\ Says(r)'
  BY <1>1, <1>2, <1>8, <1>9 DEF Gated, Says
<1>11. Filled(r)'
  <2>1. x.msg.result \in {None, <<"made", r>>, <<"sent", r>>} /\ ran'[r] # <<>>
    BY <1>2, <1>6, <1>8
  <2>2. <<"made", r>> \notin {None, <<"sent", r>>}
    BY DEF R!RpcConstants
  <2>3. x.msg.result = <<"made", r>> => new.err = None
    BY <1>2, <1>8, <2>2
  <2>4. x.msg.result = <<"sent", r>> => "result" \in rq[r].in.carries
    BY <1>2, <1>8, <2>2
  <2>5. QED
    BY <1>2, <1>8, <1>9, <2>1, <2>3, <2>4 DEF Filled, Carries
<1>12. Called(r)'
  <2>1. R!Method(r)' = R!Method(r)
    BY <1>8, <1>9 DEF R!Method
  <2>2. Len(ran'[r]) = 1 /\ \A i \in DOMAIN ran'[r] : ran'[r][i] = w
    BY <1>6
  <2>3. QED
    BY <1>1, <1>2, <1>3, <1>5, <2>1, <2>2 DEF Called
<1>13. QED
  BY <1>9, <1>10, <1>11, <1>12

LEMMA RespondIInv ==
  ASSUME R!RpcConstants, IInv, NEW r \in Reqs, R!Respond(r)
  PROVE  IInv'
<1>1. /\ rq[r].pc = "respond" /\ UNCHANGED <<run, pool, ran, seen, refused>>
      /\ rq[r] \in ReqType /\ rq[r].c \in Ctxs \ pool /\ R!Ctx(r) = ctx[rq[r].c]
      /\ R!Ctx(r) \in CtxType /\ R!Ctx(r).req = r /\ Typed /\ Fine(r)
  BY Busy DEF R!Respond
<1>2. /\ answer[r] = None \/ answer[r].msg = R!NoMsg
      /\ R!Ctx(r).msg.id = (IF NoId(rq[r].in) THEN None ELSE r)
      /\ rq[r].err = None => R!Ctx(r).msg.error = R!Brought(r, rq[r].in, "error", None)
      /\ Carries(r, R!Ctx(r).msg) /\ rq[r].err \in R!Err
      /\ R!Ctx(r).msg \in R!Msg
  BY <1>1 DEF Fine, Says, Filled, ReqType, CtxType
<1> DEFINE said == [R!Ctx(r).msg EXCEPT !.error = IF rq[r].err = None THEN @
                                                ELSE <<rq[r].err, r>>,
                                      !.id = IF @ = None THEN "1" ELSE @]
           x == [R!Ctx(r) EXCEPT !.msg = said]
           new == [rq[r] EXCEPT !.pc = "release"]
<1>3. /\ said \in R!Msg /\ said.result = R!Ctx(r).msg.result
      /\ said.error = IF rq[r].err # None THEN <<rq[r].err, r>>
                      ELSE R!Brought(r, rq[r].in, "error", None)
      /\ said.id = IF NoId(rq[r].in) THEN "1" ELSE r
  BY <1>2 DEF R!Msg, R!Err, R!RpcConstants
<1>4. /\ ctx' = [ctx EXCEPT ![rq[r].c] = x] /\ rq' = [rq EXCEPT ![r] = new]
      /\ \/ R!Writes(r, [status |-> 200, msg |-> said])
         \/ R!Writes(r, R!Plain(500)) \/ R!Writes(r, R!Plain(200))
  BY <1>1 DEF R!Respond, R!To, Typed
<1> HIDE DEF said
<1>5. /\ x \in CtxType /\ x.req = r
      /\ new \in ReqType /\ new.pc = "release" /\ new.c = rq[r].c
      /\ new.in = rq[r].in /\ new.err = rq[r].err
      /\ [status |-> 200, msg |-> said] \in AnswerType
  BY <1>1, <1>3 DEF CtxType, ReqType, PC, AnswerType
<1> HIDE DEF x, new
<1>6. /\ answer' \in [Reqs -> AnswerType \cup {None}]
      /\ \A s \in Reqs \ {r} : answer'[s] = answer[s]
      /\ answer'[r] = answer[r] \/ answer'[r].msg = R!NoMsg \/ answer'[r].msg = said
  <2>1. CASE R!Writes(r, [status |-> 200, msg |-> said])
    BY <1>1, <1>5, <2>1, Written
  <2>2. ASSUME NEW status \in Nat, R!Writes(r, R!Plain(status))
        PROVE  /\ answer' \in [Reqs -> AnswerType \cup {None}]
               /\ \A s \in Reqs \ {r} : answer'[s] = answer[s]
               /\ answer'[r] = answer[r] \/ answer'[r].msg = R!NoMsg
    BY <1>1, <2>2, Plainly, Written
  <2>3. QED
    BY <1>4, <2>1, <2>2
<1>7. /\ rq'[r] = new /\ R!Ctx(r)' = x
      /\ Gated(r)' /\ Filled(r)' /\ Says(r)' /\ Called(r)' => IInv'
  BY <1>1, <1>4, <1>5, <1>6, OwnStep DEF Typed
<1>8. Gated(r)' /\ Filled(r)'
  BY <1>1, <1>5, <1>7 DEF Fine, Gated, Filled
<1>9. Says(r)'
  BY <1>1, <1>2, <1>3, <1>5, <1>6, <1>7 DEF Says, Carries
<1>10. Called(r)'
  BY <1>1, <1>5, <1>7 DEF Fine, Called, R!Method
<1>11. QED
  BY <1>7, <1>8, <1>9, <1>10

LEMMA ReleaseIInv ==
  ASSUME R!RpcConstants, IInv, NEW r \in Reqs, R!Release(r)
  PROVE  IInv'
<1>1. /\ rq[r].pc = "release" /\ UNCHANGED <<run, answer, ran, seen, refused>>
      /\ rq[r] \in ReqType /\ rq[r].c \in Ctxs \ pool /\ R!Ctx(r) = ctx[rq[r].c]
      /\ R!Ctx(r) \in CtxType /\ Typed /\ Fine(r) /\ Clean
  BY Busy DEF R!Release, IInv
<1> DEFINE x == [R!Ctx(r) EXCEPT !.msg = R!NoMsg]
           new == [rq[r] EXCEPT !.pc = "done", !.c = None]
<1>2. /\ ctx' = [ctx EXCEPT ![rq[r].c] = x] /\ rq' = [rq EXCEPT ![r] = new]
      /\ pool' = pool \cup {rq[r].c}
  BY <1>1 DEF R!Release, R!Emptied, Typed
<1>3. /\ x \in CtxType /\ x.msg = R!NoMsg /\ new \in ReqType
      /\ new.pc = "done" /\ new.c = None /\ new.in = rq[r].in /\ new.err = rq[r].err
  BY <1>1, Empty DEF CtxType, ReqType, PC
<1> HIDE DEF x, new
<1>4. /\ rq'[r] = new /\ \A s \in Reqs \ {r} : rq'[s] = rq[s]
      /\ \A c \in Ctxs : ctx'[c] = IF c = rq[r].c THEN x ELSE ctx[c]
      /\ ctx' \in [Ctxs -> CtxType] /\ rq' \in [Reqs -> ReqType]
  BY <1>1, <1>2, <1>3 DEF Typed
<1>5. Typed' /\ Alone(r)
  BY <1>1, <1>2, <1>4 DEF Typed, Alone
<1>6. Clean'
  BY <1>1, <1>2, <1>3, <1>4 DEF Clean, Typed
<1>7. Owns(r)' /\ Gated(r)' /\ Filled(r)' /\ Says(r)'
  BY <1>1, <1>3, <1>4 DEF Fine, Owns, Gated, Filled, Says, Carries
<1>8. Called(r)'
  BY <1>1, <1>3, <1>4 DEF Fine, Called, R!Method
<1>9. QED
  BY <1>5, <1>6, <1>7, <1>8, StepFine DEF Fine

LEMMA ServeHTTPIInv ==
  ASSUME R!RpcConstants, IInv, NEW r \in Reqs, NEW in \in Inputs, R!ServeHTTP(r, in)
  PROVE  IInv'
<1>1. /\ rq[r].pc = "idle" /\ UNCHANGED <<run, ran, seen>>
      /\ refused' = (IF run = 0 THEN refused \cup {r} ELSE refused)
      /\ Typed /\ Fine(r) /\ Clean /\ rq[r] \in ReqType
  BY DEF R!ServeHTTP, IInv, Typed
<1>2. /\ rq[r].c = None /\ seen[r] = <<>> /\ ran[r] = <<>> /\ rq[r].err = None
      /\ (answer[r] = None \/ answer[r].msg = R!NoMsg) /\ r \notin refused
  BY <1>1 DEF Fine, Owns, Gated, Says
<1>3. CASE in.fault = "health"
  <2> DEFINE new == [rq[r] EXCEPT !.pc = "done", !.in = in]
  <2>1. /\ R!Writes(r, R!Plain(200)) /\ rq' = [rq EXCEPT ![r] = new] /\ UNCHANGED <<pool, ctx>>
    BY <1>1, <1>3 DEF R!ServeHTTP, Typed
  <2>2. /\ new \in ReqType /\ new.pc = "done" /\ new.c = None
    BY <1>1, <1>2 DEF ReqType, PC
  <2> HIDE DEF new
  <2>3. R!Plain(200) \in AnswerType /\ R!Plain(200).msg = R!NoMsg
    BY Plainly
  <2>4. /\ answer' \in [Reqs -> AnswerType \cup {None}]
        /\ \A s \in Reqs \ {r} : answer'[s] = answer[s]
        /\ answer'[r] = answer[r] \/ answer'[r].msg = R!NoMsg
    BY <1>1, <2>1, <2>3, Written
  <2>5. /\ rq'[r] = new /\ \A s \in Reqs \ {r} : rq'[s] = rq[s]
        /\ rq' \in [Reqs -> ReqType]
    BY <1>1, <2>1, <2>2 DEF Typed
  <2>6. Typed' /\ Alone(r) /\ Clean'
    BY <1>1, <2>1, <2>4, <2>5 DEF Typed, Alone, Clean
  <2>7. Fine(r)'
    BY <1>1, <1>2, <2>2, <2>4, <2>5, FirstSeen
    DEF Fine, Owns, Gated, Filled, Says, Called
  <2>8. QED
    BY <2>6, <2>7, StepFine
<1>4. CASE in.fault # "health"
  <2>1. PICK c \in pool : /\ pool' = pool \ {c}
                          /\ ctx' = [ctx EXCEPT ![c] = R!Begun(c, r)]
                          /\ rq' = [rq EXCEPT ![r] = [R!NoReq EXCEPT !.pc = "enter",
                                                                   !.in = in, !.c = c]]
                          /\ UNCHANGED answer
    BY <1>4 DEF R!ServeHTTP
  <2>2. c \in Ctxs /\ ctx[c] \in CtxType /\ ctx[c].msg = R!NoMsg
    BY <1>1 DEF Typed, Clean
  <2>3. /\ R!Begun(c, r) \in CtxType /\ R!Begun(c, r).req = r /\ ~R!Begun(c, r).stopped
        /\ R!Begun(c, r).index = 0 /\ R!Begun(c, r).msg = R!NoMsg
    BY <2>2 DEF R!Begun, CtxType
  <2>4. PICK q \in ReqType : /\ rq' = [rq EXCEPT ![r] = q] /\ q.pc = "enter"
                             /\ q.in = in /\ q.c = c /\ q.err = None
    <3> DEFINE q == [R!NoReq EXCEPT !.pc = "enter", !.in = in, !.c = c]
    <3>1. /\ q \in ReqType /\ q.pc = "enter" /\ q.in = in /\ q.c = c /\ q.err = None
      BY <2>2, Empty DEF R!NoReq, ReqType, PC
    <3> HIDE DEF q
    <3>2. rq' = [rq EXCEPT ![r] = q]
      BY <2>1 DEF q
    <3>3. QED
      BY <3>1, <3>2
  <2>5. /\ rq'[r] = q /\ \A s \in Reqs \ {r} : rq'[s] = rq[s]
        /\ \A d \in Ctxs : ctx'[d] = IF d = c THEN R!Begun(c, r) ELSE ctx[d]
        /\ ctx' \in [Ctxs -> CtxType] /\ rq' \in [Reqs -> ReqType]
    BY <1>1, <2>1, <2>2, <2>3, <2>4 DEF Typed
  <2>6. Typed' /\ Alone(r) /\ Clean'
    BY <1>1, <2>1, <2>5 DEF Typed, Alone, Clean
  <2>7. R!Ctx(r)' = R!Begun(c, r)
    BY <2>2, <2>4, <2>5 DEF R!Ctx
  <2>8. Owns(r)'
    BY <1>1, <2>1, <2>2, <2>3, <2>4, <2>5 DEF Owns
  <2>9. Gated(r)'
    BY <1>1, <1>2, <2>3, <2>4, <2>5, <2>7, FirstSeen DEF Gated
  <2>10. Filled(r)' /\ Says(r)' /\ Called(r)'
    BY <1>1, <1>2, <2>1, <2>4, <2>5 DEF Filled, Says, Called
  <2>11. QED
    BY <2>6, <2>8, <2>9, <2>10, StepFine DEF Fine
<1>5. QED
  BY <1>3, <1>4

(* Only run may change. *)
LEMMA StandsStill ==
  ASSUME IInv, UNCHANGED <<pool, ctx, rq, answer, ran, seen, refused>>,
         run' = 0 \/ run' = run
  PROVE  IInv'
<1>1. Typed' /\ Clean'
  BY DEF IInv, Typed, Clean
<1>2. ASSUME NEW r \in Reqs PROVE Fine(r)'
  <2>1. Fine(r)
    BY DEF IInv
  <2>2. Owns(r)'
    BY <2>1 DEF Fine, Owns
  <2>3. Gated(r)'
    BY <2>1 DEF Fine, Gated, R!Ctx
  <2>4. Filled(r)'
    BY <2>1 DEF Fine, Filled, Carries, R!Ctx
  <2>5. Says(r)'
    BY <2>1 DEF Fine, Says, Carries
  <2>6. Called(r)'
    BY <2>1 DEF Fine, Called, R!Method
  <2>7. QED
    BY <2>2, <2>3, <2>4, <2>5, <2>6 DEF Fine
<1>3. QED
  BY <1>1, <1>2 DEF IInv

LEMMA NextIInv ==
  ASSUME R!RpcConstants
  PROVE  IInv /\ [R!Next]_rpcVars => IInv'
<1>1. ASSUME IInv, R!Stop \/ UNCHANGED rpcVars PROVE IInv'
  BY <1>1, StandsStill DEF R!Stop, rpcVars
<1>2. ASSUME IInv, NEW r \in Reqs,
             (\E in \in Inputs : R!ServeHTTP(r, in)) \/ R!Enter(r) \/ R!Decode(r)
               \/ R!Middleware(r) \/ R!Prepare(r)
      PROVE  IInv'
  BY <1>2, ServeHTTPIInv, EnterIInv, DecodeIInv, HandlerNextIInv, HandlerStopIInv,
     HandlerWritesIInv, HandlerEndsIInv, PrepareIInv DEF R!Middleware
<1>3. ASSUME IInv, NEW r \in Reqs, R!Call(r) \/ R!Respond(r) \/ R!Release(r)
      PROVE  IInv'
  BY <1>3, CallIInv, RespondIInv, ReleaseIInv
<1>4. QED
  BY <1>1, <1>2, <1>3 DEF R!Next

-----------------------------------------------------------------------------
(* The machine that runs takes its own steps, or none.                     *)
LEMMA RpcRuns ==
  /\ RuntimeInit /\ machine = "rpc" => R!Init
  /\ [RuntimeNext]_runtimeVars => machine' = machine
  /\ [RuntimeNext]_runtimeVars /\ machine = "rpc" => [R!Next]_rpcVars
<1>1. RuntimeInit /\ machine = "rpc" => R!Init
  BY Zenon DEF RuntimeInit
<1>2. RuntimeNext => machine' = machine
  BY Zenon DEF RuntimeNext, Others
<1>3. RuntimeNext /\ machine = "rpc" => R!Next
  BY DEF RuntimeNext
<1>4. UNCHANGED runtimeVars => machine' = machine /\ UNCHANGED rpcVars
  BY Zenon DEF runtimeVars
<1>5. QED
  BY <1>1, <1>2, <1>3, <1>4

(* An answer is that of its own request, although contexts are reused: its *)
(* id, the error with which it failed, the result of its own method, and   *)
(* otherwise no more than its own body brought along; for any number of    *)
(* requests and contexts, whatever the middleware does and whenever Stop   *)
(* comes.                                                                  *)
THEOREM AnswersAreOwn == RuntimeSpec => []OwnAnswer
<1> DEFINE I == machine = "rpc" => IInv
<1>1. RuntimeInit => I
  BY InitIInv, RpcRuns
<1>2. I /\ [RuntimeNext]_runtimeVars => I'
  BY NextIInv, RpcRuns, RuntimeAssumption
<1>3. I => OwnAnswer
  BY InvGives DEF OwnAnswer
<1>4. QED
  BY <1>1, <1>2, <1>3, PTL DEF RuntimeSpec

(* A method is called at most once for a request, behind all the gates,    *)
(* with arguments that fit, and never after Stop.                          *)
THEOREM CallsAreGuarded == RuntimeSpec => []CallsGuarded
<1> DEFINE I == machine = "rpc" => IInv
<1>1. RuntimeInit => I
  BY InitIInv, RpcRuns
<1>2. I /\ [RuntimeNext]_runtimeVars => I'
  BY NextIInv, RpcRuns, RuntimeAssumption
<1>3. I => CallsGuarded
  BY InvGives DEF CallsGuarded
<1>4. QED
  BY <1>1, <1>2, <1>3, PTL DEF RuntimeSpec
-----------------------------------------------------------------------------
(* The chain of handlers of j2rpc2.                                        *)
Hs == {S!ReadBodyHandler} \cup {S!Handler(i) : i \in DOMAIN Setup}
Frame == [h : Hs, at : {"body", "next", "last", "panic"}]

ServedTyped ==
  /\ call \in Calls \cup {None}
  /\ chain \in Seq(Hs) /\ hid \in Nat /\ hid <= Len(chain)
  /\ frames \in Seq(Frame)
  /\ abort \in BOOLEAN /\ wrote \in BOOLEAN

(* The handlers entered are the first hid of the chain.                    *)
InOrder == trace \in Seq(Hs) /\ Len(trace) = hid /\ \A i \in 1..hid : trace[i] = chain[i]

OneAnswer == writes \in Seq({"error", "result", "status", "own"})
             /\ Len(writes) = IF wrote THEN 1 ELSE 0

Unserved == call = None => /\ hid = 0 /\ frames = <<>> /\ ~abort /\ ~wrote /\ ended = "not"
                           /\ Len(chain) >= 1 /\ chain[1] = S!ReadBodyHandler

(* Who aborts has answered, or says why there is no answer.                *)
Aborted == abort => Len(trace) = cut /\ (wrote \/ ended # "not")

(* A handler that has called another has called Next.                      *)
Deeper == \A i \in 1..(Len(frames) - 1) : frames[i].at # "body"

Reading(i) == frames[i].h.kind = "readBody" /\ frames[i].at = "body"
Calling(i) == frames[i].h.kind = "call" /\ frames[i].at \in {"body", "panic"}

(* Whose answer is due has not come to the end of its chain, or is there:  *)
(* then the handlers of its method are behind, and none calls a function.  *)
Due == call # None /\ ~wrote /\ ended = "not"

Ends == (frames = <<>> \/ frames[Len(frames)].at # "body") => hid = Len(chain)
Holds == \A g \in S!Group({call.method}) : \E n \in 1..Len(chain) : chain[n] = S!Handler(g)
Finds == (\E i \in DOMAIN frames : Reading(i)) \/ (S!HasGroup(call.method) /\ Holds)
CallsOpen == (\E n \in 1..hid : chain[n].kind = "call") => \E i \in DOMAIN frames : Calling(i)

DueInv == Due => Ends /\ Finds /\ CallsOpen

ServedInv == /\ ServedTyped /\ InOrder /\ OneAnswer /\ Unserved /\ Aborted /\ Deeper /\ DueInv

LEMMA ServedHolds == ASSUME S!Rpc2Constants PROVE ServedInv => S!ChainHonoured
<1> SUFFICES ASSUME ServedInv PROVE S!ChainHonoured
  OBVIOUS
<1> USE DEF ServedInv, ServedTyped
<1>1. S!InChainOrder
  <2>1. trace \in Seq(Hs) /\ Len(trace) = hid /\ hid \in Nat /\ \A i \in 1..hid : trace[i] = chain[i]
    BY DEF InOrder
  <2>2. hid <= Len(chain) /\ SubSeq(trace, 1, hid) = SubSeq(chain, 1, hid)
    BY <2>1
  <2>3. QED
    BY <2>1, <2>2 DEF S!InChainOrder, S!IsPrefix
<1>2. S!NothingAfterAbort
  BY DEF S!NothingAfterAbort, Aborted
<1>3. S!AnsweredOnce
  <2>1. Len(writes) <= 1
    BY DEF OneAnswer
  <2>2. ASSUME call # None, frames = <<>>, ended = "not", writes = <<>>
        PROVE  S!HasGroup(call.method) /\ \A i \in S!Group({call.method}) : Setup[i].kind # "call"
    <3>1. ~wrote
      BY <2>2 DEF OneAnswer
    <3>2. hid = Len(chain) /\ S!HasGroup(call.method) /\ Holds
      BY <2>2, <3>1 DEF DueInv, Due, Ends, Finds
    <3>3. \A n \in 1..hid : chain[n].kind # "call"
      BY <2>2, <3>1 DEF DueInv, Due, CallsOpen
    <3>4. ASSUME NEW i \in S!Group({call.method}) PROVE Setup[i].kind # "call"
      <4>1. PICK n \in 1..Len(chain) : chain[n] = S!Handler(i)
        BY <3>2 DEF Holds
      <4>2. chain[n].kind # "call" /\ S!Handler(i).kind = Setup[i].kind
        BY <3>2, <3>3 DEF S!Handler
      <4>3. QED
        BY <4>1, <4>2
    <3>5. QED
      BY <3>2, <3>4
  <2>3. QED
    BY <2>1, <2>2 DEF S!AnsweredOnce
<1>4. QED
  BY <1>1, <1>2, <1>3 DEF S!ChainHonoured

(* The groups at some paths, one after the other.                          *)
LEMMA HandlersAre ==
  ASSUME S!Rpc2Constants, NEW paths, NEW all \in S!Handlers(paths)
  PROVE  /\ all \in Seq(Hs)
         /\ \A i \in S!Group(paths) : \E n \in 1..Len(all) : all[n] = S!Handler(i)
<1> DEFINE G == S!Group(paths)
           N == Cardinality(G)
<1>1. IsFiniteSet(G) /\ N \in Nat /\ G \subseteq DOMAIN Setup
  <2>1. G \subseteq DOMAIN Setup
    BY DEF S!Group
  <2>2. IsFiniteSet(DOMAIN Setup)
    BY DEF S!Rpc2Constants, S!IsFiniteSet, IsFiniteSet
  <2>3. QED
    BY <2>1, <2>2, FS_Subset, FS_CardinalityType
<1>2. N = S!Cardinality(G)
  BY DEF S!Cardinality, S!IsFiniteSet, Cardinality, IsFiniteSet
<1>3. PICK s \in S!SetToSeqs(G) : all = [n \in DOMAIN s |-> S!Handler(s[n])]
  BY DEF S!Handlers
<1> HIDE DEF G, N
<1>4. s \in [1..N -> G] /\ \A i, j \in 1..N : i # j => s[i] # s[j]
  BY <1>2, <1>3 DEF S!SetToSeqs
<1>5. s \in Surjection(1..N, G)
  <2>1. s \in Injection(1..N, G)
    BY <1>4 DEF Injection, IsInjective
  <2>2. Cardinality(1..N) = N
    BY <1>1, FS_Interval
  <2>3. QED
    BY <1>1, <2>1, <2>2, FS_Injection DEF N
<1>6. all = [n \in 1..N |-> S!Handler(s[n])]
  BY <1>3, <1>4
<1>7. \A n \in 1..N : S!Handler(s[n]) \in Hs
  BY <1>1, <1>4 DEF Hs
<1>8. all \in Seq(Hs) /\ Len(all) = N
  BY <1>1, <1>6, <1>7
<1>9. ASSUME NEW i \in G PROVE \E n \in 1..N : all[n] = S!Handler(i)
  <2>1. PICK n \in 1..N : s[n] = i
    BY <1>5 DEF Surjection
  <2>2. QED
    BY <1>6, <2>1
<1>10. QED
  BY <1>8, <1>9 DEF G

LEMMA ServedInit == ASSUME S!Rpc2Constants PROVE S!Init => ServedInv
<1> SUFFICES ASSUME S!Init PROVE ServedInv
  OBVIOUS
<1>1. PICK all \in S!Handlers({<<>>}) : chain = <<S!ReadBodyHandler>> \o all
  BY DEF S!Init
<1>2. <<S!ReadBodyHandler>> \in Seq(Hs) /\ all \in Seq(Hs)
  BY <1>1, HandlersAre DEF Hs
<1>3. chain \in Seq(Hs) /\ Len(chain) >= 1 /\ chain[1] = S!ReadBodyHandler
  BY <1>1, <1>2
<1>4. <<>> \in Seq(Hs) /\ <<>> \in Seq(Frame) /\ Len(<<>>) = 0
      /\ <<>> \in Seq({"error", "result", "status", "own"})
  BY EmptySeq
<1>5. /\ call = None /\ hid = 0 /\ frames = <<>> /\ abort = FALSE /\ wrote = FALSE
      /\ trace = <<>> /\ cut = 0 /\ writes = <<>> /\ ended = "not"
  BY DEF S!Init
<1>6. ServedTyped
  <2>1. hid \in Nat /\ hid <= Len(chain)
    BY <1>3, <1>5
  <2>2. frames \in Seq(Frame)
    BY <1>4, <1>5
  <2>3. QED
    BY <1>3, <1>5, <2>1, <2>2 DEF ServedTyped
<1>7. InOrder /\ OneAnswer
  BY <1>4, <1>5 DEF InOrder, OneAnswer
<1>8. Unserved /\ Aborted /\ DueInv
  BY <1>3, <1>5 DEF Unserved, Aborted, DueInv, Due
<1>9. Deeper
  BY <1>4, <1>5 DEF Deeper
<1>10. QED
  BY <1>6, <1>7, <1>8, <1>9 DEF ServedInv

LEMMA PartIs ==
  ASSUME NEW T, NEW s \in Seq(T), NEW n \in 0..Len(s)
  PROVE  /\ SubSeq(s, 1, n) \in Seq(T) /\ Len(SubSeq(s, 1, n)) = n
         /\ \A i \in 1..n : SubSeq(s, 1, n)[i] = s[i]
<1>1. \A i \in 1..n : s[i] \in T
  BY ElementOfSeq
<1>2. QED
  BY <1>1, SubSeqProperties

LEMMA JoinIs ==
  ASSUME NEW T, NEW s \in Seq(T), NEW t \in Seq(T)
  PROVE  /\ s \o t \in Seq(T) /\ Len(s \o t) = Len(s) + Len(t)
         /\ \A i \in 1..Len(s) : (s \o t)[i] = s[i]
         /\ \A k \in 1..Len(t) : (s \o t)[Len(s) + k] = t[k]
<1>1. Len(s) \in Nat /\ Len(t) \in Nat
  BY LenProperties
<1>2. /\ s \o t \in Seq(T) /\ Len(s \o t) = Len(s) + Len(t)
      /\ \A i \in 1..(Len(s) + Len(t)) : (s \o t)[i] = IF i <= Len(s) THEN s[i] ELSE t[i - Len(s)]
  BY ConcatProperties
<1> DEFINE u == s \o t
<1> HIDE DEF u
<1>3. /\ Len(u) = Len(s) + Len(t)
      /\ \A i \in 1..(Len(s) + Len(t)) : u[i] = IF i <= Len(s) THEN s[i] ELSE t[i - Len(s)]
  BY <1>2 DEF u
<1>4. \A i \in 1..Len(s) : u[i] = s[i]
  BY <1>1, <1>3
<1>5. ASSUME NEW k \in 1..Len(t) PROVE u[Len(s) + k] = t[k]
  <2>1. Len(s) + k \in 1..(Len(s) + Len(t)) /\ ~(Len(s) + k <= Len(s)) /\ (Len(s) + k) - Len(s) = k
    BY <1>1
  <2>2. QED
    BY <1>3, <2>1
<1>6. QED
  BY <1>2, <1>4, <1>5 DEF u

(* The frames when the innermost handler has come to another point.        *)
LEMMA DeferredIs ==
  ASSUME ServedTyped, frames # <<>>, NEW at \in {"body", "next", "last", "panic"}
  PROVE  /\ S!Deferred(at) \in Seq(Frame) /\ Len(S!Deferred(at)) = Len(frames)
         /\ Len(frames) \in Nat /\ Len(frames) > 0
         /\ \A i \in 1..(Len(frames) - 1) : S!Deferred(at)[i] = frames[i]
         /\ S!Deferred(at)[Len(frames)].h = frames[Len(frames)].h
         /\ S!Deferred(at)[Len(frames)].at = at
<1> DEFINE n == Len(frames)
           front == SubSeq(frames, 1, n - 1)
           top == [frames[n] EXCEPT !.at = at]
<1>1. frames \in Seq(Frame) /\ n \in Nat /\ n > 0 /\ frames[n] \in Frame
  BY DEF ServedTyped
<1>2. front \in Seq(Frame) /\ Len(front) = n - 1 /\ \A i \in 1..(n - 1) : front[i] = frames[i]
  <2>1. n - 1 \in 0..n
    BY <1>1
  <2>2. QED
    BY <1>1, <2>1, PartIs
<1>3. top \in Frame /\ top.h = frames[n].h /\ top.at = at
  BY <1>1 DEF Frame
<1>4. S!Deferred(at) = Append(front, top)
  BY DEF S!Deferred, S!Front, S!Last
<1> HIDE DEF n, front, top
<1>5. QED
  BY <1>1, <1>2, <1>3, <1>4, AppendProperties DEF n

LEMMA FrontIs ==
  ASSUME ServedTyped, frames # <<>>
  PROVE  /\ S!Front(frames) \in Seq(Frame) /\ Len(S!Front(frames)) = Len(frames) - 1
         /\ Len(frames) \in Nat /\ Len(frames) > 0
         /\ \A i \in 1..(Len(frames) - 1) : S!Front(frames)[i] = frames[i]
<1>1. frames \in Seq(Frame) /\ Len(frames) \in Nat /\ Len(frames) > 0
  BY DEF ServedTyped
<1>2. Len(frames) - 1 \in 0..Len(frames)
  BY <1>1
<1>3. QED
  BY <1>1, <1>2, PartIs DEF S!Front

(* What Next does to the chain.                                            *)
LEMMA NextIs ==
  ASSUME ServedTyped, InOrder, NEW fs \in Seq(Frame), NEW ch \in Seq(Hs), NEW ab \in BOOLEAN,
         hid <= Len(ch), \A i \in 1..hid : ch[i] = chain[i], S!NextOn(fs, ch, ab)
  PROVE  /\ hid' \in Nat /\ hid' <= Len(ch)
         /\ trace' \in Seq(Hs) /\ Len(trace') = hid' /\ \A i \in 1..hid' : trace'[i] = ch[i]
         /\ \/ frames' = fs /\ hid' = hid /\ trace' = trace /\ (ab \/ hid = Len(ch))
            \/ /\ ~ab /\ hid' = hid + 1 /\ ch[hid'] \in Hs
               /\ frames' = Append(fs, [h |-> ch[hid'], at |-> "body"])
               /\ [h |-> ch[hid'], at |-> "body"] \in Frame
<1> USE DEF ServedTyped, InOrder
<1>1. CASE S!Runs(ch, ab)
  <2>1. ~ab /\ hid + 1 \in 1..Len(ch) /\ ch[hid + 1] \in Hs
    BY <1>1 DEF S!Runs
  <2>2. /\ hid' = hid + 1 /\ trace' = Append(trace, ch[hid + 1])
        /\ frames' = Append(fs, [h |-> ch[hid + 1], at |-> "body"])
    BY <1>1 DEF S!NextOn, S!Counted
  <2>3. [h |-> ch[hid + 1], at |-> "body"] \in Frame
    BY <2>1 DEF Frame
  <2>4. /\ trace' \in Seq(Hs) /\ Len(trace') = hid + 1 /\ trace'[hid + 1] = ch[hid + 1]
        /\ \A i \in 1..hid : trace'[i] = trace[i]
    BY <2>1, <2>2, AppendProperties
  <2>5. \A i \in 1..hid' : trace'[i] = ch[i]
    <3>1. \A i \in 1..hid' : i = hid + 1 \/ i \in 1..hid
      BY <2>2
    <3>2. QED
      BY <2>4, <3>1
  <2>6. hid' \in Nat /\ hid' <= Len(ch) /\ Len(trace') = hid' /\ ch[hid'] \in Hs
    BY <2>1, <2>2, <2>4
  <2>7. /\ frames' = Append(fs, [h |-> ch[hid'], at |-> "body"])
        /\ [h |-> ch[hid'], at |-> "body"] \in Frame
    BY <2>2, <2>3
  <2>8. trace' \in Seq(Hs)
    BY <2>4
  <2>9. QED
    BY <2>1, <2>2, <2>5, <2>6, <2>7, <2>8, Zenon
<1>2. CASE ~S!Runs(ch, ab)
  <2>1. frames' = fs /\ hid' = hid /\ trace' = trace
    BY <1>2 DEF S!NextOn
  <2>2. ab \/ hid = Len(ch)
    BY <1>2, LenProperties DEF S!Runs
  <2>3. \A i \in 1..hid : trace[i] = ch[i]
    OBVIOUS
  <2>4. QED
    BY <2>1, <2>2, <2>3
<1>3. QED
  BY <1>1, <1>2

(* A handler goes on and calls Next.                                       *)
LEMMA NextKeeps ==
  ASSUME S!Rpc2Constants, ServedInv, call # None, frames # <<>>, call' = call,
         NEW at \in {"next", "last", "panic"},
         S!NextOn(S!Deferred(at), chain', abort'),
         chain' \in Seq(Hs), Len(chain) <= Len(chain'), \A i \in 1..Len(chain) : chain'[i] = chain[i],
         abort' \in BOOLEAN, wrote' \in BOOLEAN, OneAnswer',
         abort => abort' /\ cut' = cut, ~abort /\ abort' => cut' = Len(trace),
         abort' => wrote' \/ ended' # "not",
         wrote => wrote', ended' = ended,
         Due' => /\ frames[Len(frames)].h.kind = "readBody" => S!HasGroup(call.method) /\ Holds'
                 /\ frames[Len(frames)].h.kind = "call" => at = "panic"
  PROVE  ServedInv'
<1> USE DEF ServedInv, ServedTyped
<1> DEFINE fs == S!Deferred(at)
           n == Len(frames)
<1>1. /\ fs \in Seq(Frame) /\ Len(fs) = n /\ n \in Nat /\ n > 0
      /\ \A i \in 1..(n - 1) : fs[i] = frames[i]
      /\ fs[n].h = frames[n].h /\ fs[n].at = at
  BY DeferredIs
<1>2. hid <= Len(chain') /\ \A i \in 1..hid : chain'[i] = chain[i]
  BY DEF InOrder
<1> HIDE DEF fs, n
<1>3. /\ hid' \in Nat /\ hid' <= Len(chain')
      /\ trace' \in Seq(Hs) /\ Len(trace') = hid' /\ \A i \in 1..hid' : trace'[i] = chain'[i]
      /\ \/ frames' = fs /\ hid' = hid /\ trace' = trace /\ (abort' \/ hid = Len(chain'))
         \/ /\ ~abort' /\ hid' = hid + 1 /\ chain'[hid'] \in Hs
            /\ frames' = Append(fs, [h |-> chain'[hid'], at |-> "body"])
            /\ [h |-> chain'[hid'], at |-> "body"] \in Frame
  BY <1>1, <1>2, NextIs DEF fs
<1> DEFINE new == [h |-> chain'[hid'], at |-> "body"]
<1>4. frames' \in Seq(Frame) /\ Len(frames') \in {n, n + 1}
      /\ (\A i \in 1..n : frames'[i] = fs[i])
      /\ (Len(frames') = n => hid' = hid /\ trace' = trace /\ (abort' \/ hid = Len(chain')))
      /\ (Len(frames') = n + 1 => ~abort' /\ hid' = hid + 1 /\ frames'[n + 1] = new)
  <2>1. CASE frames' = fs /\ hid' = hid /\ trace' = trace /\ (abort' \/ hid = Len(chain'))
    BY <1>1, <2>1
  <2>2. CASE ~abort' /\ hid' = hid + 1 /\ frames' = Append(fs, new) /\ new \in Frame
    <3> HIDE DEF new
    <3>1. QED
      BY <1>1, <2>2, AppendProperties
  <2>3. QED
    BY <1>3, <2>1, <2>2
<1>5. ServedTyped'
  BY <1>3, <1>4
<1>6. InOrder'
  BY <1>3 DEF InOrder
<1>7. Unserved'
  BY DEF Unserved
<1>8. Aborted'
  BY <1>4, <1>1 DEF Aborted
<1>9. Deeper'
  <2>1. ASSUME NEW i \in 1..(Len(frames') - 1) PROVE frames'[i].at # "body"
    <3>1. i \in 1..n /\ frames'[i] = fs[i]
      BY <1>1, <1>4
    <3>2. CASE i = n
      BY <1>1, <3>1, <3>2
    <3>3. CASE i # n
      BY <1>1, <3>1, <3>3 DEF Deeper, n
    <3>4. QED
      BY <3>2, <3>3
  <2>2. QED
    BY <2>1 DEF Deeper
<1>10. ASSUME Due' PROVE Ends' /\ Finds' /\ CallsOpen'
  <2>1. Due /\ Ends /\ Finds /\ CallsOpen /\ ~abort'
    BY <1>10 DEF DueInv, Due
  <2>2. Ends'
    BY <1>1, <1>4, <2>1 DEF Ends
  <2>3. ASSUME NEW i \in DOMAIN frames, Calling(i) PROVE i \in DOMAIN frames' /\ Calling(i)'
    <3>1. i \in 1..n /\ i \in DOMAIN frames' /\ frames'[i] = fs[i]
      BY <1>1, <1>4 DEF n
    <3>2. CASE i = n
      BY <1>1, <1>10, <2>3, <3>1, <3>2 DEF Calling, n
    <3>3. CASE i # n
      BY <1>1, <2>3, <3>1, <3>3 DEF Calling
    <3>4. QED
      BY <3>1, <3>2, <3>3
  <2>4. CallsOpen'
    <3>1. ASSUME NEW m \in 1..hid', chain'[m].kind = "call" PROVE \E i \in DOMAIN frames' : Calling(i)'
      <4>1. CASE m \in 1..hid
        BY <1>2, <2>1, <2>3, <3>1, <4>1 DEF CallsOpen
      <4>2. CASE m \notin 1..hid
        <5>1. m = hid' /\ frames'[n + 1] = new /\ n + 1 \in DOMAIN frames'
          BY <1>1, <1>3, <1>4, <3>1, <4>2
        <5>2. QED
          BY <3>1, <5>1 DEF Calling
      <4>3. QED
        BY <4>1, <4>2
    <3>2. QED
      BY <3>1 DEF CallsOpen
  <2>5. ASSUME NEW i \in DOMAIN frames, Reading(i), i # n PROVE i \in DOMAIN frames' /\ Reading(i)'
    <3>1. i \in 1..n /\ i \in DOMAIN frames' /\ frames'[i] = fs[i]
      BY <1>1, <1>4 DEF n
    <3>2. QED
      BY <1>1, <2>5, <3>1 DEF Reading
  <2>6. ASSUME Holds PROVE Holds'
    <3>1. \A g \in S!Group({call.method}) : \E k \in 1..Len(chain') : chain'[k] = S!Handler(g)
      <4> SUFFICES ASSUME NEW g \in S!Group({call.method})
                   PROVE  \E k \in 1..Len(chain') : chain'[k] = S!Handler(g)
        OBVIOUS
      <4>1. PICK k \in 1..Len(chain) : chain[k] = S!Handler(g)
        BY <2>6 DEF Holds
      <4>2. k \in 1..Len(chain') /\ chain'[k] = chain[k]
        OBVIOUS
      <4>3. QED
        BY <4>1, <4>2
    <3>2. QED
      BY <3>1 DEF Holds, S!Group, S!Registered, S!Handler
  <2>7. Finds'
    <3>1. CASE \E i \in DOMAIN frames : Reading(i) /\ i # n
      BY <2>5, <3>1 DEF Finds
    <3>2. CASE n \in DOMAIN frames /\ Reading(n)
      BY <1>10, <3>2 DEF Finds, Reading, n
    <3>3. CASE S!HasGroup(call.method) /\ Holds
      BY <2>6, <3>3 DEF Finds
    <3>4. QED
      BY <2>1, <3>1, <3>2, <3>3 DEF Finds
  <2>8. QED
    BY <2>2, <2>4, <2>7
<1>11. QED
  BY <1>5, <1>6, <1>7, <1>8, <1>9, <1>10 DEF DueInv

(* A handler does not call Next.                                           *)
LEMMA RestKeeps ==
  ASSUME ServedInv, call # None, UNCHANGED <<call, chain, hid, trace>>,
         frames' \in Seq(Frame), Len(frames') <= Len(frames),
         \A i \in 1..Len(frames') : frames'[i] = frames[i],
         abort' \in BOOLEAN, wrote' \in BOOLEAN, OneAnswer',
         abort => abort' /\ cut' = cut, ~abort /\ abort' => cut' = Len(trace),
         abort' => wrote' \/ ended' # "not",
         Due' => Ends' /\ Finds' /\ CallsOpen'
  PROVE  ServedInv'
<1> USE DEF ServedInv, ServedTyped
<1>1. ServedTyped' /\ InOrder'
  BY DEF InOrder
<1>2. Unserved' /\ Aborted' /\ DueInv'
  BY DEF Unserved, Aborted, DueInv
<1>3. Deeper'
  BY DEF Deeper
<1>4. QED
  BY <1>1, <1>2, <1>3

Answers == {"error", "result", "status", "own"}

(* Writing answers, once.                                                  *)
LEMMA WritingIs ==
  ASSUME ServedInv, NEW what \in Answers, S!WriteResponse(what) \/ S!StopWithStatus
  PROVE  /\ wrote' = TRUE /\ OneAnswer' /\ abort' \in BOOLEAN
         /\ abort => abort' /\ cut' = cut
         /\ ~abort /\ abort' => cut' = Len(trace)
<1> USE DEF ServedInv, ServedTyped, OneAnswer, S!Aborts, S!Written, Answers
<1>1. CASE wrote
  BY <1>1 DEF S!WriteResponse, S!StopWithStatus
<1>2. CASE ~wrote
  <2>1. wrote' = TRUE /\ (writes' = Append(writes, what) \/ writes' = Append(writes, "status"))
    BY <1>2 DEF S!WriteResponse, S!StopWithStatus
  <2>2. OneAnswer'
    <3>1. writes \in Seq(Answers) /\ Len(writes) = 0
      BY <1>2
    <3>2. PICK more \in Answers : writes' = Append(writes, more)
      BY <2>1
    <3>3. writes' \in Seq(Answers) /\ Len(writes') = 1
      BY <3>1, <3>2, AppendProperties
    <3>4. QED
      BY <2>1, <3>3
  <2>3. S!Aborts(FALSE) \/ S!Aborts(TRUE)
    BY <1>2 DEF S!WriteResponse, S!StopWithStatus
  <2>4. QED
    BY <2>1, <2>2, <2>3
<1>3. QED
  BY <1>1, <1>2

LEMMA GreatestOf ==
  ASSUME NEW n \in Nat, NEW T, T \subseteq 1..n, T # {}
  PROVE  \E i \in T : \A j \in T : j <= i
<1> DEFINE U == {n - i : i \in T}
<1>1. U \subseteq Nat /\ U # {}
  <2>1. \A i \in T : n - i \in Nat
    OBVIOUS
  <2>2. QED
    BY <2>1
<1>2. PICK u \in U : \A v \in U : <<v, u>> \notin OpToRel(<, Nat)
  BY <1>1, NatLessThanWellFounded, WFMin
<1>3. PICK i \in T : u = n - i
  OBVIOUS
<1>4. ASSUME NEW j \in T PROVE j <= i
  <2>1. n - j \in U /\ n - j \in Nat /\ u \in Nat
    BY <1>1
  <2>2. ~(n - j < u)
    BY <1>2, <2>1 DEF OpToRel
  <2>3. QED
    BY <1>3, <2>1, <2>2
<1>5. QED
  BY <1>4

LEMMA PanicKeeps ==
  ASSUME ServedInv, call # None, UNCHANGED <<call, chain, hid, trace>>, S!Panic
  PROVE  ServedInv'
<1> USE DEF ServedInv, ServedTyped
<1>1. CASE S!Recovers = {}
  <2>1. /\ frames' = <<>> /\ ended' = "panic" /\ UNCHANGED <<wrote, writes>>
        /\ abort' = (abort \/ FALSE) /\ (abort => cut' = cut)
    BY <1>1 DEF S!Panic, S!Aborts
  <2>2. <<>> \in Seq(Frame) /\ Len(<<>>) = 0 /\ Len(frames) \in Nat
    BY EmptySeq
  <2>3. /\ frames' \in Seq(Frame) /\ Len(frames') <= Len(frames)
        /\ \A i \in 1..Len(frames') : frames'[i] = frames[i]
    BY <2>1, <2>2
  <2>4. ~Due' /\ OneAnswer'
    BY <2>1 DEF Due, OneAnswer
  <2>5. QED
    BY <2>1, <2>3, <2>4, RestKeeps
<1>2. CASE S!Recovers # {}
  <2> DEFINE k == CHOOSE i \in S!Recovers : \A j \in S!Recovers : j <= i
  <2>1. S!Recovers \subseteq 1..Len(frames) /\ Len(frames) \in Nat
    BY DEF S!Recovers
  <2>2. k \in 1..Len(frames)
    BY <1>2, <2>1, GreatestOf
  <2>3. /\ frames' = SubSeq(frames, 1, k - 1) /\ ended' = ended
        /\ abort' = (abort \/ TRUE) /\ cut' = IF abort \/ ~TRUE THEN cut ELSE Len(trace)
        /\ IF wrote THEN UNCHANGED <<wrote, writes>>
           ELSE wrote' = TRUE /\ \E what \in {"error", "status"} : writes' = Append(writes, what)
    BY <1>2 DEF S!Panic, S!Aborts, S!Written
  <2> HIDE DEF k
  <2>4. k - 1 \in 0..Len(frames)
    BY <2>1, <2>2
  <2>5. frames' \in Seq(Frame) /\ Len(frames') = k - 1 /\ \A i \in 1..(k - 1) : frames'[i] = frames[i]
    BY <2>3, <2>4, PartIs
  <2>6. OneAnswer' /\ wrote' = TRUE
    <3>1. CASE wrote
      BY <2>3, <3>1 DEF OneAnswer
    <3>2. CASE ~wrote
      <4>1. writes \in Seq(Answers) /\ Len(writes) = 0
        BY <3>2 DEF OneAnswer, Answers
      <4>2. PICK more \in Answers : writes' = Append(writes, more)
        BY <2>3, <3>2 DEF Answers
      <4>3. writes' \in Seq(Answers) /\ Len(writes') = 1
        BY <4>1, <4>2, AppendProperties
      <4>4. QED
        BY <2>3, <3>2, <4>3 DEF OneAnswer, Answers
    <3>3. QED
      BY <3>1, <3>2
  <2>7. QED
    BY <2>2, <2>3, <2>4, <2>5, <2>6, RestKeeps DEF Due
<1>3. QED
  BY <1>1, <1>2

LEMMA ServeKeeps ==
  ASSUME S!Rpc2Constants, ServedInv, NEW c \in Calls, S!Serve(c)
  PROVE  ServedInv'
<1> USE DEF ServedInv, ServedTyped
<1>1. /\ call = None /\ call' = c /\ c # None /\ S!NextOn(frames, chain, abort)
      /\ UNCHANGED <<chain, abort, wrote, cut, writes, ended>>
  BY DEF S!Serve, S!Rpc2Constants
<1>2. hid = 0 /\ frames = <<>> /\ ~abort /\ ~wrote /\ Len(chain) >= 1 /\ chain[1] = S!ReadBodyHandler
  BY <1>1 DEF Unserved
<1> DEFINE new == [h |-> S!ReadBodyHandler, at |-> "body"]
<1>3. /\ hid' = 1 /\ trace' \in Seq(Hs) /\ Len(trace') = 1 /\ trace'[1] = chain[1]
      /\ frames' = Append(frames, new) /\ new \in Frame
  <2>1. hid <= Len(chain) /\ \A i \in 1..hid : chain[i] = chain[i]
    OBVIOUS
  <2>2. /\ hid' \in Nat /\ hid' <= Len(chain)
        /\ trace' \in Seq(Hs) /\ Len(trace') = hid' /\ \A i \in 1..hid' : trace'[i] = chain[i]
        /\ \/ frames' = frames /\ hid' = hid /\ trace' = trace /\ (abort \/ hid = Len(chain))
           \/ /\ ~abort /\ hid' = hid + 1 /\ chain[hid'] \in Hs
              /\ frames' = Append(frames, [h |-> chain[hid'], at |-> "body"])
              /\ [h |-> chain[hid'], at |-> "body"] \in Frame
    BY <1>1, <2>1, NextIs
  <2>3. hid' = 0 + 1 /\ 0 + 1 = 1
    BY <1>2, <2>2
  <2>4. QED
    BY <1>2, <2>2, <2>3
<1> HIDE DEF new
<1>4. frames' \in Seq(Frame) /\ Len(frames') = 1 /\ frames'[1] = new /\ frames' # <<>>
  BY <1>2, <1>3, AppendProperties, EmptySeq
<1>5. new.h.kind = "readBody" /\ new.at = "body"
  BY DEF new, S!ReadBodyHandler
<1>6. ServedTyped' /\ InOrder' /\ OneAnswer' /\ Unserved'
  BY <1>1, <1>2, <1>3, <1>4 DEF InOrder, OneAnswer, Unserved
<1>7. Aborted' /\ Deeper'
  BY <1>1, <1>2, <1>4 DEF Aborted, Deeper
<1>8. Ends' /\ Finds'
  <2>1. frames' # <<>> /\ 1 \in DOMAIN frames'
    <3>1. DOMAIN frames' = 1..Len(frames')
      BY <1>4, LenProperties
    <3>2. QED
      BY <1>4, <3>1
  <2>2. QED
    BY <1>4, <1>5, <2>1 DEF Ends, Finds, Reading
<1>9. CallsOpen'
  <2>1. \A n \in 1..hid' : chain'[n].kind # "call"
    BY <1>1, <1>2, <1>3 DEF S!ReadBodyHandler
  <2>2. QED
    BY <2>1 DEF CallsOpen
<1>10. QED
  BY <1>6, <1>7, <1>8, <1>9 DEF DueInv

LEMMA ReadBodyKeeps == ASSUME S!Rpc2Constants, ServedInv, S!ReadBody PROVE ServedInv'
<1> USE DEF ServedInv, ServedTyped
<1> DEFINE n == Len(frames)
<1>1. /\ frames # <<>> /\ frames[n].h.kind = "readBody" /\ frames[n].at = "body"
      /\ UNCHANGED <<call, ended>> /\ S!NextOn(S!Deferred("last"), chain', abort')
  BY DEF S!ReadBody, S!At, S!Last
<1>2. call # None
  BY <1>1 DEF Unserved
<1>3. CASE chain' = chain /\ (S!StopWithStatus \/ S!WriteResponse("error"))
  <2>1. "error" \in Answers
    BY DEF Answers
  <2>2. /\ wrote' = TRUE /\ OneAnswer' /\ abort' \in BOOLEAN
        /\ abort => abort' /\ cut' = cut
        /\ ~abort /\ abort' => cut' = Len(trace)
    BY <1>3, <2>1, WritingIs
  <2>3. ~Due'
    BY <2>2 DEF Due
  <2>4. QED
    BY <1>1, <1>2, <1>3, <2>2, <2>3, NextKeeps
<1>4. ASSUME S!HasGroup(call.method), S!Aborts(FALSE), UNCHANGED <<wrote, writes>>,
             NEW wider \in S!Handlers(S!Wider(call.method)), NEW own \in S!Handlers({call.method}),
             chain' = chain \o (wider \o own)
      PROVE  ServedInv'
  <2> DEFINE more == wider \o own
  <2>2. /\ wider \in Seq(Hs) /\ own \in Seq(Hs)
        /\ \A i \in S!Group({call.method}) : \E k \in 1..Len(own) : own[k] = S!Handler(i)
    BY HandlersAre
  <2>3. more \in Seq(Hs) /\ Len(more) = Len(wider) + Len(own)
        /\ \A k \in 1..Len(own) : more[Len(wider) + k] = own[k]
    BY <2>2, JoinIs
  <2> HIDE DEF more
  <2>4. chain' \in Seq(Hs) /\ Len(chain') = Len(chain) + Len(more)
        /\ (\A i \in 1..Len(chain) : chain'[i] = chain[i])
        /\ \A k \in 1..Len(more) : chain'[Len(chain) + k] = more[k]
    BY <1>4, <2>3, JoinIs DEF more
  <2>5. \A i \in S!Group({call.method}) : \E k \in 1..Len(chain') : chain'[k] = S!Handler(i)
    <3> SUFFICES ASSUME NEW i \in S!Group({call.method})
                 PROVE  \E k \in 1..Len(chain') : chain'[k] = S!Handler(i)
      OBVIOUS
    <3>1. PICK k \in 1..Len(own) : own[k] = S!Handler(i)
      BY <2>2
    <3>0. Len(wider) \in Nat /\ Len(own) \in Nat /\ Len(chain) \in Nat /\ k \in Nat
      BY <2>2, LenProperties
    <3>2. Len(wider) + k \in 1..Len(more) /\ more[Len(wider) + k] = own[k]
      BY <2>3, <3>0
    <3>3. Len(chain) + (Len(wider) + k) \in 1..Len(chain')
          /\ chain'[Len(chain) + (Len(wider) + k)] = own[k]
      BY <2>3, <2>4, <3>0, <3>2
    <3>4. QED
      BY <3>1, <3>3
  <2>6. Holds'
    BY <1>1, <2>5 DEF Holds, S!Group, S!Registered, S!Handler
  <2>7. abort' = abort /\ cut' = cut /\ OneAnswer' /\ Len(chain) <= Len(chain')
    BY <1>4, <2>3, <2>4 DEF S!Aborts, OneAnswer
  <2>8. frames[n].h.kind # "call"
    BY <1>1
  <2>9. QED
    BY <1>1, <1>2, <1>4, <2>4, <2>6, <2>7, <2>8, NextKeeps DEF Aborted
<1>5. QED
  BY <1>3, <1>4 DEF S!ReadBody

LEMMA CallKeeps ==
  ASSUME S!Rpc2Constants, ServedInv, S!CallMethod \/ S!MethodPanics
  PROVE  ServedInv'
<1> USE DEF ServedInv, ServedTyped
<1> DEFINE n == Len(frames)
<1>1. /\ frames # <<>> /\ frames[n].h.kind = "call" /\ UNCHANGED <<call, chain, ended>>
  BY DEF S!CallMethod, S!MethodPanics, S!At, S!Last
<1>2. call # None /\ frames[n].h.kind # "readBody"
  BY <1>1 DEF Unserved
<1>3. CASE S!CallMethod
  <2>1. /\ wrote' = TRUE /\ OneAnswer' /\ abort' \in BOOLEAN
        /\ abort => abort' /\ cut' = cut
        /\ ~abort /\ abort' => cut' = Len(trace)
    <3>1. CASE wrote
      BY <1>3, <3>1 DEF S!CallMethod, S!Aborts, OneAnswer
    <3>2. CASE ~wrote
      <4>1. PICK what \in Answers : S!WriteResponse(what)
        BY <1>3, <3>2 DEF S!CallMethod, Answers
      <4>2. QED
        BY <4>1, WritingIs
    <3>3. QED
      BY <3>1, <3>2
  <2>2. S!NextOn(S!Deferred("last"), chain', abort') /\ ~Due'
    BY <1>1, <1>3, <2>1 DEF S!CallMethod, Due
  <2>3. QED
    BY <1>1, <1>2, <2>1, <2>2, NextKeeps
<1>4. CASE S!MethodPanics
  <2>1. S!NextOn(S!Deferred("panic"), chain', abort') /\ UNCHANGED <<abort, wrote, cut, writes, ended>>
    BY <1>1, <1>4 DEF S!MethodPanics
  <2>2. OneAnswer'
    BY <2>1 DEF OneAnswer
  <2>3. QED
    BY <1>1, <1>2, <2>1, <2>2, NextKeeps DEF Aborted
<1>5. QED
  BY <1>3, <1>4

LEMMA UserKeeps ==
  ASSUME S!Rpc2Constants, ServedInv,
         S!UserNext \/ S!UserReturns \/ S!UserAborts \/ S!UserWrites \/ S!Returns
  PROVE  ServedInv'
<1> USE DEF ServedInv, ServedTyped
<1> DEFINE n == Len(frames)
<1>1. frames # <<>> /\ UNCHANGED <<call, chain>>
  BY DEF S!UserNext, S!UserReturns, S!UserAborts, S!UserWrites, S!Returns, S!User, S!At
<1>2. call # None
  BY <1>1 DEF Unserved
<1>3. n \in Nat /\ n > 0 /\ n \in DOMAIN frames
  BY <1>1
<1>4. CASE S!UserNext
  <2>1. PICK at \in {"next", "last"} : S!NextOn(S!Deferred(at), chain', abort')
    BY <1>1, <1>4 DEF S!UserNext
  <2>2. /\ UNCHANGED <<abort, wrote, cut, writes, ended>>
        /\ frames[n].h.kind \notin {"readBody", "call"}
    BY <1>4 DEF S!UserNext, S!User, S!At, S!Last
  <2>3. OneAnswer'
    BY <2>2 DEF OneAnswer
  <2>4. QED
    BY <1>1, <1>2, <2>1, <2>2, <2>3, NextKeeps DEF Aborted
<1>5. CASE S!UserAborts \/ S!UserWrites
  <2>1. UNCHANGED <<hid, frames, trace>>
    BY <1>5 DEF S!UserAborts, S!UserWrites
  <2>2. CASE S!UserAborts
    <3>1. /\ ~abort /\ abort' = TRUE /\ cut' = Len(trace)
          /\ UNCHANGED <<wrote, writes>> /\ ended' = IF wrote THEN ended ELSE "aborted"
      BY <2>2 DEF S!UserAborts, S!Aborts
    <3>2. OneAnswer' /\ ~Due'
      BY <3>1 DEF OneAnswer, Due
    <3>3. QED
      BY <1>1, <1>2, <2>1, <3>1, <3>2, RestKeeps
  <2>3. CASE S!UserWrites
    <3>1. "own" \in Answers
      BY DEF Answers
    <3>2. /\ wrote' = TRUE /\ OneAnswer' /\ abort' \in BOOLEAN
          /\ abort => abort' /\ cut' = cut
          /\ ~abort /\ abort' => cut' = Len(trace)
      BY <2>3, <3>1, WritingIs DEF S!UserWrites
    <3>3. ~Due'
      BY <3>2 DEF Due
    <3>4. QED
      BY <1>1, <1>2, <2>1, <3>2, <3>3, RestKeeps
  <2>4. QED
    BY <1>5, <2>2, <2>3
<1>6. CASE S!Returns \/ S!UserReturns
  <2>1. /\ frames' = S!Front(frames) /\ UNCHANGED <<hid, abort, wrote, trace, cut, writes>>
        /\ ended' = ended \/ ended' = "mute"
    BY <1>6 DEF S!Returns, S!UserReturns
  <2>2. frames' \in Seq(Frame) /\ Len(frames') = n - 1 /\ \A i \in 1..(n - 1) : frames'[i] = frames[i]
    BY <1>1, <2>1, FrontIs
  <2>3. OneAnswer'
    BY <2>1 DEF OneAnswer
  <2>4. ASSUME Due' PROVE Ends' /\ Finds' /\ CallsOpen'
    <3>1. Due /\ Ends /\ Finds /\ CallsOpen /\ ~abort
      BY <1>2, <2>1, <2>4 DEF DueInv, Due, Aborted
    <3>2. frames[n].at \in {"next", "last"}
      BY <1>6, <2>4, <3>1 DEF S!Returns, S!UserReturns, S!User, S!At, S!Last, Due
    <3>3. hid = Len(chain)
      BY <3>1, <3>2 DEF Ends
    <3>4. \A i \in DOMAIN frames : i # n => i \in DOMAIN frames' /\ frames'[i] = frames[i]
      BY <1>3, <2>2
    <3>5. ASSUME NEW i \in DOMAIN frames, Calling(i) PROVE i \in DOMAIN frames' /\ Calling(i)'
      BY <3>2, <3>4, <3>5 DEF Calling
    <3>6. ASSUME NEW i \in DOMAIN frames, Reading(i) PROVE i \in DOMAIN frames' /\ Reading(i)'
      BY <3>2, <3>4, <3>6 DEF Reading
    <3>7. Holds => Holds'
      BY <1>1 DEF Holds, S!Group, S!Registered, S!Handler
    <3>8. Ends'
      BY <1>1, <2>1, <3>3 DEF Ends
    <3>9. Finds'
      BY <1>1, <3>1, <3>6, <3>7 DEF Finds
    <3>10. CallsOpen'
      BY <1>1, <2>1, <3>1, <3>5 DEF CallsOpen
    <3>11. QED
      BY <3>8, <3>9, <3>10
  <2>5. abort' \in BOOLEAN /\ wrote' \in BOOLEAN /\ (abort' => wrote' \/ ended' # "not")
    BY <2>1 DEF Aborted
  <2>6. QED
    BY <1>1, <1>2, <1>3, <2>1, <2>2, <2>3, <2>4, <2>5, RestKeeps
<1>7. QED
  BY <1>4, <1>5, <1>6

LEMMA ServedStep ==
  ASSUME S!Rpc2Constants
  PROVE  ServedInv /\ [S!Next]_rpc2Vars => ServedInv'
<1> SUFFICES ASSUME ServedInv, [S!Next]_rpc2Vars PROVE ServedInv'
  OBVIOUS
<1>1. CASE S!Unwind \/ S!UserPanics
  <2>1. frames # <<>> /\ UNCHANGED <<call, chain, hid, trace>> /\ S!Panic
    BY <1>1 DEF S!Unwind, S!UserPanics, S!User, S!At
  <2>2. call # None
    BY <2>1 DEF ServedInv, Unserved
  <2>3. QED
    BY <2>1, <2>2, PanicKeeps
<1>2. CASE S!Next
  BY <1>1, <1>2, ServeKeeps, ReadBodyKeeps, CallKeeps, UserKeeps DEF S!Next
<1>3. CASE UNCHANGED rpc2Vars
  BY <1>3 DEF rpc2Vars, ServedInv, ServedTyped, InOrder, OneAnswer, Unserved, Aborted, Deeper,
              DueInv, Due, Ends, Finds, Holds, CallsOpen, Reading, Calling, S!HasGroup, S!Group,
              S!Registered, S!Handler
<1>4. QED
  BY <1>2, <1>3

LEMMA Rpc2Runs ==
  /\ RuntimeInit /\ machine = "rpc2" => S!Init
  /\ [RuntimeNext]_runtimeVars => machine' = machine
  /\ [RuntimeNext]_runtimeVars /\ machine = "rpc2" => [S!Next]_rpc2Vars
<1>1. RuntimeInit /\ machine = "rpc2" => S!Init
  BY Zenon DEF RuntimeInit
<1>2. RuntimeNext => machine' = machine
  BY Zenon DEF RuntimeNext, Others
<1>3. RuntimeNext /\ machine = "rpc2" => S!Next
  BY DEF RuntimeNext
<1>4. UNCHANGED runtimeVars => machine' = machine /\ UNCHANGED rpc2Vars
  BY Zenon DEF runtimeVars
<1>5. QED
  BY <1>1, <1>2, <1>3, <1>4

(* Handlers are entered once and in the order of the chain, none after an  *)
(* abort, and a request that is over has exactly one answer or a reason to *)
(* have none: for any groups, handlers and requests, and whatever calls    *)
(* of Next, aborts, answers and panics the application's handlers make.    *)
THEOREM ChainsAreHonoured == RuntimeSpec => []ChainHonoured
<1> DEFINE I == machine = "rpc2" => ServedInv
<1>1. RuntimeInit => I
  BY ServedInit, Rpc2Runs, RuntimeAssumption
<1>2. I /\ [RuntimeNext]_runtimeVars => I'
  BY ServedStep, Rpc2Runs, RuntimeAssumption
<1>3. I => ChainHonoured
  BY ServedHolds, RuntimeAssumption DEF ChainHonoured
<1>4. QED
  BY <1>1, <1>2, <1>3, PTL DEF RuntimeSpec

-----------------------------------------------------------------------------
(* The types of Rpc.  A handler that is running was started by Next or is  *)
(* the first.                                                              *)
Depth(r) == /\ Len(rq[r].stack) <= R!N
            /\ rq[r].pc = "chain" => Len(rq[r].stack) <= R!Ctx(r).index + 1

RpcBounds == /\ run \in {0, 1} /\ refused \subseteq Reqs
             /\ \A c \in Ctxs : ctx[c].index <= R!N
             /\ \A r \in Reqs : Depth(r)

LEMMA ChainLength == ASSUME R!RpcConstants PROVE R!N \in Nat
<1>1. R!Handlers \subseteq DOMAIN Uses
  BY DEF R!Handlers
<1>2. IsFiniteSet(DOMAIN Uses)
  BY DEF R!RpcConstants, R!IsFiniteSet, IsFiniteSet
<1>3. Cardinality(R!Handlers) \in Nat
  BY <1>1, <1>2, FS_Subset, FS_CardinalityType
<1>4. QED
  BY <1>3 DEF R!N, R!Cardinality, R!IsFiniteSet, Cardinality, IsFiniteSet

(* A step of a request, by what it does to its stack and to the indexes.   *)
LEMMA DepthStep ==
  ASSUME R!RpcConstants, IInv, RpcBounds, NEW r \in Reqs,
         \A s \in Reqs \ {r} : rq'[s] = rq[s],
         \A c \in Ctxs : ctx'[c].index \in 0..R!N /\ (c \in pool \/ ctx[c].index <= ctx'[c].index),
         Len(rq'[r].stack) <= R!N,
         rq'[r].pc = "chain" => Len(rq'[r].stack) <= R!Ctx(r)'.index + 1,
         run' = run, refused' \subseteq Reqs
  PROVE  RpcBounds'
<1>1. R!N \in Nat
  BY ChainLength
<1>2. ASSUME NEW s \in Reqs \ {r} PROVE Depth(s)'
  <2>1. rq'[s] = rq[s] /\ rq[s] \in ReqType /\ Len(rq[s].stack) \in Nat
    BY DEF IInv, Typed, ReqType
  <2>2. CASE rq[s].pc = "chain"
    <3>1. rq[s].c \in Ctxs \ pool
      BY <2>2 DEF IInv, Fine, Owns
    <3>2. ctx[rq[s].c].index \in Nat
      BY <3>1 DEF IInv, Typed, CtxType
    <3>3. ctx[rq[s].c].index <= ctx'[rq[s].c].index /\ ctx'[rq[s].c].index \in 0..R!N
      BY <3>1
    <3>4. Len(rq[s].stack) <= ctx[rq[s].c].index + 1 /\ Len(rq[s].stack) <= R!N
      BY <2>2 DEF RpcBounds, Depth, R!Ctx
    <3>5. Len(rq'[s].stack) <= ctx'[rq'[s].c].index + 1
      <4>1. ctx'[rq[s].c].index \in Nat
        BY <1>1, <3>3
      <4>2. Len(rq[s].stack) <= ctx'[rq[s].c].index + 1
        BY <2>1, <3>2, <3>3, <3>4, <4>1
      <4>3. QED
        BY <2>1, <4>2
    <3>6. QED
      BY <2>1, <3>4, <3>5 DEF Depth, R!Ctx, R!N, R!Handlers
  <2>3. CASE rq[s].pc # "chain"
    BY <2>1, <2>3 DEF RpcBounds, Depth, R!N, R!Handlers
  <2>4. QED
    BY <2>2, <2>3
<1>3. Depth(r)'
  BY DEF Depth, R!N, R!Handlers
<1>4. \A c \in Ctxs : ctx'[c].index <= R!N
  BY <1>1
<1>5. QED
  BY <1>2, <1>3, <1>4 DEF RpcBounds, R!N, R!Handlers

(* A step of a request that starts no handler.                             *)
Shrinks(r) ==
  /\ run' = run /\ refused' = refused
  /\ \A c \in Ctxs : ctx'[c].index = ctx[c].index
  /\ \A s \in Reqs \ {r} : rq'[s] = rq[s]
  /\ \/ rq'[r].stack \in {rq[r].stack, <<>>}
     \/ Len(rq[r].stack) > 1 /\ rq'[r].stack = R!Front(rq[r].stack)
  /\ rq'[r].pc = "chain" => rq[r].pc = "chain" /\ rq'[r].c = rq[r].c

LEMMA ShrinksKeeps ==
  ASSUME R!RpcConstants, IInv, RpcBounds, NEW r \in Reqs, Shrinks(r)
  PROVE  RpcBounds'
<1>1. R!N \in Nat /\ rq[r] \in ReqType /\ \A c \in Ctxs : ctx[c].index \in 0..R!N
  BY ChainLength DEF IInv, Typed, RpcBounds, CtxType
<1>2. Len(rq[r].stack) <= R!N /\ rq[r].stack \in Seq(Nat)
  BY <1>1 DEF RpcBounds, Depth, ReqType
<1>3. Len(rq'[r].stack) \in Nat /\ Len(rq'[r].stack) <= Len(rq[r].stack)
  BY <1>2 DEF Shrinks, R!Front
<1>4. ASSUME rq'[r].pc = "chain" PROVE Len(rq'[r].stack) <= ctx'[rq'[r].c].index + 1
  <2>1. rq[r].pc = "chain" /\ rq'[r].c = rq[r].c
    BY <1>4 DEF Shrinks
  <2>2. rq[r].c \in Ctxs
    BY <2>1, Busy
  <2>3. Len(rq[r].stack) <= ctx[rq[r].c].index + 1
    BY <2>1 DEF RpcBounds, Depth, R!Ctx
  <2>4. ctx'[rq'[r].c].index = ctx[rq[r].c].index /\ ctx[rq[r].c].index \in Nat
    BY <1>1, <2>1, <2>2 DEF Shrinks
  <2>5. QED
    BY <1>2, <1>3, <2>3, <2>4
<1>5. Len(rq'[r].stack) <= R!N
  BY <1>1, <1>2, <1>3
<1>6. \A c \in Ctxs : ctx'[c].index \in 0..R!N /\ (c \in pool \/ ctx[c].index <= ctx'[c].index)
  BY <1>1 DEF Shrinks
<1>7. /\ \A s \in Reqs \ {r} : rq'[s] = rq[s]
      /\ run' = run /\ refused' \subseteq Reqs
  BY DEF Shrinks, RpcBounds
<1>8. rq'[r].pc = "chain" => Len(rq'[r].stack) <= R!Ctx(r)'.index + 1
  BY <1>4 DEF R!Ctx
<1>9. QED
  BY <1>5, <1>6, <1>7, <1>8, DepthStep

LEMMA RpcBoundsStep ==
  ASSUME R!RpcConstants, IInv, RpcBounds, [R!Next]_rpcVars
  PROVE  RpcBounds'
<1>1. R!N \in Nat /\ Typed
  BY ChainLength DEF IInv
<1>2. \A c \in Ctxs : ctx[c] \in CtxType /\ ctx[c].index \in 0..R!N
  BY <1>1 DEF RpcBounds, Typed, CtxType
<1>3. CASE R!Stop \/ UNCHANGED rpcVars
  BY <1>3 DEF R!Stop, rpcVars, RpcBounds, Depth, R!Ctx, R!N, R!Handlers
<1>4. ASSUME NEW r \in Reqs, NEW in \in Inputs, R!ServeHTTP(r, in) PROVE RpcBounds'
  <2>1. rq[r] \in ReqType /\ run' = run /\ refused' \subseteq Reqs /\ RpcBounds
    BY <1>1, <1>4 DEF Typed, R!ServeHTTP, RpcBounds
  <2>2. Len(rq[r].stack) <= R!N /\ Len(rq[r].stack) \in Nat
    BY <2>1 DEF RpcBounds, Depth, ReqType
  <2>3. CASE in.fault = "health"
    <3> DEFINE new == [rq[r] EXCEPT !.pc = "done", !.in = in]
    <3>1. rq' = [rq EXCEPT ![r] = new] /\ ctx' = ctx
      BY <1>1, <1>4, <2>3 DEF R!ServeHTTP, Typed
    <3>2. new.pc = "done" /\ new.stack = rq[r].stack
      BY <2>1 DEF ReqType
    <3> HIDE DEF new
    <3>3. rq'[r] = new /\ \A s \in Reqs \ {r} : rq'[s] = rq[s]
      BY <1>1, <3>1 DEF Typed
    <3>4. rq'[r].pc # "chain" /\ Len(rq'[r].stack) <= R!N
      BY <2>2, <3>2, <3>3
    <3>5. \A c \in Ctxs : ctx'[c].index \in 0..R!N /\ (c \in pool \/ ctx[c].index <= ctx'[c].index)
      BY <1>1, <1>2, <3>1
    <3>6. QED
      BY <2>1, <3>3, <3>4, <3>5, DepthStep
  <2>4. CASE in.fault # "health"
    <3>1. PICK c \in pool : /\ ctx' = [ctx EXCEPT ![c] = R!Begun(c, r)]
                            /\ rq' = [rq EXCEPT ![r] = [R!NoReq EXCEPT !.pc = "enter",
                                                                     !.in = in, !.c = c]]
      BY <1>4, <2>4 DEF R!ServeHTTP
    <3> DEFINE new == [R!NoReq EXCEPT !.pc = "enter", !.in = in, !.c = c]
    <3>2. new.pc = "enter" /\ new.stack = <<>>
      BY DEF R!NoReq
    <3>3. rq' = [rq EXCEPT ![r] = new]
      BY <3>1
    <3> HIDE DEF new
    <3>4. rq'[r] = new /\ \A s \in Reqs \ {r} : rq'[s] = rq[s]
      BY <1>1, <3>3 DEF Typed
    <3>5. rq'[r].pc # "chain" /\ Len(rq'[r].stack) <= R!N
      BY <1>1, <3>2, <3>4
    <3>6. c \in Ctxs /\ ctx[c] \in CtxType
      BY <1>1 DEF Typed
    <3>7. R!Begun(c, r).index = 0
      BY <3>6 DEF R!Begun, CtxType
    <3>8. \A d \in Ctxs : ctx'[d] = IF d = c THEN R!Begun(c, r) ELSE ctx[d]
      BY <1>1, <3>1 DEF Typed
    <3>9. \A d \in Ctxs : ctx'[d].index \in 0..R!N /\ (d \in pool \/ ctx[d].index <= ctx'[d].index)
      BY <1>1, <1>2, <3>7, <3>8
    <3>10. QED
      BY <2>1, <3>4, <3>5, <3>9, DepthStep
  <2>5. QED
    BY <2>3, <2>4
<1>5. ASSUME NEW r \in Reqs, R!HandlerNext(r) PROVE RpcBounds'
  <2> DEFINE i == R!Ctx(r).index
  <2>1. /\ rq[r] \in ReqType /\ rq[r].pc = "chain" /\ rq[r].c \in Ctxs /\ R!Ctx(r) = ctx[rq[r].c]
        /\ ctx[rq[r].c] \in CtxType
    BY <1>5, Busy DEF R!HandlerNext
  <2>2. i \in Nat /\ i < R!N /\ Len(rq[r].stack) <= i + 1 /\ rq[r].stack \in Seq(Nat)
    BY <1>5, <2>1 DEF R!HandlerNext, RpcBounds, Depth, CtxType, ReqType
  <2>3. /\ \A c \in Ctxs : ctx'[c].index = IF c = rq[r].c THEN i + 1 ELSE ctx[c].index
        /\ run' = run /\ refused' = refused /\ rq'[r].c = rq[r].c
        /\ \A s \in Reqs \ {r} : rq'[s] = rq[s]
    BY <1>1, <1>5, <2>1, SMTT(30) DEF R!HandlerNext, R!NextIndex, Typed, CtxType, ReqType
  <2>4. \/ rq'[r].stack = Append(rq[r].stack, i + 2) /\ i + 1 < R!N
        \/ rq'[r].stack = rq[r].stack
    BY <1>1, <1>5, <2>1, <2>2 DEF R!HandlerNext, R!NextIndex, Typed, ReqType
  <2>5. R!Ctx(r)'.index = i + 1
    BY <2>1, <2>3 DEF R!Ctx
  <2> HIDE DEF i
  <2>6. Len(rq'[r].stack) <= R!N /\ Len(rq'[r].stack) <= i + 2
    BY <1>1, <2>2, <2>4
  <2>7. \A c \in Ctxs : ctx'[c].index \in 0..R!N /\ (c \in pool \/ ctx[c].index <= ctx'[c].index)
    BY <1>1, <1>2, <2>1, <2>2, <2>3 DEF i
  <2>8. QED
    BY <1>1, <2>2, <2>3, <2>5, <2>6, <2>7, DepthStep DEF RpcBounds
<1>6. ASSUME NEW r \in Reqs, R!Decode(r) PROVE RpcBounds'
  <2>1. /\ rq[r] \in ReqType /\ rq[r].pc = "decode" /\ rq[r].c \in Ctxs
        /\ ctx[rq[r].c] \in CtxType /\ R!Ctx(r) = ctx[rq[r].c]
    BY <1>6, Busy DEF R!Decode
  <2>2. /\ \A c \in Ctxs : ctx'[c].index = ctx[c].index
        /\ run' = run /\ refused' = refused /\ rq'[r].c = rq[r].c
        /\ \A s \in Reqs \ {r} : rq'[s] = rq[s]
    BY <1>1, <1>6, <2>1 DEF R!Decode, R!To, R!ToErr, Typed, CtxType, ReqType
  <2>3. \/ rq'[r].stack = <<1>> /\ R!N # 0
        \/ rq'[r].stack = rq[r].stack /\ rq'[r].pc # "chain"
    BY <1>1, <1>6, <2>1 DEF R!Decode, R!To, R!ToErr, Typed, ReqType
  <2>4. CASE rq'[r].stack = <<1>> /\ R!N # 0
    <3>1. ctx'[rq'[r].c].index \in Nat
      BY <2>1, <2>2 DEF CtxType
    <3>2. Len(rq'[r].stack) = 1 /\ R!N >= 1
      BY <1>1, <2>4
    <3>3. \A c \in Ctxs : ctx'[c].index \in 0..R!N /\ (c \in pool \/ ctx[c].index <= ctx'[c].index)
      BY <1>1, <1>2, <2>2
    <3>4. rq'[r].pc = "chain" => Len(rq'[r].stack) <= R!Ctx(r)'.index + 1
      BY <3>1, <3>2 DEF R!Ctx
    <3>5. Len(rq'[r].stack) <= R!N /\ run' = run /\ refused' \subseteq Reqs
      BY <2>2, <3>2 DEF RpcBounds
    <3>6. QED
      BY <2>2, <3>3, <3>4, <3>5, DepthStep
  <2>5. CASE rq'[r].stack = rq[r].stack /\ rq'[r].pc # "chain"
    BY <2>2, <2>5, ShrinksKeeps DEF Shrinks
  <2>6. QED
    BY <2>3, <2>4, <2>5
<1>7. ASSUME NEW r \in Reqs,
             R!Enter(r) \/ R!HandlerStop(r) \/ R!HandlerWrites(r) \/ R!HandlerPanics(r)
               \/ (\E e \in {None, "handler"} : R!HandlerReturns(r, e))
               \/ R!Prepare(r) \/ R!Call(r) \/ R!Respond(r) \/ R!Release(r)
      PROVE  Shrinks(r)
  <2>1. rq[r] \in ReqType /\ rq[r].c \in Ctxs /\ ctx[rq[r].c] \in CtxType
    BY <1>7, Busy DEF R!Enter, R!HandlerStop, R!HandlerWrites, R!HandlerPanics, R!HandlerReturns,
       R!Prepare, R!Call, R!Respond, R!Release
  <2>2. run' = run /\ refused' = refused
    BY <1>7 DEF R!Enter, R!HandlerStop, R!HandlerWrites, R!HandlerPanics, R!HandlerReturns,
       R!Prepare, R!Call, R!Respond, R!Release
  <2>3. ASSUME NEW m, ctx' = [ctx EXCEPT ![rq[r].c].msg = m]
        PROVE  \A c \in Ctxs : ctx'[c].index = ctx[c].index
    BY <1>1, <2>1, <2>3 DEF Typed, CtxType
  <2>4. ASSUME NEW pc, R!To(r, pc) \/ (\E e : R!ToErr(r, pc, e))
        PROVE  /\ rq'[r].pc = pc /\ rq'[r].stack = rq[r].stack
               /\ \A s \in Reqs \ {r} : rq'[s] = rq[s]
    BY <1>1, <2>1, <2>4 DEF R!To, R!ToErr, Typed, ReqType
  <2>5. CASE R!Enter(r)
    <3>1. ctx' = ctx /\ \E pc \in {"release", "decode"} : R!To(r, pc)
      BY <2>5 DEF R!Enter
    <3>2. QED
      BY <2>2, <2>4, <3>1 DEF Shrinks
  <2>6. CASE R!HandlerStop(r)
    <3>1. rq' = rq /\ \A c \in Ctxs : ctx'[c].index = ctx[c].index
      BY <1>1, <2>1, <2>6 DEF R!HandlerStop, Typed, CtxType
    <3>2. QED
      BY <2>2, <2>6, <3>1 DEF Shrinks, R!HandlerStop
  <2>7. CASE R!HandlerWrites(r)
    BY <2>2, <2>7 DEF Shrinks, R!HandlerWrites
  <2>8. CASE R!HandlerPanics(r)
    BY <1>1, <2>1, <2>2, <2>8 DEF Shrinks, R!HandlerPanics, Typed, ReqType
  <2>9. ASSUME NEW e \in {None, "handler"}, R!HandlerReturns(r, e) PROVE Shrinks(r)
    <3>1. CASE Len(rq[r].stack) > 1
      <4>1. rq' = [rq EXCEPT ![r].stack = R!Front(@)] /\ ctx' = ctx /\ rq[r].pc = "chain"
        BY <2>9, <3>1 DEF R!HandlerReturns
      <4>2. /\ rq'[r].stack = R!Front(rq[r].stack) /\ rq'[r].c = rq[r].c
            /\ \A s \in Reqs \ {r} : rq'[s] = rq[s]
        BY <1>1, <2>1, <4>1 DEF Typed, ReqType
      <4>3. QED
        BY <2>2, <3>1, <4>1, <4>2 DEF Shrinks
    <3>2. CASE ~(Len(rq[r].stack) > 1)
      BY <1>1, <2>1, <2>2, <2>9, <3>2 DEF Shrinks, R!HandlerReturns, Typed, ReqType
    <3>3. QED
      BY <3>1, <3>2
  <2>10. CASE R!Prepare(r)
    <3>1. ctx' = ctx /\ \E pc \in {"respond", "call"} : R!To(r, pc) \/ (\E e : R!ToErr(r, pc, e))
      BY <2>10 DEF R!Prepare
    <3>2. QED
      BY <2>2, <2>4, <3>1 DEF Shrinks
  <2>11. CASE R!Call(r)
    <3>1. R!To(r, "respond") \/ (\E e : R!ToErr(r, "respond", e))
      BY <2>11 DEF R!Call
    <3>2. ctx' = ctx \/ ctx' = [ctx EXCEPT ![rq[r].c].msg.result = <<"made", r>>]
      BY <2>11 DEF R!Call
    <3>3. ctx' = ctx \/ \E m : ctx' = [ctx EXCEPT ![rq[r].c].msg = m]
      BY <3>2, Zenon
    <3>4. \A c \in Ctxs : ctx'[c].index = ctx[c].index
      BY <2>3, <3>3
    <3>5. QED
      BY <2>2, <2>4, <3>1, <3>4 DEF Shrinks
  <2>12. CASE R!Respond(r)
    <3>1. R!To(r, "release") /\ \E m : ctx' = [ctx EXCEPT ![rq[r].c].msg = m]
      BY <2>12 DEF R!Respond
    <3>2. QED
      BY <2>2, <2>3, <2>4, <3>1 DEF Shrinks
  <2>13. CASE R!Release(r)
    <3>1. \E m : ctx' = [ctx EXCEPT ![rq[r].c].msg = m]
      BY <2>13 DEF R!Release
    <3>2. /\ rq'[r].pc = "done" /\ rq'[r].stack = rq[r].stack
          /\ \A s \in Reqs \ {r} : rq'[s] = rq[s]
      BY <1>1, <2>1, <2>13 DEF R!Release, Typed, ReqType
    <3>3. QED
      BY <2>2, <2>3, <3>1, <3>2 DEF Shrinks
  <2>14. QED
    BY <1>7, <2>5, <2>6, <2>7, <2>8, <2>9, <2>10, <2>11, <2>12, <2>13
<1>8. ASSUME NEW r \in Reqs,
             R!Enter(r) \/ R!Prepare(r) \/ R!Call(r) \/ R!Respond(r) \/ R!Release(r)
               \/ R!Middleware(r)
      PROVE  RpcBounds'
  BY <1>5, <1>7, <1>8, ShrinksKeeps DEF R!Middleware
<1>9. QED
  BY <1>3, <1>4, <1>6, <1>8 DEF R!Next

LEMMA RpcTypes == ASSUME R!RpcConstants, IInv, RpcBounds PROVE R!TypeOK
<1>1. R!N \in Nat /\ Typed
  BY ChainLength DEF IInv
<1>2. \A c \in Ctxs : ctx[c] \in CtxType /\ ctx[c].index <= R!N
  BY <1>1 DEF RpcBounds, Typed
<1>3. \A r \in Reqs : /\ rq[r] \in ReqType /\ answer[r] \in AnswerType \cup {None}
                      /\ Len(rq[r].stack) <= R!N
  BY <1>1 DEF RpcBounds, Typed, Depth
<1>4. \A in \in Inputs : R!Input(in)
  BY DEF R!RpcConstants
<1>5. ASSUME NEW c \in Ctxs
      PROVE  /\ ctx[c].req \in Reqs \cup {None}
             /\ ctx[c].stopped \in BOOLEAN /\ ctx[c].index \in 0..R!N
             /\ ctx[c].msg \in R!Msg /\ ctx[c].started \in Reqs \cup {None}
  BY <1>1, <1>2 DEF CtxType
<1>6. ASSUME NEW r \in Reqs
      PROVE  /\ rq[r].in # None => R!Input(rq[r].in)
             /\ rq[r].c \in Ctxs \cup {None} /\ rq[r].err \in R!Err
             /\ rq[r].pc \in PC
             /\ Len(rq[r].stack) <= R!N
             /\ answer[r] # None => answer[r].msg \in R!Msg
  BY <1>3, <1>4 DEF ReqType, AnswerType
<1>7. run \in {0, 1} /\ pool \subseteq Ctxs /\ refused \subseteq Reqs
  BY <1>1 DEF RpcBounds, Typed
<1>8. QED
  BY <1>5, <1>6, <1>7 DEF R!TypeOK, PC

LEMMA RpcBoundsInit == R!RpcConstants /\ R!Init => RpcBounds
<1> SUFFICES ASSUME R!RpcConstants, R!Init PROVE RpcBounds
  OBVIOUS
<1>1. R!N \in Nat
  BY ChainLength
<1>2. QED
  BY <1>1 DEF R!Init, R!NewContext, R!NoReq, RpcBounds, Depth

(* The types of Rpc2. *)
ServedBounds == cut \in 0..Len(trace) /\ ended \in {"not", "mute", "aborted", "panic"}

LEMMA ServedBoundsStep ==
  ASSUME ServedInv, ServedBounds, [S!Next]_rpc2Vars
  PROVE  ServedBounds'
<1>2. trace' = trace \/ \E h : trace' = Append(trace, h)
  BY DEF S!Next, S!Serve, S!ReadBody, S!CallMethod, S!MethodPanics, S!Unwind, S!Returns, S!UserNext,
     S!UserReturns, S!UserAborts, S!UserWrites, S!UserPanics, S!NextOn, rpc2Vars
<1>3. cut' = cut \/ cut' = Len(trace)
  BY DEF S!Next, S!Serve, S!ReadBody, S!CallMethod, S!MethodPanics, S!Unwind, S!Returns, S!UserNext,
     S!UserReturns, S!UserAborts, S!UserWrites, S!UserPanics, S!Panic, S!Aborts, S!WriteResponse,
     S!StopWithStatus, rpc2Vars
<1>4. ended' \in {ended, "mute", "aborted", "panic"}
  BY DEF S!Next, S!Serve, S!ReadBody, S!CallMethod, S!MethodPanics, S!Unwind, S!Returns, S!UserNext,
     S!UserReturns, S!UserAborts, S!UserWrites, S!UserPanics, S!Panic, rpc2Vars
<1>5. Len(trace) \in Nat /\ Len(trace') >= Len(trace) /\ Len(trace') \in Nat
  BY <1>2 DEF ServedInv, InOrder
<1>6. QED
  BY <1>3, <1>4, <1>5 DEF ServedBounds

LEMMA Rpc2Types == ASSUME S!Rpc2Constants, ServedInv, ServedBounds PROVE S!TypeOK
<1>1. \A h \in Hs : h.kind \in S!Kinds
  BY DEF Hs, S!ReadBodyHandler, S!Handler, S!Kinds, S!Rpc2Constants
<1>2. \A i \in DOMAIN chain : chain[i] \in Hs
  BY DEF ServedInv, ServedTyped
<1>3. \A i \in DOMAIN frames : frames[i].at \in {"body", "next", "last", "panic"}
  <2>1. \A i \in DOMAIN frames : frames[i] \in Frame
    BY DEF ServedInv, ServedTyped
  <2>2. QED
    BY <2>1 DEF Frame
<1>4. S!ToSet(writes) \subseteq {"error", "result", "status", "own"}
  BY DEF ServedInv, OneAnswer, S!ToSet
<1>5. hid \in 0..Len(chain) /\ call \in Calls \cup {None} /\ abort \in BOOLEAN /\ wrote \in BOOLEAN
  BY DEF ServedInv, ServedTyped
<1>6. QED
  BY <1>1, <1>2, <1>3, <1>4, <1>5 DEF ServedBounds, S!TypeOK

(* Both servers have their types. *)
RpcKept == /\ machine = "rpc" => IInv /\ RpcBounds
           /\ machine = "rpc2" => ServedInv /\ ServedBounds

LEMMA RpcTyping ==
  /\ RuntimeInit => RpcKept
  /\ RpcKept /\ [RuntimeNext]_runtimeVars => RpcKept'
  /\ RpcKept => /\ machine = "rpc" => R!TypeOK
                /\ machine = "rpc2" => S!TypeOK
<1>1. RuntimeInit => RpcKept
  <2>1. S!Init => ServedBounds
    BY DEF S!Init, ServedBounds
  <2>2. QED
    BY <2>1, InitIInv, RpcBoundsInit, ServedInit, RpcRuns, Rpc2Runs, RuntimeAssumption DEF RpcKept
<1>2. ASSUME RpcKept, [RuntimeNext]_runtimeVars PROVE RpcKept'
  <2>1. machine' = machine
    BY <1>2, RpcRuns
  <2>2. machine = "rpc" => IInv' /\ RpcBounds'
    BY <1>2, RpcRuns, NextIInv, RpcBoundsStep, RuntimeAssumption DEF RpcKept
  <2>3. machine = "rpc2" => ServedInv' /\ ServedBounds'
    BY <1>2, Rpc2Runs, ServedStep, ServedBoundsStep, RuntimeAssumption DEF RpcKept
  <2>4. QED
    BY <2>1, <2>2, <2>3 DEF RpcKept
<1>3. QED
  BY <1>1, <1>2, RpcTypes, Rpc2Types, RuntimeAssumption DEF RpcKept
=============================================================================
