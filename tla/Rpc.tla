-------------------------------- MODULE Rpc ---------------------------------
(***************************************************************************)
(* The JSON-RPC server of j2rpc: goroutines serve requests with contexts   *)
(* of a pool, each through the same gates: verb and size, body, id,        *)
(* method, the chain of middleware, arguments, the method between its      *)
(* hooks, the answer.  Stop may come at any time.                          *)
(*                                                                         *)
(* Middleware, hooks and methods are the application's: they do whatever   *)
(* the interface lets them.  Receivers are registered before requests are  *)
(* served, as New does with Option.Service.                                *)
(***************************************************************************)
EXTENDS Naturals, Sequences, FiniteSets, SequencesExt

CONSTANTS
  Reqs,       (* the requests                                              *)
  Ctxs,       (* the contexts that sync.Pool gives out                     *)
  Inputs,     (* the requests there are, see Input                         *)
  Receivers,  (* the registered receivers, in order: [name, methods]       *)
  Uses,       (* the functions given to Use, in order, by their names      *)
  None        (* nothing                                                   *)

(* The errors that are reported. *)
Failures == {"internal", "parse", "invalid", "nomethod", "params", "hook", "handler", "own"}

(* Where a request goes wrong before its method is looked up.              *)
Fault == {"none", "health", "written", "verb", "size", "read", "crypt",
          "json", "mistyped", "split"}

(* The status of validateRequest. *)
Status(fault) == IF fault = "verb" THEN 405 ELSE 413

(* The body cannot be read, or ParseRPCBody cannot decrypt it. *)
Unread == {"read", "crypt"}

(* What a request is: its fault, its id ("good", "bad", "absent"), which   *)
(* parts of an answer the body itself carries, namespace and method, and   *)
(* the elements of params ("value", "null", "bad"; <<"bad">> also stands   *)
(* for params that are no array).  Names are those that formatName makes.  *)
Input(in) == /\ in.fault \in Fault
             /\ in.id \in {"good", "bad", "absent"}
             /\ in.carries \in SUBSET {"result", "error"}
             /\ in.params \in Seq({"value", "null", "bad"})

(* What a request and a receiver can be, and what None is not. *)
RpcConstants ==
  /\ \A in \in Inputs : Input(in)
  /\ \A i \in DOMAIN Receivers : \A m \in Receivers[i].methods :
       m.ins \in Seq({"ctx", "ctxlike", "ptr", "plain"})
  /\ IsFiniteSet(DOMAIN Uses)
  /\ None \notin Reqs \cup Ctxs \cup Failures \cup ((Failures \cup {"sent", "made"}) \X Reqs)

VARIABLES
  run,     (* s.run                                                        *)
  pool,    (* the free contexts                                            *)
  ctx,     (* ctx[c]: a Context and its message                            *)
  rq,      (* rq[r]: a goroutine, [pc, in, c, stack, err]                  *)
  answer,  (* answer[r]: what was written to r's connection                *)
  ran,     (* ran[r]: how r's method was called (history)                  *)
  seen,    (* seen[r]: the handlers that r has entered (history)           *)
  late     (* the requests that came after Stop (history)                  *)

vars == <<run, pool, ctx, rq, answer, ran, seen, late>>

-----------------------------------------------------------------------------
(* Registration.  A method is [name, outs, ins]: outs of "val" and "err",  *)
(* ins of "ctx" (context.Context), "ctxlike" (a type of its own that       *)
(* implements it), "ptr" and "plain".                                      *)

Skipped == {"Constructor", "ExcludeMethod", "BeforeCall", "AfterCall"}

(* makeArgTypes: at most two results, of two the second is the error.      *)
Suitable(m) == /\ m.name \notin Skipped
               /\ Len(m.outs) <= 2
               /\ Len(m.outs) = 2 => m.outs = <<"val", "err">>

HasCtx(m) == m.ins # <<>> /\ m.ins[1] \in {"ctx", "ctxlike"}
ArgTypes(m) == IF HasCtx(m) THEN Tail(m.ins) ELSE m.ins
ReturnsError(m) == m.outs # <<>> /\ Last(m.outs) = "err"
ReturnsValue(m) == m.outs # <<>> /\ Head(m.outs) = "val"

Callbacks(rcv) == {m \in rcv.methods : Suitable(m)}

(* Register: a receiver without callbacks is left out, a second one of the *)
(* same name panics.                                                       *)
Services == {i \in DOMAIN Receivers :
               /\ Callbacks(Receivers[i]) # {}
               /\ \A j \in 1..(i - 1) : Callbacks(Receivers[j]) # {}
                                          => Receivers[j].name # Receivers[i].name}

(* getCallBack *)
Found(in) == {m \in UNION {Callbacks(Receivers[i]) : i \in
                             {j \in Services : Receivers[j].name = in.ns}} :
                m.name = in.method}

(* Use, UpsertHandlers: by name, so two closures of one function are one.  *)
Handlers == {i \in DOMAIN Uses : \A j \in 1..(i - 1) : Uses[j] # Uses[i]}

N == Cardinality(Handlers)

-----------------------------------------------------------------------------
(* ParsePositionalArguments: a value for each declared argument, in order. *)
(* A null is a zero value also where the argument is not a pointer: the    *)
(* check for it looks at the pointer to the value.                         *)

Malformed(params, types) == Len(params) > Len(types) \/ "bad" \in ToSet(params)

Missing(type) == IF type = "ptr" THEN "new" ELSE "zero"

(* A mutant gives the method what the request has and no more.             *)
Unfilled(params, types) == params
Arguments(params, types) ==
  [i \in DOMAIN types |-> IF i \notin DOMAIN params THEN Missing(types[i])
                          ELSE IF params[i] = "value" THEN "given"
                          ELSE IF types[i] = "ptr" THEN "nil" ELSE "zero"]

(* What callback.call hands to reflect: it panics when that does not fit.  *)
Fits(m, args) == Len(args) = Len(ArgTypes(m)) /\ (HasCtx(m) => m.ins[1] = "ctx")

-----------------------------------------------------------------------------
NoMsg == [id |-> None, result |-> None, error |-> None]

NewContext == [req |-> None, stopped |-> FALSE, index |-> 0, msg |-> NoMsg, started |-> None]

NoReq == [pc |-> "idle", in |-> None, c |-> None, stack |-> <<>>, err |-> None]

Init == /\ run = 1
        /\ pool = Ctxs
        /\ ctx = [c \in Ctxs |-> NewContext]
        /\ rq = [r \in Reqs |-> NoReq]
        /\ answer = [r \in Reqs |-> None]
        /\ ran = [r \in Reqs |-> <<>>]
        /\ seen = [r \in Reqs |-> <<>>]
        /\ late = {}

To(r, pc) == rq' = [rq EXCEPT ![r].pc = pc]
ToErr(r, pc, e) == rq' = [rq EXCEPT ![r].pc = pc, ![r].err = e]
Ctx(r) == ctx[rq[r].c]

(* Plain: a status and a text; otherwise an encoded message. *)
Plain(status) == [status |-> status, msg |-> NoMsg]

Writes(r, what) == answer' = [answer EXCEPT ![r] = IF @ = None THEN what ELSE @]

(* BeginRequest *)
Begun(c, r) == [ctx[c] EXCEPT !.req = r, !.stopped = FALSE, !.index = 0]

(* ServeHTTP *)
ServeHTTP(r, in) ==
  /\ rq[r].pc = "idle"
  /\ late' = IF run = 0 THEN late \cup {r} ELSE late
  /\ IF in.fault = "health"
     THEN /\ Writes(r, Plain(200))
          /\ rq' = [rq EXCEPT ![r].pc = "done", ![r].in = in]
          /\ UNCHANGED <<pool, ctx>>
     ELSE \E c \in pool :
            /\ pool' = pool \ {c}
            /\ ctx' = [ctx EXCEPT ![c] = Begun(c, r)]
            /\ rq' = [rq EXCEPT ![r] = [NoReq EXCEPT !.pc = "enter", !.in = in, !.c = c]]
            /\ UNCHANGED answer
  /\ UNCHANGED <<run, ran, seen>>

(* Handler: stopped, a header that is written, verb and size. *)
Enter(r) ==
  LET f == rq[r].in.fault IN
  /\ rq[r].pc = "enter"
  /\ IF run = 0 \/ f = "written"
     THEN To(r, "release") /\ UNCHANGED answer
     ELSE IF f \in {"verb", "size"}
     THEN To(r, "release") /\ Writes(r, Plain(Status(f)))
     ELSE To(r, "decode") /\ UNCHANGED answer
  /\ UNCHANGED <<run, pool, ctx, ran, seen, late>>

(* A field of the message that the body may bring along: the decoder fills *)
(* all of RPCMessage, which is also what is answered.                      *)
Brought(r, in, field, before) == IF field \in in.carries THEN <<"sent", r>> ELSE before

(* The decoder leaves the message alone when the text is not JSON and      *)
(* fills it when only a type is wrong.                                     *)
Decoded(msg, r, in) ==
  IF in.fault \in Unread \cup {"json"} THEN msg
  ELSE [id |-> IF in.id = "absent" THEN msg.id ELSE r,
        result |-> Brought(r, in, "result", msg.result),
        error |-> Brought(r, in, "error", msg.error)]

(* The first gate of handle that a request does not pass. *)
Refusal(in) ==
  CASE in.fault \in Unread -> "internal"
    [] in.fault \in {"json", "mistyped"} -> "parse"
    [] in.fault = "none" /\ in.id # "good" -> "invalid"
    [] in.fault = "split" \/ Found(in) = {} -> "nomethod"
    [] OTHER -> None

(* handle, up to the middleware. *)
Decode(r) ==
  LET in == rq[r].in
      e  == Refusal(in) IN
  /\ rq[r].pc = "decode"
  /\ ctx' = [ctx EXCEPT ![rq[r].c].msg = Decoded(@, r, in),
                        ![rq[r].c].started = IF in.fault \in Unread THEN @ ELSE r]
  /\ IF e # None THEN ToErr(r, "respond", e) /\ UNCHANGED seen
     ELSE IF N = 0 THEN To(r, "args") /\ UNCHANGED seen
     ELSE /\ rq' = [rq EXCEPT ![r].pc = "chain", ![r].stack = <<1>>]
          /\ seen' = [seen EXCEPT ![r] = <<1>>]
  /\ UNCHANGED <<run, pool, answer, ran, late>>

-----------------------------------------------------------------------------
(* The chain.  stack holds the handlers that are running, each called by   *)
(* the one before through Next.                                            *)

(* currentIndex after Next; a mutant that does not count.                  *)
SameIndex(i) == i
NextIndex(i) == i + 1

(* Next; an index beyond the chain is as good as the next one. *)
HandlerNext(r) ==
  LET i == NextIndex(Ctx(r).index) IN
  /\ rq[r].pc = "chain"
  /\ ~Ctx(r).stopped
  /\ Ctx(r).index < N
  /\ ctx' = [ctx EXCEPT ![rq[r].c].index = i]
  /\ IF i < N
     THEN /\ rq' = [rq EXCEPT ![r].stack = Append(@, i + 1)]
          /\ seen' = [seen EXCEPT ![r] = Append(@, i + 1)]
     ELSE UNCHANGED <<rq, seen>>
  /\ UNCHANGED <<run, pool, answer, ran, late>>

HandlerStop(r) ==
  /\ rq[r].pc = "chain"
  /\ ~Ctx(r).stopped
  /\ ctx' = [ctx EXCEPT ![rq[r].c].stopped = TRUE]
  /\ UNCHANGED <<run, pool, rq, answer, ran, seen, late>>

(* A handler writes an answer of its own and sets Status-Written. *)
HandlerWrites(r) ==
  /\ rq[r].pc = "chain"
  /\ answer[Ctx(r).req] = None
  /\ Writes(Ctx(r).req, Plain(403))
  /\ UNCHANGED <<run, pool, ctx, rq, ran, seen, late>>

(* The return of a handler, with an error or without, whatever the one it  *)
(* called has returned.  The first one's is that of Do.                    *)
HandlerReturns(r, e) ==
  /\ rq[r].pc = "chain"
  /\ IF Len(rq[r].stack) > 1
     THEN rq' = [rq EXCEPT ![r].stack = Front(@)]
     ELSE rq' = [rq EXCEPT ![r].stack = <<>>, ![r].err = e,
                           ![r].pc = IF e # None \/ Ctx(r).stopped THEN "respond" ELSE "args"]
  /\ UNCHANGED <<run, pool, ctx, answer, ran, seen, late>>

(* net/http recovers, after the deferred Release. *)
HandlerPanics(r) ==
  /\ rq[r].pc = "chain"
  /\ rq' = [rq EXCEPT ![r].stack = <<>>, ![r].pc = "release"]
  /\ UNCHANGED <<run, pool, ctx, answer, ran, seen, late>>

-----------------------------------------------------------------------------
Method(r) == CHOOSE m \in Found(rq[r].in) : TRUE

(* The arguments, callBefore and BeforeCall, which may fail or panic. *)
Prepare(r) ==
  LET in == rq[r].in IN
  /\ rq[r].pc = "args"
  /\ IF Malformed(in.params, ArgTypes(Method(r)))
     THEN ToErr(r, "respond", "params")
     ELSE To(r, "call") \/ \E e \in {"hook", "internal"} : ToErr(r, "respond", e)
  /\ UNCHANGED <<run, pool, ctx, answer, ran, seen, late>>

(* fn.Call with its deferred recover, AfterCall and callAfter, the error   *)
(* that was returned, the result unless it is a zero value.                *)
Call(r) ==
  LET m == Method(r)
      args == Arguments(rq[r].in.params, ArgTypes(m))
      result(v) == ctx' = [ctx EXCEPT ![rq[r].c].msg.result = v]
  IN
  /\ rq[r].pc = "call"
  /\ ran' = [ran EXCEPT ![r] = Append(@, [args |-> args, chain |-> seen[r],
                                          stopped |-> Ctx(r).stopped,
                                          started |-> Ctx(r).started])]
  /\ \/ ToErr(r, "respond", "internal") /\ UNCHANGED ctx
     \/ Fits(m, args) /\ ToErr(r, "respond", "hook") /\ UNCHANGED ctx
     \/ Fits(m, args) /\ ReturnsError(m) /\ ToErr(r, "respond", "own") /\ UNCHANGED ctx
     \/ Fits(m, args) /\ To(r, "respond") /\ UNCHANGED ctx
     \/ Fits(m, args) /\ ReturnsValue(m) /\ To(r, "respond") /\ result(<<"made", r>>)
  /\ UNCHANGED <<run, pool, answer, seen, late>>

(* setError, only for a request that has failed, output and writeResponse. *)
(* The status is written before the body is encrypted.                     *)
Respond(r) ==
  LET msg == [Ctx(r).msg EXCEPT !.error = IF rq[r].err = None THEN @ ELSE <<rq[r].err, r>>,
                                !.id = IF @ = None THEN "1" ELSE @] IN
  /\ rq[r].pc = "respond"
  /\ ctx' = [ctx EXCEPT ![rq[r].c].msg = msg]
  /\ \/ Writes(r, [status |-> 200, msg |-> msg])
     \/ Writes(r, Plain(500))   \* the message cannot be encoded
     \/ Writes(r, Plain(200))   \* nor encrypted
  /\ To(r, "release")
  /\ UNCHANGED <<run, pool, ran, seen, late>>

(* ContextPool.Release: the message is emptied, the Store is not.  The     *)
(* mutant empties nothing.                                                 *)
Unemptied(msg) == msg
Emptied(msg) == NoMsg

Release(r) ==
  /\ rq[r].pc = "release"
  /\ ctx' = [ctx EXCEPT ![rq[r].c].msg = Emptied(@)]
  /\ pool' = pool \cup {rq[r].c}
  /\ rq' = [rq EXCEPT ![r].pc = "done", ![r].c = None]
  /\ UNCHANGED <<run, answer, ran, seen, late>>

Stop == /\ run = 1
        /\ run' = 0
        /\ UNCHANGED <<pool, ctx, rq, answer, ran, seen, late>>

Middleware(r) == \/ HandlerNext(r) \/ HandlerStop(r) \/ HandlerWrites(r) \/ HandlerPanics(r)
                 \/ \E e \in {None, "handler"} : HandlerReturns(r, e)

Next == \/ Stop
        \/ \E r \in Reqs : \/ \E in \in Inputs : ServeHTTP(r, in)
                           \/ Enter(r) \/ Decode(r) \/ Middleware(r)
                           \/ Prepare(r) \/ Call(r) \/ Respond(r) \/ Release(r)

Spec == Init /\ [][Next]_vars

-----------------------------------------------------------------------------
Err == Failures \cup {None}

Msg == [id : Reqs \cup {None, "1"}, result : {None} \cup ({"sent", "made"} \X Reqs),
        error : {None} \cup ((Failures \cup {"sent"}) \X Reqs)]

TypeOK ==
  /\ run \in {0, 1} /\ pool \subseteq Ctxs /\ late \subseteq Reqs
  /\ \A c \in Ctxs : /\ ctx[c].req \in Reqs \cup {None}
                     /\ ctx[c].stopped \in BOOLEAN /\ ctx[c].index \in 0..N
                     /\ ctx[c].msg \in Msg /\ ctx[c].started \in Reqs \cup {None}
  /\ \A r \in Reqs : /\ rq[r].in # None => Input(rq[r].in)
                     /\ rq[r].c \in Ctxs \cup {None} /\ rq[r].err \in Err
                     /\ rq[r].pc \in {"idle", "enter", "decode", "chain", "args",
                                      "call", "respond", "release", "done"}
                     /\ Len(rq[r].stack) <= N
                     /\ answer[r] # None => answer[r].msg \in Msg

(* Contexts are reused, and yet an answer is the request's own: its id, or *)
(* "1" where none was decoded; the result of its own method, which ran and *)
(* reported no error, or the one that its body brought along; the error    *)
(* with which it failed.  When it did not fail, the answer has an error    *)
(* only if the body brought one, and has it even beside a result.          *)
OwnAnswer ==
  \A r \in Reqs :
    LET a == answer[r].msg
        in == rq[r].in IN
    (answer[r] # None /\ answer[r].msg # NoMsg) =>
      /\ a.id = IF in.fault \in Unread \cup {"json"} \/ in.id = "absent" THEN "1" ELSE r
      /\ a.result \in {None, <<"made", r>>, <<"sent", r>>}
      /\ a.result = <<"made", r>> => ran[r] # <<>> /\ rq[r].err = None
      /\ a.result = <<"sent", r>> => "result" \in in.carries
      /\ a.error = IF rq[r].err # None THEN <<rq[r].err, r>> ELSE Brought(r, in, "error", None)

(* A method is called at most once for a request, never for one that came  *)
(* after Stop; each handler of the chain was entered at most once, in the  *)
(* order of Use, however often Next was called, and none has stopped the   *)
(* request; the arguments are as many as the method declares, the start    *)
(* time in the Store is this request's.                                    *)
CallsGuarded ==
  \A r \in Reqs :
    /\ Len(ran[r]) <= 1
    /\ \A i \in DOMAIN ran[r] :
         LET call == ran[r][i] IN
         /\ r \notin late
         /\ ~call.stopped
         /\ call.started = r
         /\ Len(call.args) = Len(ArgTypes(Method(r)))
         /\ \A j, k \in DOMAIN call.chain : j < k => call.chain[j] < call.chain[k]
=============================================================================
