-------------------------------- MODULE Rpc2 --------------------------------
(***************************************************************************)
(* The JSON-RPC server of j2rpc2: one request and its chain of handlers.   *)
(* Reading the body is the first handler and appends the handlers of the   *)
(* method; calling the method is another; both call Next when they return, *)
(* while they panic too.  The others are the application's.                *)
(*                                                                         *)
(* A context belongs to one request, so one request at a time is enough.   *)
(***************************************************************************)
EXTENDS Naturals, Sequences, FiniteSets, SequencesExt

CONSTANTS
  Setup,   (* the calls of Use, RegisterFunc and RegisterType, in order:   *)
           (* [kind, path], kind "user", "recover" or "call"               *)
  Calls,   (* the requests: [fault, method, args]                          *)
  Nobody   (* no request                                                   *)

(* Paths are sequences of names, <<>> is the group of all requests.        *)
(* fault: where reading the body fails, "none" if it does not.             *)
Unacceptable == {"verb", "size"}   \* getValidateRequestStatus
Faults == Unacceptable \cup {"none", "nobody", "read", "caller", "json", "id", "noname"}

(* What registration and a request can be; Nobody is no request.           *)
Rpc2Constants == /\ IsFiniteSet(DOMAIN Setup) /\ Nobody \notin Calls
                 /\ \A c \in Calls : c.fault \in Faults
                 /\ \A i \in DOMAIN Setup : Setup[i].kind \in {"user", "recover", "call"}

VARIABLES
  call,    (* the request                                                  *)
  chain,   (* ctx.handlers                                                 *)
  hid,     (* ctx.hid                                                      *)
  frames,  (* the handlers that are running, the innermost last: [h, at]   *)
  abort,   (* ctx.abort                                                    *)
  wrote,   (* ctx.wrote                                                    *)
  trace,   (* the handlers that have been entered (history)                *)
  cut,     (* how many had been when the request was aborted (history)     *)
  writes,  (* what was written to the connection (history)                 *)
  ended    (* why no answer is due (history)                               *)

rpc2Vars == <<call, chain, hid, frames, abort, wrote, trace, cut, writes, ended>>

-----------------------------------------------------------------------------
(* Registration: a function whose name is taken is skipped; the others get *)
(* a handler in the group of their name.                                   *)
Registered(i) ==
  Setup[i].kind = "call" => \A j \in 1..(i - 1) : Setup[j] # Setup[i]

(* Those in the groups of some paths. *)
Group(paths) == {i \in DOMAIN Setup : Setup[i].path \in paths /\ Registered(i)}

HasGroup(path) == \E i \in DOMAIN Setup : Setup[i].path = path

Handler(i) == [kind |-> Setup[i].kind, id |-> i]
ReadBodyHandler == [kind |-> "readBody", id |-> 0]

(* One group after the other, and each in the order of its registration.   *)
Grouped(s) ==
  \A i, j \in DOMAIN s :
    (i < j /\ Setup[s[i]].path = Setup[s[j]].path)
      => s[i] < s[j] /\ \A k \in i..j : Setup[s[k]].path = Setup[s[i]].path

Handlers(paths) == {[n \in DOMAIN s |-> Handler(s[n])] :
                      s \in {t \in SetToSeqs(Group(paths)) : Grouped(t)}}

(* The wider groups of a method; a Go map yields them in any order.        *)
Wider(method) == {Setup[i].path : i \in DOMAIN Setup} \cap
                   {SubSeq(method, 1, n) : n \in 1..(Len(method) - 1)}

-----------------------------------------------------------------------------
Init == /\ call = Nobody
        /\ \E all \in Handlers({<<>>}) : chain = <<ReadBodyHandler>> \o all
        /\ hid = 0 /\ frames = <<>>
        /\ abort = FALSE /\ wrote = FALSE
        /\ trace = <<>> /\ cut = 0 /\ writes = <<>> /\ ended = "not"

(* Next: the handler it starts on top of fs, if it does. *)
Runs(ch, ab) == ~ab /\ hid < Len(ch)

(* hid after Next; a mutant that only looks. *)
Looked(i) == i
Counted(i) == i + 1

NextOn(fs, ch, ab) ==
  IF Runs(ch, ab)
  THEN /\ frames' = Append(fs, [h |-> ch[hid + 1], at |-> "body"])
       /\ trace' = Append(trace, ch[hid + 1])
       /\ hid' = Counted(hid)
  ELSE frames' = fs /\ UNCHANGED <<trace, hid>>

(* The frames once the innermost handler is at its deferred Next. *)
Deferred(at) == Append(Front(frames), [Last(frames) EXCEPT !.at = at])

Aborts(now) == /\ abort' = (abort \/ now)
               /\ cut' = IF abort \/ ~now THEN cut ELSE Len(trace)

(* Wrote, before and after; a mutant that does not ask. *)
AlwaysWrites(w) == FALSE
Written(w) == w

(* WriteResponse: the message, or a status when it cannot be encoded or    *)
(* CallerBeforeWrite fails, which aborts.                                  *)
WriteResponse(what) ==
  IF Written(wrote) THEN UNCHANGED <<wrote, writes>> /\ Aborts(FALSE)
  ELSE /\ wrote' = TRUE
       /\ \/ writes' = Append(writes, what) /\ Aborts(FALSE)
          \/ writes' = Append(writes, "status") /\ Aborts(TRUE)

(* StopWriteStringStatus *)
StopWithStatus ==
  IF Written(wrote) THEN UNCHANGED <<wrote, writes>> /\ Aborts(FALSE)
  ELSE /\ wrote' = TRUE /\ writes' = Append(writes, "status") /\ Aborts(TRUE)

(* ServeHTTP and Handler *)
Serve(c) ==
  /\ call = Nobody
  /\ call' = c
  /\ NextOn(frames, chain, abort)
  /\ UNCHANGED <<chain, abort, wrote, cut, writes, ended>>

At(kind, at) == frames # <<>> /\ Last(frames).h.kind = kind /\ Last(frames).at = at

(* handleReadBody: ReadBody, the handlers of the method, Next.             *)
ReadBody ==
  /\ At("readBody", "body")
  /\ \/ /\ call.fault # "none"
        /\ StopWithStatus
        /\ UNCHANGED chain
     \/ /\ call.fault = "none" /\ ~HasGroup(call.method)
        /\ WriteResponse("error")
        /\ UNCHANGED chain
     \/ /\ call.fault = "none" /\ HasGroup(call.method)
        /\ \E wider \in Handlers(Wider(call.method)), own \in Handlers({call.method}) :
             chain' = chain \o (wider \o own)
        /\ Aborts(FALSE)
        /\ UNCHANGED <<wrote, writes>>
  /\ NextOn(Deferred("last"), chain', abort')
  /\ UNCHANGED <<call, ended>>

(* parsePositionalArguments *)
BadArguments == call.args = "bad"

(* handleCallFunc: the arguments, the method, its answer, Next.            *)
CallMethod ==
  /\ At("call", "body")
  /\ IF wrote
     THEN Aborts(FALSE) /\ UNCHANGED <<wrote, writes, ended>>
     ELSE /\ \E what \in (IF BadArguments THEN {"error"} ELSE {"error", "result"}) :
               WriteResponse(what)
          /\ UNCHANGED ended
  /\ NextOn(Deferred("last"), chain, abort')
  /\ UNCHANGED <<call, chain>>

(* The method panics: Next all the same. *)
MethodPanics ==
  /\ At("call", "body")
  /\ ~wrote /\ ~BadArguments
  /\ NextOn(Deferred("panic"), chain, abort)
  /\ UNCHANGED <<call, chain, abort, wrote, cut, writes, ended>>

(* What a panic leaves running: what has called the innermost Recover.     *)
(* That one aborts the request and answers; without it net/http closes the *)
(* connection.                                                             *)
Recovers == {i \in DOMAIN frames : frames[i].h.kind = "recover"}

Panic ==
  IF Recovers = {}
  THEN /\ frames' = <<>> /\ ended' = "panic"
       /\ Aborts(FALSE) /\ UNCHANGED <<wrote, writes>>
  ELSE /\ frames' = SubSeq(frames, 1, (CHOOSE i \in Recovers : \A j \in Recovers : j <= i) - 1)
       /\ Aborts(TRUE)
       /\ IF Written(wrote) THEN UNCHANGED <<wrote, writes>>
          ELSE wrote' = TRUE /\ \E what \in {"error", "status"} : writes' = Append(writes, what)
       /\ UNCHANGED ended

Unwind ==
  /\ frames # <<>> /\ Last(frames).at = "panic"
  /\ Panic
  /\ UNCHANGED <<call, chain, hid, trace>>

(* A handler is at its end: readBody and call after their Next.            *)
Returns ==
  /\ frames # <<>> /\ Last(frames).at = "last"
  /\ frames' = Front(frames)
  /\ UNCHANGED <<call, chain, hid, abort, wrote, trace, cut, writes, ended>>

-----------------------------------------------------------------------------
(* The application's handlers, and Recover, which calls Next and returns.  *)

User == At("user", "body") \/ At("user", "next")

(* at is "next" once a handler has called Next. *)
UserNext ==
  /\ User \/ At("recover", "body")
  /\ NextOn(Deferred(IF At("recover", "body") THEN "last" ELSE "next"), chain, abort)
  /\ UNCHANGED <<call, chain, abort, wrote, cut, writes, ended>>

UserReturns ==
  /\ User
  /\ frames' = Front(frames)
  /\ ended' = IF ended = "not" /\ At("user", "body") /\ ~wrote /\ ~abort THEN "mute" ELSE ended
  /\ UNCHANGED <<call, chain, hid, abort, wrote, trace, cut, writes>>

UserAborts ==
  /\ User /\ ~abort
  /\ Aborts(TRUE)
  /\ ended' = IF wrote THEN ended ELSE "aborted"
  /\ UNCHANGED <<call, chain, hid, frames, wrote, trace, writes>>

UserWrites ==
  /\ User
  /\ WriteResponse("own") \/ StopWithStatus
  /\ UNCHANGED <<call, chain, hid, frames, trace, ended>>

UserPanics ==
  /\ User
  /\ Panic
  /\ UNCHANGED <<call, chain, hid, trace>>

Next == \/ \E c \in Calls : Serve(c)
        \/ ReadBody \/ CallMethod \/ MethodPanics \/ Unwind \/ Returns
        \/ UserNext \/ UserReturns \/ UserAborts \/ UserWrites \/ UserPanics

Spec == Init /\ [][Next]_rpc2Vars

-----------------------------------------------------------------------------
Kinds == {"readBody", "user", "recover", "call"}

TypeOK ==
  /\ call \in Calls \cup {Nobody}
  /\ \A i \in DOMAIN chain : chain[i].kind \in Kinds
  /\ hid \in 0..Len(chain) /\ cut \in 0..Len(trace)
  /\ \A i \in DOMAIN frames : frames[i].at \in {"body", "next", "last", "panic"}
  /\ abort \in BOOLEAN /\ wrote \in BOOLEAN
  /\ ToSet(writes) \subseteq {"error", "result", "status", "own"}
  /\ ended \in {"not", "mute", "aborted", "panic"}

(* Every handler is entered at most once, in the order of the chain.       *)
InChainOrder == IsPrefix(trace, chain)

(* No handler is entered once the request is aborted.                      *)
NothingAfterAbort == abort => Len(trace) = cut

(* A request that is over has exactly one answer, unless a handler of the  *)
(* application ended it without one, a panic found no Recover, or the      *)
(* method is the name of a group without a function.                       *)
AnsweredOnce ==
  /\ Len(writes) <= 1
  /\ (call # Nobody /\ frames = <<>> /\ ended = "not") =>
       \/ writes # <<>>
       \/ /\ HasGroup(call.method)
          /\ \A i \in Group({call.method}) : Setup[i].kind # "call"

(* The chain of handlers keeps its promises, with nested calls of Next,    *)
(* aborts, early answers and panics in any order.                          *)
ChainHonoured == InChainOrder /\ NothingAfterAbort /\ AnsweredOnce
=============================================================================
