--------------------------- MODULE CloseableChan ---------------------------
(***************************************************************************)
(* CloseableChannel of util/closeable.go: a channel with an unbounded      *)
(* queue in front of it.  A background loop moves values from the queue to *)
(* the channel and holds the write lock while it does; callers enqueue,    *)
(* dequeue, send directly under the read lock, or close; one goroutine     *)
(* receives.  A value stands for one call that offers it.                  *)
(*                                                                         *)
(* The order in which goroutines get the mutex is left open.               *)
(***************************************************************************)
EXTENDS Naturals, Sequences, FiniteSets, SequencesExt

CONSTANTS
  Clients,  (* the goroutines that call the methods                        *)
  Values,   (* the values they offer                                       *)
  Ops,      (* the methods they call, a subset of Op                       *)
  Cap,      (* the capacity of the channel                                 *)
  Loop,     (* the background loop                                         *)
  None      (* nobody, nothing                                             *)

(* send has a timeout, sendForever a negative one. *)
Op == {"enqueue", "dequeue", "close", "send", "sendForever"}

ASSUME ChanAssumption == /\ Ops \subseteq Op
                         /\ Cap \in Nat
                         /\ Loop \notin Clients \cup {None}
                         /\ None \notin Clients \cup Values

VARIABLES
  queue,     (* c.queue                                                    *)
  buf,       (* what is buffered in c.ch                                   *)
  closed,    (* c.close                                                    *)
  open,      (* c.ch is not closed                                         *)
  writer,    (* who holds c.mu for writing                                 *)
  readers,   (* who holds it for reading                                   *)
  loop,      (* the background loop, [pc, val]                             *)
  cl,        (* cl[c]: a caller, [pc, op, val]                             *)
  user,      (* the receiver: busy, waiting for a value, or over           *)
  received,  (* what the receiver got                                      *)
  order,     (* what was enqueued, in order (history)                      *)
  taken,     (* what Dequeue returned to callers (history)                 *)
  lost       (* what the loop took from the queue and dropped (history)    *)

mutex == <<writer, readers>>
channel == <<buf, open, user, received>>
history == <<order, taken, lost>>
vars == <<queue, closed, mutex, channel, history, loop, cl>>

LoopPC == {"top", "lock", "send", "sleep", "exited"}
CallPC == {"idle", "lock", "send", "close"}

NoCall == [pc |-> "idle", op |-> "close", val |-> None]

Init ==
  /\ queue = <<>> /\ buf = <<>> /\ received = <<>> /\ order = <<>>
  /\ taken = {} /\ lost = {}
  /\ closed = FALSE /\ open = TRUE
  /\ writer = None /\ readers = {}
  /\ loop = [pc |-> "top", val |-> None]
  /\ cl = [c \in Clients |-> NoCall]
  /\ user = "busy"

-----------------------------------------------------------------------------
(* The channel: a value goes to the waiting receiver or into the buffer.   *)

CanSend == user = "waiting" \/ Len(buf) < Cap

Deliver(v) ==
  IF user = "waiting"
  THEN /\ received' = Append(received, v)
       /\ user' = "busy"
       /\ UNCHANGED <<buf, open>>
  ELSE buf' = Append(buf, v) /\ UNCHANGED <<open, user, received>>

(* The receiver asks for the next value; a closed channel ends it. *)
Receive ==
  /\ user = "busy"
  /\ IF buf # <<>>
     THEN received' = Append(received, Head(buf)) /\ buf' = Tail(buf) /\ UNCHANGED user
     ELSE user' = (IF open THEN "waiting" ELSE "over") /\ UNCHANGED <<buf, received>>
  /\ UNCHANGED <<queue, closed, open, mutex, history, loop, cl>>

-----------------------------------------------------------------------------
(* The background loop: runBackgroundLoop and dequeueSend.                 *)

(* A mutant of LoopTo loses the value on the way.                          *)
ValueForgotten(pc, v) == loop' = [pc |-> pc, val |-> None]
LoopTo(pc, v) == loop' = [pc |-> pc, val |-> v]

(* What a dequeue leaves; a mutant that only peeks. *)
Peeked == queue
Rest == Tail(queue)

(* c.IsClosed() at the head of the loop; a mutant that does not look. *)
NeverExits == FALSE
SeesClosed == closed

LoopTop ==
  /\ loop.pc = "top"
  /\ LoopTo(IF SeesClosed THEN "exited" ELSE "lock", None)
  /\ UNCHANGED <<queue, closed, mutex, channel, history, cl>>

(* The lock is free, the channel is still open: dequeue, or sleep. *)
LoopLock ==
  /\ loop.pc = "lock"
  /\ writer = None /\ readers = {}
  /\ IF closed \/ queue = <<>>
     THEN LoopTo("sleep", None) /\ UNCHANGED <<queue, writer>>
     ELSE LoopTo("send", Head(queue)) /\ queue' = Rest /\ writer' = Loop
  /\ UNCHANGED <<closed, readers, channel, history, cl>>

LoopSend ==
  /\ loop.pc = "send"
  /\ CanSend
  /\ Deliver(loop.val)
  /\ writer' = None
  /\ LoopTo("top", None)
  /\ UNCHANGED <<queue, closed, readers, history, cl>>

(* time.After: the value is dropped.  A mutant never gives up.             *)
Patient == FALSE
GivesUp == ~CanSend

LoopTimeout ==
  /\ loop.pc = "send"
  /\ GivesUp
  /\ lost' = lost \cup {loop.val}
  /\ writer' = None
  /\ LoopTo("top", None)
  /\ UNCHANGED <<queue, closed, readers, channel, order, taken, cl>>

LoopWake ==
  /\ loop.pc = "sleep"
  /\ LoopTo("top", None)
  /\ UNCHANGED <<queue, closed, mutex, channel, history, cl>>

-----------------------------------------------------------------------------
(* Callers.                                                                *)

ClTo(c, pc) == cl' = [cl EXCEPT ![c].pc = pc]

Used == ToSet(order) \cup ToSet(buf) \cup ToSet(received)
          \cup {cl[c].val : c \in Clients}

(* A call gets past the first test of IsClosed. *)
Call(c, op, v) ==
  /\ cl[c].pc = "idle"
  /\ ~closed
  /\ cl' = [cl EXCEPT ![c] = [pc |-> "lock", op |-> op, val |-> v]]
  /\ UNCHANGED <<queue, closed, mutex, channel, history, loop>>

Offer(c) == \E op \in Ops \ {"dequeue", "close"}, v \in Values \ Used : Call(c, op, v)
Ask(c) == \E op \in Ops \cap {"dequeue", "close"} : Call(c, op, None)

Return(c) == cl' = [cl EXCEPT ![c] = NoCall]

(* The second test of IsClosed, under the lock; a mutant without it. *)
NotRechecked == FALSE
ClosedMeanwhile == closed

(* Where Enqueue puts a value; a mutant puts it in front. *)
AtFront(v) == <<v>> \o queue
AtEnd(v) == Append(queue, v)

Locks(c, op) == /\ cl[c].pc = "lock" /\ cl[c].op = op
                /\ writer = None /\ readers = {}

TurnedAway(c) ==
  /\ cl[c].pc = "lock"
  /\ writer = None
  /\ cl[c].op \in {"enqueue", "dequeue", "close"} => readers = {}
  /\ ClosedMeanwhile
  /\ Return(c)
  /\ UNCHANGED <<queue, closed, mutex, channel, history, loop>>

Enqueue(c) ==
  /\ Locks(c, "enqueue") /\ ~ClosedMeanwhile
  /\ queue' = AtEnd(cl[c].val)
  /\ order' = Append(order, cl[c].val)
  /\ Return(c)
  /\ UNCHANGED <<closed, mutex, channel, taken, lost, loop>>

Dequeue(c) ==
  /\ Locks(c, "dequeue") /\ ~ClosedMeanwhile
  /\ IF queue = <<>>
     THEN UNCHANGED <<queue, taken>>
     ELSE queue' = Rest /\ taken' = taken \cup {Head(queue)}
  /\ Return(c)
  /\ UNCHANGED <<closed, mutex, channel, order, lost, loop>>

(* Close: the flag, seen at once by everybody, ... *)
CloseFlag(c) ==
  /\ Locks(c, "close") /\ ~ClosedMeanwhile
  /\ closed' = TRUE
  /\ writer' = c
  /\ ClTo(c, "close")
  /\ UNCHANGED <<queue, readers, channel, history, loop>>

(* ... then the channel. *)
CloseChannel(c) ==
  /\ cl[c].pc = "close"
  /\ open' = FALSE
  /\ user' = IF user = "waiting" THEN "over" ELSE user
  /\ writer' = None
  /\ Return(c)
  /\ UNCHANGED <<queue, closed, readers, buf, received, history, loop>>

(* RLockWrapFunc *)
ReadLock(c) ==
  /\ cl[c].pc = "lock" /\ cl[c].op \in {"send", "sendForever"}
  /\ writer = None
  /\ ~ClosedMeanwhile
  /\ readers' = readers \cup {c}
  /\ ClTo(c, "send")
  /\ UNCHANGED <<queue, closed, writer, channel, history, loop>>

Send(c) ==
  /\ cl[c].pc = "send"
  /\ CanSend
  /\ Deliver(cl[c].val)
  /\ readers' = readers \ {c}
  /\ Return(c)
  /\ UNCHANGED <<queue, closed, writer, history, loop>>

SendTimeout(c) ==
  /\ cl[c].pc = "send" /\ cl[c].op = "send"
  /\ GivesUp
  /\ readers' = readers \ {c}
  /\ Return(c)
  /\ UNCHANGED <<queue, closed, writer, channel, history, loop>>

-----------------------------------------------------------------------------
LoopRuns == LoopTop \/ LoopSend \/ LoopTimeout \/ LoopWake

LoopStep == LoopRuns \/ LoopLock

Locked(c) == TurnedAway(c) \/ Enqueue(c) \/ Dequeue(c) \/ CloseFlag(c) \/ ReadLock(c)

Ending(c) == CloseChannel(c) \/ Send(c) \/ SendTimeout(c)

Next == \/ LoopStep
        \/ Receive
        \/ \E c \in Clients : Offer(c) \/ Ask(c) \/ Locked(c) \/ Ending(c)

Spec == Init /\ [][Next]_vars

(* Every goroutine runs, timers fire, and sync.RWMutex starves nobody.     *)
(* The receiver is under no obligation.                                    *)
LiveSpec == /\ Spec
            /\ WF_vars(LoopRuns) /\ SF_vars(LoopLock)
            /\ \A c \in Clients : SF_vars(Locked(c)) /\ WF_vars(Ending(c))

-----------------------------------------------------------------------------
TypeOK ==
  /\ queue \in Seq(Values) /\ buf \in Seq(Values) /\ received \in Seq(Values)
  /\ order \in Seq(Values) /\ taken \subseteq Values /\ lost \subseteq Values
  /\ closed \in BOOLEAN /\ open \in BOOLEAN
  /\ writer \in Clients \cup {Loop, None} /\ readers \subseteq Clients
  /\ loop \in [pc : LoopPC, val : Values \cup {None}]
  /\ cl \in [Clients -> [pc : CallPC, op : Op, val : Values \cup {None}]]
  /\ user \in {"busy", "waiting", "over"}

(* Nobody sends on the closed channel and nobody closes it twice: either   *)
(* would panic.  The flag alone does not give this, the test under the     *)
(* lock does.                                                              *)
NoPanic == /\ loop.pc = "send" => open
           /\ \A c \in Clients : cl[c].pc \in {"send", "close"} => open
           /\ \A c, d \in Clients : cl[c].pc = "close" /\ cl[d].pc = "close" => c = d

(* What went through the channel, whether it was received already or not.  *)
Sent == received \o buf

(* What comes through the queue comes in the order it was enqueued,        *)
(* whatever is sent directly or dequeued in between.                       *)
InOrder ==
  \A i, j \in DOMAIN Sent : \A k, l \in DOMAIN order :
    i < j /\ Sent[i] = order[k] /\ Sent[j] = order[l] => k < l

Places(v) ==
  {<<"queue", i>> : i \in {n \in DOMAIN queue : queue[n] = v}}
    \cup {<<"channel", i>> : i \in {n \in DOMAIN Sent : Sent[n] = v}}
    \cup {p \in {<<"hand", 0>>} : loop.pc = "send" /\ loop.val = v}
    \cup {p \in {<<"taken", 0>>} : v \in taken}
    \cup {p \in {<<"lost", 0>>} : v \in lost}

(* An enqueued value is in exactly one place: in the queue, in the loop's  *)
(* hand, in the channel or with the receiver, taken by a Dequeue, or lost; *)
(* and every variable has its type.                                        *)
Accounted ==
  TypeOK /\ \A v \in ToSet(order) : \E p \in Places(v) : Places(v) = {p}

(* A Close ends although nobody receives: no sender keeps the lock longer  *)
(* than its timeout, other than one with a negative timeout.               *)
CloseEnds == \A c \in Clients :
               (cl[c].pc # "idle" /\ cl[c].op = "close")
                 ~> \/ cl[c].pc = "idle"
                    \/ \E d \in Clients : cl[d].pc = "send" /\ cl[d].op = "sendForever"

(* The background loop ends after Close. *)
LoopExits == closed ~> loop.pc = "exited"

(* Close ends, and with it the loop.                                       *)
Ends == CloseEnds /\ LoopExits
=============================================================================
