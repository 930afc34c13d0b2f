------------------------ MODULE CloseableChanProofs ------------------------
(***************************************************************************)
(* Proofs about CloseableChan: no panic, no value in two places or in      *)
(* none, no value overtaken by one that was enqueued after it.  The        *)
(* argument: the queue is always the end of what was enqueued, the loop    *)
(* holds the value before it while it holds the lock, and everything       *)
(* before that is with the receiver, taken or lost.                        *)
(***************************************************************************)
EXTENDS CloseableChan, SequenceTheorems, TLAPS

(* Who holds the mutex, and what is closed by then. *)
LockHeld ==
  /\ writer # None => readers = {}
  /\ writer = Loop <=> loop.pc = "send"
  /\ \A c \in Clients : /\ cl[c].pc = "close" <=> writer = c
                        /\ cl[c].pc = "send" <=> c \in readers
                        /\ cl[c].pc = "send" => ~closed
                        /\ cl[c].pc = "close" => closed /\ open
  /\ loop.pc = "send" => ~closed
  /\ ~closed => open

(* How many values the loop and Dequeue have taken from the queue. *)
Moved == Len(order) - Len(queue)

(* The value at k has left the queue and the loop. *)
Past(k) == k <= Moved /\ (loop.pc = "send" => k # Moved)

(* The queue is the end of what was enqueued, the hand comes before it. *)
QueueIsEnd ==
  /\ Moved \in Nat
  /\ \A i \in DOMAIN queue : queue[i] = order[Moved + i]
  /\ loop.pc = "send" => Moved > 0 /\ loop.val = order[Moved]
  /\ \A k, l \in DOMAIN order : order[k] = order[l] => k = l

(* What is past is in one place, and nothing else is there. *)
PastPlaced ==
  /\ taken \cap lost = {}
  /\ taken \cup lost \subseteq ToSet(order)
  /\ \A i \in DOMAIN Sent : Sent[i] \notin taken \cup lost
  /\ \A k \in DOMAIN order :
       /\ order[k] \in taken \cup lost => Past(k)
       /\ \A i \in DOMAIN Sent : Sent[i] = order[k] => Past(k)
       /\ Past(k) => \/ order[k] \in taken \cup lost
                     \/ \E i \in DOMAIN Sent : Sent[i] = order[k]

(* The value of a call is nobody else's, and was not seen before. *)
Fresh ==
  /\ \A c \in Clients :
       /\ cl[c].pc = "idle" => cl[c].val = None
       /\ cl[c].pc # "idle" /\ cl[c].op \notin {"dequeue", "close"} =>
            cl[c].val \in Values
       /\ cl[c].pc = "send" => cl[c].op \in {"send", "sendForever"}
       /\ cl[c].val # None => cl[c].val \notin ToSet(order) \cup ToSet(Sent)
  /\ \A c, d \in Clients : cl[c].val = cl[d].val /\ cl[c].val # None => c = d

(* Who waits has emptied the channel. *)
Waiting == user = "waiting" => buf = <<>>

ValuesKept == QueueIsEnd /\ PastPlaced /\ Fresh /\ Waiting /\ InOrder

IInv == TypeOK /\ LockHeld /\ ValuesKept

CallType == [pc : CallPC, op : Op, val : Values \cup {None}]

-----------------------------------------------------------------------------
LEMMA InitIInv == Init => IInv
<1> SUFFICES ASSUME Init PROVE IInv
  OBVIOUS
<1>1. TypeOK
  <2>1. cl \in [Clients -> CallType] /\ loop \in [pc : LoopPC, val : Values \cup {None}]
    BY DEF Init, NoCall, LoopPC, CallType, CallPC, Op
  <2>2. <<>> \in Seq(Values)
    OBVIOUS
  <2>3. QED
    BY <2>1, <2>2 DEF Init, TypeOK, CallType
<1>2. LockHeld
  BY ChanAssumption DEF Init, LockHeld, NoCall
<1>3. ValuesKept
  BY DEF Init, ValuesKept, QueueIsEnd, PastPlaced, Fresh, Waiting, InOrder,
         NoCall, Moved, Sent, ToSet
<1>4. QED
  BY <1>1, <1>2, <1>3 DEF IInv

-----------------------------------------------------------------------------
(* The mutex.                                                              *)

(* One call goes on, or returns. *)
LEMMA ClMoves ==
  ASSUME TypeOK, NEW c \in Clients, NEW pc \in CallPC, ClTo(c, pc)
  PROVE  /\ cl' \in [Clients -> CallType]
         /\ \A d \in Clients \ {c} : cl'[d] = cl[d]
         /\ cl'[c].pc = pc /\ cl'[c].op = cl[c].op /\ cl'[c].val = cl[c].val
<1>1. cl \in [Clients -> CallType]
  BY DEF TypeOK, CallType
<1>2. [cl[c] EXCEPT !.pc = pc] \in CallType
  BY <1>1 DEF CallType
<1>3. cl' = [cl EXCEPT ![c] = [cl[c] EXCEPT !.pc = pc]]
  BY <1>1 DEF ClTo
<1>4. QED
  BY <1>1, <1>2, <1>3 DEF CallType

LEMMA ClReturns ==
  ASSUME TypeOK, NEW c \in Clients, Return(c)
  PROVE  /\ cl' \in [Clients -> CallType]
         /\ \A d \in Clients \ {c} : cl'[d] = cl[d]
         /\ cl'[c].pc = "idle" /\ cl'[c].val = None
<1>1. cl \in [Clients -> CallType] /\ cl' = [cl EXCEPT ![c] = NoCall]
  BY DEF TypeOK, CallType, Return
<1>2. NoCall \in CallType
  BY DEF NoCall, CallType, CallPC, Op
<1>3. QED
  BY <1>1, <1>2 DEF NoCall

LEMMA LoopLocks ==
  ASSUME TypeOK, LockHeld, LoopStep
  PROVE  LockHeld'
<1>1. /\ Loop \notin Clients \cup {None} /\ None \notin Clients
      /\ cl' = cl /\ closed' = closed
  BY ChanAssumption
  DEF LoopStep, LoopRuns, LoopTop, LoopSend, LoopTimeout, LoopWake, LoopLock
<1>2. /\ open' = open /\ readers' = readers
      /\ \/ writer' = writer /\ loop.pc # "send" /\ loop'.pc # "send"
         \/ /\ loop.pc = "send" /\ loop'.pc # "send" /\ writer' = None
         \/ /\ loop'.pc = "send" /\ writer' = Loop /\ writer = None
            /\ readers = {} /\ ~closed
  BY DEF LoopStep, LoopRuns, LoopTop, LoopSend, LoopTimeout, LoopWake, LoopLock,
         LoopTo, Deliver, SeesClosed, channel, mutex
<1>3. QED
  BY <1>1, <1>2 DEF LockHeld

LEMMA CallLocks ==
  ASSUME TypeOK, LockHeld, NEW c \in Clients,
         Offer(c) \/ Ask(c) \/ Locked(c) \/ Ending(c)
  PROVE  LockHeld'
<1>1. /\ Loop \notin Clients \cup {None} /\ None \notin Clients
      /\ loop' = loop
  BY ChanAssumption
  DEF Offer, Ask, Call, Locked, TurnedAway, Enqueue, Dequeue, CloseFlag,
      ReadLock, Ending, CloseChannel, Send, SendTimeout
<1>2. CASE Offer(c) \/ Ask(c)
  <2>1. /\ cl[c].pc = "idle" /\ cl'[c].pc = "lock"
        /\ \A d \in Clients \ {c} : cl'[d] = cl[d]
        /\ UNCHANGED <<closed, writer, readers, open>>
    BY <1>2 DEF Offer, Ask, Call, TypeOK, mutex, channel
  <2>2. QED
    BY <1>1, <2>1 DEF LockHeld
<1>3. CASE TurnedAway(c) \/ Enqueue(c) \/ Dequeue(c)
  <2>1. /\ cl[c].pc = "lock" /\ Return(c)
        /\ UNCHANGED <<closed, writer, readers, open>>
    BY <1>3 DEF TurnedAway, Enqueue, Dequeue, Locks, mutex, channel
  <2>2. QED
    BY <1>1, <2>1, ClReturns DEF LockHeld
<1>4. CASE CloseFlag(c)
  <2>1. /\ cl[c].pc = "lock" /\ ClTo(c, "close") /\ writer = None /\ readers = {}
        /\ ~closed /\ closed' = TRUE /\ writer' = c /\ UNCHANGED <<readers, open>>
    BY <1>4 DEF CloseFlag, Locks, ClosedMeanwhile, channel
  <2>2. cl'[c].pc = "close" /\ \A d \in Clients \ {c} : cl'[d] = cl[d]
    BY <2>1, ClMoves DEF CallPC
  <2>3. QED
    BY <1>1, <2>1, <2>2 DEF LockHeld
<1>5. CASE ReadLock(c)
  <2>1. /\ cl[c].pc = "lock" /\ ClTo(c, "send") /\ writer = None
        /\ readers' = readers \cup {c} /\ ~closed
        /\ UNCHANGED <<closed, writer, open>>
    BY <1>5 DEF ReadLock, ClosedMeanwhile, channel
  <2>2. cl'[c].pc = "send" /\ \A d \in Clients \ {c} : cl'[d] = cl[d]
    BY <2>1, ClMoves DEF CallPC
  <2>3. QED
    BY <1>1, <2>1, <2>2 DEF LockHeld
<1>6. CASE CloseChannel(c)
  <2>1. /\ cl[c].pc = "close" /\ Return(c) /\ writer' = None
        /\ UNCHANGED <<closed, readers>>
    BY <1>6 DEF CloseChannel
  <2>2. QED
    BY <1>1, <2>1, ClReturns DEF LockHeld
<1>7. CASE Send(c) \/ SendTimeout(c)
  <2>1. /\ cl[c].pc = "send" /\ Return(c) /\ readers' = readers \ {c}
        /\ UNCHANGED <<closed, writer, open>>
    BY <1>7 DEF Send, SendTimeout, Deliver, channel
  <2>2. QED
    BY <1>1, <2>1, ClReturns DEF LockHeld
<1>8. QED
  BY <1>2, <1>3, <1>4, <1>5, <1>6, <1>7 DEF Locked, Ending

-----------------------------------------------------------------------------
(* Types.                                                                  *)

ChannelTyped ==
  /\ buf \in Seq(Values) /\ received \in Seq(Values)
  /\ user \in {"busy", "waiting", "over"}

LEMMA DeliverTypes ==
  ASSUME TypeOK, NEW v \in Values, Deliver(v)
  PROVE  ChannelTyped' /\ open' = open
<1>1. Append(received, v) \in Seq(Values) /\ Append(buf, v) \in Seq(Values)
  BY AppendProperties DEF TypeOK
<1>2. QED
  BY <1>1 DEF TypeOK, ChannelTyped, Deliver

LEMMA LoopTypes ==
  ASSUME TypeOK, LockHeld, ValuesKept, LoopStep
  PROVE  TypeOK'
<1>1. /\ cl' = cl /\ closed' = closed /\ order' = order /\ taken' = taken
      /\ readers' = readers
  BY DEF LoopStep, LoopRuns, LoopTop, LoopSend, LoopTimeout, LoopWake, LoopLock,
         channel, mutex, history
<1>2. queue # <<>> => /\ Head(queue) \in Values /\ Tail(queue) \in Seq(Values)
  BY HeadTailProperties DEF TypeOK
<1>3. loop.pc = "send" => loop.val \in Values
  <2>1. ASSUME loop.pc = "send" PROVE Moved \in DOMAIN order
    BY <2>1, LenProperties DEF ValuesKept, QueueIsEnd, TypeOK, Moved
  <2>2. QED
    BY <2>1 DEF ValuesKept, QueueIsEnd, TypeOK
<1>4. ChannelTyped' /\ open' \in BOOLEAN
  BY <1>3, DeliverTypes
  DEF LoopStep, LoopRuns, LoopTop, LoopSend, LoopTimeout, LoopWake, LoopLock,
      ChannelTyped, TypeOK, channel
<1>5. queue' \in Seq(Values) /\ loop' \in [pc : LoopPC, val : Values \cup {None}]
  <2>1. CASE LoopTop \/ LoopSend \/ LoopTimeout \/ LoopWake
    BY <2>1 DEF LoopTop, LoopSend, LoopTimeout, LoopWake, LoopTo, LoopPC, TypeOK
  <2>2. CASE LoopLock /\ LoopTo("sleep", None)
    BY <2>2 DEF LoopLock, LoopTo, LoopPC, TypeOK
  <2>3. CASE queue # <<>> /\ LoopTo("send", Head(queue)) /\ queue' = Rest
    BY <1>2, <2>3 DEF LoopTo, LoopPC, Rest
  <2>4. QED
    BY <2>1, <2>2, <2>3 DEF LoopStep, LoopRuns, LoopLock, LoopTo, TypeOK
<1>6. lost' \subseteq Values /\ writer' \in Clients \cup {Loop, None}
  BY <1>3
  DEF LoopStep, LoopRuns, LoopTop, LoopSend, LoopTimeout, LoopWake, LoopLock,
      TypeOK, history, mutex
<1>7. QED
  BY <1>1, <1>4, <1>5, <1>6 DEF TypeOK, ChannelTyped

LEMMA CallTypes ==
  ASSUME TypeOK, LockHeld, ValuesKept, NEW c \in Clients,
         Offer(c) \/ Ask(c) \/ Locked(c) \/ Ending(c)
  PROVE  TypeOK'
<1>1. loop' = loop /\ lost' = lost
  BY DEF Offer, Ask, Call, Locked, TurnedAway, Enqueue, Dequeue, CloseFlag,
         ReadLock, Ending, CloseChannel, Send, SendTimeout, history
<1>2. cl' \in [Clients -> CallType]
  <2>1. CASE Offer(c) \/ Ask(c)
    <3>1. PICK op \in Op, v \in Values \cup {None} : Call(c, op, v)
      BY <2>1, ChanAssumption DEF Offer, Ask
    <3>2. [pc |-> "lock", op |-> op, val |-> v] \in CallType
      BY DEF CallType, CallPC
    <3>3. QED
      BY <3>1, <3>2 DEF Call, TypeOK, CallType
  <2>2. CASE CloseFlag(c) \/ ReadLock(c)
    BY <2>2, ClMoves DEF CloseFlag, ReadLock, CallPC
  <2>3. CASE Return(c)
    BY <2>3, ClReturns
  <2>4. QED
    BY <2>1, <2>2, <2>3
    DEF Locked, TurnedAway, Enqueue, Dequeue, Ending, CloseChannel, Send,
        SendTimeout
<1>3. (cl[c].pc = "lock" /\ cl[c].op = "enqueue") \/ cl[c].pc = "send"
        => cl[c].val \in Values
  BY DEF ValuesKept, Fresh
<1>4. ChannelTyped' /\ open' \in BOOLEAN
  BY <1>3, DeliverTypes
  DEF Offer, Ask, Call, Locked, TurnedAway, Enqueue, Dequeue, CloseFlag,
      ReadLock, Ending, CloseChannel, Send, SendTimeout, ChannelTyped, TypeOK,
      channel
<1>5. /\ queue' \in Seq(Values) /\ order' \in Seq(Values) /\ taken' \subseteq Values
  <2>1. CASE Enqueue(c)
    <3>1. cl[c].val \in Values
      BY <1>3, <2>1 DEF Enqueue, Locks
    <3>2. /\ Append(queue, cl[c].val) \in Seq(Values)
          /\ Append(order, cl[c].val) \in Seq(Values)
      BY <3>1, AppendProperties DEF TypeOK
    <3>3. QED
      BY <2>1, <3>2 DEF Enqueue, AtEnd, TypeOK
  <2>2. CASE Dequeue(c)
    <3>1. queue # <<>> => Head(queue) \in Values /\ Tail(queue) \in Seq(Values)
      BY HeadTailProperties DEF TypeOK
    <3>2. QED
      BY <2>2, <3>1 DEF Dequeue, Rest, TypeOK
  <2>3. CASE UNCHANGED <<queue, order, taken>>
    BY <2>3 DEF TypeOK
  <2>4. QED
    BY <2>1, <2>2, <2>3
    DEF Offer, Ask, Call, Locked, TurnedAway, CloseFlag, ReadLock, Ending,
        CloseChannel, Send, SendTimeout, history
<1>6. /\ closed' \in BOOLEAN /\ writer' \in Clients \cup {Loop, None}
      /\ readers' \subseteq Clients
  BY DEF Offer, Ask, Call, Locked, TurnedAway, Enqueue, Dequeue, CloseFlag,
         ReadLock, Ending, CloseChannel, Send, SendTimeout, TypeOK, mutex
<1>7. QED
  BY <1>1, <1>2, <1>4, <1>5, <1>6 DEF TypeOK, ChannelTyped, CallType

-----------------------------------------------------------------------------
(* The values.                                                             *)

SentGets(v) ==
  /\ Len(Sent') = Len(Sent) + 1
  /\ \A i \in 1..Len(Sent) : Sent'[i] = Sent[i]
  /\ Sent'[Len(Sent) + 1] = v

LEMMA SentTyped ==
  ASSUME TypeOK
  PROVE  /\ Sent \in Seq(Values) /\ DOMAIN Sent = 1..Len(Sent) /\ Len(Sent) \in Nat
         /\ DOMAIN order = 1..Len(order) /\ Len(order) \in Nat
         /\ DOMAIN queue = 1..Len(queue) /\ Len(queue) \in Nat
BY ConcatProperties, LenProperties DEF TypeOK, Sent

LEMMA DeliverSends ==
  ASSUME TypeOK, Waiting, NEW v \in Values, Deliver(v)
  PROVE  SentGets(v) /\ Waiting'
<1>1. received \in Seq(Values) /\ buf \in Seq(Values)
  BY DEF TypeOK
<1>2. CASE user = "waiting"
  <2>1. buf = <<>> /\ buf' = buf /\ received' = Append(received, v) /\ user' = "busy"
    BY <1>2 DEF Waiting, Deliver
  <2>2. received' \in Seq(Values)
    BY <1>1, <2>1, AppendProperties
  <2>3. Sent = received /\ Sent' = received'
    BY <1>1, <2>1, <2>2, ConcatEmptySeq DEF Sent
  <2>4. QED
    BY <1>1, <2>1, <2>3, AppendProperties DEF SentGets, Waiting
<1>3. CASE user # "waiting"
  <2>1. buf' = Append(buf, v) /\ received' = received /\ user' = user
    BY <1>3 DEF Deliver
  <2>2. /\ buf' \in Seq(Values) /\ Len(buf') = Len(buf) + 1
        /\ \A i \in 1..Len(buf) : buf'[i] = buf[i]
        /\ buf'[Len(buf) + 1] = v
    BY <1>1, <2>1, AppendProperties
  <2>3. /\ Len(Sent) = Len(received) + Len(buf)
        /\ Len(Sent') = Len(received) + Len(buf) + 1
        /\ Len(received) \in Nat /\ Len(buf) \in Nat
    BY <1>1, <2>1, <2>2, ConcatProperties, LenProperties DEF Sent
  <2>4. \A i \in 1..Len(received) + Len(buf) :
          Sent[i] = IF i <= Len(received) THEN received[i] ELSE buf[i - Len(received)]
    BY <1>1, ConcatProperties DEF Sent
  <2>5. \A i \in 1..Len(received) + Len(buf) + 1 :
          Sent'[i] = IF i <= Len(received) THEN received[i] ELSE buf'[i - Len(received)]
    <3>1. \A i \in 1..Len(received) + Len(buf') :
            (received \o buf')[i] =
              IF i <= Len(received) THEN received[i] ELSE buf'[i - Len(received)]
      BY <1>1, <2>2, ConcatProperties
    <3>2. Sent' = received \o buf' /\ Len(received) + Len(buf') = Len(received) + Len(buf) + 1
      BY <2>1, <2>2, <2>3 DEF Sent
    <3>3. QED
      BY <3>1, <3>2
  <2>6. ASSUME NEW i \in 1..Len(Sent) PROVE Sent'[i] = Sent[i]
    <3>1. i > Len(received) => i - Len(received) \in 1..Len(buf)
      BY <2>3
    <3>2. QED
      BY <2>2, <2>3, <2>4, <2>5, <3>1
  <2>7. Sent'[Len(Sent) + 1] = v
    BY <2>2, <2>3, <2>5
  <2>8. QED
    BY <1>3, <2>1, <2>3, <2>6, <2>7 DEF SentGets, Waiting
<1>4. QED
  BY <1>2, <1>3

LEMMA ReceiveKeeps ==
  ASSUME TypeOK, Waiting, Receive
  PROVE  Sent' = Sent /\ Waiting' /\ ChannelTyped'
<1>1. received \in Seq(Values) /\ buf \in Seq(Values)
  BY DEF TypeOK
<1>2. CASE buf = <<>>
  BY <1>1, <1>2 DEF Receive, Sent, Waiting, ChannelTyped
<1>3. CASE buf # <<>>
  <2>1. /\ received' = Append(received, Head(buf)) /\ buf' = Tail(buf)
        /\ user' = user /\ user = "busy"
    BY <1>3 DEF Receive
  <2>2. /\ Head(buf) \in Values /\ Tail(buf) \in Seq(Values)
        /\ buf = <<Head(buf)>> \o Tail(buf)
    BY <1>1, <1>3, HeadTailProperties
  <2>3. <<Head(buf)>> \in Seq(Values) /\ received' = received \o <<Head(buf)>>
    BY <1>1, <2>1, <2>2
  <2>4. (received \o <<Head(buf)>>) \o Tail(buf) = received \o (<<Head(buf)>> \o Tail(buf))
    BY <1>1, <2>2, <2>3, ConcatAssociative
  <2>5. Sent' = Sent
    BY <2>1, <2>2, <2>3, <2>4 DEF Sent
  <2>6. QED
    BY <1>1, <2>1, <2>2, <2>5, AppendProperties DEF Waiting, ChannelTyped
<1>4. QED
  BY <1>2, <1>3

(* A step that moves no value. *)
LEMMA ValuesStay ==
  ASSUME ValuesKept, UNCHANGED <<queue, order, taken, lost>>, Sent' = Sent,
         loop' = loop \/ (loop.pc # "send" /\ loop'.pc # "send")
  PROVE  QueueIsEnd' /\ PastPlaced' /\ InOrder'
BY DEF ValuesKept, QueueIsEnd, PastPlaced, InOrder, Moved, Past, ToSet

(* The loop takes a value from the queue. *)
LEMMA LoopTakes ==
  ASSUME TypeOK, ValuesKept, UNCHANGED <<order, taken, lost>>, Sent' = Sent,
         queue # <<>>, queue' = Tail(queue), loop.pc # "send",
         loop'.pc = "send", loop'.val = Head(queue)
  PROVE  QueueIsEnd' /\ PastPlaced' /\ InOrder'
<1>1. /\ Len(queue') = Len(queue) - 1 /\ DOMAIN queue' = 1..Len(queue')
      /\ \A i \in 1..Len(queue') : queue'[i] = queue[i + 1]
      /\ Head(queue) = queue[1] /\ Len(queue) > 0
  BY HeadTailProperties, LenProperties DEF TypeOK
<1>2. Moved' = Moved + 1 /\ Moved \in Nat
  BY <1>1, SentTyped DEF Moved, ValuesKept, QueueIsEnd
<1>3. QueueIsEnd'
  <2>1. \A i \in DOMAIN queue' : queue'[i] = order[Moved + 1 + i]
    BY <1>1, <1>2, SentTyped DEF ValuesKept, QueueIsEnd
  <2>2. loop'.val = order[Moved + 1]
    BY <1>1, SentTyped DEF ValuesKept, QueueIsEnd
  <2>3. QED
    BY <1>2, <2>1, <2>2 DEF ValuesKept, QueueIsEnd
<1>4. \A k \in DOMAIN order : Past(k)' <=> Past(k)
  BY <1>2, SentTyped DEF Past
<1>5. QED
  BY <1>3, <1>4 DEF ValuesKept, PastPlaced, InOrder, ToSet

(* A value arrives in the channel from the loop. *)
LEMMA LoopSends ==
  ASSUME TypeOK, ValuesKept, UNCHANGED <<queue, order, taken, lost>>,
         loop.pc = "send", loop'.pc # "send", SentGets(loop.val)
  PROVE  QueueIsEnd' /\ PastPlaced' /\ InOrder'
<1>1. /\ Moved \in Nat /\ Moved' = Moved /\ Moved \in DOMAIN order
      /\ loop.val = order[Moved]
  BY SentTyped DEF ValuesKept, QueueIsEnd, Moved
<1>2. QueueIsEnd'
  BY <1>1 DEF ValuesKept, QueueIsEnd
<1>3. \A k \in DOMAIN order : Past(k)' <=> (Past(k) \/ k = Moved)
  BY <1>1, SentTyped DEF Past
<1>4. DOMAIN Sent' = 1..Len(Sent) + 1
  BY SentTyped DEF SentGets
<1>5. ~Past(Moved)
  BY DEF Past
<1>6. /\ order[Moved] \notin taken \cup lost
      /\ \A i \in DOMAIN Sent : Sent[i] # order[Moved]
  BY <1>1, <1>5 DEF ValuesKept, PastPlaced
<1>7. \A k \in DOMAIN order : order[k] = order[Moved] => k = Moved
  BY <1>1 DEF ValuesKept, QueueIsEnd
<1>8. InOrder'
  <2>1. ASSUME NEW i \in DOMAIN Sent', NEW j \in DOMAIN Sent',
               NEW k \in DOMAIN order, NEW l \in DOMAIN order,
               i < j, Sent'[i] = order[k], Sent'[j] = order[l]
        PROVE  k < l
    <3>1. i \in DOMAIN Sent /\ Sent'[i] = Sent[i]
      BY <1>4, <2>1, SentTyped DEF SentGets
    <3>2. CASE j \in DOMAIN Sent
      BY <2>1, <3>1, <3>2, SentTyped DEF SentGets, ValuesKept, InOrder
    <3>3. CASE j \notin DOMAIN Sent
      <4>1. l = Moved
        BY <1>1, <1>5, <1>7, <2>1, <3>3, SentTyped DEF SentGets
      <4>2. Past(k)
        BY <2>1, <3>1 DEF ValuesKept, PastPlaced
      <4>3. QED
        BY <1>1, <4>1, <4>2, SentTyped DEF Past
    <3>4. QED
      BY <3>2, <3>3
  <2>2. QED
    BY <2>1 DEF InOrder
<1>9. PastPlaced'
  <2>1. \A i \in DOMAIN Sent' : Sent'[i] = order[Moved] \/ (i \in DOMAIN Sent /\ Sent'[i] = Sent[i])
    BY <1>1, <1>4, SentTyped DEF SentGets
  <2>2. \A i \in DOMAIN Sent : i \in DOMAIN Sent' /\ Sent'[i] = Sent[i]
    BY <1>4, SentTyped DEF SentGets
  <2>3. \E i \in DOMAIN Sent' : Sent'[i] = order[Moved]
    BY <1>1, <1>4, SentTyped DEF SentGets
  <2>4. \A i \in DOMAIN Sent' : Sent'[i] \notin taken \cup lost
    BY <1>6, <2>1 DEF ValuesKept, PastPlaced
  <2>5. ASSUME NEW k \in DOMAIN order
        PROVE  /\ order[k] \in taken \cup lost => Past(k)'
               /\ \A i \in DOMAIN Sent' : Sent'[i] = order[k] => Past(k)'
               /\ Past(k)' => \/ order[k] \in taken \cup lost
                              \/ \E i \in DOMAIN Sent' : Sent'[i] = order[k]
    BY <1>3, <1>7, <2>1, <2>2, <2>3 DEF ValuesKept, PastPlaced
  <2>6. QED
    BY <2>4, <2>5 DEF ValuesKept, PastPlaced
<1>10. QED
  BY <1>2, <1>8, <1>9

(* A value is taken by a Dequeue, or lost by the loop. *)
LEMMA Dropped ==
  ASSUME TypeOK, ValuesKept, order' = order, Sent' = Sent, loop'.pc # "send",
         NEW k \in DOMAIN order, ~Past(k), queue' \in Seq(Values),
         taken' \cup lost' = taken \cup lost \cup {order[k]}, taken' \cap lost' = {},
         QueueIsEnd', \A l \in DOMAIN order : Past(l)' <=> (Past(l) \/ l = k)
  PROVE  PastPlaced' /\ InOrder'
<1>1. InOrder'
  BY DEF ValuesKept, InOrder
<1>2. \A l \in DOMAIN order : order[l] = order[k] => l = k
  BY DEF ValuesKept, QueueIsEnd
<1>3. \A i \in DOMAIN Sent : Sent[i] # order[k]
  BY DEF ValuesKept, PastPlaced
<1>4. taken' \cup lost' \subseteq ToSet(order)
  BY DEF ValuesKept, PastPlaced, ToSet
<1>5. QED
  BY <1>1, <1>2, <1>3, <1>4 DEF ValuesKept, PastPlaced

LEMMA LoopLoses ==
  ASSUME TypeOK, ValuesKept, UNCHANGED <<queue, order, taken>>, Sent' = Sent,
         loop.pc = "send", loop'.pc # "send", lost' = lost \cup {loop.val}
  PROVE  QueueIsEnd' /\ PastPlaced' /\ InOrder'
<1>1. /\ Moved \in Nat /\ Moved' = Moved /\ Moved \in DOMAIN order
      /\ loop.val = order[Moved]
  BY SentTyped DEF ValuesKept, QueueIsEnd, Moved
<1>2. QueueIsEnd'
  BY <1>1 DEF ValuesKept, QueueIsEnd
<1>3. \A k \in DOMAIN order : Past(k)' <=> (Past(k) \/ k = Moved)
  BY <1>1, SentTyped DEF Past
<1>4. ~Past(Moved)
  BY DEF Past
<1>5. taken' \cap lost' = {}
  BY <1>1, <1>4 DEF ValuesKept, PastPlaced
<1>6. QED
  BY <1>1, <1>2, <1>3, <1>4, <1>5, Dropped DEF TypeOK

LEMMA DequeueTakes ==
  ASSUME TypeOK, ValuesKept, UNCHANGED <<order, lost, loop>>, Sent' = Sent,
         queue # <<>>, queue' = Tail(queue), loop.pc # "send",
         taken' = taken \cup {Head(queue)}
  PROVE  QueueIsEnd' /\ PastPlaced' /\ InOrder'
<1>1. /\ Len(queue') = Len(queue) - 1 /\ DOMAIN queue' = 1..Len(queue')
      /\ \A i \in 1..Len(queue') : queue'[i] = queue[i + 1]
      /\ Head(queue) = queue[1] /\ Len(queue) > 0 /\ queue' \in Seq(Values)
  BY HeadTailProperties, LenProperties DEF TypeOK
<1>2. /\ Moved' = Moved + 1 /\ Moved \in Nat /\ Moved + 1 \in DOMAIN order
      /\ Head(queue) = order[Moved + 1]
  BY <1>1, SentTyped DEF Moved, ValuesKept, QueueIsEnd
<1>3. QueueIsEnd'
  <2>1. \A i \in DOMAIN queue' : queue'[i] = order[Moved + 1 + i]
    BY <1>1, <1>2, SentTyped DEF ValuesKept, QueueIsEnd
  <2>2. QED
    BY <1>2, <2>1 DEF ValuesKept, QueueIsEnd
<1>4. \A k \in DOMAIN order : Past(k)' <=> (Past(k) \/ k = Moved + 1)
  BY <1>2, SentTyped DEF Past
<1>5. ~Past(Moved + 1)
  BY <1>2 DEF Past
<1>6. taken' \cap lost' = {}
  BY <1>2, <1>5 DEF ValuesKept, PastPlaced
<1>7. QED
  BY <1>1, <1>2, <1>3, <1>4, <1>5, <1>6, Dropped

LEMMA EnqueueAdds ==
  ASSUME TypeOK, ValuesKept, UNCHANGED <<taken, lost, loop>>, Sent' = Sent,
         NEW v \in Values, v \notin ToSet(order) \cup ToSet(Sent),
         queue' = Append(queue, v), order' = Append(order, v), loop.pc # "send"
  PROVE  QueueIsEnd' /\ PastPlaced' /\ InOrder'
<1>1. /\ Len(queue') = Len(queue) + 1 /\ DOMAIN queue' = 1..Len(queue) + 1
      /\ \A i \in 1..Len(queue) : queue'[i] = queue[i]
      /\ queue'[Len(queue) + 1] = v
      /\ Len(order') = Len(order) + 1 /\ DOMAIN order' = 1..Len(order) + 1
      /\ \A i \in 1..Len(order) : order'[i] = order[i]
      /\ order'[Len(order) + 1] = v
  BY AppendProperties, LenProperties DEF TypeOK
<1>2. Moved' = Moved /\ Moved \in Nat /\ Moved + Len(queue) = Len(order)
  BY <1>1, SentTyped DEF Moved, ValuesKept, QueueIsEnd
<1>3. QueueIsEnd'
  <2>1. ASSUME NEW i \in DOMAIN queue' PROVE queue'[i] = order'[Moved + i]
    <3>1. CASE i = Len(queue) + 1
      <4>1. PICK m \in Nat, n \in Nat : m = Moved /\ n = Len(queue)
        BY <1>2, SentTyped
      <4>2. m + n = Len(order) /\ i = n + 1
        BY <1>2, <3>1, <4>1
      <4>3. m + (n + 1) = (m + n) + 1
        OBVIOUS
      <4>4. m + i = Len(order) + 1
        BY <4>2, <4>3, Zenon
      <4>5. QED
        BY <1>1, <3>1, <4>1, <4>4
    <3>2. CASE i # Len(queue) + 1
      <4>1. i \in DOMAIN queue /\ Moved + i \in 1..Len(order)
        BY <1>1, <1>2, <3>2, SentTyped
      <4>2. QED
        BY <1>1, <4>1, SentTyped DEF ValuesKept, QueueIsEnd
    <3>3. QED
      BY <3>1, <3>2
  <2>2. ASSUME NEW k \in DOMAIN order', NEW l \in DOMAIN order', order'[k] = order'[l]
        PROVE  k = l
    BY <1>1, <2>2, SentTyped DEF ValuesKept, QueueIsEnd, ToSet
  <2>3. QED
    BY <1>2, <2>1, <2>2 DEF ValuesKept, QueueIsEnd
<1>4. ASSUME NEW k \in DOMAIN order'
      PROVE  /\ k \in DOMAIN order => order'[k] = order[k] /\ (Past(k)' <=> Past(k))
             /\ k \notin DOMAIN order => order'[k] = v /\ ~Past(k)'
  BY <1>1, <1>2, SentTyped DEF Past
<1>5. \A i \in DOMAIN Sent : Sent[i] # v
  BY DEF ToSet
<1>6. v \notin taken \cup lost /\ ToSet(order) \subseteq ToSet(order')
  BY <1>1, SentTyped DEF ValuesKept, PastPlaced, ToSet
<1>7. PastPlaced'
  BY <1>4, <1>5, <1>6 DEF ValuesKept, PastPlaced
<1>8. InOrder'
  BY <1>4, <1>5 DEF ValuesKept, InOrder
<1>9. QED
  BY <1>3, <1>7, <1>8

(* A value sent directly was never in the queue. *)
LEMMA SendAdds ==
  ASSUME TypeOK, ValuesKept, UNCHANGED <<queue, order, taken, lost, loop>>,
         NEW v \in Values, v \notin ToSet(order), SentGets(v)
  PROVE  QueueIsEnd' /\ PastPlaced' /\ InOrder'
<1>1. QueueIsEnd' /\ \A k \in DOMAIN order : order[k] # v /\ (Past(k)' <=> Past(k))
  BY DEF ValuesKept, QueueIsEnd, Moved, Past, ToSet
<1>2. /\ DOMAIN Sent' = 1..Len(Sent) + 1
      /\ \A i \in DOMAIN Sent' : Sent'[i] = v \/ (i \in DOMAIN Sent /\ Sent'[i] = Sent[i])
      /\ \A i \in DOMAIN Sent : i \in DOMAIN Sent' /\ Sent'[i] = Sent[i]
  BY SentTyped DEF SentGets
<1>3. v \notin taken \cup lost
  BY DEF ValuesKept, PastPlaced
<1>4. PastPlaced'
  BY <1>1, <1>2, <1>3 DEF ValuesKept, PastPlaced
<1>5. InOrder'
  <2>1. ASSUME NEW i \in DOMAIN Sent', NEW j \in DOMAIN Sent',
               NEW k \in DOMAIN order, NEW l \in DOMAIN order,
               i < j, Sent'[i] = order[k], Sent'[j] = order[l]
        PROVE  k < l
    <3>1. /\ i \in DOMAIN Sent /\ Sent'[i] = Sent[i]
          /\ j \in DOMAIN Sent /\ Sent'[j] = Sent[j]
      BY <1>1, <1>2, <2>1
    <3>2. QED
      BY <2>1, <3>1 DEF ValuesKept, InOrder
  <2>2. QED
    BY <2>1 DEF InOrder
<1>6. QED
  BY <1>1, <1>4, <1>5

-----------------------------------------------------------------------------
(* The values of the calls.                                                *)

(* Nobody calls, and nothing is new to the calls. *)
LEMMA FreshStays ==
  ASSUME Fresh, cl' = cl,
         \A c \in Clients : cl[c].val # None =>
           cl[c].val \notin ToSet(order') \cup ToSet(Sent')
  PROVE  Fresh'
BY DEF Fresh

LEMMA FreshGoesOn ==
  ASSUME Fresh, NEW c \in Clients, \A d \in Clients \ {c} : cl'[d] = cl[d],
         (cl'[c].val = None /\ cl'[c].pc = "idle")
           \/ /\ cl'[c].val = cl[c].val /\ cl'[c].op = cl[c].op
              /\ cl[c].pc # "idle" /\ cl'[c].pc # "idle"
              /\ cl'[c].pc = "send" => cl[c].op \in {"send", "sendForever"},
         \A d \in Clients : cl'[d].val # None =>
           cl'[d].val \notin ToSet(order') \cup ToSet(Sent')
  PROVE  Fresh'
BY DEF Fresh

(* The loop's value comes from the queue: it is new to no call. *)
LEMMA LoopFresh ==
  ASSUME TypeOK, ValuesKept, cl' = cl, order' = order,
         Sent' = Sent \/ (loop.pc = "send" /\ SentGets(loop.val))
  PROVE  Fresh'
<1>1. CASE Sent' = Sent
  BY <1>1, FreshStays DEF ValuesKept, Fresh
<1>2. CASE loop.pc = "send" /\ SentGets(loop.val)
  <2>1. loop.val \in ToSet(order)
    BY <1>2, SentTyped DEF ValuesKept, QueueIsEnd, ToSet, Moved
  <2>2. DOMAIN Sent' = 1..Len(Sent')
    BY <1>2, SentTyped DEF SentGets
  <2>3. ToSet(Sent') \subseteq ToSet(Sent) \cup ToSet(order)
    BY <1>2, <2>1, <2>2, SentTyped DEF SentGets, ToSet
  <2>4. QED
    BY <2>3, FreshStays DEF ValuesKept, Fresh
<1>3. QED
  BY <1>1, <1>2

-----------------------------------------------------------------------------
(* The steps.                                                              *)

LEMMA LoopIInv ==
  ASSUME IInv, LoopStep
  PROVE  IInv'
<1>1. TypeOK /\ LockHeld /\ ValuesKept /\ Waiting /\ TypeOK' /\ LockHeld'
  BY LoopTypes, LoopLocks DEF IInv, ValuesKept
<1>2. /\ cl' = cl /\ order' = order /\ taken' = taken
      /\ LoopSend \/ (received' = received /\ buf' = buf /\ user' = user)
  BY DEF LoopStep, LoopRuns, LoopTop, LoopSend, LoopTimeout, LoopWake, LoopLock,
         history, channel
<1>3. ASSUME received' = received, buf' = buf, user' = user
      PROVE  Sent' = Sent /\ Waiting'
  BY <1>1, <1>3 DEF Sent, Waiting
<1>4. CASE LoopSend
  <2>1. /\ loop.pc = "send" /\ loop'.pc # "send" /\ Deliver(loop.val)
        /\ UNCHANGED <<queue, order, taken, lost>>
    BY <1>4 DEF LoopSend, LoopTo, history
  <2>2. loop.val \in Values
    BY <1>1, <2>1, SentTyped DEF ValuesKept, QueueIsEnd, Moved, TypeOK
  <2>3. SentGets(loop.val) /\ Waiting'
    BY <1>1, <2>1, <2>2, DeliverSends
  <2>4. QED
    BY <1>1, <1>2, <2>1, <2>3, LoopSends, LoopFresh DEF IInv, ValuesKept
<1>5. CASE LoopTimeout
  <2>1. /\ loop.pc = "send" /\ loop'.pc # "send" /\ lost' = lost \cup {loop.val}
        /\ UNCHANGED <<queue, order, taken>> /\ Sent' = Sent /\ Waiting'
    BY <1>3, <1>5 DEF LoopTimeout, LoopTo, channel
  <2>2. QED
    BY <1>1, <1>2, <2>1, LoopLoses, LoopFresh DEF IInv, ValuesKept
<1>6. CASE queue # <<>> /\ LoopLock /\ loop'.pc = "send"
  <2>1. /\ queue # <<>> /\ queue' = Tail(queue) /\ loop.pc # "send"
        /\ loop'.pc = "send" /\ loop'.val = Head(queue)
        /\ UNCHANGED <<order, taken, lost>> /\ Sent' = Sent /\ Waiting'
    BY <1>3, <1>6 DEF LoopLock, LoopTo, Rest, history, channel
  <2>2. QED
    BY <1>1, <1>2, <2>1, LoopTakes, LoopFresh DEF IInv, ValuesKept
<1>7. CASE LoopTop \/ LoopWake \/ (LoopLock /\ loop'.pc # "send")
  <2>1. /\ loop.pc # "send" /\ loop'.pc # "send" /\ Sent' = Sent /\ Waiting'
        /\ UNCHANGED <<queue, order, taken, lost>>
    BY <1>3, <1>7
    DEF LoopTop, LoopWake, LoopLock, LoopTo, SeesClosed, history, channel
  <2>2. QED
    BY <1>1, <1>2, <2>1, ValuesStay, LoopFresh DEF IInv, ValuesKept
<1>8. QED
  BY <1>4, <1>5, <1>6, <1>7 DEF LoopStep, LoopRuns, LoopLock, LoopTo

LEMMA ReceiveIInv ==
  ASSUME IInv, Receive
  PROVE  IInv'
<1>1. /\ UNCHANGED <<queue, closed, open, mutex, history, loop, cl>>
      /\ Sent' = Sent /\ Waiting' /\ ChannelTyped'
  BY ReceiveKeeps DEF Receive, IInv, ValuesKept
<1>2. TypeOK'
  BY <1>1 DEF IInv, TypeOK, ChannelTyped, mutex, history
<1>3. LockHeld'
  BY <1>1 DEF IInv, LockHeld, mutex
<1>4. Fresh'
  BY <1>1 DEF IInv, ValuesKept, Fresh, history
<1>5. QED
  BY <1>1, <1>2, <1>3, <1>4, ValuesStay DEF IInv, ValuesKept, history

LEMMA CallIInv ==
  ASSUME IInv, NEW c \in Clients,
         Offer(c) \/ Ask(c) \/ Locked(c) \/ Ending(c)
  PROVE  IInv'
<1>1. TypeOK /\ LockHeld /\ ValuesKept /\ TypeOK' /\ LockHeld'
  BY CallTypes, CallLocks DEF IInv
<1>2. /\ loop' = loop /\ lost' = lost
      /\ Send(c) \/ (received' = received /\ buf' = buf)
  BY DEF Offer, Ask, Call, Locked, TurnedAway, Enqueue, Dequeue, CloseFlag,
         ReadLock, Ending, CloseChannel, Send, SendTimeout, history, channel
<1>3. (received' = received /\ buf' = buf) => Sent' = Sent
  BY DEF Sent
<1>5. Fresh /\ Waiting
  BY <1>1 DEF ValuesKept
<1>6. CASE Offer(c) \/ Ask(c)
  <2>1. PICK op \in Op, v \in Values \cup {None} :
          /\ Call(c, op, v)
          /\ v = None \/ v \in Values \ Used
          /\ op \in {"dequeue", "close"} \/ v \in Values
    BY <1>6, ChanAssumption DEF Offer, Ask
  <2>2. /\ cl[c].pc = "idle" /\ cl' = [cl EXCEPT ![c] = [pc |-> "lock", op |-> op, val |-> v]]
        /\ UNCHANGED <<queue, order, taken, lost, received, buf, user>>
    BY <2>1 DEF Call, history, channel
  <2>3. /\ cl'[c].pc = "lock" /\ cl'[c].op = op /\ cl'[c].val = v
        /\ \A d \in Clients \ {c} : cl'[d] = cl[d]
    BY <2>2, <1>1 DEF TypeOK
  <2>4. v # None => /\ v \notin ToSet(order) \cup ToSet(Sent)
                    /\ \A d \in Clients : cl[d].val # v
    <3>1. ToSet(Sent) \subseteq ToSet(received) \cup ToSet(buf)
      <4>1. received \in Seq(Values) /\ buf \in Seq(Values)
        BY <1>1 DEF TypeOK
      <4>2. ASSUME NEW i \in 1..Len(received) + Len(buf)
            PROVE  Sent[i] \in ToSet(received) \cup ToSet(buf)
        <5>1. CASE i <= Len(received)
          <6>1. Sent[i] = received[i] /\ i \in DOMAIN received
            BY <4>1, <5>1, ConcatProperties, LenProperties DEF Sent
          <6>2. QED
            BY <6>1 DEF ToSet
        <5>2. CASE i > Len(received)
          <6>1. Sent[i] = buf[i - Len(received)] /\ i - Len(received) \in DOMAIN buf
            BY <4>1, <5>2, ConcatProperties, LenProperties DEF Sent
          <6>2. QED
            BY <6>1 DEF ToSet
        <5>3. QED
          BY <4>1, <5>1, <5>2, LenProperties
      <4>3. DOMAIN Sent = 1..Len(received) + Len(buf)
        BY <4>1, ConcatProperties, LenProperties DEF Sent
      <4>4. QED
        BY <4>2, <4>3 DEF ToSet
    <3>2. QED
      BY <2>1, <3>1 DEF Used
  <2>5. Fresh'
    BY <1>3, <1>5, <2>1, <2>2, <2>3, <2>4 DEF Fresh
  <2>6. QED
    BY <1>1, <1>2, <1>3, <1>5, <2>2, <2>5, ValuesStay
    DEF IInv, ValuesKept, Waiting
<1>7. CASE Enqueue(c)
  <2>1. /\ cl[c].pc = "lock" /\ cl[c].op = "enqueue" /\ loop.pc # "send"
        /\ Return(c) /\ UNCHANGED <<taken, received, buf>>
        /\ queue' = Append(queue, cl[c].val) /\ order' = Append(order, cl[c].val)
    BY <1>1, <1>7, ChanAssumption
    DEF Enqueue, Locks, AtEnd, channel, LockHeld
  <2>2. cl[c].val \in Values /\ cl[c].val \notin ToSet(order) \cup ToSet(Sent)
    BY <1>5, <2>1, ChanAssumption DEF Fresh
  <2>3. QueueIsEnd' /\ PastPlaced' /\ InOrder'
    BY <1>1, <1>2, <1>3, <2>1, <2>2, EnqueueAdds
  <2>4. ToSet(order') \subseteq ToSet(order) \cup {cl[c].val}
    BY <1>1, <2>1, <2>2, AppendProperties, LenProperties, SentTyped DEF TypeOK, ToSet
  <2>5. /\ cl'[c].pc = "idle" /\ cl'[c].val = None
        /\ \A d \in Clients \ {c} : cl'[d] = cl[d]
    BY <1>1, <2>1, ClReturns
  <2>6. \A d \in Clients : cl'[d].val # None =>
          cl'[d].val \notin ToSet(order') \cup ToSet(Sent')
    BY <1>2, <1>3, <1>5, <2>1, <2>2, <2>4, <2>5 DEF Fresh
  <2>7. Fresh'
    BY <1>5, <2>5, <2>6, FreshGoesOn
  <2>8. QED
    BY <1>1, <1>5, <1>7, <2>1, <2>3, <2>7, <1>2, <1>3
    DEF IInv, ValuesKept, Waiting, Enqueue, channel
<1>8. CASE Dequeue(c)
  <2>1. /\ Return(c) /\ loop.pc # "send" /\ Sent' = Sent /\ Waiting'
        /\ order' = order
        /\ \/ UNCHANGED <<queue, taken>>
           \/ /\ queue # <<>> /\ queue' = Tail(queue)
              /\ taken' = taken \cup {Head(queue)}
    BY <1>1, <1>3, <1>5, <1>8, ChanAssumption
    DEF Dequeue, Locks, Rest, channel, LockHeld, Waiting
  <2>2. QueueIsEnd' /\ PastPlaced' /\ InOrder'
    BY <1>1, <1>2, <2>1, ValuesStay, DequeueTakes
  <2>3. Fresh'
    BY <1>1, <1>5, <2>1, ClReturns, FreshGoesOn DEF Fresh
  <2>4. QED
    BY <1>1, <2>1, <2>2, <2>3 DEF IInv, ValuesKept
<1>9. CASE Send(c)
  <2>1. /\ cl[c].pc = "send" /\ Deliver(cl[c].val) /\ Return(c)
        /\ UNCHANGED <<queue, order, taken, lost>>
    BY <1>9 DEF Send, history
  <2>2. /\ cl[c].val \in Values
        /\ cl[c].val \notin ToSet(order) \cup ToSet(Sent)
    BY <1>5, <2>1, ChanAssumption DEF Fresh
  <2>3. SentGets(cl[c].val) /\ Waiting'
    BY <1>1, <1>5, <2>1, <2>2, DeliverSends
  <2>4. QueueIsEnd' /\ PastPlaced' /\ InOrder'
    BY <1>1, <1>2, <2>1, <2>2, <2>3, SendAdds
  <2>5. ToSet(Sent') \subseteq ToSet(Sent) \cup {cl[c].val}
    BY <1>1, <2>3, SentTyped DEF SentGets, ToSet
  <2>6. /\ cl'[c].pc = "idle" /\ cl'[c].val = None
        /\ \A d \in Clients \ {c} : cl'[d] = cl[d]
    BY <1>1, <2>1, ClReturns
  <2>7. \A d \in Clients : cl'[d].val # None =>
          cl'[d].val \notin ToSet(order') \cup ToSet(Sent')
    BY <1>5, <2>1, <2>2, <2>5, <2>6 DEF Fresh
  <2>8. Fresh'
    BY <1>5, <2>6, <2>7, FreshGoesOn
  <2>9. QED
    BY <1>1, <2>3, <2>4, <2>8 DEF IInv, ValuesKept
<1>10. CASE CloseFlag(c) \/ ReadLock(c)
  <2>1. PICK pc \in {"close", "send"} :
          /\ ClTo(c, pc) /\ cl[c].pc = "lock"
          /\ pc = "send" => cl[c].op \in {"send", "sendForever"}
    BY <1>10 DEF CloseFlag, ReadLock, Locks
  <2>2. /\ UNCHANGED <<queue, order, taken, lost>> /\ Sent' = Sent /\ Waiting'
    BY <1>3, <1>5, <1>10 DEF CloseFlag, ReadLock, history, channel, Waiting
  <2>3. /\ cl'[c].pc = pc /\ cl'[c].op = cl[c].op /\ cl'[c].val = cl[c].val
        /\ \A d \in Clients \ {c} : cl'[d] = cl[d]
    BY <1>1, <2>1, ClMoves DEF CallPC
  <2>4. Fresh'
    BY <1>5, <2>1, <2>2, <2>3, FreshGoesOn DEF Fresh
  <2>5. QED
    BY <1>1, <1>2, <2>2, <2>4, ValuesStay DEF IInv, ValuesKept
<1>11. CASE TurnedAway(c) \/ CloseChannel(c) \/ SendTimeout(c)
  <2>1. /\ Return(c) /\ UNCHANGED <<queue, order, taken, lost>>
        /\ Sent' = Sent /\ Waiting'
    BY <1>3, <1>5, <1>11
    DEF TurnedAway, CloseChannel, SendTimeout, history, channel, Waiting
  <2>2. Fresh'
    BY <1>1, <1>5, <2>1, ClReturns, FreshGoesOn DEF Fresh
  <2>3. QED
    BY <1>1, <1>2, <2>1, <2>2, ValuesStay DEF IInv, ValuesKept
<1>12. QED
  BY <1>6, <1>7, <1>8, <1>9, <1>10, <1>11 DEF Locked, Ending

LEMMA NextIInv == IInv /\ [Next]_vars => IInv'
<1> SUFFICES ASSUME IInv, [Next]_vars PROVE IInv'
  OBVIOUS
<1>1. CASE UNCHANGED vars
  BY <1>1 DEF vars, channel, mutex, history, IInv, TypeOK, LockHeld, ValuesKept,
     QueueIsEnd, PastPlaced, Fresh, Waiting, InOrder, Moved, Past, Sent, ToSet
<1>2. QED
  BY <1>1, LoopIInv, ReceiveIInv, CallIInv DEF Next

-----------------------------------------------------------------------------
(* No send on the closed channel and no second close, whatever the order   *)
(* in which the callers and the loop get the mutex (closeable.go:59).      *)
THEOREM NeverPanics == Spec => []NoPanic
<1>1. IInv => NoPanic
  BY DEF IInv, LockHeld, NoPanic
<1>2. QED
  BY <1>1, InitIInv, NextIInv, PTL DEF Spec

(* The values that come through the queue keep the order of Enqueue.       *)
THEOREM OrderKept == Spec => []InOrder
<1>1. IInv => InOrder
  BY DEF IInv, ValuesKept
<1>2. QED
  BY <1>1, InitIInv, NextIInv, PTL DEF Spec

(* Every enqueued value is in exactly one place, for any number of values. *)
LEMMA OnePlaceEach ==
  ASSUME IInv, NEW v \in ToSet(order)
  PROVE  \E p \in Places(v) : Places(v) = {p}
<1> DEFINE inQueue == {n \in DOMAIN queue : queue[n] = v}
           inSent == {n \in DOMAIN Sent : Sent[n] = v}
           hand == loop.pc = "send" /\ loop.val = v
<1>1. PICK k \in DOMAIN order : order[k] = v
  BY DEF ToSet
<1>2. /\ TypeOK /\ QueueIsEnd /\ PastPlaced /\ InOrder /\ Moved \in Nat
      /\ Moved + Len(queue) = Len(order)
  BY SentTyped DEF IInv, ValuesKept, QueueIsEnd, Moved
<1>3. \A l \in DOMAIN order : order[l] = v => l = k
  BY <1>1, <1>2 DEF QueueIsEnd
<1>4. ASSUME NEW n \in inQueue PROVE n = k - Moved /\ k > Moved
  <2>1. Moved + n \in DOMAIN order /\ order[Moved + n] = v /\ n \in 1..Len(queue)
    BY <1>2, SentTyped DEF QueueIsEnd
  <2>2. Moved + n = k
    BY <1>3, <2>1
  <2>3. QED
    BY <1>2, <2>1, <2>2, SentTyped
<1>5. k > Moved => k - Moved \in inQueue
  <2>1. k > Moved => k - Moved \in 1..Len(queue) /\ Moved + (k - Moved) = k
    BY <1>2, SentTyped
  <2>2. QED
    BY <1>1, <1>2, <2>1, SentTyped DEF QueueIsEnd
<1>6. hand <=> loop.pc = "send" /\ k = Moved
  BY <1>1, <1>2, <1>3, SentTyped DEF QueueIsEnd
<1>7. Past(k) <=> (k <= Moved /\ ~hand)
  BY <1>6 DEF Past
<1>8. \A m, n \in inSent : m = n
  BY <1>1, <1>2, SentTyped DEF InOrder
<1>9. /\ v \in taken \/ v \in lost \/ inSent # {} <=> Past(k)
      /\ v \in taken => v \notin lost /\ inSent = {}
      /\ v \in lost => inSent = {}
  BY <1>1, <1>2 DEF PastPlaced
<1>10. CASE k > Moved
  <2>1. inQueue = {k - Moved} /\ inSent = {} /\ ~hand /\ v \notin taken \cup lost
    BY <1>2, <1>4, <1>5, <1>6, <1>7, <1>9, <1>10, SentTyped
  <2>2. Places(v) = {<<"queue", k - Moved>>}
    BY <2>1 DEF Places
  <2>3. QED
    BY <2>2
<1>11. CASE k <= Moved
  <2>1. inQueue = {}
    BY <1>2, <1>4, <1>11, SentTyped
  <2>2. CASE hand
    <3>1. inSent = {} /\ v \notin taken \cup lost
      BY <1>7, <1>9, <2>2
    <3>2. Places(v) = {<<"hand", 0>>}
      BY <2>1, <2>2, <3>1 DEF Places
    <3>3. QED
      BY <3>2
  <2>3. CASE ~hand /\ v \in taken
    <3>1. Places(v) = {<<"taken", 0>>}
      BY <1>9, <2>1, <2>3 DEF Places
    <3>2. QED
      BY <3>1
  <2>4. CASE ~hand /\ v \in lost
    <3>1. Places(v) = {<<"lost", 0>>}
      BY <1>9, <2>1, <2>4 DEF Places
    <3>2. QED
      BY <3>1
  <2>5. CASE ~hand /\ v \notin taken \cup lost
    <3>1. PICK n \in inSent : TRUE
      BY <1>7, <1>9, <1>11, <2>5
    <3>2. inSent = {n}
      BY <1>8, <3>1
    <3>3. Places(v) = {<<"channel", n>>}
      BY <2>1, <2>5, <3>2 DEF Places
    <3>4. QED
      BY <3>3
  <2>6. QED
    BY <2>2, <2>3, <2>4, <2>5
<1>12. QED
  BY <1>2, <1>10, <1>11, SentTyped

(* What an accepted value comes to: it is never in two places nor nowhere  *)
(* (closeable.go:104, 130).                                                *)
THEOREM ValuesAccounted == Spec => []Accounted
<1>1. IInv => Accounted
  BY OnePlaceEach DEF IInv, Accounted
<1>2. QED
  BY <1>1, InitIInv, NextIInv, PTL DEF Spec
=============================================================================
