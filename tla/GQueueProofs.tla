---------------------------- MODULE GQueueProofs ----------------------------
(***************************************************************************)
(* Proofs about GQueue: a task is always in exactly one place until it is  *)
(* settled, its handler is called at most MaxRetryOf(t) + 1 times, and     *)
(* every step is a step of TaskLifecycle.  And about its worker groups:    *)
(* the slots and the WaitGroup counters of a group are exactly its calls   *)
(* under way, so that no group runs more handlers than its share allows,   *)
(* whatever the number of watchers, and a Wait does not return before the  *)
(* calls it found.                                                         *)
(***************************************************************************)
EXTENDS GQueue, FiniteSetTheorems, TLAPS

(* A server that was not started has neither loop nor watcher. *)
NotStarted == \A s \in Servers \ started : loop[s] = Off /\ watch[s] = Off

(* The number of calls is tied to the Retried field of the one live copy. *)
Counts == \A t \in Tasks :
            /\ retried[t] <= MaxRetryOf(t)
            /\ calls[t] <= retried[t] + 1
            /\ t \in Waiting \/ outcome[t] = "new" => calls[t] = retried[t]
            /\ t \in Running => calls[t] = retried[t] + 1

(* Places and counts; IInv is the inductive invariant. *)
Placed == OnePlace /\ NothingLost

IInv == TypeOK /\ Placed /\ NotStarted /\ Counts

-----------------------------------------------------------------------------
(* Sequences without repetition: what Append and Tail do to the elements.  *)

(* Appending x adds x to the elements. *)
LEMMA AppendElements ==
  ASSUME NEW S, NEW q \in Seq(S), NEW x \in S
  PROVE  /\ Append(q, x) \in Seq(S)
         /\ Elements(Append(q, x)) = Elements(q) \cup {x}
         /\ NoRepeats(q) /\ x \notin Elements(q) => NoRepeats(Append(q, x))
<1>1. /\ Append(q, x) \in Seq(S)
      /\ Len(q) \in Nat
      /\ Len(Append(q, x)) = Len(q) + 1
      /\ \A i \in 1..Len(q) : Append(q, x)[i] = q[i]
      /\ Append(q, x)[Len(q) + 1] = x
  OBVIOUS
<1>2. 1..(Len(q) + 1) = (1..Len(q)) \cup {Len(q) + 1}
  BY <1>1
<1>3. Elements(Append(q, x)) = Elements(q) \cup {x}
  BY <1>1, <1>2 DEF Elements
<1>4. ASSUME NoRepeats(q), x \notin Elements(q)
      PROVE  NoRepeats(Append(q, x))
  BY <1>1, <1>2, <1>4 DEF Elements, NoRepeats
<1>5. QED
  BY <1>1, <1>3, <1>4

(* Taking the head of a sequence without repetitions removes just it. *)
LEMMA TailElements ==
  ASSUME NEW S, NEW q \in Seq(S), q # <<>>, NoRepeats(q)
  PROVE  /\ Tail(q) \in Seq(S)
         /\ Head(q) \in S
         /\ Head(q) \in Elements(q)
         /\ Elements(Tail(q)) = Elements(q) \ {Head(q)}
         /\ NoRepeats(Tail(q))
<1>1. /\ Tail(q) \in Seq(S)
      /\ Len(q) \in Nat \ {0}
      /\ Head(q) = q[1]
      /\ Len(Tail(q)) = Len(q) - 1
      /\ \A i \in 1..(Len(q) - 1) : Tail(q)[i] = q[i + 1]
      /\ \A i \in 1..Len(q) : q[i] \in S
  OBVIOUS
<1>2. Head(q) \in S /\ Head(q) \in Elements(q)
  BY <1>1 DEF Elements
<1>3. Elements(Tail(q)) \subseteq Elements(q) \ {Head(q)}
  BY <1>1 DEF Elements, NoRepeats
<1>4. ASSUME NEW x \in Elements(q), x # Head(q)
      PROVE  x \in Elements(Tail(q))
  <2>1. PICK i \in 1..Len(q) : x = q[i]
    BY DEF Elements
  <2>2. i # 1 /\ i - 1 \in 1..(Len(q) - 1) /\ Tail(q)[i - 1] = q[i]
    BY <1>1, <1>4, <2>1
  <2>3. QED
    BY <1>1, <2>1, <2>2 DEF Elements
<1>5. NoRepeats(Tail(q))
  BY <1>1 DEF NoRepeats
<1>6. QED
  BY <1>1, <1>2, <1>3, <1>4, <1>5

-----------------------------------------------------------------------------
(* The hands that hold tasks: what one step of a loop, a watcher or a pool *)
(* goroutine does to them.                                                 *)

LEMMA LoopMoves ==
  ASSUME TypeOK, OnePlace, NEW s \in Servers, NEW p \in LoopPC,
         NEW x \in Tasks \cup {None}, LoopTo(s, p, x),
         p = "held" => x \in Tasks \ InLoop
  PROVE  /\ loop' \in [Servers -> [pc : LoopPC, task : Tasks \cup {None}]]
         /\ \A r \in Servers : loop'[r].pc = "held" => loop'[r].task \in Tasks
         /\ InLoop' = (IF s \in Holding THEN InLoop \ {loop[s].task} ELSE InLoop)
                        \cup (IF p = "held" THEN {x} ELSE {})
         /\ \A r, q \in Holding' : loop'[r].task = loop'[q].task => r = q
<1>1. loop' = [loop EXCEPT ![s] = [pc |-> p, task |-> x]]
  BY DEF LoopTo
<1>2. /\ loop' \in [Servers -> [pc : LoopPC, task : Tasks \cup {None}]]
      /\ loop'[s] = [pc |-> p, task |-> x]
      /\ \A r \in Servers \ {s} : loop'[r] = loop[r]
  BY <1>1 DEF TypeOK
<1>3. Holding' = (Holding \ {s}) \cup (IF p = "held" THEN {s} ELSE {})
  BY <1>2 DEF Holding
<1>4. \A r \in Holding \ {s} : s \in Holding => loop[r].task # loop[s].task
  BY DEF OnePlace, Holding
<1>5. InLoop' = (IF s \in Holding THEN InLoop \ {loop[s].task} ELSE InLoop)
                  \cup (IF p = "held" THEN {x} ELSE {})
  BY <1>2, <1>3, <1>4 DEF InLoop, Holding
<1>6. \A r, q \in Holding' : loop'[r].task = loop'[q].task => r = q
  BY <1>2, <1>3 DEF OnePlace, Holding, InLoop
<1>7. ASSUME NEW r \in Servers, loop'[r].pc = "held"
      PROVE  loop'[r].task \in Tasks
  <2>1. CASE r = s
    BY <1>2, <1>7, <2>1
  <2>2. CASE r # s
    BY <1>2, <1>7, <2>2 DEF TypeOK
  <2>3. QED
    BY <2>1, <2>2
<1>8. QED
  BY <1>2, <1>5, <1>6, <1>7

LEMMA WatchMoves ==
  ASSUME TypeOK, OnePlace, NEW s \in Servers, NEW p \in WatchPC,
         NEW x \in Tasks \cup {None}, WatchTo(s, p, x),
         p # "off",
         p # "recv" => /\ x \in Tasks
                       /\ (s \in Watching /\ x = watch[s].task) \/ x \notin InWatch
  PROVE  /\ watch' \in [Servers -> [pc : WatchPC, task : Tasks \cup {None}]]
         /\ \A r \in Servers : r \in Watching' => watch'[r].task \in Tasks
         /\ InWatch' = (IF s \in Watching THEN InWatch \ {watch[s].task} ELSE InWatch)
                         \cup (IF p # "recv" THEN {x} ELSE {})
         /\ \A r, q \in Watching' : watch'[r].task = watch'[q].task => r = q
<1>1. watch' = [watch EXCEPT ![s] = [pc |-> p, task |-> x]]
  BY DEF WatchTo
<1>2. /\ watch' \in [Servers -> [pc : WatchPC, task : Tasks \cup {None}]]
      /\ watch'[s] = [pc |-> p, task |-> x]
      /\ \A r \in Servers \ {s} : watch'[r] = watch[r]
  BY <1>1 DEF TypeOK
<1>3. Watching' = (Watching \ {s}) \cup (IF p # "recv" THEN {s} ELSE {})
  BY <1>2 DEF Watching, WatchPC
<1>4. \A r \in Watching \ {s} : s \in Watching => watch[r].task # watch[s].task
  BY DEF OnePlace, Watching
<1>5. InWatch' = (IF s \in Watching THEN InWatch \ {watch[s].task} ELSE InWatch)
                   \cup (IF p # "recv" THEN {x} ELSE {})
  BY <1>2, <1>3, <1>4 DEF InWatch, Watching
<1>6. \A r, q \in Watching' : watch'[r].task = watch'[q].task => r = q
  BY <1>2, <1>3, <1>4 DEF OnePlace, Watching, InWatch
<1>7. \A r \in Servers : r \in Watching' => watch'[r].task \in Tasks
  BY <1>2, <1>3 DEF TypeOK, Watching
<1>8. QED
  BY <1>2, <1>5, <1>6, <1>7

(* A pool goroutine that leaves the handler. *)
LEMMA RunLeaves ==
  ASSUME TypeOK, OnePlace, NEW e \in execs, e.pc = "run", ExecTo(e, "done")
  PROVE  /\ execs' \subseteq Exec
         /\ Running' = Running \ {e.task}
         /\ e.task \in Running
         /\ \A f, d \in RunningExecs' : f.task = d.task => f = d
<1>1. /\ execs \subseteq Exec
      /\ e \in Exec
      /\ At(e, "done") \in Exec
      /\ At(e, "done").pc = "done"
  BY DEF TypeOK, Exec, ExecPC, At
<1>2. execs' = (execs \ {e}) \cup {At(e, "done")}
  BY DEF ExecTo
<1>3. RunningExecs' = RunningExecs \ {e}
  BY <1>1, <1>2 DEF RunningExecs
<1>4. e \in RunningExecs
  BY DEF RunningExecs
<1>5. QED
  BY <1>1, <1>2, <1>3, <1>4 DEF OnePlace, Running

(* A pool goroutine past the handler: nothing a task is counted in moves. *)
LEMMA RunOver ==
  ASSUME TypeOK, NEW e \in execs, e.pc # "run",
         execs' = execs \ {e} \/ ExecTo(e, "release")
  PROVE  /\ execs' \subseteq Exec
         /\ RunningExecs' = RunningExecs
         /\ Running' = Running
<1>1. /\ execs \subseteq Exec
      /\ At(e, "release") \in Exec
      /\ At(e, "release").pc = "release"
  BY DEF TypeOK, Exec, ExecPC, At
<1>2. execs' \subseteq Exec /\ RunningExecs' = RunningExecs
  BY <1>1 DEF RunningExecs, ExecTo
<1>3. QED
  BY <1>2 DEF Running

-----------------------------------------------------------------------------
(* The inductive invariant holds at first and is preserved by every step.  *)

LEMMA InitIInv == Init => IInv
<1> SUFFICES ASSUME Init PROVE IInv
  OBVIOUS
<1> USE QueueAssumption DEF Init
<1>1. Elements(<<>>) = {} /\ NoRepeats(<<>>)
  BY DEF Elements, NoRepeats
<1>2. Holding = {} /\ Watching = {} /\ RunningExecs = {}
  BY DEF Holding, Watching, RunningExecs, Off
<1>3. InLoop = {} /\ InWatch = {} /\ Running = {} /\ Waiting = {}
  BY <1>1, <1>2 DEF InLoop, InWatch, Running, Waiting
<1>4. TypeOK
  <2>1. due \in [Tasks -> BOOLEAN]
    BY DEF DueAtEnqueue, RequestType
  <2>2. Off \in [pc : LoopPC, task : Tasks \cup {None}]
        /\ Off \in [pc : WatchPC, task : Tasks \cup {None}]
    BY DEF Off, LoopPC, WatchPC
  <2>3. waiter \in [Waiters -> [pc : WaitPC, group : GroupIds,
                               left : SUBSET GroupIds,
                               owed : SUBSET [task : Tasks, n : Nat]]]
    BY DEF WaitPC, GroupIds
  <2>4. QED
    BY <1>2, <2>1, <2>2, <2>3 DEF TypeOK, Off, Outcome
<1>5. Placed
  BY <1>1, <1>2, <1>3 DEF Placed, OnePlace, NothingLost
<1>6. Counts
  <2>1. \A t \in Tasks : MaxRetryOf(t) \in Nat
    BY DEF MaxRetryOf, JobMaxRetry, DefaultMaxRetry, RequestType
  <2>2. QED
    BY <1>3, <2>1 DEF Counts
<1>7. QED
  BY <1>4, <1>5, <1>6 DEF IInv, NotStarted

(* Processes that do not move hold what they held. *)
LEMMA Still ==
  /\ loop' = loop => Holding' = Holding /\ InLoop' = InLoop
  /\ watch' = watch => Watching' = Watching /\ InWatch' = InWatch
  /\ execs' = execs => RunningExecs' = RunningExecs /\ Running' = Running
BY DEF Holding, InLoop, Watching, InWatch, RunningExecs, Running

LEMMA MaxRetryType == \A t \in Tasks : MaxRetryOf(t) \in Nat
BY QueueAssumption DEF MaxRetryOf, JobMaxRetry, DefaultMaxRetry, RequestType

(* Only started servers have a loop or a watcher at work. *)
LEMMA AtWork ==
  ASSUME TypeOK, NotStarted, NEW s \in Servers,
         loop[s].pc # "off" \/ watch[s].pc # "off"
  PROVE  s \in started
BY DEF NotStarted, Off

(* A step of a background loop moves at most one task: from the queue to   *)
(* its hand, back to the queue, or into the channel.                       *)
LEMMA LoopStepIInv ==
  ASSUME IInv, NEW s \in Servers, LoopStep(s)
  PROVE  IInv'
<1> USE DEF IInv
<1>1. /\ handlers' = handlers /\ started' = started /\ watch' = watch
      /\ chs' = chs /\ wg' = wg /\ execs' = execs /\ retried' = retried
      /\ due' = due /\ outcome' = outcome /\ calls' = calls /\ waiter' = waiter
  BY DEF LoopStep, LoopPoll, LoopTake, LoopWake, LoopPutBack, LoopSend,
         workVars, taskVars
<1>2. /\ Watching' = Watching /\ InWatch' = InWatch
      /\ RunningExecs' = RunningExecs /\ Running' = Running
  BY <1>1, Still
<1>3. s \in started /\ loop[s].pc # "off"
  BY AtWork DEF LoopStep, LoopPoll, LoopTake, LoopWake, LoopPutBack, LoopSend
<1>4. PICK p \in LoopPC, x \in Tasks \cup {None} : LoopTo(s, p, x)
  <2>1. ASSUME queue # <<>> PROVE Head(queue) \in Tasks
    BY <2>1 DEF TypeOK
  <2>2. QED
    BY <2>1 DEF LoopStep, LoopPoll, LoopTake, LoopWake, LoopPutBack, LoopSend,
                LoopPC
<1>5. NotStarted'
  <2>1. \A r \in Servers \ {s} : loop'[r] = loop[r]
    BY <1>4 DEF LoopTo, TypeOK
  <2>2. QED
    BY <1>1, <1>3, <2>1 DEF NotStarted
<1>6. ASSUME queue' = queue, taskChan' = taskChan, s \notin Holding,
             NEW q \in LoopPC \ {"held"}, LoopTo(s, q, None)
      PROVE  IInv'
  <2>1. /\ loop' \in [Servers -> [pc : LoopPC, task : Tasks \cup {None}]]
        /\ \A r \in Servers : loop'[r].pc = "held" => loop'[r].task \in Tasks
        /\ InLoop' = InLoop
        /\ \A r, k \in Holding' : loop'[r].task = loop'[k].task => r = k
    BY <1>6, LoopMoves, Zenon DEF Placed
  <2>2. Waiting' = Waiting
    BY <1>2, <1>6, <2>1 DEF Waiting
  <2>3. TypeOK'
    BY <1>1, <1>2, <1>6, <2>1 DEF TypeOK
  <2>4. Placed'
    BY <1>1, <1>2, <1>6, <2>1, <2>2 DEF Placed, OnePlace, NothingLost
  <2>5. Counts'
    BY <1>1, <1>2, <2>2 DEF Counts
  <2>6. QED
    BY <1>5, <2>3, <2>4, <2>5
<1>7. CASE LoopPoll(s)
  <2>1. LoopTo(s, IF queue = <<>> THEN "sleep" ELSE "take", None) /\ s \notin Holding
    BY <1>7 DEF LoopPoll, Holding
  <2>2. queue' = queue /\ taskChan' = taskChan
    BY <1>7 DEF LoopPoll
  <2>3. QED
    BY <1>6, <2>1, <2>2 DEF LoopPC
<1>8. CASE LoopWake(s)
  BY <1>6, <1>8 DEF LoopWake, LoopPC, Holding
<1>9. CASE LoopTake(s) /\ queue = <<>>
  BY <1>6, <1>9 DEF LoopTake, LoopPC, Holding
<1>10. CASE LoopTake(s) /\ queue # <<>>
  <2> DEFINE h == Head(queue)
  <2>1. /\ LoopTo(s, "held", h)
        /\ queue' = Tail(queue)
        /\ taskChan' = taskChan
        /\ s \notin Holding
    BY <1>10 DEF LoopTake, AfterDequeue, Holding
  <2>2. /\ Tail(queue) \in Seq(Tasks)
        /\ h \in Tasks
        /\ h \in Elements(queue)
        /\ Elements(Tail(queue)) = Elements(queue) \ {h}
        /\ NoRepeats(Tail(queue))
    BY <1>10, TailElements DEF TypeOK, Placed, OnePlace
  <2>3. h \notin InLoop
    BY <2>2 DEF Placed, OnePlace
  <2>4. /\ loop' \in [Servers -> [pc : LoopPC, task : Tasks \cup {None}]]
        /\ \A r \in Servers : loop'[r].pc = "held" => loop'[r].task \in Tasks
        /\ InLoop' = InLoop \cup {h}
        /\ \A r, k \in Holding' : loop'[r].task = loop'[k].task => r = k
    <3>1. "held" \in LoopPC
      BY DEF LoopPC
    <3>2. QED
      BY <2>1, <2>2, <2>3, <3>1, LoopMoves, Zenon DEF Placed
  <2>5. Waiting' = Waiting
    BY <1>2, <2>1, <2>2, <2>4 DEF Waiting
  <2>6. TypeOK'
    BY <1>1, <1>2, <2>1, <2>2, <2>4 DEF TypeOK
  <2>7. Placed'
    BY <1>1, <1>2, <2>1, <2>2, <2>3, <2>4, <2>5 DEF Placed, OnePlace, NothingLost
  <2>8. Counts'
    BY <1>1, <1>2, <2>5 DEF Counts
  <2>9. QED
    BY <1>5, <2>6, <2>7, <2>8
<1>11. ASSUME LoopPutBack(s) \/ LoopSend(s)
       PROVE  IInv'
  <2> DEFINE h == loop[s].task
  <2>1. s \in Holding /\ h \in InLoop /\ h \in Tasks /\ LoopTo(s, "poll", None)
    BY <1>11 DEF LoopPutBack, LoopSend, Holding, InLoop, TypeOK
  <2>2. /\ loop' \in [Servers -> [pc : LoopPC, task : Tasks \cup {None}]]
        /\ \A r \in Servers : loop'[r].pc = "held" => loop'[r].task \in Tasks
        /\ InLoop' = InLoop \ {h}
        /\ \A r, k \in Holding' : loop'[r].task = loop'[k].task => r = k
    <3>1. "poll" \in LoopPC
      BY DEF LoopPC
    <3>2. QED
      BY <2>1, <3>1, LoopMoves, Zenon DEF Placed
  <2>3. h \notin Elements(queue) /\ h \notin Elements(taskChan)
    BY <2>1 DEF Placed, OnePlace
  <2>4. \/ queue' = Append(queue, h) /\ taskChan' = taskChan
        \/ queue' = queue /\ taskChan' = Append(taskChan, h)
    BY <1>11 DEF LoopPutBack, LoopSend, Requeued
  <2>5. /\ queue' \in Seq(Tasks) /\ taskChan' \in Seq(Tasks)
        /\ NoRepeats(queue') /\ NoRepeats(taskChan')
        /\ \/ Elements(queue') = Elements(queue) \cup {h} /\ taskChan' = taskChan
           \/ queue' = queue /\ Elements(taskChan') = Elements(taskChan) \cup {h}
    <3>1. /\ queue \in Seq(Tasks) /\ taskChan \in Seq(Tasks)
          /\ NoRepeats(queue) /\ NoRepeats(taskChan)
      BY DEF TypeOK, Placed, OnePlace
    <3>2. \A q \in Seq(Tasks) :
             NoRepeats(q) /\ h \notin Elements(q) =>
               /\ Append(q, h) \in Seq(Tasks)
               /\ Elements(Append(q, h)) = Elements(q) \cup {h}
               /\ NoRepeats(Append(q, h))
      BY <2>1, AppendElements
    <3>3. QED
      BY <2>3, <2>4, <3>1, <3>2
  <2>6. Waiting' = Waiting
    BY <1>2, <2>1, <2>2, <2>5 DEF Waiting
  <2>7. TypeOK'
    BY <1>1, <1>2, <2>2, <2>5 DEF TypeOK
  <2>8. Placed'
    BY <1>1, <1>2, <2>1, <2>2, <2>5, <2>6 DEF Placed, OnePlace, NothingLost
  <2>9. Counts'
    BY <1>1, <1>2, <2>6 DEF Counts
  <2>10. QED
    BY <1>5, <2>7, <2>8, <2>9
<1>12. QED
  BY <1>7, <1>8, <1>9, <1>10, <1>11 DEF LoopStep

(* A watcher carries its task from the channel to the pool. *)
LEMMA WatchStepIInv ==
  ASSUME IInv, NEW s \in Servers, WatchStep(s)
  PROVE  IInv'
<1> USE DEF IInv
<1> DEFINE t == watch[s].task
<1>1. /\ handlers' = handlers /\ started' = started /\ loop' = loop
      /\ queue' = queue /\ retried' = retried
      /\ due' = due /\ waiter' = waiter
      /\ watch[s].pc # "off"
  BY DEF WatchStep, WatchRecv, WatchRoute, WatchSlot, WatchAdd, WatchSubmit,
         workVars, taskVars
<1>2. Holding' = Holding /\ InLoop' = InLoop
  BY <1>1, Still
<1>3. s \in started
  BY <1>1, AtWork
<1>4. ASSUME NEW p, NEW x, WatchTo(s, p, x)
      PROVE  NotStarted'
  <2>1. \A r \in Servers \ {s} : watch'[r] = watch[r]
    BY <1>4 DEF WatchTo, TypeOK
  <2>2. QED
    BY <1>1, <1>3, <2>1 DEF NotStarted
<1>5. /\ chs' \in [GroupIds -> Int] /\ wg' \in [GroupIds -> Int]
  <2>1. \A g : \/ chs' = chs /\ wg' = wg
               \/ chs' = [chs EXCEPT ![GroupOf(t)] = @ + 1] /\ wg' = wg
               \/ chs' = chs /\ wg' = [wg EXCEPT ![GroupOf(t)] = @ + 1]
    BY DEF WatchStep, WatchRecv, WatchRoute, WatchSlot, WatchAdd, WatchSubmit,
           workVars
  <2>2. QED
    BY <2>1 DEF TypeOK
<1>6. CASE WatchRecv(s)
  <2> DEFINE h == Head(taskChan)
  <2>1. /\ WatchTo(s, "route", h) /\ taskChan # <<>> /\ taskChan' = Tail(taskChan)
        /\ s \notin Watching /\ execs' = execs /\ outcome' = outcome
        /\ calls' = calls
    BY <1>6 DEF WatchRecv, Watching, workVars, taskVars
  <2>2. /\ Tail(taskChan) \in Seq(Tasks)
        /\ h \in Tasks
        /\ h \in Elements(taskChan)
        /\ Elements(Tail(taskChan)) = Elements(taskChan) \ {h}
        /\ NoRepeats(Tail(taskChan))
    BY <2>1, TailElements DEF TypeOK, Placed, OnePlace
  <2>3. h \notin InWatch
    BY <2>2 DEF Placed, OnePlace
  <2>4. /\ watch' \in [Servers -> [pc : WatchPC, task : Tasks \cup {None}]]
        /\ \A r \in Servers : r \in Watching' => watch'[r].task \in Tasks
        /\ InWatch' = InWatch \cup {h}
        /\ \A r, q \in Watching' : watch'[r].task = watch'[q].task => r = q
    <3>1. "route" \in WatchPC /\ "route" # "off" /\ "route" # "recv"
      BY DEF WatchPC
    <3>2. QED
      BY <2>1, <2>2, <2>3, <3>1, WatchMoves, Zenon DEF Placed
  <2>5. Running' = Running /\ RunningExecs' = RunningExecs
    BY <2>1, Still
  <2>6. Waiting' = Waiting
    BY <1>1, <1>2, <2>1, <2>2, <2>4 DEF Waiting
  <2>7. TypeOK'
    BY <1>1, <1>2, <1>5, <2>1, <2>2, <2>4 DEF TypeOK, Holding
  <2>8. Placed'
    BY <1>1, <1>2, <2>1, <2>2, <2>3, <2>4, <2>5, <2>6
       DEF Placed, OnePlace, NothingLost
  <2>9. Counts'
    BY <1>1, <2>1, <2>5, <2>6 DEF Counts
  <2>10. QED
    BY <1>4, <2>1, <2>7, <2>8, <2>9
<1>7. ASSUME s \in Watching, NEW p \in WatchPC \ {"off", "recv"}, WatchTo(s, p, t),
             taskChan' = taskChan, execs' = execs, outcome' = outcome,
             calls' = calls
      PROVE  IInv'
  <2>1. t \in Tasks /\ t \in InWatch
    BY <1>7 DEF TypeOK, InWatch, Watching
  <2>2. /\ watch' \in [Servers -> [pc : WatchPC, task : Tasks \cup {None}]]
        /\ \A r \in Servers : r \in Watching' => watch'[r].task \in Tasks
        /\ InWatch' = InWatch
        /\ \A r, q \in Watching' : watch'[r].task = watch'[q].task => r = q
    <3>1. p \in WatchPC /\ p # "off" /\ p # "recv"
      BY <1>7
    <3>2. InWatch' = (InWatch \ {t}) \cup {t}
          /\ watch' \in [Servers -> [pc : WatchPC, task : Tasks \cup {None}]]
          /\ (\A r \in Servers : r \in Watching' => watch'[r].task \in Tasks)
          /\ (\A r, q \in Watching' : watch'[r].task = watch'[q].task => r = q)
      BY <1>7, <2>1, <3>1, WatchMoves, Zenon DEF Placed
    <3>3. QED
      BY <2>1, <3>2
  <2>3. Running' = Running /\ RunningExecs' = RunningExecs
    BY <1>7, Still
  <2>4. Waiting' = Waiting
    BY <1>1, <1>2, <1>7, <2>2 DEF Waiting
  <2>5. TypeOK'
    BY <1>1, <1>2, <1>5, <1>7, <2>2 DEF TypeOK, Holding
  <2>6. Placed'
    BY <1>1, <1>2, <1>7, <2>2, <2>3, <2>4 DEF Placed, OnePlace, NothingLost
  <2>7. Counts'
    BY <1>1, <1>7, <2>3, <2>4 DEF Counts
  <2>8. QED
    BY <1>4, <1>7, <2>5, <2>6, <2>7
<1>8. CASE WatchRoute(s) /\ Request[t].name \in handlers
  BY <1>7, <1>8 DEF WatchRoute, WatchPC, Watching, workVars
<1>9. CASE WatchSlot(s)
  BY <1>7, <1>9 DEF WatchSlot, WatchPC, Watching, taskVars
<1>10. CASE WatchAdd(s)
  BY <1>7, <1>10 DEF WatchAdd, WatchPC, Watching, taskVars
<1>11. ASSUME s \in Watching, WatchTo(s, "recv", None)
       PROVE  /\ watch' \in [Servers -> [pc : WatchPC, task : Tasks \cup {None}]]
              /\ \A r \in Servers : r \in Watching' => watch'[r].task \in Tasks
              /\ InWatch' = InWatch \ {t}
              /\ \A r, q \in Watching' : watch'[r].task = watch'[q].task => r = q
  <2>1. "recv" \in WatchPC
    BY DEF WatchPC
  <2>2. QED
    BY <1>11, <2>1, WatchMoves, Zenon DEF Placed
<1>12. ASSUME s \in Watching
       PROVE  /\ t \in Tasks /\ t \in InWatch /\ t \notin Running
              /\ t \notin Elements(queue) \cup InLoop \cup Elements(taskChan)
              /\ outcome[t] = "live"
              /\ calls[t] = retried[t]
  <2>1. t \in Tasks /\ t \in InWatch /\ t \in Waiting
    BY <1>12 DEF TypeOK, InWatch, Watching, Waiting
  <2>2. QED
    BY <2>1 DEF Placed, OnePlace, NothingLost, Counts
<1>13. CASE WatchRoute(s) /\ Request[t].name \notin handlers
  <2>1. /\ s \in Watching /\ WatchTo(s, "recv", None) /\ taskChan' = taskChan
        /\ outcome' = [outcome EXCEPT ![t] = "noHandler"]
        /\ execs' = execs /\ calls' = calls
    BY <1>13 DEF WatchRoute, Watching, workVars
  <2>2. Running' = Running /\ RunningExecs' = RunningExecs
    BY <2>1, Still
  <2>3. Waiting' = Waiting \ {t}
    BY <1>1, <1>2, <1>11, <1>12, <2>1 DEF Waiting
  <2>4. TypeOK'
    BY <1>1, <1>2, <1>5, <1>11, <2>1 DEF TypeOK, Holding, Outcome
  <2>5. Placed'
    <3>1. OnePlace'
      BY <1>1, <1>2, <1>11, <2>1, <2>2, <2>3 DEF Placed, OnePlace
    <3>2. NothingLost'
      BY <1>12, <2>1, <2>2, <2>3 DEF Placed, NothingLost, TypeOK
    <3>3. QED
      BY <3>1, <3>2 DEF Placed
  <2>6. Counts'
    BY <1>1, <1>12, <2>1, <2>2, <2>3 DEF Counts, TypeOK
  <2>7. QED
    BY <1>4, <2>1, <2>4, <2>5, <2>6
<1>14. CASE WatchSubmit(s)
  <2> DEFINE e == [task |-> t, n |-> retried[t], pc |-> "run"]
  <2>1. /\ s \in Watching /\ WatchTo(s, "recv", None) /\ taskChan' = taskChan
        /\ outcome' = outcome
        /\ execs' = execs \cup {e} /\ calls' = [calls EXCEPT ![t] = @ + 1]
    BY <1>14 DEF WatchSubmit, Watching
  <2>2. e \in Exec
    BY <1>12, <2>1 DEF Exec, ExecPC, TypeOK
  <2>3. RunningExecs' = RunningExecs \cup {e}
    BY <2>1 DEF RunningExecs
  <2>4. Running' = Running \cup {t}
    <3>1. e.task = t
      OBVIOUS
    <3>2. Running' = {f.task : f \in RunningExecs \cup {e}}
      BY <2>3 DEF Running
    <3> HIDE DEF e
    <3>3. QED
      BY <3>1, <3>2 DEF Running
  <2>5. Waiting' = Waiting \ {t}
    BY <1>1, <1>2, <1>11, <1>12, <2>1 DEF Waiting
  <2>6. TypeOK'
    BY <1>1, <1>2, <1>5, <1>11, <1>12, <2>1, <2>2 DEF TypeOK, Holding
  <2>7. Placed'
    <3>1. \A f, d \in RunningExecs' : f.task = d.task => f = d
      BY <1>12, <2>1, <2>3 DEF Placed, OnePlace, Running
    <3>2. OnePlace'
      BY <1>1, <1>2, <1>11, <2>1, <2>4, <2>5, <3>1 DEF Placed, OnePlace
    <3>3. NothingLost'
      BY <1>12, <2>1, <2>4, <2>5 DEF Placed, NothingLost, Waiting
    <3>4. QED
      BY <3>2, <3>3 DEF Placed
  <2>8. Counts'
    BY <1>1, <1>12, <2>1, <2>4, <2>5 DEF Counts, TypeOK
  <2>9. QED
    BY <1>4, <2>1, <2>6, <2>7, <2>8
<1>15. QED
  BY <1>6, <1>8, <1>9, <1>10, <1>13, <1>14 DEF WatchStep, WatchRoute

(* The calls a WaitGroup counts are pairs of a task and its Retried field. *)
LEMMA CountedType == TypeOK => Counted \subseteq [task : Tasks, n : Nat]
<1> SUFFICES ASSUME TypeOK PROVE Counted \subseteq [task : Tasks, n : Nat]
  OBVIOUS
<1>1. \A e \in execs : e.task \in Tasks /\ e.n \in Nat
  BY DEF TypeOK, Exec
<1>2. \A s \in Servers : watch[s].pc = "submit" =>
         watch[s].task \in Tasks /\ retried[watch[s].task] \in Nat
  BY DEF TypeOK, Watching
<1>3. QED
  BY <1>1, <1>2 DEF Counted

WaiterType == [pc : WaitPC, group : GroupIds, left : SUBSET GroupIds,
               owed : SUBSET [task : Tasks, n : Nat]]

(* A waiter moved by WaiterAt keeps its type. *)
LEMMA WaiterAtType ==
  ASSUME TypeOK, NEW w \in Waiters, NEW pc \in WaitPC, NEW g \in GroupIds,
         NEW left \in SUBSET GroupIds
  PROVE  WaiterAt(w, pc, g, left) \in WaiterType
BY DEF TypeOK, WaiterAt, WaiterType

(* Steps that touch no task. *)
LEMMA TasksUntouched ==
  ASSUME IInv, queue' = queue, loop' = loop, taskChan' = taskChan,
         watch' = watch, RunningExecs' = RunningExecs, Running' = Running,
         retried' = retried, calls' = calls, outcome' = outcome,
         started' = started
  PROVE  Placed' /\ NotStarted' /\ Counts'
<1>1. /\ Holding' = Holding /\ InLoop' = InLoop
      /\ Watching' = Watching /\ InWatch' = InWatch
  BY Still
<1>2. Waiting' = Waiting
  BY <1>1 DEF Waiting
<1>3. QED
  BY <1>1, <1>2 DEF IInv, Placed, OnePlace, NothingLost, NotStarted, Counts

LEMMA WaitStepIInv ==
  ASSUME IInv, NEW w \in Waiters, WaitCall(w) \/ WaitStep(w)
  PROVE  IInv'
<1>1. /\ queue' = queue /\ handlers' = handlers /\ started' = started
      /\ loop' = loop /\ taskChan' = taskChan /\ watch' = watch /\ chs' = chs
      /\ wg' = wg /\ execs' = execs /\ retried' = retried /\ due' = due
      /\ outcome' = outcome /\ calls' = calls
  BY DEF WaitCall, WaitStep, WaitGroup, WaitResume, workVars, taskVars
<1>2. RunningExecs' = RunningExecs /\ Running' = Running /\ Watching' = Watching
  BY <1>1, Still
<1>3. PICK r \in WaiterType : waiter' = [waiter EXCEPT ![w] = r]
  <2>1. waiter[w] \in WaiterType
    BY DEF IInv, TypeOK, WaiterType
  <2>2. CASE WaitCall(w)
    <3>1. 1 \in GroupIds
      BY QueueAssumption DEF GroupIds
    <3>2. [pc |-> "scan", group |-> 1, left |-> GroupIds, owed |-> Counted] \in WaiterType
      BY <3>1, CountedType DEF IInv, WaiterType, WaitPC
    <3>3. QED
      BY <2>2, <3>2 DEF WaitCall
  <2>3. ASSUME NEW g \in GroupIds
        PROVE  Passed(w, g) \in WaiterType
    <3>1. waiter[w].left \ {g} \in SUBSET GroupIds
      BY <2>1 DEF WaiterType
    <3>2. (IF waiter[w].left \ {g} = {} THEN "returned" ELSE "scan") \in WaitPC
      BY DEF WaitPC
    <3>3. QED
      BY <2>3, <3>1, <3>2, WaiterAtType DEF Passed, IInv
  <2>4. /\ waiter[w].group \in GroupIds /\ waiter[w].left \in SUBSET GroupIds
        /\ "blocked" \in WaitPC /\ "panicked" \in WaitPC
    BY <2>1 DEF WaiterType, WaitPC
  <2>5. ASSUME NEW g \in GroupIds, WaitGroup(w, g)
        PROVE  \E r \in WaiterType : waiter' = [waiter EXCEPT ![w] = r]
    <3>1. WaiterAt(w, "blocked", g, waiter[w].left) \in WaiterType
      BY <2>4, <2>5, WaiterAtType DEF IInv
    <3>2. QED
      BY <2>3, <2>5, <3>1 DEF WaitGroup
  <2>6. CASE WaitResume(w)
    <3>1. WaiterAt(w, "panicked", waiter[w].group, waiter[w].left) \in WaiterType
      BY <2>4, WaiterAtType DEF IInv
    <3>2. QED
      BY <2>3, <2>4, <2>6, <3>1 DEF WaitResume
  <2>7. QED
    BY <2>2, <2>5, <2>6 DEF WaitStep
<1>4. waiter' \in [Waiters -> WaiterType]
  BY <1>3 DEF IInv, TypeOK, WaiterType
<1>5. TypeOK'
  BY <1>1, <1>2, <1>4 DEF IInv, TypeOK, WaiterType
<1>6. QED
  BY <1>1, <1>2, <1>5, TasksUntouched DEF IInv

(* Clients and the clock. *)
LEMMA ClientStepIInv ==
  ASSUME IInv,
         \/ \E t \in Tasks : EnqueueTask(t) \/ BecomeDue(t)
         \/ \E name \in Names : Register(name)
         \/ \E s \in Servers : StartServer(s)
  PROVE  IInv'
<1> USE DEF IInv
<1>1. ASSUME NEW t \in Tasks, EnqueueTask(t)
      PROVE  IInv'
  <2>1. /\ handlers' = handlers /\ started' = started /\ loop' = loop
        /\ taskChan' = taskChan /\ watch' = watch /\ chs' = chs /\ wg' = wg
        /\ execs' = execs /\ retried' = retried /\ due' = due
        /\ calls' = calls /\ waiter' = waiter
        /\ queue' = Append(queue, t)
        /\ outcome[t] = "new" /\ outcome' = [outcome EXCEPT ![t] = "live"]
    BY <1>1 DEF EnqueueTask, workVars
  <2>2. t \notin Waiting \cup Running
    BY <2>1 DEF Placed, NothingLost
  <2>3. /\ queue' \in Seq(Tasks) /\ NoRepeats(queue')
        /\ Elements(queue') = Elements(queue) \cup {t}
    BY <2>1, <2>2, AppendElements DEF TypeOK, Placed, OnePlace, Waiting
  <2>4. /\ Holding' = Holding /\ InLoop' = InLoop
        /\ Watching' = Watching /\ InWatch' = InWatch
        /\ RunningExecs' = RunningExecs /\ Running' = Running
    BY <2>1, Still
  <2>5. Waiting' = Waiting \cup {t}
    BY <2>1, <2>3, <2>4 DEF Waiting
  <2>6. TypeOK'
    BY <2>1, <2>3, <2>4 DEF TypeOK, Outcome
  <2>7. OnePlace'
    BY <2>1, <2>2, <2>3, <2>4, <2>5 DEF Placed, OnePlace, Waiting
  <2>8. NothingLost'
    BY <2>1, <2>4, <2>5 DEF Placed, NothingLost, TypeOK
  <2>9. NotStarted' /\ Counts'
    BY <2>1, <2>4, <2>5 DEF NotStarted, Counts, TypeOK
  <2>10. QED
    BY <2>6, <2>7, <2>8, <2>9 DEF Placed
<1>2. ASSUME NEW t \in Tasks, BecomeDue(t)
      PROVE  IInv'
  <2>1. /\ queue' = queue /\ handlers' = handlers /\ started' = started
        /\ loop' = loop /\ taskChan' = taskChan /\ watch' = watch /\ chs' = chs
        /\ wg' = wg /\ execs' = execs /\ retried' = retried
        /\ outcome' = outcome /\ calls' = calls /\ waiter' = waiter
        /\ due' = [due EXCEPT ![t] = TRUE]
    BY <1>2 DEF BecomeDue, workVars
  <2>2. RunningExecs' = RunningExecs /\ Running' = Running /\ Watching' = Watching
    BY <2>1, Still
  <2>3. TypeOK'
    BY <2>1, <2>2 DEF TypeOK
  <2>4. QED
    BY <2>1, <2>2, <2>3, TasksUntouched
<1>3. ASSUME NEW name \in Names, Register(name)
      PROVE  IInv'
  <2>1. /\ queue' = queue /\ started' = started
        /\ loop' = loop /\ taskChan' = taskChan /\ watch' = watch /\ chs' = chs
        /\ wg' = wg /\ execs' = execs /\ retried' = retried /\ due' = due
        /\ outcome' = outcome /\ calls' = calls /\ waiter' = waiter
        /\ handlers' = handlers \cup {name}
    BY <1>3 DEF Register, workVars, taskVars
  <2>2. RunningExecs' = RunningExecs /\ Running' = Running /\ Watching' = Watching
    BY <2>1, Still
  <2>3. TypeOK'
    BY <2>1, <2>2 DEF TypeOK
  <2>4. QED
    BY <2>1, <2>2, <2>3, TasksUntouched
<1>4. ASSUME NEW s \in Servers, StartServer(s)
      PROVE  IInv'
  <2>1. /\ queue' = queue /\ handlers' = handlers /\ taskChan' = taskChan
        /\ chs' = chs /\ wg' = wg /\ execs' = execs /\ retried' = retried
        /\ due' = due /\ outcome' = outcome /\ calls' = calls
        /\ waiter' = waiter /\ started' = started \cup {s}
        /\ LoopTo(s, "poll", None) /\ WatchTo(s, "recv", None)
    BY <1>4 DEF StartServer, workVars, taskVars
  <2>2. s \notin Holding /\ s \notin Watching
    BY <1>4 DEF StartServer, NotStarted, Off, Holding, Watching
  <2>3. /\ loop' \in [Servers -> [pc : LoopPC, task : Tasks \cup {None}]]
        /\ \A r \in Servers : loop'[r].pc = "held" => loop'[r].task \in Tasks
        /\ InLoop' = InLoop
        /\ \A r, k \in Holding' : loop'[r].task = loop'[k].task => r = k
    <3>1. "poll" \in LoopPC /\ "poll" # "held"
      BY DEF LoopPC
    <3>2. QED
      BY <2>1, <2>2, <3>1, LoopMoves, Zenon DEF Placed
  <2>4. /\ watch' \in [Servers -> [pc : WatchPC, task : Tasks \cup {None}]]
        /\ \A r \in Servers : r \in Watching' => watch'[r].task \in Tasks
        /\ InWatch' = InWatch
        /\ \A r, q \in Watching' : watch'[r].task = watch'[q].task => r = q
    <3>1. "recv" \in WatchPC /\ "recv" # "off"
      BY DEF WatchPC
    <3>2. QED
      BY <2>1, <2>2, <3>1, WatchMoves, Zenon DEF Placed
  <2>5. RunningExecs' = RunningExecs /\ Running' = Running
    BY <2>1, Still
  <2>6. Waiting' = Waiting
    BY <2>1, <2>3, <2>4 DEF Waiting
  <2>7. TypeOK'
    BY <2>1, <2>3, <2>4 DEF TypeOK
  <2>8. OnePlace'
    BY <2>1, <2>3, <2>4, <2>5, <2>6 DEF Placed, OnePlace
  <2>9. NothingLost' /\ Counts'
    BY <2>1, <2>5, <2>6 DEF Placed, NothingLost, Counts
  <2>10. NotStarted'
    <3>1. \A r \in Servers \ {s} : loop'[r] = loop[r] /\ watch'[r] = watch[r]
      BY <2>1 DEF LoopTo, WatchTo, TypeOK
    <3>2. QED
      BY <2>1, <3>1 DEF NotStarted
  <2>11. QED
    BY <2>7, <2>8, <2>9, <2>10 DEF Placed
<1>5. QED
  BY <1>1, <1>2, <1>3, <1>4

(* Steps of fn1: only the end of the handler touches a task. *)
LEMMA ExecStepIInv ==
  ASSUME IInv, NEW e \in execs, ExecStep(e)
  PROVE  IInv'
<1> USE DEF IInv
<1> DEFINE t == e.task
<1>1. /\ handlers' = handlers /\ started' = started /\ loop' = loop
      /\ taskChan' = taskChan /\ watch' = watch /\ calls' = calls
  BY DEF ExecStep, RunEnds, RunSucceeds, RunPanics, RunFails, ExecDone,
         ExecRelease, taskVars
<1>2. /\ Holding' = Holding /\ InLoop' = InLoop
      /\ Watching' = Watching /\ InWatch' = InWatch
  BY <1>1, Still
<1>3. t \in Tasks /\ e \in Exec
  BY DEF TypeOK, Exec
<1>4. ASSUME e.pc = "run"
      PROVE  /\ t \in Running /\ t \notin Waiting
             /\ t \notin Elements(queue) /\ outcome[t] = "live"
             /\ calls[t] = retried[t] + 1
  <2>1. t \in Running
    BY <1>4 DEF Running, RunningExecs
  <2>2. QED
    BY <1>3, <2>1 DEF Placed, OnePlace, NothingLost, Waiting, Counts
<1>5. CASE RunEnds(e)
  <2>1. /\ e.pc = "run" /\ ExecTo(e, "done")
        /\ chs' = chs /\ wg' = wg /\ waiter' = waiter
    BY <1>5 DEF RunEnds, RunSucceeds, RunPanics, RunFails
  <2>2. /\ execs' \subseteq Exec /\ Running' = Running \ {t}
        /\ \A f, d \in RunningExecs' : f.task = d.task => f = d
    BY <2>1, RunLeaves DEF Placed
  <2>3. ASSUME NEW how \in {"done", "panicked", "gaveUp"}, SettledAs(t, how)
        PROVE  IInv'
    <3>1. /\ queue' = queue /\ retried' = retried /\ due' = due
          /\ outcome' = [outcome EXCEPT ![t] = how]
      BY <2>3 DEF SettledAs
    <3>2. Waiting' = Waiting
      BY <1>1, <1>2, <3>1 DEF Waiting
    <3>3. TypeOK'
      BY <1>1, <1>2, <2>1, <2>2, <3>1 DEF TypeOK, Outcome, Holding
    <3>4. OnePlace'
      BY <1>1, <1>2, <2>2, <3>1, <3>2 DEF Placed, OnePlace
    <3>5. NothingLost'
      BY <1>3, <1>4, <2>1, <2>2, <3>1, <3>2 DEF Placed, NothingLost, TypeOK
    <3>6. Counts' /\ NotStarted'
      BY <1>1, <1>3, <2>2, <3>1, <3>2 DEF Counts, NotStarted, TypeOK
    <3>7. QED
      BY <3>3, <3>4, <3>5, <3>6 DEF Placed
  <2>4. ASSUME retried[t] < MaxRetryOf(t),
               retried' = [retried EXCEPT ![t] = @ + 1],
               due' = [due EXCEPT ![t] = FALSE],
               queue' = Append(queue, t),
               outcome' = outcome
        PROVE  IInv'
    <3>1. /\ queue' \in Seq(Tasks) /\ NoRepeats(queue')
          /\ Elements(queue') = Elements(queue) \cup {t}
      BY <1>3, <1>4, <2>1, <2>4, AppendElements DEF TypeOK, Placed, OnePlace
    <3>2. Waiting' = Waiting \cup {t}
      BY <1>1, <1>2, <3>1 DEF Waiting
    <3>3. TypeOK'
      BY <1>1, <1>2, <2>1, <2>2, <2>4, <3>1 DEF TypeOK, Holding
    <3>4. OnePlace'
      BY <1>1, <1>2, <1>4, <2>1, <2>2, <3>1, <3>2
         DEF Placed, OnePlace, Waiting
    <3>5. NothingLost'
      BY <1>3, <1>4, <2>1, <2>2, <2>4, <3>2 DEF Placed, NothingLost
    <3>6. Counts'
      <4>1. retried'[t] = retried[t] + 1 /\ retried[t] \in Nat
        BY <1>3, <2>4 DEF TypeOK
      <4>2. \A u \in Tasks \ {t} : retried'[u] = retried[u]
        BY <2>4 DEF TypeOK
      <4>3. t \notin Running'
        BY <2>2
      <4>4. QED
        BY <1>1, <1>3, <1>4, <2>1, <2>2, <2>4, <3>2, <4>1, <4>2, <4>3,
           MaxRetryType DEF Counts
    <3>7. NotStarted'
      BY <1>1 DEF NotStarted
    <3>8. QED
      BY <3>3, <3>4, <3>5, <3>6, <3>7 DEF Placed
  <2>5. QED
    BY <1>5, <2>3, <2>4
       DEF RunEnds, RunSucceeds, RunPanics, RunFails, RetriesLeft, Requeued
<1>6. ASSUME ExecDone(e) \/ ExecRelease(e)
      PROVE  IInv'
  <2>1. /\ e.pc # "run" /\ (execs' = execs \ {e} \/ ExecTo(e, "release"))
        /\ queue' = queue /\ retried' = retried /\ due' = due
        /\ outcome' = outcome
    BY <1>6 DEF ExecDone, ExecRelease, taskVars
  <2>2. execs' \subseteq Exec /\ RunningExecs' = RunningExecs /\ Running' = Running
    BY <2>1, RunOver
  <2>3. chs' \in [GroupIds -> Int] /\ wg' \in [GroupIds -> Int]
    BY <1>6 DEF ExecDone, ExecRelease, SlotsAfterRelease, WgAfterDone, TypeOK
  <2>4. waiter' \in [Waiters -> WaiterType]
    <3>1. waiter \in [Waiters -> WaiterType]
      BY DEF TypeOK, WaiterType
    <3>2. CASE Wake(GroupOf(t))
      <4>1. GroupOf(t) \in GroupIds
        BY QueueAssumption DEF GroupOf, GroupIds
      <4>2. \A w \in Waiters : waiter[w].left \in SUBSET GroupIds
        BY <3>1 DEF WaiterType
      <4>3. \A w \in Waiters :
               WaiterAt(w, "woken", GroupOf(t), waiter[w].left) \in WaiterType
        <5>1. "woken" \in WaitPC
          BY DEF WaitPC
        <5>2. QED
          BY <4>1, <4>2, <5>1, WaiterAtType
      <4>4. QED
        BY <3>1, <3>2, <4>3 DEF Wake
    <3>3. CASE waiter' = waiter
      BY <3>1, <3>3
    <3>4. QED
      BY <1>6, <3>2, <3>3 DEF ExecDone, ExecRelease
  <2>5. TypeOK'
    BY <1>1, <1>2, <2>1, <2>2, <2>3, <2>4 DEF TypeOK, WaiterType
  <2>6. QED
    BY <1>1, <2>1, <2>2, <2>5, TasksUntouched
<1>7. QED
  BY <1>5, <1>6 DEF ExecStep

LEMMA NextIInv == IInv /\ [Next]_vars => IInv'
<1> SUFFICES ASSUME IInv, [Next]_vars PROVE IInv'
  OBVIOUS
<1>1. CASE UNCHANGED vars
  <2>1. /\ queue' = queue /\ handlers' = handlers /\ started' = started
        /\ loop' = loop /\ taskChan' = taskChan /\ watch' = watch /\ chs' = chs
        /\ wg' = wg /\ execs' = execs /\ retried' = retried /\ due' = due
        /\ outcome' = outcome /\ calls' = calls /\ waiter' = waiter
    BY <1>1 DEF vars, workVars, taskVars
  <2>2. RunningExecs' = RunningExecs /\ Running' = Running /\ Watching' = Watching
    BY <2>1, Still
  <2>3. TypeOK'
    BY <2>1, <2>2 DEF IInv, TypeOK
  <2>4. QED
    BY <2>1, <2>2, <2>3, TasksUntouched DEF IInv
<1>2. CASE Next
  BY <1>2, ClientStepIInv, LoopStepIInv, WatchStepIInv, ExecStepIInv,
     WaitStepIInv, Zenon DEF Next
<1>3. QED
  BY <1>1, <1>2

-----------------------------------------------------------------------------
(* All variables keep their types, whatever the tasks, servers and groups. *)
THEOREM Typing == Spec => []TypeOK
<1>1. IInv => TypeOK
  BY DEF IInv
<1>2. QED
  BY <1>1, InitIInv, NextIInv, PTL DEF Spec

(* A task is never in two hands at once, and none is lost, for any number  *)
(* of StartServer calls, groups, slots and tasks.                          *)
THEOREM Conservation == Spec => [](OnePlace /\ NothingLost)
<1>1. IInv => OnePlace /\ NothingLost
  BY DEF IInv, Placed
<1>2. QED
  BY <1>1, InitIInv, NextIInv, PTL DEF Spec

(* Two hands never have the same task: not the queue and a loop, a loop    *)
(* and a watcher, two watchers or two workers, nor one of them twice.      *)
THEOREM OneHand == Spec => []OnePlace
<1>1. IInv => OnePlace
  BY DEF IInv, Placed
<1>2. QED
  BY <1>1, InitIInv, NextIInv, PTL DEF Spec

(* No handler is called more often than the retry limit allows. *)
THEOREM BoundedCalls == Spec => []CallsBounded
<1>1. IInv => CallsBounded
  BY MaxRetryType DEF IInv, TypeOK, Counts, CallsBounded
<1>2. QED
  BY <1>1, InitIInv, NextIInv, PTL DEF Spec

-----------------------------------------------------------------------------
(* What is beyond the test of runAt, and what it can gain in a step.       *)

Beyond == Elements(taskChan) \cup InWatch \cup Running

LEMMA BeyondTasks == TypeOK => Beyond \subseteq Tasks
<1> SUFFICES ASSUME TypeOK PROVE Beyond \subseteq Tasks
  OBVIOUS
<1>1. Elements(taskChan) \subseteq Tasks
  <2>1. taskChan \in Seq(Tasks)
    BY DEF TypeOK
  <2>2. QED
    BY <2>1 DEF Elements
<1>2. InWatch \subseteq Tasks
  <2>1. \A r \in Servers : r \in Watching => watch[r].task \in Tasks
    BY DEF TypeOK
  <2>2. \A r \in Watching : r \in Servers
    BY DEF Watching
  <2>3. QED
    BY <2>1, <2>2 DEF InWatch
<1>3. Running \subseteq Tasks
  <2>1. execs \subseteq Exec
    BY DEF TypeOK
  <2>2. QED
    BY <2>1 DEF Running, RunningExecs, Exec
<1>4. QED
  BY <1>1, <1>2, <1>3 DEF Beyond

(* A watcher brings at most the task it goes on with. *)
LEMMA WatchGains ==
  ASSUME TypeOK, NEW s \in Servers, NEW p, NEW x, WatchTo(s, p, x)
  PROVE  InWatch' \subseteq InWatch \cup (IF p = "recv" THEN {} ELSE {x})
<1>1. watch' = [watch EXCEPT ![s] = [pc |-> p, task |-> x]]
  BY DEF WatchTo
<1>2. /\ watch'[s] = [pc |-> p, task |-> x]
      /\ \A r \in Servers \ {s} : watch'[r] = watch[r]
  BY <1>1 DEF TypeOK
<1>3. QED
  BY <1>2 DEF InWatch, Watching

LEMMA InitEarly == Init => NeverEarly
<1> SUFFICES ASSUME Init PROVE NeverEarly
  OBVIOUS
<1>1. Elements(<<>>) = {}
  BY DEF Elements
<1>2. QED
  BY <1>1 DEF Init, NeverEarly, InWatch, Watching, Running, RunningExecs, Off

(* A watcher moves its task towards the handler. *)
LEMMA WatchKeeps ==
  ASSUME IInv, NEW s \in Servers, WatchStep(s)
  PROVE  Beyond' \subseteq Beyond /\ due' = due
<1> USE DEF IInv
<1> DEFINE t == watch[s].task
<1>1. due' = due
  BY DEF WatchStep, WatchRecv, WatchRoute, WatchSlot, WatchAdd, WatchSubmit,
         taskVars
<1>2. s \in Watching => t \in InWatch
  BY DEF InWatch
<1>3. CASE WatchRecv(s)
  <2>1. /\ WatchTo(s, "route", Head(taskChan)) /\ taskChan # <<>>
        /\ taskChan' = Tail(taskChan) /\ execs' = execs
    BY <1>3 DEF WatchRecv, workVars
  <2>2. /\ Head(taskChan) \in Elements(taskChan)
        /\ Elements(Tail(taskChan)) \subseteq Elements(taskChan)
    BY <2>1, TailElements DEF TypeOK, Placed, OnePlace
  <2>3. InWatch' \subseteq InWatch \cup {Head(taskChan)}
    BY <2>1, WatchGains
  <2>4. Running' = Running
    BY <2>1, Still
  <2>5. QED
    BY <1>1, <2>1, <2>2, <2>3, <2>4 DEF Beyond
<1>4. CASE WatchRoute(s) \/ WatchSlot(s) \/ WatchAdd(s)
  <2>1. /\ s \in Watching /\ taskChan' = taskChan /\ execs' = execs
        /\ \E p \in WatchPC : WatchTo(s, p, IF p = "recv" THEN None ELSE t)
    BY <1>4 DEF WatchRoute, WatchSlot, WatchAdd, Watching, WatchPC, workVars
  <2>2. InWatch' \subseteq InWatch \cup {t}
    BY <2>1, WatchGains
  <2>3. Running' = Running
    BY <2>1, Still
  <2>4. QED
    BY <1>1, <1>2, <2>1, <2>2, <2>3 DEF Beyond
<1>5. CASE WatchSubmit(s)
  <2> DEFINE e == [task |-> t, n |-> retried[t], pc |-> "run"]
  <2>1. /\ s \in Watching /\ taskChan' = taskChan /\ execs' = execs \cup {e}
        /\ WatchTo(s, "recv", None)
    BY <1>5 DEF WatchSubmit, Watching
  <2>2. InWatch' \subseteq InWatch
    BY <2>1, WatchGains
  <2>3. RunningExecs' = RunningExecs \cup {e} /\ e.task = t
    BY <2>1 DEF RunningExecs
  <2>4. Running' = Running \cup {t}
    <3> HIDE DEF e
    <3>1. QED
      BY <2>3 DEF Running
  <2>5. QED
    BY <1>1, <1>2, <2>1, <2>2, <2>4 DEF Beyond
<1>6. QED
  BY <1>3, <1>4, <1>5 DEF WatchStep

(* A handler that ends takes its task back, with a new runAt or without. *)
LEMMA ExecKeeps ==
  ASSUME IInv, NEW e \in execs, ExecStep(e)
  PROVE  /\ Beyond' \subseteq Beyond
         /\ \A u \in Beyond' : due'[u] = due[u]
<1> USE DEF IInv
<1> DEFINE t == e.task
<1>1. /\ taskChan' = taskChan /\ watch' = watch
  BY DEF ExecStep, RunEnds, RunSucceeds, RunPanics, RunFails, ExecDone,
         ExecRelease
<1>2. InWatch' = InWatch
  BY <1>1, Still
<1>3. CASE RunEnds(e)
  <2>1. e.pc = "run" /\ ExecTo(e, "done")
    BY <1>3 DEF RunEnds, RunSucceeds, RunPanics, RunFails
  <2>2. t \in Running /\ Running' = Running \ {t}
    BY <2>1, RunLeaves DEF Placed
  <2>3. t \notin Beyond'
    BY <1>1, <1>2, <2>2 DEF Beyond, Placed, OnePlace, Waiting
  <2>4. due' = due \/ due' = [due EXCEPT ![t] = FALSE]
    BY <1>3 DEF RunEnds, RunSucceeds, RunPanics, RunFails, SettledAs
  <2>5. Beyond' \subseteq Beyond
    BY <1>1, <1>2, <2>2 DEF Beyond
  <2>6. QED
    BY <2>3, <2>4, <2>5, BeyondTasks DEF TypeOK
<1>4. ASSUME ExecDone(e) \/ ExecRelease(e)
      PROVE  Running' = Running /\ due' = due
  <2>1. /\ e.pc # "run" /\ (execs' = execs \ {e} \/ ExecTo(e, "release"))
        /\ due' = due
    BY <1>4 DEF ExecDone, ExecRelease, taskVars
  <2>2. QED
    BY <2>1, RunOver
<1>5. QED
  BY <1>1, <1>2, <1>3, <1>4 DEF ExecStep, Beyond

LEMMA NextEarly == IInv /\ NeverEarly /\ [Next]_vars => NeverEarly'
<1> SUFFICES ASSUME IInv, NeverEarly, [Next]_vars PROVE NeverEarly'
  OBVIOUS
<1> USE DEF IInv
<1>1. ASSUME Beyond' \subseteq Beyond, \A u \in Beyond' : due[u] => due'[u]
      PROVE  NeverEarly'
  BY <1>1 DEF NeverEarly, Beyond
<1>2. ASSUME taskChan' = taskChan, watch' = watch, execs' = execs, due' = due
      PROVE  NeverEarly'
  BY <1>1, <1>2, Still DEF Beyond
<1>3. ASSUME NEW t \in Tasks, BecomeDue(t) PROVE NeverEarly'
  <2>1. /\ taskChan' = taskChan /\ watch' = watch /\ execs' = execs
        /\ due' = [due EXCEPT ![t] = TRUE]
    BY <1>3 DEF BecomeDue, workVars
  <2>2. Beyond' = Beyond
    BY <2>1, Still DEF Beyond
  <2>3. \A u \in Tasks : due[u] => due'[u]
    BY <2>1 DEF TypeOK
  <2>4. QED
    BY <1>1, <2>2, <2>3, BeyondTasks
<1>4. ASSUME NEW s \in Servers, StartServer(s) PROVE NeverEarly'
  <2>1. /\ taskChan' = taskChan /\ execs' = execs /\ due' = due
        /\ WatchTo(s, "recv", None)
    BY <1>4 DEF StartServer, workVars, taskVars
  <2>2. Beyond' \subseteq Beyond
    BY <2>1, Still, WatchGains DEF Beyond
  <2>3. QED
    BY <1>1, <2>1, <2>2
<1>5. ASSUME NEW s \in Servers, LoopSend(s) PROVE NeverEarly'
  <2> DEFINE h == loop[s].task
  <2>1. /\ due[h] /\ taskChan' = Append(taskChan, h)
        /\ watch' = watch /\ execs' = execs /\ due' = due /\ h \in Tasks
    BY <1>5 DEF LoopSend, MaySend, workVars, taskVars, TypeOK
  <2>2. Elements(taskChan') = Elements(taskChan) \cup {h}
    BY <2>1, AppendElements DEF TypeOK
  <2>3. QED
    BY <2>1, <2>2, Still DEF NeverEarly
<1>6. ASSUME NEW s \in Servers, WatchStep(s) PROVE NeverEarly'
  BY <1>1, <1>6, WatchKeeps
<1>7. ASSUME NEW e \in execs, ExecStep(e) PROVE NeverEarly'
  BY <1>1, <1>7, ExecKeeps
<1>8. ASSUME \/ \E t \in Tasks : EnqueueTask(t)
             \/ \E name \in Names : Register(name)
             \/ \E s \in Servers : LoopPoll(s) \/ LoopTake(s) \/ LoopWake(s)
                                     \/ LoopPutBack(s)
             \/ \E w \in Waiters : WaitCall(w) \/ WaitStep(w)
             \/ UNCHANGED vars
      PROVE  NeverEarly'
  <2>1. taskChan' = taskChan /\ watch' = watch /\ execs' = execs /\ due' = due
    BY <1>8 DEF EnqueueTask, Register, LoopPoll, LoopTake, LoopWake,
                LoopPutBack, WaitCall, WaitStep, WaitGroup, WaitResume,
                workVars, taskVars, vars
  <2>2. QED
    BY <1>2, <2>1
<1>9. QED
  BY <1>3, <1>4, <1>5, <1>6, <1>7, <1>8, Zenon DEF Next, LoopStep

(* No task is past the test of runAt before its time, although a retry     *)
(* puts the time of a task that was already past it into the future again. *)
THEOREM DelaysKept == Spec => []NeverEarly
BY InitIInv, NextIInv, InitEarly, NextEarly, PTL DEF Spec

-----------------------------------------------------------------------------
(* The refinement.  st is the status function TaskLifecycle is read with.  *)

st == [t \in Tasks |-> StatusOf(t)]

(* One task changes its status, the others keep theirs. *)
LEMMA StatusMoves ==
  ASSUME NEW t \in Tasks,
         \A u \in Tasks \ {t} : /\ outcome'[u] = outcome[u]
                                /\ u \in Running' <=> u \in Running
  PROVE  st' = [st EXCEPT ![t] = StatusOf(t)']
BY DEF st, StatusOf

LEMMA InitRefines == Init => Lifecycle!Init
<1> SUFFICES ASSUME Init PROVE Lifecycle!Init
  OBVIOUS
<1>1. st = [t \in Tasks |-> "new"]
  BY DEF Init, st, StatusOf
<1>2. QED
  BY <1>1 DEF Init, Lifecycle!Init, st

LEMMA StepRefines == IInv /\ [Next]_vars => [Lifecycle!Next]_(Lifecycle!vars)
<1> SUFFICES ASSUME IInv, [Next]_vars
             PROVE  [Lifecycle!Next]_(Lifecycle!vars)
  OBVIOUS
<1> USE DEF IInv
<1>1. ASSUME outcome' = outcome, Running' = Running, calls' = calls
      PROVE  UNCHANGED Lifecycle!vars
  BY <1>1 DEF Lifecycle!vars, StatusOf
<1>2. ASSUME outcome' = outcome, execs' = execs, calls' = calls
      PROVE  UNCHANGED Lifecycle!vars
  BY <1>1, <1>2, Still
<1>3. ASSUME NEW t \in Tasks, EnqueueTask(t)
      PROVE  Lifecycle!Accept(t)
  <2>1. /\ outcome[t] = "new" /\ outcome' = [outcome EXCEPT ![t] = "live"]
        /\ execs' = execs /\ calls' = calls
    BY <1>3 DEF EnqueueTask, workVars
  <2>2. Running' = Running /\ t \notin Running
    BY <2>1, Still DEF Placed, NothingLost
  <2>3. st[t] = "new" /\ StatusOf(t)' = "pending"
    BY <2>1, <2>2 DEF st, StatusOf, TypeOK
  <2>4. st' = [st EXCEPT ![t] = "pending"]
    BY <2>1, <2>2, <2>3, StatusMoves DEF TypeOK
  <2>5. QED
    BY <2>1, <2>3, <2>4 DEF Lifecycle!Accept, Lifecycle!Move, st
<1>4. ASSUME NEW s \in Servers, WatchStep(s), NEW t, t = watch[s].task
      PROVE  [Lifecycle!Next]_(Lifecycle!vars)
  <2>1. ASSUME s \in Watching
        PROVE  /\ t \in Tasks /\ t \notin Running /\ outcome[t] = "live"
               /\ calls[t] = retried[t] /\ st[t] = "pending"
    <3>1. t \in Tasks /\ t \in Waiting
      BY <1>4, <2>1 DEF TypeOK, InWatch, Watching, Waiting
    <3>2. QED
      BY <3>1 DEF Placed, OnePlace, NothingLost, Counts, st, StatusOf
  <2>2. CASE WatchRoute(s) /\ Request[t].name \notin handlers
    <3>1. /\ s \in Watching /\ outcome' = [outcome EXCEPT ![t] = "noHandler"]
          /\ execs' = execs /\ calls' = calls
      BY <1>4, <2>2 DEF WatchRoute, Watching, workVars
    <3>2. Running' = Running
      BY <3>1, Still
    <3>3. StatusOf(t)' = "settled"
      BY <2>1, <3>1 DEF StatusOf, TypeOK
    <3>4. st' = [st EXCEPT ![t] = "settled"]
      BY <2>1, <3>1, <3>2, <3>3, StatusMoves DEF TypeOK
    <3>5. Lifecycle!Discard(t)
      BY <2>1, <3>1, <3>4 DEF Lifecycle!Discard, Lifecycle!Move, st
    <3>6. QED
      BY <2>1, <3>1, <3>5 DEF Lifecycle!Next
  <2>3. CASE WatchSubmit(s)
    <3> DEFINE e == [task |-> t, n |-> retried[t], pc |-> "run"]
    <3>1. /\ s \in Watching /\ outcome' = outcome /\ execs' = execs \cup {e}
          /\ calls' = [calls EXCEPT ![t] = @ + 1]
      BY <1>4, <2>3 DEF WatchSubmit, Watching
    <3>2. Running' = Running \cup {t}
      <4>1. RunningExecs' = RunningExecs \cup {e} /\ e.task = t
        BY <3>1 DEF RunningExecs
      <4> HIDE DEF e
      <4>2. QED
        BY <4>1 DEF Running
    <3>3. StatusOf(t)' = "running"
      BY <2>1, <3>1, <3>2 DEF StatusOf
    <3>4. st' = [st EXCEPT ![t] = "running"]
      BY <2>1, <3>1, <3>2, <3>3, StatusMoves
    <3>5. calls[t] <= [u \in Tasks |-> MaxRetryOf(u)][t]
      BY <2>1, <3>1, MaxRetryType DEF Counts, TypeOK
    <3>6. Lifecycle!Call(t)
      BY <2>1, <3>1, <3>4, <3>5 DEF Lifecycle!Call, Lifecycle!Move, st
    <3>7. QED
      BY <2>1, <3>1, <3>6 DEF Lifecycle!Next
  <2>4. QED
    BY <1>2, <1>4, <2>2, <2>3
       DEF WatchStep, WatchRecv, WatchRoute, WatchSlot, WatchAdd, workVars,
           taskVars
<1>5. ASSUME NEW e \in execs, ExecStep(e)
      PROVE  [Lifecycle!Next]_(Lifecycle!vars)
  <2> DEFINE t == e.task
  <2>1. t \in Tasks
    BY DEF TypeOK, Exec
  <2>2. CASE RunEnds(e)
    <3>1. e.pc = "run" /\ ExecTo(e, "done") /\ calls' = calls
      BY <2>2 DEF RunEnds, RunSucceeds, RunPanics, RunFails
    <3>2. t \in Running /\ Running' = Running \ {t}
      BY <3>1, RunLeaves DEF Placed
    <3>3. outcome[t] = "live" /\ calls[t] = retried[t] + 1 /\ st[t] = "running"
      BY <2>1, <3>2 DEF Placed, NothingLost, Counts, st, StatusOf
    <3>4. ASSUME NEW how \in {"done", "panicked", "gaveUp"}, SettledAs(t, how)
          PROVE  Lifecycle!Settle(t)
      <4>1. outcome' = [outcome EXCEPT ![t] = how]
        BY <3>4 DEF SettledAs
      <4>2. StatusOf(t)' = "settled"
        BY <2>1, <4>1 DEF StatusOf, TypeOK
      <4>3. st' = [st EXCEPT ![t] = "settled"]
        BY <2>1, <3>2, <4>1, <4>2, StatusMoves DEF TypeOK
      <4>4. QED
        BY <2>1, <3>1, <3>3, <4>3 DEF Lifecycle!Settle, Lifecycle!Move, st
    <3>5. ASSUME retried[t] < MaxRetryOf(t), outcome' = outcome
          PROVE  Lifecycle!Retry(t)
      <4>1. StatusOf(t)' = "pending"
        BY <2>1, <3>2, <3>3, <3>5 DEF StatusOf
      <4>2. st' = [st EXCEPT ![t] = "pending"]
        BY <2>1, <3>2, <3>5, <4>1, StatusMoves
      <4>3. calls[t] <= [u \in Tasks |-> MaxRetryOf(u)][t]
        BY <2>1, <3>3, <3>5, MaxRetryType DEF TypeOK
      <4>4. QED
        BY <2>1, <3>1, <3>3, <4>2, <4>3 DEF Lifecycle!Retry, Lifecycle!Move, st
    <3>6. QED
      BY <2>1, <2>2, <3>4, <3>5
         DEF RunEnds, RunSucceeds, RunPanics, RunFails, RetriesLeft,
             Lifecycle!Next
  <2>3. ASSUME ExecDone(e) \/ ExecRelease(e)
        PROVE  UNCHANGED Lifecycle!vars
    <3>1. /\ e.pc # "run" /\ (execs' = execs \ {e} \/ ExecTo(e, "release"))
          /\ outcome' = outcome /\ calls' = calls
      BY <2>3 DEF ExecDone, ExecRelease, taskVars
    <3>2. Running' = Running
      BY <3>1, RunOver
    <3>3. QED
      BY <1>1, <3>1, <3>2
  <2>4. QED
    BY <1>5, <2>2, <2>3 DEF ExecStep
<1>6. ASSUME \/ \E t \in Tasks : BecomeDue(t)
             \/ \E name \in Names : Register(name)
             \/ \E s \in Servers : StartServer(s) \/ LoopStep(s)
             \/ \E w \in Waiters : WaitCall(w) \/ WaitStep(w)
             \/ UNCHANGED vars
      PROVE  UNCHANGED Lifecycle!vars
  <2>1. outcome' = outcome /\ execs' = execs /\ calls' = calls
    BY <1>6 DEF BecomeDue, Register, StartServer, LoopStep, LoopPoll, LoopTake,
                LoopWake, LoopPutBack, LoopSend, WaitCall, WaitStep, WaitGroup,
                WaitResume, workVars, taskVars, vars
  <2>2. QED
    BY <1>2, <2>1
<1>7. QED
  <2>1. ASSUME NEW t \in Tasks, EnqueueTask(t) PROVE Lifecycle!Next
    BY <1>3, <2>1 DEF Lifecycle!Next
  <2>2. QED
    BY <1>4, <1>5, <1>6, <2>1, Zenon DEF Next

(* The queue implements TaskLifecycle: at most one worker per task at a    *)
(* time, at most Limit[t] + 1 calls, and no call after the task settled.   *)
THEOREM Refinement == Spec => ImplementsLifecycle
BY InitRefines, StepRefines, InitIInv, NextIInv, PTL
   DEF Spec, ImplementsLifecycle, Lifecycle!Spec

-----------------------------------------------------------------------------
(* The two sides of SlotsAccounted: the closures of a group in the pool    *)
(* and the watchers between its slot and the pool.                         *)
Mine(g) == {e \in execs : GroupOf(e.task) = g}
Unfinished(g) == {e \in Mine(g) : e.pc # "release"}
WatchersAt(g, pcs) == {s \in Servers : watch[s].pc \in pcs /\ GroupOf(watch[s].task) = g}
Slotted(g) == WatchersAt(g, {"add", "submit"})
Added(g) == WatchersAt(g, {"submit"})

Finite == IsFiniteSet(execs) /\ IsFiniteSet(started)

(* Two closures of one task are different calls of its handler. *)
Fresh == /\ \A e \in execs : e.n < calls[e.task]
         /\ \A e, f \in execs : e.task = f.task /\ e.n = f.n => e = f

Slots == \A g \in GroupIds : chs[g] = Cardinality(Mine(g)) + Cardinality(Slotted(g))

Counters == \A g \in GroupIds :
              wg[g] = Cardinality(Unfinished(g)) + Cardinality(Added(g))

Within == \A g \in GroupIds : chs[g] <= Cap(g)

(* The inductive invariant, together with IInv. *)
SInv == Finite /\ Fresh /\ Slots /\ Counters /\ Within

-----------------------------------------------------------------------------
LEMMA GroupType == \A t \in Tasks : GroupOf(t) \in GroupIds
BY QueueAssumption DEF GroupOf, GroupIds

LEMMA CapType == \A g \in GroupIds : Cap(g) \in Nat \ {0}
<1> SUFFICES ASSUME NEW g \in GroupIds PROVE Cap(g) \in Nat \ {0}
  OBVIOUS
<1> DEFINE share == IF Groups[g] \in 1..10 THEN Groups[g] ELSE 1
           v == (MaxWorkers * share) \div 10
<1>1. share \in Int /\ MaxWorkers \in Int
  BY QueueAssumption
<1>2. MaxWorkers * share \in Int
  BY <1>1
<1>3. v \in Int
  BY <1>2
<1>4. Cap(g) = IF v < 1 THEN 1 ELSE v
  BY DEF Cap, NumberFromPercent
<1> HIDE DEF v
<1>5. QED
  BY <1>3, <1>4

(* The sets are finite. *)
LEMMA Small ==
  ASSUME IInv, Finite, NEW g
  PROVE  /\ IsFiniteSet(Mine(g)) /\ IsFiniteSet(Unfinished(g))
         /\ IsFiniteSet(Slotted(g)) /\ IsFiniteSet(Added(g))
<1>1. Mine(g) \subseteq execs /\ Unfinished(g) \subseteq execs
  BY DEF Mine, Unfinished
<1>2. Slotted(g) \subseteq started /\ Added(g) \subseteq started
  BY AtWork DEF IInv, Slotted, Added, WatchersAt
<1>3. QED
  BY <1>1, <1>2, FS_Subset DEF Finite

(* Cardinalities of a set that gains or loses one element. *)
LEMMA OneMore ==
  ASSUME NEW S, IsFiniteSet(S), NEW x, x \notin S
  PROVE  /\ IsFiniteSet(S \cup {x})
         /\ Cardinality(S \cup {x}) = Cardinality(S) + 1
         /\ Cardinality(S) \in Nat
BY FS_AddElement, FS_CardinalityType

LEMMA OneLess ==
  ASSUME NEW S, IsFiniteSet(S), NEW x \in S
  PROVE  /\ IsFiniteSet(S \ {x})
         /\ Cardinality(S \ {x}) = Cardinality(S) - 1
         /\ Cardinality(S) \in Nat
BY FS_RemoveElement, FS_CardinalityType

(* A watcher that moves. *)
LEMMA WatcherMoves ==
  ASSUME TypeOK, NEW s \in Servers, NEW p, NEW x, WatchTo(s, p, x), NEW g
  PROVE  /\ Slotted(g)' = (Slotted(g) \ {s})
                            \cup (IF p \in {"add", "submit"} /\ GroupOf(x) = g
                                  THEN {s} ELSE {})
         /\ Added(g)' = (Added(g) \ {s})
                          \cup (IF p = "submit" /\ GroupOf(x) = g
                                THEN {s} ELSE {})
<1>1. watch' = [watch EXCEPT ![s] = [pc |-> p, task |-> x]]
  BY DEF WatchTo
<1>2. /\ watch'[s] = [pc |-> p, task |-> x]
      /\ \A r \in Servers \ {s} : watch'[r] = watch[r]
  BY <1>1 DEF TypeOK
<1>3. QED
  BY <1>2 DEF Slotted, Added, WatchersAt

(* Nothing of the groups is touched. *)
LEMMA GroupsStill ==
  ASSUME SInv, execs' = execs, started' = started, chs' = chs, wg' = wg,
         calls' = calls, \A g \in GroupIds : Slotted(g)' = Slotted(g)
                                             /\ Added(g)' = Added(g)
  PROVE  SInv'
BY DEF SInv, Finite, Fresh, Slots, Counters, Within, Mine, Unfinished

LEMMA WatchStill ==
  ASSUME watch' = watch, NEW g
  PROVE  Slotted(g)' = Slotted(g) /\ Added(g)' = Added(g)
BY DEF Slotted, Added, WatchersAt

LEMMA InitSInv == Init => SInv
<1> SUFFICES ASSUME Init PROVE SInv
  OBVIOUS
<1>1. ASSUME NEW g \in GroupIds
      PROVE  /\ Mine(g) = {} /\ Unfinished(g) = {}
             /\ Slotted(g) = {} /\ Added(g) = {}
  BY DEF Init, Mine, Unfinished, Slotted, Added, WatchersAt, Off
<1>2. IsFiniteSet({}) /\ Cardinality({}) = 0
  BY FS_EmptySet
<1>3. Slots /\ Counters
  <2>1. ASSUME NEW g \in GroupIds
        PROVE  /\ Cardinality(Mine(g)) = 0 /\ Cardinality(Unfinished(g)) = 0
               /\ Cardinality(Slotted(g)) = 0 /\ Cardinality(Added(g)) = 0
               /\ chs[g] = 0 /\ wg[g] = 0
    BY <1>1, <1>2 DEF Init
  <2>2. QED
    BY <2>1 DEF Slots, Counters
<1>4. Within
  BY CapType DEF Init, Within
<1>5. QED
  BY <1>2, <1>3, <1>4 DEF Init, SInv, Finite, Fresh

-----------------------------------------------------------------------------
(* A watcher takes its slot, counts the call, and hands it to the pool. *)
LEMMA WatchStepSInv ==
  ASSUME IInv, SInv, NEW s \in Servers, WatchStep(s)
  PROVE  SInv'
<1> DEFINE t == watch[s].task
           k == GroupOf(t)
<1>0. TypeOK
  BY DEF IInv
<1>1. started' = started
  BY DEF WatchStep, WatchRecv, WatchRoute, WatchSlot, WatchAdd, WatchSubmit
<1>2. s \in Watching => /\ t \in Tasks /\ k \in GroupIds
                        /\ calls[t] = retried[t]
  <2>1. s \in Watching => t \in Tasks /\ t \in Waiting
    BY <1>0 DEF TypeOK, InWatch, Waiting
  <2>2. QED
    BY <2>1, GroupType DEF IInv, Counts
<1>3. \A g \in GroupIds :
        /\ IsFiniteSet(Mine(g)) /\ IsFiniteSet(Unfinished(g))
        /\ IsFiniteSet(Slotted(g)) /\ IsFiniteSet(Added(g))
  BY Small DEF SInv
<1>4. \A g \in GroupIds :
        /\ Cardinality(Mine(g)) \in Nat /\ Cardinality(Unfinished(g)) \in Nat
        /\ Cardinality(Slotted(g)) \in Nat /\ Cardinality(Added(g)) \in Nat
  BY <1>3, FS_CardinalityType
<1>5. CASE WatchRecv(s) \/ WatchRoute(s)
  <2>1. /\ execs' = execs /\ chs' = chs /\ wg' = wg /\ calls' = calls
        /\ watch[s].pc \in {"recv", "route"}
        /\ \E x : \E p \in {"recv", "route", "slot"} : WatchTo(s, p, x)
    BY <1>5 DEF WatchRecv, WatchRoute, workVars, taskVars
  <2>2. ASSUME NEW g \in GroupIds
        PROVE  Slotted(g)' = Slotted(g) /\ Added(g)' = Added(g)
    <3>1. s \notin Slotted(g) /\ s \notin Added(g)
      BY <2>1 DEF Slotted, Added, WatchersAt
    <3>2. PICK x : \E p \in {"recv", "route", "slot"} : WatchTo(s, p, x)
      BY <2>1
    <3>3. PICK p \in {"recv", "route", "slot"} : WatchTo(s, p, x)
      BY <3>2
    <3>4. QED
      BY <1>0, <3>1, <3>3, WatcherMoves
  <2>3. QED
    BY <1>1, <2>1, <2>2, GroupsStill
<1>6. CASE WatchSlot(s)
  <2>1. /\ WatchTo(s, "add", t) /\ chs' = [chs EXCEPT ![k] = @ + 1]
        /\ chs[k] < Cap(k)
        /\ execs' = execs /\ wg' = wg /\ calls' = calls
        /\ watch[s].pc = "slot" /\ s \in Watching
    BY <1>6 DEF WatchSlot, HasFreeSlot, Watching, taskVars
  <2>2. ASSUME NEW g \in GroupIds
        PROVE  /\ s \notin Slotted(g) /\ Added(g)' = Added(g)
               /\ Slotted(g)' = Slotted(g) \cup (IF k = g THEN {s} ELSE {})
    <3>1. s \notin Slotted(g) /\ s \notin Added(g)
      BY <2>1 DEF Slotted, Added, WatchersAt
    <3>2. QED
      BY <1>0, <2>1, <3>1, WatcherMoves
  <2>3. /\ chs'[k] = chs[k] + 1
        /\ \A g \in GroupIds \ {k} : chs'[g] = chs[g]
    BY <1>0, <1>2, <2>1 DEF TypeOK
  <2>4. ASSUME NEW g \in GroupIds
        PROVE  chs'[g] = Cardinality(Mine(g)') + Cardinality(Slotted(g)')
    <3>1. Mine(g)' = Mine(g)
      BY <2>1 DEF Mine
    <3>2. CASE g = k
      <4>1. Cardinality(Slotted(g)') = Cardinality(Slotted(g)) + 1
        BY <1>3, <2>2, <3>2, OneMore
      <4>2. QED
        BY <1>4, <2>3, <3>1, <3>2, <4>1 DEF SInv, Slots
    <3>3. CASE g # k
      BY <2>2, <2>3, <3>1, <3>3 DEF SInv, Slots
    <3>4. QED
      BY <3>2, <3>3
  <2>5. Slots'
    BY <2>4 DEF Slots
  <2>6. Counters'
    BY <2>1, <2>2 DEF SInv, Counters, Unfinished, Mine
  <2>7. Within'
    <3>1. chs[k] \in Int
      BY <1>0, <1>2, <2>1 DEF TypeOK
    <3>2. chs'[k] <= Cap(k)
      BY <1>2, <2>1, <2>3, <3>1, CapType
    <3>3. QED
      BY <2>3, <3>2 DEF SInv, Within
  <2>8. QED
    BY <1>1, <2>1, <2>5, <2>6, <2>7 DEF SInv, Finite, Fresh
<1>7. CASE WatchAdd(s)
  <2>1. /\ WatchTo(s, "submit", t) /\ wg' = [wg EXCEPT ![k] = @ + 1]
        /\ execs' = execs /\ chs' = chs /\ calls' = calls
        /\ watch[s].pc = "add" /\ s \in Watching
    BY <1>7 DEF WatchAdd, Watching, taskVars
  <2>2. ASSUME NEW g \in GroupIds
        PROVE  /\ s \notin Added(g) /\ Slotted(g)' = Slotted(g)
               /\ Added(g)' = Added(g) \cup (IF k = g THEN {s} ELSE {})
    <3>1. s \notin Added(g) /\ (s \in Slotted(g) <=> k = g)
      BY <2>1 DEF Slotted, Added, WatchersAt
    <3>2. QED
      BY <1>0, <2>1, <3>1, WatcherMoves
  <2>3. /\ wg'[k] = wg[k] + 1
        /\ \A g \in GroupIds \ {k} : wg'[g] = wg[g]
    BY <1>0, <1>2, <2>1 DEF TypeOK
  <2>4. ASSUME NEW g \in GroupIds
        PROVE  wg'[g] = Cardinality(Unfinished(g)') + Cardinality(Added(g)')
    <3>1. Unfinished(g)' = Unfinished(g)
      BY <2>1 DEF Mine, Unfinished
    <3>2. CASE g = k
      <4>1. Cardinality(Added(g)') = Cardinality(Added(g)) + 1
        BY <1>3, <2>2, <3>2, OneMore
      <4>2. QED
        BY <1>4, <2>3, <3>1, <3>2, <4>1 DEF SInv, Counters
    <3>3. CASE g # k
      BY <2>2, <2>3, <3>1, <3>3 DEF SInv, Counters
    <3>4. QED
      BY <3>2, <3>3
  <2>5. Slots' /\ Within'
    BY <2>1, <2>2 DEF SInv, Slots, Within, Mine
  <2>6. Counters'
    BY <2>4 DEF Counters
  <2>7. QED
    BY <1>1, <2>1, <2>5, <2>6 DEF SInv, Finite, Fresh
<1>8. CASE WatchSubmit(s)
  <2> DEFINE e == [task |-> t, n |-> retried[t], pc |-> "run"]
  <2>1. /\ WatchTo(s, "recv", None) /\ execs' = execs \cup {e}
        /\ calls' = [calls EXCEPT ![t] = @ + 1]
        /\ chs' = chs /\ wg' = wg
        /\ watch[s].pc = "submit" /\ s \in Watching
    BY <1>8 DEF WatchSubmit, Watching
  <2>2. e.task = t /\ e.n = retried[t] /\ e.pc = "run"
    OBVIOUS
  <2> HIDE DEF e
  <2>3. \A f \in execs : f.task \in Tasks /\ f.n \in Nat
    BY <1>0 DEF TypeOK, Exec
  <2>4. /\ calls'[t] = calls[t] + 1 /\ calls[t] \in Nat
        /\ \A u \in Tasks \ {t} : calls'[u] = calls[u] /\ calls[u] \in Nat
    BY <1>0, <1>2, <2>1 DEF TypeOK
  <2>5. \A f \in execs : ~(f.task = e.task /\ f.n = e.n)
    BY <1>2, <2>1, <2>2, <2>3, <2>4 DEF SInv, Fresh
  <2>6. Fresh'
    <3>1. \A f \in execs' : f.n < calls'[f.task]
      BY <1>2, <2>1, <2>2, <2>3, <2>4 DEF SInv, Fresh
    <3>2. \A f, d \in execs' : f.task = d.task /\ f.n = d.n => f = d
      BY <2>1, <2>5 DEF SInv, Fresh
    <3>3. QED
      BY <3>1, <3>2 DEF Fresh
  <2>7. e \notin execs
    BY <2>5
  <2>8. ASSUME NEW g \in GroupIds
        PROVE  /\ Slotted(g)' = Slotted(g) \ {s} /\ Added(g)' = Added(g) \ {s}
               /\ (s \in Slotted(g) <=> k = g) /\ (s \in Added(g) <=> k = g)
               /\ Mine(g)' = Mine(g) \cup (IF k = g THEN {e} ELSE {})
               /\ Unfinished(g)' = Unfinished(g) \cup (IF k = g THEN {e} ELSE {})
               /\ e \notin Mine(g) /\ e \notin Unfinished(g)
    <3>1. (s \in Slotted(g) <=> k = g) /\ (s \in Added(g) <=> k = g)
      BY <2>1 DEF Slotted, Added, WatchersAt
    <3>2. Slotted(g)' = Slotted(g) \ {s} /\ Added(g)' = Added(g) \ {s}
      BY <1>0, <2>1, WatcherMoves
    <3>3. Mine(g)' = Mine(g) \cup (IF k = g THEN {e} ELSE {})
      BY <2>1, <2>2 DEF Mine
    <3>4. Unfinished(g)' = Unfinished(g) \cup (IF k = g THEN {e} ELSE {})
      BY <2>2, <3>3 DEF Unfinished
    <3>5. QED
      BY <2>7, <3>1, <3>2, <3>3, <3>4 DEF Mine, Unfinished
  <2>9. ASSUME NEW g \in GroupIds
        PROVE  /\ chs'[g] = Cardinality(Mine(g)') + Cardinality(Slotted(g)')
               /\ wg'[g] = Cardinality(Unfinished(g)') + Cardinality(Added(g)')
    <3>1. CASE k = g
      <4>1. /\ Cardinality(Mine(g)') = Cardinality(Mine(g)) + 1
            /\ Cardinality(Unfinished(g)') = Cardinality(Unfinished(g)) + 1
        BY <1>3, <2>8, <3>1, OneMore
      <4>2. /\ Cardinality(Slotted(g)') = Cardinality(Slotted(g)) - 1
            /\ Cardinality(Added(g)') = Cardinality(Added(g)) - 1
        BY <1>3, <2>8, <3>1, OneLess
      <4>3. QED
        BY <1>4, <2>1, <4>1, <4>2 DEF SInv, Slots, Counters
    <3>2. CASE k # g
      <4>1. /\ Mine(g)' = Mine(g) /\ Unfinished(g)' = Unfinished(g)
            /\ Slotted(g)' = Slotted(g) /\ Added(g)' = Added(g)
        BY <2>8, <3>2
      <4>2. QED
        BY <2>1, <4>1 DEF SInv, Slots, Counters
    <3>3. QED
      BY <3>1, <3>2
  <2>10. Finite'
    BY <1>1, <2>1, FS_AddElement DEF SInv, Finite
  <2>11. Slots' /\ Counters' /\ Within'
    BY <2>1, <2>9 DEF SInv, Slots, Counters, Within
  <2>12. QED
    BY <2>6, <2>10, <2>11 DEF SInv
<1>9. QED
  BY <1>5, <1>6, <1>7, <1>8 DEF WatchStep

-----------------------------------------------------------------------------
(* A closure goes on: it stays one closure of its group. *)
LEMMA ExecMoves ==
  ASSUME IInv, SInv, NEW e \in execs, NEW pc \in ExecPC, pc # e.pc,
         ExecTo(e, pc), started' = started, watch' = watch, calls' = calls,
         NEW g \in GroupIds
  PROVE  /\ Finite' /\ Fresh'
         /\ Cardinality(Mine(g)') = Cardinality(Mine(g))
         /\ Cardinality(Unfinished(g)') =
              Cardinality(Unfinished(g))
                - (IF e.pc # "release" /\ GroupOf(e.task) = g THEN 1 ELSE 0)
                + (IF pc # "release" /\ GroupOf(e.task) = g THEN 1 ELSE 0)
<1> DEFINE f == At(e, pc)
<1>1. /\ f.task = e.task /\ f.n = e.n /\ f.pc = pc
      /\ execs' = (execs \ {e}) \cup {f}
  BY DEF At, ExecTo
<1> HIDE DEF f
<1>2. f \notin execs
  BY <1>1 DEF SInv, Fresh
<1>3. Finite'
  BY <1>1, FS_AddElement, FS_RemoveElement DEF SInv, Finite
<1>4. Fresh'
  BY <1>1 DEF SInv, Fresh
<1>5. /\ IsFiniteSet(Mine(g)) /\ IsFiniteSet(Unfinished(g))
      /\ Cardinality(Mine(g)) \in Nat /\ Cardinality(Unfinished(g)) \in Nat
  BY Small, FS_CardinalityType DEF SInv
<1>6. CASE GroupOf(e.task) = g
  <2>1. Mine(g)' = (Mine(g) \ {e}) \cup {f} /\ e \in Mine(g) /\ f \notin Mine(g)
    BY <1>1, <1>2, <1>6 DEF Mine
  <2>2. /\ IsFiniteSet(Mine(g) \ {e})
        /\ Cardinality(Mine(g) \ {e}) = Cardinality(Mine(g)) - 1
    BY <1>5, <2>1, OneLess
  <2>3. Cardinality(Mine(g)') = Cardinality(Mine(g))
    <3> DEFINE S == Mine(g) \ {e}
    <3>1. f \notin S /\ IsFiniteSet(S)
      BY <2>1, <2>2
    <3>2. Cardinality(S \cup {f}) = Cardinality(S) + 1 /\ Cardinality(S) \in Nat
      BY <3>1, OneMore
    <3>3. QED
      BY <1>5, <2>1, <2>2, <3>2
  <2>4. Unfinished(g)' = (Unfinished(g) \ {e}) \cup (IF pc # "release" THEN {f} ELSE {})
    BY <1>1, <2>1 DEF Unfinished
  <2>5. f \notin Unfinished(g) /\ (e \in Unfinished(g) <=> e.pc # "release")
    BY <2>1 DEF Unfinished
  <2>6. /\ IsFiniteSet(Unfinished(g) \ {e})
        /\ Cardinality(Unfinished(g) \ {e}) =
             Cardinality(Unfinished(g)) - (IF e.pc # "release" THEN 1 ELSE 0)
    BY <1>5, <2>5, FS_RemoveElement
  <2>7. Cardinality(Unfinished(g)') =
          Cardinality(Unfinished(g) \ {e}) + (IF pc # "release" THEN 1 ELSE 0)
    <3>1. CASE pc # "release"
      BY <2>4, <2>5, <2>6, <3>1, OneMore
    <3>2. CASE pc = "release"
      <4>1. Cardinality(Unfinished(g) \ {e}) \in Nat
        BY <2>6, FS_CardinalityType
      <4>2. Unfinished(g)' = Unfinished(g) \ {e}
        BY <2>4, <3>2
      <4>3. QED
        BY <3>2, <4>1, <4>2
    <3>3. QED
      BY <3>1, <3>2
  <2>8. QED
    BY <1>3, <1>4, <1>6, <2>3, <2>6, <2>7
<1>7. CASE GroupOf(e.task) # g
  <2>1. Mine(g)' = Mine(g)
    BY <1>1, <1>7 DEF Mine
  <2>2. Unfinished(g)' = Unfinished(g)
    BY <2>1 DEF Unfinished
  <2>3. QED
    BY <1>3, <1>4, <1>5, <1>7, <2>1, <2>2
<1>8. QED
  BY <1>6, <1>7

(* The handler ends, wg.Done, the slot is given back. *)
LEMMA ExecStepSInv ==
  ASSUME IInv, SInv, NEW e \in execs, ExecStep(e)
  PROVE  SInv'
<1> DEFINE k == GroupOf(e.task)
<1>1. /\ started' = started /\ watch' = watch /\ calls' = calls
  BY DEF ExecStep, RunEnds, RunSucceeds, RunPanics, RunFails, ExecDone,
         ExecRelease, taskVars
<1>2. \A g : Slotted(g)' = Slotted(g) /\ Added(g)' = Added(g)
  BY <1>1, WatchStill
<1>3. e \in Exec /\ k \in GroupIds
  BY GroupType DEF IInv, TypeOK, Exec
<1>4. \A g \in GroupIds :
        /\ IsFiniteSet(Mine(g)) /\ IsFiniteSet(Unfinished(g))
        /\ Cardinality(Mine(g)) \in Nat /\ Cardinality(Unfinished(g)) \in Nat
        /\ Cardinality(Slotted(g)) \in Nat /\ Cardinality(Added(g)) \in Nat
  BY Small, FS_CardinalityType DEF SInv
<1>5. CASE RunEnds(e)
  <2>1. /\ e.pc = "run" /\ ExecTo(e, "done") /\ chs' = chs /\ wg' = wg
    BY <1>5 DEF RunEnds, RunSucceeds, RunPanics, RunFails
  <2>2. "done" \in ExecPC
    BY DEF ExecPC
  <2>3. \A g \in GroupIds :
          /\ Finite' /\ Fresh'
          /\ Cardinality(Mine(g)') = Cardinality(Mine(g))
          /\ Cardinality(Unfinished(g)') = Cardinality(Unfinished(g))
    BY <1>1, <1>4, <2>1, <2>2, ExecMoves
  <2>4. Slots' /\ Counters' /\ Within'
    BY <1>2, <2>1, <2>3 DEF SInv, Slots, Counters, Within
  <2>5. QED
    BY <1>3, <2>3, <2>4 DEF SInv
<1>6. CASE ExecDone(e)
  <2>1. /\ e.pc = "done" /\ ExecTo(e, "release") /\ chs' = chs
        /\ wg' = [wg EXCEPT ![k] = @ - 1]
    BY <1>6 DEF ExecDone, WgAfterDone
  <2>2. "release" \in ExecPC
    BY DEF ExecPC
  <2>3. \A g \in GroupIds :
          /\ Finite' /\ Fresh'
          /\ Cardinality(Mine(g)') = Cardinality(Mine(g))
          /\ Cardinality(Unfinished(g)') =
               Cardinality(Unfinished(g)) - (IF k = g THEN 1 ELSE 0)
    BY <1>1, <1>4, <2>1, <2>2, ExecMoves
  <2>4. Slots' /\ Within'
    BY <1>2, <2>1, <2>3 DEF SInv, Slots, Within
  <2>5. \A g \in GroupIds : wg'[g] = wg[g] - (IF k = g THEN 1 ELSE 0)
    BY <1>3, <2>1 DEF IInv, TypeOK
  <2>6. Counters'
    BY <1>2, <1>4, <2>3, <2>5 DEF SInv, Counters
  <2>7. QED
    BY <1>3, <2>3, <2>4, <2>6 DEF SInv
<1>7. CASE ExecRelease(e)
  <2>1. /\ e.pc = "release" /\ execs' = execs \ {e} /\ wg' = wg
        /\ chs' = [chs EXCEPT ![k] = @ - 1]
    BY <1>7 DEF ExecRelease, SlotsAfterRelease
  <2>2. Finite' /\ Fresh'
    BY <1>1, <2>1, FS_RemoveElement DEF SInv, Finite, Fresh
  <2>3. \A g \in GroupIds : chs'[g] = chs[g] - (IF k = g THEN 1 ELSE 0)
    BY <1>3, <2>1 DEF IInv, TypeOK
  <2>4. ASSUME NEW g \in GroupIds
        PROVE  /\ Unfinished(g)' = Unfinished(g)
               /\ Cardinality(Mine(g)') = Cardinality(Mine(g)) - (IF k = g THEN 1 ELSE 0)
    <3>1. Mine(g)' = Mine(g) \ {e} /\ (e \in Mine(g) <=> k = g)
      BY <2>1 DEF Mine
    <3>2. Unfinished(g)' = Unfinished(g)
      BY <2>1, <3>1 DEF Unfinished
    <3>3. Cardinality(Mine(g) \ {e}) =
            IF e \in Mine(g) THEN Cardinality(Mine(g)) - 1 ELSE Cardinality(Mine(g))
      BY <1>4, FS_RemoveElement
    <3>4. QED
      BY <1>4, <3>1, <3>2, <3>3
  <2>5. Slots' /\ Counters'
    BY <1>2, <1>4, <2>1, <2>3, <2>4 DEF SInv, Slots, Counters
  <2>6. Within'
    <3>1. \A g \in GroupIds : chs[g] \in Int /\ Cap(g) \in Nat
      BY CapType DEF IInv, TypeOK
    <3>2. QED
      BY <2>3, <3>1 DEF SInv, Within
  <2>7. QED
    BY <2>2, <2>5, <2>6 DEF SInv
<1>8. QED
  BY <1>5, <1>6, <1>7 DEF ExecStep

LEMMA NextSInv == IInv /\ SInv /\ [Next]_vars => SInv'
<1> SUFFICES ASSUME IInv, SInv, [Next]_vars PROVE SInv'
  OBVIOUS
<1>1. ASSUME NEW s \in Servers, StartServer(s) PROVE SInv'
  <2>1. /\ started' = started \cup {s} /\ WatchTo(s, "recv", None)
        /\ execs' = execs /\ chs' = chs /\ wg' = wg /\ calls' = calls
        /\ watch[s].pc = "off"
    BY <1>1 DEF StartServer, workVars, taskVars, IInv, NotStarted, Off
  <2>2. ASSUME NEW g \in GroupIds
        PROVE  Slotted(g)' = Slotted(g) /\ Added(g)' = Added(g)
    <3>1. s \notin Slotted(g) /\ s \notin Added(g)
      BY <2>1 DEF Slotted, Added, WatchersAt
    <3>2. QED
      BY <2>1, <3>1, WatcherMoves DEF IInv
  <2>3. Finite'
    BY <2>1, FS_AddElement DEF SInv, Finite
  <2>4. QED
    BY <2>1, <2>2, <2>3
       DEF SInv, Fresh, Slots, Counters, Within, Mine, Unfinished
<1>2. ASSUME \/ \E t \in Tasks : EnqueueTask(t) \/ BecomeDue(t)
             \/ \E name \in Names : Register(name)
             \/ \E s \in Servers : LoopStep(s)
             \/ \E w \in Waiters : WaitCall(w) \/ WaitStep(w)
             \/ UNCHANGED vars
      PROVE  SInv'
  <2>1. /\ watch' = watch /\ execs' = execs /\ started' = started
        /\ chs' = chs /\ wg' = wg /\ calls' = calls
    BY <1>2 DEF EnqueueTask, BecomeDue, Register, LoopStep, LoopPoll, LoopTake,
                LoopWake, LoopPutBack, LoopSend, WaitCall, WaitStep, WaitGroup,
                WaitResume, workVars, taskVars, vars
  <2>2. QED
    BY <2>1, WatchStill, GroupsStill
<1>3. QED
  BY <1>1, <1>2, WatchStepSInv, ExecStepSInv, Zenon DEF Next

-----------------------------------------------------------------------------
(* The slots and the WaitGroup counters of every group are its calls under *)
(* way: none is leaked and none is given back twice.                       *)
THEOREM SlotsExact == Spec => []SlotsAccounted
<1>1. SInv => SlotsAccounted
  BY DEF SInv, Slots, Counters, SlotsAccounted, Mine, Unfinished, Slotted,
         Added, WatchersAt
<1>2. QED
  BY <1>1, InitIInv, NextIInv, InitSInv, NextSInv, PTL DEF Spec

(* No group runs more handlers at a time than its share of the workers,    *)
(* however many watchers StartServer has started.                          *)
THEOREM GroupsBounded == Spec => []GroupLimit
<1>1. IInv /\ SInv => GroupLimit
  <2> SUFFICES ASSUME IInv, SInv, NEW g \in GroupIds
               PROVE  Cardinality({e \in RunningExecs : GroupOf(e.task) = g}) <= Cap(g)
    BY DEF GroupLimit
  <2> DEFINE R == {e \in RunningExecs : GroupOf(e.task) = g}
  <2>1. R \subseteq Mine(g)
    BY DEF RunningExecs, Mine
  <2>2. /\ IsFiniteSet(Mine(g)) /\ IsFiniteSet(Slotted(g))
    BY Small DEF SInv
  <2>3. /\ IsFiniteSet(R) /\ Cardinality(R) <= Cardinality(Mine(g))
    BY <2>1, <2>2, FS_Subset
  <2>4. /\ Cardinality(R) \in Nat /\ Cardinality(Mine(g)) \in Nat
        /\ Cardinality(Slotted(g)) \in Nat
    BY <2>2, <2>3, FS_CardinalityType
  <2>5. /\ chs[g] = Cardinality(Mine(g)) + Cardinality(Slotted(g))
        /\ chs[g] <= Cap(g) /\ Cap(g) \in Nat
    BY CapType DEF SInv, Slots, Within
  <2> HIDE DEF R
  <2>6. Cardinality(R) <= Cap(g)
    BY <2>3, <2>4, <2>5
  <2>7. QED
    BY <2>6 DEF R
<1>2. QED
  BY <1>1, InitIInv, NextIInv, InitSInv, NextSInv, PTL DEF Spec

-----------------------------------------------------------------------------
(* Wait.  What a waiter owes are calls that were counted before: they have *)
(* been made, or a watcher is about to make them.  So none that is counted *)
(* later is among them.                                                    *)
Old == \A w \in Waiters : \A o \in waiter[w].owed :
         \/ o.n < calls[o.task]
         \/ \E s \in Servers : /\ watch[s].pc = "submit"
                               /\ watch[s].task = o.task
                               /\ o.n = retried[o.task]

(* Those still under way are in a group the waiter has yet to pass.        *)
Ahead == \A w \in Waiters :
           /\ \A o \in waiter[w].owed \cap Counted : GroupOf(o.task) \in waiter[w].left
           /\ waiter[w].pc = "returned" => waiter[w].left = {}

WInv == Old /\ Ahead

(* A call is counted until its wg.Done. *)
LEMMA CountedIs ==
  \A o : o \in Counted <=>
           \/ \E e \in execs : e.pc # "release" /\ o = [task |-> e.task, n |-> e.n]
           \/ \E s \in Servers : /\ watch[s].pc = "submit"
                                 /\ o = [task |-> watch[s].task,
                                         n |-> retried[watch[s].task]]
BY DEF Counted

(* A group whose counter is 0 has no call under way. *)
LEMMA CounterZero ==
  ASSUME IInv, SInv, NEW g \in GroupIds, wg[g] = 0, NEW o \in Counted
  PROVE  GroupOf(o.task) # g
<1>1. /\ IsFiniteSet(Unfinished(g)) /\ IsFiniteSet(Added(g))
      /\ Cardinality(Unfinished(g)) \in Nat /\ Cardinality(Added(g)) \in Nat
  BY Small, FS_CardinalityType DEF SInv
<1>2. Cardinality(Unfinished(g)) = 0 /\ Cardinality(Added(g)) = 0
  BY <1>1 DEF SInv, Counters
<1>3. Unfinished(g) = {} /\ Added(g) = {}
  BY <1>1, <1>2, FS_EmptySet
<1>4. ASSUME NEW e \in execs, e.pc # "release", o = [task |-> e.task, n |-> e.n]
      PROVE  GroupOf(o.task) # g
  BY <1>3, <1>4 DEF Unfinished, Mine
<1>5. ASSUME NEW s \in Servers, watch[s].pc = "submit",
             o = [task |-> watch[s].task, n |-> retried[watch[s].task]]
      PROVE  GroupOf(o.task) # g
  BY <1>3, <1>5 DEF Added, WatchersAt
<1>6. QED
  BY <1>4, <1>5, CountedIs

(* Steps that count no call of those owed anew. *)
LEMMA WaitersStill ==
  ASSUME WInv, waiter' = waiter, Old', Counted' \cap UNION {waiter[w].owed : w \in Waiters}
                                         \subseteq Counted
  PROVE  WInv'
BY DEF WInv, Ahead

LEMMA InitWInv == Init => WInv
BY DEF Init, WInv, Old, Ahead

(* A waiter begins, passes a group, blocks, or gives up. *)
LEMMA WaitStepWInv ==
  ASSUME IInv, SInv, WInv, NEW w \in Waiters, WaitCall(w) \/ WaitStep(w)
  PROVE  WInv'
<1>1. /\ watch' = watch /\ execs' = execs /\ retried' = retried
      /\ calls' = calls /\ Counted' = Counted
  BY DEF WaitCall, WaitStep, WaitGroup, WaitResume, workVars, taskVars, Counted
<1>2. PICK r : /\ waiter' = [waiter EXCEPT ![w] = r]
               /\ r.owed = waiter[w].owed \/ r.owed = Counted
               /\ \A o \in r.owed \cap Counted : GroupOf(o.task) \in r.left
               /\ r.pc = "returned" => r.left = {}
  <2>1. CASE WaitCall(w)
    <3> DEFINE r == [pc |-> "scan", group |-> 1, left |-> GroupIds, owed |-> Counted]
    <3>1. \A o \in Counted : GroupOf(o.task) \in GroupIds
      BY CountedType, GroupType DEF IInv
    <3>2. r.owed = Counted /\ r.left = GroupIds /\ r.pc = "scan"
      OBVIOUS
    <3>3. waiter' = [waiter EXCEPT ![w] = r]
      BY <2>1 DEF WaitCall
    <3> HIDE DEF r
    <3>4. QED
      BY <3>1, <3>2, <3>3
  <2>2. ASSUME NEW g \in GroupIds, wg[g] = 0, waiter' = [waiter EXCEPT ![w] = Passed(w, g)]
        PROVE  /\ Passed(w, g).owed = waiter[w].owed
               /\ \A o \in Passed(w, g).owed \cap Counted : GroupOf(o.task) \in Passed(w, g).left
               /\ Passed(w, g).pc = "returned" => Passed(w, g).left = {}
    <3>1. /\ Passed(w, g).owed = waiter[w].owed
          /\ Passed(w, g).left = waiter[w].left \ {g}
          /\ Passed(w, g).pc = "returned" => Passed(w, g).left = {}
      BY DEF Passed, WaiterAt
    <3>2. \A o \in Counted : GroupOf(o.task) # g
      BY <2>2, CounterZero
    <3>3. QED
      BY <3>1, <3>2 DEF WInv, Ahead
  <2>3. ASSUME NEW g, NEW pc \in {"blocked", "panicked"},
               waiter' = [waiter EXCEPT ![w] = WaiterAt(w, pc, g, waiter[w].left)]
        PROVE  \E r : /\ waiter' = [waiter EXCEPT ![w] = r]
                      /\ r.owed = waiter[w].owed
                      /\ \A o \in r.owed \cap Counted : GroupOf(o.task) \in r.left
                      /\ r.pc # "returned"
    <3> DEFINE r == WaiterAt(w, pc, g, waiter[w].left)
    <3>1. r.owed = waiter[w].owed /\ r.left = waiter[w].left /\ r.pc = pc
      BY DEF WaiterAt
    <3> HIDE DEF r
    <3>2. waiter' = [waiter EXCEPT ![w] = r]
      BY <2>3 DEF r
    <3>3. QED
      BY <2>3, <3>1, <3>2 DEF WInv, Ahead
  <2>4. waiter[w].group \in GroupIds
    BY DEF IInv, TypeOK
  <2>5. CASE \E g \in GroupIds : WaitGroup(w, g)
    <3>1. PICK g \in GroupIds : WaitGroup(w, g)
      BY <2>5
    <3>2. CASE wg[g] = 0
      <4>1. waiter' = [waiter EXCEPT ![w] = Passed(w, g)]
        BY <3>1, <3>2 DEF WaitGroup
      <4>2. QED
        BY <2>2, <3>2, <4>1
    <3>3. CASE wg[g] # 0
      <4>1. waiter' = [waiter EXCEPT ![w] = WaiterAt(w, "blocked", g, waiter[w].left)]
        BY <3>1, <3>3 DEF WaitGroup
      <4>2. QED
        BY <2>3, <4>1
    <3>4. QED
      BY <3>2, <3>3
  <2>6. CASE WaitResume(w)
    <3> DEFINE g == waiter[w].group
    <3>1. CASE wg[g] = 0
      <4>1. waiter' = [waiter EXCEPT ![w] = Passed(w, g)]
        BY <2>6, <3>1 DEF WaitResume
      <4>2. QED
        BY <2>2, <2>4, <3>1, <4>1
    <3>2. CASE wg[g] # 0
      <4>1. waiter' = [waiter EXCEPT ![w] = WaiterAt(w, "panicked", g, waiter[w].left)]
        BY <2>6, <3>2 DEF WaitResume
      <4>2. QED
        BY <2>3, <4>1
    <3>3. QED
      BY <3>1, <3>2
  <2>7. QED
    BY <2>1, <2>5, <2>6 DEF WaitStep
<1>3. /\ waiter'[w] = r
      /\ \A v \in Waiters \ {w} : waiter'[v] = waiter[v]
  BY <1>2 DEF IInv, TypeOK
<1>4. \A o \in Counted :
        \/ o.n < calls[o.task]
        \/ \E s \in Servers : /\ watch[s].pc = "submit"
                              /\ watch[s].task = o.task
                              /\ o.n = retried[o.task]
  BY CountedIs DEF SInv, Fresh
<1>5. Old'
  BY <1>1, <1>2, <1>3, <1>4 DEF WInv, Old
<1>6. Ahead'
  BY <1>1, <1>2, <1>3 DEF WInv, Ahead
<1>7. QED
  BY <1>5, <1>6 DEF WInv

(* A call that a watcher counts is not among those owed: it was never made *)
(* and nobody else has its task.                                           *)
LEMMA WatchStepWInv ==
  ASSUME IInv, SInv, WInv, NEW s \in Servers, WatchStep(s)
  PROVE  WInv'
<1> DEFINE t == watch[s].task
           c == [task |-> t, n |-> retried[t]]
<1>0. TypeOK /\ OnePlace
  BY DEF IInv, Placed
<1>1. /\ retried' = retried /\ waiter' = waiter
      /\ \A r \in Servers \ {s} : watch'[r] = watch[r]
  <2>1. \E p, x : WatchTo(s, p, x)
    BY DEF WatchStep, WatchRecv, WatchRoute, WatchSlot, WatchAdd, WatchSubmit
  <2>2. retried' = retried /\ waiter' = waiter
    BY DEF WatchStep, WatchRecv, WatchRoute, WatchSlot, WatchAdd, WatchSubmit,
           taskVars
  <2>3. QED
    BY <1>0, <2>1, <2>2 DEF WatchTo, TypeOK
<1>2. \A w \in Waiters : \A o \in waiter[w].owed : o.task \in Tasks /\ o.n \in Nat
  BY <1>0 DEF TypeOK
<1>3. CASE WatchRecv(s) \/ WatchRoute(s) \/ WatchSlot(s)
  <2>1. /\ execs' = execs /\ calls' = calls /\ watch[s].pc # "submit"
        /\ \E x : \E p \in WatchPC \ {"submit"} : WatchTo(s, p, x)
    BY <1>3 DEF WatchRecv, WatchRoute, WatchSlot, WatchPC, workVars, taskVars
  <2>2. watch'[s].pc # "submit"
    BY <1>0, <2>1 DEF WatchTo, TypeOK
  <2>3. Counted' \subseteq Counted
    BY <1>1, <2>1, <2>2 DEF Counted
  <2>4. Old'
    BY <1>1, <2>1 DEF WInv, Old
  <2>5. QED
    BY <1>1, <2>3, <2>4, WaitersStill
<1>4. CASE WatchAdd(s)
  <2>1. /\ execs' = execs /\ calls' = calls /\ watch[s].pc = "add"
        /\ watch' = [watch EXCEPT ![s] = [pc |-> "submit", task |-> t]]
        /\ s \in Watching
    BY <1>4 DEF WatchAdd, WatchTo, Watching, taskVars
  <2>2. watch'[s] = [pc |-> "submit", task |-> t]
    BY <1>0, <2>1 DEF TypeOK
  <2>3. Counted' \subseteq Counted \cup {c}
    BY <1>1, <2>1, <2>2 DEF Counted
  <2>4. /\ t \in Tasks /\ calls[t] = retried[t]
    <3>1. t \in Tasks /\ t \in Waiting
      BY <1>0, <2>1 DEF TypeOK, InWatch, Waiting
    <3>2. QED
      BY <3>1 DEF IInv, Counts
  <2>5. ASSUME NEW w \in Waiters PROVE c \notin waiter[w].owed
    <3> SUFFICES ASSUME c \in waiter[w].owed PROVE FALSE
      OBVIOUS
    <3>1. c.task = t /\ c.n = retried[t]
      OBVIOUS
    <3> HIDE DEF c
    <3>2. ~(c.n < calls[c.task])
      BY <1>0, <2>4, <3>1 DEF TypeOK
    <3>3. PICK r \in Servers : watch[r].pc = "submit" /\ watch[r].task = t
      BY <3>1, <3>2 DEF WInv, Old
    <3>4. r \in Watching
      BY <3>3 DEF Watching
    <3>5. r = s
      BY <1>0, <2>1, <3>3, <3>4 DEF OnePlace
    <3>6. QED
      BY <2>1, <3>3, <3>5
  <2>6. Old'
    BY <1>1, <2>1 DEF WInv, Old
  <2> HIDE DEF c
  <2>7. QED
    BY <1>1, <2>3, <2>5, <2>6, WaitersStill
<1>5. CASE WatchSubmit(s)
  <2> DEFINE e == [task |-> t, n |-> retried[t], pc |-> "run"]
  <2>1. /\ execs' = execs \cup {e} /\ calls' = [calls EXCEPT ![t] = @ + 1]
        /\ watch[s].pc = "submit" /\ s \in Watching
        /\ WatchTo(s, "recv", None)
    BY <1>5 DEF WatchSubmit, Watching
  <2>2. watch'[s].pc = "recv"
    BY <1>0, <2>1 DEF WatchTo, TypeOK
  <2>3. e.task = t /\ e.n = retried[t]
    OBVIOUS
  <2> HIDE DEF e
  <2>4. Counted' \subseteq Counted
    BY <1>1, <2>1, <2>2, <2>3 DEF Counted
  <2>5. t \in Tasks /\ calls[t] = retried[t]
    <3>1. t \in Tasks /\ t \in Waiting
      BY <1>0, <2>1 DEF TypeOK, InWatch, Waiting
    <3>2. QED
      BY <3>1 DEF IInv, Counts
  <2>6. /\ calls'[t] = calls[t] + 1 /\ calls[t] \in Nat
        /\ \A u \in Tasks : calls[u] <= calls'[u] /\ calls[u] \in Nat /\ calls'[u] \in Nat
    BY <1>0, <2>1, <2>5 DEF TypeOK
  <2>7. ASSUME NEW w \in Waiters, NEW o \in waiter[w].owed
        PROVE  \/ o.n < calls'[o.task]
               \/ \E r \in Servers : /\ watch'[r].pc = "submit"
                                     /\ watch'[r].task = o.task
                                     /\ o.n = retried'[o.task]
    <3>1. CASE o.n < calls[o.task]
      BY <1>2, <2>6, <3>1
    <3>2. ASSUME NEW r \in Servers, watch[r].pc = "submit", watch[r].task = o.task,
                 o.n = retried[o.task]
          PROVE  \/ o.n < calls'[o.task]
                 \/ watch'[r].pc = "submit" /\ watch'[r].task = o.task
      <4>1. CASE r = s
        BY <2>5, <2>6, <3>2, <4>1
      <4>2. CASE r # s
        BY <1>1, <3>2, <4>2
      <4>3. QED
        BY <4>1, <4>2
    <3>3. QED
      BY <1>1, <3>1, <3>2 DEF WInv, Old
  <2>8. Old'
    BY <1>1, <2>7 DEF Old
  <2>9. QED
    BY <1>1, <2>4, <2>8, WaitersStill
<1>6. QED
  BY <1>3, <1>4, <1>5 DEF WatchStep

(* A handler that ends; its wg.Done wakes waiters of its group. *)
LEMMA ExecStepWInv ==
  ASSUME IInv, SInv, WInv, NEW e \in execs, ExecStep(e)
  PROVE  WInv'
<1> DEFINE t == e.task
<1>0. TypeOK /\ OnePlace
  BY DEF IInv, Placed
<1>1. watch' = watch /\ calls' = calls
  BY DEF ExecStep, RunEnds, RunSucceeds, RunPanics, RunFails, ExecDone,
         ExecRelease, taskVars
<1>2. \A r \in Servers : watch[r].pc = "submit" =>
         watch[r].task \in Tasks /\ retried'[watch[r].task] = retried[watch[r].task]
  <2>1. \A r \in Servers : watch[r].pc = "submit" =>
           watch[r].task \in Tasks /\ watch[r].task \in InWatch
    BY <1>0 DEF TypeOK, Watching, InWatch
  <2>2. \/ retried' = retried
        \/ e.pc = "run" /\ retried' = [retried EXCEPT ![t] = @ + 1]
    BY DEF ExecStep, RunEnds, RunSucceeds, RunPanics, RunFails, SettledAs,
           ExecDone, ExecRelease, taskVars
  <2>3. e.pc = "run" => t \notin InWatch
    BY <1>0 DEF OnePlace, Running, RunningExecs, Waiting
  <2>4. QED
    BY <1>0, <2>1, <2>2, <2>3 DEF TypeOK
<1>3. \/ execs' \subseteq execs \cup {At(e, "done")} /\ e.pc = "run"
      \/ execs' \subseteq execs \cup {At(e, "release")}
  BY DEF ExecStep, RunEnds, RunSucceeds, RunPanics, RunFails, ExecDone,
         ExecRelease, ExecTo
<1>4. Counted' \subseteq Counted
  <2>1. ASSUME NEW f \in execs', f.pc # "release"
        PROVE  \E d \in execs : d.pc # "release" /\ d.task = f.task /\ d.n = f.n
    BY <1>3, <2>1 DEF At
  <2>2. QED
    BY <1>1, <1>2, <2>1 DEF Counted
<1>5. \A w \in Waiters : /\ waiter'[w].owed = waiter[w].owed
                         /\ waiter'[w].left = waiter[w].left
                         /\ waiter'[w].pc = "returned" => waiter[w].pc = "returned"
  <2>1. waiter' = waiter \/ \E g : Wake(g)
    BY DEF ExecStep, RunEnds, RunSucceeds, RunPanics, RunFails, ExecDone,
           ExecRelease
  <2>2. ASSUME NEW g, Wake(g), NEW w \in Waiters
        PROVE  /\ waiter'[w].owed = waiter[w].owed
               /\ waiter'[w].left = waiter[w].left
               /\ waiter'[w].pc = "returned" => waiter[w].pc = "returned"
    BY <2>2 DEF Wake, WaiterAt
  <2>3. QED
    BY <2>1, <2>2
<1>6. Old'
  BY <1>1, <1>2, <1>5 DEF WInv, Old
<1>7. Ahead'
  BY <1>4, <1>5 DEF WInv, Ahead
<1>8. QED
  BY <1>6, <1>7 DEF WInv

LEMMA NextWInv == IInv /\ SInv /\ WInv /\ [Next]_vars => WInv'
<1> SUFFICES ASSUME IInv, SInv, WInv, [Next]_vars PROVE WInv'
  OBVIOUS
<1>1. ASSUME NEW s \in Servers, StartServer(s) PROVE WInv'
  <2>1. /\ execs' = execs /\ retried' = retried /\ calls' = calls
        /\ waiter' = waiter /\ WatchTo(s, "recv", None)
        /\ watch[s].pc = "off"
    BY <1>1 DEF StartServer, workVars, taskVars, IInv, NotStarted, Off
  <2>2. /\ watch'[s].pc = "recv"
        /\ \A r \in Servers \ {s} : watch'[r] = watch[r]
    BY <2>1 DEF WatchTo, IInv, TypeOK
  <2>3. Counted' \subseteq Counted
    BY <2>1, <2>2 DEF Counted
  <2>4. Old'
    BY <2>1, <2>2 DEF WInv, Old
  <2>5. QED
    BY <2>1, <2>3, <2>4, WaitersStill
<1>2. ASSUME \/ \E t \in Tasks : EnqueueTask(t) \/ BecomeDue(t)
             \/ \E name \in Names : Register(name)
             \/ \E s \in Servers : LoopStep(s)
             \/ UNCHANGED vars
      PROVE  WInv'
  <2>1. /\ watch' = watch /\ execs' = execs /\ retried' = retried
        /\ calls' = calls /\ waiter' = waiter
    BY <1>2 DEF EnqueueTask, BecomeDue, Register, LoopStep, LoopPoll, LoopTake,
                LoopWake, LoopPutBack, LoopSend, workVars, taskVars, vars
  <2>2. Counted' = Counted
    BY <2>1 DEF Counted
  <2>3. QED
    BY <2>1, <2>2 DEF WInv, Old, Ahead
<1>3. QED
  BY <1>1, <1>2, WatchStepWInv, ExecStepWInv, WaitStepWInv, Zenon DEF Next

(* A Wait that returned has seen the end of every call that was under way  *)
(* when it was called, whatever the groups, servers and other waiters.     *)
THEOREM WaitCoversAll == Spec => []WaitCovers
<1>1. WInv => WaitCovers
  BY DEF WInv, Ahead, WaitCovers
<1>2. QED
  BY <1>1, InitIInv, NextIInv, InitSInv, NextSInv, InitWInv, NextWInv, PTL DEF Spec
=============================================================================
