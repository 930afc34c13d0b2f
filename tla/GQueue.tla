------------------------------- MODULE GQueue -------------------------------
(***************************************************************************)
(* The in-memory task queue of util/queue.go, as queue/queueMemory.go uses *)
(* it.  Callers enqueue tasks and register handlers.  Each StartServer     *)
(* adds a background loop, which moves due tasks from the FIFO queue to    *)
(* the buffered channel taskChan, and a watcher, which takes tasks from    *)
(* the channel, finds the handler and the worker group, waits for a free   *)
(* slot of the group and submits the call to the shared goroutine pool.  A *)
(* failed call puts a copy of the task back with Retried + 1.              *)
(*                                                                         *)
(* A task stands for one call of Enqueue by a client; its payload is left  *)
(* out, its retry delay is the flag due (runAt is in the past).            *)
(***************************************************************************)
EXTENDS Integers, Sequences, FiniteSets

CONSTANTS
  Tasks,        (* the tasks clients enqueue                               *)
  Servers,      (* one element per call of StartServer                     *)
  Waiters,      (* the goroutines that call Wait                           *)
  Names,        (* the handler names                                       *)
  Request,      (* Request[t]: what the client asked for, a RequestType    *)
  Groups,       (* opt.Groups after NewGQueue: [group -> share of workers] *)
  MaxWorkers,   (* opt.MaxWorkers, the capacity of taskChan                *)
  OptMaxRetry,  (* opt.MaxRetry                                            *)
  PoolSize,     (* the capacity of the goroutine pool, 100 in the code     *)
  None          (* no task in hand                                         *)

(* A task is built by NewQueueTask with its options, or as a bare literal, *)
(* whose unexported fields are zero (kind "literal"); later: its runAt     *)
(* option is in the future.                                                *)
RequestType == [kind : {"new", "literal"}, name : Names, group : Nat,
                maxRetry : Nat, later : BOOLEAN]

ASSUME QueueAssumption ==
  /\ None \notin Tasks
  /\ Request \in [Tasks -> RequestType]
  /\ 1 \in DOMAIN Groups
  /\ DOMAIN Groups \subseteq Nat
  /\ IsFiniteSet(DOMAIN Groups)
  /\ Groups \in [DOMAIN Groups -> Nat]
  /\ MaxWorkers \in Nat \ {0}
  /\ OptMaxRetry \in Nat \ {0}
  /\ PoolSize \in Nat \ {0}

VARIABLES
  queue,     (* g.qu                                                       *)
  handlers,  (* the names of g.handlers                                    *)
  started,   (* the StartServer calls made                                 *)
  loop,      (* loop[s]: the background loop of server s, [pc, task]       *)
  taskChan,  (* the buffered channel                                       *)
  watch,     (* watch[s]: the watcher of server s, [pc, task]              *)
  chs,       (* chs[g]: slots of group g in use, len(w.chs)                *)
  wg,        (* wg[g]: the counter of the group's WaitGroup                *)
  execs,     (* the closures fn1 inside the pool, [task, n, pc]            *)
  retried,   (* retried[t]: the Retried field of the live copy of t        *)
  due,       (* due[t]: t's runAt is not after now                         *)
  outcome,   (* outcome[t]: new, live, done, gaveUp, panicked, noHandler   *)
  calls,     (* calls[t]: handler calls made for t (history)               *)
  waiter     (* waiter[w]: a goroutine in Wait, [pc, group, left, owed]    *)

taskVars == <<retried, due, outcome, calls>>
workVars == <<chs, wg, execs>>
vars == <<queue, handlers, started, loop, taskChan, watch, workVars,
          taskVars, waiter>>

-----------------------------------------------------------------------------
(* The options, once NewGQueue and NewQueueTask have filled in defaults.   *)

DefaultMaxRetry == 5

(* getNumberFromPercent: the share is in tenths; out of range counts as 1. *)
NumberFromPercent(total, percent) ==
  LET share == IF percent \in 1..10 THEN percent ELSE 1
      v     == (total * share) \div 10
  IN  IF v < 1 THEN 1 ELSE v

Cap(g) == NumberFromPercent(MaxWorkers, Groups[g])

GroupIds == DOMAIN Groups

(* NewQueueTask fills maxRetry in with 5, so the server's own MaxRetry is  *)
(* reached by literals only.                                               *)
JobMaxRetry(t) == IF Request[t].kind = "literal" THEN 0
                  ELSE IF Request[t].maxRetry = 0 THEN DefaultMaxRetry
                  ELSE Request[t].maxRetry

(* runTask: the task's own limit when it has one. *)
MaxRetryOf(t) == IF JobMaxRetry(t) > 0 THEN JobMaxRetry(t) ELSE OptMaxRetry

(* A literal has no retryDelayFunc: calling it panics. *)
HasDelayFunc(t) == Request[t].kind = "new"

(* runTaskHandler: an unknown group is served by group 1. *)
GroupOf(t) == IF Request[t].group \in GroupIds THEN Request[t].group ELSE 1

DueAtEnqueue(t) == Request[t].kind = "literal" \/ ~Request[t].later

-----------------------------------------------------------------------------
LoopPC  == {"off", "poll", "take", "held", "sleep"}
WatchPC == {"off", "recv", "route", "slot", "add", "submit"}
ExecPC  == {"run", "done", "release"}
WaitPC  == {"idle", "scan", "blocked", "woken", "returned", "panicked"}
Outcome == {"new", "live", "done", "gaveUp", "panicked", "noHandler"}

Exec == [task : Tasks, n : Nat, pc : ExecPC]

Off == [pc |-> "off", task |-> None]

Init ==
  /\ queue = <<>>
  /\ handlers = {}
  /\ started = {}
  /\ loop = [s \in Servers |-> Off]
  /\ taskChan = <<>>
  /\ watch = [s \in Servers |-> Off]
  /\ chs = [g \in GroupIds |-> 0]
  /\ wg = [g \in GroupIds |-> 0]
  /\ execs = {}
  /\ retried = [t \in Tasks |-> 0]
  /\ due = [t \in Tasks |-> DueAtEnqueue(t)]
  /\ outcome = [t \in Tasks |-> "new"]
  /\ calls = [t \in Tasks |-> 0]
  /\ waiter = [w \in Waiters |->
                 [pc |-> "idle", group |-> 1, left |-> {}, owed |-> {}]]

-----------------------------------------------------------------------------
(* Where a background loop and a watcher stand, and with which task; a     *)
(* mutant of LoopTo forgets the task.                                      *)
LoopToForgets(s, pc, t) == loop' = [loop EXCEPT ![s] = [pc |-> pc, task |-> None]]
LoopTo(s, pc, t) == loop' = [loop EXCEPT ![s] = [pc |-> pc, task |-> t]]

WatchTo(s, pc, t) == watch' = [watch EXCEPT ![s] = [pc |-> pc, task |-> t]]

(* Clients.                                                                *)

EnqueueTask(t) ==
  /\ outcome[t] = "new"
  /\ outcome' = [outcome EXCEPT ![t] = "live"]
  /\ queue' = Append(queue, t)
  /\ UNCHANGED <<handlers, started, loop, taskChan, watch, workVars,
                 retried, due, calls, waiter>>

Register(name) ==
  /\ name \notin handlers
  /\ handlers' = handlers \cup {name}
  /\ UNCHANGED <<queue, started, loop, taskChan, watch, workVars, taskVars,
                 waiter>>

StartServer(s) ==
  /\ s \notin started
  /\ started' = started \cup {s}
  /\ LoopTo(s, "poll", None)
  /\ WatchTo(s, "recv", None)
  /\ UNCHANGED <<queue, handlers, taskChan, workVars, taskVars, waiter>>

(* The delay of a waiting task passes. *)
BecomeDue(t) ==
  /\ ~due[t]
  /\ due' = [due EXCEPT ![t] = TRUE]
  /\ UNCHANGED <<queue, handlers, started, loop, taskChan, watch, workVars,
                 retried, outcome, calls, waiter>>

-----------------------------------------------------------------------------
(* The background loop: runBackground and dequeue.                         *)

(* What dequeue leaves in the queue; a mutant that only peeks. *)
PeekOnly(q) == q
AfterDequeue(q) == Tail(q)

(* Enqueue of a task that comes back; a mutant that drops it. *)
DroppedOnReturn(q, t) == q
Requeued(q, t) == Append(q, t)

(* dequeue looks at the queue under the read lock ... *)
LoopPoll(s) ==
  /\ loop[s].pc = "poll"
  /\ LoopTo(s, IF queue = <<>> THEN "sleep" ELSE "take", None)
  /\ UNCHANGED <<queue, handlers, started, taskChan, watch, workVars,
                 taskVars, waiter>>

(* ... and takes the first task under the write lock, if it is still there. *)
LoopTake(s) ==
  /\ loop[s].pc = "take"
  /\ IF queue = <<>>
     THEN LoopTo(s, "sleep", None) /\ UNCHANGED queue
     ELSE LoopTo(s, "held", Head(queue)) /\ queue' = AfterDequeue(queue)
  /\ UNCHANGED <<handlers, started, taskChan, watch, workVars, taskVars,
                 waiter>>

LoopWake(s) ==
  /\ loop[s].pc = "sleep"
  /\ LoopTo(s, "poll", None)
  /\ UNCHANGED <<queue, handlers, started, taskChan, watch, workVars,
                 taskVars, waiter>>

(* runAt is in the future: back to the end of the queue. *)
LoopPutBack(s) ==
  /\ loop[s].pc = "held"
  /\ ~due[loop[s].task]
  /\ queue' = Requeued(queue, loop[s].task)
  /\ LoopTo(s, "poll", None)
  /\ UNCHANGED <<handlers, started, taskChan, watch, workVars, taskVars,
                 waiter>>

(* The test of runAt; a mutant without it. *)
SendsEarly(t) == t \in Tasks
MaySend(t) == due[t]

(* g.taskChan <- data, which blocks while the channel is full. *)
LoopSend(s) ==
  /\ loop[s].pc = "held"
  /\ MaySend(loop[s].task)
  /\ Len(taskChan) < MaxWorkers
  /\ taskChan' = Append(taskChan, loop[s].task)
  /\ LoopTo(s, "poll", None)
  /\ UNCHANGED <<queue, handlers, started, watch, workVars, taskVars, waiter>>

-----------------------------------------------------------------------------
(* The watcher: watcher, runTaskHandler and quWorkers.run.                 *)

WatchRecv(s) ==
  /\ watch[s].pc = "recv"
  /\ taskChan # <<>>
  /\ WatchTo(s, "route", Head(taskChan))
  /\ taskChan' = Tail(taskChan)
  /\ UNCHANGED <<queue, handlers, started, loop, workVars, taskVars, waiter>>

(* The handler is looked up once, now: without one the task is dropped. *)
WatchRoute(s) ==
  LET t == watch[s].task IN
  /\ watch[s].pc = "route"
  /\ IF Request[t].name \in handlers
     THEN WatchTo(s, "slot", t) /\ UNCHANGED outcome
     ELSE /\ WatchTo(s, "recv", None)
          /\ outcome' = [outcome EXCEPT ![t] = "noHandler"]
  /\ UNCHANGED <<queue, handlers, started, loop, taskChan, workVars,
                 retried, due, calls, waiter>>

(* Room in the group's slot channel; a mutant with one slot too many. *)
OneSlotTooMany(g) == chs[g] <= Cap(g)
HasFreeSlot(g) == chs[g] < Cap(g)

(* w.chs <- struct{}{}: waits while the group is at its limit. *)
WatchSlot(s) ==
  LET g == GroupOf(watch[s].task) IN
  /\ watch[s].pc = "slot"
  /\ HasFreeSlot(g)
  /\ chs' = [chs EXCEPT ![g] = @ + 1]
  /\ WatchTo(s, "add", watch[s].task)
  /\ UNCHANGED <<queue, handlers, started, loop, taskChan, wg, execs,
                 taskVars, waiter>>

(* w.wg.Add(1) *)
WatchAdd(s) ==
  LET g == GroupOf(watch[s].task) IN
  /\ watch[s].pc = "add"
  /\ wg' = [wg EXCEPT ![g] = @ + 1]
  /\ WatchTo(s, "submit", watch[s].task)
  /\ UNCHANGED <<queue, handlers, started, loop, taskChan, chs, execs,
                 taskVars, waiter>>

(* Submit blocks while the pool is full; then fn1 calls the handler. *)
WatchSubmit(s) ==
  LET t == watch[s].task IN
  /\ watch[s].pc = "submit"
  /\ Cardinality(execs) < PoolSize
  /\ execs' = execs \cup {[task |-> t, n |-> retried[t], pc |-> "run"]}
  /\ calls' = [calls EXCEPT ![t] = @ + 1]
  /\ WatchTo(s, "recv", None)
  /\ UNCHANGED <<queue, handlers, started, loop, taskChan, chs, wg, retried,
                 due, outcome, waiter>>

-----------------------------------------------------------------------------
(* A pool goroutine running fn1: runTask, wg.Done, then the slot.          *)

At(e, pc) == [task |-> e.task, n |-> e.n, pc |-> pc]

ExecTo(e, pc) == execs' = (execs \ {e}) \cup {At(e, pc)}

(* t.Retried < maxRetry; a mutant that is off by one. *)
OneRetryTooMany(t) == retried[t] <= MaxRetryOf(t)
RetriesLeft(t) == retried[t] < MaxRetryOf(t)

SettledAs(t, how) == /\ outcome' = [outcome EXCEPT ![t] = how]
                     /\ UNCHANGED <<queue, retried, due>>

(* The handler returned nil. *)
RunSucceeds(e) ==
  /\ e.pc = "run"
  /\ SettledAs(e.task, "done")
  /\ ExecTo(e, "done")
  /\ UNCHANGED <<handlers, started, loop, taskChan, watch, chs, wg, calls,
                 waiter>>

(* The handler panicked: the deferred recover logs it and nothing else. *)
RunPanics(e) ==
  /\ e.pc = "run"
  /\ SettledAs(e.task, "panicked")
  /\ ExecTo(e, "done")
  /\ UNCHANGED <<handlers, started, loop, taskChan, watch, chs, wg, calls,
                 waiter>>

(* The handler returned an error: give up, lose the task in the call of a  *)
(* missing retryDelayFunc, or enqueue a copy that runs later.              *)
RunFails(e) ==
  LET t == e.task IN
  /\ e.pc = "run"
  /\ IF ~RetriesLeft(t)
     THEN SettledAs(t, "gaveUp")
     ELSE IF ~HasDelayFunc(t)
     THEN SettledAs(t, "panicked")
     ELSE /\ retried' = [retried EXCEPT ![t] = @ + 1]
          /\ due' = [due EXCEPT ![t] = FALSE]
          /\ queue' = Requeued(queue, t)
          /\ UNCHANGED outcome
  /\ ExecTo(e, "done")
  /\ UNCHANGED <<handlers, started, loop, taskChan, watch, chs, wg, calls,
                 waiter>>

WaiterAt(w, pc, g, left) ==
  [pc |-> pc, group |-> g, left |-> left, owed |-> waiter[w].owed]

(* The waiters that wg.Done wakes when it brings group g's counter to 0. *)
Wake(g) == waiter' = [w \in Waiters |->
                        IF waiter[w].pc = "blocked" /\ waiter[w].group = g
                        THEN WaiterAt(w, "woken", g, waiter[w].left)
                        ELSE waiter[w]]

(* w.wg.Done(); a mutant that skips it. *)
NeverDone(g) == wg
WgAfterDone(g) == [wg EXCEPT ![g] = @ - 1]

ExecDone(e) ==
  LET g == GroupOf(e.task) IN
  /\ e.pc = "done"
  /\ wg' = WgAfterDone(g)
  /\ IF wg'[g] = 0 THEN Wake(g) ELSE UNCHANGED waiter
  /\ ExecTo(e, "release")
  /\ UNCHANGED <<queue, handlers, started, loop, taskChan, watch, chs,
                 taskVars>>

(* A slot given back; a mutant that leaks it. *)
SlotLeaked(g) == chs
SlotsAfterRelease(g) == [chs EXCEPT ![g] = @ - 1]

(* <-w.chs, and fn1 returns. *)
ExecRelease(e) ==
  /\ e.pc = "release"
  /\ chs' = SlotsAfterRelease(GroupOf(e.task))
  /\ execs' = execs \ {e}
  /\ UNCHANGED <<queue, handlers, started, loop, taskChan, watch, wg,
                 taskVars, waiter>>

-----------------------------------------------------------------------------
(* Wait: the groups one after the other, in the random order of a map.     *)

(* The calls already counted by a WaitGroup: what Wait has to wait for.    *)
Counted == {[task |-> e.task, n |-> e.n] : e \in {x \in execs : x.pc # "release"}}
             \cup {[task |-> watch[s].task, n |-> retried[watch[s].task]] :
                     s \in {x \in Servers : watch[x].pc = "submit"}}

WaitCall(w) ==
  /\ waiter[w].pc = "idle"
  /\ waiter' = [waiter EXCEPT ![w] = [pc |-> "scan", group |-> 1,
                                      left |-> GroupIds, owed |-> Counted]]
  /\ UNCHANGED <<queue, handlers, started, loop, taskChan, watch, workVars,
                 taskVars>>

(* The group's counter is 0: on to the next group, or return; a mutant     *)
(* that returns after the first group.                                     *)
PassedFirst(w, g) == WaiterAt(w, "returned", g, waiter[w].left \ {g})
Passed(w, g) ==
  LET left == waiter[w].left \ {g} IN
  WaiterAt(w, IF left = {} THEN "returned" ELSE "scan", g, left)

WaitGroup(w, g) ==
  /\ waiter[w].pc = "scan"
  /\ g \in waiter[w].left
  /\ waiter' = [waiter EXCEPT ![w] =
                  IF wg[g] = 0 THEN Passed(w, g)
                  ELSE WaiterAt(w, "blocked", g, waiter[w].left)]
  /\ UNCHANGED <<queue, handlers, started, loop, taskChan, watch, workVars,
                 taskVars>>

(* A woken waiter panics when the counter is in use again ("WaitGroup is   *)
(* reused before previous Wait has returned").                             *)
WaitResume(w) ==
  /\ waiter[w].pc = "woken"
  /\ waiter' = [waiter EXCEPT ![w] =
                  IF wg[@.group] = 0 THEN Passed(w, @.group)
                  ELSE WaiterAt(w, "panicked", @.group, @.left)]
  /\ UNCHANGED <<queue, handlers, started, loop, taskChan, watch, workVars,
                 taskVars>>

-----------------------------------------------------------------------------
LoopStep(s) == LoopPoll(s) \/ LoopTake(s) \/ LoopWake(s) \/ LoopPutBack(s)
                 \/ LoopSend(s)

WatchStep(s) == WatchRecv(s) \/ WatchRoute(s) \/ WatchSlot(s) \/ WatchAdd(s)
                  \/ WatchSubmit(s)

RunEnds(e) == RunSucceeds(e) \/ RunPanics(e) \/ RunFails(e)

ExecStep(e) == RunEnds(e) \/ ExecDone(e) \/ ExecRelease(e)

WaitStep(w) == (\E g \in GroupIds : WaitGroup(w, g)) \/ WaitResume(w)

Next == \/ \E t \in Tasks : EnqueueTask(t) \/ BecomeDue(t)
        \/ \E name \in Names : Register(name)
        \/ \E s \in Servers : StartServer(s) \/ LoopStep(s) \/ WatchStep(s)
        \/ \E e \in execs : ExecStep(e)
        \/ \E w \in Waiters : WaitCall(w) \/ WaitStep(w)

Spec == Init /\ [][Next]_vars

(* The goroutines are scheduled, handlers return, delays pass.  A blocked  *)
(* channel operation is served in FIFO order by the Go runtime, hence the  *)
(* strong fairness of the three channel operations that compete.           *)
Fairness ==
  /\ \A s \in Servers : /\ WF_vars(LoopStep(s)) /\ SF_vars(LoopSend(s))
                        /\ WF_vars(WatchStep(s))
                        /\ SF_vars(WatchRecv(s)) /\ SF_vars(WatchSlot(s))
                        /\ SF_vars(WatchSubmit(s))
  /\ \A t \in Tasks : /\ WF_vars(BecomeDue(t))
                      /\ WF_vars(\E e \in execs : e.task = t /\ ExecStep(e))
  /\ \A w \in Waiters : WF_vars(WaitStep(w))

LiveSpec == Spec /\ Fairness

-----------------------------------------------------------------------------
(* Where a task can be.                                                    *)

Elements(q) == {q[i] : i \in 1..Len(q)}

NoRepeats(q) == \A i, j \in 1..Len(q) : q[i] = q[j] => i = j

Holding == {s \in Servers : loop[s].pc = "held"}

Watching == {s \in Servers : watch[s].pc \in {"route", "slot", "add", "submit"}}

RunningExecs == {e \in execs : e.pc = "run"}

InLoop  == {loop[s].task : s \in Holding}
InWatch == {watch[s].task : s \in Watching}
Running == {e.task : e \in RunningExecs}

Waiting == Elements(queue) \cup InLoop \cup Elements(taskChan) \cup InWatch

(* The types of all variables. *)
TypeOK ==
  /\ queue \in Seq(Tasks)
  /\ handlers \subseteq Names
  /\ started \subseteq Servers
  /\ loop \in [Servers -> [pc : LoopPC, task : Tasks \cup {None}]]
  /\ taskChan \in Seq(Tasks)
  /\ watch \in [Servers -> [pc : WatchPC, task : Tasks \cup {None}]]
  /\ \A s \in Servers : /\ loop[s].pc = "held" => loop[s].task \in Tasks
                        /\ s \in Watching => watch[s].task \in Tasks
  /\ chs \in [GroupIds -> Int]
  /\ wg \in [GroupIds -> Int]
  /\ execs \subseteq Exec
  /\ retried \in [Tasks -> Nat]
  /\ due \in [Tasks -> BOOLEAN]
  /\ outcome \in [Tasks -> Outcome]
  /\ calls \in [Tasks -> Nat]
  /\ waiter \in [Waiters -> [pc : WaitPC, group : GroupIds,
                             left : SUBSET GroupIds,
                             owed : SUBSET [task : Tasks, n : Nat]]]

(* A task is in at most one hand: the queue, one background loop, the     *)
(* channel, one watcher, or one running handler.  The two loops of two     *)
(* StartServer calls, which look at the queue and take from it in separate *)
(* critical sections, never both get it.                                   *)
OnePlace ==
  /\ NoRepeats(queue)
  /\ NoRepeats(taskChan)
  /\ \A s, r \in Holding : loop[s].task = loop[r].task => s = r
  /\ \A s, r \in Watching : watch[s].task = watch[r].task => s = r
  /\ \A e, f \in RunningExecs : e.task = f.task => e = f
  /\ Elements(queue) \cap (InLoop \cup Elements(taskChan) \cup InWatch) = {}
  /\ InLoop \cap (Elements(taskChan) \cup InWatch) = {}
  /\ Elements(taskChan) \cap InWatch = {}
  /\ Running \cap Waiting = {}

(* No task is lost on its way through queue, channel and workers, and none *)
(* comes back after it was settled.                                        *)
NothingLost == \A t \in Tasks : outcome[t] = "live" <=> t \in Waiting \cup Running

(* The retry limit: with n retries allowed a handler is called at most     *)
(* n + 1 times, although the count travels with a copy of the task.        *)
CallsBounded == \A t \in Tasks : calls[t] <= MaxRetryOf(t) + 1

(* The slots and WaitGroup counters tell exactly which calls are under     *)
(* way: a leaked slot would one day block the watcher, and with it every   *)
(* group, for ever.                                                        *)
SlotsAccounted ==
  \A g \in GroupIds :
    LET mine == {e \in execs : GroupOf(e.task) = g}
        at(pcs) == {s \in Servers : watch[s].pc \in pcs /\ GroupOf(watch[s].task) = g}
    IN  /\ chs[g] = Cardinality(mine) + Cardinality(at({"add", "submit"}))
        /\ wg[g] = Cardinality({e \in mine : e.pc # "release"})
                      + Cardinality(at({"submit"}))

(* At most Cap(g) handlers of a group run at the same time, whichever      *)
(* watcher started them.                                                   *)
GroupLimit == \A g \in GroupIds :
                Cardinality({e \in RunningExecs : GroupOf(e.task) = g}) <= Cap(g)

(* A handler never runs before the task's runAt. *)
NeverEarly == \A t \in Elements(taskChan) \cup InWatch \cup Running : due[t]

(* A Wait that returned has seen the end of every call that was under way  *)
(* when it was called, whatever was started in the meantime.               *)
WaitCovers == \A w \in Waiters :
                waiter[w].pc = "returned" => waiter[w].owed \cap Counted = {}

(* Once a server is started every task settles, retries included. *)
EventuallySettles ==
  \A t \in Tasks : (outcome[t] = "live" /\ started # {})
                     ~> outcome[t] \notin {"new", "live"}

(* Wait comes to an end when the handlers do. *)
WaitEnds == \A w \in Waiters : waiter[w].pc = "scan"
                                ~> waiter[w].pc \in {"returned", "panicked"}

(* The queue implements the life cycle of a task. *)
StatusOf(t) == IF outcome[t] = "new" THEN "new"
               ELSE IF outcome[t] # "live" THEN "settled"
               ELSE IF t \in Running THEN "running"
               ELSE "pending"

Lifecycle == INSTANCE TaskLifecycle
               WITH Limit  <- [t \in Tasks |-> MaxRetryOf(t)],
                    status <- [t \in Tasks |-> StatusOf(t)]

(* Every behaviour of the queue is one of TaskLifecycle. *)
ImplementsLifecycle == Lifecycle!Spec
=============================================================================
