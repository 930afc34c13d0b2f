-------------------------------- MODULE App ---------------------------------
(***************************************************************************)
(* The life of a server: boot.Start or an application of giris2, the host  *)
(* of iris that serves its requests behind ConcurrentLimit, and the        *)
(* interrupt that ends both.                                               *)
(*                                                                         *)
(* What iris does is modelled from its use: Run registers the host's       *)
(* shutdown on interrupt and then listens, the callbacks run one after the *)
(* other in the order in which they were registered before the interrupt,  *)
(* and the host's shutdown waits for the requests at most ten seconds.     *)
(***************************************************************************)
EXTENDS Naturals, Sequences, FiniteSets, SequencesExt

CONSTANTS
  Reqs,   (* the requests                                                  *)
  Limit   (* server.concurrent_limit                                       *)

(* What make takes for the size of a channel. *)
AppConstants == Limit \in Nat

VARIABLES
  kind,     (* the application: "giris" under boot.Start, or "giris2"      *)
  conf,     (* which ports are configured, a subset of Services            *)
  main,     (* where the main goroutine is                                 *)
  open,     (* the services that are open                                  *)
  hostpc,   (* the host: "none", "starting", "serving", "draining", "down" *)
  cbs,      (* the interrupt callbacks registered                          *)
  fired,    (* those that the interrupt has found                          *)
  firing,   (* those of them still to run                                  *)
  stop,     (* App.stop: "open", "closed", "panic" once closed twice       *)
  hook,     (* the OnShutdown callback of the host: "none", "runs", "done" *)
  used,     (* the slots of ConcurrentLimit                                *)
  inside,   (* the requests in their handlers                              *)
  told,     (* an application of giris2 has called Shutdown (history)      *)
  late,     (* the host has given up waiting for requests (history)        *)
  broken    (* how many handlers have panicked (history)                   *)

appVars == <<kind, conf, main, open, hostpc, cbs, fired, firing, stop, hook, used, inside,
             told, late, broken>>

Services == {"redis", "db", "emq"}

Init == /\ kind \in {"giris", "giris2"}
        /\ conf \in IF kind = "giris" THEN SUBSET Services ELSE {{}}
        /\ main = "init" /\ hostpc = "none" /\ hook = "none"
        /\ open = {} /\ inside = {}
        /\ cbs = <<>> /\ fired = <<>> /\ firing = <<>>
        /\ stop = "open"
        /\ used = 0 /\ broken = 0
        /\ told = FALSE /\ late = FALSE

Alive == main # "over" /\ stop # "panic"

-----------------------------------------------------------------------------
(* StartupWithoutHttpServer: redis, then the database, when configured.    *)
Startup ==
  /\ main = "init"
  /\ open' = conf \cap {"redis", "db"}
  /\ main' = "start"
  /\ UNCHANGED <<kind, conf, hostpc, cbs, fired, firing, stop, hook, used, inside, told, late, broken>>

(* StartApp returns while its goroutine starts the host. *)
StartApp ==
  /\ main = "start"
  /\ hostpc' = "starting"
  /\ main' = IF kind = "giris" THEN "emq" ELSE "wait"
  /\ UNCHANGED <<kind, conf, open, cbs, fired, firing, stop, hook, used, inside, told, late, broken>>

StartEmq ==
  /\ main = "emq"
  /\ open' = open \cup (conf \cap {"emq"})
  /\ main' = "register"
  /\ UNCHANGED <<kind, conf, hostpc, cbs, fired, firing, stop, hook, used, inside, told, late, broken>>

(* Callbacks are not added while the others run. *)
Registers(cb) == firing = <<>> /\ cbs' = Append(cbs, cb)

RegisterOnInterrupt ==
  /\ main = "register"
  /\ Registers("boot")
  /\ main' = "wait"
  /\ UNCHANGED <<kind, conf, open, hostpc, fired, firing, stop, hook, used, inside, told, late, broken>>

Wait ==
  /\ main = "wait" /\ stop = "closed"
  /\ main' = IF kind = "giris" THEN "close" ELSE "over"
  /\ UNCHANGED <<kind, conf, open, hostpc, cbs, fired, firing, stop, hook, used, inside, told, late, broken>>

(* closeServiceConns, in this order; then the process ends. *)
Closing == SelectSeq(<<"emq", "redis", "db">>, LAMBDA s : s \in open)

CloseServiceConns ==
  /\ main = "close"
  /\ IF Closing = <<>> THEN main' = "over" /\ UNCHANGED open
     ELSE open' = open \ {Head(Closing)} /\ UNCHANGED main
  /\ UNCHANGED <<kind, conf, hostpc, cbs, fired, firing, stop, hook, used, inside, told, late, broken>>

-----------------------------------------------------------------------------
(* The host. *)
Run ==
  /\ hostpc = "starting"
  /\ Registers("host")
  /\ hostpc' = "serving"
  /\ UNCHANGED <<kind, conf, main, open, fired, firing, stop, hook, used, inside, told, late, broken>>

(* The channel of ConcurrentLimit; a mutant accepts one too many. *)
OneMore(n) == n <= Limit
Room(n) == n < Limit

(* Without room the request is refused at once. *)
Enter(r) ==
  /\ hostpc = "serving"
  /\ r \notin inside
  /\ Room(used)
  /\ used' = used + 1
  /\ inside' = inside \cup {r}
  /\ UNCHANGED <<kind, conf, main, open, hostpc, cbs, fired, firing, stop, hook, told, late, broken>>

Leave(r) ==
  /\ r \in inside
  /\ inside' = inside \ {r}
  /\ used' = used - 1
  /\ UNCHANGED <<kind, conf, main, open, hostpc, cbs, fired, firing, stop, hook, told, late, broken>>

(* The recover middleware is in front of ConcurrentLimit. *)
Panic(r) ==
  /\ r \in inside
  /\ inside' = inside \ {r}
  /\ broken' = broken + 1
  /\ UNCHANGED <<kind, conf, main, open, hostpc, cbs, fired, firing, stop, hook, used, told, late>>

-----------------------------------------------------------------------------
(* The interrupt is heard once a callback is registered; iris listens for  *)
(* one.  Before that it ends the process, as StartApp of giris2 with a     *)
(* profiling port would not.                                               *)
Interrupt ==
  /\ fired = <<>>
  /\ fired' = cbs /\ firing' = cbs
  /\ main' = IF cbs = <<>> THEN "over" ELSE main
  /\ UNCHANGED <<kind, conf, open, hostpc, cbs, stop, hook, used, inside, told, late, broken>>

Closed == IF stop = "open" THEN "closed" ELSE "panic"

(* The callback of boot.Start: the shutdown functions, and Shutdown. *)
BootCallback ==
  /\ firing # <<>> /\ Head(firing) = "boot"
  /\ stop' = Closed
  /\ firing' = Tail(firing)
  /\ UNCHANGED <<kind, conf, main, open, hostpc, cbs, fired, hook, used, inside, told, late, broken>>

(* The callback of the host: no more requests, the hook in a goroutine of  *)
(* its own, and the wait for the requests.                                 *)
HostCallback ==
  /\ firing # <<>> /\ Head(firing) = "host"
  /\ hostpc = "serving"
  /\ hostpc' = "draining"
  /\ hook' = "runs"
  /\ UNCHANGED <<kind, conf, main, open, cbs, fired, firing, stop, used, inside, told, late, broken>>

(* Whether the wait is over; a mutant does not wait. *)
AtOnce(rs) == TRUE
Drained(rs) == rs = {}

HostDown ==
  /\ hostpc = "draining"
  /\ Drained(inside)
  /\ hostpc' = "down"
  /\ firing' = Tail(firing)
  /\ UNCHANGED <<kind, conf, main, open, cbs, fired, stop, hook, used, inside, told, late, broken>>

TenSeconds ==
  /\ hostpc = "draining"
  /\ inside # {}
  /\ hostpc' = "down"
  /\ firing' = Tail(firing)
  /\ late' = TRUE
  /\ UNCHANGED <<kind, conf, main, open, cbs, fired, stop, hook, used, inside, told, broken>>

(* In giris the hook waits for stop, in giris2 it closes it. *)
Hook ==
  /\ hook = "runs"
  /\ hook' = "done"
  /\ IF kind = "giris" THEN stop = "closed" /\ UNCHANGED stop ELSE stop' = Closed
  /\ UNCHANGED <<kind, conf, main, open, hostpc, cbs, fired, firing, used, inside, told, late, broken>>

(* An application of giris2 may call Shutdown itself. *)
Shutdown ==
  /\ kind = "giris2" /\ ~told /\ main = "wait"
  /\ told' = TRUE
  /\ stop' = Closed
  /\ UNCHANGED <<kind, conf, main, open, hostpc, cbs, fired, firing, hook, used, inside, late, broken>>

-----------------------------------------------------------------------------
Main == Startup \/ StartApp \/ StartEmq \/ RegisterOnInterrupt \/ Wait \/ CloseServiceConns

Host == \/ Run \/ HostDown \/ TenSeconds \/ Hook
        \/ \E r \in Reqs : Enter(r) \/ Leave(r) \/ Panic(r)

Ends == Interrupt \/ BootCallback \/ HostCallback \/ Shutdown

Next == Alive /\ (Main \/ Host \/ Ends)

Spec == Init /\ [][Next]_appVars

-----------------------------------------------------------------------------
TypeOK ==
  /\ main \in {"init", "start", "emq", "register", "wait", "close", "over"}
  /\ open \subseteq conf /\ inside \subseteq Reqs
  /\ hostpc \in {"none", "starting", "serving", "draining", "down"}
  /\ firing \in Seq({"host", "boot"})
  /\ stop \in {"open", "closed", "panic"} /\ hook \in {"none", "runs", "done"}

(* Every used slot of ConcurrentLimit is that of a request in its handler  *)
(* or was lost to a handler that panicked; there are never too many.       *)
SlotsExplained == used = Cardinality(inside) + broken /\ used <= Limit

(* Redis and the database are open before the first request and, under     *)
(* boot.Start, until the last has left, unless boot's callback came to be  *)
(* registered before the host's or the host gave up waiting.               *)
ServicesOutlive ==
  (kind = "giris" /\ Alive /\ inside # {})
    => \/ conf \cap {"redis", "db"} \subseteq open
       \/ late \/ Head(cbs) = "boot"

(* stop is closed twice only by an application of giris2 that calls        *)
(* Shutdown next to the host's shutdown.                                   *)
StopOnce == stop = "panic" => kind = "giris2" /\ told /\ hook = "done"

(* After the interrupt boot.Start goes on waiting for ever only when the   *)
(* interrupt came before it had registered its callback.                   *)
WaitExplained ==
  (kind = "giris" /\ main = "wait" /\ fired # <<>> /\ firing = <<>> /\ stop = "open")
    => "boot" \notin ToSet(fired)

AppHolds == SlotsExplained /\ ServicesOutlive /\ StopOnce /\ WaitExplained
=============================================================================
