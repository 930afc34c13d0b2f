------------------------------- MODULE Daemon -------------------------------
(***************************************************************************)
(* The commands "start -d" and "stop" of cmd and cmd2, the servers they    *)
(* start and the file with the pid.  A command of cmd tests whether the    *)
(* port is free, one of cmd2 whether a process with the server's name      *)
(* runs; neither knows of other commands.                                  *)
(*                                                                         *)
(* A server listens some time after it was started (SO_REUSEPORT lets      *)
(* several listen); the signal kills it before that, afterwards it leaves  *)
(* the port first and ends when its requests are served.                   *)
(***************************************************************************)
EXTENDS Naturals, FiniteSets

CONSTANTS
  Cmds,     (* the invocations of "start -d" and "stop"                    *)
  Servers,  (* the processes that can be started                           *)
  None      (* no process                                                  *)

(* None is nobody. *)
DaemonConstants == None \notin Cmds /\ None \notin Servers

VARIABLES
  version,  (* which package: "cmd" or "cmd2"                              *)
  cmd,      (* cmd[c]: [pc, op, free]                                      *)
  proc,     (* proc[p]: "none", "spawned", "listens", "drains", "dead"     *)
  pidfile,  (* the process in the pid file, or None                        *)
  by,       (* by[p]: the command that started p (history)                 *)
  unkilled, (* unkilled[c]: the servers up when c found none (history)     *)
  born,     (* born[c]: those started since c killed (history)             *)
  overlap   (* the pairs of commands that ran together (history)           *)

daemonVars == <<version, cmd, proc, pidfile, by, unkilled, born, overlap>>

Init == /\ version \in {"cmd", "cmd2"}
        /\ cmd = [c \in Cmds |-> [pc |-> "new", op |-> "start"]]
        /\ proc = [p \in Servers |-> "none"]
        /\ pidfile = None
        /\ by = [p \in Servers |-> None]
        /\ unkilled = [c \in Cmds |-> {}]
        /\ born = [c \in Cmds |-> {}]
        /\ overlap = {}

Runs(p) == proc[p] \in {"spawned", "listens", "drains"}
Serves(p) == proc[p] \in {"spawned", "listens"}
Listens(p) == proc[p] = "listens"

Busy(c) == cmd[c].pc \notin {"new", "over"}
To(c, pc) == cmd' = [cmd EXCEPT ![c].pc = pc]

(* SIGTERM *)
Signalled(p, ps) ==
  IF p \notin ps THEN proc[p]
  ELSE CASE proc[p] = "spawned" -> "dead" [] proc[p] = "listens" -> "drains" [] OTHER -> proc[p]

Kill(ps) == proc' = [p \in Servers |-> Signalled(p, ps)]

(* Servers started since c's kill. *)
Born(p) == born' = [c \in Cmds |-> IF cmd[c].pc \in {"port", "tick", "pid", "wait"}
                                   THEN born[c] \cup {p} ELSE born[c]]

-----------------------------------------------------------------------------
Invoke(c, op) ==
  /\ cmd[c].pc = "new"
  /\ cmd' = [cmd EXCEPT ![c] = [pc |-> "test", op |-> op]]
  /\ overlap' = overlap \cup {{c, d} : d \in {x \in Cmds : Busy(x)}}
  /\ UNCHANGED <<version, proc, pidfile, by, unkilled, born>>

(* Where a command goes when there is nothing to wait for. *)
Then(c) == IF cmd[c].op = "start" THEN "spawn" ELSE "over"

(* AddressCanListen, ProcessIsRunning; a mutant never finds a server.      *)
NotSeen(p) == FALSE
Seen(p) == IF version = "cmd" THEN Listens(p) ELSE Runs(p)

Test(c) ==
  /\ cmd[c].pc = "test"
  /\ IF \E p \in Servers : Seen(p)
     THEN To(c, "kill") /\ UNCHANGED unkilled
     ELSE To(c, Then(c)) /\ unkilled' = [unkilled EXCEPT ![c] = {p \in Servers : Runs(p)}]
  /\ UNCHANGED <<version, proc, pidfile, by, born, overlap>>

(* KillProcess: by name, every server, whether it listens or not. *)
KillProcess(c) ==
  /\ cmd[c].pc = "kill"
  /\ Kill(Servers)
  /\ To(c, IF version = "cmd" THEN "port" ELSE "wait")
  /\ born' = [born EXCEPT ![c] = {}]
  /\ UNCHANGED <<version, pidfile, by, unkilled, overlap>>

(* KillProcessWithPort: one that lsof shows, and wait for all; it also     *)
(* shows one that drains as long as that has connections.                  *)
KillProcessWithPort(c) ==
  /\ cmd[c].pc = "port"
  /\ \/ \E p \in Servers : proc[p] \in {"listens", "drains"} /\ Kill({p}) /\ To(c, "tick")
     \/ (\A p \in Servers : ~Listens(p)) /\ To(c, "pid") /\ UNCHANGED proc
  /\ UNCHANGED <<version, pidfile, by, unkilled, born, overlap>>

TickUntil(c) ==
  /\ cmd[c].pc = "tick"
  /\ \A p \in Servers : ~Listens(p)
  /\ To(c, "pid")
  /\ UNCHANGED <<version, proc, pidfile, by, unkilled, born, overlap>>

KillWithPidFile(c) ==
  /\ cmd[c].pc = "pid"
  /\ IF pidfile = None THEN UNCHANGED proc ELSE Kill({pidfile})
  /\ pidfile' = None
  /\ To(c, "wait")
  /\ UNCHANGED <<version, by, unkilled, born, overlap>>

(* The loops until the addresses can be listened to, or no process runs;   *)
(* a mutant does not wait.                                                 *)
NoWait(p) == TRUE
Gone(p) == IF version = "cmd" THEN ~Listens(p) ELSE ~Runs(p)

Waited(c) ==
  /\ cmd[c].pc = "wait"
  /\ \A p \in Servers : Gone(p)
  /\ To(c, Then(c))
  /\ UNCHANGED <<version, proc, pidfile, by, unkilled, born, overlap>>

CmdStart(c, p) ==
  /\ cmd[c].pc = "spawn"
  /\ proc[p] = "none"
  /\ proc' = [proc EXCEPT ![p] = "spawned"]
  /\ by' = [by EXCEPT ![p] = c]
  /\ To(c, "over")
  /\ Born(p)
  /\ UNCHANGED <<version, pidfile, unkilled, overlap>>

-----------------------------------------------------------------------------
(* The server: writePid in cmd, and then StartFunc. *)
WritePid(p) ==
  /\ version = "cmd" /\ proc[p] = "spawned" /\ pidfile # p
  /\ pidfile' = p
  /\ UNCHANGED <<version, cmd, proc, by, unkilled, born, overlap>>

Listen(p) ==
  /\ proc[p] = "spawned"
  /\ proc' = [proc EXCEPT ![p] = "listens"]
  /\ UNCHANGED <<version, cmd, pidfile, by, unkilled, born, overlap>>

Exit(p) ==
  /\ proc[p] = "drains"
  /\ proc' = [proc EXCEPT ![p] = "dead"]
  /\ UNCHANGED <<version, cmd, pidfile, by, unkilled, born, overlap>>

Command(c) == \/ Invoke(c, "start") \/ Invoke(c, "stop") \/ Test(c) \/ KillProcess(c)
              \/ KillProcessWithPort(c) \/ TickUntil(c) \/ KillWithPidFile(c) \/ Waited(c)
              \/ \E p \in Servers : CmdStart(c, p)

Next == \/ \E c \in Cmds : Command(c)
        \/ \E p \in Servers : WritePid(p) \/ Listen(p) \/ Exit(p)

Spec == Init /\ [][Next]_daemonVars

-----------------------------------------------------------------------------
TypeOK ==
  /\ version \in {"cmd", "cmd2"}
  /\ cmd \in [Cmds -> [pc : {"new", "test", "kill", "port", "tick", "pid", "wait", "spawn", "over"},
                       op : {"start", "stop"}]]
  /\ proc \in [Servers -> {"none", "spawned", "listens", "drains", "dead"}]
  /\ pidfile \in Servers \cup {None} /\ by \in [Servers -> Cmds \cup {None}]

(* Two servers serve at a time, and with cmd2 two run, only when the       *)
(* commands that started them ran together or, with cmd, the later one     *)
(* came before the first had begun to listen.                              *)
TwoExplained ==
  \A p, q \in Servers :
    (p # q /\ Serves(p) /\ Runs(q) /\ (version = "cmd" => Serves(q)))
      => \/ {by[p], by[q]} \in overlap
         \/ version = "cmd" /\ (p \in unkilled[by[q]] \/ q \in unkilled[by[p]])

(* A command waits for a server that nothing has told to end only when     *)
(* that was started after the command had killed all there were.           *)
WaitExplained ==
  \A c \in Cmds, p \in Servers :
    (cmd[c].pc \in {"tick", "wait"} /\ Serves(p)) => p \in born[c]

OneServer == TwoExplained /\ WaitExplained
=============================================================================
