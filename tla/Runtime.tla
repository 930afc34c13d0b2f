------------------------------- MODULE Runtime ------------------------------
(***************************************************************************)
(* What a server runs, side by side: the two JSON-RPC servers, its         *)
(* configuration, its life from start to interrupt, the commands that      *)
(* start and stop it, its MQTT client and what it makes once.  No step of  *)
(* one would read what another writes, so a behaviour is one of the        *)
(* machines.                                                               *)
(***************************************************************************)
EXTENDS Naturals, Sequences

CONSTANTS
  Keys, Vals, Default,           (* of Config                              *)
  Visits, Limit,                 (* of App: its requests                   *)
  Cmds, Servers,                 (* of Daemon                              *)
  Msgs, Users, Cap,              (* of Emq                                 *)
  Callers, Names, Nested, Objects,              (* of Once                 *)
  Reqs, Ctxs, Inputs, Receivers, Uses,          (* of Rpc                  *)
  Setup, Calls,                  (* of Rpc2                                *)
  None                           (* nothing                                *)

VARIABLES
  machine,                       (* which one runs                         *)
  file, temp, loaded, writer, event, watch, latest, sets, edits, unsaved, lost,
  kind, conf, main, open, hostpc, cbs, fired, firing, stop, hook, used, inside, told, late,
  broken,
  version, cmd, proc, pidfile, by, unkilled, born, overlap,
  made, client, loop, dialpc, pubC, hand, msg, broker, spoke,
  holder, found, mu, caller, up, name, since, replaced, closing,
  run, pool, ctx, rq, answer, ran, seen, refused,
  call, chain, hid, frames, abort, wrote, trace, cut, writes, ended

C == INSTANCE Config
A == INSTANCE App WITH Reqs <- Visits
D == INSTANCE Daemon
E == INSTANCE Emq
L == INSTANCE MessageLine WITH open <- made, fate <- msg, got <- broker,
                               line <- IF hand = None THEN pubC ELSE <<hand>> \o pubC
O == INSTANCE Once WITH m <- found, lock <- mu, raced <- replaced
R == INSTANCE Rpc WITH late <- refused
S == INSTANCE Rpc2 WITH Nobody <- None

configVars == <<file, temp, loaded, writer, event, watch, latest, sets, edits, unsaved, lost>>
appVars == <<kind, conf, main, open, hostpc, cbs, fired, firing, stop, hook, used, inside, told,
             late, broken>>
daemonVars == <<version, cmd, proc, pidfile, by, unkilled, born, overlap>>
emqVars == <<made, client, loop, dialpc, pubC, hand, msg, broker, spoke>>
onceVars == <<holder, found, mu, caller, up, name, since, replaced, closing>>
rpcVars == <<run, pool, ctx, rq, answer, ran, seen, refused>>
rpc2Vars == <<call, chain, hid, frames, abort, wrote, trace, cut, writes, ended>>

runtimeVars == <<machine, configVars, appVars, daemonVars, emqVars, onceVars, rpcVars, rpc2Vars>>

ASSUME RuntimeAssumption ==
  /\ C!ConfigConstants /\ A!AppConstants /\ D!DaemonConstants /\ E!EmqConstants
  /\ O!OnceConstants /\ R!RpcConstants /\ S!Rpc2Constants

-----------------------------------------------------------------------------
(* The variables of a machine that does not run. *)
NoConfig == /\ file = None /\ temp = None /\ loaded = None /\ writer = None /\ event = None
            /\ watch = None /\ latest = None /\ sets = None /\ edits = None /\ unsaved = None
            /\ lost = None

NoApp == /\ kind = None /\ conf = None /\ main = None /\ open = None /\ hostpc = None
         /\ cbs = None /\ fired = None /\ firing = None /\ stop = None /\ hook = None
         /\ used = None /\ inside = None /\ told = None /\ late = None /\ broken = None

NoDaemon == /\ version = None /\ cmd = None /\ proc = None /\ pidfile = None /\ by = None
            /\ unkilled = None /\ born = None /\ overlap = None

NoEmq == /\ made = None /\ client = None /\ loop = None /\ dialpc = None /\ pubC = None
         /\ hand = None /\ msg = None /\ broker = None /\ spoke = None

NoOnce == /\ holder = None /\ found = None /\ mu = None /\ caller = None /\ up = None
          /\ name = None /\ since = None /\ replaced = None /\ closing = None

NoRpc == /\ run = None /\ pool = None /\ ctx = None /\ rq = None /\ answer = None
         /\ ran = None /\ seen = None /\ refused = None

NoRpc2 == /\ call = None /\ chain = None /\ hid = None /\ frames = None /\ abort = None
          /\ wrote = None /\ trace = None /\ cut = None /\ writes = None /\ ended = None

RuntimeInit ==
  /\ machine \in {"config", "app", "daemon", "emq", "once", "rpc", "rpc2"}
  /\ IF machine = "config" THEN C!Init ELSE NoConfig
  /\ IF machine = "app" THEN A!Init ELSE NoApp
  /\ IF machine = "daemon" THEN D!Init ELSE NoDaemon
  /\ IF machine = "emq" THEN E!Init ELSE NoEmq
  /\ IF machine = "once" THEN O!Init ELSE NoOnce
  /\ IF machine = "rpc" THEN R!Init ELSE NoRpc
  /\ IF machine = "rpc2" THEN S!Init ELSE NoRpc2

(* The others stand still. *)
Others ==
  /\ UNCHANGED machine
  /\ IF machine = "config" THEN TRUE ELSE UNCHANGED configVars
  /\ IF machine = "app" THEN TRUE ELSE UNCHANGED appVars
  /\ IF machine = "daemon" THEN TRUE ELSE UNCHANGED daemonVars
  /\ IF machine = "emq" THEN TRUE ELSE UNCHANGED emqVars
  /\ IF machine = "once" THEN TRUE ELSE UNCHANGED onceVars
  /\ IF machine = "rpc" THEN TRUE ELSE UNCHANGED rpcVars
  /\ IF machine = "rpc2" THEN TRUE ELSE UNCHANGED rpc2Vars

RuntimeNext ==
  /\ \/ machine = "config" /\ C!Next
     \/ machine = "app" /\ A!Next
     \/ machine = "daemon" /\ D!Next
     \/ machine = "emq" /\ E!Next
     \/ machine = "once" /\ O!Next
     \/ machine = "rpc" /\ R!Next
     \/ machine = "rpc2" /\ S!Next
  /\ Others

RuntimeSpec == RuntimeInit /\ [][RuntimeNext]_runtimeVars

-----------------------------------------------------------------------------
(* The type invariant of the machine that runs. *)
TypeOK == /\ machine = "config" => C!TypeOK
          /\ machine = "app" => A!TypeOK
          /\ machine = "daemon" => D!TypeOK
          /\ machine = "emq" => E!TypeOK
          /\ machine = "once" => O!TypeOK
          /\ machine = "rpc" => R!TypeOK
          /\ machine = "rpc2" => S!TypeOK

(* The properties of the machines, which their modules explain.            *)

(* j2rpc: an answer is that of its own request.                            *)
OwnAnswer == machine = "rpc" => R!OwnAnswer

(* j2rpc: a method is called once, behind all its gates, with arguments    *)
(* that fit, and after Stop only for requests that were under way.         *)
CallsGuarded == machine = "rpc" => R!CallsGuarded

(* j2rpc2: handlers run in the order of their groups, and none after an    *)
(* abort.                                                                  *)
ChainHonoured == machine = "rpc2" => S!ChainHonoured

(* A start finds the settings as they were last given.                     *)
ChangesKept == [][machine = "config" => C!ChangesKept]_runtimeVars

(* The slots are explained, the services outlive the requests.             *)
AppHolds == machine = "app" => A!AppHolds

(* Two servers at a time are explained.                                    *)
OneServer == machine = "daemon" => D!OneServer

(* Emq implements MessageLine: messages leave in the order in which they   *)
(* were taken, and those that were acknowledged came in that order.        *)
ImplementsLine == /\ machine = "emq" => L!Init
                  /\ [][machine = "emq" => L!Next \/ UNCHANGED L!lineVars]_runtimeVars

(* Messages are neither lost nor out of order, and dropped only when the   *)
(* channel is full or was not made when they came.                         *)
NothingSilent == ImplementsLine /\ [][machine = "emq" => E!NothingSilent]_runtimeVars

(* What is made once is made once.                                         *)
OneEach == machine = "once" => O!OneEach
=============================================================================
