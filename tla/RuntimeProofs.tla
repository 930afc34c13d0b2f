--------------------------- MODULE RuntimeProofs ----------------------------
(***************************************************************************)
(* Proofs about the life of a server's process: its serving and its        *)
(* interrupt (App), the commands that start and stop it (Daemon), what it  *)
(* makes once (Once), its messages (Emq) and its settings (Config).  At    *)
(* the end the types of all the machines, those of RpcProofs among them.   *)
(***************************************************************************)
EXTENDS RpcProofs, FiniteSets

-----------------------------------------------------------------------------
(* The machine that runs takes its own steps, or none.                     *)
LEMMA OneBegins ==
  ASSUME RuntimeInit
  PROVE  /\ machine = "config" => C!Init
         /\ machine = "app" => A!Init
         /\ machine = "daemon" => D!Init
         /\ machine = "emq" => E!Init
         /\ machine = "once" => O!Init
BY Zenon DEF RuntimeInit

LEMMA OneRuns ==
  ASSUME [RuntimeNext]_runtimeVars
  PROVE  /\ machine' = machine
         /\ machine = "config" => [C!Next]_configVars
         /\ machine = "app" => [A!Next]_appVars
         /\ machine = "daemon" => [D!Next]_daemonVars
         /\ machine = "emq" => [E!Next]_emqVars
         /\ machine = "once" => [O!Next]_onceVars
<1>1. CASE RuntimeNext
  <2>1. machine' = machine
    BY <1>1, Zenon DEF RuntimeNext, Others
  <2>2. /\ machine = "config" => C!Next
        /\ machine = "app" => A!Next
        /\ machine = "daemon" => D!Next
        /\ machine = "emq" => E!Next
        /\ machine = "once" => O!Next
    BY <1>1 DEF RuntimeNext
  <2>3. QED
    BY <2>1, <2>2, Zenon
<1>2. CASE UNCHANGED runtimeVars
  BY <1>2, Zenon DEF runtimeVars
<1>3. QED
  BY <1>1, <1>2

-----------------------------------------------------------------------------
(* The elements of sequences. *)
Callbacks == {"host", "boot"}
Has(s, x) == \E i \in DOMAIN s : s[i] = x
NoneTwice(s) == \A i, j \in DOMAIN s : s[i] = s[j] => i = j

LEMMA AppendHas ==
  ASSUME NEW T, NEW s \in Seq(T), NEW e \in T
  PROVE  /\ Append(s, e) \in Seq(T) /\ Append(s, e) # <<>> /\ Len(Append(s, e)) = Len(s) + 1
         /\ s # <<>> => Head(Append(s, e)) = Head(s)
         /\ \A x : Has(Append(s, e), x) <=> Has(s, x) \/ x = e
         /\ NoneTwice(s) /\ ~Has(s, e) => NoneTwice(Append(s, e))
<1> DEFINE t == Append(s, e)
<1>1. /\ t \in Seq(T) /\ Len(t) = Len(s) + 1 /\ DOMAIN t = 1..Len(s) + 1
      /\ \A i \in 1..Len(s) : t[i] = s[i]
      /\ t[Len(s) + 1] = e
  BY AppendProperties, LenProperties
<1>2. DOMAIN s = 1..Len(s) /\ Len(s) \in Nat
  BY LenProperties
<1> HIDE DEF t
<1>3. t # <<>> /\ (s # <<>> => Head(t) = Head(s))
  BY <1>1, <1>2, EmptySeq, HeadTailProperties
<1>4. ASSUME NEW x PROVE Has(t, x) <=> Has(s, x) \/ x = e
  BY <1>1, <1>2 DEF Has
<1>5. ASSUME NoneTwice(s), ~Has(s, e) PROVE NoneTwice(t)
  BY <1>1, <1>2, <1>5 DEF NoneTwice, Has
<1>6. QED
  BY <1>1, <1>3, <1>4, <1>5 DEF t

LEMMA TailHas ==
  ASSUME NEW T, NEW s \in Seq(T), s # <<>>
  PROVE  /\ Head(s) \in T /\ Tail(s) \in Seq(T) /\ Len(Tail(s)) = Len(s) - 1
         /\ Has(s, Head(s)) /\ \A x : Has(s, x) <=> Has(Tail(s), x) \/ x = Head(s)
         /\ NoneTwice(s) => NoneTwice(Tail(s)) /\ ~Has(Tail(s), Head(s))
<1> DEFINE t == Tail(s)
<1>1. /\ t \in Seq(T) /\ Len(t) = Len(s) - 1 /\ DOMAIN t = 1..Len(t)
      /\ \A i \in 1..Len(t) : t[i] = s[i + 1]
      /\ Head(s) = s[1] /\ Len(s) \in Nat /\ Len(s) > 0 /\ DOMAIN s = 1..Len(s)
      /\ s[1] \in T
  BY HeadTailProperties, LenProperties, EmptySeq
<1> HIDE DEF t
<1>2. ASSUME NEW x PROVE Has(s, x) <=> Has(t, x) \/ x = Head(s)
  <2>1. ASSUME NEW i \in DOMAIN s, s[i] = x, x # Head(s) PROVE Has(t, x)
    <3>1. i - 1 \in DOMAIN t /\ t[i - 1] = x
      BY <1>1, <2>1
    <3>2. QED
      BY <3>1 DEF Has
  <2>2. ASSUME NEW i \in DOMAIN t PROVE i + 1 \in DOMAIN s /\ s[i + 1] = t[i]
    BY <1>1
  <2>3. QED
    BY <1>1, <2>1, <2>2 DEF Has
<1>3. ASSUME NoneTwice(s) PROVE NoneTwice(t) /\ ~Has(t, Head(s))
  <2>1. \A i \in DOMAIN t : i + 1 \in DOMAIN s /\ s[i + 1] = t[i] /\ i + 1 # 1
    BY <1>1
  <2>2. QED
    BY <1>1, <1>3, <2>1 DEF NoneTwice, Has
<1>4. QED
  BY <1>1, <1>2, <1>3 DEF Has, t

LEMMA EmptyHas == (\A T : <<>> \in Seq(T)) /\ NoneTwice(<<>>) /\ \A x : ~Has(<<>>, x)
BY DEF NoneTwice, Has

-----------------------------------------------------------------------------
AppTyped == /\ A!TypeOK
            /\ kind \in {"giris", "giris2"}
            /\ cbs \in Seq(Callbacks) /\ fired \in Seq(Callbacks)
            /\ used \in Nat /\ broken \in Nat /\ IsFiniteSet(inside)

(* The module of App counts as this one does.                              *)
LEMMA SameSize == \A X : A!Cardinality(X) = Cardinality(X)
BY DEF A!Cardinality, Cardinality

(* A slot of the limiter is held by a request that is inside, or for ever. *)
Slots == used = Cardinality(inside) + broken /\ used <= Limit

(* The callbacks are registered once each and run in that order: what is   *)
(* left to run was found, what was found is registered.                    *)
InTurn ==
  /\ NoneTwice(cbs) /\ NoneTwice(firing)
  /\ \A cb \in Callbacks : /\ Has(firing, cb) => Has(fired, cb)
                           /\ Has(fired, cb) => Has(cbs, cb)
  /\ fired = <<>> => firing = <<>>
  /\ hostpc \in {"none", "starting"} => ~Has(cbs, "host")
  /\ main \in {"init", "start", "emq", "register"} => ~Has(cbs, "boot")
  /\ kind = "giris2" => ~Has(cbs, "boot")

(* The host drains while its callback runs; before it serves nobody is in  *)
(* a handler, after it is down nobody who was not left behind.             *)
Serving ==
  /\ hostpc = "draining" => firing # <<>> /\ Head(firing) = "host"
  /\ hostpc \in {"none", "starting", "serving"} => hook = "none"
  /\ hostpc \in {"none", "starting"} => inside = {}
  /\ hostpc = "down" => inside = {} \/ late
  /\ main \in {"init", "start"} => hostpc = "none"

(* boot opens what is configured before it serves. *)
Opened ==
  /\ kind = "giris2" => main \in {"init", "start", "wait", "over"}
  /\ main \in {"start", "emq", "register", "wait"} => conf \cap {"redis", "db"} \subseteq open

BootFirst == cbs # <<>> /\ Head(cbs) = "boot"

(* boot.Start: its callback closes stop, behind the host's shutdown unless *)
(* it was registered before it.                                            *)
StopOfBoot ==
  kind = "giris" =>
    /\ Has(firing, "boot") \/ fired = <<>> => stop = "open"
    /\ stop # "panic"
    /\ stop = "closed" \/ (firing # <<>> /\ Head(firing) = "boot") => BootFirst \/ hostpc = "down"
    /\ Has(fired, "boot") /\ ~Has(firing, "boot") => stop = "closed"
    /\ main = "close" => stop = "closed"

(* giris2: the hook and the application's Shutdown close it. *)
StopOfHook ==
  kind = "giris2" =>
    /\ stop = "open" <=> ~told /\ hook # "done"
    /\ stop = "panic" <=> told /\ hook = "done"

AppInv == AppTyped /\ Slots /\ InTurn /\ Serving /\ Opened /\ StopOfBoot /\ StopOfHook

LEMMA AppInit == A!AppConstants /\ A!Init => AppInv
<1> SUFFICES ASSUME A!AppConstants, A!Init PROVE AppInv
  OBVIOUS
<1>1. AppTyped /\ Slots
  <2>1. used = Cardinality(inside) + broken /\ used <= Limit /\ IsFiniteSet(inside)
    BY FS_EmptySet DEF A!Init, A!AppConstants
  <2>2. A!TypeOK
    BY EmptyHas DEF A!Init, A!TypeOK, Callbacks
  <2>3. cbs \in Seq(Callbacks) /\ fired \in Seq(Callbacks)
    BY EmptyHas, Zenon DEF A!Init
  <2>4. kind \in {"giris", "giris2"} /\ used \in Nat /\ broken \in Nat
    BY DEF A!Init
  <2>5. QED
    BY <2>1, <2>2, <2>3, <2>4 DEF AppTyped, Slots
<1>2. InTurn /\ Serving /\ Opened
  BY EmptyHas DEF A!Init, InTurn, Serving, Opened
<1>3. told = FALSE /\ stop = "open" /\ hook = "none"
  BY DEF A!Init
<1>4. StopOfBoot /\ StopOfHook
  BY <1>3, EmptyHas DEF A!Init, StopOfBoot, StopOfHook
<1>5. QED
  BY <1>1, <1>2, <1>4 DEF AppInv

(* The steps that touch neither the callbacks nor what they close.         *)
LEMMA AppMain ==
  ASSUME AppInv, A!Alive, A!Startup \/ A!StartApp \/ A!StartEmq \/ A!Wait \/ A!CloseServiceConns
  PROVE  AppInv'
<1> USE DEF AppInv, AppTyped, A!TypeOK, Slots, InTurn, Serving, Opened, StopOfBoot,
            StopOfHook, BootFirst
<1>1. CASE A!Startup
  BY <1>1 DEF A!Startup
<1>2. CASE A!StartApp
  BY <1>2 DEF A!StartApp
<1>3. CASE A!StartEmq
  BY <1>3 DEF A!StartEmq
<1>4. CASE A!Wait
  BY <1>4 DEF A!Wait
<1>5. CASE A!CloseServiceConns
  BY <1>5 DEF A!CloseServiceConns
<1>6. QED
  BY <1>1, <1>2, <1>3, <1>4, <1>5

LEMMA AppRequests ==
  ASSUME AppInv, A!AppConstants, NEW r \in Visits, A!Enter(r) \/ A!Leave(r) \/ A!Panic(r)
  PROVE  AppInv'
<1> USE DEF AppInv
<1>1. UNCHANGED <<kind, conf, main, open, hostpc, cbs, fired, firing, stop, hook, told, late>>
  BY DEF A!Enter, A!Leave, A!Panic
<1>2. InTurn' /\ Opened' /\ StopOfBoot' /\ StopOfHook'
  BY <1>1 DEF InTurn, Opened, StopOfBoot, StopOfHook, BootFirst
<1>3. CASE A!Enter(r)
  <2>1. IsFiniteSet(inside') /\ Cardinality(inside') = Cardinality(inside) + 1
    BY <1>3, FS_AddElement DEF A!Enter, AppTyped
  <2>2. used' = used + 1 /\ used < Limit /\ broken' = broken /\ inside' \subseteq Visits
    BY <1>3 DEF A!Enter, A!Room, AppTyped, A!TypeOK
  <2>3. AppTyped'
    BY <1>1, <2>1, <2>2 DEF AppTyped, A!TypeOK
  <2>4. Slots'
    BY <2>1, <2>2, FS_CardinalityType DEF AppTyped, Slots, A!AppConstants
  <2>5. QED
    BY <1>1, <1>2, <1>3, <2>3, <2>4 DEF A!Enter, Serving
<1>4. CASE A!Leave(r) \/ A!Panic(r)
  <2>1. /\ inside' = inside \ {r} /\ r \in inside
        /\ IsFiniteSet(inside') /\ Cardinality(inside') = Cardinality(inside) - 1
    BY <1>4, FS_RemoveElement DEF A!Leave, A!Panic, AppTyped
  <2>2. \/ used' = used - 1 /\ broken' = broken
        \/ used' = used /\ broken' = broken + 1
    BY <1>4 DEF A!Leave, A!Panic
  <2>3. Cardinality(inside) \in Nat /\ Cardinality(inside') \in Nat
    BY <2>1, FS_CardinalityType DEF AppTyped
  <2>4. used' \in Nat /\ broken' \in Nat /\ Slots'
    BY <2>1, <2>2, <2>3 DEF AppTyped, Slots, A!AppConstants
  <2>5. AppTyped'
    BY <1>1, <2>1, <2>4 DEF AppTyped, A!TypeOK
  <2>6. QED
    BY <1>1, <1>2, <2>1, <2>4, <2>5 DEF Serving
<1>5. QED
  BY <1>3, <1>4

LEMMA AppRegisters ==
  ASSUME AppInv, A!Alive, A!RegisterOnInterrupt \/ A!Run
  PROVE  AppInv'
<1> USE DEF AppInv, AppTyped, A!TypeOK, Slots, Serving, Opened
<1>1. PICK cb \in Callbacks : /\ cbs' = Append(cbs, cb) /\ firing = <<>>
                              /\ cb = "boot" <=> A!RegisterOnInterrupt
                              /\ cb = "host" <=> A!Run
  BY DEF A!RegisterOnInterrupt, A!Run, A!Registers, Callbacks
<1>2. UNCHANGED <<kind, conf, open, fired, firing, stop, hook, used, inside, told, late, broken>>
  BY DEF A!RegisterOnInterrupt, A!Run
<1>3. ~Has(cbs, cb)
  BY <1>1 DEF A!RegisterOnInterrupt, A!Run, InTurn
<1>4. AppTyped' /\ Slots' /\ Serving' /\ Opened'
  BY <1>1, <1>2, AppendHas DEF A!RegisterOnInterrupt, A!Run
<1>5. InTurn'
  BY <1>1, <1>2, <1>3, AppendHas DEF A!RegisterOnInterrupt, A!Run, InTurn, Callbacks
<1>6. StopOfBoot' /\ StopOfHook'
  BY <1>1, <1>2, AppendHas
     DEF A!RegisterOnInterrupt, A!Run, A!Alive, StopOfBoot, StopOfHook, BootFirst
<1>7. QED
  BY <1>4, <1>5, <1>6

LEMMA AppInterrupt == ASSUME AppInv, A!Interrupt PROVE AppInv'
<1> USE DEF AppInv, AppTyped, A!TypeOK, Slots, A!Interrupt
<1>1. AppTyped' /\ Slots' /\ Opened'
  BY DEF Opened, Callbacks
<1>2. InTurn' /\ Serving'
  BY EmptyHas DEF InTurn, Serving
<1>3. StopOfBoot' /\ StopOfHook'
  BY EmptyHas DEF InTurn, StopOfBoot, StopOfHook, BootFirst
<1>4. QED
  BY <1>1, <1>2, <1>3

(* A callback that is done. *)
LEMMA PopCalls ==
  ASSUME AppTyped, InTurn, firing # <<>>, firing' = Tail(firing),
         UNCHANGED <<kind, main, cbs, fired>>, hostpc' \in {hostpc, "down"}
  PROVE  InTurn'
<1>1. /\ NoneTwice(firing) => NoneTwice(firing')
      /\ \A cb \in Callbacks : Has(firing', cb) => Has(firing, cb)
  BY TailHas DEF AppTyped, A!TypeOK, Callbacks
<1>2. fired # <<>>
  BY DEF InTurn
<1>3. QED
  BY <1>1, <1>2 DEF InTurn

LEMMA AppCallbacks ==
  ASSUME AppInv, A!Alive, A!BootCallback \/ A!HostCallback \/ A!HostDown \/ A!TenSeconds
  PROVE  AppInv'
<1> USE DEF AppInv, AppTyped, A!TypeOK, Slots, Opened
<1>1. CASE A!HostCallback
  BY <1>1 DEF A!HostCallback, InTurn, Serving, StopOfBoot, StopOfHook, BootFirst
<1>2. CASE A!BootCallback
  <2>1. firing # <<>> /\ Head(firing) = "boot" /\ firing' = Tail(firing)
    BY <1>2 DEF A!BootCallback
  <2>2. AppTyped' /\ Slots' /\ Serving' /\ Opened'
    BY <1>2, <2>1, TailHas DEF A!BootCallback, A!Closed, Serving, Callbacks
  <2>3. InTurn'
    BY <1>2, <2>1, PopCalls DEF A!BootCallback
  <2>4. Has(firing, "boot") /\ "boot" \in Callbacks /\ kind = "giris" /\ ~Has(firing', "boot")
    BY <2>1, TailHas DEF InTurn, Callbacks
  <2>5. stop' = "closed" /\ fired # <<>> /\ (BootFirst \/ hostpc = "down")
    BY <1>2, <2>1, <2>4 DEF A!BootCallback, A!Closed, StopOfBoot, InTurn
  <2>6. StopOfBoot' /\ StopOfHook'
    BY <1>2, <2>1, <2>4, <2>5, TailHas DEF A!BootCallback, StopOfBoot, StopOfHook, BootFirst
  <2>7. QED
    BY <2>2, <2>3, <2>6
<1>3. CASE A!HostDown \/ A!TenSeconds
  <2>1. /\ firing # <<>> /\ Head(firing) = "host" /\ firing' = Tail(firing) /\ hostpc' = "down"
        /\ UNCHANGED <<kind, conf, main, open, cbs, fired, stop, hook, used, inside, told, broken>>
        /\ hostpc = "draining" /\ (inside' = {} \/ late')
    BY <1>3 DEF A!HostDown, A!TenSeconds, A!Drained, Serving
  <2>2. AppTyped' /\ Slots' /\ Serving' /\ Opened'
    BY <2>1, TailHas DEF Serving, Callbacks
  <2>3. InTurn'
    BY <2>1, PopCalls
  <2>4. "boot" \in Callbacks /\ (Has(firing', "boot") <=> Has(firing, "boot"))
    BY <2>1, TailHas DEF Callbacks
  <2>5. StopOfBoot' /\ StopOfHook'
    BY <2>1, <2>4 DEF StopOfBoot, StopOfHook, BootFirst
  <2>6. QED
    BY <2>2, <2>3, <2>5
<1>4. QED
  BY <1>1, <1>2, <1>3

LEMMA AppStops == ASSUME AppInv, A!Alive, A!Hook \/ A!Shutdown PROVE AppInv'
<1> USE DEF AppInv, AppTyped, A!TypeOK, Slots, Opened
<1>1. CASE A!Hook
  BY <1>1 DEF A!Hook, A!Closed, InTurn, Serving, StopOfBoot, StopOfHook, BootFirst
<1>2. CASE A!Shutdown
  BY <1>2 DEF A!Shutdown, A!Closed, InTurn, Serving, StopOfBoot, StopOfHook, BootFirst
<1>3. QED
  BY <1>1, <1>2

LEMMA AppInvStep == ASSUME A!AppConstants PROVE AppInv /\ [A!Next]_appVars => AppInv'
<1> SUFFICES ASSUME AppInv, [A!Next]_appVars PROVE AppInv'
  OBVIOUS
<1>1. CASE A!Next
  BY <1>1, AppMain, AppRequests, AppRegisters, AppInterrupt, AppCallbacks, AppStops
     DEF A!Next, A!Main, A!Host, A!Ends
<1>2. CASE UNCHANGED appVars
  BY <1>2 DEF appVars, AppInv, AppTyped, A!TypeOK, Slots, InTurn, Serving, Opened,
              StopOfBoot, StopOfHook, BootFirst
<1>3. QED
  BY <1>1, <1>2

(* The slots of ConcurrentLimit are those of requests in their handlers or *)
(* lost to panics; boot.Start keeps redis and the database open for the    *)
(* requests, closes stop once, and hears an interrupt that found its       *)
(* callback, whatever was registered first and whoever is in a handler.    *)
THEOREM ShutdownHolds == RuntimeSpec => []AppHolds
<1>1. AppInv => A!AppHolds
  <2> SUFFICES ASSUME AppInv PROVE A!AppHolds
    OBVIOUS
  <2>1. A!ServicesOutlive
    BY DEF AppInv, AppTyped, A!TypeOK, Serving, Opened, StopOfBoot, BootFirst, A!ServicesOutlive,
           A!Alive
  <2>2. A!StopOnce
    BY DEF AppInv, AppTyped, StopOfBoot, StopOfHook, A!StopOnce
  <2>3. A!WaitExplained
    <3>1. "boot" \in A!ToSet(fired) <=> Has(fired, "boot")
      BY DEF A!ToSet, Has
    <3>2. QED
      BY <3>1, EmptyHas DEF AppInv, StopOfBoot, A!WaitExplained
  <2>4. A!SlotsExplained
    BY SameSize DEF AppInv, Slots, A!SlotsExplained
  <2>5. QED
    BY <2>1, <2>2, <2>3, <2>4 DEF A!AppHolds
<1> DEFINE I == machine = "app" => AppInv
<1>2. RuntimeInit => I
  BY AppInit, OneBegins, RuntimeAssumption
<1>3. I /\ [RuntimeNext]_runtimeVars => I'
  BY AppInvStep, OneRuns, RuntimeAssumption
<1>4. I => AppHolds
  BY <1>1, RuntimeAssumption DEF AppHolds
<1>5. QED
  BY <1>2, <1>3, <1>4, PTL DEF RuntimeSpec

-----------------------------------------------------------------------------
(* A server has been started by a command, which is over then.             *)
(* A server knows the command that spawned it, which is over since. *)
Started == \A p \in Servers : /\ proc[p] = "none" <=> by[p] = None
                              /\ by[p] # None => cmd[by[p]].pc = "over"

(* Commands under way at once are recorded as such. *)
Together == \A c, d \in Cmds : c # d /\ D!Busy(c) /\ D!Busy(d) => {c, d} \in overlap

(* Servers of commands that were over when d began: once d has killed none *)
(* of them serves, and when d starts its own none does that d did not miss.*)
Earlier(d, p) == by[p] # None /\ by[p] # d /\ {by[p], d} \notin overlap

Met(d, p) ==
  D!Busy(d) /\ Earlier(d, p) =>
    /\ cmd[d].pc \in {"port", "tick", "pid", "wait"} => ~D!Serves(p)
    /\ cmd[d].pc = "spawn" => IF version = "cmd2" THEN ~D!Runs(p)
                              ELSE ~D!Serves(p) \/ p \in unkilled[d]

(* What serves behind the back of a command that has killed is younger.    *)
Younger == \A c \in Cmds, p \in Servers :
             cmd[c].pc \in {"port", "tick", "pid", "wait"} /\ D!Serves(p) => p \in born[c]

DaemonTyped == /\ D!TypeOK
               /\ unkilled \in [Cmds -> SUBSET Servers] /\ born \in [Cmds -> SUBSET Servers]

DaemonInv == /\ DaemonTyped /\ Started /\ Together /\ Younger /\ D!TwoExplained
             /\ \A d \in Cmds, p \in Servers : Met(d, p)

LEMMA DaemonInit == D!DaemonConstants /\ D!Init => DaemonInv
BY DEF D!DaemonConstants, D!Init, DaemonInv, DaemonTyped, D!TypeOK, Started, Together, Younger, Met,
       Earlier, D!TwoExplained, D!Serves, D!Runs, D!Busy

(* The steps that start no server.                                         *)
Commands(c) ==
  \/ \E op \in {"start", "stop"} : D!Invoke(c, op)
  \/ D!Test(c) \/ D!KillProcess(c) \/ D!KillProcessWithPort(c) \/ D!TickUntil(c)
  \/ D!KillWithPidFile(c) \/ D!Waited(c)

ServerSteps == \E q \in Servers : D!WritePid(q) \/ D!Listen(q) \/ D!Exit(q)

(* A step that starts no server brings none to serve, or to run, that did  *)
(* not before.                                                             *)
LEMMA NoneRises ==
  ASSUME DaemonTyped, NEW c, (c \in Cmds /\ Commands(c)) \/ ServerSteps
  PROVE  /\ \A p \in Servers : /\ D!Runs(p)' => D!Runs(p)
                               /\ D!Serves(p)' => D!Serves(p)
                               /\ proc'[p] = "none" <=> proc[p] = "none"
         /\ by' = by /\ version' = version
<1> USE DEF DaemonTyped, D!TypeOK, D!Runs, D!Serves, Commands, ServerSteps
<1>1. CASE UNCHANGED proc
  BY <1>1 DEF D!Invoke, D!Test, D!KillProcess, D!KillProcessWithPort, D!TickUntil,
              D!KillWithPidFile, D!Waited, D!WritePid, D!Listen, D!Exit
<1>2. ASSUME NEW ps, D!Kill(ps)
      PROVE  \A p \in Servers : /\ D!Runs(p)' => D!Runs(p)
                                /\ D!Serves(p)' => D!Serves(p)
                                /\ proc'[p] = "none" <=> proc[p] = "none"
  BY <1>2 DEF D!Kill, D!Signalled
<1>3. CASE c \in Cmds /\ (D!KillProcess(c) \/ D!KillProcessWithPort(c) \/ D!KillWithPidFile(c))
  BY <1>1, <1>2, <1>3 DEF D!KillProcess, D!KillProcessWithPort, D!KillWithPidFile
<1>4. CASE \E q \in Servers : D!Listen(q) \/ D!Exit(q)
  BY <1>4 DEF D!Listen, D!Exit
<1>5. QED
  BY <1>1, <1>3, <1>4 DEF D!Invoke, D!Test, D!TickUntil, D!Waited, D!WritePid

LEMMA DaemonTypes == ASSUME DaemonTyped, D!Next PROVE DaemonTyped'
<1> USE DEF DaemonTyped, D!TypeOK, D!To
<1>1. ASSUME NEW ps, D!Kill(ps)
      PROVE  proc' \in [Servers -> {"none", "spawned", "listens", "drains", "dead"}]
  BY <1>1 DEF D!Kill, D!Signalled
<1>2. ASSUME NEW c \in Cmds, D!Command(c) PROVE DaemonTyped'
  <2>1. ASSUME NEW op \in {"start", "stop"}, D!Invoke(c, op) PROVE DaemonTyped'
    BY <2>1 DEF D!Invoke
  <2>2. CASE D!Test(c)
    <3>1. PICK pc \in {"kill", "spawn", "over"} : cmd' = [cmd EXCEPT ![c].pc = pc]
      BY <2>2 DEF D!Test, D!Then
    <3>2. unkilled' = unkilled \/ \E ps \in SUBSET Servers : unkilled' = [unkilled EXCEPT ![c] = ps]
      BY <2>2 DEF D!Test
    <3>3. UNCHANGED <<version, proc, pidfile, by, born>>
      BY <2>2 DEF D!Test
    <3>4. QED
      BY <3>1, <3>2, <3>3
  <2>3. CASE D!KillProcess(c)
    BY <1>1, <2>3 DEF D!KillProcess
  <2>4. CASE D!KillProcessWithPort(c)
    BY <1>1, <2>4, ZenonT(60) DEF D!KillProcessWithPort
  <2>5. CASE D!TickUntil(c) \/ D!Waited(c)
    BY <2>5, SMTT(30) DEF D!TickUntil, D!Waited, D!Then
  <2>6. CASE D!KillWithPidFile(c)
    BY <1>1, <2>6 DEF D!KillWithPidFile
  <2>7. ASSUME NEW p \in Servers, D!CmdStart(c, p) PROVE DaemonTyped'
    <3>1. /\ proc' = [proc EXCEPT ![p] = "spawned"] /\ by' = [by EXCEPT ![p] = c]
          /\ cmd' = [cmd EXCEPT ![c].pc = "over"] /\ UNCHANGED <<version, pidfile, unkilled>>
      BY <2>7 DEF D!CmdStart
    <3>2. born' \in [Cmds -> SUBSET Servers]
      BY <2>7 DEF D!CmdStart, D!Born
    <3>3. QED
      BY <3>1, <3>2
  <2>8. QED
    BY <1>2, <2>1, <2>2, <2>3, <2>4, <2>5, <2>6, <2>7 DEF D!Command
<1>3. ASSUME NEW p \in Servers, D!WritePid(p) \/ D!Listen(p) \/ D!Exit(p) PROVE DaemonTyped'
  BY <1>3 DEF D!WritePid, D!Listen, D!Exit
<1>4. QED
  BY <1>2, <1>3 DEF D!Next

(* Steps of a command or a server, but for the start of one.               *)
LEMMA DaemonWithout ==
  ASSUME DaemonInv, DaemonTyped', NEW c, (c \in Cmds /\ Commands(c)) \/ ServerSteps
  PROVE  DaemonInv'
<1> DEFINE Acts == {"port", "tick", "pid", "wait"}
<1> USE DEF DaemonInv, DaemonTyped, D!TypeOK, D!To, Commands, ServerSteps
<1>1. /\ \A p \in Servers : /\ D!Runs(p)' => D!Runs(p)
                            /\ D!Serves(p)' => D!Serves(p)
                            /\ proc'[p] = "none" <=> proc[p] = "none"
      /\ by' = by /\ version' = version
  BY NoneRises
<1>2. /\ \A d \in Cmds : cmd[d].pc = "over" => cmd'[d] = cmd[d] /\ unkilled'[d] = unkilled[d]
      /\ overlap \subseteq overlap'
  BY DEF D!Invoke, D!Test, D!KillProcess, D!KillProcessWithPort, D!TickUntil, D!KillWithPidFile,
         D!Waited, D!WritePid, D!Listen, D!Exit
<1>3. Started'
  BY <1>1, <1>2 DEF Started
<1>4. D!TwoExplained'
  <2>1. ASSUME NEW p \in Servers, D!Runs(p)'
        PROVE  D!Runs(p) /\ by[p] \in Cmds /\ unkilled'[by[p]] = unkilled[by[p]]
    BY <1>1, <1>2, <2>1 DEF Started, D!Runs
  <2>2. \A p \in Servers : D!Serves(p)' => D!Runs(p)' /\ D!Serves(p)
    BY <1>1 DEF D!Serves, D!Runs
  <2>3. QED
    BY <1>1, <1>2, <2>1, <2>2 DEF D!TwoExplained
<1>5. \/ c \in Cmds /\ \E op \in {"start", "stop"} : D!Invoke(c, op)
      \/ overlap' = overlap /\ \A d \in Cmds : D!Busy(d)' => D!Busy(d)
  BY DEF D!Test, D!KillProcess, D!KillProcessWithPort, D!TickUntil, D!KillWithPidFile,
         D!Waited, D!WritePid, D!Listen, D!Exit, D!Busy
<1>6. Together'
  <2>1. ASSUME c \in Cmds, NEW op \in {"start", "stop"}, D!Invoke(c, op) PROVE Together'
    BY <2>1 DEF D!Invoke, Together, D!Busy
  <2>2. QED
    BY <1>5, <2>1 DEF Together
<1>7. \A d \in Cmds :
        \/ cmd'[d] = cmd[d] /\ unkilled'[d] = unkilled[d] /\ born'[d] = born[d]
        \/ d = c /\ \/ cmd'[d].pc \in {"test", "kill", "over"}
                    \/ D!KillProcess(c)
                    \/ cmd[d].pc \in Acts /\ cmd'[d].pc \in Acts /\ born'[d] = born[d]
                    \/ cmd'[d].pc = "spawn" /\ (D!Test(c) \/ D!Waited(c))
  <2>1. ASSUME NEW op \in {"start", "stop"}, D!Invoke(c, op), NEW d \in Cmds
        PROVE  IF d = c THEN cmd'[d].pc = "test"
               ELSE cmd'[d] = cmd[d] /\ unkilled'[d] = unkilled[d] /\ born'[d] = born[d]
    BY <2>1 DEF D!Invoke
  <2>2. ASSUME D!Test(c), NEW d \in Cmds
        PROVE  IF d = c THEN cmd'[d].pc \in {"kill", "over", "spawn"}
               ELSE cmd'[d] = cmd[d] /\ unkilled'[d] = unkilled[d] /\ born'[d] = born[d]
    BY <2>2 DEF D!Test, D!Then
  <2>3. ASSUME D!KillProcess(c), NEW d \in Cmds, d # c
        PROVE  cmd'[d] = cmd[d] /\ unkilled'[d] = unkilled[d] /\ born'[d] = born[d]
    BY <2>3 DEF D!KillProcess
  <2>4. ASSUME D!KillProcessWithPort(c) \/ D!TickUntil(c) \/ D!KillWithPidFile(c), NEW d \in Cmds
        PROVE  IF d = c THEN cmd[d].pc \in Acts /\ cmd'[d].pc \in Acts /\ born'[d] = born[d]
               ELSE cmd'[d] = cmd[d] /\ unkilled'[d] = unkilled[d] /\ born'[d] = born[d]
    BY <2>4, ZenonT(60) DEF D!KillProcessWithPort, D!TickUntil, D!KillWithPidFile
  <2>5. ASSUME D!Waited(c), NEW d \in Cmds
        PROVE  IF d = c THEN cmd'[d].pc \in {"over", "spawn"}
               ELSE cmd'[d] = cmd[d] /\ unkilled'[d] = unkilled[d] /\ born'[d] = born[d]
    BY <2>5 DEF D!Waited, D!Then
  <2>6. CASE ServerSteps
    BY <2>6 DEF D!WritePid, D!Listen, D!Exit
  <2>7. QED
    BY <2>1, <2>2, <2>3, <2>4, <2>5, <2>6
<1>8. D!KillProcess(c) => /\ \A p \in Servers : ~D!Serves(p)'
                          /\ cmd'[c].pc \in {"port", "wait"}
  BY DEF D!KillProcess, D!Kill, D!Signalled, D!Serves
<1>9. Younger'
  BY <1>1, <1>7, <1>8 DEF Younger
<1>10. ASSUME NEW d \in Cmds, NEW p \in Servers PROVE Met(d, p)'
  <2>1. CASE cmd'[d] = cmd[d] /\ unkilled'[d] = unkilled[d]
    BY <1>1, <1>2, <2>1 DEF Met, Earlier, D!Busy
  <2>2. CASE cmd'[d].pc \in {"test", "kill", "over"}
    BY <2>2 DEF Met
  <2>3. CASE d = c /\ D!KillProcess(c)
    BY <1>8, <2>3 DEF Met
  <2>4. CASE cmd[d].pc \in Acts /\ cmd'[d].pc \in Acts
    BY <1>1, <1>2, <2>4 DEF Met, Earlier, D!Busy
  <2>5. CASE d = c /\ cmd'[d].pc = "spawn" /\ D!Test(c)
    BY <1>1, <2>5 DEF D!Test, D!Then, D!Seen, D!Listens, Met, Earlier, D!Serves, D!Runs
  <2>6. CASE d = c /\ cmd'[d].pc = "spawn" /\ D!Waited(c)
    <3>1. /\ UNCHANGED <<proc, overlap, unkilled>> /\ D!Gone(p) /\ cmd[d].pc = "wait"
      BY <2>6 DEF D!Waited
    <3>2. Earlier(d, p)' => ~D!Serves(p) /\ (version = "cmd2" => ~D!Runs(p))
      BY <1>1, <3>1 DEF Met, Earlier, D!Busy, D!Gone
    <3>3. QED
      BY <1>1, <2>6, <3>1, <3>2 DEF Met, D!Serves, D!Runs
  <2>7. QED
    BY <1>7, <2>1, <2>2, <2>3, <2>4, <2>5, <2>6
<1>11. QED
  BY <1>3, <1>4, <1>6, <1>9, <1>10

(* The start of a server: what serves or runs beside it met its command.   *)
LEMMA DaemonStart ==
  ASSUME D!DaemonConstants, DaemonInv, DaemonTyped',
         NEW c \in Cmds, NEW q \in Servers, D!CmdStart(c, q)
  PROVE  DaemonInv'
<1> USE DEF DaemonInv, DaemonTyped, D!TypeOK
<1>1. /\ cmd[c].pc = "spawn" /\ proc[q] = "none" /\ by[q] = None
      /\ proc' = [proc EXCEPT ![q] = "spawned"] /\ by' = [by EXCEPT ![q] = c]
      /\ cmd' = [cmd EXCEPT ![c].pc = "over"] /\ UNCHANGED <<version, pidfile, unkilled, overlap>>
  BY DEF D!CmdStart, D!To, Started
<1>2. \A d \in Cmds : born'[d] = IF cmd[d].pc \in {"port", "tick", "pid", "wait"}
                                 THEN born[d] \cup {q} ELSE born[d]
  BY DEF D!CmdStart, D!Born
<1>3. c # None
  BY DEF D!DaemonConstants
<1>4. Started'
  BY <1>1, <1>3 DEF Started
<1>5. Together'
  BY <1>1 DEF Together, D!Busy
<1>6. Younger'
  BY <1>1, <1>2 DEF Younger, D!Serves
<1>7. ASSUME NEW p \in Servers, p # q, D!Runs(p)
      PROVE  \/ {by[p], c} \in overlap
             \/ version = "cmd" /\ (D!Serves(p) => p \in unkilled[c])
  <2>1. by[p] # None /\ by[p] # c
    BY <1>1, <1>7 DEF Started, D!Runs
  <2>2. QED
    BY <1>1, <1>7, <2>1 DEF Met, Earlier, D!Busy
<1>8. D!TwoExplained'
  <2>1. \A p \in Servers : p # q => /\ D!Runs(p)' <=> D!Runs(p)
                                    /\ D!Serves(p)' <=> D!Serves(p)
                                    /\ by'[p] = by[p]
    BY <1>1 DEF D!Runs, D!Serves
  <2>2. by'[q] = c /\ unkilled' = unkilled /\ overlap' = overlap /\ version' = version
    BY <1>1
  <2>3. \A p \in Servers : D!Serves(p) => D!Runs(p)
    BY DEF D!Serves, D!Runs
  <2>4. \A p \in Servers : {by[p], c} = {c, by[p]}
    OBVIOUS
  <2>5. QED
    BY <1>7, <2>1, <2>2, <2>3, <2>4 DEF D!TwoExplained
<1>9. ASSUME NEW d \in Cmds, NEW p \in Servers PROVE Met(d, p)'
  <2>1. CASE d = c
    BY <1>1, <2>1 DEF Met, D!Busy
  <2>2. CASE d # c /\ p # q
    BY <1>1, <2>2 DEF Met, Earlier, D!Busy, D!Serves, D!Runs
  <2>3. CASE d # c /\ p = q
    <3>1. D!Busy(d)' => {c, d} \in overlap
      BY <1>1, <2>3 DEF Together, D!Busy
    <3>2. QED
      BY <1>1, <2>3, <3>1 DEF Met, Earlier
  <2>4. QED
    BY <2>1, <2>2, <2>3
<1>10. QED
  BY <1>4, <1>5, <1>6, <1>8, <1>9

LEMMA DaemonStep == ASSUME D!DaemonConstants PROVE DaemonInv /\ [D!Next]_daemonVars => DaemonInv'
<1> SUFFICES ASSUME DaemonInv, [D!Next]_daemonVars PROVE DaemonInv'
  OBVIOUS
<1>1. CASE D!Next
  <2>1. DaemonTyped'
    BY <1>1, DaemonTypes DEF DaemonInv
  <2>2. ASSUME NEW c \in Cmds, D!Command(c) PROVE DaemonInv'
    BY <2>1, <2>2, DaemonWithout, DaemonStart DEF D!Command, Commands
  <2>3. QED
    BY <1>1, <2>1, <2>2, DaemonWithout DEF D!Next, ServerSteps
<1>2. CASE UNCHANGED daemonVars
  BY <1>2 DEF daemonVars, DaemonInv, DaemonTyped, D!TypeOK, Started, Together, Younger, Met,
              Earlier, D!TwoExplained, D!Serves, D!Runs, D!Busy
<1>3. QED
  BY <1>1, <1>2

(* Two servers are there at a time only when the commands that started     *)
(* them ran together or, with cmd, the later one came before the first had *)
(* begun to listen; and a command waits only for servers younger than its  *)
(* kill: for any number of commands and servers.                           *)
THEOREM ServersExplained == RuntimeSpec => []OneServer
<1>1. DaemonInv => D!OneServer
  BY DEF DaemonInv, Younger, D!OneServer, D!WaitExplained
<1> DEFINE I == machine = "daemon" => DaemonInv
<1>2. RuntimeInit => I
  BY DaemonInit, OneBegins, RuntimeAssumption
<1>3. I /\ [RuntimeNext]_runtimeVars => I'
  BY DaemonStep, OneRuns, RuntimeAssumption
<1>4. I => OneServer
  BY <1>1, RuntimeAssumption DEF OneServer
<1>5. QED
  BY <1>2, <1>3, <1>4, PTL DEF RuntimeSpec

-----------------------------------------------------------------------------
CallerStates == [pc : {"idle", "look", "lock", "make", "has"}, stack : Seq(Names),
                 got : Objects \cup {None}]

OnceTyped ==
  /\ holder \in {"single", "client", "writer"}
  /\ found \in [Names -> Objects \cup {None}]
  /\ mu \in Callers \cup {None}
  /\ up \subseteq Objects /\ replaced \subseteq Objects
  /\ caller \in [Callers -> CallerStates]
  /\ name \in [Objects -> Names \cup {None}]
  /\ since \in [Callers -> SUBSET Objects]

(* A caller asks for one name, or stands in the newFunc of another and     *)
(* waits for the lock that it holds.                                       *)
Asking(c) ==
  /\ caller[c].pc \in {"look", "lock", "make"} /\ mu # c
       => \E k \in Names : caller[c].stack = <<k>>
  /\ mu = c => /\ caller[c].pc \in {"lock", "make"}
               /\ caller[c].pc = "make" => \E k \in Names : caller[c].stack = <<k>>
               /\ caller[c].pc = "lock" => \E k \in Names : /\ Nested[k] # None
                                                            /\ caller[c].stack = <<Nested[k], k>>
  /\ caller[c].pc = "make" => mu = c
  /\ caller[c].pc = "look" => holder # "single"

(* What is found under a name was made for it; a single instance is found  *)
(* for ever.                                                               *)
Known == /\ \A k \in Names : found[k] # None => name[found[k]] = k
         /\ \A o \in Objects : holder = "single" /\ name[o] # None => found[name[o]] = o

(* An object that is up was made, and is found unless it was replaced.     *)
UpFound == \A o \in up : name[o] # None /\ (o \in replaced \/ found[name[o]] = o)

(* What a caller will replace was made since it looked.                    *)
Replaces(c) ==
  \A k \in Names :
    /\ holder # "single" /\ caller[c].pc \in {"lock", "make"} /\ caller[c].stack = <<k>>
    /\ found[k] \in up
    => found[k] \in since[c]

OnceInv == OnceTyped /\ Known /\ UpFound /\ \A c \in Callers : Asking(c) /\ Replaces(c)

LEMMA OnceInit == O!OnceConstants /\ O!Init => OnceInv
<1> SUFFICES ASSUME O!OnceConstants, O!Init PROVE OnceInv
  OBVIOUS
<1>1. OnceTyped
  <2>1. [c \in Callers |-> [pc |-> "idle", stack |-> <<>>, got |-> None]]
          \in [Callers -> CallerStates]
    BY EmptySeq DEF CallerStates
  <2>2. QED
    BY <2>1 DEF O!Init, OnceTyped
<1>2. Known /\ UpFound /\ \A c \in Callers : Asking(c) /\ Replaces(c)
  BY DEF O!OnceConstants, O!Init, Known, UpFound, Replaces, Asking
<1>3. QED
  BY <1>1, <1>2 DEF OnceInv

(* A caller that a step leaves alone. *)
LEMMA LeftAlone ==
  ASSUME NEW d \in Callers, Asking(d), Replaces(d), holder' = holder, caller'[d] = caller[d],
         mu' = d <=> mu = d, found' = found, up' \subseteq up, since'[d] = since[d]
  PROVE  Asking(d)' /\ Replaces(d)'
BY DEF Asking, Replaces

LEMMA Nesting ==
  ASSUME NEW k \in Names, NEW l \in Names
  PROVE  /\ <<k>> \in Seq(Names) /\ <<l, k>> \in Seq(Names) /\ Head(<<k>>) = k
         /\ <<l>> \o <<k>> = <<l, k>>
<1>1. /\ <<k>> \in Seq(Names) /\ <<l>> \in Seq(Names) /\ <<l, k>> \in Seq(Names)
      /\ Head(<<k>>) = k /\ Len(<<k>>) = 1 /\ Len(<<l>>) = 1 /\ Len(<<l, k>>) = 2
      /\ <<k>>[1] = k /\ <<l>>[1] = l /\ <<l, k>>[1] = l /\ <<l, k>>[2] = k
  OBVIOUS
<1> DEFINE s == <<l>> \o <<k>>
<1>2. s \in Seq(Names) /\ Len(s) = 2 /\ s[1] = l /\ s[2] = k
  BY <1>1, ConcatProperties
<1> DEFINE t == <<l, k>>
<1>3. t \in Seq(Names) /\ Len(t) = 2 /\ t[1] = l /\ t[2] = k
  BY <1>1
<1> HIDE DEF s, t
<1>4. \A i \in 1..Len(s) : s[i] = t[i]
  BY <1>2, <1>3
<1>5. s = t
  BY <1>2, <1>3, <1>4, SeqEqual
<1>6. QED
  BY <1>1, <1>5 DEF s, t

LEMMA CallerFields ==
  ASSUME NEW r \in CallerStates, NEW pc \in {"idle", "look", "lock", "make", "has"},
         NEW s \in Seq(Names), NEW g \in Objects \cup {None}
  PROVE  /\ r.stack \in Seq(Names) /\ r.got \in Objects \cup {None}
         /\ [r EXCEPT !.pc = pc] \in CallerStates
         /\ [r EXCEPT !.pc = pc, !.stack = s] \in CallerStates
         /\ [pc |-> pc, stack |-> s, got |-> g] \in CallerStates
         /\ r.pc \in {"idle", "look", "lock", "make", "has"}
BY DEF CallerStates

(* Steps of a caller that make nothing: what it is at then.                *)
LEMMA OnceLooks ==
  ASSUME O!OnceConstants, OnceInv, NEW c \in Callers,
         \/ \E k \in Names : O!Get(c, k)
         \/ O!Look(c) \/ O!Lock(c) \/ O!Found(c) \/ O!Nest(c) \/ O!Done(c)
  PROVE  OnceInv'
<1> USE DEF OnceInv, OnceTyped, O!OnceConstants, O!To, O!Has
<1>1. UNCHANGED <<holder, found, up, name, replaced>>
  BY DEF O!Get, O!Look, O!Lock, O!Found, O!Nest, O!Done
<1>2. Known' /\ UpFound'
  BY <1>1 DEF Known, UpFound
<1> DEFINE r == caller[c]
<1>0. r \in CallerStates
  OBVIOUS
<1>3. ASSUME NEW x \in CallerStates,
             caller' = [caller EXCEPT ![c] = x], mu' \in {mu, c, None},
             mu' # mu => mu = None \/ mu = c,
             since' \in {since, [since EXCEPT ![c] = {}]}, Asking(c)', Replaces(c)'
      PROVE  OnceInv'
  <2>1. OnceTyped'
    BY <1>1, <1>3
  <2>2. ASSUME NEW d \in Callers \ {c} PROVE Asking(d)' /\ Replaces(d)'
    <3>1. caller'[d] = caller[d] /\ since'[d] = since[d] /\ (mu' = d <=> mu = d)
      BY <1>3
    <3>2. QED
      BY <1>1, <3>1, LeftAlone
  <2>3. QED
    BY <1>2, <1>3, <2>1, <2>2
<1>4. ASSUME NEW k \in Names, O!Get(c, k) PROVE OnceInv'
  <2> DEFINE x == [pc |-> IF holder = "single" THEN "lock" ELSE "look", stack |-> <<k>>, got |-> None]
  <2>1. /\ caller' = [caller EXCEPT ![c] = x] /\ caller[c].pc = "idle" /\ UNCHANGED <<mu, since>>
        /\ x \in CallerStates
    <3>1. x \in CallerStates
      BY Nesting DEF CallerStates
    <3>2. caller' = [caller EXCEPT ![c] = x] /\ caller[c].pc = "idle" /\ UNCHANGED <<mu, since>>
      BY <1>4 DEF O!Get
    <3>3. QED
      BY <3>1, <3>2
  <2>2. mu # c /\ caller'[c] = x
    BY <2>1 DEF Asking
  <2>3. Asking(c)' /\ Replaces(c)'
    BY <1>1, <2>1, <2>2 DEF Asking, Replaces
  <2> HIDE DEF x
  <2>4. mu' \in {mu, c, None} /\ since' \in {since, [since EXCEPT ![c] = {}]}
    BY <2>1
  <2>5. QED
    BY ONLY <1>3, <2>1, <2>3, <2>4, Zenon
<1>5. CASE O!Look(c)
  <2>1. PICK k \in Names : caller[c].stack = <<k>> /\ O!Key(c) = k
    BY <1>5, Nesting DEF O!Look, O!Key, Asking
  <2> DEFINE x == [caller[c] EXCEPT !.pc = "lock"]
             y == [pc |-> "has", stack |-> <<k>>, got |-> found[k]]
  <2>2. /\ mu = None /\ since' = [since EXCEPT ![c] = {}] /\ mu' = mu /\ caller[c].pc = "look"
        /\ \/ found[k] = None /\ caller' = [caller EXCEPT ![c] = x]
           \/ caller' = [caller EXCEPT ![c] = y]
    BY <1>5, <2>1 DEF O!Look
  <2>3. CASE found[k] = None /\ caller' = [caller EXCEPT ![c] = x]
    <3>1. caller'[c].pc = "lock" /\ caller'[c].stack = <<k>>
      BY <2>1, <2>3
    <3>2. Asking(c)' /\ Replaces(c)'
      BY <1>1, <2>1, <2>2, <2>3, <3>1 DEF Asking, Replaces
    <3>3. x \in CallerStates
      BY ONLY <1>0, EmptySeq, CallerFields, Zenon
    <3>4. mu' \in {mu, c, None} /\ since' \in {since, [since EXCEPT ![c] = {}]}
      BY <2>2
    <3> HIDE DEF x
    <3>5. QED
      BY ONLY <1>3, <2>2, <2>3, <3>2, <3>3, <3>4, Zenon
  <2>4. CASE caller' = [caller EXCEPT ![c] = y]
    <3>1. Asking(c)' /\ Replaces(c)'
      BY <2>2, <2>4 DEF Asking, Replaces
    <3>2. y \in CallerStates
      BY Nesting DEF CallerStates
    <3>3. mu' \in {mu, c, None} /\ since' \in {since, [since EXCEPT ![c] = {}]}
      BY <2>2
    <3> HIDE DEF y
    <3>4. QED
      BY ONLY <1>3, <2>2, <2>4, <3>1, <3>2, <3>3, Zenon
  <2>5. QED
    BY <2>2, <2>3, <2>4
<1>6. CASE O!Lock(c)
  <2> DEFINE x == [caller[c] EXCEPT !.pc = "make"]
  <2>1. /\ mu = None /\ mu' = c /\ since' = since /\ caller[c].pc = "lock"
        /\ caller' = [caller EXCEPT ![c] = x]
    BY <1>6 DEF O!Lock
  <2>2. caller'[c].pc = "make" /\ caller'[c].stack = caller[c].stack
    BY <2>1
  <2>3. Asking(c)' /\ Replaces(c)'
    BY <1>1, <2>1, <2>2 DEF Asking, Replaces
  <2>4. x \in CallerStates
    BY ONLY <1>0, EmptySeq, CallerFields, Zenon
  <2>5. mu' \in {mu, c, None} /\ since' \in {since, [since EXCEPT ![c] = {}]}
    BY <2>1
  <2> HIDE DEF x
  <2>6. QED
    BY ONLY <1>3, <2>1, <2>3, <2>4, <2>5, Zenon
<1>7. CASE O!Found(c)
  <2>1. PICK k \in Names : caller[c].stack = <<k>> /\ O!Key(c) = k
    BY <1>7, Nesting DEF O!Found, O!Key, Asking
  <2> DEFINE y == [pc |-> "has", stack |-> <<k>>, got |-> found[k]]
  <2>2. /\ mu' = None /\ since' = since /\ caller[c].pc = "make" /\ mu = c
        /\ caller' = [caller EXCEPT ![c] = y]
    BY <1>7, <2>1 DEF O!Found, Asking
  <2>3. Asking(c)' /\ Replaces(c)'
    BY <2>2 DEF Asking, Replaces
  <2>4. y \in CallerStates
    BY Nesting DEF CallerStates
  <2> HIDE DEF y
  <2>5. mu' \in {mu, c, None} /\ since' \in {since, [since EXCEPT ![c] = {}]}
    BY <2>2
  <2>6. QED
    BY ONLY <1>3, <2>2, <2>3, <2>4, <2>5, Zenon
<1>8. CASE O!Nest(c)
  <2>1. caller[c].pc = "make" /\ mu = c
    BY <1>8 DEF O!Nest, Asking
  <2>2. PICK k \in Names : caller[c].stack = <<k>> /\ O!Key(c) = k
    BY <2>1, Nesting DEF O!Key, Asking
  <2>3. Nested[k] # None /\ Nested[k] \in Names /\ holder = "single" /\ UNCHANGED <<mu, since>>
    BY <1>8, <2>2 DEF O!Nest
  <2> DEFINE x == [caller[c] EXCEPT !.pc = "lock", !.stack = <<Nested[k], k>>]
  <2>4. caller' = [caller EXCEPT ![c].pc = "lock", ![c].stack = <<Nested[k]>> \o <<k>>]
    BY <1>8, <2>2 DEF O!Nest
  <2>5. caller' = [caller EXCEPT ![c] = x] /\ <<Nested[k], k>> \in Seq(Names)
    BY <2>3, <2>4, Nesting
  <2>6. caller'[c].pc = "lock" /\ caller'[c].stack = <<Nested[k], k>>
    BY <2>5
  <2>7. Asking(c)' /\ Replaces(c)'
    BY <1>1, <2>1, <2>3, <2>6 DEF Asking, Replaces
  <2>8. x \in CallerStates
    BY ONLY <1>0, <2>5, CallerFields, Zenon
  <2>9. mu' \in {mu, c, None} /\ since' \in {since, [since EXCEPT ![c] = {}]}
    BY <2>3
  <2> HIDE DEF x
  <2>10. QED
    BY ONLY <1>3, <2>3, <2>5, <2>7, <2>8, <2>9, Zenon
<1>9. CASE O!Done(c)
  <2> DEFINE x == [caller[c] EXCEPT !.pc = "idle", !.stack = <<>>]
  <2>1. /\ UNCHANGED <<mu, since>> /\ caller[c].pc = "has" /\ caller' = [caller EXCEPT ![c] = x]
    BY <1>9 DEF O!Done
  <2>2. mu # c /\ caller'[c].pc = "idle"
    BY <2>1 DEF Asking
  <2>3. Asking(c)' /\ Replaces(c)'
    BY <2>1, <2>2 DEF Asking, Replaces
  <2>4. x \in CallerStates
    BY ONLY <1>0, EmptySeq, CallerFields, Zenon
  <2> HIDE DEF x
  <2>5. mu' \in {mu, c, None} /\ since' \in {since, [since EXCEPT ![c] = {}]}
    BY <2>1
  <2>6. QED
    BY ONLY <1>3, <2>1, <2>3, <2>4, <2>5, Zenon
<1>10. QED
  BY <1>4, <1>5, <1>6, <1>7, <1>8, <1>9

(* A new object, found under its name by everybody who has not looked yet. *)
LEMMA OnceMakes ==
  ASSUME O!OnceConstants, OnceInv, NEW c \in Callers, NEW o \in Objects, O!Make(c, o)
  PROVE  OnceInv'
<1> USE DEF OnceInv, OnceTyped, O!OnceConstants
<1>1. caller[c].pc = "make" /\ mu = c
  BY DEF O!Make, Asking
<1>2. PICK k \in Names : caller[c].stack = <<k>> /\ O!Key(c) = k
  BY <1>1, Nesting DEF O!Key, Asking
<1>3. /\ holder = "single" => found[k] = None
      /\ name[o] = None /\ name' = [name EXCEPT ![o] = k]
      /\ replaced' = replaced \cup ({found[k]} \cap since[c])
      /\ found' = [found EXCEPT ![k] = o] /\ up' = up \cup {o} /\ mu' = None /\ holder' = holder
      /\ caller' = [caller EXCEPT ![c] = [pc |-> "has", stack |-> <<k>>, got |-> o]]
  BY <1>2 DEF O!Make, O!MakesNow, O!Absent, O!Fresh, O!Has
<1>4. \A d \in Callers :
        since'[d] = IF d # c /\ caller[d].pc = "lock" THEN since[d] \cup {o} ELSE {}
  BY DEF O!Make
<1>5. OnceTyped'
  <2>1. [pc |-> "has", stack |-> <<k>>, got |-> o] \in CallerStates
    BY Nesting DEF CallerStates
  <2>2. since' \in [Callers -> SUBSET Objects]
    BY DEF O!Make
  <2>3. QED
    BY <1>3, <2>1, <2>2
<1>6. o \notin up /\ \A l \in Names : found[l] # o
  BY <1>3 DEF UpFound, Known
<1>7. Known'
  BY <1>3, <1>6 DEF Known
<1>8. UpFound'
  <2>1. ASSUME NEW q \in up PROVE q # o /\ name'[q] = name[q] /\ name[q] \in Names
    BY <1>3, <1>6, <2>1 DEF UpFound
  <2>2. ASSUME NEW q \in up, q \notin replaced, name[q] = k PROVE q \in replaced'
    <3>1. q = found[k] /\ holder # "single"
      BY <1>3, <2>1, <2>2 DEF UpFound
    <3>2. q \in since[c]
      BY <1>1, <1>2, <3>1 DEF Replaces
    <3>3. QED
      BY <1>3, <3>1, <3>2
  <2>3. ASSUME NEW q \in up PROVE name'[q] # None /\ (q \in replaced' \/ found'[name'[q]] = q)
    BY <1>3, <2>1, <2>2 DEF UpFound
  <2>4. name'[o] # None /\ found'[name'[o]] = o
    BY <1>3
  <2>5. QED
    BY <1>3, <2>3, <2>4 DEF UpFound
<1>9. ASSUME NEW d \in Callers PROVE Asking(d)' /\ Replaces(d)'
  <2>1. CASE d = c
    BY <1>3, <2>1 DEF Asking, Replaces
  <2>2. CASE d # c
    <3>1. caller'[d] = caller[d] /\ caller[d].pc # "make" /\ mu # d
      BY <1>1, <1>3, <2>2 DEF Asking
    <3>2. Asking(d)'
      BY <1>3, <3>1 DEF Asking
    <3>3. ASSUME NEW l \in Names, holder # "single", caller[d].pc = "lock", caller[d].stack = <<l>>,
                 found'[l] \in up'
          PROVE  found'[l] \in since'[d]
      BY <1>3, <1>4, <1>6, <2>2, <3>3 DEF Replaces
    <3>4. Replaces(d)'
      BY <1>3, <3>1, <3>3 DEF Replaces
    <3>5. QED
      BY <3>2, <3>4
  <2>3. QED
    BY <2>1, <2>2
<1>10. QED
  BY <1>5, <1>7, <1>8, <1>9

LEMMA OnceCloses == ASSUME O!OnceConstants, OnceInv, O!Close PROVE OnceInv'
<1> USE DEF OnceInv, OnceTyped, O!OnceConstants
<1>1. /\ holder # "single" /\ up' = up \ {found[k] : k \in Names}
      /\ found' = found \/ found' = [k \in Names |-> None]
      /\ UNCHANGED <<holder, mu, caller, name, since, replaced>>
  BY DEF O!Close
<1>2. OnceTyped'
  BY <1>1
<1>3. Known' /\ UpFound'
  <2>1. \A o \in up' : o \in up /\ \A k \in Names : found[k] # o
    BY <1>1
  <2>2. QED
    BY <1>1, <2>1 DEF Known, UpFound
<1>4. ASSUME NEW d \in Callers PROVE Asking(d)' /\ Replaces(d)'
  BY <1>1 DEF Asking, Replaces
<1>5. QED
  BY <1>2, <1>3, <1>4

LEMMA OnceStep == ASSUME O!OnceConstants PROVE OnceInv /\ [O!Next]_onceVars => OnceInv'
<1> SUFFICES ASSUME OnceInv, [O!Next]_onceVars PROVE OnceInv'
  OBVIOUS
<1>1. CASE O!Next
  BY <1>1, OnceLooks, OnceMakes, OnceCloses DEF O!Next
<1>2. CASE UNCHANGED onceVars
  BY <1>2 DEF onceVars, OnceInv, OnceTyped, Known, UpFound, Asking, Replaces
<1>3. QED
  BY <1>1, <1>2

(* A single instance is made once; a redis client or log writer that is up *)
(* is found under its name or was replaced by a caller that had looked     *)
(* before it was made; nobody waits for itself but in a nested newFunc:    *)
(* for any number of callers, names and objects and any nesting.           *)
THEOREM MadeAndFound == RuntimeSpec => []OneEach
<1>1. O!OnceConstants /\ OnceInv => O!OneEach
  <2> SUFFICES ASSUME O!OnceConstants, OnceInv PROVE O!OneEach
    OBVIOUS
  <2> USE DEF OnceInv, OnceTyped
  <2>1. O!MadeOnce
    BY DEF O!MadeOnce, Known
  <2>2. O!LeakExplained
    BY DEF O!LeakExplained, UpFound
  <2>3. ASSUME NEW c \in Callers, mu = c, caller[c].pc = "lock"
        PROVE  Len(caller[c].stack) = 2 /\ Nested[O!Last(caller[c].stack)] # None
    <3>1. PICK k \in Names : Nested[k] # None /\ caller[c].stack = <<Nested[k], k>>
      BY <2>3 DEF Asking
    <3>2. Len(<<Nested[k], k>>) = 2 /\ <<Nested[k], k>>[2] = k
      OBVIOUS
    <3>3. QED
      BY <3>1, <3>2 DEF O!Last
  <2>4. QED
    BY <2>1, <2>2, <2>3 DEF O!StuckExplained, O!OneEach
<1> DEFINE I == machine = "once" => OnceInv
<1>2. RuntimeInit => I
  BY OnceInit, OneBegins, RuntimeAssumption
<1>3. I /\ [RuntimeNext]_runtimeVars => I'
  BY OnceStep, OneRuns, RuntimeAssumption
<1>4. I => OneEach
  BY <1>1, RuntimeAssumption DEF OneEach
<1>5. QED
  BY <1>2, <1>3, <1>4, PTL DEF RuntimeSpec

-----------------------------------------------------------------------------
(* What PublishC took is in the channel or in the loop's hand, once.       *)
InHand ==
  /\ \A m \in Msgs : msg[m] = "queued" <=> Has(pubC, m) \/ hand = m
  /\ NoneTwice(pubC) /\ ~Has(pubC, hand)

(* What the broker has got was taken; what was acknowledged it has got.    *)
Arrived == \A m \in Msgs : /\ msg[m] = "sent" => Has(broker, m)
                           /\ msg[m] \in {"new", "early", "offered", "dropped"} => ~Has(broker, m)

(* Who waits for a place has seen the channel that Constructor made.       *)
Waiting == \A m \in Msgs : msg[m] = "offered" => made

EmqInv == E!TypeOK /\ InHand /\ Arrived /\ Waiting

LEMMA EmqInit == E!EmqConstants /\ E!Init => EmqInv
BY EmptyHas DEF E!EmqConstants, E!Init, EmqInv, E!TypeOK, InHand, Arrived, Waiting

(* The connection and the access rules leave the messages alone.           *)
LEMMA EmqBeside ==
  ASSUME EmqInv, UNCHANGED <<pubC, hand, msg, broker>>, E!Next \/ UNCHANGED emqVars
  PROVE  EmqInv'
<1>1. E!TypeOK'
  BY DEF EmqInv, E!TypeOK, E!Next, E!Constructor, E!Dial, E!Connected, E!Lost, E!Started,
         E!DialFails, E!Take, E!Acknowledged, E!PublishFails, E!PublishC, E!Queue, E!Drop,
         E!Deliver, E!Speak, emqVars
<1>2. made' = made \/ made'
  BY DEF E!Next, E!Constructor, E!Dial, E!Connected, E!Lost, E!Started, E!DialFails, E!Take,
         E!Acknowledged, E!PublishFails, E!PublishC, E!Queue, E!Drop, E!Deliver, E!Speak, emqVars
<1>3. Waiting'
  BY <1>2 DEF EmqInv, Waiting
<1>4. QED
  BY <1>1, <1>3 DEF EmqInv, InHand, Arrived

LEMMA EmqPublishes ==
  ASSUME E!EmqConstants, EmqInv, NEW m \in Msgs,
         E!PublishC(m) \/ E!Queue(m) \/ E!Drop(m) \/ E!Deliver(m)
  PROVE  EmqInv'
<1> USE DEF E!EmqConstants, EmqInv, E!TypeOK, InHand, Arrived, Waiting
<1>1. CASE E!PublishC(m) \/ E!Drop(m)
  BY <1>1 DEF E!PublishC, E!Drop
<1>2. CASE E!Queue(m)
  BY <1>2, AppendHas DEF E!Queue, E!Room
<1>3. CASE E!Deliver(m)
  BY <1>3, AppendHas DEF E!Deliver
<1>4. QED
  BY <1>1, <1>2, <1>3

LEMMA EmqLoops ==
  ASSUME E!EmqConstants, EmqInv, E!Take \/ E!Acknowledged \/ E!PublishFails
  PROVE  EmqInv'
<1> USE DEF E!EmqConstants, EmqInv, E!TypeOK, InHand, Arrived, Waiting
<1>0. ~Has(pubC, None)
  BY DEF Has
<1>1. CASE E!Take
  <2>1. hand = None /\ pubC # <<>> /\ hand' = Head(pubC) /\ pubC' = Tail(pubC)
        /\ UNCHANGED <<made, client, loop, dialpc, msg, broker>>
    BY <1>1 DEF E!Take
  <2>2. /\ hand' \in Msgs /\ pubC' \in Seq(Msgs) /\ Len(pubC') <= Cap
        /\ NoneTwice(pubC') /\ ~Has(pubC', hand')
    BY <2>1, TailHas
  <2>3. \A x : Has(pubC, x) <=> Has(pubC', x) \/ x = hand'
    BY <2>1, TailHas
  <2>4. QED
    BY <2>1, <2>2, <2>3
<1>2. CASE E!Acknowledged
  <2>1. Has(broker, hand)
    BY <1>2 DEF E!Acknowledged, E!ToSet, Has
  <2>2. QED
    BY <1>0, <1>2, <2>1 DEF E!Acknowledged
<1>3. CASE E!PublishFails
  BY <1>0, <1>3 DEF E!PublishFails
<1>4. QED
  BY <1>1, <1>2, <1>3

LEMMA EmqStep ==
  ASSUME E!EmqConstants
  PROVE  EmqInv /\ [E!Next]_emqVars => EmqInv' /\ E!DroppedFull
<1> SUFFICES ASSUME EmqInv, [E!Next]_emqVars PROVE EmqInv' /\ E!DroppedFull
  OBVIOUS
<1>1. EmqInv'
  BY EmqBeside, EmqPublishes, EmqLoops
     DEF E!Next, E!Constructor, E!Dial, E!Connected, E!Lost, E!Started, E!DialFails, E!Speak, emqVars
<1>2. ASSUME NEW m \in Msgs, msg[m] # "dropped", msg'[m] = "dropped"
      PROVE  msg[m] = "early" \/ (made /\ Len(pubC) = Cap)
  <2>1. E!Drop(m)
    BY <1>2 DEF E!Next, E!Constructor, E!Dial, E!Connected, E!Lost, E!Started, E!DialFails, E!Take,
                E!Acknowledged, E!PublishFails, E!PublishC, E!Queue, E!Deliver, E!Drop, E!Speak,
                emqVars, EmqInv, E!TypeOK
  <2>2. QED
    BY <2>1 DEF E!Drop, E!Room, EmqInv, E!TypeOK, E!EmqConstants, Waiting
<1>3. QED
  BY <1>1, <1>2 DEF E!DroppedFull

LEMMA EmqSilent == EmqInv => E!Held /\ E!SentArrives
<1>1. \A s, x : x \in E!ToSet(s) <=> Has(s, x)
  BY DEF E!ToSet, Has
<1> SUFFICES ASSUME EmqInv PROVE E!Held /\ E!SentArrives
  OBVIOUS
<1> USE DEF EmqInv, E!TypeOK
<1>2. E!SentArrives
  BY <1>1 DEF Arrived, E!SentArrives
<1> DEFINE queued == {m \in Msgs : msg[m] = "queued"}
           there == E!ToSet(pubC) \cup ({hand} \ {None})
<1>3. E!ToSet(pubC) \subseteq Msgs
  BY DEF E!ToSet
<1>4. \A m : m \in queued <=> m \in there
  <2>1. there \subseteq Msgs
    BY <1>3
  <2>2. \A m \in Msgs : m \in there <=> Has(pubC, m) \/ hand = m
    BY <1>1, RuntimeAssumption DEF E!EmqConstants
  <2>3. \A m \in Msgs : m \in queued <=> msg[m] = "queued"
    OBVIOUS
  <2> HIDE DEF there
  <2>4. QED
    BY <2>1, <2>2, <2>3 DEF InHand
<1>5. queued = there
  BY <1>4
<1>6. QED
  BY <1>2, <1>5 DEF E!Held

(* The line of MessageLine: what is on its way, then what waits.           *)
Line == IF hand = None THEN pubC ELSE <<hand>> \o pubC

LEMMA FirstInLine ==
  ASSUME NEW T, NEW q \in Seq(T), NEW x \in T
  PROVE  /\ <<x>> \o q # <<>> /\ Head(<<x>> \o q) = x /\ Tail(<<x>> \o q) = q
         /\ Len(<<x>> \o q) = Len(q) + 1
         /\ \A y \in T : Append(<<x>> \o q, y) = <<x>> \o Append(q, y)
<1>1. <<x>> \in Seq(T) /\ <<x>> \o q \in Seq(T) /\ Len(<<x>> \o q) = Len(q) + 1
  OBVIOUS
<1>2. Head(<<x>> \o q) = x /\ <<x>> \o q # <<>>
  BY <1>1
<1>3. Tail(<<x>> \o q) = q
  <2>1. Tail(<<x>> \o q) \in Seq(T) /\ Len(Tail(<<x>> \o q)) = Len(q)
    BY <1>1
  <2>2. ASSUME NEW i \in 1..Len(q) PROVE Tail(<<x>> \o q)[i] = q[i]
    BY <1>1
  <2>3. QED
    BY <2>1, <2>2, SeqEqual
<1>4. ASSUME NEW y \in T PROVE Append(<<x>> \o q, y) = <<x>> \o Append(q, y)
  <2>1. /\ Append(<<x>> \o q, y) \in Seq(T) /\ <<x>> \o Append(q, y) \in Seq(T)
        /\ Len(Append(<<x>> \o q, y)) = Len(q) + 2 /\ Len(<<x>> \o Append(q, y)) = Len(q) + 2
    BY <1>1
  <2>2. ASSUME NEW i \in 1..(Len(q) + 2)
        PROVE  Append(<<x>> \o q, y)[i] = (<<x>> \o Append(q, y))[i]
    BY <1>1
  <2>3. QED
    BY <2>1, <2>2, SeqEqual
<1>5. QED
  BY <1>1, <1>2, <1>3, <1>4

LEMMA LineSteps ==
  ASSUME E!EmqConstants, EmqInv, [E!Next]_emqVars
  PROVE  L!Next \/ UNCHANGED L!lineVars
<1> USE DEF E!EmqConstants, EmqInv, E!TypeOK
<1>0. /\ hand # None => Line # <<>> /\ Head(Line) = hand /\ Tail(Line) = pubC
      /\ Len(Line) >= Len(pubC) /\ Len(Line) <= Len(pubC) + 1
  BY FirstInLine DEF Line
<1>1. CASE E!Constructor
  BY <1>1 DEF E!Constructor, L!Next, L!Open
<1>2. CASE E!Dial \/ E!Connected \/ E!Lost \/ E!Started \/ E!DialFails
           \/ (\E u \in Users \cup {E!Super}, t \in E!Topics : E!Speak(u, t)) \/ UNCHANGED emqVars
  BY <1>2 DEF E!Dial, E!Connected, E!Lost, E!Started, E!DialFails, E!Speak, emqVars, L!lineVars
<1>3. CASE E!Take
  <2>1. hand = None /\ pubC # <<>> /\ hand' = Head(pubC) /\ pubC' = Tail(pubC)
        /\ UNCHANGED <<made, msg, broker>>
    BY <1>3 DEF E!Take
  <2>2. hand' \in Msgs /\ <<hand'>> \o pubC' = pubC
    BY <2>1, SeqEqual
  <2>3. QED
    BY <2>1, <2>2 DEF L!lineVars
<1>4. CASE E!Acknowledged \/ E!PublishFails
  <2>1. /\ hand \in Msgs /\ hand' = None /\ UNCHANGED <<made, pubC, broker>>
        /\ msg[hand] = "queued"
        /\ \/ msg' = [msg EXCEPT ![hand] = "failed"]
           \/ msg' = [msg EXCEPT ![hand] = "sent"] /\ \E i \in DOMAIN broker : broker[i] = hand
    BY <1>4 DEF E!Acknowledged, E!PublishFails, E!ToSet, InHand
  <2>2. L!Leave(hand)
    BY <1>0, <2>1 DEF L!Leave, L!Move, Line
  <2>3. QED
    BY <2>1, <2>2 DEF L!Next
<1>5. ASSUME NEW m \in Msgs, E!PublishC(m) PROVE L!Offer(m)
  BY <1>5 DEF E!PublishC, L!Offer, L!Move
<1>6. ASSUME NEW m \in Msgs, E!Queue(m) PROVE L!Join(m)
  <2>1. /\ msg[m] = "offered" /\ msg' = [msg EXCEPT ![m] = "queued"] /\ made
        /\ Len(pubC) < Cap /\ pubC' = Append(pubC, m)
        /\ UNCHANGED <<made, hand, broker>>
    BY <1>6 DEF E!Queue, E!Room, Waiting
  <2>2. Line' = Append(Line, m)
    BY <2>1, FirstInLine DEF Line
  <2>3. Len(Line) <= Cap
    BY <1>0, <2>1
  <2>4. QED
    BY <2>1, <2>2, <2>3 DEF L!Join, L!Move, Line
<1>7. ASSUME NEW m \in Msgs, E!Drop(m) PROVE L!Refuse(m)
  <2>1. msg[m] = "early" \/ (msg[m] = "offered" /\ Len(Line) >= Cap)
    BY <1>0, <1>7 DEF E!Drop, E!Room
  <2>2. QED
    BY <1>7, <2>1 DEF E!Drop, L!Refuse, L!Move, Line
<1>8. ASSUME NEW m \in Msgs, E!Deliver(m) PROVE L!Arrive(m)
  BY <1>0, <1>8 DEF E!Deliver, L!Arrive, Line
<1>9. QED
  BY <1>1, <1>2, <1>3, <1>4, <1>5, <1>6, <1>7, <1>8 DEF E!Next, L!Next

LEMMA LineBegins == E!Init => L!Init
BY DEF E!Init, L!Init

(* The client is a line that messages leave in the order in which they     *)
(* joined it: Emq implements MessageLine, for any messages and capacity.   *)
THEOREM LineKept == RuntimeSpec => ImplementsLine
<1> DEFINE I == machine = "emq" => EmqInv
<1>1. RuntimeInit => I /\ (machine = "emq" => L!Init)
  BY EmqInit, LineBegins, OneBegins, RuntimeAssumption
<1>2. I /\ [RuntimeNext]_runtimeVars => I'
  BY EmqStep, OneRuns, RuntimeAssumption
<1>3. I /\ [RuntimeNext]_runtimeVars
        => [machine = "emq" => L!Next \/ UNCHANGED L!lineVars]_runtimeVars
  BY LineSteps, OneRuns, RuntimeAssumption
<1>4. QED
  BY <1>1, <1>2, <1>3, PTL DEF RuntimeSpec, ImplementsLine

(* No message that PublishC took is lost or sent in vain, and one that it  *)
(* dropped found the channel full, or came before the channel was made and *)
(* waited in vain: for any capacity, however often the connection is lost  *)
(* and whatever arrives late.                                              *)
THEOREM MessagesAccounted == RuntimeSpec => NothingSilent
<1> DEFINE I == machine = "emq" => EmqInv
<1>1. RuntimeInit => I
  BY EmqInit, OneBegins, RuntimeAssumption
<1>2. I /\ [RuntimeNext]_runtimeVars => I'
  BY EmqStep, OneRuns, RuntimeAssumption
<1>3. I /\ [RuntimeNext]_runtimeVars => [machine = "emq" => E!NothingSilent]_runtimeVars
  <2> SUFFICES ASSUME I, RuntimeNext, machine = "emq" PROVE E!NothingSilent
    OBVIOUS
  <2>1. EmqInv' /\ E!DroppedFull
    BY EmqStep, OneRuns, RuntimeAssumption
  <2>2. E!Held' /\ E!SentArrives'
    BY <2>1, EmqSilent, PTL
  <2>3. QED
    BY <2>1, <2>2 DEF E!NothingSilent
<1>4. QED
  BY <1>1, <1>2, <1>3, LineKept, PTL DEF RuntimeSpec, NothingSilent
-----------------------------------------------------------------------------
(* The configuration. *)
SomeFile == UNION {[K -> Vals] : K \in SUBSET Keys}

ConfigTyped ==
  /\ file \in SomeFile \cup {None} /\ temp \in SomeFile \cup {None}
  /\ loaded \in [Keys -> Vals] \cup {None}
  /\ latest \in [Keys -> Vals]
  /\ event \in BOOLEAN
  /\ writer \in [key : Keys \cup {None}, map : [Keys -> Vals]] \cup {None}

(* What a start would load. *)
AtStart == C!Full(IF C!Swapped = None THEN C!Empty ELSE C!Swapped)

(* The settings in f are the latest, but for those in K. *)
Latest(f, K) == \A k \in Keys \ K : f[k] = latest[k]

(* While the process is down the next start finds all but the lost ones.   *)
DownInv ==
  loaded = None => /\ writer = None /\ watch = "idle" /\ ~event /\ sets = {}
                   /\ Latest(AtStart, lost)

(* While it is up: the file has what SetValue has not overridden, memory   *)
(* that and what has not been edited since, and who writes the temporary   *)
(* file started from there.                                                *)
UpInv ==
  loaded # None =>
    /\ file # None
    /\ Latest(C!Full(file), sets)
    /\ Latest(loaded, sets \cup edits)
    /\ temp = None => sets = {} /\ writer = None
    /\ temp # None /\ writer = None => Latest(C!Full(temp), lost \cup edits \cup unsaved)
    /\ writer # None =>
         Latest(writer.map, {writer.key} \cup sets \cup edits
                              \cup (IF writer.key = None THEN {} ELSE unsaved))
    /\ writer # None /\ writer.key = None => watch = "write"

ConfigInv == ConfigTyped /\ DownInv /\ UpInv

(* What the operators on files do. *)
LEMMA FileFacts ==
  ASSUME C!ConfigConstants
  PROVE  /\ None \notin SomeFile /\ C!Empty \in SomeFile
         /\ [Keys -> Vals] \subseteq SomeFile
         /\ \A f : C!Full(f) \in [Keys -> Vals] <=> \A k \in Keys : C!Full(f)[k] \in Vals
         /\ \A f \in SomeFile : C!Full(f) \in [Keys -> Vals]
         /\ \A f \in [Keys -> Vals] : \A k \in Keys : C!Full(f)[k] = f[k]
<1> USE DEF C!ConfigConstants
<1>1. None \notin SomeFile
  BY DEF SomeFile
<1>2. C!Empty \in SomeFile
  <2>1. C!Empty \in [{} -> Vals] /\ {} \in SUBSET Keys
    BY DEF C!Empty
  <2>2. QED
    BY <2>1 DEF SomeFile
<1>3. [Keys -> Vals] \subseteq SomeFile
  BY DEF SomeFile
<1>4. \A f \in SomeFile : C!Full(f) \in [Keys -> Vals]
  BY DEF SomeFile, C!Full
<1>5. \A f \in [Keys -> Vals] : \A k \in Keys : C!Full(f)[k] = f[k]
  BY DEF C!Full
<1>6. \A f : C!Full(f) \in [Keys -> Vals] <=> \A k \in Keys : C!Full(f)[k] \in Vals
  BY DEF C!Full
<1>7. QED
  BY <1>1, <1>2, <1>3, <1>4, <1>5, <1>6

LEMMA GivenFacts ==
  ASSUME C!ConfigConstants, NEW f \in SomeFile, NEW k \in Keys, NEW v \in Vals
  PROVE  /\ C!Given(k, v, f) \in SomeFile
         /\ f \in [Keys -> Vals] => /\ C!Given(k, v, f) \in [Keys -> Vals]
                                    /\ \A j \in Keys : C!Given(k, v, f)[j] = IF j = k THEN v ELSE f[j]
         /\ \A j \in Keys : C!Full(C!Given(k, v, f))[j] = IF j = k THEN v ELSE C!Full(f)[j]
<1>1. PICK K \in SUBSET Keys : f \in [K -> Vals]
  BY DEF SomeFile
<1>2. C!Given(k, v, f) \in [K \cup {k} -> Vals] /\ K \cup {k} \in SUBSET Keys
  BY <1>1 DEF C!Given
<1>3. \A j \in K \cup {k} : C!Given(k, v, f)[j] = IF j = k THEN v ELSE f[j]
  BY <1>1 DEF C!Given
<1>4. \A j \in Keys : C!Full(C!Given(k, v, f))[j] = IF j = k THEN v ELSE C!Full(f)[j]
  BY <1>1, <1>2, <1>3 DEF C!Full
<1>5. C!Given(k, v, f) \in SomeFile
  BY <1>2 DEF SomeFile
<1>6. ASSUME f \in [Keys -> Vals]
      PROVE  /\ C!Given(k, v, f) \in [Keys -> Vals]
             /\ \A j \in Keys : C!Given(k, v, f)[j] = IF j = k THEN v ELSE f[j]
  <2>1. K = Keys
    BY <1>1, <1>6
  <2>2. K \cup {k} = Keys
    BY <2>1
  <2>3. QED
    BY <1>2, <1>3, <2>1, <2>2
<1>7. QED
  BY <1>4, <1>5, <1>6

LEMMA AtStartTyped ==
  ASSUME C!ConfigConstants, ConfigTyped
  PROVE  AtStart \in [Keys -> Vals]
BY FileFacts DEF AtStart, C!Swapped, ConfigTyped

LEMMA ConfigInit == ASSUME C!ConfigConstants PROVE C!Init => ConfigInv
<1> SUFFICES ASSUME C!Init PROVE ConfigInv
  OBVIOUS
<1>1. ConfigTyped
  BY DEF C!Init, C!ConfigConstants, ConfigTyped
<1>2. \A k \in Keys : C!Full(C!Empty)[k] = Default
  BY DEF C!Full, C!Empty
<1>3. AtStart = C!Full(C!Empty)
  BY DEF C!Init, AtStart, C!Swapped
<1>4. QED
  BY <1>1, <1>2, <1>3 DEF C!Init, ConfigInv, DownInv, UpInv, Latest

LEMMA ConfigTypes == ASSUME C!ConfigConstants, ConfigInv, C!Next PROVE ConfigTyped'
<1> USE DEF ConfigInv, ConfigTyped
<1>1. CASE C!Load
  <2>1. AtStart \in [Keys -> Vals] /\ C!Full(C!Empty) \in [Keys -> Vals]
    BY AtStartTyped, FileFacts
  <2>2. loaded' = AtStart /\ temp' = None /\ latest' = loaded'
        /\ writer' = writer /\ event' = event
    BY <1>1 DEF C!Load, AtStart
  <2>3. file' \in SomeFile
    BY <1>1, <2>1, FileFacts DEF C!Load, C!Swapped
  <2>4. QED
    BY <2>1, <2>2, <2>3
<1>2. CASE C!Rewrite
  <2>1. loaded \in [Keys -> Vals]
    BY <1>2 DEF C!Rewrite, DownInv
  <2>2. writer' = [key |-> None, map |-> loaded] /\ temp' = C!Empty
        /\ UNCHANGED <<file, loaded, event, latest>>
    BY <1>2 DEF C!Rewrite
  <2>3. temp' \in SomeFile
    BY <2>2, FileFacts
  <2>4. writer' \in [key : Keys \cup {None}, map : [Keys -> Vals]]
    BY <2>1, <2>2
  <2>5. QED
    BY <2>2, <2>3, <2>4
<1>3. CASE C!Written
  BY <1>3, FileFacts DEF C!Written
<1>4. CASE C!Reread
  BY <1>4, FileFacts DEF C!Reread, UpInv, DownInv
<1>5. CASE C!End
  BY <1>5 DEF C!End
<1>6. ASSUME NEW k \in Keys, NEW v \in Vals, C!SetValue(k, v) PROVE ConfigTyped'
  <2>1. loaded \in [Keys -> Vals] /\ loaded \in SomeFile
    BY <1>6, FileFacts DEF C!SetValue, C!Up
  <2>2. C!Given(k, v, loaded) \in [Keys -> Vals]
    BY <2>1, GivenFacts
  <2>3. QED
    BY <1>6, <2>2, FileFacts DEF C!SetValue, C!Settings
<1>7. ASSUME NEW k \in Keys, NEW v \in Vals, C!Edit(k, v) PROVE ConfigTyped'
  <2>1. C!Given(k, v, file) \in SomeFile
    BY <1>7, GivenFacts DEF C!Edit
  <2>2. QED
    BY <1>7, <2>1 DEF C!Edit
<1>8. QED
  BY <1>1, <1>2, <1>3, <1>4, <1>5, <1>6, <1>7 DEF C!Next

LEMMA ConfigStarts == ASSUME C!ConfigConstants, ConfigInv, C!Load PROVE ConfigInv'
<1> USE DEF ConfigInv
<1>1. /\ loaded' = AtStart /\ latest' = loaded' /\ temp' = None
      /\ file' = (IF C!Swapped = None THEN C!Full(C!Empty) ELSE C!Swapped)
      /\ UNCHANGED <<writer, event, watch, sets, edits, unsaved>>
  BY DEF C!Load, AtStart
<1>2. ConfigTyped'
  BY ConfigTypes DEF C!Next
<1>3. loaded = None /\ writer = None /\ sets = {} /\ watch = "idle"
  BY DEF C!Load, C!Up, DownInv
<1>4. AtStart \in [Keys -> Vals] /\ AtStart # None /\ file' # None
  BY <1>1, AtStartTyped, FileFacts
<1>5. \A k \in Keys : C!Full(file')[k] = AtStart[k]
  BY <1>1, FileFacts DEF AtStart
<1>6. UpInv'
  <2>1. Latest(C!Full(file), sets)'
    BY <1>1, <1>5 DEF Latest, C!Full
  <2>2. Latest(loaded, sets \cup edits)'
    BY <1>1 DEF Latest
  <2>3. QED
    BY <1>1, <1>3, <1>4, <2>1, <2>2 DEF UpInv
<1>7. QED
  BY <1>1, <1>2, <1>4, <1>6 DEF DownInv

LEMMA ConfigWrites ==
  ASSUME C!ConfigConstants, ConfigInv,
         C!Rewrite \/ C!Written \/ \E k \in Keys, v \in Vals : C!SetValue(k, v)
  PROVE  ConfigInv'
<1> USE DEF ConfigInv
<1>1. ConfigTyped'
  BY ConfigTypes DEF C!Next
<1>2. loaded # None /\ loaded' = loaded /\ loaded \in [Keys -> Vals] /\ temp' # None
  BY FileFacts DEF DownInv, C!Rewrite, C!Written, C!SetValue, C!Up, ConfigTyped
<1>3. CASE C!Rewrite
  <2>1. writer' = [key |-> None, map |-> loaded] /\ writer' # None
    BY <1>2, <1>3 DEF C!Rewrite, C!ConfigConstants
  <2>2. QED
    BY <1>1, <1>2, <1>3, <2>1 DEF C!Rewrite, UpInv, DownInv, Latest
<1>4. CASE C!Written
  <2> DEFINE k == writer.key
             map == writer.map
  <2>1. /\ k \in Keys \cup {None} /\ map \in [Keys -> Vals]
        /\ temp' = map /\ writer' = None /\ lost' = (lost \cup sets) \ {k}
        /\ UNCHANGED <<file, loaded, event, edits>>
        /\ Latest(map, {k} \cup sets \cup edits \cup (IF k = None THEN {} ELSE unsaved))
    BY <1>2, <1>4 DEF C!Written, ConfigTyped, UpInv
  <2>2. \A j \in Keys : C!Full(temp')[j] = map[j]
    BY <2>1, FileFacts
  <2>3. CASE k = None
    <3>1. /\ latest' = latest /\ sets' = sets /\ unsaved' = {}
      BY <1>4, <2>3 DEF C!Written
    <3>2. \A j \in Keys \ (lost' \cup edits' \cup unsaved') : C!Full(temp')[j] = latest'[j]
      <4>1. ASSUME NEW j \in Keys, j \notin lost', j \notin edits'
            PROVE  map[j] = latest'[j]
        BY <2>1, <2>3, <3>1, <4>1 DEF Latest, C!ConfigConstants
      <4> HIDE DEF map
      <4>2. QED
        BY <2>2, <4>1
    <3>3. Latest(C!Full(temp), lost \cup edits \cup unsaved)'
      BY <3>2 DEF Latest, C!Full
    <3>4. Latest(C!Full(file), sets)' /\ Latest(loaded, sets \cup edits)'
      BY <1>2, <2>1, <3>1 DEF UpInv, Latest, C!Full
    <3>5. QED
      BY <1>1, <1>2, <2>1, <3>3, <3>4 DEF UpInv, DownInv
  <2>4. CASE k # None
    <3>1. /\ latest' = [latest EXCEPT ![k] = map[k]] /\ sets' = sets \cup {k} /\ unsaved' = unsaved
          /\ k \in Keys
      BY <1>4, <2>1, <2>4 DEF C!Written
    <3>2. \A j \in Keys : latest'[j] = IF j = k THEN map[k] ELSE latest[j]
      BY <3>1 DEF ConfigTyped
    <3>3. \A j \in Keys \ (lost' \cup edits' \cup unsaved') : C!Full(temp')[j] = latest'[j]
      <4>1. ASSUME NEW j \in Keys, j \notin lost', j \notin edits', j \notin unsaved'
            PROVE  map[j] = latest'[j]
        <5>1. CASE j = k
          BY <3>2, <5>1
        <5>2. CASE j # k
          BY <2>1, <2>4, <3>1, <3>2, <4>1, <5>2 DEF Latest
        <5>3. QED
          BY <5>1, <5>2
      <4> HIDE DEF map
      <4>2. QED
        BY <2>2, <4>1
    <3>4. Latest(C!Full(temp), lost \cup edits \cup unsaved)'
      BY <3>3 DEF Latest, C!Full
    <3>5. Latest(C!Full(file), sets)' /\ Latest(loaded, sets \cup edits)'
      BY <1>2, <2>1, <3>1, <3>2 DEF UpInv, Latest, C!Full
    <3>6. QED
      BY <1>1, <1>2, <2>1, <3>4, <3>5 DEF UpInv, DownInv
  <2>5. QED
    BY <2>3, <2>4
<1>5. ASSUME NEW k \in Keys, NEW v \in Vals, C!SetValue(k, v) PROVE ConfigInv'
  <2> DEFINE map == C!Given(k, v, loaded)
  <2>0. loaded \in SomeFile
    BY <1>2, FileFacts
  <2>2. map \in [Keys -> Vals] /\ \A j \in Keys : j # k => map[j] = loaded[j]
    <3>1. map \in [Keys -> Vals]
      BY <1>2, <2>0, GivenFacts
    <3>2. DOMAIN loaded = Keys
      BY <1>2
    <3>3. \A j \in Keys : j # k => map[j] = loaded[j]
      BY <3>2 DEF C!Given
    <3>4. QED
      BY <3>1, <3>3
  <2>5. /\ writer' = [key |-> k, map |-> map]
        /\ UNCHANGED <<file, loaded, event, watch, latest, sets, edits, unsaved, lost>>
    BY <1>5 DEF C!SetValue, C!Settings
  <2> HIDE DEF map
  <2>1. /\ writer' = [key |-> k, map |-> map] /\ writer' # None /\ k # None
        /\ UNCHANGED <<file, loaded, event, watch, latest, sets, edits, unsaved, lost>>
    BY <2>2, <2>5 DEF C!ConfigConstants
  <2>3. Latest(map, {k} \cup sets \cup edits \cup unsaved)
    BY <1>2, <2>2 DEF UpInv, Latest
  <2>4. QED
    BY <1>1, <1>2, <2>1, <2>3 DEF UpInv, DownInv, Latest, C!Full
<1>6. QED
  BY <1>3, <1>4, <1>5

LEMMA ConfigEdits ==
  ASSUME C!ConfigConstants, ConfigInv, NEW k \in Keys, NEW v \in Vals, C!Edit(k, v)
  PROVE  ConfigInv'
<1> USE DEF ConfigInv
<1>1. ConfigTyped'
  BY ConfigTypes DEF C!Next
<1>2. /\ file # None /\ file \in SomeFile /\ file' = C!Given(k, v, file) /\ file' # None
      /\ UNCHANGED <<temp, loaded, writer, watch, unsaved>>
  BY GivenFacts, FileFacts DEF C!Edit, ConfigTyped
<1>3. \A j \in Keys : latest'[j] = IF j = k THEN v ELSE latest[j]
  BY DEF C!Edit, ConfigTyped
<1>4. \A j \in Keys : C!Full(file')[j] = IF j = k THEN v ELSE C!Full(file)[j]
  BY <1>2, GivenFacts
<1>5. CASE loaded # None
  <2>1. edits' = edits \cup {k} /\ sets' = sets \ {k} /\ lost' = lost \ {k}
    BY <1>5 DEF C!Edit, C!Up
  <2>2. \A j \in Keys \ sets' : C!Full(file')[j] = latest'[j]
    BY <1>3, <1>4, <1>5, <2>1 DEF UpInv, Latest
  <2>3. Latest(C!Full(file), sets)'
    BY <2>2 DEF Latest, C!Full
  <2>4. Latest(loaded, sets \cup edits)'
    BY <1>2, <1>3, <1>5, <2>1 DEF UpInv, Latest
  <2>5. ASSUME temp # None, writer = None
        PROVE  Latest(C!Full(temp), lost \cup edits \cup unsaved)'
    BY <1>2, <1>3, <1>5, <2>1, <2>5 DEF UpInv, Latest, C!Full
  <2>6. ASSUME writer # None
        PROVE  Latest(writer.map, {writer.key} \cup sets \cup edits
                                    \cup (IF writer.key = None THEN {} ELSE unsaved))'
    BY <1>2, <1>3, <1>5, <2>1, <2>6 DEF UpInv, Latest
  <2>7. QED
    BY <1>1, <1>2, <1>5, <2>1, <2>3, <2>4, <2>5, <2>6 DEF UpInv, DownInv
<1>6. CASE loaded = None
  <2>1. /\ lost' = (IF temp = None THEN lost \ {k} ELSE lost \cup {k})
        /\ UNCHANGED <<event, edits, sets>>
    BY <1>6 DEF C!Edit, C!Up
  <2>2. CASE temp = None
    <3>1. \A j \in Keys \ lost' : C!Full(file')[j] = latest'[j]
      BY <1>2, <1>3, <1>4, <1>6, <2>1, <2>2 DEF DownInv, Latest, AtStart, C!Swapped
    <3>2. Latest(AtStart, lost)'
      BY <1>2, <2>2, <3>1 DEF Latest, AtStart, C!Swapped, C!Full
    <3>3. QED
      BY <1>1, <1>2, <1>6, <2>1, <3>2 DEF UpInv, DownInv
  <2>3. CASE temp # None
    <3>1. Latest(AtStart, lost)'
      BY <1>2, <1>3, <1>6, <2>1, <2>3 DEF DownInv, Latest, AtStart, C!Swapped, C!Full
    <3>2. QED
      BY <1>1, <1>2, <1>6, <2>1, <3>1 DEF UpInv, DownInv
  <2>4. QED
    BY <2>2, <2>3
<1>7. QED
  BY <1>5, <1>6

LEMMA ConfigRereads == ASSUME C!ConfigConstants, ConfigInv, C!Reread PROVE ConfigInv'
<1> USE DEF ConfigInv
<1>1. ConfigTyped'
  BY ConfigTypes DEF C!Next
<1>2. /\ loaded # None /\ loaded' = C!Full(file) /\ loaded' # None
      /\ unsaved' = unsaved \cup edits /\ edits' = {}
      /\ watch = "idle" /\ UNCHANGED <<file, temp, writer, latest, sets, lost>>
  BY FileFacts DEF C!Reread, DownInv, UpInv, ConfigTyped
<1>3. Latest(C!Full(file), sets)' /\ Latest(loaded, sets \cup edits)'
  BY <1>2 DEF UpInv, Latest, C!Full
<1>4. ASSUME temp # None, writer = None
      PROVE  Latest(C!Full(temp), lost \cup edits \cup unsaved)'
  BY <1>2, <1>4 DEF UpInv, Latest, C!Full
<1>5. ASSUME writer # None
      PROVE  /\ writer.key # None
             /\ Latest(writer.map, {writer.key} \cup sets \cup edits
                                    \cup (IF writer.key = None THEN {} ELSE unsaved))'
  BY <1>2, <1>5 DEF UpInv, Latest
<1>6. QED
  BY <1>1, <1>2, <1>3, <1>4, <1>5 DEF UpInv, DownInv

LEMMA ConfigEnds == ASSUME C!ConfigConstants, ConfigInv, C!End PROVE ConfigInv'
<1> USE DEF ConfigInv
<1>1. ConfigTyped'
  BY ConfigTypes DEF C!Next
<1>2. /\ loaded # None /\ loaded' = None /\ writer' = None /\ watch' = "idle" /\ ~event'
      /\ sets' = {} /\ UNCHANGED <<file, temp, latest>>
      /\ lost' = (IF writer # None THEN Keys
                  ELSE IF temp # None THEN lost \cup edits \cup unsaved ELSE lost)
  BY DEF C!End, C!Up
<1>3. Latest(AtStart, lost)'
  BY <1>2 DEF UpInv, Latest, AtStart, C!Swapped, C!Full
<1>4. QED
  BY <1>1, <1>2, <1>3 DEF UpInv, DownInv

LEMMA ConfigStep == ASSUME C!ConfigConstants PROVE ConfigInv /\ [C!Next]_configVars => ConfigInv'
<1> SUFFICES ASSUME ConfigInv, [C!Next]_configVars PROVE ConfigInv'
  OBVIOUS
<1>1. CASE C!Next
  BY <1>1, ConfigStarts, ConfigWrites, ConfigEdits, ConfigRereads, ConfigEnds DEF C!Next
<1>2. CASE UNCHANGED configVars
  BY <1>2 DEF configVars, ConfigInv, ConfigTyped, DownInv, UpInv, Latest, AtStart, C!Swapped, C!Full
<1>3. QED
  BY <1>1, <1>2

(* A start finds every setting as it was last given but for those that the *)
(* history names: for any settings and values, however the writers, the    *)
(* edits, the watcher and the ends of the process interleave.              *)
THEOREM SettingsKept == RuntimeSpec => ChangesKept
<1> DEFINE I == machine = "config" => ConfigInv
<1>1. RuntimeInit => I
  BY ConfigInit, OneBegins, RuntimeAssumption
<1>2. I /\ [RuntimeNext]_runtimeVars => I'
  BY ConfigStep, OneRuns, RuntimeAssumption
<1>3. I /\ [RuntimeNext]_runtimeVars => [machine = "config" => C!ChangesKept]_runtimeVars
  <2> SUFFICES ASSUME I, RuntimeNext, machine = "config", loaded = None, loaded' # None
               PROVE  \A k \in Keys \ lost : loaded'[k] = latest[k]
    BY DEF C!ChangesKept
  <2>1. C!Next
    BY DEF RuntimeNext
  <2>2. C!Load
    BY <2>1 DEF C!Next, C!Rewrite, C!Written, C!Reread, C!End, C!SetValue, C!Edit, ConfigInv, DownInv
  <2>3. loaded' = AtStart
    BY <2>2 DEF C!Load, AtStart
  <2>4. QED
    BY <2>3 DEF ConfigInv, DownInv, Latest
<1>4. QED
  BY <1>1, <1>2, <1>3, PTL DEF RuntimeSpec, ChangesKept

-----------------------------------------------------------------------------
(* The types of all the machines.  What the histories of Config name are   *)
(* settings.                                                               *)
ConfigBounds == /\ watch \in {"idle", "read", "write"}
                /\ sets \subseteq Keys /\ edits \subseteq Keys
                /\ unsaved \subseteq Keys /\ lost \subseteq Keys

LEMMA ConfigBoundsStep ==
  ASSUME ConfigTyped, ConfigBounds, [C!Next]_configVars
  PROVE  ConfigBounds'
<1> USE DEF ConfigBounds
<1>1. CASE C!Load \/ C!Rewrite \/ C!Reread
  BY <1>1 DEF C!Load, C!Rewrite, C!Reread
<1>2. CASE C!Written
  <2>1. writer.key \in Keys \cup {None}
    BY <1>2 DEF C!Written, ConfigTyped
  <2>2. QED
    BY <1>2, <2>1 DEF C!Written
<1>3. CASE C!End
  BY <1>3 DEF C!End
<1>4. ASSUME NEW k \in Keys, NEW v \in Vals, C!SetValue(k, v) \/ C!Edit(k, v)
      PROVE  ConfigBounds'
  BY <1>4 DEF C!SetValue, C!Edit
<1>5. CASE UNCHANGED configVars
  BY <1>5 DEF configVars
<1>6. QED
  BY <1>1, <1>2, <1>3, <1>4, <1>5 DEF C!Next

(* Each of the machines has its types, whichever runs: for all requests,   *)
(* servers, messages, callers and settings.                                *)
THEOREM RuntimeTyping == RuntimeSpec => []TypeOK
<1> DEFINE Rest == /\ machine = "config" => ConfigInv /\ ConfigBounds
                   /\ machine = "app" => AppInv
                   /\ machine = "daemon" => DaemonInv
                   /\ machine = "emq" => EmqInv
                   /\ machine = "once" => OnceInv
<1> DEFINE I == RpcKept /\ Rest
<1>1. RuntimeInit => I
  <2> SUFFICES ASSUME RuntimeInit PROVE Rest
    BY RpcTyping
  <2>1. C!Init => ConfigBounds
    BY DEF C!Init, ConfigBounds
  <2>2. QED
    BY <2>1, ConfigInit, AppInit, DaemonInit, EmqInit, OnceInit, OneBegins, RuntimeAssumption
<1>2. I /\ [RuntimeNext]_runtimeVars => I'
  <2> SUFFICES ASSUME I, [RuntimeNext]_runtimeVars PROVE Rest'
    BY RpcTyping
  <2>1. machine' = machine
    BY OneRuns
  <2>2. machine = "config" => ConfigInv' /\ ConfigBounds'
    BY ConfigStep, ConfigBoundsStep, OneRuns, RuntimeAssumption DEF ConfigInv
  <2>3. machine = "app" => AppInv'
    BY AppInvStep, OneRuns, RuntimeAssumption
  <2>4. machine = "daemon" => DaemonInv'
    BY DaemonStep, OneRuns, RuntimeAssumption
  <2>5. machine = "emq" => EmqInv'
    BY EmqStep, OneRuns, RuntimeAssumption
  <2>6. machine = "once" => OnceInv'
    BY OnceStep, OneRuns, RuntimeAssumption
  <2>7. QED
    BY <2>1, <2>2, <2>3, <2>4, <2>5, <2>6
<1>3. I => TypeOK
  <2> SUFFICES ASSUME I PROVE TypeOK
    OBVIOUS
  <2>1. ConfigInv /\ ConfigBounds => C!TypeOK
    BY DEF ConfigInv, ConfigTyped, ConfigBounds, C!TypeOK, C!Files, SomeFile
  <2>2. OnceInv => O!TypeOK
    BY DEF OnceInv, OnceTyped, CallerStates, O!TypeOK
  <2>3. AppInv => A!TypeOK
    BY DEF AppInv, AppTyped
  <2>4. DaemonInv => D!TypeOK
    BY DEF DaemonInv, DaemonTyped
  <2>5. EmqInv => E!TypeOK
    BY DEF EmqInv
  <2>6. QED
    BY RpcTyping, <2>1, <2>2, <2>3, <2>4, <2>5, Zenon DEF TypeOK
<1>4. QED
  BY <1>1, <1>2, <1>3, PTL DEF RuntimeSpec
=============================================================================
