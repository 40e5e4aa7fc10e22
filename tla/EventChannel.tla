---------------------------- MODULE EventChannel ----------------------------
(***************************************************************************)
(* Everything the engine hears comes through one bounded channel           *)
(* (engine/mod.rs, main.rs): from clients through the socket server        *)
(* (ipc/server.rs, ipc/protocol.rs), from the power monitor                *)
(* (system/power.rs), the watch on the configuration file                  *)
(* (config/loader.rs), signals, the focus back end and timers.  A sender   *)
(* that finds the channel full waits in line; the engine, which sends to   *)
(* its own channel, must not.  All tasks share one thread: the others run  *)
(* only where the engine awaits something, or has used up the budget the   *)
(* runtime gives to one poll of a task.                                    *)
(***************************************************************************)
EXTENDS Naturals, Sequences, FiniteSets

CONSTANTS
    Conn,           \* connections a client makes
    Ask,            \* [Conn -> SUBSET Requests], what its client may send
    Capacity,       \* ENGINE_CHANNEL_CAPACITY
    MaxConnections, \* MAX_CONCURRENT_CONNECTIONS
    Budget,         \* events in one poll of the engine (128 in tokio)
    Good,           \* configurations that can be used
    Broken,         \* contents load_config refuses
    BadRule,        \* contents it takes, and RulesEngine::new refuses
    Default,        \* Config::default
    Source,         \* PowerSource
    None,
    Plans           \* bounds on what happens outside, [Outside -> Nat]

Requests == {"query", "reload", "shutdown", "garbage", "silent"}
Outside  == {"edit", "hangup", "power", "signal", "focus", "gone", "timer", "connect"}
Content  == Good \cup Broken \cup BadRule

ASSUME ChannelAssumption ==
    /\ Ask \in [Conn -> SUBSET Requests]
    /\ Capacity \in Nat \ {0} /\ MaxConnections \in Nat \ {0}
    /\ Budget \in Nat \ {0} /\ Plans \subseteq [Outside -> Nat]
    /\ Good \cap (Broken \cup BadRule) = {} /\ Broken \cap BadRule = {}
    /\ None \notin Content \cup Source \cup Conn
    /\ IsFiniteSet(Conn)

VARIABLES
    channel,    \* the events in the channel
    waiting,    \* those of the senders in line for a place, in order
    engine,     \* "parked" in recv, "polled", "awaiting" a scan, or "ended"
    budget,     \* events the engine may still take in this poll
    config,     \* the configuration in force
    source,     \* the engine's power_source
    conn,       \* [Conn -> how far the server is with a connection]
    ask,        \* [Conn -> what its client sends, or None]
    backlog,    \* connections not accepted yet, in order
    file,       \* the content of the configuration file, None if it is missing
    watch,      \* the watch on its directory: "starting", "on", "off"
    notices,    \* changes the watcher has been told of and not handled
    power,      \* where power comes from
    polled,     \* what the monitor found last
    hangup,     \* a SIGHUP is to be handled
    term,       \* SIGTERM or SIGINT: "none", "pending", "taken"
    desktop,    \* the focus back end is there
    left        \* [Outside -> how many may still come]

engineVars == <<engine, budget, config, source>>
ipcVars    == <<conn, ask, backlog>>
fileVars   == <<file, watch, notices>>
powerVars  == <<power, polled>>
restVars   == <<hangup, term, desktop, left>>
vars == <<channel, waiting, engineVars, ipcVars, fileVars, powerVars, restVars>>

\* `by' is the task that sends; `of' what it sends.
Event == [type : {"IpcRequest"}, by : Conn, of : {"query", "reload", "shutdown"}] \cup
         [type : {"ConfigReloaded"}, by : {"watcher", "hangup", "engine"},
          of : Good \cup BadRule] \cup
         [type : {"PowerSourceChanged"}, by : {"monitor"}, of : Source] \cup
         [type : {"Shutdown"}, by : {"signal", "desktop", "engine"}, of : {None}] \cup
         [type : {"FocusChanged"}, by : {"desktop"}, of : {None}] \cup
         [type : {"SuspendTimerFired"}, by : {"timer"}, of : {None}]

Ev(type, by, of) == [type |-> type, by |-> by, of |-> of]

Happens(what) == left[what] > 0 /\ left' = [left EXCEPT ![what] = @ - 1]

Tasks  == engine \in {"parked", "awaiting"}
Places == Len(channel) + Len(waiting) < Capacity

\* Mutant: the channel takes any number of events.
SendUnbounded(e) == channel' = Append(channel, e) /\ UNCHANGED waiting

\* Mutant: a sender does not wait; without a place its event is dropped.
SendDropping(e) == /\ channel' = IF Places THEN Append(channel, e) ELSE channel
                   /\ UNCHANGED waiting

\* send().await: a place that becomes free is kept for who waits first.
Send(e) == IF Places THEN channel' = Append(channel, e) /\ UNCHANGED waiting
           ELSE waiting' = Append(waiting, e) /\ UNCHANGED channel

Blocked(task) == \E i \in DOMAIN waiting : waiting[i].by = task

\* The first in line puts its event into the channel.
Admit ==
    /\ Tasks /\ waiting # <<>> /\ Len(channel) < Capacity
    /\ channel' = Append(channel, Head(waiting)) /\ waiting' = Tail(waiting)
    /\ UNCHANGED <<engineVars, ipcVars, fileVars, powerVars, restVars>>

----------------------------------------------------------------------------
(* Clients and the socket server                                           *)

Served == {c \in Conn : conn[c] \in {"reading", "asked", "replied"}}

Connect(c, what) ==
    /\ engine # "ended" /\ conn[c] = "away" /\ Happens("connect")
    /\ conn' = [conn EXCEPT ![c] = "connected"]
    /\ ask' = [ask EXCEPT ![c] = what]
    /\ backlog' = Append(backlog, c)
    /\ UNCHANGED <<channel, waiting, engineVars, fileVars, powerVars, hangup, term,
                   desktop>>

\* One connection at a time is accepted, and waits for a permit.
Accept ==
    /\ Tasks /\ backlog # <<>> /\ Cardinality(Served) < MaxConnections
    /\ conn' = [conn EXCEPT ![Head(backlog)] = "reading"]
    /\ backlog' = Tail(backlog)
    /\ UNCHANGED <<channel, waiting, engineVars, ask, fileVars, powerVars, restVars>>

\* Mutant: a connection that fails keeps its permit.
ReadLeaking(c) ==
    /\ Tasks /\ conn[c] = "reading" /\ ask[c] # "silent"
    /\ IF ask[c] = "garbage"
       THEN conn' = [conn EXCEPT ![c] = "closed"] /\ UNCHANGED <<channel, waiting>>
       ELSE /\ conn' = [conn EXCEPT ![c] = "asked"]
            /\ Send(Ev("IpcRequest", c, ask[c]))
    /\ UNCHANGED <<engineVars, ask, backlog, fileVars, powerVars, restVars>>

\* A frame that cannot be decoded is answered on the spot; one that does not come
\* within READ_TIMEOUT, or is too long, is not.
Read(c) ==
    /\ Tasks /\ conn[c] = "reading"
    /\ IF ask[c] \in {"garbage", "silent"}
       THEN conn' = [conn EXCEPT ![c] = "closed"] /\ UNCHANGED <<channel, waiting>>
       ELSE /\ conn' = [conn EXCEPT ![c] = "asked"]
            /\ Send(Ev("IpcRequest", c, ask[c]))
    /\ UNCHANGED <<engineVars, ask, backlog, fileVars, powerVars, restVars>>

\* A client that has gone does not matter: the write fails.
Respond(c) ==
    /\ Tasks /\ conn[c] = "replied"
    /\ conn' = [conn EXCEPT ![c] = "closed"]
    /\ UNCHANGED <<channel, waiting, engineVars, ask, backlog, fileVars, powerVars,
                   restVars>>

----------------------------------------------------------------------------
(* The other tasks that send                                               *)

\* An editor may write in several steps; a removal is not among the changes that
\* the watch reports.
Edit(content) ==
    /\ engine # "ended" /\ Happens("edit") /\ content # file
    /\ file' = content
    /\ notices' = (IF watch = "on" /\ content # None THEN notices + 1 ELSE notices)
    /\ UNCHANGED <<channel, waiting, engineVars, ipcVars, watch, powerVars, hangup,
                   term, desktop>>

\* The watch begins after the configuration was read, if it can.
Watch ==
    /\ Tasks /\ watch = "starting" /\ watch' \in {"on", "off"}
    /\ UNCHANGED <<channel, waiting, engineVars, ipcVars, file, notices, powerVars,
                   restVars>>

\* reload_config_from_file reads what the file holds now.
ReloadFromFile(task) ==
    IF file \in Good \cup BadRule THEN Send(Ev("ConfigReloaded", task, file))
    ELSE UNCHANGED <<channel, waiting>>

\* Mutant: a change that comes while the watcher is busy is forgotten.
WatcherReloadCoalescing ==
    /\ Tasks /\ notices > 0
    /\ notices' = 0
    /\ IF Blocked("watcher") THEN UNCHANGED <<channel, waiting>>
       ELSE ReloadFromFile("watcher")
    /\ UNCHANGED <<engineVars, ipcVars, file, watch, powerVars, restVars>>

WatcherReload ==
    /\ Tasks /\ notices > 0 /\ ~Blocked("watcher")
    /\ notices' = notices - 1
    /\ ReloadFromFile("watcher")
    /\ UNCHANGED <<engineVars, ipcVars, file, watch, powerVars, restVars>>

Hangup ==
    /\ engine # "ended" /\ Happens("hangup") /\ hangup' = TRUE
    /\ UNCHANGED <<channel, waiting, engineVars, ipcVars, fileVars, powerVars, term,
                   desktop>>

HangupReload ==
    /\ Tasks /\ hangup /\ ~Blocked("hangup")
    /\ hangup' = FALSE
    /\ ReloadFromFile("hangup")
    /\ UNCHANGED <<engineVars, ipcVars, fileVars, powerVars, term, desktop, left>>

PowerChange(s) ==
    /\ engine # "ended" /\ Happens("power") /\ s # power /\ power' = s
    /\ UNCHANGED <<channel, waiting, engineVars, ipcVars, fileVars, polled, hangup, term,
                   desktop>>

\* Mutant: what is found counts as told although there was no place for it.
PollDropping ==
    /\ Tasks /\ polled # power
    /\ polled' = power
    /\ IF Places THEN Send(Ev("PowerSourceChanged", "monitor", power))
       ELSE UNCHANGED <<channel, waiting>>
    /\ UNCHANGED <<engineVars, ipcVars, fileVars, power, restVars>>

\* Only a change is told, and the first finding.
Poll ==
    /\ Tasks /\ polled # power /\ ~Blocked("monitor")
    /\ polled' = power
    /\ Send(Ev("PowerSourceChanged", "monitor", power))
    /\ UNCHANGED <<engineVars, ipcVars, fileVars, power, restVars>>

Signal ==
    /\ engine # "ended" /\ Happens("signal") /\ term = "none" /\ term' = "pending"
    /\ UNCHANGED <<channel, waiting, engineVars, ipcVars, fileVars, powerVars, hangup,
                   desktop>>

\* The first signal is the only one that is waited for.
Terminate ==
    /\ Tasks /\ term = "pending" /\ term' = "taken"
    /\ Send(Ev("Shutdown", "signal", None))
    /\ UNCHANGED <<engineVars, ipcVars, fileVars, powerVars, hangup, desktop, left>>

\* The forwarder sends one event at a time, and Shutdown after the last.
Focus ==
    /\ Tasks /\ desktop /\ ~Blocked("desktop")
    /\ \/ /\ Happens("focus") /\ UNCHANGED desktop
          /\ Send(Ev("FocusChanged", "desktop", None))
       \/ /\ Happens("gone") /\ desktop' = FALSE
          /\ Send(Ev("Shutdown", "desktop", None))
    /\ UNCHANGED <<engineVars, ipcVars, fileVars, powerVars, hangup, term>>

Timer ==
    /\ Tasks /\ Happens("timer")
    /\ Send(Ev("SuspendTimerFired", "timer", None))
    /\ UNCHANGED <<engineVars, ipcVars, fileVars, powerVars, hangup, term, desktop>>

----------------------------------------------------------------------------
(* The engine's loop                                                       *)

\* Mutant: the engine waits for a place in its own channel.
EngineSendsWaiting(rest, e) ==
    /\ Len(rest) + Len(waiting) < Capacity
    /\ channel' = Append(rest, e)

\* try_send: without a place the event is dropped.
EngineSends(rest, e) ==
    channel' = IF Len(rest) + Len(waiting) < Capacity THEN Append(rest, e) ELSE rest

\* handle_ipc, as far as it uses the channel; the reply says what became of a
\* reload, and of a shutdown it always says that it was scheduled.
HandleIpc(rest, what) ==
    CASE what = "shutdown" -> EngineSends(rest, Ev("Shutdown", "engine", None))
      [] what = "reload" /\ file \in Good \cup BadRule ->
             EngineSends(rest, Ev("ConfigReloaded", "engine", file))
      [] OTHER -> channel' = rest

\* The loop ends with the process: what is still queued or waits is lost, and
\* the connections are closed as they are.
End ==
    /\ engine' = "ended"
    /\ channel' = <<>> /\ waiting' = <<>> /\ backlog' = <<>>
    /\ conn' = [c \in Conn |-> IF conn[c] = "away" THEN "away" ELSE "closed"]
    /\ UNCHANGED <<config, source>>

Handle(e, rest) ==
    \/ /\ e.type = "IpcRequest"
       /\ HandleIpc(rest, e.of)
       /\ conn' = [conn EXCEPT ![e.by] = "replied"]
       /\ engine' = "polled"
       /\ UNCHANGED <<waiting, config, source, backlog>>
    \/ /\ e.type = "ConfigReloaded"
       /\ config' = (IF e.of \in Good THEN e.of ELSE config)
       /\ channel' = rest /\ engine' = "polled"
       /\ UNCHANGED <<waiting, source, conn, backlog>>
    \/ /\ e.type = "PowerSourceChanged"
       /\ source' = e.of
       /\ channel' = rest /\ engine' = "polled"
       /\ UNCHANGED <<waiting, config, conn, backlog>>
    \/ /\ e.type \in {"FocusChanged", "SuspendTimerFired"}
       /\ channel' = rest
       /\ engine' = (IF e.type = "FocusChanged" THEN "polled" ELSE "awaiting")
       /\ UNCHANGED <<waiting, config, source, conn, backlog>>
    \/ e.type = "Shutdown" /\ End

\* The runtime polls the engine when there is something to take; it takes what is
\* there until the budget is used up.
Take ==
    /\ channel # <<>>
    /\ \/ engine = "parked" /\ budget' = Budget - 1
       \/ engine = "polled" /\ budget > 0 /\ budget' = budget - 1
    /\ Handle(Head(channel), Tail(channel))
    /\ UNCHANGED <<ask, fileVars, powerVars, restVars>>

\* The engine lets the other tasks run.
Yield ==
    /\ engine = "polled" /\ (channel = <<>> \/ budget = 0)
    /\ engine' = "parked"
    /\ UNCHANGED <<channel, waiting, budget, config, source, ipcVars, fileVars, powerVars,
                   restVars>>

\* The scan and the guards have answered; a new poll begins.
Resume ==
    /\ engine = "awaiting" /\ engine' = "polled" /\ budget' = Budget
    /\ UNCHANGED <<channel, waiting, config, source, ipcVars, fileVars, powerVars,
                   restVars>>

----------------------------------------------------------------------------
(* The specification                                                       *)

\* load_config_or_default; what RulesEngine::new refuses ends the daemon.
Init ==
    /\ channel = <<>> /\ waiting = <<>> /\ engine = "parked" /\ budget = 0
    /\ file \in (Content \ BadRule) \cup {None}
    /\ config = (IF file \in Good THEN file ELSE Default)
    /\ power \in Source /\ polled = None /\ source = "unknown"
    /\ conn = [c \in Conn |-> "away"] /\ ask = [c \in Conn |-> None]
    /\ backlog = <<>> /\ watch = "starting" /\ notices = 0
    /\ hangup = FALSE /\ term = "none" /\ desktop = TRUE
    /\ left \in Plans

\* What goes on without the user, clients, timers and windows.
Progress ==
    \/ Take \/ Yield \/ Resume
    \/ Admit \/ Accept \/ Watch \/ WatcherReload \/ HangupReload \/ Poll \/ Terminate
    \/ \E c \in Conn : Read(c) \/ Respond(c)

Next ==
    \/ Progress
    \/ Focus \/ Timer \/ Hangup \/ Signal
    \/ \E c \in Conn : \E what \in Ask[c] : Connect(c, what)
    \/ \E content \in Content \cup {None} : Edit(content)
    \/ \E s \in Source : PowerChange(s)

Spec == Init /\ [][Next]_vars

\* The runtime polls whatever can run.  A plan leaves each task finitely much to
\* do, so none can keep another from its turn, and fairness to all of them
\* together is fairness to each.
FairSpec == Spec /\ WF_vars(Progress)

----------------------------------------------------------------------------
(* Properties                                                              *)

\* The variables hold what the code can put there; neither the channel nor the
\* number of connections served exceeds its limit.
TypeOK ==
    /\ channel \in Seq(Event) /\ Len(channel) <= Capacity
    /\ waiting \in Seq(Event)
    /\ engine \in {"parked", "polled", "awaiting", "ended"} /\ budget \in 0..Budget
    /\ config \in Good \cup {Default} /\ source \in Source \cup {"unknown"}
    /\ conn \in [Conn -> {"away", "connected", "reading", "asked", "replied", "closed"}]
    /\ ask \in [Conn -> Requests \cup {None}] /\ backlog \in Seq(Conn)
    /\ Cardinality(Served) <= MaxConnections
    /\ file \in Content \cup {None} /\ watch \in {"starting", "on", "off"}
    /\ notices \in Nat
    /\ power \in Source /\ polled \in Source \cup {None}
    /\ hangup \in BOOLEAN /\ term \in {"none", "pending", "taken"} /\ desktop \in BOOLEAN
    /\ left \in [Outside -> Nat]

Line == channel \o waiting
Asks(e, c)      == e.type = "IpcRequest" /\ e.by = c
Ends(e, task)   == e.type = "Shutdown" /\ e.by = task
FromMonitor     == {i \in DOMAIN Line : Line[i].type = "PowerSourceChanged"}

\* A connection whose request was read has it once in the channel or in line until
\* it is answered, and nobody is answered twice: no reply channel is dropped while
\* the engine runs (ipc/server.rs, handle_connection).
RequestsKept ==
    \A c \in Conn :
        /\ conn[c] = "asked" <=> \E i \in DOMAIN Line : Asks(Line[i], c)
        /\ \A i, j \in DOMAIN Line : Asks(Line[i], c) /\ Asks(Line[j], c) => i = j

\* A signal that was taken, and the end of the focus back end, are on their way to
\* the engine until it ends: other senders, and what the engine sends to itself,
\* may be served first but never take their place (main.rs, engine/mod.rs).
ShutdownKept ==
    engine # "ended" =>
        /\ term = "taken" => \E i \in DOMAIN Line : Ends(Line[i], "signal")
        /\ ~desktop => \E i \in DOMAIN Line : Ends(Line[i], "desktop")

\* What the monitor found last is what the engine goes by, or the last thing on its
\* way to it from the monitor, so an older finding never overrides a newer one
\* (system/power.rs, which does not repeat itself).
PowerKept ==
    engine # "ended" =>
        /\ FromMonitor = {} => polled \in {source, None}
        /\ \A i \in FromMonitor :
             (\A j \in FromMonitor : j <= i) => Line[i].of = polled

\* Every connection a client makes comes to an end, though others are silent
\* until they time out, the channel is full, or the daemon shuts down
\* (ipc/server.rs).
ConnectionsEnd == \A c \in Conn : conn[c] = "connected" ~> conn[c] = "closed"

\* SIGTERM ends the daemon, however many events are in the channel and in line,
\* and whatever the engine sends to itself meanwhile.
SignalEnds == term = "pending" ~> engine = "ended"

\* A configuration that stays in the file, and was written under the watch, is in
\* force in the end, though reloads by signal, client and watch overtake one
\* another on their way into the channel (main.rs, config/loader.rs); unless a
\* reload by signal stood in line while the file held something else: a place
\* that the engine frees beside the one that is kept for it lets a later reload in
\* before it.
ConfigConverges ==
    \A c \in Good :
        /\ <>(watch = "on" /\ file # c) /\ <>[](file = c)
        /\ [](file # c => ~Blocked("hangup"))
        => <>[](config = c \/ engine = "ended")

\* Where power comes from in the end is what the engine takes it to come from.
PowerConverges ==
    \A s \in Source : <>[](power = s) => <>[](source = s \/ engine = "ended")
=============================================================================
