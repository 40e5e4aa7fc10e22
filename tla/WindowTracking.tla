--------------------------- MODULE WindowTracking ---------------------------
(***************************************************************************)
(* How the daemon learns which application has the focus.  One of three    *)
(* back ends (desktop/x11.rs, wayland/gnome.rs, wayland/wlr_toplevel.rs)   *)
(* turns what the display server tells into focus events; they reach the   *)
(* engine through a bounded channel, and the engine keeps the registry:    *)
(* entries by application, and a map from windows to entries               *)
(* (engine/focus.rs, state/registry.rs, state/app_entry.rs).  Processes    *)
(* exit at any time, and the periodic sweep retires what has exited        *)
(* (engine/reconcile.rs).  Suspension is reduced to what it does to the    *)
(* registry; Engine has its timers, guards, power and clients.             *)
(***************************************************************************)
EXTENDS Rules, FiniteSets

CONSTANTS
    Window,         \* no window id is used twice
    Pid, Name, Desktop,
    PidOf,          \* [Window -> Pid \cup {None}]; None: no _NET_WM_PID
    ExeOf,          \* [Window -> Name], the executable that opens the window
    ClassOf,        \* [Window -> Name], WM_CLASS or app_id
    DesktopOf,      \* [Window -> Desktop]
    Early,          \* windows that are open when the daemon starts
    Config,         \* the configurations a reload may bring
    AtStart,        \* those the daemon may start with
    Backends,       \* what detect_backend may find
    WireLen,        \* bound on the display server's messages in flight
    ChannelLen,     \* capacity of the focus channel (64 in main.rs)
    MaxMoves        \* bound on what the user does: focus, titles, hints, reloads

ASSUME WindowAssumption ==
    /\ PidOf \in [Window -> Pid \cup {None}]
    /\ ExeOf \in [Window -> Name] /\ ClassOf \in [Window -> Name]
    /\ DesktopOf \in [Window -> Desktop] /\ Early \subseteq Window
    /\ \A v, w \in Early :
         PidOf[v] = PidOf[w] /\ PidOf[v] # None => ExeOf[v] = ExeOf[w]
    /\ IsFiniteSet(Window)
    /\ AtStart \subseteq Config
    /\ Backends \subseteq {"x11", "gnome", "wlr"}
    /\ WireLen \in Nat /\ ChannelLen \in Nat \ {0} /\ MaxMoves \in Nat
    /\ None \notin Window \cup Pid \cup Name \cup Desktop
    /\ Window \cap Name = {}

\* What a configuration says of actions: the defaults name one, a profile or a
\* rule may leave it open.
ASSUME ConfigAssumption ==
    \A c \in Config :
        /\ "action" \in DOMAIN c.defaults /\ c.defaults.action \in Actions
        /\ \A p \in DOMAIN c.profiles : c.profiles[p].action \in Actions \cup {None}
        /\ DOMAIN c.rules \subseteq Nat
        /\ \A i \in DOMAIN c.rules : c.rules[i].policy.action \in Actions \cup {None}

VARIABLES
    (* the desktop, outside the daemon *)
    exe,        \* [Pid -> Name \cup {None}], the program that runs under a PID
    exited,     \* the processes <<pid, name>> that have exited
    open,       \* the windows that exist
    closed,     \* those that existed once
    focus,      \* the focused window, or None
    desktop,    \* the current virtual desktop
    moves,      \* what the user has done so far, up to MaxMoves
    wire,       \* messages of the display server the back end has not read
    (* the back end *)
    backend,
    reading,    \* x11: the window whose properties were read, not yet subscribed to
    watched,    \* x11: windows whose structure the back end is told of
    known,      \* gnome: the windows of the last query
    last,       \* gnome: the window last reported as focused
    toplevels,  \* wlr: [Window -> Toplevel \cup {None}]
    exe_cache,  \* gnome: [Pid -> Name \cup {None, Unasked}], answers of /proc
    pid_cache,  \* wlr: [Name -> Pid \cup {None}], likewise
    outbox,     \* focus events the back end waits to send
    (* the engine *)
    channel,    \* focus events on the way to the engine
    config,
    entry,      \* [AppId -> Entry \cup {Untracked}], AppRegistry::apps
    window_map, \* [Window -> AppId \cup {None}]
    journal,    \* [AppId -> processes recorded as suspended]
    scan,       \* the suspension under way: an application and its processes
    sweep       \* the result of a sweep under way, or None

desktopVars == <<exe, exited, open, closed, focus, desktop, moves>>
backendVars == <<reading, watched, known, last, toplevels, exe_cache, pid_cache>>
engineVars  == <<config, entry, window_map, journal, scan, sweep>>
vars == <<desktopVars, wire, backend, backendVars, outbox, channel, engineVars>>

AppId   == Name \cup Window     \* a window stands for the name "window-N"
Process == Pid \X Name
Unasked == "unasked"
Untracked == None

WindowInfo == [window_id : Window, pid : Pid \cup {None},
               executable : Name \cup {None}, wm_class : Name \cup {None},
               app_id : Name \cup {None}, desktop : Desktop \cup {None}]
Entry    == [state : {"Active", "Background", "Frozen"},
             window_ids : SUBSET Window, roots : SUBSET Process,
             had_live : BOOLEAN, info : WindowInfo, action : Actions]
Toplevel == [app_id : Name \cup {None}, activated : BOOLEAN]
Message  == [type : {"active", "desktop"}] \cup
            [type : {"destroyed", "closed", "activate"}, window : Window] \cup
            [type : {"update"}, window : Window,
             app_id : Name \cup {None}, activated : BOOLEAN \cup {None}]
FocusEvent == [type : {"FocusChanged"}, info : WindowInfo] \cup
              [type : {"WindowClosed", "ActivationRequested"}, window : Window] \cup
              [type : {"WorkspaceChanged"}, desktop : Desktop]

\* An absent entry is not an entry.
ASSUME NoneAssumption == None \notin Entry

Running(p) == exe[p[1]] = p[2]
Dead(S)    == {p \in S : ~Running(p)}
Without(S, gone) == {p \in S : \A q \in gone : p[1] # q[1]}   \* remove_pids
Tracked    == {a \in AppId : entry[a] # Untracked}

\* The sequences that list each element of S once.
Orders(S) == {s \in [1..Cardinality(S) -> S] :
                \A i, j \in 1..Cardinality(S) : s[i] = s[j] => i = j}

NoWindow(w) == [window_id |-> w, pid |-> None, executable |-> None,
                wm_class |-> None, app_id |-> None, desktop |-> None]
FocusChanged(info) == [type |-> "FocusChanged", info |-> info]
WindowClosed(w)    == [type |-> "WindowClosed", window |-> w]

----------------------------------------------------------------------------
(* The desktop: programs, windows and the display server's messages        *)

\* A group of changed attributes; None stands for one that is not in it.
Update(w, app, act) ==
    [type |-> "update", window |-> w, app_id |-> app, activated |-> act]

\* What each display server tells of a change, to the back end that runs.
Tell(x11, wlr) ==
    LET messages == CASE backend = "x11" -> x11 [] backend = "wlr" -> wlr
                      [] OTHER -> <<>>
    IN  /\ Len(wire) + Len(messages) <= WireLen
        /\ wire' = wire \o messages

Move == moves < MaxMoves /\ moves' = moves + 1

\* A program opens a window.  A PID is used again once its process has exited
\* and the server has closed what it had open.
OpenWindow(w) ==
    LET p == <<PidOf[w], ExeOf[w]>> IN
    /\ w \notin open \cup closed
    /\ PidOf[w] # None => /\ exe[p[1]] \in {None, p[2]}
                          /\ p \notin exited
                          /\ \A v \in open : PidOf[v] = p[1] => ExeOf[v] = p[2]
    /\ exe' = [q \in Pid |-> IF q = PidOf[w] THEN ExeOf[w] ELSE exe[q]]
    /\ open' = open \cup {w}
    /\ Tell(<<>>, <<Update(w, ClassOf[w], FALSE)>>)
    /\ UNCHANGED <<exited, closed, focus, desktop, moves>>

SwitchFocus(w) ==
    /\ Move
    /\ w \in open \cup {None} /\ w # focus
    /\ focus' = w
    /\ LET left   == IF focus = None THEN <<>> ELSE <<Update(focus, None, FALSE)>>
           gained == IF w = None THEN <<>> ELSE <<Update(w, None, TRUE)>>
       IN  Tell(<<[type |-> "active"]>>, left \o gained)
    /\ UNCHANGED <<exe, exited, open, closed, desktop>>

\* A client hears of the end of a window only where it asked to.
CloseWindow(w) ==
    /\ w \in open
    /\ open' = open \ {w} /\ closed' = closed \cup {w}
    /\ focus' = IF focus = w THEN None ELSE focus
    /\ Tell((IF w \in watched THEN <<[type |-> "destroyed", window |-> w]>> ELSE <<>>)
              \o (IF focus = w THEN <<[type |-> "active"]>> ELSE <<>>),
            <<[type |-> "closed", window |-> w]>>)
    /\ UNCHANGED <<exe, exited, desktop, moves>>

\* Its windows close a moment later, each with a CloseWindow.
ExitProcess(p) ==
    /\ exe[p] # None
    /\ exited' = exited \cup {<<p, exe[p]>>}
    /\ exe' = [exe EXCEPT ![p] = None]
    /\ UNCHANGED <<open, closed, focus, desktop, moves, wire>>

Retitle(w) ==
    /\ backend = "wlr" /\ w \in open /\ Move
    /\ Tell(<<>>, <<Update(w, None, None)>>)
    /\ UNCHANGED <<exe, exited, open, closed, focus, desktop>>

\* A panel asks for a window; the user goes to another virtual desktop.
RequestActivation(w) ==
    /\ backend = "x11" /\ w \in open /\ Move
    /\ Tell(<<[type |-> "activate", window |-> w]>>, <<>>)
    /\ UNCHANGED <<exe, exited, open, closed, focus, desktop>>

SwitchDesktop(d) ==
    /\ backend = "x11" /\ d # desktop /\ Move
    /\ desktop' = d
    /\ Tell(<<[type |-> "desktop"]>>, <<>>)
    /\ UNCHANGED <<exe, exited, open, closed, focus>>

DesktopStep ==
    /\ \/ \E w \in Window : \/ OpenWindow(w) \/ CloseWindow(w)
                            \/ Retitle(w) \/ RequestActivation(w)
       \/ \E w \in Window \cup {None} : SwitchFocus(w)
       \/ \E p \in Pid : ExitProcess(p)
       \/ \E d \in Desktop : SwitchDesktop(d)
    /\ UNCHANGED <<backend, backendVars, outbox, channel, engineVars>>

----------------------------------------------------------------------------
(* X11: a notification says that something changed, its handler asks what  *)

Comm(p) == IF p = None THEN None ELSE exe[p]

X11Info(w) ==
    IF w \in open
    THEN [window_id |-> w, pid |-> PidOf[w], executable |-> Comm(PidOf[w]),
          wm_class |-> ClassOf[w], app_id |-> None, desktop |-> DesktopOf[w]]
    ELSE NoWindow(w)

Reads(type) ==
    /\ outbox = <<>> /\ reading = None
    /\ wire # <<>> /\ Head(wire).type = type
    /\ wire' = Tail(wire)

\* A hint that finds the channel full is dropped (try_send).
TrySend(hint) ==
    channel' = IF Len(channel) < ChannelLen THEN Append(channel, hint) ELSE channel

X11Active ==
    /\ backend = "x11" /\ Reads("active")
    /\ reading' = focus
    /\ UNCHANGED <<watched, known, last, toplevels, exe_cache, pid_cache, outbox,
                   channel>>

\* The properties are read before the window is subscribed to.
X11Inform ==
    /\ reading # None /\ outbox = <<>>
    /\ outbox' = <<FocusChanged(X11Info(reading))>>
    /\ UNCHANGED <<wire, backendVars, channel>>

X11Subscribe ==
    /\ reading # None /\ outbox # <<>>
    /\ reading' = None
    /\ watched' = watched \cup ({reading} \cap open)
    /\ UNCHANGED <<wire, known, last, toplevels, exe_cache, pid_cache, outbox, channel>>

X11Destroyed ==
    /\ backend = "x11" /\ Reads("destroyed")
    /\ outbox' = <<WindowClosed(Head(wire).window)>>
    /\ UNCHANGED <<backendVars, channel>>

X11Hint ==
    /\ backend = "x11"
    /\ \/ /\ Reads("activate")
          /\ TrySend([type |-> "ActivationRequested", window |-> Head(wire).window])
       \/ /\ Reads("desktop")
          /\ TrySend([type |-> "WorkspaceChanged", desktop |-> desktop])
    /\ UNCHANGED <<backendVars, outbox>>

----------------------------------------------------------------------------
(* GNOME: a signal, or two seconds without one, and the windows are asked  *)
(* for again                                                               *)

\* What /proc says of a PID is asked once and kept.
Asked(w) ==
    [p \in Pid |-> IF p = PidOf[w] /\ exe_cache[p] = Unasked THEN exe[p]
                   ELSE exe_cache[p]]

GnomeInfo(w) ==
    [window_id |-> w, pid |-> PidOf[w],
     executable |-> IF PidOf[w] = None THEN None ELSE Asked(w)[PidOf[w]],
     wm_class |-> ClassOf[w], app_id |-> ClassOf[w], desktop |-> None]

\* A query that fails changes nothing, as if there had been none.  The windows
\* that are gone are found in the order of a hash map.
GnomePoll ==
    /\ backend = "gnome" /\ outbox = <<>>
    /\ LET news == focus \notin {None, last} IN
       /\ \E gone \in Orders(known \ open) :
            outbox' = (IF news THEN <<FocusChanged(GnomeInfo(focus))>> ELSE <<>>)
                        \o [i \in DOMAIN gone |-> WindowClosed(gone[i])]
       /\ last' = (IF news THEN focus ELSE last)
       /\ exe_cache' = (IF news THEN Asked(focus) ELSE exe_cache)
    /\ known' = open
    /\ UNCHANGED <<wire, reading, watched, toplevels, pid_cache, channel>>

----------------------------------------------------------------------------
(* wlroots: the attributes that changed, then `done'                       *)

\* What a group does not bring has its default, not the value it had: `pending'
\* starts anew with each group.
Pending(m) ==
    [app_id |-> m.app_id, activated |-> m.activated \notin {None, FALSE}]

\* A process whose executable is named like the application, remembered.
FindPid(app) ==
    IF app = None THEN {None}
    ELSE IF pid_cache[app] # None THEN {pid_cache[app]}
    ELSE LET found == {p \in Pid : exe[p] = app}
         IN  IF found = {} THEN {None} ELSE found

WlrInfo(w, app, p) ==
    [window_id |-> w, pid |-> p, executable |-> IF p = None THEN None ELSE app,
     wm_class |-> app, app_id |-> app, desktop |-> None]

WlrDone ==
    /\ backend = "wlr" /\ Reads("update")
    /\ LET w    == Head(wire).window
           next == Pending(Head(wire))
           was  == toplevels[w] # None /\ toplevels[w].activated
       IN  /\ toplevels' = [toplevels EXCEPT ![w] = next]
           /\ IF next.activated /\ ~was
              THEN \E p \in FindPid(next.app_id) :
                     /\ outbox' = <<FocusChanged(WlrInfo(w, next.app_id, p))>>
                     /\ pid_cache' = [n \in Name |-> IF n = next.app_id THEN p
                                                     ELSE pid_cache[n]]
              ELSE UNCHANGED <<outbox, pid_cache>>
    /\ UNCHANGED <<reading, watched, known, last, exe_cache, channel>>

WlrClosed ==
    /\ backend = "wlr" /\ Reads("closed")
    /\ LET w   == Head(wire).window
           app == IF toplevels[w] = None THEN None ELSE toplevels[w].app_id
       IN  /\ toplevels' = [toplevels EXCEPT ![w] = None]
           /\ pid_cache' = [n \in Name |-> IF n = app THEN None ELSE pid_cache[n]]
           /\ outbox' = <<WindowClosed(w)>>
    /\ UNCHANGED <<reading, watched, known, last, exe_cache, channel>>

\* Mutant: the focus channel is unbounded.
SendOutUnbounded ==
    /\ reading = None /\ outbox # <<>>
    /\ channel' = Append(channel, Head(outbox))
    /\ outbox' = Tail(outbox)
    /\ UNCHANGED <<wire, backendVars>>

SendOut ==
    /\ reading = None /\ outbox # <<>> /\ Len(channel) < ChannelLen
    /\ channel' = Append(channel, Head(outbox))
    /\ outbox' = Tail(outbox)
    /\ UNCHANGED <<wire, backendVars>>

BackendStep ==
    /\ \/ X11Active \/ X11Inform \/ X11Subscribe \/ X11Destroyed \/ X11Hint
       \/ GnomePoll \/ WlrDone \/ WlrClosed \/ SendOut
    /\ UNCHANGED <<desktopVars, backend, engineVars>>

----------------------------------------------------------------------------
(* The engine: the registry under focus events                             *)

\* AppId::from_window: class, else app id, else executable, else the window.
AppIdOf(info) ==
    CASE info.wm_class # None   -> info.wm_class
      [] info.app_id # None     -> info.app_id
      [] info.executable # None -> info.executable
      [] OTHER                  -> info.window_id

\* ProcessHandle::open: a PID names the process that runs under it now.
Open(p) == IF Comm(p) = None THEN {} ELSE {<<p, exe[p]>>}

\* recorded_procs_for: what was suspended, else the window processes.
Recorded(a) == IF journal[a] # {} THEN journal[a] ELSE entry[a].roots

\* Leaving Frozen resumes what is recorded and forgets what has exited.
Thawed(a) ==
    IF entry[a].state = "Frozen"
    THEN [entry[a] EXCEPT !.roots = Without(@, Dead(Recorded(a)))]
    ELSE entry[a]
FrozenApps == {a \in Tracked : entry[a].state = "Frozen"}
JournalWithout(A) == [a \in AppId |-> IF a \in A THEN {} ELSE journal[a]]

\* Mutant: only what is frozen is activated.
ActivateFrozenApp(a, info) ==
    LET thawed == Thawed(a) IN
    [thawed EXCEPT !.state = IF @ = "Frozen" THEN "Active" ELSE @, !.info = info,
       !.window_ids = @ \cup {info.window_id},
       !.roots = IF \E p \in @ : p[1] = info.pid THEN @ ELSE @ \cup Open(info.pid),
       !.had_live = @ \/ Open(info.pid) # {}]

ActivateExistingApp(a, info) ==
    LET thawed == Thawed(a) IN
    [thawed EXCEPT !.state = "Active", !.info = info,
       !.window_ids = @ \cup {info.window_id},
       !.roots = IF \E p \in @ : p[1] = info.pid THEN @ ELSE @ \cup Open(info.pid),
       !.had_live = @ \/ Open(info.pid) # {}]

RegisterNewApp(info) ==
    [state |-> "Active", window_ids |-> {info.window_id},
     roots |-> Open(info.pid), had_live |-> Open(info.pid) # {}, info |-> info,
     action |-> PolicyFor(config, info, Comm(info.pid)).action]

Backgrounded(b) ==
    IF entry[b] # Untracked /\ entry[b].state = "Active"
    THEN [entry[b] EXCEPT !.state = "Background"] ELSE entry[b]

HandleFocusChanged(info) ==
    LET a == AppIdOf(info) IN
    /\ entry' = [b \in AppId |->
                   IF b # a THEN Backgrounded(b)
                   ELSE IF entry[a] # Untracked THEN ActivateExistingApp(a, info)
                   ELSE RegisterNewApp(info)]
    /\ window_map' = IF entry[a] # Untracked THEN window_map
                     ELSE [window_map EXCEPT ![info.window_id] = a]
    /\ journal' = JournalWithout({a} \cap FrozenApps)
    /\ UNCHANGED <<config, scan, sweep>>

\* Mutant: the windows of a removed application stay in the map.
MapUnchanged(A) == window_map

\* AppRegistry::remove_app forgets every window of the application.
MapWithout(A) ==
    [w \in Window |-> IF window_map[w] \in A THEN None ELSE window_map[w]]

\* Only a window in the map is known, and only its own entry loses it.
HandleWindowClosed(w) ==
    LET a == window_map[w] IN
    IF a = None \/ entry[a] = Untracked
    THEN /\ window_map' = [window_map EXCEPT ![w] = None]
         /\ UNCHANGED <<config, entry, journal, scan, sweep>>
    ELSE /\ IF entry[a].window_ids = {w}
            THEN /\ entry' = [entry EXCEPT ![a] = Untracked]
                 /\ window_map' = MapWithout({a})
                 /\ journal' = JournalWithout({a} \cap FrozenApps)
            ELSE /\ entry' = [entry EXCEPT ![a].window_ids = @ \ {w}]
                 /\ window_map' = [window_map EXCEPT ![w] = None]
                 /\ UNCHANGED journal
         /\ UNCHANGED <<config, scan, sweep>>

\* Mutant: a thaw without a focus event makes the application active.
RestoreToActive(A) ==
    /\ entry' = [a \in AppId |-> IF a \in A THEN [Thawed(a) EXCEPT !.state = "Active"]
                                 ELSE entry[a]]
    /\ journal' = JournalWithout(A)

\* restore_to_background: no focus event, so not Active.
RestoreToBackground(A) ==
    /\ entry' = [a \in AppId |-> IF a \in A THEN [Thawed(a) EXCEPT !.state = "Background"]
                                 ELSE entry[a]]
    /\ journal' = JournalWithout(A)

PreThaw(A) == /\ RestoreToBackground(A)
              /\ UNCHANGED <<config, window_map, scan, sweep>>

\* One event of the channel is handled to its end before the next.
EngineTakes ==
    /\ scan = None /\ channel # <<>>
    /\ channel' = Tail(channel)
    /\ LET e == Head(channel) IN
       \/ e.type = "FocusChanged" /\ HandleFocusChanged(e.info)
       \/ e.type = "WindowClosed" /\ HandleWindowClosed(e.window)
       \/ /\ e.type = "ActivationRequested"
          /\ LET holding == {a \in FrozenApps : e.window \in entry[a].window_ids}
             IN  \/ holding = {} /\ PreThaw({})
                 \/ \E a \in holding : PreThaw({a})
       \/ /\ e.type = "WorkspaceChanged"
          /\ PreThaw({a \in FrozenApps : entry[a].info.desktop = e.desktop})

\* The suspend timer of an application fires: its processes are listed off the
\* loop, which waits; if none runs, nothing happens, ...
SuspendScan(a) ==
    LET procs == entry[a].roots \ Dead(entry[a].roots) IN
    /\ scan = None /\ a \in Tracked
    /\ entry[a].state = "Background" /\ entry[a].action = "freeze"
    /\ procs # {}
    /\ scan' = [app |-> a, procs |-> procs]
    /\ UNCHANGED <<desktopVars, wire, backend, backendVars, outbox, channel, config,
                   entry, window_map, journal, sweep>>

\* ... and stopped, unless they have exited meanwhile.
SuspendApply ==
    /\ scan # None
    /\ LET a    == scan.app
           gone == Dead(scan.procs)
       IN  /\ entry' = [entry EXCEPT ![a].roots = Without(@, gone),
                          ![a].state = IF scan.procs \ gone = {} THEN @ ELSE "Frozen"]
           /\ journal' = [journal EXCEPT ![a] =
                            (@ \cup scan.procs) \ gone]
    /\ scan' = None
    /\ UNCHANGED <<config, window_map, sweep, channel>>

\* rematch_tracked_apps: the policies are resolved again, with what was last
\* seen of each application.
Reload(c) ==
    LET now(a) == PolicyFor(c, entry[a].info, Comm(entry[a].info.pid)).action
        freed  == {a \in FrozenApps : now(a) # "freeze"}
    IN  /\ scan = None /\ c # config /\ Move
        /\ config' = c
        /\ entry' = [a \in AppId |->
              IF entry[a] = Untracked THEN Untracked
              ELSE IF a \in freed
                   THEN [Thawed(a) EXCEPT !.state = "Background", !.action = now(a)]
                   ELSE [entry[a] EXCEPT !.action = now(a)]]
        /\ journal' = JournalWithout(freed)
        /\ UNCHANGED <<exe, exited, open, closed, focus, desktop, wire, backend,
                       backendVars, outbox, window_map, scan, sweep, channel>>

----------------------------------------------------------------------------
(* The sweep: lists dead processes off the loop, then retires              *)

\* A sweep that finds nothing changes nothing, and is left out.
SweepScan ==
    LET deadOf == [a \in AppId |-> IF a \in Tracked THEN Dead(entry[a].roots) ELSE {}]
        stale  == [a \in AppId |-> Dead(journal[a])]
    IN  /\ scan = None /\ sweep = None
        /\ \E a \in AppId : deadOf[a] \cup stale[a] # {}
        /\ sweep' = [roots |-> deadOf, journal |-> stale]
        /\ UNCHANGED <<config, entry, window_map, journal, scan, channel>>

Reaped(a) ==
    IF entry[a] = Untracked THEN Untracked
    ELSE [entry[a] EXCEPT !.roots = Without(@, sweep.roots[a])]

\* Mutant: the flag of the sweep in flight is not reset.
SweepApplyStuck ==
    /\ scan = None /\ sweep # None
    /\ entry' = [a \in AppId |-> Reaped(a)]
    /\ journal' = [a \in AppId |-> Without(journal[a], sweep.journal[a])]
    /\ UNCHANGED <<config, window_map, scan, sweep, channel>>

\* Only an application with a process in the result is looked at.
SweepApply ==
    /\ scan = None /\ sweep # None
    /\ LET defunct == {a \in Tracked : /\ sweep.roots[a] # {}
                                       /\ Reaped(a).roots = {} /\ entry[a].had_live}
       IN  /\ entry' = [a \in AppId |-> IF a \in defunct THEN Untracked ELSE Reaped(a)]
           /\ window_map' = MapWithout(defunct)
    /\ journal' = [a \in AppId |-> Without(journal[a], sweep.journal[a])]
    /\ sweep' = None
    /\ UNCHANGED <<config, scan, channel>>

EngineStep ==
    /\ \/ EngineTakes \/ SuspendApply \/ SweepScan \/ SweepApply
    /\ UNCHANGED <<desktopVars, wire, backend, backendVars, outbox>>

----------------------------------------------------------------------------
(* The specification                                                       *)

\* The back end has asked for the windows that are there when it starts.
Init ==
    /\ open = Early /\ closed = {} /\ exited = {}
    /\ exe = [p \in Pid |-> IF \E w \in Early : PidOf[w] = p
                            THEN ExeOf[CHOOSE w \in Early : PidOf[w] = p] ELSE None]
    /\ focus \in Early \cup {None} /\ moves = 0
    /\ desktop \in {DesktopOf[w] : w \in {focus} \cap Early} \cup
                   {d \in Desktop : focus = None}
    /\ backend \in Backends
    /\ exe_cache = [p \in Pid |-> IF backend = "gnome" /\ focus # None /\ p = PidOf[focus]
                                  THEN exe[p] ELSE Unasked]
    /\ outbox = CASE backend = "wlr" \/ focus = None -> <<>>
                  [] backend = "x11" /\ focus # None -> <<FocusChanged(X11Info(focus))>>
                  [] OTHER -> <<FocusChanged(GnomeInfo(focus))>>
    /\ \E first \in Orders(IF backend = "wlr" THEN Early ELSE {}) :
         wire = [i \in DOMAIN first |->
                   Update(first[i], ClassOf[first[i]], first[i] = focus)]
    /\ reading = None /\ watched = {}
    /\ known = (IF backend = "gnome" THEN Early ELSE {})
    /\ last = IF backend = "gnome" THEN focus ELSE None
    /\ toplevels = [w \in Window |-> None] /\ pid_cache = [n \in Name |-> None]
    /\ channel = <<>> /\ config \in AtStart
    /\ entry = [a \in AppId |-> Untracked] /\ window_map = [w \in Window |-> None]
    /\ journal = [a \in AppId |-> {}] /\ scan = None /\ sweep = None

Next == \/ DesktopStep \/ BackendStep \/ EngineStep
        \/ \E a \in AppId : SuspendScan(a)
        \/ \E c \in Config : Reload(c)

Spec == Init /\ [][Next]_vars

\* The back end's loop, the forwarding task and the engine's loop go on, the
\* reconcile interval ticks, and the display server closes the windows of a
\* program that has exited.  Timers, users and programs are not fair.
CloseOfExited ==
    /\ \E w \in Window : <<PidOf[w], ExeOf[w]>> \in exited /\ CloseWindow(w)
    /\ UNCHANGED <<backend, backendVars, outbox, channel, engineVars>>

Progress == BackendStep \/ EngineStep \/ CloseOfExited

FairSpec == Spec /\ WF_vars(Progress)

----------------------------------------------------------------------------
(* Properties                                                              *)

\* The variables hold what the code can put there.
TypeOK ==
    /\ exe \in [Pid -> Name \cup {None}] /\ exited \subseteq Process
    /\ open \subseteq Window /\ closed \subseteq Window
    /\ focus \in Window \cup {None} /\ desktop \in Desktop /\ moves \in 0..MaxMoves
    /\ wire \in Seq(Message) /\ backend \in Backends
    /\ reading \in Window \cup {None} /\ watched \subseteq Window
    /\ known \subseteq Window /\ last \in Window \cup {None}
    /\ toplevels \in [Window -> Toplevel \cup {None}]
    /\ exe_cache \in [Pid -> Name \cup {None, Unasked}]
    /\ pid_cache \in [Name -> Pid \cup {None}]
    /\ outbox \in Seq(FocusEvent)
    /\ channel \in Seq(FocusEvent) /\ Len(channel) <= ChannelLen
    /\ config \in Config
    /\ entry \in [AppId -> Entry \cup {Untracked}]
    /\ window_map \in [Window -> AppId \cup {None}]
    /\ journal \in [AppId -> SUBSET Process]
    /\ scan \in [app : AppId, procs : SUBSET Process] \cup {None}
    /\ sweep \in [roots : [AppId -> SUBSET Process],
                  journal : [AppId -> SUBSET Process]] \cup {None}

\* A window in the map leads to an entry that is tracked and holds the window, and
\* an entry holds at least one: neither a removal by the sweep nor a window that
\* comes up under another name leaves the map pointing at an application that
\* is not there (AppRegistry::insert, remove_window, remove_app).
RegistryConsistent ==
    /\ \A w \in Window :
         window_map[w] # None => /\ window_map[w] \in Tracked
                                 /\ w \in entry[window_map[w]].window_ids
    /\ \A a \in Tracked : entry[a].window_ids # {}

\* The desktop alone never makes two applications active: not a focus change,
\* nor the hints that thaw what is on a virtual desktop (pre_thaw_frozen).
OneActive ==
    \A a, b \in Tracked :
        entry[a].state = "Active" /\ entry[b].state = "Active" => a = b

\* A policy is resolved where an application is registered and where another
\* configuration comes; a window of a registered application resolves none.
PolicyResolved(a) ==
    entry'[a] # Untracked /\ (entry[a] = Untracked \/ config' # config)

\* A window of a denied program, its process being its own or not known: under X11
\* the executable tells, under wlroots the name of the application.
DeniedWindow(w) ==
    \/ /\ backend = "x11" /\ ExeOf[w] \in Denied
       /\ PidOf[w] = None \/ exe[PidOf[w]] = ExeOf[w]
    \/ backend = "wlr" /\ ClassOf[w] \in Denied

\* Whenever the policy of an application is resolved, a denied window makes it
\* `ignore', under X11 and wlroots: whatever PIDs have been used again since the
\* window was looked at, windows have closed before they were asked about, and
\* configurations say (register_new_app, rematch_tracked_apps).
DeniedIsIgnored ==
    [][\A a \in AppId :
         PolicyResolved(a) /\ DeniedWindow(entry'[a].info.window_id) =>
             entry'[a].action = "ignore"]_vars

Followed(w) == \E a \in Tracked : /\ w \in entry[a].window_ids
                                  /\ entry[a].state = "Active"
                                  /\ a = ClassOf[w]

\* A window that keeps the focus has its application active in the end, and
\* keeps it so, through lost hints, windows that close meanwhile, and sweeps.
FocusIsFollowed ==
    \A w \in Window : <>[](focus = w) => <>[]Followed(w)

\* A window without a PID is as good as any other while no window of its
\* application has one: an application that never learned a process is not
\* retired (AppEntry::is_defunct).
Identified(w) ==
    PidOf[w] # None \/ \A v \in Window : ClassOf[v] = ClassOf[w] => PidOf[v] = None

\* ... under X11 and GNOME, if the processes that an application is known by are
\* not those of its other windows only: with the last of them it is retired,
\* and a window without a PID is lost.
FocusFollowed ==
    backend # "wlr" =>
        \A w \in Window : Identified(w) => (<>[](focus = w) => <>[]Followed(w))

\* An exited process does not stay among the processes of an application, even
\* when no window close was seen (engine/reconcile.rs).
ExitedLeave ==
    \A p \in Process :
        p \in exited ~> \A a \in Tracked : p \notin entry[a].roots
=============================================================================
