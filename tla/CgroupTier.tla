----------------------------- MODULE CgroupTier -----------------------------
(***************************************************************************)
(* Suspension by control groups (system/cgroup.rs, freeze.rs, throttle.rs):*)
(* where the daemon may, it gives an application a cgroup, moves its       *)
(* window processes there, and freezes or limits the group instead of      *)
(* signalling each process.  Engine covers the tier without cgroups, the   *)
(* timers, the policies and refused signals; here management is on, and    *)
(* the handlers are reduced to what they do to processes, groups and the   *)
(* journal.  Groups outlive the daemon, and lie below the cgroup the daemon *)
(* that made them was started in, its base; the next one may be started in *)
(* another.  A write to a group fails exactly when its directory, or the   *)
(* file in it, is not there.                                               *)
(***************************************************************************)
EXTENDS AppState, Naturals

CONSTANTS
    App, Proc, None,
    Owner,          \* [Proc -> App]
    Parent,         \* [Proc -> Proc]; a process that owns windows is its own
    Born,           \* processes running when the daemon first starts
    Protected,      \* processes on the built-in deny-list
    Movable,        \* processes the kernel lets the daemon move
    UnitName,       \* [App -> names]; different names may be sanitized alike
    Rule,           \* [App -> Actions]
    Profile,        \* [App -> ThrottleParams]
    Environments,   \* what the daemon may find when it starts
    Bases,          \* cgroups below which groups may lie
    ScopeBase,      \* the one below which systemd puts scopes
    Commands        \* requests a client may make

Actions        == {"ignore", "throttle", "freeze"}
ThrottleParams == [nice : BOOLEAN, weight : BOOLEAN, quota : 0..101 \cup {None}]
Environment    == [writable : BOOLEAN, freezeFile : BOOLEAN, cpu : BOOLEAN,
                   systemd : BOOLEAN, base : Bases]
Tiers          == {"direct", "systemd", "signal"}
Group          == {"direct", "systemd"} \X {UnitName[a] : a \in App} \X Bases

ASSUME CgroupAssumption ==
    /\ Owner \in [Proc -> App] /\ Parent \in [Proc -> Proc]
    /\ \A p \in Proc : /\ Parent[Parent[p]] = Parent[p]
                       /\ Owner[Parent[p]] = Owner[p]
    /\ UNION {Born, Protected, Movable} \subseteq Proc
    /\ None \notin Group \cup Proc \cup Nat
    /\ Rule \in [App -> Actions] /\ Profile \in [App -> ThrottleParams]
    /\ Environments \subseteq Environment /\ Environments # {}
    /\ ScopeBase \in Bases
    /\ Commands \subseteq {"freeze", "thaw", "thawAll"}

VARIABLES
    life,       \* [Proc -> {"unborn", "alive", "exited"}]
    stopped,    \* processes stopped by a signal
    niced,      \* processes whose niceness was raised
    home,       \* [Proc -> Group \cup {None}], the group a process is in
    dirs,       \* the groups that exist
    frozen,     \* those with cgroup.freeze = 1
    limited,    \* those with a cpu.weight or cpu.max
    env,        \* the environment the daemon found
    up,
    entry,      \* [App -> Entry], the registry
    rec         \* [App -> Record], the journal

loopVars == <<life, env, up>>
vars == <<life, stopped, niced, home, dirs, frozen, limited, env, up, entry, rec>>

Root   == {p \in Proc : Parent[p] = p}
Entry  == [state : States \cup {"untracked"}, path : Group \cup {None},
           roots : SUBSET Root, awake : BOOLEAN]
Record == [procs : SUBSET Proc, group : Group \cup {None}]

Untracked == [state |-> "untracked", path |-> None, roots |-> {}, awake |-> FALSE]
NoRecord  == [procs |-> {}, group |-> None]

Alive      == {p \in Proc : life[p] = "alive"}
Tracked    == {a \in App : entry[a].state # "untracked"}
In(S)      == {a \in App : entry[a].state \in S}
Members(g) == {p \in Alive : home[p] = g}
Stalled    == {p \in Alive : p \in stopped \/ home[p] \in frozen}
Paths(A)   == {entry[a].path : a \in A} \ {None}

----------------------------------------------------------------------------
(* What the daemon can do, and what it can reach                           *)

BaseOf(g) == g[3]

\* CgroupManager::new: a writable subtree first, then systemd, else signals.
Detect(e) ==
    CASE e.writable -> [tier |-> "direct", freezer |-> e.freezeFile, cpu |-> e.cpu]
      [] ~e.writable /\ e.systemd -> [tier |-> "systemd", freezer |-> TRUE, cpu |-> TRUE]
      [] OTHER -> [tier |-> "signal", freezer |-> FALSE, cpu |-> FALSE]

Capabilities == Detect(env)

\* The groups among G whose files the daemon can write.
Writable(G) == G \cap dirs

Freezable(G) == IF Capabilities.freezer THEN Writable(G) ELSE {}
CpuLands(G)  == IF Capabilities.cpu /\ env.cpu THEN Writable(G) ELSE {}

ExpandTree(a) == {p \in Alive : Parent[p] \in entry[a].roots \cap Alive}

Allowed(procs) == procs \ Protected

RecordedProcs(a) ==
    IF rec[a].procs # {} THEN rec[a].procs ELSE entry[a].roots

RecordedIn(A) == UNION {RecordedProcs(a) : a \in A}

----------------------------------------------------------------------------
(* Freezing and throttling.  A group that is gone has no state: every step *)
(* fixes dirs' first.                                                      *)

\* Mutant: the processes are not looked for again before they are signalled.
FreezeAppUnchecked(path, procs) ==
    \/ /\ Freezable({path}) # {}
       /\ frozen' = frozen \cup {path}
       /\ UNCHANGED stopped
    \/ /\ Freezable({path}) = {}
       /\ stopped' = stopped \cup procs
       /\ UNCHANGED frozen

\* freeze_app: the group if that works, else every process.
FreezeApp(path, procs) ==
    \/ /\ Freezable({path}) # {}
       /\ frozen' = frozen \cup {path}
       /\ UNCHANGED stopped
    \/ /\ Freezable({path}) = {}
       /\ stopped' = stopped \cup (procs \cap Alive)
       /\ UNCHANGED frozen

\* Mutant: thawing takes the same single route as freezing.
ThawOneRoute(G, procs) ==
    /\ frozen' = (frozen \ Freezable(G)) \cap dirs'
    /\ stopped' = IF Freezable(G) # {} THEN stopped ELSE stopped \ procs

\* thaw_app, for several applications at once: through both routes.
ThawApp(G, procs) ==
    /\ frozen' = (frozen \ Freezable(G)) \cap dirs'
    /\ stopped' = stopped \ procs

\* What the report of an operation on procs counts as applied, whichever
\* route it took.
Applied(procs) == procs \cap Alive

\* set_cpu_max refuses a quota that is not a percentage.
QuotaLands(q) == q # None /\ q \in 1..100

\* The group on which a cpu control of the profile lands, if any.
CpuApplied(a) ==
    IF Profile[a].weight \/ QuotaLands(Profile[a].quota)
    THEN CpuLands({entry[a].path}) ELSE {}

\* Mutant: a process counts as reached though nothing was applied to it.
ThrottledAnyway(a, procs) == Applied(procs)

\* apply_throttle: without a niceness a process is reached only when a cpu
\* control landed.
Throttled(a, procs) ==
    IF Profile[a].nice \/ CpuApplied(a) # {} THEN Applied(procs) ELSE {}

----------------------------------------------------------------------------
(* Groups and processes                                                    *)

Emptied(G) == {g \in Writable(G) : Members(g) = {}}

\* remove_cgroup: a group that still has members stays.
RemoveCgroups(G) == dirs' = dirs \ Emptied(G) /\ UNCHANGED home

\* Where a group taken to be g really is: systemd puts its scopes in a place
\* of its own.
Placed(g) == IF g[1] = "systemd" THEN [g EXCEPT ![3] = ScopeBase] ELSE g

\* setup_cgroup for a new entry: the group, or None.  It is taken to lie
\* below the base.  A directory that is there is used again; a scope that is
\* there makes systemd refuse.
CreateCgroup(a) ==
    LET g == <<Capabilities.tier, UnitName[a], env.base>> IN
    IF \/ Rule[a] = "ignore"
       \/ Capabilities.tier = "signal"
       \/ Capabilities.tier = "systemd" /\ Placed(g) \in dirs
    THEN None ELSE g

\* systemd moves the processes of a new scope itself.
MovesInto(g, p) == g # None /\ (g[1] = "systemd" \/ p \in Movable)

Spawn(p) ==
    /\ life[p] = "unborn"
    /\ Parent[p] # p => Parent[p] \in Alive \ Stalled
    /\ life' = [life EXCEPT ![p] = "alive"]
    /\ home' = [home EXCEPT ![p] = home[Parent[p]]]
    /\ niced' = niced \cup (IF Parent[p] \in niced THEN {p} ELSE {})
    /\ UNCHANGED <<stopped, dirs, frozen, limited, env, up, entry, rec>>

Exit(p) ==
    /\ life[p] = "alive"
    /\ life' = [life EXCEPT ![p] = "exited"]
    /\ home' = [home EXCEPT ![p] = None]
    /\ stopped' = stopped \ {p} /\ niced' = niced \ {p}
    /\ UNCHANGED <<dirs, frozen, limited, env, up, entry, rec>>

\* systemd removes a scope that has lost its last process.
ScopeCollected(g) ==
    /\ g \in dirs /\ g[1] = "systemd" /\ Members(g) = {}
    /\ dirs' = dirs \ {g} /\ frozen' = frozen \ {g} /\ limited' = limited \ {g}
    /\ UNCHANGED <<loopVars, stopped, niced, home, entry, rec>>

\* retire: an entry goes with its last process.
Retire(r, procs) == IF r.procs \subseteq procs THEN NoRecord
                    ELSE [r EXCEPT !.procs = @ \ procs]

----------------------------------------------------------------------------
(* Focus and windows                                                       *)

\* restore_app_resources for the applications of F, which are thawed and
\* retired, and of T, whose niceness and cpu controls are reset.
Restore(F, T, procs) ==
    /\ ThawApp(Paths(F), UNION {procs[a] : a \in F})
    /\ rec' = [a \in App |-> IF a \in F THEN Retire(rec[a], procs[a]) ELSE rec[a]]
    /\ niced' = niced \ UNION {procs[a] : a \in T}
    /\ limited' = (limited \ CpuLands(Paths(T))) \cap dirs'

Recordings == [a \in App |-> RecordedProcs(a)]

Backgrounded(e) ==
    IF e.state = "active" THEN [e EXCEPT !.state = OnFocusLost(@).state] ELSE e

RegisterNewApp(a, p) ==
    LET g == CreateCgroup(a) IN
    /\ a \notin Tracked
    /\ dirs' = IF g = None THEN dirs ELSE dirs \cup {Placed(g)}
    /\ home' = IF MovesInto(g, p) THEN [home EXCEPT ![p] = Placed(g)] ELSE home
    /\ entry' = [b \in App |->
                   IF b = a THEN [state |-> "active", path |-> g,
                                  roots |-> {p}, awake |-> FALSE]
                   ELSE Backgrounded(entry[b])]
    /\ UNCHANGED <<stopped, niced, frozen, limited, rec>>

\* The application is restored; a window process not seen before follows the
\* others into the group.
ActivateExistingApp(a, p) ==
    LET e     == entry[a]
        gone  == IF e.state \in Suspended THEN RecordedProcs(a) \ Alive ELSE {}
        moved == p \notin e.roots /\ p \in Movable /\ Writable({e.path}) # {}
    IN /\ a \in Tracked
       /\ UNCHANGED dirs
       /\ home' = IF moved THEN [home EXCEPT ![p] = e.path] ELSE home
       /\ Restore({a} \cap In({"frozen"}), {a} \cap In({"throttled"}), Recordings)
       /\ entry' = [b \in App |->
                      IF b = a THEN [e EXCEPT !.state = OnFocusGained(@).state,
                                              !.roots = (@ \ gone) \cup {p},
                                              !.awake = FALSE]
                      ELSE Backgrounded(entry[b])]

FocusChanged(p) ==
    /\ up /\ p \in Root \cap Alive
    /\ RegisterNewApp(Owner[p], p) \/ ActivateExistingApp(Owner[p], p)
    /\ UNCHANGED loopVars

\* The last window closes: what the journal names is restored, then the group
\* is removed.
WindowClosed(a) ==
    /\ up /\ a \in Tracked
    /\ RemoveCgroups(Paths({a}))
    /\ Restore({a} \cap In({"frozen"}), {a} \cap In({"throttled"}),
               [b \in App |-> rec[b].procs])
    /\ entry' = [entry EXCEPT ![a] = Untracked]
    /\ UNCHANGED loopVars

----------------------------------------------------------------------------
(* Suspension; the timer, its scan and its guards are those of Engine      *)

\* arm, then commit: processes carried over stay, the group is replaced.
RecordFreeze(a, group, procs) ==
    rec' = [rec EXCEPT ![a] = [procs |-> @.procs \cup procs, group |-> group]]

SuspendByFreeze(a, procs) ==
    /\ Rule[a] = "freeze" /\ procs # {}
    /\ FreezeApp(entry[a].path, procs)
    /\ RecordFreeze(a, entry[a].path, Applied(procs))
    /\ entry' = [entry EXCEPT ![a].state = "frozen"]
    /\ UNCHANGED <<niced, limited>>

\* A throttle that reaches no process leaves the application in the
\* background, with whatever limit its group has got.
SuspendByThrottle(a, procs) ==
    /\ Rule[a] = "throttle"
    /\ limited' = limited \cup CpuApplied(a)
    /\ niced' = IF Profile[a].nice THEN niced \cup Applied(procs) ELSE niced
    /\ entry' = IF Throttled(a, procs) = {} THEN entry
                ELSE [entry EXCEPT ![a].state = "throttled"]
    /\ UNCHANGED <<stopped, frozen, rec>>

Suspend(a) ==
    LET procs == Allowed(ExpandTree(a)) IN
    /\ up /\ entry[a].state = "background"
    /\ SuspendByFreeze(a, procs) \/ SuspendByThrottle(a, procs)
    /\ UNCHANGED <<loopVars, home, dirs>>

MaintenanceWake(a) ==
    /\ up /\ entry[a].state = "frozen" /\ ~entry[a].awake
    /\ UNCHANGED <<loopVars, niced, home, dirs, limited, rec>>
    /\ ThawApp(Paths({a}), RecordedProcs(a))
    /\ entry' = [entry EXCEPT ![a].awake = TRUE]

MaintenanceSleep(a) ==
    /\ up /\ entry[a].state = "frozen" /\ entry[a].awake
    /\ FreezeApp(entry[a].path, RecordedProcs(a))
    /\ entry' = [entry EXCEPT ![a].awake = FALSE]
    /\ UNCHANGED <<loopVars, niced, home, dirs, limited, rec>>

----------------------------------------------------------------------------
(* Clients and the sweep                                                   *)

\* A manual freeze is by signal, and its record names no group.
IpcFreeze(a) ==
    LET procs == Allowed(RecordedProcs(a) \cap Alive) IN
    /\ up /\ "freeze" \in Commands /\ procs # {}
    /\ stopped' = stopped \cup procs
    /\ RecordFreeze(a, None, procs)
    /\ UNCHANGED <<loopVars, niced, home, dirs, frozen, limited, entry>>

\* A manual thaw is by signal too.
IpcThaw(a) ==
    LET procs == RecordedProcs(a) \cap Alive IN
    /\ up /\ "thaw" \in Commands /\ RecordedProcs(a) # {}
    /\ stopped' = stopped \ procs
    /\ rec' = [rec EXCEPT ![a] = Retire(@, procs)]
    /\ entry' = [entry EXCEPT ![a] = IF a \in Tracked
                   THEN [@ EXCEPT !.state = "background", !.awake = FALSE] ELSE @]
    /\ UNCHANGED <<loopVars, niced, home, dirs, frozen, limited>>

AllRecorded == UNION {rec[a].procs : a \in App}

\* release_recorded_processes: everything recorded is continued and retired.
ReleaseRecorded ==
    /\ stopped' = stopped \ AllRecorded
    /\ rec' = [a \in App |-> NoRecord]

IpcThawAll ==
    /\ up /\ "thawAll" \in Commands
    /\ ReleaseRecorded
    /\ entry' = [a \in App |-> IF a \in In(Suspended)
                   THEN [entry[a] EXCEPT !.state = "background", !.awake = FALSE]
                   ELSE entry[a]]
    /\ UNCHANGED <<loopVars, niced, home, dirs, frozen, limited>>

\* The sweep: dead roots go, and with the last one the application and its
\* group, if that is empty.  Dead processes leave the journal.
Sweep ==
    LET dead    == {a \in Tracked : entry[a].roots \ Alive # {}}
        defunct == {a \in dead : entry[a].roots \cap Alive = {}}
    IN /\ up
       /\ dead # {} \/ AllRecorded \ Alive # {}
       /\ RemoveCgroups(Paths(defunct))
       /\ frozen' = frozen \cap dirs' /\ limited' = limited \cap dirs'
       /\ entry' = [a \in App |-> IF a \in defunct THEN Untracked
                                  ELSE [entry[a] EXCEPT !.roots = @ \cap Alive]]
       /\ rec' = [a \in App |-> Retire(rec[a], Proc \ Alive)]
       /\ UNCHANGED <<loopVars, stopped, niced>>

----------------------------------------------------------------------------
(* The daemon ends and starts                                              *)

\* thaw_all, the groups, then what the journal still names.
Shutdown ==
    /\ up /\ up' = FALSE
    /\ RemoveCgroups(Paths(Tracked))
    /\ frozen' = (frozen \ Freezable(Paths(In({"frozen"})))) \cap dirs'
    /\ stopped' = stopped \ (AllRecorded \cup RecordedIn(In({"frozen"})))
    /\ niced' = niced \ RecordedIn(In({"throttled"}))
    /\ limited' = (limited \ CpuLands(Paths(In({"throttled"})))) \cap dirs'
    /\ rec' = [a \in App |-> NoRecord]
    /\ entry' = [a \in App |-> Untracked]
    /\ UNCHANGED <<life, env>>

\* The daemon dies; processes, groups and the journal file remain.
Crash ==
    /\ up /\ up' = FALSE
    /\ entry' = [a \in App |-> Untracked]
    /\ UNCHANGED <<life, env, stopped, niced, home, dirs, frozen, limited, rec>>

\* The groups a replay of the journal thaws.
Replayed == Writable({rec[a].group : a \in App})

\* Mutant: groups of an earlier run are left alone.
StaleIgnored(e) == {}

\* cleanup_stale_cgroups: the groups it thaws and, when empty, removes.  It
\* looks below the base of the new daemon only.
Stale(e) ==
    IF Detect(e).tier = "signal" THEN {} ELSE {g \in dirs : BaseOf(g) = e.base}

Start ==
    /\ ~up /\ up' = TRUE
    /\ env' \in Environments
    /\ RemoveCgroups(Stale(env'))
    /\ frozen' = (frozen \ (Replayed \cup Stale(env'))) \cap dirs'
    /\ limited' = limited \cap dirs'
    /\ ReleaseRecorded
    /\ UNCHANGED <<life, niced, entry>>

\* `app-powerd thaw-all' without a daemon: the replay alone.
ThawAllOffline ==
    /\ ~up /\ rec # [a \in App |-> NoRecord]
    /\ frozen' = frozen \ Replayed
    /\ ReleaseRecorded
    /\ UNCHANGED <<loopVars, niced, home, dirs, limited, entry>>

----------------------------------------------------------------------------

Init ==
    /\ life = [p \in Proc |-> IF p \in Born THEN "alive" ELSE "unborn"]
    /\ stopped = {} /\ niced = {}
    /\ home = [p \in Proc |-> None]
    /\ dirs = {} /\ frozen = {} /\ limited = {}
    /\ env \in Environments /\ up = TRUE
    /\ entry = [a \in App |-> Untracked]
    /\ rec = [a \in App |-> NoRecord]

Processes ==
    \/ \E p \in Proc : Spawn(p) \/ Exit(p)
    \/ \E g \in Group : ScopeCollected(g)

Handlers ==
    \/ \E p \in Proc : FocusChanged(p)
    \/ \E a \in App :
          \/ WindowClosed(a)
          \/ Suspend(a)
          \/ MaintenanceWake(a) \/ MaintenanceSleep(a)
          \/ IpcFreeze(a) \/ IpcThaw(a)
    \/ IpcThawAll
    \/ Sweep

Next ==
    \/ Processes
    \/ Handlers
    \/ Shutdown \/ Crash \/ Start \/ ThawAllOffline

Spec == Init /\ [][Next]_vars

----------------------------------------------------------------------------
(* Properties                                                              *)

\* Every variable has its type; processes are only in groups that exist, and
\* a group that is gone is neither frozen nor limited.
TypeOK ==
    /\ life \in [Proc -> {"unborn", "alive", "exited"}]
    /\ stopped \subseteq Alive /\ niced \subseteq Alive
    /\ home \in [Proc -> dirs \cup {None}]
    /\ dirs \subseteq Group
    /\ frozen \subseteq dirs /\ limited \subseteq dirs
    /\ env \in Environments /\ up \in BOOLEAN
    /\ entry \in [App -> Entry]
    /\ rec \in [App -> Record]

\* Whatever takes an application out of Frozen, but a crash, leaves none of the
\* processes that own its windows stopped, whichever route had stopped them
\* (system/freeze.rs, lines 62-64).  Its group is thawed as well, unless a
\* client asked, whose requests send SIGCONT alone, or all those processes
\* have exited, when nobody is there to ask.
LeavingFrozenThaws ==
    [][\A a \in In({"frozen"}) :
          entry'[a].state # "frozen" /\ ~Crash =>
          /\ entry[a].roots \cap stopped' = {}
          /\ \/ entry[a].path \notin frozen'
             \/ IpcThaw(a) \/ IpcThawAll
             \/ entry[a].roots \cap Alive = {}]_vars

\* A client's thaw-all is to "release everything the daemon has suspended"
\* (ipc_handler.rs, line 188).
ThawAllReleases == [][IpcThawAll => Stalled' = {}]_vars

\* An application becomes Throttled only if something was applied: a process
\* of it was niced, or a limit is on its group.  "Claiming otherwise would let
\* an application move to Throttled on a system with no cgroup delegation,
\* where nothing at all was applied" (system/throttle.rs, lines 55-58).
ThrottledMeansEffect ==
    [][\A a \in App :
          entry[a].state # "throttled" /\ entry'[a].state = "throttled" =>
             \/ entry[a].path \in limited'
             \/ \E p \in niced' : Owner[p] = a]_vars

\* However the daemon ended, whatever clients had made of its journal and
\* wherever the next one is started: its start continues every process that was
\* stopped by a signal, and thaws every group that the journal names or, if the
\* daemon can use groups, that lies below its own base.
RestartFreesAll ==
    [][Start => \A p \in Stalled' :
          /\ p \notin stopped'
          /\ home[p] \notin {rec[a].group : a \in App}
          /\ Detect(env').tier # "signal" => BaseOf(home[p]) # env'.base]_vars
=============================================================================
