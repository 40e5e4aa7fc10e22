# A verification of app-powerd

app-powerd is a daemon for Linux desktops that suspends applications in the
background, by SIGSTOP, the cgroup freezer, niceness or CPU quota, and resumes
them when they get the focus. This directory holds TLA+ models of its core,
configurations for TLC and proofs for TLAPS. Paths below are relative to
`crates/app-powerd-core/src/` unless they start with `crates/`.

## 1. The system

| Component | State | Operations | Correct when |
|---|---|---|---|
| Freeze journal (`state/journal.rs`) | a record per application key or `ipc:pid:N`, in memory and in a JSON file | arm, commit, retire, clear, load, recover | the file names every stopped process at any moment; nothing is forgotten while it is stopped |
| Start-up, lock, offline `thaw-all` (`crates/app-powerd/src/main.rs`, service unit) | the instance lock | take the lock, replay, run; replay without a daemon | one owner of the file at a time; a restart repairs a crash |
| State machine (`state/machine.rs`) | Active, Background, Throttled, Frozen | focus lost, focus gained, timer | - |
| Registry and entries (`state/registry.rs`, `app_entry.rs`, `process_set.rs`) | per application: state, policy, windows, root processes, two timers; a map from windows to applications | insert, remove window, remove, set and cancel timers | timers end with the entry; the map leads to tracked applications only; every tracked application has a window |
| Engine, suspension (`engine/suspend.rs`, `transitions.rs`) | failure counters, the awaiting handler | timer -> scan -> guards -> freeze or throttle; retry; maintenance wake and sleep | no suspension is forgotten; no maintenance chain breaks; state and processes agree |
| Engine, focus (`engine/focus.rs`) | - | focus, workspace, activation, window closed | focus always resumes |
| Engine, management (`engine/config_power.rs`) | enabled, power source, override, rules | reload, source changed, override, shutdown | nothing suspended while unmanaged; clean exit releases all |
| Engine, clients (`engine/ipc_handler.rs`) | - | freeze, thaw, thaw-all, override, reload, shutdown | protection binds clients too |
| Engine, sweep (`engine/reconcile.rs`) | the flag of the sweep in flight | tick, result | dead processes and applications disappear |
| Mechanism (`system/freeze.rs`, `throttle.rs`, `apply.rs`, `cgroup.rs`) | cgroup tree | freeze, thaw, throttle, with a report per process | the report says what happened |
| Process identity and tree (`system/process.rs`) | - | (pid, starttime) handles, expansion | a recycled PID is never signalled |
| Protection (`system/protection.rs`) | deny-list, session-bus owners | partition, refresh | protected processes are never stopped |
| Guards (`guards/`) | - | audio, camera, input, fullscreen | - |
| Configuration, rules (`config/`) | rules in force, the watch on the file | load, watch, match | the first matching rule decides; the last content of the file comes into force |
| Log rate limiter (`engine/rate_limit.rs`) | time of the last message per key | allow, forget | bounded, first message always logged |
| IPC server (`ipc/`) | connections, permits | accept, read with a timeout, pass on, reply | every connection ends; no more than the permits are served |
| Desktop back ends (`desktop/`) | X11: windows subscribed to; GNOME: windows of the last query, a cache of `/proc`; wlroots: attributes of the toplevels, a cache of PIDs | turn the display server's messages into focus events | the application of the focused window is active |
| Power monitor (`system/power.rs`) | source found last | poll, report a change | the engine learns of the source that stays |
| Systemd D-Bus (`system/systemd_dbus.rs`) | - | start a transient scope | - |

**Interaction.** Everything meets in `Engine::run` (`engine/mod.rs`), the only
task that touches the registry and the journal. Desktop, power monitor, clients,
timers and blocking tasks send it events through one bounded channel. Handlers
run one after another on a single-threaded runtime (`main.rs:90`). Only the
handler of a suspend timer awaits (the scan of the process tree, then the
guards); the loop takes no other event meanwhile, but processes live and die,
and timers fire. The sweep reads liveness on another thread and sends its
result as an event. The journal file is shared with the next run of the daemon
and with an offline `thaw-all`; the lock file arbitrates.

**What is hard here.** SIGSTOP outlives its sender, so crash safety rests on the
order of file writes and signals. Signals fail for single processes. PIDs are
reused. A timer's event that is already in the channel outlives the decision to
cancel it. The registry, the timers, the journal and the processes describe the
same thing four times and are changed by many handlers. `PROJECT.json` lists each
hazard at its line.

## 2. The modules

| Module | Models |
|---|---|
| `SuspendLedger` | abstract: record, then stop; never lose the record of what is stopped |
| `FreezeJournal` | journal, signals one by one, crashes, lock, replay, sweep |
| `FreezeJournalProofs` | theorems about `FreezeJournal` |
| `MCFreezeJournal` | PID assignments for TLC |
| `AppState` | the transition functions of `state/machine.rs` |
| `Engine` | the event loop: all handlers, timers, channel, policy, processes |
| `EngineProofs` | theorems about `Engine`: types, policy and management; what each handler does |
| `EngineJournalProofs` | theorems about `Engine`: journal, protection, registry, focus |
| `EngineTimerProofs` | theorems about `Engine`: timers |
| `MCEngine` | applications, process tree and configurations for TLC |
| `CgroupTier` | suspension by control groups: tiers, freezer, quotas, groups that outlive the daemon |
| `CgroupTierProofs` | theorems about `CgroupTier` |
| `MCCgroupTier` | applications, processes and environments for TLC |
| `Rules` | first match, profiles, defaults, and the deny-list on top: what a window's policy is |
| `WindowTracking` | three desktop back ends, the focus channel, registry and window map, the sweep |
| `WindowTrackingProofs` | theorems about `WindowTracking` |
| `MCWindowTracking` | windows, programs, PIDs and configurations for TLC |
| `SuspendTimer` | one application's way to its suspension, with a clock |
| `SuspendTimerProofs` | theorems about `SuspendTimer` |
| `MCSuspendTimer` | policies for TLC |
| `EventChannel` | the bounded channel between all senders and the engine; clients, watch, signals, power monitor |
| `EventChannelProofs` | theorems about `EventChannel` |
| `MCEventChannel` | clients and plans of outside events for TLC |

`Engine`, `CgroupTier` and `SuspendTimer` extend `AppState`, `WindowTracking` extends
`Rules`. Each of the modules about the engine has the handlers as far as they
touch what the module is about: `Engine` timers, policies, management and
processes; `CgroupTier` groups and restarts; `WindowTracking` windows and the
registry; `SuspendTimer` time; `EventChannel` what is between the senders and the
handlers. The product is out of TLC's reach.

### FreezeJournal

A handle (pid, starttime) identifies a process for ever, so handles are the
members of `Proc`, and `PidOf` gives the PID; two members with one PID are two
processes in succession. `mem` and `disk` are the journal in memory and on disk.
A handler is cut into steps wherever a crash makes a difference: `Expand`,
`Arm`, one `StopOne` per signal, `Commit`; `Thaw`, one `ContOne` per signal,
`Retire`; `ReleaseAll` .. `ReleaseEnd` for `thaw-all` and `ReleaseAll` ..
`ShutdownEnd` for the graceful exit; `SweepStart`, `SweepResult` and
`SweepRetire` for the sweep, between which other handlers run; `Start` or
`ThawAllOffline`, `ContOne` and `ReplayEnd` for a replay. `Crash` kills whoever
holds the lock at any step. `persist` writes a temporary file, syncs and
renames it, so a write changes the whole file or nothing. `StopOne` and
`ContOne` may be refused for the members of `Refusers`.

`holder` is both the lock and the phase of its holder. What the engine decides
(which processes, when) is left open: `Expand(k, S)` takes any live processes.

### Engine

One action per handler. Since the loop is sequential, a handler is atomic,
except the suspend timer's: `DropSuspendTimer`, `PostponeSuspend` or `ScanTree`
first, then `GuardsBlock` or `Suspend`, while `pending` holds what the handler
carries over its awaits. Events from outside are handled where they arrive
(any order, any time the loop is idle); `queue` holds the events of timers,
which have been sent and can no longer be aborted. A timer that has not sent
yet is the flag `timer` or `maint` of its entry; the tasks of a removed entry
are `stray`.

Abstractions, each a restriction on what the results below say:

- No clock. A running timer may fire at any time. `resume_grace` and
  `min_suspend` are nondeterministic; `GraceMayHold` allows the first.
- The tier of signals and niceness. Groups and quotas are in `CgroupTier`.
- A configuration is a policy (action, maintenance) per application.
- An application closes its last window only; every window has a PID that can
  be identified; PIDs are not reused (`FreezeJournal` covers that).
- The journal is the one in memory. A failing write matters for `arm` only.
- Lowering a niceness succeeds for one's own processes. (Without the right
  resource limit the kernel refuses; the code ignores that.)
- The deny-list is constant, the session-bus tier is left out.
- An attempt counter stops at its limit; at most one stray task of each kind
  and application is kept.

### CgroupTier

`dirs`, `frozen` and `limited` are the groups that exist, are frozen, and carry a
CPU limit; `home` gives the group of each process. `Stalled` is what does not
run, by SIGSTOP or by its group. `Detect` is `CgroupManager::new`: a subtree the
daemon may write (`direct`), else transient scopes of systemd (`systemd`), else
signals. The environment is chosen at every start, so a restart may find another
tier than the one that froze. `FreezeApp` and `ThawApp` take the routes of
`system/freeze.rs` (the group or signals for freezing, both for thawing).
`RegisterNewApp` and `ActivateExistingApp` create the group and move window
processes; children are born in their parent's group. `rec` is the journal with
the group that an entry may name; `Start` is the replay followed by
`cleanup_stale_cgroups`.

Abstractions: a write to a group fails exactly when its directory or the file
is missing; signals are not refused; management is on; `Suspend` has no timer
and no guard in front of it.

A group has a base, the cgroup it lies below. The daemon reads its own from
`/proc/self/cgroup` when it starts (`system/mod.rs:44`, `system/cgroup.rs:84`), so the
base is a part of the environment: started by the service manager once and from a
terminal the next time, the daemon has another one. `CreateCgroup` takes a new group
to lie below the base; systemd puts its scopes below `ScopeBase`, wherever the daemon
takes them to be (`Placed`, `system/systemd_dbus.rs:77`). The paths in the registry
and in the journal are kept as they were given out; `Stale`, the clean-up at a start,
sees only what lies below the base of the daemon that starts.

### Rules

Pure operators. A match field is the set of the values that its regular
expression or name accepts, so a rule is a record of sets, over the fields it
mentions. `MatchWindow` takes the policy of the first rule that matches,
`ResolvePolicy` fills what the rule leaves open from its profile (a profile that
is not there counts as none) and then the defaults, `ProtectionVerdict` turns
the action of a protected application into ignore. Compilation of a rule that
fails is a configuration `EventChannel` calls `BadRule`.

### WindowTracking

The desktop is outside the daemon: programs start and exit, a PID is used again,
windows open, close, get the focus and move about. It tells the back end of
changes through `wire`, in order; `Tell` gives the messages that each display
server sends. A back end reads them in its own steps: X11 asks for a window's
properties, reports it and only then subscribes to its end (`X11Inform`), so that
the window can go in between; GNOME polls, compares with the windows of the last
query and keeps the answers of `/proc` by PID for ever; wlroots gets groups of the
attributes that changed. Focus events wait in `outbox` until the `channel` has
room. The engine's side is `HandleFocusChanged` with `RegisterNewApp` and
`ActivateExistingApp`, `HandleWindowClosed`, workspace and activation hints, reload
with `Rematch`, a suspension in two steps (scan, then freeze) and a sweep in two
(`sweep` holds what was read on the other thread).

Abstractions:

- Throttling, timers, guards, management and clients are `Engine`'s; the fullscreen
  flag is a guard's input and left out. A reload and a suspension may come at any
  time, up to `MaxMoves` of what the user does.
- Two FIFO channels in series are one.
- X11 with a reparenting window manager: DestroyNotify arrives only for windows
  that were subscribed to.
- The name of a process is that of its program. Of the fields a rule may ask for,
  command line and desktop file are left out.
- Window ids are not used twice. A PID is, but only after the server has closed the
  windows of its former owner, and no program gets the same PID twice.
- A wlroots `done` group is one message. A sweep that finds nothing is left out.

### SuspendTimer

Times are ages (`active_age`, `state_age`) and remaining times, capped at
`Horizon`, so that the clock needs no end. `Tick` passes time, and only when
nothing that can happen now is waiting for it. `Fire` sends a timer's event;
`Handle` takes events in order of arrival while the loop is idle; a suspension
takes up to `Away` ticks, and ends in `GuardsBlock`, `Passes`, `Succeeds` or
`Fails`. Each timer and its event is marked as of the schedule in force or of a
former one: replaced, cancelled, or of an entry that is gone (`stray`).

Abstractions: one application, beside which another one's suspension may keep the
loop away; freeze for throttle; management, maintenance and the scan that finds
nothing are `Engine`'s; a second stray timer takes the place of the first. So are the
attempts that end without a retry: everything gone already
(`engine/transitions.rs:225-229`), nothing to freeze or a journal that cannot be
written (`engine/transitions.rs:125-152`). `Fails` is a real error.

### EventChannel

The daemon's runtime has one thread (`crates/app-powerd/src/main.rs:90`), so the
other tasks run only while the engine waits for an event, awaits inside the
suspend handler, or has used up the budget of its poll (`Budget`). `Send` is
`send().await`: it takes a place, or stands in line in `waiting`, in order;
`EngineSends` is the `try_send` with which the engine passes on reload and shutdown
requests to itself. A connection is accepted, read (or times out), asked about
and answered, and holds its permit meanwhile. Three ways lead to a reload, the
watch, SIGHUP and a client, and each reads the file when it runs. The monitor
polls and waits for a place before it polls again.

Abstractions: what a handler does is left out, except that a suspension awaits;
focus channel and forwarder, and power channel and forwarder, are parts of the
sender; how many edits, signals, timers and connections there are is bounded by
a plan, one of `Plans`, chosen at the start; the reply is lost only by the end of
the daemon; the file is not edited between the first load and the start of
the watch (what is missed there is missed, and `ConfigConverges` asks for a change
under the watch).

## 3. What is checked

Passing runs:

| Run | Bounds | Shows |
|---|---|---|
| `journal_keys` | 2 processes, 2 keys, 1 crash, refusals, failing writes | file covers the stopped, clean exit and replay release all, `SuspendLedger` is implemented |
| `journal_recovery` | 2 processes, 1 key, 2 crashes, fairness | a crash is repaired; sweeping never ends |
| `engine_policy` | 2 applications, 3 processes (one a helper, one protected), every action and the global switch, 2 power sources | registry, policy, management and processes agree; focus resumes |
| `engine_clients` | as above, one configuration, manual freeze, thaw, thaw-all, failing writes | nothing stopped unrecorded, protection binds clients, shutdown releases |
| `engine_timers` | 2 applications, one that refuses signals, maintenance, override, fairness | no timer chain breaks, maintenance is served |
| `windows` | 2 windows of one program, one of which tells no PID, and one of a denied program that may get the same PID in turn; 2 virtual desktops, 2 configurations, 3 back ends, fairness | the focus of identified windows is followed under X11 and GNOME, the registry is consistent, what has exited leaves, a denied program is left alone |
| `suspend_timer` | policies (delay 3, grace 2, min 1) and (3, 3, 4), retries after 1 and 2 ticks, 2 attempts, loop away up to 1 tick, 3 events in the channel | no suspension is lost, none of the schedule in force is early |
| `event_channel` | channel of 2, one permit, 2 connections (one silent), budget 2, 2 configurations and one with a bad rule, 6 plans, fairness | no request, shutdown or power change is lost, doubled or overtaken on its way; every connection ends, SIGTERM ends the daemon, the last configuration and source win |
| `cgroup_tier` | 2 applications (freeze; throttle by quota alone), 3 processes (one a helper), 5 environments below 2 bases, all client requests, crashes without limit | who leaves Frozen (but by a crash) has no window process left stopped, and no frozen group unless a client asked or they had all exited; a throttle has an effect, a start frees what is stopped, recorded or below its base |

The bounds are small but let each case occur. Two applications give one that has the
focus and one that has not, and two journal records. Three processes give a partial
failure and a helper that outlives its window's process; the proofs, which hold for any
assignment of PIDs, cover successors of a PID. A channel of one place is full after one
event. Two attempts give a retry and a give-up. Two crashes give a crash during the
recovery from a crash. The environments are a delegated subtree, the same without
controllers, systemd alone below that base and below another one (so that scopes are
where they are taken to be, or not), and neither; each may follow each. In `windows` the denied program's window may
get the PID of the first window after its close was sent and before it is handled; two
moves give a change of focus and back, or a reload and a change of focus. The policies
of `suspend_timer` have one that the grace period holds back to the last tick and that
`min_suspend` postpones beyond the delay, and one that both let pass. A channel of two
has room for a request and for what the engine sends to itself while it handles it, or
not. CHECK_DEADLOCK is off for the engine, which stops after `Shutdown`, for
`CgroupTier`, where all processes may have exited, for `WindowTracking`, where all
programs may have exited and every move been made, and for `EventChannel`, which ends
with the daemon or its plan. `FreezeJournal` and `SuspendTimer` never stop.

`FrozenWillWake` and `BackgroundWillSuspend` are about timers alone:
`engine_timers` has no failing write, no scan timeout and no reload, since
each of these does lose the timer (see the list below).

`NothingLost` supposes what the two policies of the run have: `suspend_delay` is no
shorter than `resume_grace`. (With a shorter delay the only timer fires within the
grace period and is dropped.) `NotEarly` is about the schedule in force, not about
left-over events (see the list below).

`ConfigConverges` supposes that no reload by SIGHUP stands in line while the file holds
something else than in the end; TLC finds the counterexample without it.

`DeniedIsIgnored` is about the moments at which a policy is resolved, registration and
reload. An activation resolves nothing, and TLC finds a denied window in an application
that is to be frozen when the statement is made about every state (see below). It leaves
GNOME out, whose cache goes wrong by design.
`FocusFollowed` leaves out wlroots, for which `wlr_focus` shows that it is false, and
windows without a PID beside windows of the same application that have one
(`Identified`). Such a window adds no process to the application; when the processes of
its other windows have exited the application counts as defunct, and is retired while the
window without a PID has the focus (`engine/reconcile.rs:124-126`). TLC finds that
without the hypothesis. It is at odds with `state/app_entry.rs:196-198`, "an
identification gap ... removing it would lose a window we are still tracking": the code
guards an application that never learned a PID, not one that learned some.

`LeavingFrozenThaws` says less of clients' requests: they leave no window process stopped
by a signal, but they do not thaw the group. `thaw_all` shows that this contradicts what
the code says of `thaw-all`; a manual thaw does the same (`engine/ipc_handler.rs:156`).
Nor is a group thawed when the sweep retires an application of which no window process
is left; its helpers stay frozen (see the list below). A crash thaws nothing, of course;
that is for the next start.

`RestartFreesAll` says what the next start frees: whoever is stopped by a signal, without
condition; the groups that the journal names, in any environment; and, if the daemon can
use groups, every group below its own base. What may stay frozen is in a group that no
record names and that is below another base, or for which a daemon without a tier looks
nowhere. TLC reaches that state (see the list below).

**Fairness.** `FreezeJournal!FairSpec`: a handler that has started goes on (weak);
the service manager restarts a daemon that was killed (weak, `Restart=on-failure`);
ticks of the sweep recur (strong, since the loop is not idle all the time) and a
sweep infinitely often reports all that had exited. `Engine!FairSpec`: a running
maintenance timer fires (strong: a full channel hands its places to waiting senders in
order of arrival); the loop handles what timers sent (weak). Nothing is assumed of
suspend timers and of the sweep, which `MaintenanceServed` does not need.
Nothing is assumed of the user, clients or processes. Nor does fairness force a
suspension: guards may block for ever.

`WindowTracking!FairSpec` is weak fairness of `Progress`: the back end's loop, the
forwarding task, the engine's loop and the sweep's interval go on, and the display
server closes the windows of a program that has exited. Windows, programs, users and
suspensions are not fair. `EventChannel!FairSpec` is weak fairness of its `Progress`,
all tasks of the daemon together; since each plan leaves each of them finitely much
to do, none can keep another from its turn for ever. Timers, signals, edits,
power changes and clients are not fair, except that a client's connection is its
server's business once made.

### Disagreements between code and comments

Runs that expect a violation, each quoted in `PROJECT.json` under `findings`:

| Run | What happens |
|---|---|
| `journal_recycled_pid` | `retire` goes by PID: a sweep result drops the record of the PID's new owner |
| `thaw_all` | `thaw-all` is to "release everything the daemon has suspended", but sends SIGCONT alone: a frozen group stays frozen, its record goes, and focus does not thaw a Background application |
| `wlr_focus` | wlroots sends only attributes that changed; what is missing is taken to be empty, so a window that gets the focus back is taken for another application |

Further places where the code and a comment part, or where a reader might expect
something else. The models have them as the code has, unless said otherwise; no run is
spent on them.

- Un-throttling reaches the roots only, since a throttle is not in the journal;
  helpers keep their niceness (`engine/transitions.rs:360`).
- At the end of a maintenance window a protected root may be stopped, when the sweep
  has emptied the record (`engine/suspend.rs:202`, against `engine/focus.rs:81-84`).
- Processes outside the frozen group count as suspended (`system/freeze.rs:26`,
  against `system/apply.rs:34-36`).
- A clean shutdown releases what the registry does not know by SIGCONT alone; a helper
  in the frozen group of a retired application stays frozen
  (`engine/ipc_handler.rs:239`, against `engine/config_power.rs:204-205`).
- A reload by SIGHUP that has read the file and waits for a place may be overtaken by
  a later one: the engine may free two places in one poll, of which one is kept for
  who waits and the other goes to who runs first (`crates/app-powerd/src/main.rs:521`).
- With a full channel a shutdown request is dropped, and the client is told that it
  was scheduled (`engine/ipc_handler.rs:85`). The reply to a shutdown that is
  carried out is normally never written: the runtime ends with the engine.
- A window without a PID that comes under a tracked application's name adds no
  process; the application is retired when its other processes are gone, also while
  that window has the focus (`engine/reconcile.rs:124`, against
  `state/app_entry.rs:196-198`). A later window of a tracked application is not in
  the window map, so that its close is ignored (`engine/focus.rs:68`,
  `state/registry.rs:46`).
- A window that comes under a tracked application's name does not change its policy: only
  registration and reload ask whether it is denied (`engine/focus.rs:85`). When a denied
  program exits and its PID goes to another one before its focus event is handled, the
  application is registered to be frozen, and the denied program's next window joins it.
  The filter in front of a suspension still spares its process.
- GNOME's cache of executables goes by PID and is never cleared: a recycled PID has
  its former owner's name (`desktop/wayland/gnome.rs:183`).
- An event that is in the channel when a reload or a loss of focus sets a new timer
  suspends early, and a postponement by it replaces the longer timer
  (`engine/suspend.rs:44`). Freezing leaves a timer that was set meanwhile running, and
  a thaw by focus does not cancel it. Retries of a blocked suspension go on while the
  application is active, and may freeze it one retry after it has lost the focus
  (`engine/suspend.rs:114`).
- A sweep of the session bus that runs out of its budget replaces the known owners by
  those it got to (`system/protection.rs:241`, against `engine/reconcile.rs:207-209`,
  which keeps the previous set when the bus cannot be reached). The time of a
  single call is not bounded by the budget. (Read, not modelled.)
- A reload that turns maintenance on for a frozen application starts no maintenance
  timer (`engine/config_power.rs:69`).
- A replay removes the file although a process could not be continued
  (`state/journal.rs:449`).
- An application that lost its last root to a failed suspension is never retired,
  since the sweep reports dead roots only (`engine/reconcile.rs:68`,
  `engine/transitions.rs:226`).
- A reload from ignore to freeze starts no timer for a background application
  (`engine/config_power.rs:114`, against 33).
- A protected process in a frozen group stalls with it (`system/freeze.rs:25`).
- An application that is retired while its frozen group still holds a helper and
  is then started again is moved into the frozen group (`engine/reconcile.rs:151`).
- Arming an entry replaces the group it names, so after a manual freeze a replay may
  not know a frozen group (`state/journal.rs:191`). `thaw-all` without a daemon then
  leaves it frozen, and so does a daemon that is started below another base, whose
  clean-up looks below its own (`system/cgroup.rs:294`). The same holds where a client's
  thaw has retired the record before the daemon ended.
- `commit` drops the record of a process left stopped by a partial thaw when the
  next freeze cannot signal it (`state/journal.rs:232`, against 207-210).
- Closing the window of a throttled application restores nothing, because the
  entry is gone when its processes are looked up (`engine/focus.rs:225`).
- `thaw-all` and a manual thaw mark a throttled application as Background and
  leave its niceness raised (`engine/ipc_handler.rs:198`).
- Closing the last window leaves the timers of the entry running
  (`engine/focus.rs:211`, against `state/registry.rs:36-38`).
- A failed journal write, and a scan that times out, end the attempts to suspend
  (`engine/transitions.rs:151`, `engine/suspend.rs:78`).
- Management off makes every suspended application Active
  (`engine/config_power.rs:171`, against `state/machine.rs:9`).
- An application with action ignore gets a suspend timer, whose event is dropped
  (`engine/transitions.rs:51`, against `engine/focus.rs:82`).

## 4. What is proved

### The journal

`FreezeJournalProofs`, for every set of processes and keys, every assignment of
PIDs, any number of crashes:

- `TypeCorrect`: the type invariant.
- `NothingStoppedUnrecorded`: the file names every stopped trusted process.
- `ShutdownReleasesAll`, `ReplayReleasesAll`: a clean exit and a replay end
  with no trusted process stopped.
- `JournalImplementsLedger`: `FreezeJournal` implements `SuspendLedger`.

The only assumption is `JournalAssumption` on the constants. *Trusted* processes
are those that never refuse a signal and whose PID is never inherited; for the
others it is false (`journal_recycled_pid` for inherited PIDs, the list in section 3 for
refused signals).

`StoppedIsRecorded` is not inductive. A commit keeps a record only because each stopped
process that was planned is done or still to do; a write of memory to the file is
harmless only because memory covers what is stopped (`MemoryCovers`) although an earlier
write may have failed; removing the file at the end of a replay or shutdown is right
only because what is still stopped is among what is still to be continued
(`ReplayPhaseOK`, `ReleasePhaseOK`); retiring after a thaw or a sweep is right because
what is retired runs or is dead (`ContPhaseOK`, `SweepPhaseOK`). `IInv` is the
conjunction. TLC checks it as an invariant (`journal_keys`), `IInvInvariant` proves it;
the proof has one lemma per action, over lemmas on what the journal's operations keep
(`ArmKeeps`, `CommitKeeps`, `RetireKeeps`, `ReplaceKeeps`).

### The engine

For every set of applications and processes, every process tree, deny-list,
configurations, channel capacity and limit of attempts; `EngineAssumption` is the
assumption on the constants.

`EngineProofs` first says what each of the engine's operations does to one entry
(`SetTimerEffect`, `UntrackedEffect` ...), to the sets of processes and to the journal, and
gathers in `Quiet` the handlers that change no application's state; the later modules cite
these lemmas rather than the handlers. Its theorems have no hypothesis:

- `TypeCorrect`: the type invariant, with the bounds of channel, attempts and strays.
- `UnmanagedRunsFree`: while management is off no application is held suspended.
- `IgnoredRunsFree`: no application is suspended whose policy in force is ignore.

Neither of the latter is inductive: a suspension that awaits its guards has looked at
management and policy before. `PendingWanted` adds that its application is still tracked and
still not ignored, which holds because nothing else is handled while it awaits.

`EngineJournalProofs`:

- `NothingStoppedUnrecorded`, `ProtectedKeepRunning`, `ShutdownLeavesNothingStopped`: if
  `WakersUnprotected`, every stopped process is on record, no protected process is stopped,
  and a shutdown leaves none stopped.
- `RegistryTellsTheTruth`, `FocusAlwaysResumes`: if also `RegistryAlone`, only frozen
  applications have stopped window processes, and the focus handler leaves none stopped.

`JournalInv` joins the three statements: what is stopped is recorded because what is
stopped takes signals (`RefusersRun`) and because records hold nothing protected
(`RecordsAllowed`), so that what a sleep stops again is on record; what a sweep forgets is
dead (`FoundDead`). `TruthInv` relates journal and registry for the last two: records are of an
application's own processes, what is stopped belongs to a frozen entry, and so does what a
maintenance sleep would stop.

The hypotheses are what the statements need; TLC has a counterexample without each:

- `WakersUnprotected`: no application with maintenance has a window of a protected
  process. Otherwise the recorded process exits, the sweep empties the record, and the sleep
  falls back to the roots, the protected one among them, and writes no record
  (`engine/suspend.rs:202`; the comment at 198-201 takes the record to be there).
- `RegistryAlone`: no client freezes by hand (the registry is not told), and no journal
  write fails where there is maintenance (the armed record of a failed write stays, and a
  later sleep stops what it names).

`EngineTimerProofs`:

- `ChainNeverBreaks`: `FrozenWillWake`, if a reload does not change who is woken
  (`MaintenanceFixed`; a reload that turns maintenance on starts no timer).
- `SuspensionNeverForgotten`: `BackgroundWillSuspend`, if a reload does not change who is
  ignored (`IgnoreFixed`, which starts no timer either), the windows of an application are
  all protected or none is (`UniformProtection`: a reload goes by the last window, and
  may so turn ignore into freeze), and none of the things happens that end a suspension
  without another timer (`Undisturbed`: a failed scan, a failed write, an event within the
  grace period, a client's thaw). TLC has a counterexample for each of them.

The invariants say where the next step of each waiting application is: `Chained` for the
wakes, `WaitersBacked` for the suspensions, with the one that awaits its guards among
the places. `EventKept` says that an event leaves the channel for its handler only. The
run `engine_timers` satisfies all hypotheses, `engine_clients` and `engine_policy` those
of the theorems on their properties.

### Control groups

`CgroupTierProofs`, for every set of applications, environments and bases, any number of
crashes, every profile and deny-list:

- `TypeCorrect`: the type invariant; it takes `HomesAlive`, that only the living are in groups,
  so that a group without members can be removed.
- `NoThrottleWithoutEffect`: `ThrottledMeansEffect`.
- `StartReleasesAll`: `RestartFreesAll`, for every sequence of environments and bases.
- `FrozenAlwaysThawed`: `LeavingFrozenThaws`, for every step that takes an application
  out of Frozen: focus, close, shutdown, the sweep, and clients' requests with what they
  leave out.

Both suppose that no application to be frozen has a protected window process
(`FreezersUnprotected`). The counterexample without it is the maintenance sleep above: the
protected process is stopped, and no record names it.

`GroupInv` says that what is frozen below the base of the daemon that runs it can thaw
(`Thawable`), that applications have groups of its tier and base only (`OfTier`), and that
without a tier nobody has one; `RecordInv` that the record of a frozen application covers
its living window processes, and all records together what is stopped.

### Windows

`WindowTrackingProofs`, for every set of windows, programs, PIDs, desktops and
configurations, every back end, and any bounds:

- `TypeCorrect`: the type invariant, with the capacity of the channel.
- `RegistryStaysConsistent`: the window map leads to tracked applications that hold
  the window, and no entry is without windows.
- `AtMostOneActive`: at most one application is active.

The inductive invariant adds one conjunct, `ScanTracked`: the application whose
suspension is under way is tracked. Without it the second half of a suspension, which
writes the entry it looked up before, could bring an entry back that has no
window. The assumptions are `WindowAssumption`, `ConfigAssumption` (every
configuration names a default action) and `NoneAssumption`.

- `DeniedNeverManaged`: `DeniedIsIgnored`, without a hypothesis.

It needs that what the daemon is told is true: a window's PID is not another program's
while the window is open (`OwnProcess`), and what is in the wire, the outbox, the
channel (`ToldTrue`) and the entries (`KeptTrue`) says of a window only what is so. A
recycled PID makes the second false under GNOME, which the statement leaves out.

### The timer

`SuspendTimerProofs`, for every set of policies, all limits, intervals and bounds:

- `TypeCorrect`: the type invariant; in particular remaining times stay within the
  horizon, through back-off, postponement and the passing of time.
- `NoSuspensionEarly`: `NotEarly`, for any policies.
- `NoSuspensionLost`: if all policies freeze and none has a `resume_grace` longer than
  its `suspend_delay` (`Timely`), `NothingLost` always holds.

`NothingLost` is not inductive: it counts a timer that the grace period will swallow
as one that is coming. `Assured` says what is really coming: the application was given
up, or a suspension is under way, or its timer ends after the grace period
(`Outlasts`), or the grace period is over and an event is in the channel. Time keeps
`Outlasts`, because the age grows as the remaining time shrinks; a timer that fires
moves to the last case; every schedule sets at least the grace period, or is
set when the period is over. The assumptions are `TimingAssumption` and
`NoneAssumption`. `NoSuspensionEarly` needs no `Timely`.

`NotEarly` follows from `InTime`: while the application is in the background, the timer
of the schedule in force leaves at least what is missing to the shortest delay, and its
event, or the suspension that it began, has waited that long. A schedule marks what is
under way as former when it replaces it; cancelling alone would not do, since a timer
that has fired cannot be cancelled.

### The channel

`EventChannelProofs`, for every number of connections, every capacity, budget and plan, without
hypotheses:

- `TypeCorrect`: the type invariant, with the capacity and the permits.
- `NoRequestLost`: a request is in the channel or in line exactly once until it is answered.
- `NoShutdownLost`: so is a `Shutdown`, at least once, from SIGTERM or the end of the desktop
  until the engine ends.
- `NoFindingOvertaken`: the engine goes by the monitor's last finding or will.

`IInv` restates them by channel and line apart, since a step moves events from one to
the other: `RequestsOnce`, `ShutdownOn`, `FindingsLast` (at most one finding is in line,
and it is newer than those in the channel, because the monitor waits for its place),
with `BacklogWaits` (who waits to be accepted waits once) and `AskKnown`.

## 5. Not modelled

- The session-bus tier of protection and its refresh (`system/protection.rs`,
  `engine/reconcile.rs:199`): the models have the deny-list.
- The log rate limiter, metrics and errors: no decision reads what they keep.
- Detection by the guards (audio, camera, input, fullscreen), the systemd bus, the
  enabling of controllers, `/proc` and `sysfs`: I/O, whose results are inputs.
- YAML, JSON, IPC framing, the command line, window titles: formatting.
- A back end that cannot connect or loses its connection: the daemon then ends, which
  `EventChannel` has as the desktop that is gone.
- A journal file that cannot be parsed: it is written atomically, so this takes a
  defective disk or another program.

Model-checked only: liveness, which is out of the prover's reach (`CrashIsRepaired`,
`CorpsesAreRetired`, `MaintenanceServed`, `FocusFollowed`, `ExitedLeave`,
`ConnectionsEnd`, `SignalEnds`, `ConfigConverges`, `PowerConverges`), and what happens
to the processes that share a PID. Every invariant and every action property of the
passing runs is proved.

## 6. Plan

Done: the journal, the engine, the groups, windows and registry, rules, the timer and the
channel, each with its proofs. Next:

1. An abstract specification of the engine (what a user is promised of one application),
   and `Engine` shown to implement it.
2. The safety core of `ConfigConverges`: the last content read is the last in line,
   but for the reload by SIGHUP.
3. `CgroupTier`: an application protected in part, refused signals beside missing
   groups, and two applications that share a group.
4. Protection with the refreshed session-bus owners.
5. `FrozenWillWake` with reloads that switch maintenance on.
