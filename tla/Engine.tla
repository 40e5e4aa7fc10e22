------------------------------- MODULE Engine -------------------------------
(***************************************************************************)
(* The engine (engine/*.rs): one event loop that owns the registry, the    *)
(* timers, the power policy and the in-memory journal.  Each handler is    *)
(* one action, because the loop takes one event at a time; the handler of  *)
(* a suspend timer awaits twice and is therefore three (scan, then blocked *)
(* or suspended), between which processes die and timers fire.             *)
(*                                                                         *)
(* There is no clock: a running timer may fire at any time, after which    *)
(* its event waits in the channel and can no longer be aborted.  Events    *)
(* from outside are handled where they arrive; the channel holds what the  *)
(* timers sent.  Suspension is by signal and niceness (the tier without a  *)
(* cgroup), every window has a PID, and an application closes its last     *)
(* window only.  FreezeJournal covers the file and single signals.         *)
(***************************************************************************)
EXTENDS AppState, Naturals, Sequences

CONSTANTS
    App, Proc, None,
    Owner,          \* [Proc -> App], the application a process belongs to
    Parent,         \* [Proc -> Proc]; a process that owns windows is its own
    Born,           \* processes running when the daemon starts
    Protected,      \* processes on the built-in deny-list
    Refusers,       \* processes of another user: signals fail with EPERM
    Configs,        \* configurations a reload may bring
    Sources,        \* power sources the monitor may report
    Overrides,      \* power overrides a client may set
    Commands,       \* requests a client may make, beside the override
    Capacity,       \* ENGINE_CHANNEL_CAPACITY
    MaxAttempts,    \* MAX_SUSPEND_ATTEMPTS
    PersistMayFail, \* the journal file may be unwritable
    ScanMayFail,    \* the scan of the process tree may time out
    GraceMayHold    \* resume_grace may still run when a suspend timer fires

Actions == {"ignore", "throttle", "freeze"}
Policy  == [action : Actions, maintenance : BOOLEAN]
Config  == [enabled : BOOLEAN, ac : BOOLEAN, battery : BOOLEAN,
            rules : [App -> Policy]]
Root    == {p \in Proc : Parent[p] = p}
Key     == App \cup Proc    \* an application, or "ipc:pid:N"
Kinds   == {"suspend", "wake", "sleep"}

ASSUME EngineAssumption ==
    /\ Owner \in [Proc -> App] /\ Parent \in [Proc -> Proc]
    /\ \A p \in Proc : Parent[p] \in Root /\ Owner[Parent[p]] = Owner[p]
    /\ App \cap Proc = {}
    /\ None \notin Proc \cup [app : App, procs : SUBSET Proc]
    /\ Born \subseteq Proc /\ Protected \subseteq Proc /\ Refusers \subseteq Proc
    /\ Configs \subseteq Config /\ Configs # {}
    /\ Sources \subseteq {"ac", "battery", "unknown"}
    /\ Overrides \subseteq {"auto", "ac", "battery"}
    /\ Commands \subseteq {"freeze", "thaw", "thawAll"}
    /\ Capacity \in Nat \ {0} /\ MaxAttempts \in Nat \ {0}
    /\ {PersistMayFail, ScanMayFail, GraceMayHold} \subseteq BOOLEAN

VARIABLES
    (* the operating system *)
    life,       \* [Proc -> {"unborn", "alive", "exited"}]
    stopped,    \* processes stopped by the daemon
    niced,      \* processes whose niceness the daemon raised
    (* management *)
    config, source, forced,
    (* the registry, the failure counters and the journal in memory *)
    app,        \* [App -> Entry]
    failures,   \* [App -> 0..MaxAttempts], suspend_failures
    rec,        \* [Key -> SUBSET Proc]
    (* the loop *)
    up,         \* FALSE once Shutdown was handled
    queue,      \* timer events sent and not yet handled
    stray,      \* timer tasks that outlived their entry, <<kind, app>>
    pending,    \* the suspend-timer handler that awaits, or None
    found       \* the result of the sweep in flight, or None

osVars    == <<life, stopped, niced>>
powerVars == <<config, source, forced>>
bookVars  == <<app, failures, rec>>
loopVars  == <<up, queue, stray, pending, found>>
vars      == <<life, stopped, niced, config, source, forced, app, failures,
               rec, up, queue, stray, pending, found>>

Entry == [state : States \cup {"untracked"}, policy : Policy,
          win : Root \cup {None}, roots : SUBSET Root,
          timer : BOOLEAN, maint : {"off", "wake", "sleep"}]

Alive   == {p \in Proc : life[p] = "alive"}
Exited  == {p \in Proc : life[p] = "exited"}
Tracked == {a \in App : app[a].state # "untracked"}
In(S)   == {a \in App : app[a].state \in S}
AllRecorded == UNION {rec[k] : k \in Key}
Idle    == up /\ pending = None

----------------------------------------------------------------------------
(* An entry and its timers.  Setting a timer aborts the one before it.     *)

Untracked == [state |-> "untracked",
              policy |-> [action |-> "ignore", maintenance |-> FALSE],
              win |-> None, roots |-> {}, timer |-> FALSE, maint |-> "off"]

SetState(e, s)        == [e EXCEPT !.state = s]
SetSuspendTimer(e)    == [e EXCEPT !.timer = TRUE]
CancelSuspendTimer(e) == [e EXCEPT !.timer = FALSE]
SetMaintenance(e, k)  == [e EXCEPT !.maint = k]
CancelAllTimers(e)    == [e EXCEPT !.timer = FALSE, !.maint = "off"]

\* The built-in deny-list overrides what the rules say of the last window.
ResolvedPolicy(c, a, w) ==
    IF w \in Protected THEN [c.rules[a] EXCEPT !.action = "ignore"]
                       ELSE c.rules[a]

NewEntry(a, p) ==
    [Untracked EXCEPT !.state = "active", !.win = p, !.roots = {p},
                      !.policy = ResolvedPolicy(config, a, p)]

----------------------------------------------------------------------------
(* Management                                                              *)

ShouldManage(c, s, f) ==
    /\ c.enabled
    /\ LET effective == IF f = "auto" THEN s ELSE f IN
       /\ effective = "ac" => c.ac
       /\ effective = "battery" => c.battery

Managing == ShouldManage(config, source, forced)

----------------------------------------------------------------------------
(* Processes and the journal                                               *)

\* The live tree below the roots of an application.
ExpandTree(a) == {p \in Alive : Parent[p] \in app[a].roots \cap Alive}

\* What protection lets pass of a set of processes.
Allowed(procs) == procs \ Protected

\* What is acted on without a fresh scan.
RecordedProcs(a) == IF rec[a] # {} THEN rec[a] ELSE app[a].roots

Reached(procs) == (procs \cap Alive) \ Refusers
Settled(procs) == procs \ (Alive \cap Refusers)

ArmEntry(k, procs) == [rec EXCEPT ![k] = @ \cup procs]

\* arm, the signals, then commit: of those planned only the reached remain.
ArmCommitEntry(k, procs) ==
    [rec EXCEPT ![k] = (@ \ procs) \cup Reached(procs)]

RetireEntries(F, pr) ==
    [k \in Key |-> IF k \in F THEN rec[k] \ Settled(pr[k]) ELSE rec[k]]

\* Processes the operation found dead are no roots any more.
AbsorbGone(e, procs) == [e EXCEPT !.roots = @ \ (procs \ Alive)]

\* Mutant: the applications restored are not continued.
RestoreWithoutSignal(F, T, pr) ==
    /\ niced' = niced \ Reached(UNION {pr[a] : a \in T})
    /\ rec' = RetireEntries(F, pr)
    /\ UNCHANGED <<life, stopped>>

\* restore_app_resources: the frozen applications of F are continued and
\* retired, the throttled ones of T get their niceness back.
Restore(F, T, pr) ==
    /\ stopped' = stopped \ Reached(UNION {pr[a] : a \in F})
    /\ niced' = niced \ Reached(UNION {pr[a] : a \in T})
    /\ rec' = RetireEntries(F, pr)
    /\ UNCHANGED life

\* The entry after execute_transition of a step t of AppState that suspends
\* nothing.  With management off only the state moves.
Transition(e, t, procs, on) ==
    LET acted ==
        CASE RequiresManagement(t.action) /\ ~on -> e
          [] t.action = "startSuspendTimer" /\ on -> SetSuspendTimer(e)
          [] t.action = "cancelSuspendTimer" -> CancelSuspendTimer(e)
          [] t.action \in {"removeThrottle", "thaw"} -> AbsorbGone(e, procs)
          [] OTHER -> e
    IN SetState(acted, t.state)

\* restore_to_background
ToBackground(e, procs) ==
    CancelAllTimers(SetState(AbsorbGone(e, procs), "background"))

Recordings == [a \in App |-> RecordedProcs(a)]

----------------------------------------------------------------------------
(* Processes start and exit                                                *)

Spawn(p) ==
    /\ life[p] = "unborn"
    /\ Parent[p] # p => Parent[p] \in Alive \ stopped
    /\ life' = [life EXCEPT ![p] = "alive"]
    /\ niced' = niced \cup (IF Parent[p] \in niced THEN {p} ELSE {})
    /\ UNCHANGED <<stopped, powerVars, bookVars, loopVars>>

Exit(p) ==
    /\ life[p] = "alive"
    /\ life' = [life EXCEPT ![p] = "exited"]
    /\ stopped' = stopped \ {p} /\ niced' = niced \ {p}
    /\ UNCHANGED <<powerVars, bookVars, loopVars>>

----------------------------------------------------------------------------
(* Timers                                                                  *)

\* Mutant: the channel is unbounded.
SendUnbounded(event) == queue' = Append(queue, event)

Send(event) == Len(queue) < Capacity /\ queue' = Append(queue, event)

FireSuspendTimer(a) ==
    /\ up /\ app[a].timer
    /\ Send(<<"suspend", a>>)
    /\ app' = [app EXCEPT ![a] = CancelSuspendTimer(@)]
    /\ UNCHANGED <<osVars, powerVars, failures, rec, up, stray, pending, found>>

FireMaintenance(a) ==
    /\ up /\ app[a].maint # "off"
    /\ Send(<<app[a].maint, a>>)
    /\ app' = [app EXCEPT ![a] = SetMaintenance(@, "off")]
    /\ UNCHANGED <<osVars, powerVars, failures, rec, up, stray, pending, found>>

FireStray(event) ==
    /\ up /\ event \in stray
    /\ Send(event)
    /\ stray' = stray \ {event}
    /\ UNCHANGED <<osVars, powerVars, bookVars, up, pending, found>>

\* The loop takes the next timer event.
Receive(kind, a) ==
    /\ Idle /\ queue # <<>>
    /\ Head(queue) = <<kind, a>>
    /\ queue' = Tail(queue)
    /\ UNCHANGED <<up, stray, found>>

----------------------------------------------------------------------------
(* The suspend timer                                                       *)

\* handle_suspend_timer returns early: no such application, the policy says
\* to leave it alone, or it was resumed a moment ago.
DropSuspendTimer(a) ==
    /\ Receive("suspend", a)
    /\ \/ a \notin Tracked /\ UNCHANGED app
       \/ /\ a \in Tracked /\ app[a].policy.action = "ignore"
          /\ app' = [app EXCEPT ![a] = CancelSuspendTimer(@)]
       \/ /\ a \in Tracked /\ app[a].policy.action # "ignore"
          /\ GraceMayHold /\ UNCHANGED app
    /\ UNCHANGED <<osVars, powerVars, failures, rec, pending>>

\* min_suspend has not passed yet.
PostponeSuspend(a) ==
    /\ Receive("suspend", a)
    /\ a \in Tracked /\ app[a].policy.action # "ignore"
    /\ app' = [app EXCEPT ![a] = SetSuspendTimer(@)]
    /\ UNCHANGED <<osVars, powerVars, failures, rec, pending>>

\* The tree is expanded and split by protection on a blocking thread.
ScanTree(a) ==
    /\ Receive("suspend", a)
    /\ a \in Tracked /\ app[a].policy.action # "ignore"
    /\ \E procs \in {Allowed(ExpandTree(a))} \cup
                    (IF ScanMayFail THEN {{}} ELSE {}) :
          pending' = [app |-> a, procs |-> procs]
    /\ UNCHANGED <<osVars, powerVars, bookVars>>

\* Mutant: a guard block is not retried.
GuardsBlockForGood ==
    /\ up /\ pending # None
    /\ pending' = None
    /\ UNCHANGED <<app, osVars, powerVars, failures, rec, up, queue, stray, found>>

\* A guard blocks: the timer starts anew, whatever the state.
GuardsBlock ==
    /\ up /\ pending # None
    /\ app' = [app EXCEPT ![pending.app] = SetSuspendTimer(@)]
    /\ pending' = None
    /\ UNCHANGED <<osVars, powerVars, failures, rec, up, queue, stray, found>>

\* on_suspend_failed: nothing was reached.  A real error is retried up to
\* MaxAttempts times; attempts beyond the limit behave as the last one.
SuspendFailed(a, e, procs) ==
    LET error    == procs \cap Alive \cap Refusers # {}
        attempts == failures[a] + 1
    IN \/ /\ ~error
          /\ app' = [app EXCEPT ![a] = e]
          /\ UNCHANGED failures
       \/ /\ error /\ attempts >= MaxAttempts
          /\ failures' = [failures EXCEPT ![a] = MaxAttempts]
          /\ app' = [app EXCEPT ![a] = CancelSuspendTimer(e)]
       \/ /\ error /\ attempts < MaxAttempts
          /\ failures' = [failures EXCEPT ![a] = attempts]
          /\ app' = [app EXCEPT ![a] = SetSuspendTimer(e)]

SuspendSucceeded(a, e) ==
    /\ failures' = [failures EXCEPT ![a] = 0]
    /\ app' = [app EXCEPT ![a] = e]

\* freeze_with_journal and the ApplyFreeze arm of execute_transition.  When
\* the intent cannot be written nothing is signalled or retried; what was
\* armed in memory stays armed.
Freeze(a, procs) ==
    LET e      == AbsorbGone(app[a], procs)
        frozen == SetState(e, "frozen")
    IN \/ /\ procs = {}
          /\ UNCHANGED <<stopped, bookVars>>
       \/ /\ procs # {} /\ PersistMayFail
          /\ rec' = ArmEntry(a, procs)
          /\ UNCHANGED <<stopped, app, failures>>
       \/ /\ procs # {}
          /\ stopped' = stopped \cup Reached(procs)
          /\ rec' = ArmCommitEntry(a, procs)
          /\ IF Reached(procs) = {} THEN SuspendFailed(a, e, procs)
             ELSE SuspendSucceeded(a, IF e.policy.maintenance
                                      THEN SetMaintenance(frozen, "wake")
                                      ELSE frozen)

\* The ApplyThrottle arm.  Every profile that throttles sets a niceness.
Throttle(a, procs) ==
    LET e == AbsorbGone(app[a], procs)
    IN /\ niced' = niced \cup Reached(procs)
       /\ IF Reached(procs) = {} THEN SuspendFailed(a, e, procs)
          ELSE SuspendSucceeded(a, SetState(e, "throttled"))
       /\ UNCHANGED rec

\* The guards allow: the state is looked at again, and the transition is
\* carried out if management is on.
Suspend ==
    /\ up /\ pending # None
    /\ LET a == pending.app
           t == OnSuspendTimer(app[a].state, app[a].policy.action)
       IN \/ /\ Managing /\ t.action = "applyFreeze"
             /\ Freeze(a, pending.procs) /\ UNCHANGED niced
          \/ /\ Managing /\ t.action = "applyThrottle"
             /\ Throttle(a, pending.procs) /\ UNCHANGED stopped
          \/ /\ ~Managing \/ t.action = "noOp"
             /\ UNCHANGED <<stopped, niced, bookVars>>
    /\ pending' = None
    /\ UNCHANGED <<life, powerVars, up, queue, stray, found>>

----------------------------------------------------------------------------
(* Maintenance: a frozen application wakes at an interval for a while.     *)
(* The journal keeps its entry meanwhile.                                  *)

MaintenanceWake(a) ==
    /\ Receive("wake", a)
    /\ IF app[a].state = "frozen"
       THEN /\ stopped' = stopped \ Reached(RecordedProcs(a))
            /\ app' = [app EXCEPT ![a] = SetMaintenance(@, "sleep")]
       ELSE UNCHANGED <<stopped, app>>
    /\ UNCHANGED <<life, niced, powerVars, failures, rec, pending>>

\* Mutant: the next wake is not scheduled.
MaintenanceSleepOnce(a) ==
    /\ Receive("sleep", a)
    /\ stopped' = IF app[a].state = "frozen"
                  THEN stopped \cup Reached(RecordedProcs(a)) ELSE stopped
    /\ UNCHANGED <<life, niced, powerVars, app, failures, rec, pending>>

MaintenanceSleep(a) ==
    /\ Receive("sleep", a)
    /\ IF app[a].state = "frozen"
       THEN /\ stopped' = stopped \cup Reached(RecordedProcs(a))
            /\ app' = [app EXCEPT ![a] = SetMaintenance(@, "wake")]
       ELSE UNCHANGED <<stopped, app>>
    /\ UNCHANGED <<life, niced, powerVars, failures, rec, pending>>

----------------------------------------------------------------------------
(* Focus                                                                   *)

\* background_other_active_apps
Backgrounded(e) ==
    IF e.state = "active"
    THEN Transition(e, OnFocusLost("active"), {}, Managing) ELSE e

\* A window of an unknown application gets the focus.
RegisterNewApp(a, p) ==
    /\ Idle /\ a \notin Tracked
    /\ app' = [b \in App |-> IF b = a THEN NewEntry(a, p)
                                      ELSE Backgrounded(app[b])]
    /\ UNCHANGED <<osVars, powerVars, failures, rec, loopVars>>

\* Mutant: only the entry is activated, its processes are left as they are.
ActivateEntryOnly(a, p) ==
    /\ Idle /\ a \in Tracked
    /\ app' = [b \in App |-> IF b = a THEN SetState(app[a], "active")
                                      ELSE Backgrounded(app[b])]
    /\ UNCHANGED <<osVars, powerVars, failures, rec, loopVars>>

\* A window of a tracked application gets the focus: it is restored, and the
\* process that owns the window joins the roots.
ActivateExistingApp(a, p) ==
    LET t == OnFocusGained(app[a].state)
        e == IF t.action = "noOp" THEN app[a]
             ELSE Transition(app[a], t, RecordedProcs(a), Managing)
    IN /\ Idle /\ a \in Tracked
       /\ app' = [b \in App |->
                    IF b = a THEN [e EXCEPT !.win = p, !.roots = @ \cup {p}]
                             ELSE Backgrounded(app[b])]
       /\ Restore({a} \cap In({"frozen"}), {a} \cap In({"throttled"}),
                  Recordings)
       /\ failures' = IF t.action = "noOp" THEN failures
                      ELSE [failures EXCEPT ![a] = 0]
       /\ UNCHANGED <<powerVars, loopVars>>

FocusChanged(p) ==
    /\ p \in Root \cap Alive
    /\ RegisterNewApp(Owner[p], p) \/ ActivateExistingApp(Owner[p], p)

\* pre_thaw_frozen for the applications of F: thawed, but in the background
\* with a fresh timer, as nothing was focused yet.
PreThaw(F) ==
    /\ Idle /\ Managing
    /\ F # {} /\ F \subseteq In({"frozen"})
    /\ Restore(F, {}, Recordings)
    /\ app' = [a \in App |->
                 IF a \in F
                 THEN SetSuspendTimer(ToBackground(app[a], RecordedProcs(a)))
                 ELSE app[a]]
    /\ UNCHANGED <<powerVars, failures, loopVars>>

\* The user goes to a desktop on which the windows of F are.
WorkspaceChanged == \E F \in SUBSET App : PreThaw(F)

\* A panel asks to activate a window.
ActivationRequested == \E a \in App : PreThaw({a})

\* The last window closes.  The entry is removed before it is released, so
\* only the journal names the processes; the timers are not aborted.  At
\* most one stray task of a kind is kept per application (a bound).
WindowClosed(a) ==
    LET e     == app[a]
        tasks == {<<"suspend", a>> : x \in {e.timer} \cap {TRUE}} \cup
                 {<<k, a>> : k \in {e.maint} \ {"off"}}
    IN /\ Idle /\ a \in Tracked
       /\ tasks \cap stray = {}
       /\ stray' = stray \cup tasks
       /\ app' = [app EXCEPT ![a] = Untracked]
       /\ failures' = [failures EXCEPT ![a] = 0]
       /\ Restore({a} \cap In({"frozen"}), {a} \cap In({"throttled"}), rec)
       /\ UNCHANGED <<powerVars, up, queue, pending, found>>

----------------------------------------------------------------------------
(* Management changes: reload, power source, override                      *)

\* reconcile_management over the entries es: with management off the
\* suspended applications are thawed and made active (thaw_all); when it
\* comes back, those in the background get their timer (start_management).
Reconciled(e, a, was, on) ==
    IF ~on /\ e.state \in Suspended
    THEN Transition(e, OnFocusGained(e.state), RecordedProcs(a), on)
    ELSE IF on /\ ~was /\ e.state = "background" /\ e.policy.action # "ignore"
    THEN SetSuspendTimer(e) ELSE e

\* Mutant: nothing is thawed when management goes off.
ReconcileManagementStartOnly(on) ==
    /\ app' = [a \in App |-> Reconciled(app[a], a, Managing, TRUE)]
    /\ UNCHANGED <<osVars, rec>>

ReconcileManagement(on) ==
    /\ app' = [a \in App |-> Reconciled(app[a], a, Managing, on)]
    /\ Restore(IF on THEN {} ELSE In({"frozen"}),
               IF on THEN {} ELSE In({"throttled"}), Recordings)

PowerSourceChanged(s) ==
    /\ Idle /\ s # source
    /\ source' = s
    /\ ReconcileManagement(ShouldManage(config, s, forced))
    /\ UNCHANGED <<config, forced, failures, loopVars>>

SetPowerOverride(f) ==
    /\ Idle /\ f # forced
    /\ forced' = f
    /\ ReconcileManagement(ShouldManage(config, source, f))
    /\ UNCHANGED <<config, source, failures, loopVars>>

\* Mutant: a policy of "ignore" does not restore what is suspended.
RestoredUnlessIgnored(s, action) ==
    \/ s = "frozen" /\ action = "throttle"
    \/ s = "throttled" /\ action = "freeze"

\* Whether a new action takes a suspended application back.
Restored(s, action) ==
    \/ s \in Suspended /\ action = "ignore"
    \/ s = "frozen" /\ action = "throttle"
    \/ s = "throttled" /\ action = "freeze"

\* rematch_tracked_apps for one entry.  A background application whose old
\* action was "ignore" is one of "everything else": it gets no timer.
Rematched(e, a, c) ==
    LET policy == ResolvedPolicy(c, a, e.win)
        new    == [e EXCEPT !.policy = policy]
        back   == ToBackground(new, RecordedProcs(a))
    IN CASE Restored(e.state, policy.action) ->
                IF policy.action = "ignore" THEN back ELSE SetSuspendTimer(back)
         [] e.state = "background" /\ policy.action = "ignore" ->
                CancelSuspendTimer(new)
         [] e.state = "background" /\ policy.action # "ignore"
                /\ e.policy.action # "ignore" -> SetSuspendTimer(new)
         [] OTHER -> new

\* handle_config_reload: every tracked application is matched again, then
\* management is reconciled.  An application restored by the one is in the
\* background for the other, so none is restored twice.
ConfigReloaded(c) ==
    LET on     == ShouldManage(c, source, forced)
        back   == {a \in Tracked :
                     Restored(app[a].state, ResolvedPolicy(c, a, app[a].win).action)}
        thawed == IF on THEN back ELSE In(Suspended)
    IN /\ Idle
       /\ config' = c
       /\ app' = [a \in App |->
                    IF a \in Tracked
                    THEN Reconciled(Rematched(app[a], a, c), a, Managing, on)
                    ELSE app[a]]
       /\ Restore(thawed \cap In({"frozen"}), thawed \cap In({"throttled"}),
                  Recordings)
       /\ UNCHANGED <<source, forced, failures, loopVars>>

----------------------------------------------------------------------------
(* Requests of a client.  A process of another user is no valid target.    *)

\* Targets and journal keys: an application by its recorded processes, or a
\* single process under a key of its own.
Owned(procs) == (procs \cap Alive) \ Refusers

\* Mutant: the deny-list does not bind a manual request.
IpcFreezeUnchecked(k, procs) ==
    /\ Idle /\ "freeze" \in Commands
    /\ Owned(procs) # {}
    /\ rec' = ArmCommitEntry(k, Owned(procs))
    /\ stopped' = stopped \cup Owned(procs)
    /\ UNCHANGED <<life, niced, powerVars, app, failures, loopVars>>

\* ipc_freeze: recorded before it is signalled; the registry is not told.
IpcFreeze(k, procs) ==
    LET allowed == Allowed(Owned(procs))
    IN /\ Idle /\ "freeze" \in Commands
       /\ allowed # {}
       /\ \/ /\ PersistMayFail
             /\ rec' = ArmEntry(k, allowed) /\ UNCHANGED stopped
          \/ /\ rec' = ArmCommitEntry(k, allowed)
             /\ stopped' = stopped \cup allowed
       /\ UNCHANGED <<life, niced, powerVars, app, failures, loopVars>>

\* Whatever state the application had, it is in the background afterwards.
IpcThaw(k, procs) ==
    /\ Idle /\ "thaw" \in Commands
    /\ procs # {}
    /\ stopped' = stopped \ Owned(procs)
    /\ rec' = [rec EXCEPT ![k] = @ \ Owned(procs)]
    /\ app' = [a \in App |-> IF a = k /\ a \in Tracked
                             THEN SetState(app[a], "background") ELSE app[a]]
    /\ UNCHANGED <<life, niced, powerVars, failures, loopVars>>

\* release_recorded_processes: continue what the journal names.
ReleaseRecorded ==
    /\ stopped' = stopped \ Reached(AllRecorded)
    /\ rec' = [k \in Key |-> rec[k] \ Settled(rec[k])]

\* ipc_thaw_all: driven by the journal, it does not look at niceness.
IpcThawAll ==
    /\ Idle /\ "thawAll" \in Commands
    /\ ReleaseRecorded
    /\ app' = [a \in App |->
                 IF app[a].state \in Suspended
                 THEN CancelAllTimers(SetState(app[a], "background"))
                 ELSE app[a]]
    /\ UNCHANGED <<life, niced, powerVars, failures, loopVars>>

IpcRequest ==
    \/ \E a \in App : IpcFreeze(a, RecordedProcs(a)) \/ IpcThaw(a, RecordedProcs(a))
    \/ \E p \in Owned(Proc) : IpcFreeze(p, {p}) \/ IpcThaw(p, {p})
    \/ IpcThawAll
    \/ \E f \in Overrides : SetPowerOverride(f)

----------------------------------------------------------------------------
(* The sweep                                                               *)

\* A snapshot is taken and its dead are found off the loop; a tick during a
\* sweep, or with nothing to look at, does nothing.
Reconcile ==
    /\ Idle /\ found = None
    /\ Tracked # {} \/ AllRecorded # {}
    /\ found' = [reaped |-> (UNION {app[a].roots : a \in Tracked}) \cap Exited,
                 journalDead |-> AllRecorded \cap Exited]
    /\ UNCHANGED <<osVars, powerVars, bookVars, up, queue, stray, pending>>

\* Mutant: the journal entry goes with the application.
ReconcileResultForgets ==
    /\ Idle /\ found # None
    /\ app' = [a \in App |->
                 IF app[a].roots \cap found.reaped # {}
                    /\ app[a].roots \subseteq found.reaped
                 THEN Untracked ELSE app[a]]
    /\ rec' = [k \in Key |-> IF k \in App /\ app'[k] # app[k] THEN {} ELSE rec[k]]
    /\ found' = None
    /\ UNCHANGED <<osVars, failures, powerVars, up, queue, stray, pending>>

\* Dead roots are dropped, and with the last root the application: its timers
\* are aborted and its journal entry stays.  An application none of whose
\* roots was found dead is not looked at.
ReconcileResult ==
    LET defunct(a) == /\ a \in Tracked
                      /\ \E p \in found.reaped : Owner[p] = a
                      /\ app[a].roots \subseteq found.reaped
    IN /\ Idle /\ found # None
       /\ rec' = [k \in Key |-> rec[k] \ found.journalDead]
       /\ app' = [a \in App |->
                    IF defunct(a) THEN Untracked
                    ELSE [app[a] EXCEPT !.roots = @ \ found.reaped]]
       /\ failures' = [a \in App |-> IF defunct(a) THEN 0 ELSE failures[a]]
       /\ found' = None
       /\ UNCHANGED <<osVars, powerVars, up, queue, stray, pending>>

----------------------------------------------------------------------------
(* Shutdown                                                                *)

\* Mutant: what the registry does not know is left to the next start.
ShutdownRegistryOnly ==
    /\ Idle /\ up' = FALSE
    /\ Restore(In({"frozen"}), In({"throttled"}), Recordings)
    /\ app' = [a \in App |-> CancelAllTimers(Reconciled(app[a], a, TRUE, FALSE))]
    /\ UNCHANGED <<powerVars, failures, queue, stray, pending, found>>

\* thaw_all, then the timers, then whatever the journal still names.
Shutdown ==
    /\ Idle /\ up' = FALSE
    /\ stopped' = stopped \ Reached(AllRecorded \cup
                               UNION {RecordedProcs(a) : a \in In({"frozen"})})
    /\ niced' = niced \ Reached(UNION {RecordedProcs(a) : a \in In({"throttled"})})
    /\ rec' = [k \in Key |-> rec[k] \ Settled(rec[k])]
    /\ app' = [a \in App |-> CancelAllTimers(Reconciled(app[a], a, TRUE, FALSE))]
    /\ UNCHANGED <<life, powerVars, failures, queue, stray, pending, found>>

----------------------------------------------------------------------------

Init ==
    /\ life = [p \in Proc |-> IF p \in Born THEN "alive" ELSE "unborn"]
    /\ stopped = {} /\ niced = {}
    /\ config \in Configs /\ source = "unknown" /\ forced = "auto"
    /\ app = [a \in App |-> Untracked]
    /\ failures = [a \in App |-> 0]
    /\ rec = [k \in Key |-> {}]
    /\ up = TRUE /\ queue = <<>> /\ stray = {}
    /\ pending = None /\ found = None

Timers ==
    \/ \E a \in App : FireSuspendTimer(a) \/ FireMaintenance(a)
    \/ \E event \in stray : FireStray(event)

SuspendTimer ==
    \/ \E a \in App : DropSuspendTimer(a) \/ PostponeSuspend(a) \/ ScanTree(a)
    \/ GuardsBlock
    \/ Suspend

Maintenance == \E a \in App : MaintenanceWake(a) \/ MaintenanceSleep(a)

Desktop ==
    \/ \E p \in Proc : FocusChanged(p)
    \/ WorkspaceChanged
    \/ ActivationRequested
    \/ \E a \in App : WindowClosed(a)

Next ==
    \/ \E p \in Proc : Spawn(p) \/ Exit(p)
    \/ Timers
    \/ SuspendTimer
    \/ Maintenance
    \/ Desktop
    \/ \E s \in Sources : PowerSourceChanged(s)
    \/ \E c \in Configs : ConfigReloaded(c)
    \/ IpcRequest
    \/ Reconcile \/ ReconcileResult
    \/ Shutdown

Spec == Init /\ [][Next]_vars

\* A running maintenance timer fires, also when the channel is full now and
\* then: a full channel hands its places to the waiting senders in turn.  The
\* loop takes the timers' events from the channel.  Nothing is assumed of the
\* suspend timers, of the sweep, of the user, of clients or of processes.
FairSpec ==
    /\ Spec
    /\ \A a \in App : SF_vars(FireMaintenance(a))
    /\ WF_vars(SuspendTimer \/ Maintenance)

----------------------------------------------------------------------------
(* Properties                                                              *)

\* Every variable has its type; the channel never exceeds its capacity and a
\* suspend is attempted at most MaxAttempts times in a row.
TypeOK ==
    /\ life \in [Proc -> {"unborn", "alive", "exited"}]
    /\ stopped \subseteq Alive /\ niced \subseteq Alive
    /\ config \in Configs
    /\ source \in {"ac", "battery", "unknown"}
    /\ forced \in {"auto", "ac", "battery"}
    /\ app \in [App -> Entry]
    /\ failures \in [App -> 0..MaxAttempts]
    /\ rec \in [Key -> SUBSET Proc]
    /\ up \in BOOLEAN
    /\ queue \in Seq(Kinds \X App) /\ Len(queue) <= Capacity
    /\ stray \subseteq Kinds \X App
    /\ pending = None \/ pending \in [app : App, procs : SUBSET Proc]
    /\ found = None
       \/ found \in [reaped : SUBSET Root, journalDead : SUBSET Proc]

\* Every process the daemon has stopped is in its journal, through freezes,
\* partial thaws, maintenance, sweeps, reloads and client requests, so that
\* shutdown, `thaw-all' and the next start can release it.
StoppedIsRecorded == stopped \subseteq AllRecorded

\* The registry tells the truth: only the processes of an application that is
\* in state Frozen are stopped, among those that own its windows.
OnlyFrozenStopped ==
    \A a \in Tracked : app[a].state # "frozen" => app[a].roots \cap stopped = {}

\* While management is off no application is held suspended, however it went
\* off: by a reload, the power source or the override.
UnmanagedNothingSuspended == ~Managing => In(Suspended) = {}

\* An application that the policy says to leave alone is not suspended, also
\* when the policy changed while it was or while its timer was running.
IgnoredNotSuspended ==
    \A a \in In(Suspended) : app[a].policy.action # "ignore"

EventsOf(a) == {queue[i] : i \in DOMAIN queue} \cap (Kinds \X {a})

\* A frozen application with maintenance wake-ups has its next wake or sleep
\* on a timer or in the channel: the chain of wakes never breaks.
FrozenWillWake ==
    \A a \in In({"frozen"}) :
        up /\ app[a].policy.maintenance =>
           \/ app[a].maint # "off"
           \/ EventsOf(a) \cap {<<"wake", a>>, <<"sleep", a>>} # {}

\* No suspension is forgotten: an application in the background that may be
\* suspended has a timer running or fired, or the attempts are used up, or
\* none of its processes is left.  Retries are to see to it "after a guard
\* block or transient failure" (engine/mod.rs, line 36), and a reload that
\* changes the action is to "reschedule as needed" (config_power.rs, line 33).
BackgroundWillSuspend ==
    \A a \in In({"background"}) :
        up /\ Managing /\ app[a].policy.action # "ignore" =>
           \/ app[a].timer
           \/ <<"suspend", a>> \in EventsOf(a)
           \/ pending # None /\ pending.app = a
           \/ failures[a] = MaxAttempts
           \/ app[a].roots \cap Alive = {}

\* A clean shutdown leaves no process stopped that could be continued,
\* whether the registry still knew its application or not.
ShutdownReleases == ~up => stopped = {}

\* When an application gets the focus, the processes that own its windows run
\* before the handler returns.
FocusResumes ==
    [][\A p \in Proc : FocusChanged(p) =>
          app'[Owner[p]].roots \cap stopped' = {}]_vars

\* A frozen application with maintenance does not stay stopped: it runs
\* again, at the latest when its timers have fired.  (A process that refuses
\* signals is never stopped.)
MaintenanceServed ==
    \A p \in Root \ Refusers :
        (p \in stopped /\ app[Owner[p]].policy.maintenance) ~> p \notin stopped

\* A process on the deny-list is never stopped, by no rule and no request.
ProtectedNeverStopped == stopped \cap Protected = {}
=============================================================================
