------------------------ MODULE EngineJournalProofs ------------------------
(***************************************************************************)
(* Proofs about Engine: what the daemon stops it has recorded, it never    *)
(* stops a protected process, and it leaves nothing stopped behind.        *)
(***************************************************************************)
EXTENDS EngineProofs

\* Applications that some configuration wakes for maintenance.
Wakers == {a \in App : \E c \in Configs : c.rules[a].maintenance}

\* No window of such an application belongs to a process on the deny-list.
\* Maintenance falls back to the roots when the record is empty, and it does
\* not look at protection again: see MaintenanceSleep.
WakersUnprotected == \A p \in Root \cap Protected : Owner[p] \notin Wakers

----------------------------------------------------------------------------
(* The channel as a set                                                    *)

InChannel == {queue[i] : i \in DOMAIN queue}

LEMMA SendAdds ==
    ASSUME TypeOK, NEW e \in Kinds \X App, Send(e)
    PROVE  InChannel' = InChannel \cup {e}
<1>1. queue \in Seq(Kinds \X App) /\ queue' = Append(queue, e)
  BY DEF TypeOK, Send
<1>2. /\ DOMAIN queue = 1..Len(queue) /\ Len(queue) \in Nat
      /\ DOMAIN queue' = 1..(Len(queue) + 1)
      /\ queue'[Len(queue) + 1] = e
      /\ \A i \in 1..Len(queue) : queue'[i] = queue[i]
  BY <1>1
<1>3. DOMAIN queue' = DOMAIN queue \cup {Len(queue) + 1}
  BY <1>2
<1>4. QED
  BY <1>2, <1>3 DEF InChannel

LEMMA ReceiveTakes ==
    ASSUME TypeOK, NEW kind, NEW a, Receive(kind, a)
    PROVE  InChannel = InChannel' \cup {<<kind, a>>}
<1>1. queue \in Seq(Kinds \X App) /\ queue # <<>> /\ queue' = Tail(queue)
      /\ Head(queue) = <<kind, a>>
  BY DEF TypeOK, Receive
<1>2. /\ DOMAIN queue = 1..Len(queue) /\ Len(queue) \in Nat /\ Len(queue) > 0
      /\ DOMAIN queue' = 1..(Len(queue) - 1)
      /\ queue[1] = <<kind, a>>
      /\ \A i \in 1..(Len(queue) - 1) : queue'[i] = queue[i + 1]
  BY <1>1
<1>3. ASSUME NEW e \in InChannel, e # <<kind, a>>
      PROVE  e \in InChannel'
  <2>1. PICK i \in 1..Len(queue) : e = queue[i] /\ i # 1
    BY <1>2, <1>3 DEF InChannel
  <2>2. i - 1 \in 1..(Len(queue) - 1) /\ (i - 1) + 1 = i
    BY <1>2, <2>1
  <2>3. QED
    BY <1>2, <2>1, <2>2 DEF InChannel
<1>4. <<kind, a>> \in InChannel
  BY <1>2 DEF InChannel
<1>5. ASSUME NEW e \in InChannel'
      PROVE  e \in InChannel
  <2>1. PICK i \in 1..(Len(queue) - 1) : e = queue'[i]
    BY <1>2, <1>5 DEF InChannel
  <2>2. i + 1 \in 1..Len(queue)
    BY <1>2, <2>1
  <2>3. QED
    BY <1>2, <2>1, <2>2 DEF InChannel
<1>6. QED
  BY <1>3, <1>4, <1>5

----------------------------------------------------------------------------
(* What a step does to an entry                                            *)

\* A sweep in flight names the dead only: nobody comes back to life.
FoundDead == found # None => found.reaped \cup found.journalDead \subseteq Exited

\* The windows of an application: its own, and the last one of the entry f.
Windows(f, a) == {p \in Root : Owner[p] = a}
                 \cup (IF f.state = "untracked" THEN {} ELSE {f.win})

\* The policy of an entry is its own still, or a configuration resolves it for
\* the last window; that window is its own still, or one of the application's.
Ruled(e, f, a) ==
    \/ Kept(e, f) /\ (e.state = "untracked" <=> f.state = "untracked")
    \/ e.state = "untracked" /\ ~e.policy.maintenance
    \/ /\ e.state # "untracked" /\ e.win \in Windows(f, a)
       /\ \/ e.policy = f.policy /\ f.state # "untracked"
          \/ \E c \in Configs : e.policy = ResolvedPolicy(c, a, e.win)

\* What every step but a suspension and the maintenance handlers does: no
\* entry becomes frozen, one that stays frozen loses dead roots only and keeps
\* its maintenance timer until it fires, a new root is alive, and no
\* maintenance timer starts.
Moved(a) ==
    /\ app'[a].state = "frozen" =>
          /\ app[a].state = "frozen" /\ Shrunk(app'[a], app[a])
          /\ app'[a].maint = app[a].maint \/ FireMaintenance(a)
    /\ app'[a].roots \subseteq app[a].roots \cup {p \in Root \cap Alive : Owner[p] = a}
    /\ Ruled(app'[a], app[a], a)
    /\ app'[a].maint \in {app[a].maint, "off"}

\* An entry that is as it was.
LEMMA SameMoved ==
    ASSUME NEW a \in App, app'[a] = app[a]
    PROVE  Moved(a)
BY DEF Moved, Ruled, Kept, Shrunk

\* A tracked entry with its policy, in a state that is not "frozen".
LEMMA ThawedMoved ==
    ASSUME NEW a \in App, app'[a].state # "frozen", Kept(app'[a], app[a]),
           app'[a].state # "untracked", app[a].state # "untracked",
           app'[a].roots \subseteq app[a].roots,
           app'[a].maint \in {app[a].maint, "off"}
    PROVE  Moved(a)
BY DEF Moved, Ruled, Kept

LEMMA UntrackedMoved ==
    ASSUME NEW a \in App, app'[a] = Untracked
    PROVE  Moved(a)
BY UntrackedEffect DEF Moved, Ruled

LEMMA BackgroundedMoved ==
    ASSUME TypeOK, NEW a \in App, app'[a] = Backgrounded(app[a])
    PROVE  Moved(a)
<1>1. /\ Kept(app'[a], app[a]) /\ app'[a].maint = app[a].maint
      /\ app'[a].roots = app[a].roots
      /\ app'[a].state = (IF app[a].state = "active" THEN "background" ELSE app[a].state)
  BY BackgroundedEffect DEF TypeOK
<1>2. QED
  BY <1>1 DEF Moved, Ruled, Kept, Shrunk

LEMMA DesktopMoves ==
    ASSUME TypeOK, Desktop, NEW a \in App
    PROVE  Moved(a)
<1>1. app[a] \in Entry
  BY DEF TypeOK
<1>2. ASSUME NEW p \in Root \cap Alive, RegisterNewApp(Owner[p], p)
      PROVE  Moved(a)
  <2>1. CASE a # Owner[p]
    BY <1>2, <2>1, BackgroundedMoved DEF RegisterNewApp
  <2>2. CASE a = Owner[p]
    <3>1. PICK e : e = NewEntry(a, p)
      OBVIOUS
    <3>2. e.state = "active" /\ e.roots = {p} /\ e.maint = "off" /\ e.win = p
          /\ e.policy = ResolvedPolicy(config, a, p)
      BY <3>1, NewEntryEffect DEF TypeOK
    <3>3. config \in Configs /\ p \in Root
      BY DEF TypeOK
    <3>4. app'[a] = e
      BY <1>2, <2>2, <3>1 DEF RegisterNewApp
    <3>5. QED
      BY <2>2, <3>2, <3>3, <3>4 DEF Moved, Ruled, Windows
  <2>3. QED
    BY <2>1, <2>2
<1>3. ASSUME NEW p \in Root \cap Alive, ActivateExistingApp(Owner[p], p)
      PROVE  Moved(a)
  <2>1. Owner[p] \in App /\ Owner[p] \in Tracked
    BY <1>3, OwnerType DEF ActivateExistingApp
  <2>2. PICK e \in Entry :
          /\ e.state = "active" /\ e.policy = app[Owner[p]].policy
          /\ e.maint = app[Owner[p]].maint /\ e.win = p
          /\ \E r : /\ e.roots = r \cup {p} /\ r \subseteq app[Owner[p]].roots
                    /\ app[Owner[p]].roots \cap Alive \subseteq r
          /\ app' = [b \in App |-> IF b = Owner[p] THEN e ELSE Backgrounded(app[b])]
    BY <1>3, <2>1, ActivatedEffect
  <2>3. CASE a # Owner[p]
    BY <2>2, <2>3, BackgroundedMoved
  <2>4. CASE a = Owner[p]
    BY <2>1, <2>2, <2>4 DEF Moved, Ruled, Windows, Tracked
  <2>5. QED
    BY <2>3, <2>4
<1>4. ASSUME NEW F \in SUBSET App, PreThaw(F)
      PROVE  Moved(a)
  <2>1. CASE a \notin F
    BY <1>4, <2>1, SameMoved DEF PreThaw
  <2>2. CASE a \in F
    <3>1. PICK b : b = ToBackground(app[a], RecordedProcs(a))
      OBVIOUS
    <3>2. app'[a] = SetSuspendTimer(b)
      BY <1>4, <2>2, <3>1 DEF PreThaw
    <3>3. b \in Entry /\ b.state = "background" /\ b.maint = "off" /\ Kept(b, app[a])
          /\ b.roots \subseteq app[a].roots
      BY <1>1, <3>1, ToBackgroundEffect
    <3>4. app[a].state = "frozen"
      BY <1>4, <2>2 DEF PreThaw, In
    <3>5. QED
      BY <3>2, <3>3, <3>4, SetTimerEffect, ThawedMoved DEF Kept
  <2>3. QED
    BY <2>1, <2>2
<1>5. ASSUME NEW b \in App, WindowClosed(b)
      PROVE  Moved(a)
  <2>1. app' = [app EXCEPT ![b] = Untracked]
    BY <1>5 DEF WindowClosed
  <2>2. app'[a] = app[a] \/ app'[a] = Untracked
    BY <2>1 DEF TypeOK
  <2>3. QED
    BY <2>2, SameMoved, UntrackedMoved
<1>6. ASSUME NEW p \in Proc, FocusChanged(p)
      PROVE  Moved(a)
  BY <1>2, <1>3, <1>6 DEF FocusChanged
<1>7. WorkspaceChanged \/ ActivationRequested => Moved(a)
  BY <1>4 DEF WorkspaceChanged, ActivationRequested
<1>8. QED
  BY <1>5, <1>6, <1>7 DEF Desktop

LEMMA PowerMoves ==
    ASSUME TypeOK, NEW a \in App, NEW on \in BOOLEAN, ReconcileManagement(on)
    PROVE  Moved(a) /\ (~on => app'[a].state # "frozen") /\ (on => app'[a].roots = app[a].roots)
           /\ (on => app'[a].state = app[a].state)
<1>1. app[a] \in Entry /\ Managing \in BOOLEAN
  BY ManagingType DEF TypeOK
<1>2. PICK r : r = Reconciled(app[a], a, Managing, on)
  OBVIOUS
<1>3. app'[a] = r
  BY <1>2 DEF ReconcileManagement
<1>4. /\ Kept(r, app[a]) /\ r.maint = app[a].maint /\ Shrunk(r, app[a])
      /\ r.state = (IF ~on /\ app[a].state \in Suspended THEN "active" ELSE app[a].state)
      /\ on => r.roots = app[a].roots
  BY <1>1, <1>2, ReconciledEffect
<1>5. "frozen" \in Suspended /\ "active" # "frozen"
  BY DEF Suspended
<1>6. QED
  BY <1>3, <1>4, <1>5 DEF Moved, Ruled, Kept, Shrunk, Suspended

LEMMA ReloadMoves ==
    ASSUME TypeOK, NEW c \in Configs, ConfigReloaded(c), NEW a \in App
    PROVE  Moved(a)
<1> DEFINE policy == ResolvedPolicy(c, a, app[a].win)
           back   == Restored(app[a].state, policy.action)
<1>1. CASE a \notin Tracked
  BY <1>1, ReloadedEffect, SameMoved
<1>2. CASE a \in Tracked
  <2>1. /\ app'[a].policy = policy /\ Shrunk(app'[a], app[a])
        /\ app'[a].maint = (IF back THEN "off" ELSE app[a].maint)
        /\ app'[a].state \in {"background", "active", app[a].state}
    BY <1>2, ReloadedEffect
  <2>2. app'[a].win = app[a].win /\ app[a].state # "untracked"
    BY <1>2, ReloadedEffect DEF Tracked
  <2>3. back => app'[a].state = "background"
    BY <1>2, ReloadedEffect
  <2>4. QED
    BY <2>1, <2>2, <2>3 DEF Moved, Ruled, Windows, Shrunk
<1>3. QED
  BY <1>1, <1>2

LEMMA RestMoves ==
    ASSUME TypeOK, FoundDead, Client \/ Reconcile \/ ReconcileResult \/ Shutdown,
           NEW a \in App
    PROVE  Moved(a)
<1>1. app[a] \in Entry
  BY DEF TypeOK
<1>2. PICK b : b = SetState(app[a], "background")
  OBVIOUS
<1>3. b \in Entry /\ b.state = "background" /\ Kept(b, app[a]) /\ b.maint = app[a].maint
      /\ b.roots = app[a].roots
  BY <1>1, <1>2, SetStateEffect, StatesAre
<1>4. app'[a] = b /\ app[a].state # "untracked" => Moved(a)
  BY <1>3, ThawedMoved
<1>5. ASSUME NEW k, NEW procs, IpcFreeze(k, procs) \/ IpcThaw(k, procs)
      PROVE  Moved(a)
  <2>1. app'[a] = app[a] \/ (app'[a] = b /\ app[a].state # "untracked")
    BY <1>2, <1>5 DEF IpcFreeze, IpcThaw, TypeOK, Tracked
  <2>2. QED
    BY <1>4, <2>1, SameMoved
<1>6. CASE IpcThawAll
  <2>1. app'[a] = app[a]
        \/ (app'[a] = CancelAllTimers(b) /\ app[a].state # "untracked")
    BY <1>2, <1>6 DEF IpcThawAll, Suspended
  <2>2. app'[a] = CancelAllTimers(b) /\ app[a].state # "untracked" => Moved(a)
    BY <1>3, CancelAllEffect, ThawedMoved DEF Kept
  <2>3. QED
    BY <2>1, <2>2, SameMoved
<1>7. CASE Reconcile
  BY <1>7, SameMoved DEF Reconcile, bookVars
<1>8. CASE ReconcileResult
  <2>1. \/ app'[a] = Untracked
        \/ app'[a] = [app[a] EXCEPT !.roots = @ \ found.reaped]
    BY <1>8 DEF ReconcileResult
  <2>2. found.reaped \cap Alive = {}
    BY <1>8 DEF ReconcileResult, FoundDead, Alive, Exited
  <2>3. QED
    BY <1>1, <2>1, <2>2, UntrackedMoved DEF Moved, Ruled, Kept, Shrunk, Entry
<1>9. CASE Shutdown
  <2>1. PICK was \in BOOLEAN, on \in BOOLEAN, r \in Entry :
          ~on /\ r = Reconciled(app[a], a, was, on) /\ app'[a] = CancelAllTimers(r)
    BY <1>1, <1>9, ReconciledEffect DEF Shutdown
  <2>2. /\ Kept(r, app[a]) /\ Shrunk(r, app[a]) /\ r.maint = app[a].maint
        /\ r.state = (IF app[a].state \in Suspended THEN "active" ELSE app[a].state)
    BY <1>1, <2>1, ReconciledEffect
  <2>3. r.state # "frozen" /\ r.roots \subseteq app[a].roots
    BY <2>2 DEF Suspended, Shrunk
  <2>4. /\ app'[a].state = r.state /\ Kept(app'[a], r) /\ app'[a].roots = r.roots
        /\ app'[a].maint = "off"
    BY <2>1, CancelAllEffect
  <2>5. r.state = "untracked" <=> app[a].state = "untracked"
    BY <2>2 DEF Suspended
  <2>6. QED
    BY <2>2, <2>3, <2>4, <2>5 DEF Kept, Moved, Ruled
<1>10. QED
  BY <1>5, <1>6, <1>7, <1>8, <1>9 DEF Client

LEMMA QuietMoves ==
    ASSUME Quiet, NEW a \in App, app'[a].maint \in {app[a].maint, "off"},
           app'[a].maint = app[a].maint \/ FireMaintenance(a)
    PROVE  Moved(a)
BY DEF Quiet, Moved, Ruled, Kept, Shrunk

LEMMA TimersMove ==
    ASSUME TypeOK, NEW a \in App,
           \/ Timers
           \/ GuardsBlock
           \/ \E b \in App : DropSuspendTimer(b) \/ PostponeSuspend(b) \/ ScanTree(b)
    PROVE  Moved(a)
<1>1. Quiet
  BY QuietTimers, QuietGuards, QuietSuspendTimer
<1>2. \A b \in App : app[b] \in Entry
  BY DEF TypeOK
<1>3. ASSUME NEW b \in App, NEW f \in {app[b], SetSuspendTimer(app[b]),
                                       CancelSuspendTimer(app[b])},
             app' = [app EXCEPT ![b] = f]
      PROVE  app'[a].maint = app[a].maint
  <2>1. f.maint = app[b].maint
    BY <1>2, SetTimerEffect, CancelTimerEffect DEF Kept
  <2>2. QED
    BY <1>3, <2>1 DEF TypeOK
<1>4. app'[a].maint = app[a].maint \/ FireMaintenance(a)
  <2>1. ASSUME NEW b \in App, FireSuspendTimer(b)
        PROVE  app'[a].maint = app[a].maint
    BY <1>3, <2>1 DEF FireSuspendTimer
  <2>2. ASSUME NEW b \in App, FireMaintenance(b)
        PROVE  app'[a].maint = app[a].maint \/ FireMaintenance(a)
    BY <2>2 DEF FireMaintenance, TypeOK
  <2>3. (\E e \in stray : FireStray(e)) => app' = app
    BY DEF FireStray, bookVars
  <2>4. CASE GuardsBlock
    <3>1. pending.app \in App /\ app' = [app EXCEPT ![pending.app] = SetSuspendTimer(@)]
      BY <2>4 DEF GuardsBlock, TypeOK
    <3>2. QED
      BY <1>3, <3>1
  <2>5. ASSUME NEW b \in App, DropSuspendTimer(b) \/ PostponeSuspend(b) \/ ScanTree(b)
        PROVE  app'[a].maint = app[a].maint
    <3>1. app' = app \/ \E f \in {SetSuspendTimer(app[b]), CancelSuspendTimer(app[b])} :
              app' = [app EXCEPT ![b] = f]
      BY <2>5 DEF DropSuspendTimer, PostponeSuspend, ScanTree, bookVars
    <3>2. QED
      BY <1>3, <3>1
  <2>6. QED
    BY <2>1, <2>2, <2>3, <2>4, <2>5 DEF Timers
<1>5. FireMaintenance(a) => app'[a].maint = "off"
  <2>1. FireMaintenance(a) => app'[a] = SetMaintenance(app[a], "off")
    BY DEF FireMaintenance, TypeOK
  <2>2. QED
    BY <1>2, <2>1, SetMaintenanceEffect
<1>6. QED
  BY <1>1, <1>4, <1>5, QuietMoves

LEMMA NextMoves ==
    ASSUME TypeOK, FoundDead, [Next]_vars, NEW a \in App
    PROVE  Moved(a) \/ Suspend \/ Maintenance
<1>1. CASE (\E p \in Proc : Spawn(p) \/ Exit(p)) \/ UNCHANGED vars
  BY <1>1, SameMoved DEF Spawn, Exit, bookVars, vars
<1>2. CASE (\E s \in Sources : PowerSourceChanged(s))
           \/ (\E f \in Overrides : SetPowerOverride(f))
  <2>1. PICK on \in BOOLEAN : ReconcileManagement(on)
    BY <1>2, ManagingType DEF PowerSourceChanged, SetPowerOverride, TypeOK
  <2>2. QED
    BY <2>1, PowerMoves
<1>3. SuspendTimer => Moved(a) \/ Suspend
  BY TimersMove DEF SuspendTimer
<1>4. QED
  BY <1>1, <1>2, <1>3, NextIs, TimersMove, DesktopMoves, ReloadMoves, RestMoves

\* What a suspension does to the entries.
LEMMA SuspendMoves ==
    ASSUME TypeOK, Suspend, NEW a \in App
    PROVE  /\ Kept(app'[a], app[a]) /\ Shrunk(app'[a], app[a])
           /\ app'[a].maint # app[a].maint =>
                app[a].policy.maintenance /\ app'[a].maint = "wake"
           /\ app'[a] # app[a] => a = pending.app
<1>1. PICK e \in Entry : SuspendOutcome(pending.app, pending.procs, e)
  BY SuspendEffect
<1>2. pending.app \in App
  BY SuspendEffect
<1>3. /\ Kept(e, app[pending.app]) /\ Shrunk(e, app[pending.app])
      /\ e.maint # app[pending.app].maint =>
           app[pending.app].policy.maintenance /\ e.maint = "wake"
  BY <1>1 DEF SuspendOutcome, Untried, Reaching, Missing, Shrunk
<1>4. app' = [app EXCEPT ![pending.app] = e]
  BY <1>1 DEF SuspendOutcome
<1>5. QED
  BY <1>2, <1>3, <1>4 DEF TypeOK, Kept, Shrunk

\* Nobody comes back to life, and only a process that was not born starts.
Aged(p) ==
    /\ life[p] # "unborn" => life'[p] # "unborn" /\ (p \in Alive' => p \in Alive)
    /\ p \in Exited => p \in Exited'

LEMMA LifeKept == [Next]_vars =>
    \/ life' = life
    \/ \E p \in Proc : Spawn(p) \/ Exit(p)
<1>1. Timers \/ Desktop \/ SuspendTimer \/ Maintenance => life' = life
  BY DEF Timers, FireSuspendTimer, FireMaintenance, FireStray, Desktop, FocusChanged,
     RegisterNewApp, ActivateExistingApp, WorkspaceChanged, ActivationRequested, PreThaw,
     WindowClosed, Restore, SuspendTimer, DropSuspendTimer, PostponeSuspend, ScanTree,
     GuardsBlock, Suspend, Maintenance, MaintenanceWake, MaintenanceSleep, osVars
<1>2. \A s : PowerSourceChanged(s) \/ SetPowerOverride(s) => life' = life
  BY DEF PowerSourceChanged, SetPowerOverride, ReconcileManagement, Restore
<1>3. \A c : ConfigReloaded(c) => life' = life
  BY DEF ConfigReloaded, Restore
<1>4. Client \/ Reconcile \/ ReconcileResult \/ Shutdown => life' = life
  BY DEF Client, IpcFreeze, IpcThaw, IpcThawAll, Reconcile, ReconcileResult, Shutdown,
     osVars
<1>5. QED
  BY <1>1, <1>2, <1>3, <1>4, NextIs DEF vars

LEMMA LifeStep == TypeOK /\ [Next]_vars => \A p \in Proc : Aged(p)
<1> SUFFICES ASSUME TypeOK, [Next]_vars, NEW p \in Proc PROVE Aged(p)
  OBVIOUS
<1>1. CASE life' = life
  BY <1>1 DEF Aged, Alive, Exited
<1>2. ASSUME NEW q \in Proc, Spawn(q)
      PROVE  Aged(p)
  BY <1>2 DEF Spawn, Aged, Alive, Exited, TypeOK
<1>3. ASSUME NEW q \in Proc, Exit(q)
      PROVE  Aged(p)
  BY <1>3 DEF Exit, Aged, Alive, Exited, TypeOK
<1>4. QED
  BY <1>1, <1>2, <1>3, LifeKept

\* Where the events in the channel come from.
Sent == InChannel \cup stray

Timed(e) == \E a \in App : \/ e = <<"suspend", a>>
                           \/ app[a].maint # "off" /\ e = <<app[a].maint, a>>

\* The handlers of the timer events.
Handled(kind, a) ==
    \/ kind = "suspend" /\ (DropSuspendTimer(a) \/ PostponeSuspend(a) \/ ScanTree(a))
    \/ kind = "wake" /\ MaintenanceWake(a)
    \/ kind = "sleep" /\ MaintenanceSleep(a)

LEMMA HandledReceived ==
    ASSUME NEW kind, NEW a, Handled(kind, a)
    PROVE  Receive(kind, a) /\ kind \in Kinds
BY DEF Handled, DropSuspendTimer, PostponeSuspend, ScanTree, MaintenanceWake,
   MaintenanceSleep, Kinds

LEMMA ChannelKept == [Next]_vars =>
    \/ UNCHANGED <<queue, stray>>
    \/ Timers
    \/ \E a \in App : \E kind \in Kinds : Handled(kind, a)
    \/ \E a \in App : WindowClosed(a)
<1>1. Maintenance => \E a \in App : \E kind \in Kinds : Handled(kind, a)
  BY DEF Maintenance, Handled, Kinds
<1>2. SuspendTimer => UNCHANGED <<queue, stray>>
                      \/ \E a \in App : \E kind \in Kinds : Handled(kind, a)
  BY DEF SuspendTimer, GuardsBlock, Suspend, Handled, Kinds
<1>3. Desktop => UNCHANGED <<queue, stray>> \/ \E a \in App : WindowClosed(a)
  BY DEF Desktop, FocusChanged, RegisterNewApp, ActivateExistingApp, WorkspaceChanged,
     ActivationRequested, PreThaw, loopVars
<1>4. \A s : PowerSourceChanged(s) \/ SetPowerOverride(s) \/ ConfigReloaded(s) =>
               UNCHANGED <<queue, stray>>
  BY DEF PowerSourceChanged, SetPowerOverride, ConfigReloaded, loopVars
<1>5. Client \/ Reconcile \/ ReconcileResult \/ Shutdown => UNCHANGED <<queue, stray>>
  BY DEF Client, IpcFreeze, IpcThaw, IpcThawAll, Reconcile, ReconcileResult, Shutdown,
     loopVars
<1>6. (\E p \in Proc : Spawn(p) \/ Exit(p)) => UNCHANGED <<queue, stray>>
  BY DEF Spawn, Exit, loopVars
<1>7. QED
  BY <1>1, <1>2, <1>3, <1>4, <1>5, <1>6, NextIs DEF vars

LEMMA SentStep ==
    ASSUME TypeOK, [Next]_vars, NEW e \in Sent'
    PROVE  e \in Sent \/ Timed(e)
<1>1. CASE UNCHANGED <<queue, stray>>
  BY <1>1 DEF Sent, InChannel
<1>2. CASE Timers
  <2>1. ASSUME NEW a \in App, FireSuspendTimer(a)
        PROVE  e \in Sent \/ Timed(e)
    BY <2>1, SendAdds DEF FireSuspendTimer, Kinds, Sent, Timed
  <2>2. ASSUME NEW a \in App, FireMaintenance(a)
        PROVE  e \in Sent \/ Timed(e)
    <3>1. app[a].maint \in {"wake", "sleep"}
      BY <2>2 DEF TypeOK, Entry, FireMaintenance
    <3>2. <<app[a].maint, a>> \in Kinds \X App
      BY <3>1 DEF Kinds
    <3>3. QED
      BY <2>2, <3>1, <3>2, SendAdds DEF FireMaintenance, Sent, Timed
  <2>3. ASSUME NEW x \in stray, FireStray(x)
        PROVE  e \in Sent \/ Timed(e)
    BY <2>3, SendAdds DEF FireStray, Sent, TypeOK
  <2>4. QED
    BY <1>2, <2>1, <2>2, <2>3 DEF Timers
<1>3. ASSUME NEW a \in App, NEW kind \in Kinds, Handled(kind, a)
      PROVE  e \in Sent
  BY <1>3, HandledReceived, ReceiveTakes DEF Receive, Sent
<1>4. ASSUME NEW a \in App, WindowClosed(a)
      PROVE  e \in Sent \/ Timed(e)
  BY <1>4 DEF WindowClosed, Sent, Timed, InChannel
<1>5. QED
  BY <1>1, <1>2, <1>3, <1>4, ChannelKept

----------------------------------------------------------------------------
(* The registry                                                            *)

\* The roots of an application are its own processes, and were started.
RootsKnown ==
    \A a \in App : \A p \in app[a].roots : Owner[p] = a /\ life[p] # "unborn"

\* No maintenance timer runs, waits or is on its way for an application that
\* no configuration wakes.
OnlyWakersWake ==
    \A a \in App \ Wakers :
        /\ ~app[a].policy.maintenance /\ app[a].maint = "off"
        /\ \A k \in {"wake", "sleep"} : <<k, a>> \notin Sent

RegistryInv == FoundDead /\ RootsKnown /\ OnlyWakersWake

LEMMA RegistryInit == Init => RegistryInv
BY UntrackedEffect DEF Init, RegistryInv, FoundDead, RootsKnown, OnlyWakersWake, Sent,
   InChannel

LEMMA FoundStep ==
    ASSUME TypeOK, FoundDead, [Next]_vars
    PROVE  FoundDead'
<1>1. Exited \subseteq Exited'
  BY LifeStep DEF Aged, Exited
<1>2. found' = found \/ found' = None \/ Reconcile
  <2>1. Timers \/ Desktop \/ SuspendTimer \/ Maintenance => found' = found
    BY DEF Timers, FireSuspendTimer, FireMaintenance, FireStray, Desktop, FocusChanged,
       RegisterNewApp, ActivateExistingApp, WorkspaceChanged, ActivationRequested, PreThaw,
       WindowClosed, SuspendTimer, DropSuspendTimer, PostponeSuspend, ScanTree,
       GuardsBlock, Suspend, Maintenance, MaintenanceWake, MaintenanceSleep, Receive,
       loopVars
  <2>2. \A s : PowerSourceChanged(s) \/ SetPowerOverride(s) \/ ConfigReloaded(s) =>
                 found' = found
    BY DEF PowerSourceChanged, SetPowerOverride, ConfigReloaded, loopVars
  <2>3. Client \/ Shutdown => found' = found
    BY DEF Client, IpcFreeze, IpcThaw, IpcThawAll, Shutdown, loopVars
  <2>4. ReconcileResult => found' = None
    BY DEF ReconcileResult
  <2>5. (\E p \in Proc : Spawn(p) \/ Exit(p)) \/ UNCHANGED vars => found' = found
    BY DEF Spawn, Exit, loopVars, vars
  <2>6. QED
    BY <2>1, <2>2, <2>3, <2>4, <2>5, NextIs
<1>3. CASE Reconcile
  <2>1. PICK R, J : found' = [reaped |-> R \cap Exited, journalDead |-> J \cap Exited]
    BY <1>3 DEF Reconcile
  <2>2. found'.reaped \cup found'.journalDead \subseteq Exited
    BY <2>1
  <2>3. QED
    BY <1>1, <2>2 DEF FoundDead
<1>4. CASE found' = found \/ found' = None
  BY <1>1, <1>4 DEF FoundDead
<1>5. QED
  BY <1>2, <1>3, <1>4

LEMMA RootsStep ==
    ASSUME TypeOK, FoundDead, RootsKnown, [Next]_vars
    PROVE  RootsKnown'
<1> SUFFICES ASSUME NEW a \in App, NEW p \in app'[a].roots
             PROVE  Owner[p] = a /\ life'[p] # "unborn"
  BY DEF RootsKnown
<1>1. app'[a].roots \subseteq app[a].roots \cup {q \in Root \cap Alive : Owner[q] = a}
  <2>1. CASE Moved(a)
    BY <2>1 DEF Moved
  <2>2. CASE Suspend
    BY <2>2, SuspendMoves DEF Shrunk
  <2>3. CASE Maintenance
    BY <2>3, QuietMaintenance DEF Maintenance, Quiet
  <2>4. QED
    BY <2>1, <2>2, <2>3, NextMoves
<1>2. p \in Proc /\ Owner[p] = a /\ life[p] # "unborn"
  BY <1>1 DEF RootsKnown, TypeOK, Entry, Root, Alive
<1>3. QED
  BY <1>2, LifeStep DEF Aged

LEMMA WakersStep ==
    ASSUME TypeOK, FoundDead, OnlyWakersWake, [Next]_vars
    PROVE  OnlyWakersWake'
<1> SUFFICES ASSUME NEW a \in App \ Wakers
             PROVE  /\ ~app'[a].policy.maintenance /\ app'[a].maint = "off"
                    /\ \A k \in {"wake", "sleep"} : <<k, a>> \notin Sent'
  BY DEF OnlyWakersWake
<1>1. /\ ~app[a].policy.maintenance /\ app[a].maint = "off"
      /\ \A k \in {"wake", "sleep"} : <<k, a>> \notin Sent
  BY DEF OnlyWakersWake
<1>2. ~app'[a].policy.maintenance /\ app'[a].maint = "off"
  <2>1. CASE Moved(a)
    <3>1. ASSUME NEW c \in Configs, NEW w, app'[a].policy = ResolvedPolicy(c, a, w)
          PROVE  ~app'[a].policy.maintenance
      BY <3>1, ResolvedPolicyType DEF Wakers
    <3>2. QED
      BY <1>1, <2>1, <3>1 DEF Moved, Ruled, Kept
  <2>2. CASE Suspend
    BY <1>1, <2>2, SuspendMoves DEF Kept
  <2>3. CASE Maintenance
    <3>1. PICK b \in App : MaintenanceWake(b) \/ MaintenanceSleep(b)
      BY <2>3 DEF Maintenance
    <3>2. Quiet
      BY <3>1, QuietMaintenance
    <3>3. <<"wake", b>> \in InChannel \/ <<"sleep", b>> \in InChannel
      BY <3>1, ReceiveTakes DEF MaintenanceWake, MaintenanceSleep
    <3>4. a # b
      BY <1>1, <3>3 DEF Sent
    <3>5. app'[a] = app[a]
      BY <3>1, <3>4 DEF MaintenanceWake, MaintenanceSleep, TypeOK
    <3>6. QED
      BY <1>1, <3>5
  <2>4. QED
    BY <2>1, <2>2, <2>3, NextMoves
<1>3. ASSUME NEW k \in {"wake", "sleep"}, <<k, a>> \in Sent'
      PROVE  FALSE
  BY <1>1, <1>3, SentStep DEF Timed
<1>4. QED
  BY <1>2, <1>3

LEMMA RegistryStep == TypeOK /\ RegistryInv /\ [Next]_vars => RegistryInv'
BY FoundStep, RootsStep, WakersStep DEF RegistryInv

----------------------------------------------------------------------------
(* The ledger: what is stopped against what is recorded                    *)

\* The daemon has stopped nothing that it could not continue.
RefusersRun == stopped \cap Refusers = {}

RecordsAllowed == \A k \in Key : rec[k] \cap Protected = {}

LedgerInv ==
    /\ RefusersRun
    /\ RecordsAllowed
    /\ StoppedIsRecorded
    /\ ProtectedNeverStopped

\* The invariant one process at a time.
LEMMA LedgerIs ==
    LedgerInv <=>
        /\ \A p \in stopped : /\ p \notin Refusers /\ p \notin Protected
                              /\ \E k \in Key : p \in rec[k]
        /\ \A k \in Key : rec[k] \cap Protected = {}
BY DEF LedgerInv, RefusersRun, RecordsAllowed, StoppedIsRecorded, ProtectedNeverStopped,
   AllRecorded

LEMMA LedgerWith ==
    ASSUME \A p \in stopped' : /\ p \notin Refusers /\ p \notin Protected
                               /\ \E k \in Key : p \in rec'[k],
           \A k \in Key : rec'[k] \cap Protected = {}
    PROVE  LedgerInv'
BY DEF LedgerInv, RefusersRun, RecordsAllowed, StoppedIsRecorded, ProtectedNeverStopped,
   AllRecorded

\* Fewer processes are stopped and no record of one of them is lost.
LEMMA LedgerShrinks ==
    ASSUME LedgerInv, stopped' \subseteq stopped,
           \A k \in Key : rec'[k] \subseteq rec[k] /\ rec[k] \cap stopped' \subseteq rec'[k]
    PROVE  LedgerInv'
BY LedgerIs, LedgerWith

\* What is stopped is alive and can be reached.
LEMMA StoppedReachable ==
    ASSUME TypeOK, LedgerInv, NEW procs
    PROVE  /\ stopped \cap procs \subseteq Reached(procs)
           /\ stopped \cap procs \subseteq Settled(procs)
BY DEF TypeOK, LedgerInv, RefusersRun, Reached, Settled

\* Processes that protection lets pass are stopped and recorded under k.
LEMMA LedgerGrows ==
    ASSUME TypeOK, LedgerInv, NEW k \in Key, NEW procs \in SUBSET Proc,
           procs \cap Protected = {},
           \/ stopped' = stopped /\ rec' = ArmEntry(k, procs)
           \/ /\ stopped' \subseteq stopped \cup Reached(procs)
              /\ rec' = ArmCommitEntry(k, procs)
    PROVE  LedgerInv'
<1>1. rec \in [Key -> SUBSET Proc]
  BY DEF TypeOK
<1>2. CASE stopped' = stopped /\ rec' = ArmEntry(k, procs)
  <2>1. \A l \in Key : rec'[l] = IF l = k THEN rec[k] \cup procs ELSE rec[l]
    BY <1>1, <1>2 DEF ArmEntry
  <2>2. QED
    BY <1>2, <2>1, LedgerIs, LedgerWith
<1>3. CASE /\ stopped' \subseteq stopped \cup Reached(procs)
           /\ rec' = ArmCommitEntry(k, procs)
  <2>1. \A l \in Key : rec'[l] = IF l = k THEN (rec[k] \ procs) \cup Reached(procs)
                                 ELSE rec[l]
    BY <1>1, <1>3 DEF ArmCommitEntry
  <2>2. stopped \cap procs \subseteq Reached(procs)
    BY StoppedReachable
  <2>3. Reached(procs) \subseteq procs /\ Reached(procs) \cap Refusers = {}
    BY DEF Reached
  <2>4. ASSUME NEW p \in stopped'
        PROVE  /\ p \notin Refusers /\ p \notin Protected
               /\ \E l \in Key : p \in rec'[l]
    <3>1. CASE p \in Reached(procs)
      BY <2>1, <2>3, <3>1
    <3>2. CASE p \notin Reached(procs)
      <4>1. p \in stopped /\ p \notin procs
        BY <1>3, <2>2, <2>4, <3>2
      <4>2. QED
        BY <2>1, <4>1, LedgerIs
    <3>3. QED
      BY <3>1, <3>2
  <2>5. \A l \in Key : rec'[l] \cap Protected = {}
    BY <2>1, <2>3, LedgerIs
  <2>6. QED
    BY <2>4, <2>5, LedgerWith
<1>4. QED
  BY <1>2, <1>3

LEMMA RestoreKeepsLedger ==
    ASSUME TypeOK, LedgerInv, NEW F \in SUBSET App, NEW T, NEW pr, Restore(F, T, pr)
    PROVE  LedgerInv'
<1>1. stopped' \subseteq stopped /\ \A a \in F : stopped' \cap Reached(pr[a]) = {}
  BY DEF Restore, Reached
<1>2. \A k \in Key : rec'[k] = IF k \in F THEN rec[k] \ Settled(pr[k]) ELSE rec[k]
  BY DEF Restore, RetireEntries
<1>3. ASSUME NEW k \in F
      PROVE  stopped' \cap Settled(pr[k]) = {}
  BY <1>1, StoppedReachable DEF Settled
<1>4. QED
  BY <1>1, <1>2, <1>3, LedgerShrinks

\* Everything on record is continued and retired.
LEMMA ReleaseKeepsLedger ==
    ASSUME TypeOK, LedgerInv, stopped' \subseteq stopped \ Reached(AllRecorded),
           rec' = [k \in Key |-> rec[k] \ Settled(rec[k])]
    PROVE  LedgerInv' /\ stopped' = {}
<1>1. stopped \subseteq AllRecorded
  BY DEF LedgerInv, StoppedIsRecorded
<1>2. stopped' = {}
  BY <1>1, StoppedReachable
<1>3. QED
  BY <1>2, LedgerShrinks

\* Frozen applications with maintenance are recorded with their roots, so that
\* a maintenance sleep stops nothing that is not on record.
FrozenRootsRecorded ==
    \A a \in Wakers \cap In({"frozen"}) : Reached(app[a].roots) \subseteq rec[a]

LEMMA RecordedAreOnRecord ==
    ASSUME FrozenRootsRecorded, NEW a \in Wakers, app[a].state = "frozen"
    PROVE  Reached(RecordedProcs(a)) \subseteq rec[a]
BY DEF FrozenRootsRecorded, RecordedProcs, Reached, In, Wakers

LEMMA MaintenanceKeepsLedger ==
    ASSUME TypeOK, OnlyWakersWake, LedgerInv, FrozenRootsRecorded, Maintenance
    PROVE  LedgerInv'
<1>1. PICK a \in App : MaintenanceWake(a) \/ MaintenanceSleep(a)
  BY DEF Maintenance
<1>2. rec' = rec
  BY <1>1 DEF MaintenanceWake, MaintenanceSleep
<1>3. CASE stopped' \subseteq stopped
  BY <1>2, <1>3, LedgerShrinks
<1>4. CASE ~(stopped' \subseteq stopped)
  <2>1. /\ Receive("sleep", a) /\ app[a].state = "frozen"
        /\ stopped' = stopped \cup Reached(RecordedProcs(a))
    BY <1>1, <1>4 DEF MaintenanceWake, MaintenanceSleep
  <2>2. a \in Wakers
    BY <2>1, ReceiveTakes DEF OnlyWakersWake, Sent
  <2>3. Reached(RecordedProcs(a)) \subseteq rec[a] /\ a \in Key
    BY <2>1, <2>2, RecordedAreOnRecord DEF Key
  <2>4. Reached(RecordedProcs(a)) \cap Refusers = {}
    BY DEF Reached
  <2>5. QED
    BY <1>2, <2>1, <2>3, <2>4, LedgerIs, LedgerWith
<1>5. QED
  BY <1>3, <1>4

\* The plan of a suspension in flight: nobody on the deny-list, and unless the
\* scan failed everybody that owns a window and still lives.
PlanAllowed ==
    pending # None =>
        /\ pending.procs \cap Protected = {}
        /\ pending.procs # {} \/ ~ScanMayFail =>
             (app[pending.app].roots \cap Alive) \ Protected \subseteq pending.procs

LEMMA PendingKept == [Next]_vars =>
    \/ pending' = None /\ (pending = None \/ GuardsBlock \/ Suspend)
    \/ pending' = pending /\ (Timers \/ (app' = app /\ pending # None))
    \/ \E a \in App : ScanTree(a)
<1>1. Timers => pending' = pending
  BY DEF Timers, FireSuspendTimer, FireMaintenance, FireStray
<1>2. SuspendTimer => \/ pending' = None /\ (pending = None \/ GuardsBlock \/ Suspend)
                      \/ \E a \in App : ScanTree(a)
  BY DEF SuspendTimer, DropSuspendTimer, PostponeSuspend, GuardsBlock, Suspend, Receive,
     Idle
<1>3. Maintenance \/ Desktop => pending' = None /\ pending = None
  BY DEF Maintenance, MaintenanceWake, MaintenanceSleep, Receive, Idle, Desktop,
     FocusChanged, RegisterNewApp, ActivateExistingApp, WorkspaceChanged,
     ActivationRequested, PreThaw, WindowClosed, loopVars
<1>4. \A s : PowerSourceChanged(s) \/ SetPowerOverride(s) \/ ConfigReloaded(s) =>
               pending' = None /\ pending = None
  BY DEF PowerSourceChanged, SetPowerOverride, ConfigReloaded, Idle, loopVars
<1>5. Client \/ Reconcile \/ ReconcileResult \/ Shutdown =>
         pending' = None /\ pending = None
  BY DEF Client, IpcFreeze, IpcThaw, IpcThawAll, Reconcile, ReconcileResult, Shutdown,
     Idle, loopVars
<1>6. (\E p \in Proc : Spawn(p) \/ Exit(p)) \/ UNCHANGED vars =>
         pending' = pending /\ app' = app
  BY DEF Spawn, Exit, bookVars, loopVars, vars
<1>7. QED
  BY <1>1, <1>2, <1>3, <1>4, <1>5, <1>6, NextIs

LEMMA PlanStep ==
    ASSUME TypeOK, RootsKnown, PlanAllowed, [Next]_vars
    PROVE  PlanAllowed'
<1>1. CASE pending' = None
  BY <1>1 DEF PlanAllowed
<1>2. CASE pending' = pending /\ pending # None /\ (Timers \/ app' = app)
  <2>1. pending.app \in App
    BY <1>2 DEF TypeOK
  <2>2. app'[pending.app].roots = app[pending.app].roots
    BY <1>2, <2>1, QuietTimers DEF Quiet
  <2>3. app[pending.app].roots \cap Alive' \subseteq app[pending.app].roots \cap Alive
    BY <2>1, LifeStep DEF Aged, RootsKnown, TypeOK, Entry, Root
  <2>4. QED
    BY <1>2, <2>2, <2>3 DEF PlanAllowed
<1>3. ASSUME NEW a \in App, ScanTree(a)
      PROVE  PlanAllowed'
  <2>1. PICK procs \in {Allowed(ExpandTree(a)), {}} :
          /\ pending' = [app |-> a, procs |-> procs]
          /\ procs = Allowed(ExpandTree(a)) \/ (procs = {} /\ ScanMayFail)
    BY <1>3 DEF ScanTree
  <2>2. pending'.app = a /\ pending'.procs = procs
    BY <2>1
  <2>3. app' = app /\ Alive' = Alive
    BY <1>3 DEF ScanTree, bookVars, osVars, Alive
  <2>4. (app[a].roots \cap Alive) \ Protected \subseteq Allowed(ExpandTree(a))
    BY DEF Allowed, ExpandTree, TypeOK, Entry, Root, Alive
  <2>5. procs \cap Protected = {}
    BY DEF Allowed
  <2>6. QED
    BY <2>1, <2>2, <2>3, <2>4, <2>5 DEF PlanAllowed
<1>4. QED
  BY <1>1, <1>2, <1>3, PendingKept

LEMMA SuspendKeepsLedger ==
    ASSUME TypeOK, LedgerInv, PlanAllowed, Suspend
    PROVE  LedgerInv'
<1> DEFINE a == pending.app
           procs == pending.procs
<1>1. PICK e \in Entry : SuspendOutcome(a, procs, e)
  BY SuspendEffect
<1>2. a \in Key /\ procs \in SUBSET Proc /\ procs \cap Protected = {}
  BY SuspendEffect DEF PlanAllowed, Key
<1>3. \/ stopped' = stopped /\ rec' = rec
      \/ stopped' = stopped /\ rec' = ArmEntry(a, procs)
      \/ /\ stopped' \subseteq stopped \cup Reached(procs)
         /\ rec' = ArmCommitEntry(a, procs)
  BY <1>1 DEF SuspendOutcome, Untried, Reaching, Missing
<1>4. stopped' = stopped /\ rec' = rec => LedgerInv'
  BY LedgerShrinks
<1>5. QED
  BY <1>2, <1>3, <1>4, LedgerGrows

LEMMA ClientKeepsLedger ==
    ASSUME TypeOK, LedgerInv, Client
    PROVE  LedgerInv'
<1>1. ASSUME NEW k \in Key, NEW procs, IpcFreeze(k, procs)
      PROVE  LedgerInv'
  <2> DEFINE allowed == Allowed(Owned(procs))
  <2>1. allowed \in SUBSET Proc /\ allowed \cap Protected = {} /\ Reached(allowed) = allowed
    BY DEF Allowed, Owned, Alive, Reached
  <2>2. \/ stopped' = stopped /\ rec' = ArmEntry(k, allowed)
        \/ stopped' = stopped \cup allowed /\ rec' = ArmCommitEntry(k, allowed)
    BY <1>1 DEF IpcFreeze
  <2>3. QED
    BY <2>1, <2>2, LedgerGrows
<1>2. ASSUME NEW k \in Key, NEW procs, IpcThaw(k, procs)
      PROVE  LedgerInv'
  <2>1. stopped' = stopped \ Owned(procs)
        /\ \A l \in Key : rec'[l] = IF l = k THEN rec[k] \ Owned(procs) ELSE rec[l]
    BY <1>2 DEF IpcThaw, TypeOK
  <2>2. QED
    BY <2>1, LedgerShrinks
<1>3. CASE IpcThawAll
  BY <1>3, ReleaseKeepsLedger DEF IpcThawAll, ReleaseRecorded
<1>4. App \subseteq Key /\ Owned(Proc) \subseteq Key
  BY DEF Key, Owned
<1>5. QED
  BY <1>1, <1>2, <1>3, <1>4 DEF Client

LEMMA ShutdownReleasesAll ==
    ASSUME TypeOK, LedgerInv, Shutdown
    PROVE  LedgerInv' /\ stopped' = {}
<1>1. stopped' \subseteq stopped \ Reached(AllRecorded)
  BY DEF Shutdown, Reached
<1>2. QED
  BY <1>1, ReleaseKeepsLedger DEF Shutdown

LEMMA SweepKeepsLedger ==
    ASSUME TypeOK, FoundDead, LedgerInv, Reconcile \/ ReconcileResult
    PROVE  LedgerInv'
<1>1. CASE Reconcile
  BY <1>1, LedgerShrinks DEF Reconcile, osVars, bookVars
<1>2. CASE ReconcileResult
  <2>1. stopped' = stopped /\ found.journalDead \cap stopped = {}
    BY <1>2 DEF ReconcileResult, FoundDead, TypeOK, Alive, Exited, osVars
  <2>2. \A k \in Key : rec'[k] = rec[k] \ found.journalDead
    BY <1>2 DEF ReconcileResult
  <2>3. QED
    BY <2>1, <2>2, LedgerShrinks
<1>3. QED
  BY <1>1, <1>2

\* The steps that release applications, and only those.
Restoring == \E F \in SUBSET App, T \in SUBSET App : \E pr : Restore(F, T, pr)

LEMMA DesktopRestores ==
    ASSUME Desktop
    PROVE  UNCHANGED <<life, stopped, rec>> \/ Restoring
<1>1. ASSUME NEW p, FocusChanged(p)
      PROVE  UNCHANGED <<life, stopped, rec>> \/ Restoring
  <2>1. CASE RegisterNewApp(Owner[p], p)
    BY <2>1 DEF RegisterNewApp, osVars
  <2>2. CASE ActivateExistingApp(Owner[p], p)
    <3>1. PICK F, T : F \in SUBSET App /\ T \in SUBSET App /\ Restore(F, T, Recordings)
      BY <2>2 DEF ActivateExistingApp, In
    <3>2. QED
      BY <3>1 DEF Restoring
  <2>3. QED
    BY <1>1, <2>1, <2>2 DEF FocusChanged
<1>2. ASSUME NEW F \in SUBSET App, PreThaw(F)
      PROVE  Restoring
  BY <1>2 DEF PreThaw, Restoring
<1>3. WorkspaceChanged \/ ActivationRequested => Restoring
  BY <1>2 DEF WorkspaceChanged, ActivationRequested
<1>4. ASSUME NEW a \in App, WindowClosed(a)
      PROVE  Restoring
  <2>1. PICK F, T : F \in SUBSET App /\ T \in SUBSET App /\ Restore(F, T, rec)
    BY <1>4 DEF WindowClosed, In
  <2>2. QED
    BY <2>1 DEF Restoring
<1>5. QED
  BY <1>1, <1>3, <1>4 DEF Desktop

LEMMA ManagementRestores ==
    ASSUME \/ \E on \in BOOLEAN : ReconcileManagement(on)
           \/ \E c \in Configs : ConfigReloaded(c)
    PROVE  Restoring
<1>1. PICK F, T : F \in SUBSET App /\ T \in SUBSET App /\ Restore(F, T, Recordings)
  BY DEF ReconcileManagement, ConfigReloaded, In
<1>2. QED
  BY <1>1 DEF Restoring

LEMMA ProcessKeepsLedger ==
    ASSUME LedgerInv, NEW p \in Proc, Spawn(p) \/ Exit(p)
    PROVE  LedgerInv'
<1>1. stopped' \subseteq stopped /\ rec' = rec
  BY DEF Spawn, Exit, bookVars
<1>2. QED
  BY <1>1, LedgerShrinks

LEMMA LedgerStep ==
    ASSUME TypeOK, FoundDead, OnlyWakersWake, LedgerInv, PlanAllowed, FrozenRootsRecorded,
           [Next]_vars
    PROVE  LedgerInv'
<1>1. CASE UNCHANGED <<stopped, rec>>
  BY <1>1, LedgerShrinks
<1>2. CASE Restoring
  BY <1>2, RestoreKeepsLedger DEF Restoring
<1>3. Timers \/ UNCHANGED vars => UNCHANGED <<stopped, rec>>
  BY QuietTimers DEF osVars, vars
<1>4. SuspendTimer => Suspend \/ UNCHANGED <<stopped, rec>>
  BY QuietSuspendTimer, QuietGuards DEF SuspendTimer, osVars
<1>5. (\E s \in Sources : PowerSourceChanged(s)) \/ (\E f \in Overrides : SetPowerOverride(f))
         => \E on \in BOOLEAN : ReconcileManagement(on)
  BY ManagingType DEF PowerSourceChanged, SetPowerOverride, TypeOK
<1>6. QED
  BY <1>1, <1>2, <1>3, <1>4, <1>5, NextIs, DesktopRestores, ManagementRestores,
     ProcessKeepsLedger, SuspendKeepsLedger, MaintenanceKeepsLedger, ClientKeepsLedger,
     ShutdownReleasesAll, SweepKeepsLedger

----------------------------------------------------------------------------
(* What becomes of a frozen application                                    *)

\* It stays frozen and on record, or its recorded processes run and are off
\* the record.
Fate(a) ==
    \/ app'[a].state = "frozen" /\ Reached(rec[a]) \subseteq rec'[a]
    \/ /\ app'[a].state # "frozen"
       /\ (stopped' \cup rec'[a]) \cap Reached(rec[a]) = {}

LEMMA RecordedCover ==
    ASSUME NEW a
    PROVE  /\ rec[a] \subseteq RecordedProcs(a)
           /\ Reached(rec[a]) \subseteq Reached(RecordedProcs(a))
           /\ Reached(rec[a]) \subseteq Settled(RecordedProcs(a))
BY DEF RecordedProcs, Reached, Settled

LEMMA RestoreFate ==
    ASSUME NEW a \in App, app[a].state = "frozen",
           NEW F, NEW T, NEW pr, Restore(F, T, pr), pr[a] \in {rec[a], RecordedProcs(a)},
           a \in F <=> app'[a].state # "frozen"
    PROVE  Fate(a)
<1>1. CASE a \notin F
  BY <1>1 DEF Restore, RetireEntries, Fate, Key, Reached
<1>2. CASE a \in F
  <2>1. stopped' \cap Reached(pr[a]) = {}
    BY <1>2 DEF Restore, Reached
  <2>2. rec'[a] = rec[a] \ Settled(pr[a])
    BY <1>2 DEF Restore, RetireEntries, Key
  <2>3. Reached(rec[a]) \subseteq Reached(pr[a])
        /\ Reached(rec[a]) \subseteq Settled(pr[a])
    BY RecordedCover DEF Reached, Settled
  <2>4. QED
    BY <1>2, <2>1, <2>2, <2>3 DEF Fate
<1>3. QED
  BY <1>1, <1>2

LEMMA RecordingsAre == \A a \in App : Recordings[a] = RecordedProcs(a)
BY DEF Recordings

LEMMA DesktopFate ==
    ASSUME TypeOK, Desktop, NEW a \in App, app[a].state = "frozen"
    PROVE  Fate(a)
<1>1. app[a] \in Entry
  BY DEF TypeOK
<1>2. app'[a] = Backgrounded(app[a]) => app'[a].state = "frozen"
  BY <1>1, BackgroundedEffect
<1>3. ASSUME NEW p \in Root, RegisterNewApp(Owner[p], p)
      PROVE  Fate(a)
  <2>1. rec' = rec /\ app'[a] = Backgrounded(app[a])
    BY <1>3 DEF RegisterNewApp, Tracked
  <2>2. QED
    BY <1>2, <2>1 DEF Fate, Reached
<1>4. ASSUME NEW p \in Root, ActivateExistingApp(Owner[p], p)
      PROVE  Fate(a)
  <2> DEFINE b == Owner[p]
  <2>1. b \in App /\ b \in Tracked
    BY <1>4, OwnerType DEF ActivateExistingApp
  <2>2. PICK e \in Entry : /\ e.state = "active"
          /\ app' = [c \in App |-> IF c = b THEN e ELSE Backgrounded(app[c])]
    BY <1>4, <2>1, ActivatedEffect
  <2>3. Restore({b} \cap In({"frozen"}), {b} \cap In({"throttled"}), Recordings)
    BY <1>4 DEF ActivateExistingApp
  <2>4. a \in {b} \cap In({"frozen"}) <=> app'[a].state # "frozen"
    BY <1>2, <2>2 DEF In
  <2>5. QED
    BY <2>3, <2>4, RestoreFate, RecordingsAre
<1>5. ASSUME NEW F \in SUBSET App, PreThaw(F)
      PROVE  Fate(a)
  <2>1. a \notin F => app'[a] = app[a]
    BY <1>5 DEF PreThaw
  <2>2. a \in F => app'[a].state = "background"
    <3>1. PICK b : b = ToBackground(app[a], RecordedProcs(a))
      OBVIOUS
    <3>2. b \in Entry /\ b.state = "background"
      BY <1>1, <3>1, ToBackgroundEffect
    <3>3. a \in F => app'[a] = SetSuspendTimer(b)
      BY <1>5, <3>1 DEF PreThaw
    <3>4. QED
      BY <3>2, <3>3, SetTimerEffect
  <2>3. Restore(F, {}, Recordings)
    BY <1>5 DEF PreThaw
  <2>4. QED
    BY <2>1, <2>2, <2>3, RestoreFate, RecordingsAre
<1>6. ASSUME NEW b \in App, WindowClosed(b)
      PROVE  Fate(a)
  <2>1. app'[a] = IF a = b THEN Untracked ELSE app[a]
    BY <1>6 DEF WindowClosed, TypeOK
  <2>2. a \in {b} \cap In({"frozen"}) <=> app'[a].state # "frozen"
    BY <2>1, UntrackedEffect DEF In
  <2>3. Restore({b} \cap In({"frozen"}), {b} \cap In({"throttled"}), rec)
    BY <1>6 DEF WindowClosed
  <2>4. QED
    BY <2>2, <2>3, RestoreFate
<1>7. ASSUME NEW p \in Proc, FocusChanged(p)
      PROVE  Fate(a)
  BY <1>3, <1>4, <1>7 DEF FocusChanged
<1>8. WorkspaceChanged \/ ActivationRequested => Fate(a)
  BY <1>5 DEF WorkspaceChanged, ActivationRequested
<1>9. QED
  BY <1>6, <1>7, <1>8 DEF Desktop

LEMMA PowerFate ==
    ASSUME TypeOK, NEW on \in BOOLEAN, ReconcileManagement(on),
           NEW a \in App, app[a].state = "frozen"
    PROVE  Fate(a)
<1> DEFINE F == IF on THEN {} ELSE In({"frozen"})
<1>1. PICK T : Restore(F, T, Recordings)
  BY DEF ReconcileManagement
<1>2. a \in F <=> app'[a].state # "frozen"
  BY PowerMoves DEF In
<1>3. QED
  BY <1>1, <1>2, RestoreFate, RecordingsAre

LEMMA ReloadFate ==
    ASSUME TypeOK, NEW c \in Configs, ConfigReloaded(c),
           NEW a \in App, app[a].state = "frozen"
    PROVE  Fate(a)
<1> DEFINE on     == ShouldManage(c, source, forced)
           back   == {b \in Tracked :
                        Restored(app[b].state, ResolvedPolicy(c, b, app[b].win).action)}
           thawed == IF on THEN back ELSE In(Suspended)
           F      == thawed \cap In({"frozen"})
<1>1. PICK T : Restore(F, T, Recordings)
  BY DEF ConfigReloaded
<1>2. a \in Tracked /\ a \in In({"frozen"}) /\ a \in In(Suspended)
  BY DEF Tracked, In, Suspended
<1>3. app'[a].state = (IF a \in back THEN "background"
                       ELSE IF ~on /\ app[a].state \in Suspended THEN "active"
                       ELSE app[a].state)
  BY <1>2, ReloadedEffect
<1>4. a \in F <=> app'[a].state # "frozen"
  BY <1>2, <1>3 DEF In
<1>5. QED
  BY <1>1, <1>4, RestoreFate, RecordingsAre

LEMMA ClientFate ==
    ASSUME TypeOK, Client, NEW a \in App, app[a].state = "frozen"
    PROVE  Fate(a)
<1>1. app[a] \in Entry /\ a \in Key
  BY DEF TypeOK, Key
<1>2. SetState(app[a], "background") \in Entry
      /\ SetState(app[a], "background").state = "background"
  BY <1>1, SetStateEffect, StatesAre
<1>3. ASSUME NEW k, NEW procs, IpcFreeze(k, procs)
      PROVE  Fate(a)
  <2>1. PICK allowed : allowed = Allowed(Owned(procs))
    OBVIOUS
  <2>2. Reached(allowed) = allowed
    BY <2>1 DEF Reached, Allowed, Owned
  <2>3. /\ app' = app
        /\ \/ rec' = [rec EXCEPT ![k] = @ \cup allowed]
           \/ rec' = [rec EXCEPT ![k] = (@ \ allowed) \cup allowed]
    BY <1>3, <2>1, <2>2 DEF IpcFreeze, ArmEntry, ArmCommitEntry
  <2>4. rec[a] \subseteq rec'[a]
    BY <1>1, <2>3 DEF TypeOK
  <2>5. QED
    BY <2>3, <2>4 DEF Fate, Reached
<1>4. ASSUME NEW k, NEW procs, IpcThaw(k, procs), k = a => procs = RecordedProcs(a)
      PROVE  Fate(a)
  <2>1. CASE k # a
    BY <1>1, <1>4, <2>1 DEF IpcThaw, Fate, Reached, TypeOK
  <2>2. CASE k = a
    <3>1. app'[a] = SetState(app[a], "background")
      BY <1>4, <2>2 DEF IpcThaw, Tracked
    <3>2. stopped' \cap Reached(RecordedProcs(a)) = {}
          /\ rec'[a] \cap Reached(RecordedProcs(a)) = {}
      BY <1>1, <1>4, <2>2 DEF IpcThaw, Owned, Reached, TypeOK
    <3>3. QED
      BY <1>2, <3>1, <3>2, RecordedCover DEF Fate
  <2>3. QED
    BY <2>1, <2>2
<1>5. CASE IpcThawAll
  <2>1. app'[a] = CancelAllTimers(SetState(app[a], "background"))
    BY <1>5 DEF IpcThawAll, Suspended
  <2>2. app'[a].state # "frozen"
    BY <1>2, <2>1, CancelAllEffect
  <2>3. stopped' \cap Reached(AllRecorded) = {}
    BY <1>5 DEF IpcThawAll, ReleaseRecorded
  <2>4. rec[a] \subseteq AllRecorded /\ rec'[a] = rec[a] \ Settled(rec[a])
    BY <1>1, <1>5 DEF AllRecorded, IpcThawAll, ReleaseRecorded
  <2>5. QED
    BY <2>2, <2>3, <2>4 DEF Fate, Reached, Settled
<1>6. App \cap Owned(Proc) = {}
  BY EngineAssumption DEF Owned
<1>7. QED
  BY <1>3, <1>4, <1>5, <1>6 DEF Client

LEMMA ShutdownFate ==
    ASSUME TypeOK, Shutdown, NEW a \in App
    PROVE  app'[a].state # "frozen"
<1>1. PICK was \in BOOLEAN, on \in BOOLEAN, r \in Entry :
        ~on /\ r = Reconciled(app[a], a, was, on) /\ app'[a] = CancelAllTimers(r)
  BY ReconciledEffect DEF Shutdown, TypeOK
<1>2. r.state = (IF app[a].state \in Suspended THEN "active" ELSE app[a].state)
  BY <1>1, ReconciledEffect DEF TypeOK
<1>3. r.state # "frozen"
  BY <1>2 DEF Suspended
<1>4. QED
  BY <1>1, <1>3, CancelAllEffect

LEMMA SweepFate ==
    ASSUME TypeOK, FoundDead, ReconcileResult, NEW a \in App, app[a].state = "frozen"
    PROVE  Fate(a) \/ app[a].roots \subseteq Exited
<1>1. found.reaped \subseteq Exited /\ found.journalDead \subseteq Exited
  BY DEF ReconcileResult, FoundDead
<1>2. \/ app[a].roots \subseteq found.reaped
      \/ app'[a] = [app[a] EXCEPT !.roots = @ \ found.reaped]
  BY DEF ReconcileResult
<1>3. CASE app'[a] = [app[a] EXCEPT !.roots = @ \ found.reaped]
  <2>1. app'[a].state = "frozen"
    BY <1>3 DEF TypeOK, Entry
  <2>2. rec'[a] = rec[a] \ found.journalDead
    BY DEF ReconcileResult, Key
  <2>3. QED
    BY <1>1, <2>1, <2>2 DEF Fate, Reached, Alive, Exited
<1>4. QED
  BY <1>1, <1>2, <1>3

LEMMA SuspendFate ==
    ASSUME TypeOK, Suspend, NEW a \in App, app[a].state = "frozen"
    PROVE  Fate(a) /\ stopped \subseteq stopped'
<1>1. PICK e \in Entry : SuspendOutcome(pending.app, pending.procs, e)
  BY SuspendEffect
<1>2. pending.app \in App /\ a \in Key /\ rec \in [Key -> SUBSET Proc]
      /\ pending.app \in Key
  BY SuspendEffect DEF TypeOK, Key
<1>3. app' = [app EXCEPT ![pending.app] = e]
  BY <1>1 DEF SuspendOutcome
<1>4. stopped \subseteq stopped'
  BY <1>1 DEF SuspendOutcome, Untried, Reaching, Missing
<1>5. \/ rec' = rec
      \/ rec' = ArmEntry(pending.app, pending.procs)
      \/ rec' = ArmCommitEntry(pending.app, pending.procs) /\ pending.app # a
  BY <1>1 DEF SuspendOutcome, Untried, Reaching, Missing
<1>6. rec[a] \subseteq rec'[a]
  BY <1>2, <1>5 DEF ArmEntry, ArmCommitEntry
<1>7. app'[a].state = "frozen"
  <2>1. CASE a # pending.app
    BY <1>2, <1>3, <2>1 DEF TypeOK
  <2>2. CASE a = pending.app
    BY <1>1, <1>2, <1>3, <2>2 DEF SuspendOutcome, Untried, Reaching, Missing, TypeOK
  <2>3. QED
    BY <2>1, <2>2
<1>8. QED
  BY <1>4, <1>6, <1>7 DEF Fate, Reached

LEMMA NextFate ==
    ASSUME TypeOK, FoundDead, LedgerInv, [Next]_vars, NEW a \in App,
           app[a].state = "frozen"
    PROVE  Fate(a) \/ (ReconcileResult /\ app[a].roots \subseteq Exited)
<1>1. Quiet /\ rec' = rec => Fate(a)
  BY DEF Quiet, Fate, Reached
<1>2. app' = app /\ rec' = rec => Fate(a)
  BY DEF Fate, Reached
<1>3. (\E p \in Proc : Spawn(p) \/ Exit(p)) \/ Reconcile \/ UNCHANGED vars =>
          app' = app /\ rec' = rec
  BY DEF Spawn, Exit, Reconcile, vars, bookVars
<1>4. Timers => Quiet /\ rec' = rec
  BY QuietTimers
<1>5. SuspendTimer => Fate(a)
  BY <1>1, QuietSuspendTimer, QuietGuards, SuspendFate DEF SuspendTimer
<1>6. Maintenance => Quiet /\ rec' = rec
  BY QuietMaintenance DEF Maintenance
<1>7. (\E s \in Sources : PowerSourceChanged(s)) \/ (\E f \in Overrides : SetPowerOverride(f))
         => \E on \in BOOLEAN : ReconcileManagement(on)
  BY ManagingType DEF PowerSourceChanged, SetPowerOverride, TypeOK
<1>8. CASE Shutdown
  <2>1. rec'[a] = rec[a] \ Settled(rec[a])
    BY <1>8 DEF Shutdown, Key
  <2>2. QED
    BY <1>8, <2>1, ShutdownFate, ShutdownReleasesAll DEF Fate, Reached, Settled
<1>9. QED
  BY <1>1, <1>2, <1>3, <1>4, <1>5, <1>6, <1>7, <1>8, NextIs, DesktopFate, PowerFate,
     ReloadFate, ClientFate, SweepFate

\* The roots of a frozen application are what they were, less the dead.
LEMMA FrozenRootsShrink ==
    ASSUME TypeOK, FoundDead, [Next]_vars, NEW a \in App, app'[a].state = "frozen",
           app[a].state = "frozen"
    PROVE  Shrunk(app'[a], app[a])
<1>1. Quiet => Shrunk(app'[a], app[a])
  BY DEF Quiet, Shrunk
<1>2. QED
  BY <1>1, NextMoves, SuspendMoves, QuietMaintenance DEF Moved, Maintenance

\* An application is frozen by a suspension only.
LEMMA FreezesBySuspend ==
    ASSUME TypeOK, FoundDead, [Next]_vars, NEW a \in App, app'[a].state = "frozen",
           app[a].state # "frozen"
    PROVE  /\ Suspend /\ a = pending.app /\ Reached(pending.procs) # {}
           /\ app'[a].roots = app[a].roots \ (pending.procs \ Alive)
           /\ stopped' = stopped \cup Reached(pending.procs)
           /\ rec' = ArmCommitEntry(a, pending.procs)
           /\ life' = life /\ app[a].state = "background"
<1>1. Maintenance => app'[a].state = app[a].state
  BY QuietMaintenance DEF Maintenance, Quiet
<1>2. Suspend
  BY <1>1, NextMoves DEF Moved
<1>3. PICK e \in Entry : SuspendOutcome(pending.app, pending.procs, e)
  BY <1>2, SuspendEffect
<1>4. a = pending.app /\ life' = life
  BY <1>2, SuspendMoves, SuspendEffect
<1>5. app'[a] = e
  BY <1>3, <1>4 DEF SuspendOutcome, TypeOK
<1>6. Reaching(a, pending.procs, e)
  BY <1>3, <1>4, <1>5 DEF SuspendOutcome, Untried, Missing
<1>7. QED
  BY <1>2, <1>4, <1>5, <1>6 DEF Reaching

LEMMA FrozenRootsStep ==
    ASSUME TypeOK, WakersUnprotected, FoundDead, RootsKnown, LedgerInv, PlanAllowed,
           FrozenRootsRecorded, [Next]_vars
    PROVE  FrozenRootsRecorded'
<1> SUFFICES ASSUME NEW a \in Wakers, app'[a].state = "frozen",
                    NEW p \in app'[a].roots, p \in Alive', p \notin Refusers
             PROVE  p \in rec'[a]
  BY DEF FrozenRootsRecorded, In, Reached
<1>1. a \in App /\ app[a] \in Entry
  BY DEF Wakers, TypeOK
<1>2. CASE app[a].state = "frozen"
  <2>1. p \in app[a].roots
    BY <1>1, <1>2, FrozenRootsShrink DEF Shrunk
  <2>2. p \in Proc /\ p \in Alive
    BY <1>1, <2>1, LifeStep DEF Aged, RootsKnown, Entry, Root
  <2>3. p \in rec[a] /\ p \in Reached(rec[a])
    BY <1>1, <1>2, <2>1, <2>2 DEF FrozenRootsRecorded, In, Reached
  <2>4. p \notin Exited
    BY <2>2 DEF Alive, Exited
  <2>5. QED
    BY <1>1, <1>2, <2>1, <2>3, <2>4, NextFate DEF Fate
<1>3. CASE app[a].state # "frozen"
  <2>1. /\ Suspend /\ a = pending.app /\ Reached(pending.procs) # {}
        /\ app'[a].roots = app[a].roots \ (pending.procs \ Alive)
        /\ rec' = ArmCommitEntry(a, pending.procs) /\ life' = life
    BY <1>1, <1>3, FreezesBySuspend
  <2>2. p \in app[a].roots /\ p \in Alive
    BY <2>1 DEF Alive
  <2>3. p \notin Protected
    BY <1>1, <2>2 DEF WakersUnprotected, RootsKnown, Entry
  <2>4. pending.procs # {} /\ pending # None
    BY <2>1, SuspendEffect DEF Reached
  <2>5. p \in Reached(pending.procs)
    BY <2>1, <2>2, <2>3, <2>4 DEF PlanAllowed, Reached
  <2>6. QED
    BY <1>1, <2>1, <2>5 DEF ArmCommitEntry, TypeOK, Key
<1>4. QED
  BY <1>2, <1>3

\* Once the loop has ended processes exit, and nothing else happens.
LEMMA DownStep ==
    ASSUME [Next]_vars
    PROVE  Shutdown \/ (up' = up /\ (up \/ stopped' \subseteq stopped))
<1>1. Timers \/ Desktop \/ SuspendTimer \/ Maintenance => up /\ up' = up
  BY DEF Timers, FireSuspendTimer, FireMaintenance, FireStray, Desktop, FocusChanged,
     RegisterNewApp, ActivateExistingApp, WorkspaceChanged, ActivationRequested, PreThaw,
     WindowClosed, SuspendTimer, DropSuspendTimer, PostponeSuspend, ScanTree,
     GuardsBlock, Suspend, Maintenance, MaintenanceWake, MaintenanceSleep, Receive,
     loopVars, Idle
<1>2. \A s : PowerSourceChanged(s) \/ SetPowerOverride(s) \/ ConfigReloaded(s) =>
               up /\ up' = up
  BY DEF PowerSourceChanged, SetPowerOverride, ConfigReloaded, loopVars, Idle
<1>3. Client \/ Reconcile \/ ReconcileResult => up /\ up' = up
  BY DEF Client, IpcFreeze, IpcThaw, IpcThawAll, Reconcile, ReconcileResult, loopVars, Idle
<1>4. (\E p \in Proc : Spawn(p) \/ Exit(p)) \/ UNCHANGED vars =>
         up' = up /\ stopped' \subseteq stopped
  BY DEF Spawn, Exit, loopVars, vars
<1>5. QED
  BY <1>1, <1>2, <1>3, <1>4, NextIs

LEMMA ReleaseStep ==
    ASSUME TypeOK, LedgerInv, ShutdownReleases, [Next]_vars
    PROVE  ShutdownReleases'
BY DownStep, ShutdownReleasesAll DEF ShutdownReleases

----------------------------------------------------------------------------
(* The invariant and what follows from it                                  *)

JournalInv ==
    /\ RegistryInv
    /\ PlanAllowed
    /\ FrozenRootsRecorded
    /\ LedgerInv
    /\ ShutdownReleases

LEMMA JournalInit == Init => JournalInv
<1> SUFFICES ASSUME Init PROVE JournalInv
  OBVIOUS
<1>1. LedgerInv
  BY DEF Init, LedgerInv, RefusersRun, RecordsAllowed, StoppedIsRecorded,
     ProtectedNeverStopped
<1>2. PlanAllowed /\ FrozenRootsRecorded /\ ShutdownReleases
  BY UntrackedEffect DEF Init, PlanAllowed, FrozenRootsRecorded, ShutdownReleases, In
<1>3. QED
  BY <1>1, <1>2, RegistryInit DEF JournalInv

LEMMA JournalStep ==
    ASSUME WakersUnprotected, TypeOK, JournalInv, [Next]_vars
    PROVE  JournalInv'
<1>1. RegistryInv' /\ PlanAllowed' /\ FrozenRootsRecorded'
  BY RegistryStep, PlanStep, FrozenRootsStep DEF JournalInv, RegistryInv
<1>2. LedgerInv' /\ ShutdownReleases'
  BY LedgerStep, ReleaseStep DEF JournalInv, RegistryInv
<1>3. QED
  BY <1>1, <1>2 DEF JournalInv

LEMMA JournalHolds ==
    ASSUME WakersUnprotected
    PROVE  Spec => [](TypeOK /\ JournalInv)
<1>1. Init => TypeOK /\ JournalInv
  BY InitType, JournalInit
<1>2. TypeOK /\ JournalInv /\ [Next]_vars => (TypeOK /\ JournalInv)'
  BY NextType, JournalStep
<1>3. QED
  BY <1>1, <1>2, PTL DEF Spec

\* Every process the daemon has stopped is in its journal, through freezes,
\* partial thaws, maintenance, sweeps, reloads and client requests, and when
\* the file cannot be written, as long as no application that is woken for
\* maintenance has a window of a process on the deny-list.
THEOREM NothingStoppedUnrecorded ==
    ASSUME WakersUnprotected
    PROVE  Spec => []StoppedIsRecorded
<1>1. JournalInv => StoppedIsRecorded
  BY DEF JournalInv, LedgerInv
<1>2. QED
  BY <1>1, JournalHolds, PTL

\* No process on the deny-list is ever stopped, by a rule, a maintenance sleep
\* or a client's request, under the same condition.
THEOREM ProtectedKeepRunning ==
    ASSUME WakersUnprotected
    PROVE  Spec => []ProtectedNeverStopped
<1>1. JournalInv => ProtectedNeverStopped
  BY DEF JournalInv, LedgerInv
<1>2. QED
  BY <1>1, JournalHolds, PTL

\* A clean shutdown leaves no process stopped, whether the registry still knew
\* its application or a client had stopped it, under the same condition.
THEOREM ShutdownLeavesNothingStopped ==
    ASSUME WakersUnprotected
    PROVE  Spec => []ShutdownReleases
<1>1. JournalInv => ShutdownReleases
  BY DEF JournalInv
<1>2. QED
  BY <1>1, JournalHolds, PTL

----------------------------------------------------------------------------
(* The registry tells the truth                                            *)

\* No client stops processes behind the back of the registry, and where an
\* unwritten intent stays armed in memory nobody is woken for maintenance:
\* its sleep would stop again what the registry has let go.
RegistryAlone ==
    /\ "freeze" \notin Commands
    /\ PersistMayFail => Wakers = {}

\* An application is recorded with its own processes.
RecordsOwned ==
    /\ \A a \in App : \A p \in rec[a] : Owner[p] = a /\ life[p] # "unborn"
    /\ \A p \in Proc : rec[p] = {}

PlanOwned ==
    pending # None => \A p \in pending.procs :
        /\ Owner[p] = pending.app /\ life[p] # "unborn"
        /\ p \in Root => p \in app[pending.app].roots

\* What owns a window and is stopped belongs to a frozen application, and is
\* known to it.
StoppedRootsFrozen ==
    \A p \in stopped \cap Root :
        app[Owner[p]].state = "frozen" /\ p \in app[Owner[p]].roots

\* So does what a maintenance sleep would stop.
WakersRecordRoots ==
    \A a \in Wakers : \A p \in Reached(rec[a]) \cap Root :
        app[a].state = "frozen" /\ p \in app[a].roots

TruthInv ==
    /\ RecordsOwned
    /\ PlanOwned
    /\ StoppedRootsFrozen
    /\ WakersRecordRoots

LEMMA TruthInit == Init => TruthInv
<1> SUFFICES ASSUME Init PROVE TruthInv
  OBVIOUS
<1>1. \A k \in Key : rec[k] = {}
  BY DEF Init
<1>2. RecordsOwned /\ WakersRecordRoots
  BY <1>1 DEF RecordsOwned, WakersRecordRoots, Key, Wakers, Reached
<1>3. PlanOwned /\ StoppedRootsFrozen
  BY DEF Init, PlanOwned, StoppedRootsFrozen
<1>4. QED
  BY <1>2, <1>3 DEF TruthInv

\* Records grow by a suspension only.
LEMMA RecordStep ==
    ASSUME TypeOK, RegistryAlone, [Next]_vars, NEW k \in Key, ~(rec'[k] \subseteq rec[k])
    PROVE  Suspend /\ k = pending.app
<1>1. Restoring => rec'[k] \subseteq rec[k]
  BY DEF Restoring, Restore, RetireEntries
<1>2. Timers \/ UNCHANGED vars => rec' = rec
  BY QuietTimers DEF vars
<1>3. SuspendTimer => Suspend \/ rec' = rec
  BY QuietSuspendTimer, QuietGuards DEF SuspendTimer
<1>4. Maintenance \/ (\E p \in Proc : Spawn(p) \/ Exit(p)) \/ Reconcile => rec' = rec
  BY DEF Maintenance, MaintenanceWake, MaintenanceSleep, Spawn, Exit, Reconcile, bookVars
<1>5. (\E s \in Sources : PowerSourceChanged(s)) \/ (\E f \in Overrides : SetPowerOverride(f))
         => \E on \in BOOLEAN : ReconcileManagement(on)
  BY ManagingType DEF PowerSourceChanged, SetPowerOverride, TypeOK
<1>6. ReconcileResult \/ Shutdown \/ IpcThawAll => rec'[k] \subseteq rec[k]
  BY DEF ReconcileResult, Shutdown, IpcThawAll, ReleaseRecorded
<1>7. ASSUME NEW l, NEW procs, IpcFreeze(l, procs) \/ IpcThaw(l, procs)
      PROVE  rec'[k] \subseteq rec[k]
  BY <1>7 DEF IpcFreeze, IpcThaw, RegistryAlone, TypeOK
<1>8. Client => rec'[k] \subseteq rec[k]
  BY <1>6, <1>7 DEF Client
<1>9. Suspend
  BY <1>1, <1>2, <1>3, <1>4, <1>5, <1>6, <1>8, NextIs, DesktopRestores, ManagementRestores
<1>10. PICK e \in Entry : SuspendOutcome(pending.app, pending.procs, e)
  BY <1>9, SuspendEffect
<1>11. rec' \in {rec, ArmEntry(pending.app, pending.procs),
                 ArmCommitEntry(pending.app, pending.procs)}
  BY <1>10 DEF SuspendOutcome, Untried, Reaching, Missing
<1>12. k = pending.app
  BY <1>11 DEF ArmEntry, ArmCommitEntry, TypeOK
<1>13. QED
  BY <1>9, <1>12

\* What a suspension puts on record.
LEMMA SuspendRecords ==
    ASSUME TypeOK, Suspend
    PROVE  LET a == pending.app IN
           /\ rec'[a] \subseteq rec[a] \cup pending.procs
           /\ \/ rec'[a] = rec[a]
              \/ PersistMayFail
              \/ /\ rec'[a] = (rec[a] \ pending.procs) \cup Reached(pending.procs)
                 /\ Reached(pending.procs) # {} => app'[a].state = "frozen"
<1> DEFINE a == pending.app
<1>1. PICK e \in Entry : SuspendOutcome(a, pending.procs, e)
  BY SuspendEffect
<1>2. a \in App /\ a \in Key /\ rec \in [Key -> SUBSET Proc]
  BY SuspendEffect DEF Key, TypeOK
<1>3. app'[a] = e
  BY <1>1, <1>2 DEF SuspendOutcome, TypeOK
<1>4. \/ rec' = rec
      \/ PersistMayFail /\ rec' = ArmEntry(a, pending.procs)
      \/ /\ rec' = ArmCommitEntry(a, pending.procs)
         /\ Reached(pending.procs) # {} => e.state = "frozen"
  BY <1>1 DEF SuspendOutcome, Untried, Reaching, Missing
<1>5. rec' = ArmEntry(a, pending.procs) => rec'[a] = rec[a] \cup pending.procs
  BY <1>2 DEF ArmEntry
<1>6. rec' = ArmCommitEntry(a, pending.procs) =>
         rec'[a] = (rec[a] \ pending.procs) \cup Reached(pending.procs)
  BY <1>2 DEF ArmCommitEntry
<1>7. Reached(pending.procs) \subseteq pending.procs
  BY DEF Reached
<1>8. QED
  BY <1>3, <1>4, <1>5, <1>6, <1>7

LEMMA OwnedStep ==
    ASSUME TypeOK, RegistryAlone, RecordsOwned, PlanOwned, [Next]_vars
    PROVE  RecordsOwned'
<1>1. rec \in [Key -> SUBSET Proc] /\ App \subseteq Key /\ Proc \subseteq Key
      /\ App \cap Proc = {}
  BY EngineAssumption DEF TypeOK, Key
<1>2. \A p \in Proc : life[p] # "unborn" => life'[p] # "unborn"
  BY LifeStep DEF Aged
<1>3. ASSUME NEW a \in App, NEW p \in rec'[a]
      PROVE  Owner[p] = a /\ life'[p] # "unborn"
  <2>1. p \in rec[a] \/ (Suspend /\ a = pending.app)
    BY <1>1, <1>3, RecordStep
  <2>2. p \in rec[a] \/ (p \in pending.procs /\ a = pending.app /\ Suspend)
    BY <1>3, <2>1, SuspendRecords
  <2>3. p \in Proc /\ Owner[p] = a /\ life[p] # "unborn"
    BY <1>1, <1>3, <2>2, SuspendEffect DEF RecordsOwned, PlanOwned
  <2>4. QED
    BY <1>2, <2>3
<1>4. ASSUME NEW p \in Proc
      PROVE  rec'[p] = {}
  <2>1. Suspend => p # pending.app
    BY <1>1, SuspendEffect
  <2>2. rec'[p] \subseteq rec[p]
    BY <1>1, <2>1, RecordStep
  <2>3. QED
    BY <2>2 DEF RecordsOwned
<1>5. QED
  BY <1>3, <1>4 DEF RecordsOwned

LEMMA PlanOwnedStep ==
    ASSUME TypeOK, RootsKnown, PlanOwned, [Next]_vars
    PROVE  PlanOwned'
<1>1. \A p \in Proc : life[p] # "unborn" => life'[p] # "unborn"
  BY LifeStep DEF Aged
<1>2. CASE pending' = None
  BY <1>2 DEF PlanOwned
<1>3. CASE pending' = pending /\ pending # None /\ (Timers \/ app' = app)
  <2>1. pending.app \in App /\ pending.procs \subseteq Proc
    BY <1>3 DEF TypeOK
  <2>2. app'[pending.app].roots = app[pending.app].roots
    BY <1>3, <2>1, QuietTimers DEF Quiet
  <2>3. QED
    BY <1>1, <1>3, <2>1, <2>2 DEF PlanOwned
<1>4. ASSUME NEW a \in App, ScanTree(a)
      PROVE  PlanOwned'
  <2>1. PICK procs \in {Allowed(ExpandTree(a)), {}} :
          pending' = [app |-> a, procs |-> procs]
    BY <1>4 DEF ScanTree
  <2>2. pending'.app = a /\ pending'.procs = procs
    BY <2>1
  <2>3. app' = app /\ life' = life
    BY <1>4 DEF ScanTree, bookVars, osVars
  <2>4. ASSUME NEW p \in procs
        PROVE  Owner[p] = a /\ life[p] # "unborn" /\ (p \in Root => p \in app[a].roots)
    <3>1. p \in Proc /\ p \in Alive /\ Parent[p] \in app[a].roots
      BY <2>1, <2>4 DEF Allowed, ExpandTree, Alive
    <3>2. Owner[p] = Owner[Parent[p]] /\ Owner[Parent[p]] = a
      BY <3>1, EngineAssumption DEF RootsKnown
    <3>3. QED
      BY <3>1, <3>2 DEF Root, Alive
  <2>5. QED
    BY <2>2, <2>3, <2>4 DEF PlanOwned
<1>5. QED
  BY <1>2, <1>3, <1>4, PendingKept

\* More is stopped by a suspension and by a maintenance sleep only.
LEMMA StopsGrow ==
    ASSUME TypeOK, RegistryAlone, [Next]_vars, ~(stopped' \subseteq stopped)
    PROVE  \/ Suspend /\ stopped' \subseteq stopped \cup Reached(pending.procs)
              /\ app'[pending.app].state = "frozen"
           \/ \E a \in App : /\ MaintenanceSleep(a) /\ app[a].state = "frozen"
                             /\ stopped' \subseteq stopped \cup Reached(RecordedProcs(a))
<1>1. Restoring => stopped' \subseteq stopped
  BY DEF Restoring, Restore
<1>2. Timers \/ UNCHANGED vars => stopped' = stopped
  BY QuietTimers DEF osVars, vars
<1>3. SuspendTimer => Suspend \/ stopped' = stopped
  BY QuietSuspendTimer, QuietGuards DEF SuspendTimer, osVars
<1>4. (\E p \in Proc : Spawn(p) \/ Exit(p)) \/ Reconcile \/ ReconcileResult =>
         stopped' \subseteq stopped
  BY DEF Spawn, Exit, Reconcile, ReconcileResult, osVars
<1>5. (\E s \in Sources : PowerSourceChanged(s)) \/ (\E f \in Overrides : SetPowerOverride(f))
         => \E on \in BOOLEAN : ReconcileManagement(on)
  BY ManagingType DEF PowerSourceChanged, SetPowerOverride, TypeOK
<1>6. Shutdown \/ Client => stopped' \subseteq stopped
  BY DEF Shutdown, Client, IpcThawAll, ReleaseRecorded, IpcFreeze, IpcThaw, RegistryAlone
<1>7. Suspend \/ Maintenance
  BY <1>1, <1>2, <1>3, <1>4, <1>5, <1>6, NextIs, DesktopRestores, ManagementRestores
<1>8. CASE Suspend
  <2>1. PICK e \in Entry : SuspendOutcome(pending.app, pending.procs, e)
    BY <1>8, SuspendEffect
  <2>2. app'[pending.app] = e
    BY <1>8, <2>1, SuspendEffect DEF SuspendOutcome, TypeOK
  <2>3. stopped' \subseteq stopped \cup Reached(pending.procs) /\ e.state = "frozen"
    BY <2>1 DEF SuspendOutcome, Untried, Reaching, Missing
  <2>4. QED
    BY <1>8, <2>2, <2>3
<1>9. CASE Maintenance
  <2>1. PICK a \in App : MaintenanceWake(a) \/ MaintenanceSleep(a)
    BY <1>9 DEF Maintenance
  <2>2. MaintenanceSleep(a) /\ app[a].state = "frozen"
    BY <2>1 DEF MaintenanceWake, MaintenanceSleep
  <2>3. QED
    BY <2>2 DEF MaintenanceSleep
<1>10. QED
  BY <1>7, <1>8, <1>9

LEMMA StoppedRootsStep ==
    ASSUME TypeOK, RegistryAlone, FoundDead, RootsKnown, OnlyWakersWake, LedgerInv,
           TruthInv, [Next]_vars
    PROVE  StoppedRootsFrozen'
<1> SUFFICES ASSUME NEW p \in stopped', p \in Root
             PROVE  app'[Owner[p]].state = "frozen" /\ p \in app'[Owner[p]].roots
  BY DEF StoppedRootsFrozen
<1> DEFINE a == Owner[p]
<1>1. a \in App /\ p \in Proc /\ app[a] \in Entry
  BY OwnerType DEF TypeOK
<1>2. CASE p \in stopped
  <2>1. app[a].state = "frozen" /\ p \in app[a].roots /\ p \in Alive
    BY <1>2 DEF TruthInv, StoppedRootsFrozen, TypeOK
  <2>2. PICK k \in Key : p \in rec[k]
    BY <1>2, LedgerIs
  <2>3. k = a
    BY <1>1, <2>2 DEF TruthInv, RecordsOwned, Key
  <2>4. p \in Reached(rec[a]) /\ ~(app[a].roots \subseteq Exited)
    BY <1>2, <2>1, <2>2, <2>3, LedgerIs DEF Reached, Alive, Exited
  <2>5. app'[a].state = "frozen"
    BY <1>1, <2>1, <2>4, NextFate DEF Fate
  <2>6. p \in app'[a].roots
    BY <1>1, <2>1, <2>5, FrozenRootsShrink DEF Shrunk
  <2>7. QED
    BY <2>5, <2>6
<1>3. CASE p \notin stopped
  <2>1. CASE /\ Suspend /\ p \in Reached(pending.procs)
             /\ app'[pending.app].state = "frozen"
    <3>1. pending # None /\ p \in pending.procs /\ p \in Alive
      BY <2>1, SuspendEffect DEF Reached
    <3>2. a = pending.app /\ p \in app[a].roots
      BY <3>1 DEF TruthInv, PlanOwned
    <3>3. p \in app'[a].roots
      BY <1>1, <2>1, <3>1, <3>2, SuspendMoves DEF Shrunk
    <3>4. QED
      BY <2>1, <3>2, <3>3
  <2>2. ASSUME NEW b \in App, MaintenanceSleep(b), app[b].state = "frozen",
               p \in Reached(RecordedProcs(b))
        PROVE  app'[a].state = "frozen" /\ p \in app'[a].roots
    <3>1. b \in Wakers
      BY <2>2, ReceiveTakes DEF MaintenanceSleep, OnlyWakersWake, Sent
    <3>2. a = b /\ p \in app[b].roots
      <4>1. CASE p \in rec[b]
        BY <2>2, <3>1, <4>1 DEF TruthInv, RecordsOwned, WakersRecordRoots, Reached
      <4>2. CASE p \notin rec[b]
        BY <2>2, <4>2 DEF RecordedProcs, Reached, RootsKnown
      <4>3. QED
        BY <4>1, <4>2
    <3>3. QED
      BY <2>2, <3>2, QuietMaintenance DEF Quiet
  <2>3. QED
    BY <1>3, <2>1, <2>2, StopsGrow
<1>4. QED
  BY <1>2, <1>3

LEMMA WakersRecordStep ==
    ASSUME TypeOK, RegistryAlone, FoundDead, LedgerInv, TruthInv, [Next]_vars
    PROVE  WakersRecordRoots'
<1> SUFFICES ASSUME NEW a \in Wakers, NEW p \in rec'[a], p \in Alive', p \notin Refusers,
                    p \in Root
             PROVE  app'[a].state = "frozen" /\ p \in app'[a].roots
  BY DEF WakersRecordRoots, Reached
<1>1. a \in App /\ a \in Key /\ p \in Proc /\ ~PersistMayFail
  BY OwnerType DEF Wakers, Key, RegistryAlone
<1>2. CASE p \in rec[a]
  <2>1. p \in Alive
    BY <1>1, <1>2, LifeStep DEF Aged, TruthInv, RecordsOwned
  <2>2. p \in Reached(rec[a])
    BY <1>2, <2>1 DEF Reached
  <2>3. app[a].state = "frozen" /\ p \in app[a].roots
    BY <2>2 DEF TruthInv, WakersRecordRoots
  <2>4. p \notin Exited
    BY <2>1 DEF Alive, Exited
  <2>5. app'[a].state = "frozen"
    BY <1>1, <2>2, <2>3, <2>4, NextFate DEF Fate
  <2>6. QED
    BY <1>1, <2>1, <2>3, <2>5, FrozenRootsShrink DEF Shrunk
<1>3. CASE p \notin rec[a]
  <2>1. Suspend /\ a = pending.app
    BY <1>1, <1>3, RecordStep
  <2>2. p \in Reached(pending.procs) /\ app'[a].state = "frozen"
    BY <1>1, <1>3, <2>1, SuspendRecords
  <2>3. p \in pending.procs /\ p \in Alive /\ pending # None
    BY <2>1, <2>2, SuspendEffect DEF Reached
  <2>4. p \in app[a].roots
    BY <2>1, <2>3 DEF TruthInv, PlanOwned
  <2>5. p \in app'[a].roots
    BY <1>1, <2>1, <2>3, <2>4, SuspendMoves DEF Shrunk
  <2>6. QED
    BY <2>2, <2>5
<1>4. QED
  BY <1>2, <1>3

LEMMA TruthHolds ==
    ASSUME WakersUnprotected, RegistryAlone
    PROVE  Spec => [](TypeOK /\ JournalInv /\ TruthInv)
<1>1. Init => TypeOK /\ JournalInv /\ TruthInv
  BY InitType, JournalInit, TruthInit
<1>2. ASSUME TypeOK, JournalInv, TruthInv, [Next]_vars
      PROVE  (TypeOK /\ JournalInv /\ TruthInv)'
  <2>1. TypeOK' /\ JournalInv'
    BY <1>2, NextType, JournalStep
  <2>2. RecordsOwned' /\ PlanOwned' /\ StoppedRootsFrozen' /\ WakersRecordRoots'
    BY <1>2, OwnedStep, PlanOwnedStep, StoppedRootsStep, WakersRecordStep
       DEF JournalInv, RegistryInv, TruthInv
  <2>3. QED
    BY <2>1, <2>2 DEF TruthInv
<1>3. QED
  BY <1>1, <1>2, PTL DEF Spec

\* Only the processes of an application that is in state Frozen are stopped,
\* among those that own its windows, as long as no client stops processes on
\* its own: every way out of that state continues them, whoever takes it.
THEOREM RegistryTellsTheTruth ==
    ASSUME WakersUnprotected, RegistryAlone
    PROVE  Spec => []OnlyFrozenStopped
<1>1. ASSUME TypeOK, JournalInv, TruthInv
      PROVE  OnlyFrozenStopped
  <2>1. \A a \in App : app[a].roots \subseteq Root /\ \A p \in app[a].roots : Owner[p] = a
    BY <1>1 DEF JournalInv, RegistryInv, RootsKnown, TypeOK, Entry
  <2>2. \A p \in stopped \cap Root : app[Owner[p]].state = "frozen"
    BY <1>1 DEF TruthInv, StoppedRootsFrozen
  <2>3. QED
    BY <2>1, <2>2 DEF OnlyFrozenStopped, Tracked
<1>2. TypeOK /\ JournalInv /\ TruthInv => OnlyFrozenStopped
  BY <1>1
<1>3. QED
  BY <1>2, TruthHolds, PTL

LEMMA FocusedIsActive ==
    ASSUME TypeOK, NEW p \in Proc, FocusChanged(p)
    PROVE  Owner[p] \in App /\ app'[Owner[p]].state = "active"
<1>1. p \in Root /\ Owner[p] \in App
  BY OwnerType DEF FocusChanged
<1>2. CASE RegisterNewApp(Owner[p], p)
  <2>1. NewEntry(Owner[p], p).state = "active"
    BY <1>1, NewEntryEffect DEF TypeOK
  <2>2. QED
    BY <1>1, <1>2, <2>1 DEF RegisterNewApp
<1>3. CASE ActivateExistingApp(Owner[p], p)
  <2>1. Owner[p] \in Tracked
    BY <1>3 DEF ActivateExistingApp
  <2>2. PICK e \in Entry : /\ e.state = "active"
          /\ app' = [b \in App |-> IF b = Owner[p] THEN e ELSE Backgrounded(app[b])]
    BY <1>1, <1>3, <2>1, ActivatedEffect
  <2>3. QED
    BY <1>1, <2>2
<1>4. QED
  BY <1>1, <1>2, <1>3 DEF FocusChanged

\* When the focus handler returns, no process that owns a window of the
\* focused application is stopped, in whatever state the application was and
\* whatever was dead, refused or recorded, under the same conditions.
THEOREM FocusAlwaysResumes ==
    ASSUME WakersUnprotected, RegistryAlone
    PROVE  Spec => FocusResumes
<1> DEFINE Inv == TypeOK /\ JournalInv /\ TruthInv
<1>1. ASSUME Inv, Inv', NEW p \in Proc, FocusChanged(p)
      PROVE  app'[Owner[p]].roots \cap stopped' = {}
  <2>1. Owner[p] \in App /\ app'[Owner[p]].state = "active"
    BY <1>1, FocusedIsActive
  <2>2. \A q \in app'[Owner[p]].roots : Owner[q] = Owner[p] /\ q \in Root
    BY <1>1, <2>1 DEF JournalInv, RegistryInv, RootsKnown, TypeOK, Entry
  <2>3. \A q \in stopped' \cap Root : app'[Owner[q]].state = "frozen"
    BY <1>1 DEF TruthInv, StoppedRootsFrozen
  <2>4. QED
    BY <2>1, <2>2, <2>3
<1>2. Inv /\ Inv' /\ [Next]_vars =>
         [\A p \in Proc : FocusChanged(p) => app'[Owner[p]].roots \cap stopped' = {}]_vars
  BY <1>1
<1>3. QED
  BY <1>2, TruthHolds, PTL DEF Spec, FocusResumes
=============================================================================
