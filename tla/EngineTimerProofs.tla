------------------------- MODULE EngineTimerProofs -------------------------
(***************************************************************************)
(* Proofs about Engine: no timer is lost between the entries, the bounded  *)
(* channel and the handlers.  A frozen application has its next wake ahead *)
(* of it, and one in the background its suspension.                        *)
(***************************************************************************)
EXTENDS EngineJournalProofs

\* A reload does not change which applications are woken.  The timers of an
\* application that is frozen stay as they are when its policy changes.
MaintenanceFixed ==
    \A c \in Configs, d \in Configs, a \in App :
        c.rules[a].maintenance => d.rules[a].maintenance

\* A reload does not change which applications are left alone.
IgnoreFixed ==
    \A c \in Configs, d \in Configs, a \in App :
        c.rules[a].action = "ignore" => d.rules[a].action = "ignore"

\* The windows of an application are all of processes on the deny-list or none.
UniformProtection ==
    \A p \in Root, q \in Root :
        Owner[p] = Owner[q] /\ p \in Protected => q \in Protected

\* No scan and no write of the journal fails, no event finds the application
\* resumed a moment ago, and no client thaws by hand: the four that end a
\* suspension without starting another timer.
Undisturbed ==
    /\ ~ScanMayFail /\ ~PersistMayFail /\ ~GraceMayHold
    /\ "thaw" \notin Commands /\ "thawAll" \notin Commands

----------------------------------------------------------------------------
(* The channel                                                             *)

\* An event leaves the channel for its handler only.
LEMMA EventKept ==
    ASSUME TypeOK, [Next]_vars, NEW e \in InChannel
    PROVE  \/ e \in InChannel'
           \/ \E a \in App : \E kind \in Kinds : e = <<kind, a>> /\ Handled(kind, a)
<1>1. queue' = queue => e \in InChannel'
  BY DEF InChannel
<1>2. ASSUME NEW x \in Kinds \X App, Send(x)
      PROVE  e \in InChannel'
  BY <1>2, SendAdds
<1>3. CASE Timers
  <2>1. ASSUME NEW a \in App, FireSuspendTimer(a)
        PROVE  e \in InChannel'
    BY <1>2, <2>1 DEF FireSuspendTimer, Kinds
  <2>2. ASSUME NEW a \in App, FireMaintenance(a)
        PROVE  e \in InChannel'
    <3>1. <<app[a].maint, a>> \in Kinds \X App
      BY <2>2 DEF FireMaintenance, TypeOK, Entry, Kinds
    <3>2. QED
      BY <1>2, <2>2, <3>1 DEF FireMaintenance
  <2>3. ASSUME NEW x \in stray, FireStray(x)
        PROVE  e \in InChannel'
    BY <1>2, <2>3 DEF FireStray, TypeOK
  <2>4. QED
    BY <1>3, <2>1, <2>2, <2>3 DEF Timers
<1>4. ASSUME NEW a \in App, NEW kind \in Kinds, Handled(kind, a), e # <<kind, a>>
      PROVE  e \in InChannel'
  BY <1>4, HandledReceived, ReceiveTakes
<1>5. (\E a \in App : WindowClosed(a)) => queue' = queue
  BY DEF WindowClosed
<1>6. QED
  BY <1>1, <1>3, <1>4, <1>5, ChannelKept

LEMMA MaintenanceSends ==
    ASSUME TypeOK, NEW a \in App, FireMaintenance(a)
    PROVE  <<"wake", a>> \in InChannel' \/ <<"sleep", a>> \in InChannel'
<1>1. app[a].maint \in {"wake", "sleep"}
  BY DEF FireMaintenance, TypeOK, Entry
<1>2. <<app[a].maint, a>> \in Kinds \X App /\ Send(<<app[a].maint, a>>)
  BY <1>1 DEF FireMaintenance, Kinds
<1>3. <<app[a].maint, a>> \in InChannel'
  BY <1>2, SendAdds
<1>4. QED
  BY <1>1, <1>3

----------------------------------------------------------------------------
(* The chain of wakes                                                      *)

\* An application that any configuration wakes is woken.
WakersTold == \A a \in Wakers \cap Tracked : app[a].policy.maintenance

\* Its next wake or sleep is on a timer or in the channel while it is frozen.
WakeAhead(a) ==
    \/ app[a].maint # "off"
    \/ <<"wake", a>> \in InChannel \/ <<"sleep", a>> \in InChannel

Chained == \A a \in Wakers : up /\ app[a].state = "frozen" => WakeAhead(a)

ChainInv == RegistryInv /\ WakersTold /\ Chained

\* A suspension tracks nobody new.
LEMMA SuspendTracked ==
    ASSUME TypeOK, Suspend, NEW a \in App
    PROVE  app[a].state = "untracked" => app'[a] = app[a]
<1>1. PICK e \in Entry : SuspendOutcome(pending.app, pending.procs, e)
  BY SuspendEffect
<1>2. pending.app \in App
  BY SuspendEffect
<1>3. app'[a] = app[a] \/ app[a].state = "background"
  BY <1>1, <1>2 DEF SuspendOutcome, Untried, Reaching, Missing, TypeOK
<1>4. QED
  BY <1>3

LEMMA WakersToldStep ==
    ASSUME MaintenanceFixed, TypeOK, FoundDead, WakersTold, [Next]_vars
    PROVE  WakersTold'
<1> SUFFICES ASSUME NEW a \in Wakers, app'[a].state # "untracked"
             PROVE  app'[a].policy.maintenance
  BY DEF WakersTold, Tracked
<1>1. a \in App /\ (app[a].state # "untracked" => app[a].policy.maintenance)
  BY DEF WakersTold, Wakers, Tracked
<1>2. ASSUME NEW c \in Configs, NEW w, app'[a].policy = ResolvedPolicy(c, a, w)
      PROVE  app'[a].policy.maintenance
  BY <1>1, <1>2, ResolvedPolicyType DEF MaintenanceFixed, Wakers
<1>3. CASE Moved(a)
  BY <1>1, <1>2, <1>3 DEF Moved, Ruled, Kept
<1>4. CASE Maintenance
  BY <1>1, <1>4, QuietMaintenance DEF Maintenance, Quiet, Kept
<1>5. CASE Suspend
  <2>1. Kept(app'[a], app[a])
    BY <1>1, <1>5, SuspendMoves
  <2>2. app[a].state # "untracked"
    BY <1>1, <1>5, SuspendTracked
  <2>3. QED
    BY <1>1, <2>1, <2>2 DEF Kept
<1>6. QED
  BY <1>1, <1>3, <1>4, <1>5, NextMoves

LEMMA ChainedStep ==
    ASSUME TypeOK, FoundDead, WakersTold, Chained, [Next]_vars
    PROVE  Chained'
<1> SUFFICES ASSUME NEW a \in Wakers, up', app'[a].state = "frozen"
             PROVE  WakeAhead(a)'
  BY DEF Chained
<1>1. a \in App /\ app[a] \in Entry
  BY DEF Wakers, TypeOK
<1>2. up
  BY DownStep DEF Shutdown
<1>3. CASE app[a].state # "frozen"
  <2>1. Suspend /\ a = pending.app /\ app[a].state = "background"
    BY <1>1, <1>3, FreezesBySuspend
  <2>2. PICK e \in Entry : SuspendOutcome(a, pending.procs, e)
    BY <2>1, SuspendEffect
  <2>3. app'[a] = e /\ app[a].policy.maintenance
    BY <1>1, <2>1, <2>2 DEF SuspendOutcome, TypeOK, WakersTold, Tracked
  <2>4. Reaching(a, pending.procs, e)
    BY <2>1, <2>2, <2>3 DEF SuspendOutcome, Untried, Missing
  <2>5. e.maint = "wake"
    BY <2>3, <2>4 DEF Reaching
  <2>6. QED
    BY <2>3, <2>5 DEF WakeAhead
<1>4. CASE app[a].state = "frozen"
  <2>1. WakeAhead(a)
    BY <1>2, <1>4 DEF Chained
  <2>2. ASSUME NEW k \in {"wake", "sleep"}, Handled(k, a)
        PROVE  WakeAhead(a)'
    <3>1. PICK n \in {"wake", "sleep"} : app' = [app EXCEPT ![a] = SetMaintenance(@, n)]
      BY <1>4, <2>2 DEF Handled, MaintenanceWake, MaintenanceSleep
    <3>2. PICK f : f = SetMaintenance(app[a], n)
      OBVIOUS
    <3>3. app'[a] = f
      BY <1>1, <3>1, <3>2 DEF TypeOK
    <3>4. f.maint = n
      BY <1>1, <3>2, SetMaintenanceEffect
    <3>5. QED
      BY <3>3, <3>4 DEF WakeAhead
  <2>3. ASSUME NEW k \in {"wake", "sleep"}, <<k, a>> \in InChannel
        PROVE  WakeAhead(a)'
    <3>1. <<k, a>> \in InChannel' \/ Handled(k, a)
      BY <2>3, EventKept
    <3>2. QED
      BY <2>2, <2>3, <3>1 DEF WakeAhead
  <2>4. CASE app[a].maint # "off"
    <3>1. CASE Moved(a)
      <4>1. app'[a].maint = app[a].maint \/ FireMaintenance(a)
        BY <3>1 DEF Moved
      <4>2. QED
        BY <1>1, <2>4, <4>1, MaintenanceSends DEF WakeAhead
    <3>2. CASE Suspend
      <4>1. app'[a].maint = app[a].maint \/ app'[a].maint = "wake"
        BY <1>1, <3>2, SuspendMoves
      <4>2. QED
        BY <2>4, <4>1 DEF WakeAhead
    <3>3. CASE Maintenance
      <4>1. PICK b \in App : MaintenanceWake(b) \/ MaintenanceSleep(b)
        BY <3>3 DEF Maintenance
      <4>2. a # b => app'[a] = app[a]
        BY <1>1, <4>1 DEF MaintenanceWake, MaintenanceSleep, TypeOK
      <4>3. a = b => Handled("wake", a) \/ Handled("sleep", a)
        BY <4>1 DEF Handled
      <4>4. QED
        BY <2>2, <2>4, <4>2, <4>3 DEF WakeAhead
    <3>4. QED
      BY <1>1, <3>1, <3>2, <3>3, NextMoves
  <2>5. QED
    BY <2>1, <2>3, <2>4 DEF WakeAhead
<1>5. QED
  BY <1>3, <1>4

\* A frozen application with maintenance wake-ups has its next wake or sleep
\* on a timer or in the channel until the daemon shuts down, whatever fires,
\* reloads, thaws or waits in between, if no reload changes who is woken.
THEOREM ChainNeverBreaks ==
    ASSUME MaintenanceFixed
    PROVE  Spec => []FrozenWillWake
<1>1. Init => TypeOK /\ ChainInv
  <2>1. Init => WakersTold /\ Chained
    BY UntrackedEffect DEF Init, WakersTold, Chained, Tracked, Wakers
  <2>2. QED
    BY <2>1, InitType, RegistryInit DEF ChainInv
<1>2. TypeOK /\ ChainInv /\ [Next]_vars => (TypeOK /\ ChainInv)'
  BY NextType, RegistryStep, WakersToldStep, ChainedStep DEF ChainInv, RegistryInv
<1>3. TypeOK /\ ChainInv => FrozenWillWake
  <2> SUFFICES ASSUME TypeOK, ChainInv, NEW a \in In({"frozen"}), up,
                      app[a].policy.maintenance
               PROVE  \/ app[a].maint # "off"
                      \/ EventsOf(a) \cap {<<"wake", a>>, <<"sleep", a>>} # {}
    BY DEF FrozenWillWake
  <2>1. a \in Wakers
    BY DEF ChainInv, RegistryInv, OnlyWakersWake, In
  <2>2. WakeAhead(a)
    BY <2>1 DEF ChainInv, Chained, In
  <2>3. \A k \in Kinds : <<k, a>> \in InChannel => <<k, a>> \in EventsOf(a)
    BY DEF InChannel, EventsOf
  <2>4. QED
    BY <2>2, <2>3 DEF WakeAhead, Kinds
<1>4. QED
  BY <1>1, <1>2, <1>3, PTL DEF Spec

----------------------------------------------------------------------------
(* Who is left alone                                                       *)

\* Left alone by the configuration, or because the windows are protected.
Ignored == {a \in App : \/ \E c \in Configs : c.rules[a].action = "ignore"
                        \/ \E p \in Root \cap Protected : Owner[p] = a}

\* The last window of a tracked application is one of its own, and its policy
\* leaves it alone exactly when it is to be.
TrackedRuled ==
    \A a \in Tracked :
        /\ app[a].win \in Root /\ Owner[app[a].win] = a
        /\ app[a].policy.action = "ignore" <=> a \in Ignored

LEMMA ResolvedIgnored ==
    ASSUME IgnoreFixed, UniformProtection, NEW c \in Configs, NEW a \in App,
           NEW w \in Root, Owner[w] = a
    PROVE  ResolvedPolicy(c, a, w).action = "ignore" <=> a \in Ignored
<1>1. c.rules[a] \in Policy
  BY RulesType
<1>2. CASE w \in Protected
  BY <1>1, <1>2 DEF ResolvedPolicy, Policy, Ignored
<1>3. CASE w \notin Protected
  <2>1. ResolvedPolicy(c, a, w) = c.rules[a]
    BY <1>3 DEF ResolvedPolicy
  <2>2. ~\E p \in Root \cap Protected : Owner[p] = a
    BY <1>3 DEF UniformProtection
  <2>3. QED
    BY <2>1, <2>2 DEF IgnoreFixed, Ignored
<1>4. QED
  BY <1>2, <1>3

LEMMA TrackedRuledStep ==
    ASSUME IgnoreFixed, UniformProtection, TypeOK, FoundDead, TrackedRuled, [Next]_vars
    PROVE  TrackedRuled'
<1> SUFFICES ASSUME NEW a \in App, app'[a].state # "untracked"
             PROVE  /\ app'[a].win \in Root /\ Owner[app'[a].win] = a
                    /\ app'[a].policy.action = "ignore" <=> a \in Ignored
  BY DEF TrackedRuled, Tracked, Ignored
<1>1. app[a].state # "untracked" =>
         /\ app[a].win \in Root /\ Owner[app[a].win] = a
         /\ app[a].policy.action = "ignore" <=> a \in Ignored
  BY DEF TrackedRuled, Tracked
<1>2. CASE Moved(a)
  <2>1. Ruled(app'[a], app[a], a)
    BY <1>2 DEF Moved
  <2>2. app'[a].win \in Root /\ Owner[app'[a].win] = a
    BY <1>1, <2>1 DEF Ruled, Kept, Windows
  <2>3. CASE app'[a].policy = app[a].policy /\ app[a].state # "untracked"
    BY <1>1, <2>2, <2>3
  <2>4. ASSUME NEW c \in Configs, app'[a].policy = ResolvedPolicy(c, a, app'[a].win)
        PROVE  app'[a].policy.action = "ignore" <=> a \in Ignored
    BY <2>2, <2>4, ResolvedIgnored
  <2>5. QED
    BY <2>1, <2>2, <2>3, <2>4 DEF Ruled, Kept
<1>3. CASE Maintenance
  BY <1>1, <1>3, QuietMaintenance DEF Maintenance, Quiet, Kept
<1>4. CASE Suspend
  BY <1>1, <1>4, SuspendMoves, SuspendTracked DEF Kept
<1>5. QED
  BY <1>2, <1>3, <1>4, NextMoves

----------------------------------------------------------------------------
(* Waiting to be suspended                                                 *)

Waiting(a) ==
    up /\ Managing /\ app[a].state = "background" /\ app[a].policy.action # "ignore"

Backed(a) ==
    \/ app[a].timer
    \/ <<"suspend", a>> \in InChannel
    \/ pending # None /\ pending.app = a
    \/ failures[a] = MaxAttempts
    \/ app[a].roots \cap Alive = {}

WaitersBacked == \A a \in App : Waiting(a) => Backed(a)

\* What every step but a suspension does: who waits afterwards has a timer, or
\* waited before with no more roots and as many failures, and its timer, if it
\* had one, has fired.
Holds(a) ==
    /\ up' /\ Managing' /\ app'[a].state = "background"
    /\ app'[a].policy.action # "ignore"
    /\ ~app'[a].timer
    => /\ Waiting(a) /\ app'[a].roots \subseteq app[a].roots
       /\ failures'[a] = failures[a]
       /\ app[a].timer => FireSuspendTimer(a)

LEMMA SameHolds ==
    ASSUME NEW a \in App, app'[a] = app[a], failures'[a] = failures[a], up' = up,
           UNCHANGED powerVars
    PROVE  Holds(a)
<1>1. app[a].timer => app'[a].timer
  OBVIOUS
<1>2. Managing' = Managing
  BY ManagingKept
<1>3. QED
  BY <1>1, <1>2, Zenon DEF Holds, Waiting

\* A quiet step that keeps the timer, starts it or lets it fire.
LEMMA QuietHolds ==
    ASSUME Quiet, NEW a \in App, failures' = failures, up' = up, UNCHANGED powerVars,
           app[a].timer => app'[a].timer \/ FireSuspendTimer(a)
    PROVE  Holds(a)
<1>1. /\ app'[a].state = app[a].state /\ app'[a].policy = app[a].policy
      /\ app'[a].roots = app[a].roots
  BY DEF Quiet, Kept
<1>2. Managing' = Managing /\ failures'[a] = failures[a]
  BY ManagingKept
<1>3. QED
  BY <1>1, <1>2 DEF Holds, Waiting

LEMMA TimersHold ==
    ASSUME TypeOK, Timers, NEW a \in App
    PROVE  Holds(a)
<1>1. Quiet /\ UNCHANGED powerVars /\ up' = up
  BY QuietTimers
<1>2. failures' = failures
  BY DEF Timers, FireSuspendTimer, FireMaintenance, FireStray, bookVars
<1>3. ASSUME NEW b \in App, FireSuspendTimer(b)
      PROVE  app[a].timer => app'[a].timer \/ FireSuspendTimer(a)
  <2>1. a # b => app'[a] = app[a]
    BY <1>3 DEF FireSuspendTimer, TypeOK
  <2>2. QED
    BY <1>3, <2>1
<1>4. ASSUME NEW b \in App, FireMaintenance(b)
      PROVE  app[a].timer => app'[a].timer
  <2>1. PICK f : f = SetMaintenance(app[b], "off")
    OBVIOUS
  <2>2. f.timer <=> app[b].timer
    BY <2>1, SetMaintenanceEffect DEF TypeOK
  <2>3. app'[a] = IF a = b THEN f ELSE app[a]
    BY <1>4, <2>1 DEF FireMaintenance, TypeOK
  <2>4. QED
    BY <2>2, <2>3
<1>5. (\E e \in stray : FireStray(e)) => app' = app
  BY DEF FireStray, bookVars
<1>6. QED
  BY <1>1, <1>2, <1>3, <1>4, <1>5, QuietHolds DEF Timers

LEMMA MaintenanceHolds ==
    ASSUME TypeOK, NEW b \in App, MaintenanceWake(b) \/ MaintenanceSleep(b), NEW a \in App
    PROVE  Holds(a)
<1>1. Quiet /\ UNCHANGED <<powerVars, failures>> /\ up' = up
  BY QuietMaintenance DEF MaintenanceWake, MaintenanceSleep, Receive
<1>2. ASSUME NEW n \in {"wake", "sleep"}, app' = [app EXCEPT ![b] = SetMaintenance(@, n)]
      PROVE  app[a].timer => app'[a].timer
  <2>1. PICK f : f = SetMaintenance(app[b], n)
    OBVIOUS
  <2>2. f.timer <=> app[b].timer
    BY <2>1, SetMaintenanceEffect DEF TypeOK
  <2>3. app'[a] = IF a = b THEN f ELSE app[a]
    BY <1>2, <2>1 DEF TypeOK
  <2>4. QED
    BY <2>2, <2>3
<1>3. app[a].timer => app'[a].timer
  BY <1>2 DEF MaintenanceWake, MaintenanceSleep
<1>4. QED
  BY <1>1, <1>3, QuietHolds

\* An entry that had the focus, or not, while another takes it.
LEMMA BackgroundedHolds ==
    ASSUME TypeOK, NEW a \in App, app'[a] = Backgrounded(app[a]),
           failures'[a] = failures[a], up' = up, UNCHANGED powerVars
    PROVE  Holds(a)
<1>1. /\ Kept(app'[a], app[a]) /\ app'[a].roots = app[a].roots
      /\ app'[a].state = (IF app[a].state = "active" THEN "background" ELSE app[a].state)
      /\ app[a].state = "active" /\ Managing => app'[a].timer
      /\ app[a].timer => app'[a].timer
  BY BackgroundedEffect DEF TypeOK
<1>2. Managing' = Managing
  BY ManagingKept
<1>3. QED
  BY <1>1, <1>2 DEF Holds, Waiting, Kept

LEMMA DesktopHolds ==
    ASSUME TypeOK, Desktop, NEW a \in App
    PROVE  Holds(a)
<1>1. app[a] \in Entry /\ failures \in [App -> 0..MaxAttempts]
  BY DEF TypeOK
<1>2. up' = up /\ UNCHANGED powerVars
  BY DEF Desktop, FocusChanged, RegisterNewApp, ActivateExistingApp, WorkspaceChanged,
     ActivationRequested, PreThaw, WindowClosed, loopVars
<1>3. ASSUME NEW p \in Root \cap Alive, RegisterNewApp(Owner[p], p)
      PROVE  Holds(a)
  <2>1. CASE a # Owner[p]
    BY <1>2, <1>3, <2>1, BackgroundedHolds DEF RegisterNewApp
  <2>2. CASE a = Owner[p]
    <3>1. PICK e : e = NewEntry(a, p)
      OBVIOUS
    <3>2. e.state = "active"
      BY <3>1, NewEntryEffect DEF TypeOK
    <3>3. app'[a] = e
      BY <1>3, <2>2, <3>1 DEF RegisterNewApp
    <3>4. QED
      BY <3>2, <3>3 DEF Holds
  <2>3. QED
    BY <2>1, <2>2
<1>4. ASSUME NEW p \in Root \cap Alive, ActivateExistingApp(Owner[p], p)
      PROVE  Holds(a)
  <2>1. Owner[p] \in App /\ Owner[p] \in Tracked
    BY <1>4, OwnerType DEF ActivateExistingApp
  <2>2. PICK e \in Entry :
          /\ e.state = "active" /\ e.policy = app[Owner[p]].policy
          /\ e.maint = app[Owner[p]].maint /\ e.win = p
          /\ \E r : /\ e.roots = r \cup {p} /\ r \subseteq app[Owner[p]].roots
                    /\ app[Owner[p]].roots \cap Alive \subseteq r
          /\ app' = [b \in App |-> IF b = Owner[p] THEN e ELSE Backgrounded(app[b])]
    BY <1>4, <2>1, ActivatedEffect
  <2>3. CASE a # Owner[p]
    <3>1. failures' = failures \/ failures' = [failures EXCEPT ![Owner[p]] = 0]
      BY <1>4 DEF ActivateExistingApp
    <3>2. failures'[a] = failures[a]
      BY <1>1, <2>3, <3>1
    <3>3. QED
      BY <1>2, <2>2, <2>3, <3>2, BackgroundedHolds
  <2>4. CASE a = Owner[p]
    BY <2>2, <2>4 DEF Holds
  <2>5. QED
    BY <2>3, <2>4
<1>5. ASSUME NEW F \in SUBSET App, PreThaw(F)
      PROVE  Holds(a)
  <2>1. CASE a \notin F
    BY <1>2, <1>5, <2>1, SameHolds DEF PreThaw
  <2>2. CASE a \in F
    <3>1. PICK b : b = ToBackground(app[a], RecordedProcs(a))
      OBVIOUS
    <3>2. app'[a] = SetSuspendTimer(b) /\ b \in Entry
      BY <1>1, <1>5, <2>2, <3>1, ToBackgroundEffect DEF PreThaw
    <3>3. app'[a].timer
      BY <3>2, SetTimerEffect
    <3>4. QED
      BY <3>3 DEF Holds
  <2>3. QED
    BY <2>1, <2>2
<1>6. ASSUME NEW b \in App, WindowClosed(b)
      PROVE  Holds(a)
  <2>1. a # b => app'[a] = app[a] /\ failures'[a] = failures[a]
    BY <1>1, <1>6 DEF WindowClosed, TypeOK
  <2>2. a = b => app'[a] = Untracked
    BY <1>6 DEF WindowClosed, TypeOK
  <2>3. QED
    BY <1>2, <2>1, <2>2, SameHolds, UntrackedEffect DEF Holds
<1>7. ASSUME NEW p \in Proc, FocusChanged(p)
      PROVE  Holds(a)
  BY <1>3, <1>4, <1>7 DEF FocusChanged
<1>8. WorkspaceChanged \/ ActivationRequested => Holds(a)
  BY <1>5 DEF WorkspaceChanged, ActivationRequested
<1>9. QED
  BY <1>6, <1>7, <1>8 DEF Desktop

LEMMA PowerHolds ==
    ASSUME TypeOK, NEW a \in App, NEW on \in BOOLEAN, ReconcileManagement(on),
           on <=> Managing', failures' = failures, up' = up
    PROVE  Holds(a)
<1>1. app[a] \in Entry /\ Managing \in BOOLEAN
  BY ManagingType DEF TypeOK
<1>2. PICK r : r = Reconciled(app[a], a, Managing, on)
  OBVIOUS
<1>3. app'[a] = r
  BY <1>2 DEF ReconcileManagement
<1>4. /\ Kept(r, app[a])
      /\ r.state = (IF ~on /\ app[a].state \in Suspended THEN "active" ELSE app[a].state)
      /\ on => (app[a].timer => r.timer) /\ r.roots = app[a].roots
      /\ on /\ ~Managing /\ app[a].state = "background"
         /\ app[a].policy.action # "ignore" => r.timer
  BY <1>1, <1>2, ReconciledEffect
<1>5. QED
  BY <1>1, <1>3, <1>4 DEF Holds, Waiting, Kept

LEMMA PowersHold ==
    ASSUME TypeOK, NEW a \in App,
           \/ \E s \in Sources : PowerSourceChanged(s)
           \/ \E f \in Overrides : SetPowerOverride(f)
    PROVE  Holds(a)
<1>1. ASSUME NEW s \in Sources, PowerSourceChanged(s)
      PROVE  Holds(a)
  <2>1. PICK on : on = ShouldManage(config, s, forced)
    OBVIOUS
  <2>2. ReconcileManagement(on) /\ failures' = failures /\ up' = up
    BY <1>1, <2>1 DEF PowerSourceChanged, loopVars
  <2>3. Managing' = on /\ on \in BOOLEAN
    BY <1>1, <2>1 DEF PowerSourceChanged, Managing, ShouldManage
  <2>4. QED
    BY <2>2, <2>3, PowerHolds
<1>2. ASSUME NEW f \in Overrides, SetPowerOverride(f)
      PROVE  Holds(a)
  <2>1. PICK on : on = ShouldManage(config, source, f)
    OBVIOUS
  <2>2. ReconcileManagement(on) /\ failures' = failures /\ up' = up
    BY <1>2, <2>1 DEF SetPowerOverride, loopVars
  <2>3. Managing' = on /\ on \in BOOLEAN
    BY <1>2, <2>1 DEF SetPowerOverride, Managing, ShouldManage
  <2>4. QED
    BY <2>2, <2>3, PowerHolds
<1>3. QED
  BY <1>1, <1>2

LEMMA ReloadHolds ==
    ASSUME IgnoreFixed, UniformProtection, TypeOK, TrackedRuled, NEW c \in Configs,
           ConfigReloaded(c), NEW a \in App
    PROVE  Holds(a)
<1> DEFINE on     == ShouldManage(c, source, forced)
           policy == ResolvedPolicy(c, a, app[a].win)
           back   == Restored(app[a].state, policy.action)
<1>1. CASE a \notin Tracked
  BY <1>1, ReloadedEffect DEF Tracked, Holds
<1>2. CASE a \in Tracked
  <2>1. /\ app'[a].policy = policy
        /\ (/\ app'[a].state = "background" /\ policy.action # "ignore"
            /\ on /\ (app[a].policy.action # "ignore" \/ ~Managing)) => app'[a].timer
    BY <1>2, ReloadedEffect
  <2>2. Managing' => on
    BY DEF ConfigReloaded, Managing
  <2>3. app[a].win \in Root /\ Owner[app[a].win] = a
        /\ (app[a].policy.action = "ignore" <=> a \in Ignored)
    BY <1>2 DEF TrackedRuled
  <2>4. policy.action # "ignore" => app[a].policy.action # "ignore"
    BY <2>3, ResolvedIgnored
  <2>5. QED
    BY <2>1, <2>2, <2>4 DEF Holds
<1>3. QED
  BY <1>1, <1>2

LEMMA RestHolds ==
    ASSUME TypeOK, Undisturbed, NEW a \in App,
           Client \/ Reconcile \/ ReconcileResult \/ Shutdown
    PROVE  Holds(a)
<1>1. app[a] \in Entry
  BY DEF TypeOK
<1>2. CASE Client
  <2>1. PICK k, procs : IpcFreeze(k, procs)
    BY <1>2 DEF Client, Undisturbed, IpcThaw, IpcThawAll
  <2>2. QED
    BY <2>1, SameHolds DEF IpcFreeze, loopVars
<1>3. CASE Reconcile
  BY <1>3, SameHolds DEF Reconcile, bookVars
<1>4. CASE ReconcileResult
  <2>1. /\ \/ app'[a] = Untracked
           \/ /\ app'[a] = [app[a] EXCEPT !.roots = @ \ found.reaped]
              /\ failures'[a] = failures[a]
        /\ UNCHANGED powerVars /\ up' = up
    BY <1>4 DEF ReconcileResult
  <2>2. app'[a] = Untracked => Holds(a)
    BY UntrackedEffect DEF Holds
  <2>3. CASE /\ app'[a] = [app[a] EXCEPT !.roots = @ \ found.reaped]
             /\ failures'[a] = failures[a]
    <3>1. /\ app'[a].state = app[a].state /\ app'[a].policy = app[a].policy
          /\ app'[a].timer = app[a].timer /\ app'[a].roots \subseteq app[a].roots
      BY <1>1, <2>3 DEF Entry
    <3>2. Managing' = Managing
      BY <2>1, ManagingKept
    <3>3. QED
      BY <2>1, <2>3, <3>1, <3>2 DEF Holds, Waiting
  <2>4. QED
    BY <2>1, <2>2, <2>3
<1>5. CASE Shutdown
  BY <1>5 DEF Shutdown, Holds
<1>6. QED
  BY <1>2, <1>3, <1>4, <1>5

\* The first half of a suspension, and a guard that blocks the second.
LEMMA SuspendTimerHolds ==
    ASSUME TypeOK, Undisturbed, NEW a \in App,
           \/ \E b \in App : DropSuspendTimer(b) \/ PostponeSuspend(b) \/ ScanTree(b)
           \/ GuardsBlock
    PROVE  Holds(a)
<1>1. app[a] \in Entry
  BY DEF TypeOK
<1>2. UNCHANGED <<powerVars, failures>> /\ up' = up
  BY DEF DropSuspendTimer, PostponeSuspend, ScanTree, GuardsBlock, Receive, bookVars
<1>3. CASE app' = app
  BY <1>2, <1>3, SameHolds
<1>4. ASSUME NEW b \in App, app' = [app EXCEPT ![b] = SetSuspendTimer(@)]
      PROVE  Holds(a)
  <2>1. a # b => app'[a] = app[a]
    BY <1>4 DEF TypeOK
  <2>2. a = b => app'[a] = SetSuspendTimer(app[a])
    BY <1>4 DEF TypeOK
  <2>3. a = b => app'[a].timer
    BY <1>1, <2>2, SetTimerEffect
  <2>4. QED
    BY <1>2, <2>1, <2>3, SameHolds DEF Holds
<1>5. ASSUME NEW b \in App, DropSuspendTimer(b), app' # app
      PROVE  Holds(a)
  <2>1. app[b].policy.action = "ignore" /\ app' = [app EXCEPT ![b] = CancelSuspendTimer(@)]
    BY <1>5 DEF DropSuspendTimer
  <2>2. a # b => app'[a] = app[a]
    BY <2>1 DEF TypeOK
  <2>3. a = b => app'[a] = CancelSuspendTimer(app[a])
    BY <2>1 DEF TypeOK
  <2>4. a = b => app'[a].policy.action = "ignore"
    BY <1>1, <2>1, <2>3, CancelTimerEffect DEF Kept
  <2>5. QED
    BY <1>2, <2>2, <2>4, SameHolds DEF Holds
<1>6. GuardsBlock => \E b \in App : app' = [app EXCEPT ![b] = SetSuspendTimer(@)]
  BY DEF GuardsBlock, TypeOK
<1>7. QED
  BY <1>3, <1>4, <1>5, <1>6 DEF PostponeSuspend, ScanTree, bookVars

LEMMA NextHolds ==
    ASSUME IgnoreFixed, UniformProtection, Undisturbed, TypeOK, TrackedRuled,
           [Next]_vars, NEW a \in App
    PROVE  Holds(a) \/ Suspend
<1>1. (\E p \in Proc : Spawn(p) \/ Exit(p)) \/ UNCHANGED vars => Holds(a)
  BY SameHolds DEF Spawn, Exit, bookVars, loopVars, powerVars, vars
<1>2. SuspendTimer => Holds(a) \/ Suspend
  BY SuspendTimerHolds DEF SuspendTimer
<1>3. Maintenance => Holds(a)
  BY MaintenanceHolds DEF Maintenance
<1>4. QED
  BY <1>1, <1>2, <1>3, NextIs, TimersHold, DesktopHolds, PowersHold, ReloadHolds, RestHolds

\* What becomes of the application that a suspension was about.
LEMMA SuspendBacks ==
    ASSUME UniformProtection, Undisturbed, TypeOK, PlanAllowed, RootsKnown, TrackedRuled,
           WaitersBacked, Suspend, NEW a \in App, Waiting(a)'
    PROVE  Backed(a)'
<1>1. PICK e \in Entry : SuspendOutcome(pending.app, pending.procs, e)
  BY SuspendEffect
<1>2. /\ up /\ up' = up /\ pending.app \in App /\ pending # None
      /\ UNCHANGED <<life, powerVars, queue>>
  BY SuspendEffect
<1>3. Managing' = Managing /\ Alive' = Alive /\ InChannel' = InChannel
  BY <1>2, ManagingKept DEF Alive, InChannel
<1>4. app[a] \in Entry /\ failures \in [App -> 0..MaxAttempts]
  BY DEF TypeOK
<1>5. CASE a # pending.app
  <2>1. app'[a] = app[a]
    BY <1>1, <1>5 DEF SuspendOutcome, TypeOK
  <2>2. failures'[a] = failures[a]
    BY <1>1, <1>2, <1>4, <1>5 DEF SuspendOutcome, Untried, Reaching, Missing
  <2>3. Waiting(a)
    BY <1>2, <1>3, <2>1 DEF Waiting
  <2>4. Backed(a)
    BY <2>3 DEF WaitersBacked
  <2>5. QED
    BY <1>3, <1>5, <2>1, <2>2, <2>4 DEF Backed
<1>6. CASE a = pending.app
  <2>1. app'[a] = e /\ Kept(e, app[a]) /\ e.state = "background"
        /\ e.policy.action # "ignore" /\ Managing
    BY <1>1, <1>3, <1>6 DEF SuspendOutcome, TypeOK, Waiting
  <2>2. app[a].state = "background"
    BY <1>1, <1>6, <2>1 DEF SuspendOutcome, Untried, Reaching, Missing
  <2>3. a \notin Ignored
    BY <2>1, <2>2 DEF TrackedRuled, Tracked, Kept
  <2>4. app[a].roots \cap Protected = {}
    BY <1>4, <2>3 DEF Ignored, RootsKnown, Entry
  <2>5. app[a].roots \cap Alive \subseteq pending.procs
    BY <1>2, <1>6, <2>4 DEF PlanAllowed, Undisturbed
  <2>6. CASE Untried(a, pending.procs, e)
    <3>1. pending.procs = {} /\ e = app[a]
      BY <2>1, <2>2, <2>6 DEF Untried, Undisturbed
    <3>2. QED
      BY <1>3, <2>1, <2>5, <3>1 DEF Backed
  <2>7. CASE Missing(a, pending.procs, e)
    <3>1. e.roots = app[a].roots \ (pending.procs \ Alive) /\ Reached(pending.procs) = {}
      BY <2>7 DEF Missing
    <3>2. CASE pending.procs \cap Alive \cap Refusers = {}
      <4>1. pending.procs \cap Alive = {}
        BY <3>1, <3>2 DEF Reached
      <4>2. e.roots \cap Alive = {}
        BY <2>5, <3>1, <4>1
      <4>3. QED
        BY <1>3, <2>1, <4>2 DEF Backed
    <3>3. CASE failures' = [failures EXCEPT ![a] = MaxAttempts]
      BY <1>4, <3>3 DEF Backed
    <3>4. CASE e.timer
      BY <2>1, <3>4 DEF Backed
    <3>5. QED
      BY <2>7, <3>2, <3>3, <3>4 DEF Missing
  <2>8. ~Reaching(a, pending.procs, e)
    BY <2>1 DEF Reaching
  <2>9. QED
    BY <1>1, <1>6, <2>6, <2>7, <2>8 DEF SuspendOutcome
<1>7. QED
  BY <1>5, <1>6

----------------------------------------------------------------------------
(* The invariant and what follows from it                                  *)

\* The pending suspension of an application stays until it is handled.
LEMMA PendingStays ==
    ASSUME TypeOK, [Next]_vars, NEW a \in App, pending # None, pending.app = a, ~Suspend
    PROVE  (pending' # None /\ pending'.app = a) \/ app'[a].timer
<1>1. CASE GuardsBlock
  <2>1. app'[a] = SetSuspendTimer(app[a]) /\ app[a] \in Entry
    BY <1>1 DEF GuardsBlock, TypeOK
  <2>2. QED
    BY <2>1, SetTimerEffect
<1>2. ~\E b \in App : ScanTree(b)
  BY DEF ScanTree, Receive, Idle
<1>3. QED
  BY <1>1, <1>2, PendingKept

LEMMA BackedStep ==
    ASSUME IgnoreFixed, UniformProtection, Undisturbed, TypeOK, RootsKnown, PlanAllowed,
           TrackedRuled, WaitersBacked, [Next]_vars
    PROVE  WaitersBacked'
<1> SUFFICES ASSUME NEW a \in App, Waiting(a)', ~Backed(a)'
             PROVE  FALSE
  BY DEF WaitersBacked
<1>1. ~Suspend
  BY SuspendBacks
<1>2. /\ ~app'[a].timer /\ <<"suspend", a>> \notin InChannel'
      /\ ~(pending' # None /\ pending'.app = a)
      /\ failures'[a] # MaxAttempts /\ app'[a].roots \cap Alive' # {}
  BY DEF Backed
<1>3. /\ Waiting(a) /\ app'[a].roots \subseteq app[a].roots
      /\ failures'[a] = failures[a]
      /\ app[a].timer => FireSuspendTimer(a)
  BY <1>1, <1>2, NextHolds DEF Holds, Waiting
<1>4. CASE app[a].timer
  <2>1. Send(<<"suspend", a>>) /\ <<"suspend", a>> \in Kinds \X App
    BY <1>3, <1>4 DEF FireSuspendTimer, Kinds
  <2>2. QED
    BY <1>2, <2>1, SendAdds
<1>5. CASE <<"suspend", a>> \in InChannel
  <2>1. DropSuspendTimer(a) \/ PostponeSuspend(a) \/ ScanTree(a)
    BY <1>2, <1>5, EventKept DEF Handled
  <2>2. ~DropSuspendTimer(a)
    BY <1>3 DEF DropSuspendTimer, Waiting, Undisturbed, Tracked
  <2>3. ~PostponeSuspend(a)
    <3>1. PostponeSuspend(a) => app'[a] = SetSuspendTimer(app[a]) /\ app[a] \in Entry
      BY DEF PostponeSuspend, TypeOK
    <3>2. QED
      BY <1>2, <3>1, SetTimerEffect
  <2>4. ScanTree(a) => pending' # None /\ pending'.app = a
    <3>1. SUFFICES ASSUME ScanTree(a)
                   PROVE  pending' # None /\ pending'.app = a
      OBVIOUS
    <3>2. PICK procs \in SUBSET Proc : pending' = [app |-> a, procs |-> procs]
      BY <3>1 DEF ScanTree, Allowed, ExpandTree, Alive
    <3>3. QED
      BY <3>2, EngineAssumption
  <2>5. QED
    BY <1>2, <2>1, <2>2, <2>3, <2>4
<1>6. CASE pending # None /\ pending.app = a
  BY <1>1, <1>2, <1>6, PendingStays
<1>7. CASE app[a].roots \cap Alive = {}
  <2>1. PICK p \in Proc : p \in app'[a].roots /\ p \in Alive'
    BY <1>2 DEF Alive
  <2>2. p \in app[a].roots /\ life[p] # "unborn"
    BY <1>3, <2>1 DEF RootsKnown
  <2>3. p \in Alive
    BY <2>1, <2>2, LifeStep DEF Aged
  <2>4. QED
    BY <1>7, <2>2, <2>3
<1>8. QED
  BY <1>2, <1>3, <1>4, <1>5, <1>6, <1>7 DEF WaitersBacked, Backed

TimerInv == RegistryInv /\ PlanAllowed /\ TrackedRuled /\ WaitersBacked

\* While management is on, an application in the background that may be
\* suspended has a timer running or fired, or its attempts are used up, or
\* none of its processes is left: no step forgets a suspension, but those that
\* the assumptions name.
THEOREM SuspensionNeverForgotten ==
    ASSUME IgnoreFixed, UniformProtection, Undisturbed
    PROVE  Spec => []BackgroundWillSuspend
<1>1. Init => TypeOK /\ TimerInv
  <2>1. Init => PlanAllowed /\ TrackedRuled /\ WaitersBacked
    BY UntrackedEffect DEF Init, PlanAllowed, TrackedRuled, Tracked, WaitersBacked, Waiting
  <2>2. QED
    BY <2>1, InitType, RegistryInit DEF TimerInv
<1>2. TypeOK /\ TimerInv /\ [Next]_vars => (TypeOK /\ TimerInv)'
  BY NextType, RegistryStep, PlanStep, TrackedRuledStep, BackedStep
     DEF TimerInv, RegistryInv
<1>3. TypeOK /\ TimerInv => BackgroundWillSuspend
  <2> SUFFICES ASSUME TimerInv, NEW a \in In({"background"}), up, Managing,
                      app[a].policy.action # "ignore"
               PROVE  \/ app[a].timer
                      \/ <<"suspend", a>> \in EventsOf(a)
                      \/ pending # None /\ pending.app = a
                      \/ failures[a] = MaxAttempts
                      \/ app[a].roots \cap Alive = {}
    BY DEF BackgroundWillSuspend
  <2>1. Backed(a)
    BY DEF TimerInv, WaitersBacked, Waiting, In
  <2>2. <<"suspend", a>> \in InChannel => <<"suspend", a>> \in EventsOf(a)
    BY DEF InChannel, EventsOf, Kinds, In
  <2>3. QED
    BY <2>1, <2>2 DEF Backed
<1>4. QED
  BY <1>1, <1>2, <1>3, PTL DEF Spec
=============================================================================
