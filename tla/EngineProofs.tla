---------------------------- MODULE EngineProofs ----------------------------
(***************************************************************************)
(* Proofs about Engine, for any applications, processes, configurations,   *)
(* capacity and limits: the types, and that the policy and the management  *)
(* switch are obeyed.                                                      *)
(***************************************************************************)
EXTENDS Engine, TLAPS, SequenceTheorems

----------------------------------------------------------------------------
(* What the operations on an entry return                                  *)

LEMMA StatesAre ==
    /\ States = {"active", "background", "throttled", "frozen"}
    /\ Suspended = {"throttled", "frozen"} /\ Suspended \subseteq States
BY DEF States, Suspended

LEMMA RulesType ==
    ASSUME NEW c \in Configs, NEW a \in App
    PROVE  /\ c \in Config /\ c.rules[a] \in Policy
           /\ c.enabled \in BOOLEAN /\ c.ac \in BOOLEAN /\ c.battery \in BOOLEAN
BY EngineAssumption DEF Config

LEMMA ResolvedPolicyType ==
    ASSUME NEW c \in Configs, NEW a \in App, NEW w
    PROVE  /\ ResolvedPolicy(c, a, w) \in Policy
           /\ ResolvedPolicy(c, a, w).maintenance = c.rules[a].maintenance
           /\ w \notin Protected => ResolvedPolicy(c, a, w) = c.rules[a]
<1>1. c.rules[a] \in Policy
  BY RulesType
<1>2. QED
  BY <1>1 DEF ResolvedPolicy, Policy, Actions

\* What no operation on an entry but a reload and a focus change touches.
Kept(f, e) == f.policy = e.policy /\ f.win = e.win

\* Only processes that are gone are roots no more.
Shrunk(f, e) == f.roots \subseteq e.roots /\ e.roots \cap Alive \subseteq f.roots

LEMMA SetStateEffect ==
    ASSUME NEW e \in Entry, NEW s \in States, NEW f, f = SetState(e, s)
    PROVE  /\ f \in Entry /\ f.state = s /\ Kept(f, e) /\ f.roots = e.roots
           /\ f.timer <=> e.timer
           /\ f.maint = e.maint
BY DEF Entry, SetState, Kept

LEMMA SetTimerEffect ==
    ASSUME NEW e \in Entry, NEW f, f = SetSuspendTimer(e)
    PROVE  /\ f \in Entry /\ f.state = e.state /\ Kept(f, e) /\ f.roots = e.roots
           /\ f.timer /\ f.maint = e.maint
BY DEF Entry, SetSuspendTimer, Kept

LEMMA CancelTimerEffect ==
    ASSUME NEW e \in Entry, NEW f, f = CancelSuspendTimer(e)
    PROVE  /\ f \in Entry /\ f.state = e.state /\ Kept(f, e) /\ f.roots = e.roots
           /\ ~f.timer /\ f.maint = e.maint
BY DEF Entry, CancelSuspendTimer, Kept

LEMMA CancelAllEffect ==
    ASSUME NEW e \in Entry, NEW f, f = CancelAllTimers(e)
    PROVE  /\ f \in Entry /\ f.state = e.state /\ Kept(f, e) /\ f.roots = e.roots
           /\ ~f.timer /\ f.maint = "off"
BY DEF Entry, CancelAllTimers, Kept

LEMMA SetMaintenanceEffect ==
    ASSUME NEW e \in Entry, NEW k \in {"off", "wake", "sleep"},
           NEW f, f = SetMaintenance(e, k)
    PROVE  /\ f \in Entry /\ f.state = e.state /\ Kept(f, e) /\ f.roots = e.roots
           /\ f.timer <=> e.timer
           /\ f.maint = k
BY DEF Entry, SetMaintenance, Kept

LEMMA AbsorbGoneEffect ==
    ASSUME NEW e \in Entry, NEW procs, NEW f, f = AbsorbGone(e, procs)
    PROVE  /\ f \in Entry /\ f.state = e.state /\ Kept(f, e)
           /\ f.roots = e.roots \ (procs \ Alive)
           /\ f.timer <=> e.timer
           /\ f.maint = e.maint
BY DEF Entry, AbsorbGone, Kept

LEMMA NewEntryEffect ==
    ASSUME config \in Configs, NEW a \in App, NEW p \in Root,
           NEW e, e = NewEntry(a, p)
    PROVE  /\ e \in Entry /\ e.state = "active" /\ e.win = p /\ e.roots = {p}
           /\ e.policy = ResolvedPolicy(config, a, p)
           /\ ~e.timer /\ e.maint = "off"
<1>1. ResolvedPolicy(config, a, p) \in Policy
  BY ResolvedPolicyType
<1>2. Untracked \in Entry /\ ~Untracked.timer /\ Untracked.maint = "off"
  BY DEF Untracked, Entry, Policy, Actions
<1>3. QED
  BY <1>1, <1>2, StatesAre DEF NewEntry, Entry

LEMMA UntrackedEffect ==
    /\ Untracked \in Entry /\ Untracked.state = "untracked" /\ Untracked.roots = {}
    /\ ~Untracked.timer /\ Untracked.maint = "off" /\ Untracked.win = None
    /\ ~Untracked.policy.maintenance /\ Untracked.policy.action = "ignore"
BY DEF Untracked, Entry, Policy, Actions

\* A step that gives an application the focus.
LEMMA GainedEffect ==
    ASSUME NEW e \in Entry, e.state \in States, NEW procs, NEW on,
           NEW g, g = Transition(e, OnFocusGained(e.state), procs, on)
    PROVE  /\ g \in Entry /\ g.state = "active" /\ Kept(g, e) /\ g.maint = e.maint
           /\ Shrunk(g, e)
<1> DEFINE t == OnFocusGained(e.state)
<1>1. t.state = "active"
      /\ t.action \in {"cancelSuspendTimer", "removeThrottle", "thaw", "noOp"}
  BY DEF OnFocusGained, To, States
<1>2. PICK f \in {e, CancelSuspendTimer(e), AbsorbGone(e, procs)} :
        g = SetState(f, "active")
  BY <1>1 DEF Transition, RequiresManagement
<1>3. /\ f \in Entry /\ Kept(f, e) /\ f.maint = e.maint
      /\ Shrunk(f, e)
  BY <1>2, CancelTimerEffect, AbsorbGoneEffect DEF Kept, Shrunk
<1>4. QED
  BY <1>2, <1>3, SetStateEffect, StatesAre DEF Kept, Shrunk

LEMMA BackgroundedEffect ==
    ASSUME NEW e \in Entry, NEW b, b = Backgrounded(e)
    PROVE  /\ b \in Entry /\ Kept(b, e) /\ b.maint = e.maint /\ b.roots = e.roots
           /\ b.state = (IF e.state = "active" THEN "background" ELSE e.state)
           /\ e.state = "active" /\ Managing => b.timer
           /\ e.timer => b.timer
<1>1. OnFocusLost("active") = [state |-> "background", action |-> "startSuspendTimer"]
  BY DEF OnFocusLost, To
<1>2. CASE e.state # "active"
  BY <1>2 DEF Backgrounded, Kept
<1>3. CASE e.state = "active"
  <2>1. PICK f : /\ f = IF Managing THEN SetSuspendTimer(e) ELSE e
                 /\ b = SetState(f, "background")
    BY <1>1, <1>3 DEF Backgrounded, Transition, RequiresManagement
  <2>2. /\ f \in Entry /\ Kept(f, e) /\ f.maint = e.maint /\ f.roots = e.roots
        /\ Managing => f.timer
        /\ e.timer => f.timer
    BY <2>1, SetTimerEffect DEF Kept
  <2>3. QED
    BY <1>3, <2>1, <2>2, SetStateEffect, StatesAre DEF Kept
<1>4. QED
  BY <1>2, <1>3

LEMMA ToBackgroundEffect ==
    ASSUME NEW e \in Entry, NEW procs, NEW b, b = ToBackground(e, procs)
    PROVE  /\ b \in Entry /\ b.state = "background" /\ b.maint = "off"
           /\ Kept(b, e) /\ b.roots = e.roots \ (procs \ Alive)
<1>1. PICK f, g : /\ f = AbsorbGone(e, procs) /\ g = SetState(f, "background")
                  /\ b = CancelAllTimers(g)
  BY DEF ToBackground
<1>2. f \in Entry /\ Kept(f, e) /\ f.roots = e.roots \ (procs \ Alive)
  BY <1>1, AbsorbGoneEffect
<1>3. g \in Entry /\ g.state = "background" /\ Kept(g, e) /\ g.roots = f.roots
  BY <1>1, <1>2, SetStateEffect, StatesAre DEF Kept
<1>4. QED
  BY <1>1, <1>2, <1>3, CancelAllEffect DEF Kept

\* A reconciliation of management over one entry.
LEMMA ReconciledEffect ==
    ASSUME NEW e \in Entry, NEW a, NEW was \in BOOLEAN, NEW on \in BOOLEAN,
           NEW r, r = Reconciled(e, a, was, on)
    PROVE  /\ r \in Entry /\ Kept(r, e) /\ r.maint = e.maint
           /\ Shrunk(r, e)
           /\ r.state = (IF ~on /\ e.state \in Suspended THEN "active" ELSE e.state)
           /\ on => (e.timer => r.timer) /\ r.roots = e.roots
           /\ on /\ ~was /\ e.state = "background" /\ e.policy.action # "ignore" =>
                r.timer
<1>1. CASE ~on /\ e.state \in Suspended
  <2>1. r = Transition(e, OnFocusGained(e.state), RecordedProcs(a), on)
    BY <1>1 DEF Reconciled
  <2>2. e.state \in States
    BY <1>1, StatesAre
  <2>3. QED
    BY <1>1, <2>1, <2>2, GainedEffect
<1>2. CASE on /\ ~was /\ e.state = "background" /\ e.policy.action # "ignore"
  BY <1>2, SetTimerEffect DEF Reconciled, Shrunk
<1>3. CASE /\ ~(~on /\ e.state \in Suspended)
           /\ ~(on /\ ~was /\ e.state = "background" /\ e.policy.action # "ignore")
  BY <1>3 DEF Reconciled, Kept, Shrunk
<1>4. QED
  BY <1>1, <1>2, <1>3

\* A reload over one entry.
LEMMA RematchedEffect ==
    ASSUME NEW e \in Entry, NEW a \in App, NEW c \in Configs,
           NEW m, m = Rematched(e, a, c)
    PROVE  LET policy == ResolvedPolicy(c, a, e.win)
               back   == Restored(e.state, policy.action)
           IN /\ m \in Entry /\ m.policy = policy /\ m.win = e.win
              /\ Shrunk(m, e)
              /\ m.state = (IF back THEN "background" ELSE e.state)
              /\ m.maint = (IF back THEN "off" ELSE e.maint)
              /\ back /\ policy.action # "ignore" => m.timer
              /\ (/\ e.state = "background" /\ policy.action # "ignore"
                  /\ e.policy.action # "ignore") => m.timer
<1> DEFINE policy == ResolvedPolicy(c, a, e.win)
           back   == Restored(e.state, policy.action)
<1>1. policy \in Policy
  BY ResolvedPolicyType
<1>2. PICK n : n = [e EXCEPT !.policy = policy]
  OBVIOUS
<1>3. /\ n \in Entry /\ n.policy = policy /\ n.win = e.win /\ n.roots = e.roots
      /\ n.state = e.state /\ n.maint = e.maint
  BY <1>1, <1>2 DEF Entry
<1>4. PICK b : b = ToBackground(n, RecordedProcs(a))
  OBVIOUS
<1>5. /\ b \in Entry /\ b.state = "background" /\ b.maint = "off" /\ Kept(b, n)
      /\ b.roots = n.roots \ (RecordedProcs(a) \ Alive)
  BY <1>3, <1>4, ToBackgroundEffect
<1>6. CASE back
  <2>1. e.state # "background"
    BY <1>6 DEF Restored, Suspended
  <2>2. m = IF policy.action = "ignore" THEN b ELSE SetSuspendTimer(b)
    BY <1>2, <1>4, <1>6, <2>1 DEF Rematched
  <2>3. /\ m \in Entry /\ m.state = "background" /\ m.maint = "off" /\ Kept(m, b)
        /\ m.roots = b.roots
        /\ policy.action # "ignore" => m.timer
    BY <1>5, <2>2, SetTimerEffect DEF Kept
  <2>4. Shrunk(m, e)
    BY <1>3, <1>5, <2>3 DEF Shrunk
  <2>5. m.policy = policy /\ m.win = e.win
    BY <1>3, <1>5, <2>3 DEF Kept
  <2>6. QED
    BY <1>6, <2>1, <2>3, <2>4, <2>5
<1>7. CASE ~back
  <2>1. \/ m = SetSuspendTimer(n)
        \/ /\ m \in {n, CancelSuspendTimer(n)}
           /\ ~(/\ e.state = "background" /\ policy.action # "ignore"
                /\ e.policy.action # "ignore")
    <3>1. CASE e.state = "background" /\ policy.action = "ignore"
      BY <1>2, <1>7, <3>1 DEF Rematched
    <3>2. CASE /\ e.state = "background" /\ policy.action # "ignore"
               /\ e.policy.action # "ignore"
      BY <1>2, <1>7, <3>2 DEF Rematched
    <3>3. CASE /\ ~(e.state = "background" /\ policy.action = "ignore")
               /\ ~(/\ e.state = "background" /\ policy.action # "ignore"
                    /\ e.policy.action # "ignore")
      BY <1>2, <1>7, <3>3 DEF Rematched
    <3>4. QED
      BY <3>1, <3>2, <3>3
  <2>2. /\ m \in Entry /\ m.state = n.state /\ m.maint = n.maint /\ Kept(m, n)
        /\ m.roots = n.roots
        /\ (/\ e.state = "background" /\ policy.action # "ignore"
            /\ e.policy.action # "ignore") => m.timer
    BY <1>3, <2>1, SetTimerEffect, CancelTimerEffect DEF Kept
  <2>3. Shrunk(m, e)
    BY <1>3, <2>2 DEF Shrunk
  <2>4. m.policy = policy /\ m.win = e.win
    BY <1>3, <2>2 DEF Kept
  <2>5. QED
    BY <1>3, <1>7, <2>2, <2>3, <2>4
<1>8. QED
  BY <1>6, <1>7

----------------------------------------------------------------------------
(* Types, by owner                                                         *)

OsType ==
    /\ life \in [Proc -> {"unborn", "alive", "exited"}]
    /\ stopped \subseteq Alive /\ niced \subseteq Alive

PowerType ==
    /\ config \in Configs
    /\ source \in {"ac", "battery", "unknown"}
    /\ forced \in {"auto", "ac", "battery"}

BookType ==
    /\ app \in [App -> Entry]
    /\ failures \in [App -> 0..MaxAttempts]
    /\ rec \in [Key -> SUBSET Proc]

ChannelType ==
    /\ queue \in Seq(Kinds \X App) /\ Len(queue) <= Capacity
    /\ stray \subseteq Kinds \X App

LoopType ==
    /\ up \in BOOLEAN
    /\ pending = None \/ pending \in [app : App, procs : SUBSET Proc]
    /\ found = None
       \/ found \in [reaped : SUBSET Root, journalDead : SUBSET Proc]

LEMMA TypeParts ==
    TypeOK <=> OsType /\ PowerType /\ BookType /\ ChannelType /\ LoopType
BY DEF TypeOK, OsType, PowerType, BookType, ChannelType, LoopType

LEMMA TypePartsNext ==
    OsType' /\ PowerType' /\ BookType' /\ ChannelType' /\ LoopType' => TypeOK'
BY DEF TypeOK, OsType, PowerType, BookType, ChannelType, LoopType

LEMMA ManagingType ==
    ASSUME NEW c \in Configs, NEW s, NEW f
    PROVE  ShouldManage(c, s, f) \in BOOLEAN /\ Managing \in BOOLEAN
BY DEF ShouldManage, Managing

LEMMA LoopKept ==
    ASSUME LoopType, up' = up, pending' = pending, found' = found
    PROVE  LoopType'
<1>1. up' \in BOOLEAN
  BY DEF LoopType
<1>2. pending' = None \/ pending' \in [app : App, procs : SUBSET Proc]
  BY DEF LoopType
<1>3. found' = None \/ found' \in [reaped : SUBSET Root, journalDead : SUBSET Proc]
  BY DEF LoopType
<1>4. QED
  BY <1>1, <1>2, <1>3 DEF LoopType

LEMMA ReleaseType ==
    ASSUME TypeOK, NEW F \in SUBSET App, NEW T, NEW pr, Restore(F, T, pr)
    PROVE  OsType' /\ rec' \in [Key -> SUBSET Proc] /\ life' = life
<1>1. life' = life /\ stopped' \subseteq stopped /\ niced' \subseteq niced
  BY DEF Restore
<1>2. \A k \in Key : RetireEntries(F, pr)[k] \subseteq rec[k]
  BY DEF RetireEntries
<1>3. RetireEntries(F, pr) \in [Key -> SUBSET Proc]
  BY <1>2 DEF RetireEntries, TypeOK
<1>4. QED
  BY <1>1, <1>3 DEF Restore, TypeOK, OsType, Alive

LEMMA SendType ==
    ASSUME TypeOK, NEW e \in Kinds \X App, Send(e)
    PROVE  queue' \in Seq(Kinds \X App) /\ Len(queue') <= Capacity
BY AppendProperties, EngineAssumption DEF TypeOK, Send

LEMMA ReceiveType ==
    ASSUME TypeOK, NEW kind, NEW a, Receive(kind, a)
    PROVE  ChannelType' /\ up' = up /\ found' = found /\ pending = None /\ up
BY HeadTailProperties, EngineAssumption DEF TypeOK, ChannelType, Receive, Idle

LEMMA InitType == Init => TypeOK
<1> SUFFICES ASSUME Init PROVE TypeOK
  OBVIOUS
<1>1. OsType /\ PowerType
  BY EngineAssumption DEF Init, OsType, PowerType, Alive
<1>2. BookType
  BY UntrackedEffect, EngineAssumption DEF Init, BookType
<1>3. ChannelType /\ LoopType
  BY EngineAssumption, EmptySeq DEF Init, ChannelType, LoopType
<1>4. QED
  BY <1>1, <1>2, <1>3, TypeParts

LEMMA ProcessKeepsType ==
    ASSUME TypeOK, NEW p \in Proc, Spawn(p) \/ Exit(p)
    PROVE  TypeOK'
<1>1. OsType /\ PowerType /\ BookType /\ ChannelType /\ LoopType
  BY TypeParts
<1>2. OsType'
  <2>1. CASE Spawn(p)
    BY <1>1, <2>1 DEF OsType, Spawn, Alive
  <2>2. CASE Exit(p)
    BY <1>1, <2>2 DEF OsType, Exit, Alive
  <2>3. QED
    BY <2>1, <2>2
<1>3. UNCHANGED <<powerVars, bookVars, loopVars>>
  BY DEF Spawn, Exit
<1>4. PowerType' /\ BookType' /\ ChannelType'
  BY <1>1, <1>3 DEF PowerType, BookType, ChannelType, powerVars, bookVars, loopVars
<1>5. LoopType'
  BY <1>1, <1>3, LoopKept DEF loopVars
<1>6. QED
  BY <1>2, <1>4, <1>5, TypePartsNext

\* One entry at most is replaced.
LEMMA EntryKeepsType ==
    ASSUME TypeOK, NEW a \in App, NEW e \in Entry, app' = [app EXCEPT ![a] = e]
    PROVE  app' \in [App -> Entry]
BY DEF TypeOK

LEMMA TimersKeepType ==
    ASSUME TypeOK, Timers
    PROVE  TypeOK'
<1>1. OsType /\ PowerType /\ BookType /\ ChannelType /\ LoopType
  BY TypeParts
<1>2. ASSUME NEW a \in App, FireSuspendTimer(a)
      PROVE  TypeOK'
  <2>1. <<"suspend", a>> \in Kinds \X App
    BY DEF Kinds
  <2>2. ChannelType'
    BY <1>1, <1>2, <2>1, SendType DEF FireSuspendTimer, ChannelType
  <2>3. app[a] \in Entry
    BY <1>1 DEF BookType
  <2>4. app' \in [App -> Entry]
    BY <1>2, <2>3, CancelTimerEffect, EntryKeepsType DEF FireSuspendTimer
  <2>5. OsType' /\ PowerType' /\ BookType' /\ LoopType'
    BY <1>1, <1>2, <2>4, LoopKept DEF FireSuspendTimer, OsType, PowerType, BookType,
       osVars, powerVars, Alive
  <2>6. QED
    BY <2>2, <2>5, TypePartsNext
<1>3. ASSUME NEW a \in App, FireMaintenance(a)
      PROVE  TypeOK'
  <2>1. app[a] \in Entry /\ app[a].maint \in {"wake", "sleep"}
    BY <1>1, <1>3 DEF BookType, FireMaintenance, Entry
  <2>2. <<app[a].maint, a>> \in Kinds \X App
    BY <2>1 DEF Kinds
  <2>3. ChannelType'
    BY <1>1, <1>3, <2>2, SendType DEF FireMaintenance, ChannelType
  <2>4. app' \in [App -> Entry]
    BY <1>3, <2>1, SetMaintenanceEffect, EntryKeepsType DEF FireMaintenance
  <2>5. OsType' /\ PowerType' /\ BookType' /\ LoopType'
    BY <1>1, <1>3, <2>4, LoopKept DEF FireMaintenance, OsType, PowerType, BookType,
       osVars, powerVars, Alive
  <2>6. QED
    BY <2>3, <2>5, TypePartsNext
<1>4. ASSUME NEW event \in stray, FireStray(event)
      PROVE  TypeOK'
  <2>1. event \in Kinds \X App
    BY <1>1 DEF ChannelType
  <2>2. ChannelType'
    BY <1>1, <1>4, <2>1, SendType DEF FireStray, ChannelType
  <2>3. OsType' /\ PowerType' /\ BookType' /\ LoopType'
    BY <1>1, <1>4, LoopKept DEF FireStray, OsType, PowerType, BookType,
       osVars, powerVars, bookVars, Alive
  <2>4. QED
    BY <2>2, <2>3, TypePartsNext
<1>5. QED
  BY <1>2, <1>3, <1>4 DEF Timers

----------------------------------------------------------------------------
(* What the second half of a suspension does                               *)

\* The outcomes of Suspend for application a, of which procs were found and e
\* is the new entry: nothing was tried, something was reached, or nothing.
Untried(a, procs, e) ==
    /\ ~Managing \/ app[a].state # "background" \/ procs = {} \/ PersistMayFail
    /\ e = app[a] /\ failures' = failures /\ stopped' = stopped
    /\ \/ rec' = rec
       \/ PersistMayFail /\ rec' = ArmEntry(a, procs)

Reaching(a, procs, e) ==
    /\ Managing /\ app[a].state = "background" /\ Reached(procs) # {}
    /\ e.roots = app[a].roots \ (procs \ Alive)
    /\ failures' = [failures EXCEPT ![a] = 0]
    /\ \/ /\ e.state = "frozen" /\ app[a].policy.action = "freeze"
          /\ stopped' = stopped \cup Reached(procs) /\ rec' = ArmCommitEntry(a, procs)
          /\ \/ app[a].policy.maintenance /\ e.maint = "wake"
             \/ ~app[a].policy.maintenance /\ e.maint = app[a].maint
       \/ /\ e.state = "throttled"
          /\ stopped' = stopped /\ rec' = rec /\ e.maint = app[a].maint

Missing(a, procs, e) ==
    /\ Managing /\ app[a].state = "background" /\ Reached(procs) = {}
    /\ e.roots = app[a].roots \ (procs \ Alive)
    /\ e.state = "background" /\ e.maint = app[a].maint
    /\ stopped' = stopped
    /\ rec' = rec \/ rec' = ArmCommitEntry(a, procs)
    /\ \/ procs \cap Alive \cap Refusers = {} /\ failures' = failures
          /\ (app[a].timer => e.timer)
       \/ failures' = [failures EXCEPT ![a] = MaxAttempts]
       \/ e.timer /\ \E n \in 0..MaxAttempts : failures' = [failures EXCEPT ![a] = n]

SuspendOutcome(a, procs, e) ==
    /\ app' = [app EXCEPT ![a] = e] /\ Kept(e, app[a])
    /\ Untried(a, procs, e) \/ Reaching(a, procs, e) \/ Missing(a, procs, e)

LEMMA FailedEffect ==
    ASSUME TypeOK, NEW a \in App, NEW procs, NEW e \in Entry,
           SuspendFailed(a, e, procs)
    PROVE  \E f \in Entry :
             /\ app' = [app EXCEPT ![a] = f] /\ Kept(f, e) /\ f.state = e.state
             /\ f.roots = e.roots /\ f.maint = e.maint
             /\ \/ procs \cap Alive \cap Refusers = {} /\ failures' = failures
                   /\ (e.timer => f.timer)
                \/ failures' = [failures EXCEPT ![a] = MaxAttempts]
                \/ f.timer
                   /\ \E n \in 0..MaxAttempts : failures' = [failures EXCEPT ![a] = n]
<1> DEFINE error    == procs \cap Alive \cap Refusers # {}
           attempts == failures[a] + 1
<1>1. CASE ~error /\ app' = [app EXCEPT ![a] = e] /\ failures' = failures
  BY <1>1 DEF Kept
<1>2. CASE /\ failures' = [failures EXCEPT ![a] = MaxAttempts]
           /\ app' = [app EXCEPT ![a] = CancelSuspendTimer(e)]
  BY <1>2, CancelTimerEffect
<1>3. CASE /\ attempts < MaxAttempts
           /\ failures' = [failures EXCEPT ![a] = attempts]
           /\ app' = [app EXCEPT ![a] = SetSuspendTimer(e)]
  <2>1. attempts \in 0..MaxAttempts
    BY <1>3, EngineAssumption DEF TypeOK
  <2>2. QED
    BY <1>3, <2>1, SetTimerEffect
<1>4. QED
  BY <1>1, <1>2, <1>3 DEF SuspendFailed

LEMMA FreezeEffect ==
    ASSUME TypeOK, NEW a \in App, NEW procs, Managing,
           app[a].state = "background", app[a].policy.action = "freeze",
           Freeze(a, procs)
    PROVE  \E e \in Entry : SuspendOutcome(a, procs, e)
<1> DEFINE old == app[a]
           e   == AbsorbGone(old, procs)
           frozen == SetState(e, "frozen")
<1>1. old \in Entry
  BY DEF TypeOK
<1>2. e \in Entry /\ Kept(e, old) /\ e.state = old.state /\ e.maint = old.maint
      /\ e.roots = old.roots \ (procs \ Alive) /\ (e.timer <=> old.timer)
  BY <1>1, AbsorbGoneEffect
<1>3. frozen \in Entry /\ Kept(frozen, old) /\ frozen.state = "frozen"
      /\ frozen.roots = e.roots /\ frozen.maint = old.maint
  BY <1>2, SetStateEffect, StatesAre DEF Kept
<1>4. CASE UNCHANGED <<stopped, app, failures>>
           /\ \/ procs = {} /\ rec' = rec
              \/ PersistMayFail /\ rec' = ArmEntry(a, procs)
  <2>1. app' = [app EXCEPT ![a] = old] /\ Kept(old, old)
    BY <1>4 DEF TypeOK, Kept
  <2>2. Untried(a, procs, old)
    BY <1>4 DEF Untried
  <2>3. QED
    BY <1>1, <2>1, <2>2 DEF SuspendOutcome
<1>5. CASE /\ stopped' = stopped \cup Reached(procs)
           /\ rec' = ArmCommitEntry(a, procs)
           /\ Reached(procs) # {}
           /\ SuspendSucceeded(a, IF e.policy.maintenance
                                  THEN SetMaintenance(frozen, "wake") ELSE frozen)
  <2> DEFINE f == IF e.policy.maintenance THEN SetMaintenance(frozen, "wake") ELSE frozen
  <2>1. f \in Entry /\ Kept(f, old) /\ f.state = "frozen" /\ f.roots = e.roots
        /\ f.maint = (IF old.policy.maintenance THEN "wake" ELSE old.maint)
    BY <1>2, <1>3, SetMaintenanceEffect DEF Kept
  <2>2. app' = [app EXCEPT ![a] = f] /\ failures' = [failures EXCEPT ![a] = 0]
    BY <1>5 DEF SuspendSucceeded
  <2>3. Reaching(a, procs, f)
    BY <1>2, <1>5, <2>1, <2>2 DEF Reaching
  <2>4. QED
    BY <2>1, <2>2, <2>3 DEF SuspendOutcome
<1>6. CASE /\ stopped' = stopped \cup Reached(procs)
           /\ rec' = ArmCommitEntry(a, procs)
           /\ Reached(procs) = {}
           /\ SuspendFailed(a, e, procs)
  <2>1. PICK f \in Entry :
          /\ app' = [app EXCEPT ![a] = f] /\ Kept(f, e) /\ f.state = e.state
          /\ f.roots = e.roots /\ f.maint = e.maint
          /\ \/ procs \cap Alive \cap Refusers = {} /\ failures' = failures
                /\ (e.timer => f.timer)
             \/ failures' = [failures EXCEPT ![a] = MaxAttempts]
             \/ f.timer
                /\ \E n \in 0..MaxAttempts : failures' = [failures EXCEPT ![a] = n]
    BY <1>2, <1>6, FailedEffect
  <2>2. Kept(f, old)
    BY <1>2, <2>1 DEF Kept
  <2>3. stopped' = stopped
    BY <1>6
  <2>4. Missing(a, procs, f)
    BY <1>2, <1>6, <2>1, <2>3 DEF Missing
  <2>5. QED
    BY <2>1, <2>2, <2>4 DEF SuspendOutcome
<1>7. QED
  BY <1>4, <1>5, <1>6 DEF Freeze, bookVars

LEMMA ThrottleEffect ==
    ASSUME TypeOK, NEW a \in App, NEW procs, Managing,
           app[a].state = "background", stopped' = stopped, Throttle(a, procs)
    PROVE  \E e \in Entry : SuspendOutcome(a, procs, e)
<1> DEFINE old == app[a]
           e   == AbsorbGone(old, procs)
<1>1. old \in Entry
  BY DEF TypeOK
<1>2. e \in Entry /\ Kept(e, old) /\ e.state = old.state /\ e.maint = old.maint
      /\ e.roots = old.roots \ (procs \ Alive) /\ (e.timer <=> old.timer)
  BY <1>1, AbsorbGoneEffect
<1>3. CASE Reached(procs) # {} /\ SuspendSucceeded(a, SetState(e, "throttled"))
  <2> DEFINE f == SetState(e, "throttled")
  <2>1. f \in Entry /\ Kept(f, old) /\ f.state = "throttled" /\ f.roots = e.roots
        /\ f.maint = old.maint
    BY <1>2, SetStateEffect, StatesAre DEF Kept
  <2>2. app' = [app EXCEPT ![a] = f] /\ failures' = [failures EXCEPT ![a] = 0]
    BY <1>3 DEF SuspendSucceeded
  <2>3. Reaching(a, procs, f)
    BY <1>2, <1>3, <2>1, <2>2 DEF Reaching, Throttle
  <2>4. QED
    BY <2>1, <2>2, <2>3 DEF SuspendOutcome
<1>4. CASE Reached(procs) = {} /\ SuspendFailed(a, e, procs)
  <2>1. PICK f \in Entry :
          /\ app' = [app EXCEPT ![a] = f] /\ Kept(f, e) /\ f.state = e.state
          /\ f.roots = e.roots /\ f.maint = e.maint
          /\ \/ procs \cap Alive \cap Refusers = {} /\ failures' = failures
                /\ (e.timer => f.timer)
             \/ failures' = [failures EXCEPT ![a] = MaxAttempts]
             \/ f.timer
                /\ \E n \in 0..MaxAttempts : failures' = [failures EXCEPT ![a] = n]
    BY <1>2, <1>4, FailedEffect
  <2>2. Kept(f, old)
    BY <1>2, <2>1 DEF Kept
  <2>3. Missing(a, procs, f)
    BY <1>2, <1>4, <2>1 DEF Missing, Throttle
  <2>4. QED
    BY <2>1, <2>2, <2>3 DEF SuspendOutcome
<1>5. QED
  BY <1>3, <1>4 DEF Throttle

LEMMA SuspendEffect ==
    ASSUME TypeOK, Suspend
    PROVE  /\ up /\ pending.app \in App /\ pending.procs \subseteq Proc
           /\ pending # None /\ pending' = None
           /\ UNCHANGED <<life, powerVars, queue, stray, found>> /\ up' = up
           /\ niced' \subseteq niced \cup Reached(pending.procs)
           /\ \E e \in Entry : SuspendOutcome(pending.app, pending.procs, e)
<1> DEFINE a == pending.app
           procs == pending.procs
           t == OnSuspendTimer(app[a].state, app[a].policy.action)
<1>1. up /\ pending # None /\ a \in App /\ procs \subseteq Proc /\ app[a] \in Entry
  BY DEF Suspend, TypeOK
<1>2. pending' = None /\ UNCHANGED <<life, powerVars, queue, stray, found>> /\ up' = up
  BY DEF Suspend
<1>3. niced' \subseteq niced \cup Reached(procs)
  BY DEF Suspend, Throttle
<1>4. t.action # "noOp" => app[a].state = "background"
  BY DEF OnSuspendTimer, To
<1>5. t.action = "applyFreeze" => app[a].policy.action = "freeze"
  BY DEF OnSuspendTimer, To
<1>6. t.action = "noOp" => app[a].state # "background"
  BY DEF OnSuspendTimer, To
<1>7. CASE Managing /\ t.action = "applyFreeze" /\ Freeze(a, procs)
  BY <1>1, <1>2, <1>3, <1>4, <1>5, <1>7, FreezeEffect
<1>8. CASE Managing /\ t.action = "applyThrottle" /\ Throttle(a, procs)
           /\ stopped' = stopped
  BY <1>1, <1>2, <1>3, <1>4, <1>8, ThrottleEffect
<1>9. CASE /\ ~Managing \/ t.action = "noOp"
           /\ UNCHANGED <<stopped, niced, bookVars>>
  <2>1. UNCHANGED <<stopped, app, failures, rec>>
    BY <1>9 DEF bookVars
  <2>2. app' = [app EXCEPT ![a] = app[a]] /\ Kept(app[a], app[a])
    BY <1>1, <2>1 DEF TypeOK, Kept
  <2>3. Untried(a, procs, app[a])
    BY <1>6, <1>9, <2>1 DEF Untried
  <2>4. QED
    BY <1>1, <1>2, <1>3, <2>2, <2>3 DEF SuspendOutcome
<1>10. QED
  BY <1>1, <1>2, <1>3, <1>7, <1>8, <1>9 DEF Suspend

----------------------------------------------------------------------------
(* The handlers keep the types                                             *)

\* A handler that replaces one entry at most and leaves the processes alone.
LEMMA SuspendTimerKeepsType ==
    ASSUME TypeOK, SuspendTimer
    PROVE  TypeOK'
<1>1. OsType /\ PowerType /\ BookType /\ ChannelType /\ LoopType
  BY TypeParts
<1>2. ASSUME NEW a \in App, DropSuspendTimer(a) \/ PostponeSuspend(a)
      PROVE  TypeOK'
  <2>1. Receive("suspend", a) /\ UNCHANGED <<osVars, powerVars, failures, rec, pending>>
    BY <1>2 DEF DropSuspendTimer, PostponeSuspend
  <2>2. \/ app' = app
        \/ app' = [app EXCEPT ![a] = CancelSuspendTimer(@)]
        \/ app' = [app EXCEPT ![a] = SetSuspendTimer(@)]
    BY <1>2 DEF DropSuspendTimer, PostponeSuspend
  <2>3. app[a] \in Entry
    BY <1>1 DEF BookType
  <2>4. app' \in [App -> Entry]
    BY <1>1, <2>2, <2>3, CancelTimerEffect, SetTimerEffect DEF BookType
  <2>5. ChannelType' /\ LoopType'
    BY <1>1, <2>1, ReceiveType, LoopKept
  <2>6. OsType' /\ PowerType' /\ BookType'
    BY <1>1, <2>1, <2>4 DEF OsType, PowerType, BookType, osVars, powerVars, Alive
  <2>7. QED
    BY <2>5, <2>6, TypePartsNext
<1>3. ASSUME NEW a \in App, ScanTree(a)
      PROVE  TypeOK'
  <2>1. Receive("suspend", a) /\ UNCHANGED <<osVars, powerVars, bookVars>>
    BY <1>3 DEF ScanTree
  <2>2. PICK procs \in {Allowed(ExpandTree(a)), {}} :
          pending' = [app |-> a, procs |-> procs]
    BY <1>3 DEF ScanTree
  <2>3. procs \subseteq Proc
    BY DEF Allowed, ExpandTree, Alive
  <2>4. ChannelType' /\ up' = up /\ found' = found
    BY <2>1, ReceiveType
  <2>5. pending' \in [app : App, procs : SUBSET Proc]
    BY <2>2, <2>3
  <2>6. LoopType'
    BY <1>1, <2>4, <2>5 DEF LoopType
  <2>7. OsType' /\ PowerType' /\ BookType'
    BY <1>1, <2>1 DEF OsType, PowerType, BookType, osVars, powerVars, bookVars, Alive
  <2>8. QED
    BY <2>4, <2>6, <2>7, TypePartsNext
<1>4. CASE GuardsBlock
  <2>1. pending.app \in App /\ app[pending.app] \in Entry
    BY <1>1, <1>4 DEF GuardsBlock, LoopType, BookType
  <2>2. app' \in [App -> Entry]
    BY <1>1, <1>4, <2>1, SetTimerEffect DEF GuardsBlock, BookType
  <2>3. LoopType'
    BY <1>1, <1>4 DEF GuardsBlock, LoopType
  <2>4. OsType' /\ PowerType' /\ BookType' /\ ChannelType'
    BY <1>1, <1>4, <2>2 DEF GuardsBlock, OsType, PowerType, BookType, ChannelType,
       osVars, powerVars, Alive
  <2>5. QED
    BY <2>3, <2>4, TypePartsNext
<1>5. CASE Suspend
  <2> DEFINE a == pending.app
             procs == pending.procs
  <2>1. PICK e \in Entry : SuspendOutcome(a, procs, e)
    BY <1>5, SuspendEffect
  <2>2. /\ a \in App /\ procs \subseteq Proc /\ pending' = None
        /\ UNCHANGED <<life, powerVars, queue, stray, found>> /\ up' = up
        /\ niced' \subseteq niced \cup Reached(procs)
    BY <1>5, SuspendEffect
  <2>3. Reached(procs) \subseteq Alive
    BY DEF Reached
  <2>4. stopped' \subseteq stopped \cup Reached(procs)
    BY <2>1 DEF SuspendOutcome, Untried, Reaching, Missing
  <2>5. OsType'
    BY <1>1, <2>2, <2>3, <2>4 DEF OsType, Alive
  <2>6. app' \in [App -> Entry]
    BY <1>1, <2>1, <2>2 DEF SuspendOutcome, BookType
  <2>7. 0 \in 0..MaxAttempts /\ MaxAttempts \in 0..MaxAttempts
    BY EngineAssumption
  <2>8. failures' = failures \/ \E n \in 0..MaxAttempts : failures' = [failures EXCEPT ![a] = n]
    BY <2>1, <2>7 DEF SuspendOutcome, Untried, Reaching, Missing
  <2>9. failures' \in [App -> 0..MaxAttempts]
    BY <1>1, <2>2, <2>8 DEF BookType
  <2>10. a \in Key /\ ArmEntry(a, procs) \in [Key -> SUBSET Proc]
         /\ ArmCommitEntry(a, procs) \in [Key -> SUBSET Proc]
    BY <1>1, <2>2, <2>3 DEF BookType, Key, ArmEntry, ArmCommitEntry, Alive
  <2>11. rec' \in [Key -> SUBSET Proc]
    BY <1>1, <2>1, <2>10 DEF SuspendOutcome, Untried, Reaching, Missing, BookType
  <2>12. PowerType' /\ ChannelType'
    BY <1>1, <2>2 DEF PowerType, ChannelType, powerVars
  <2>13. LoopType'
    BY <1>1, <2>2 DEF LoopType
  <2>14. BookType'
    BY <2>6, <2>9, <2>11 DEF BookType
  <2>15. QED
    BY <2>5, <2>12, <2>13, <2>14, TypePartsNext
<1>6. QED
  BY <1>2, <1>3, <1>4, <1>5 DEF SuspendTimer

LEMMA RecordedType ==
    ASSUME TypeOK, NEW a \in App
    PROVE  RecordedProcs(a) \subseteq Proc
BY DEF RecordedProcs, TypeOK, Key, Entry, Root

LEMMA MaintenanceKeepsType ==
    ASSUME TypeOK, Maintenance
    PROVE  TypeOK'
<1>1. OsType /\ PowerType /\ BookType /\ ChannelType /\ LoopType
  BY TypeParts
<1>2. PICK a \in App : MaintenanceWake(a) \/ MaintenanceSleep(a)
  BY DEF Maintenance
<1>3. ChannelType' /\ LoopType'
  BY <1>1, <1>2, ReceiveType, LoopKept DEF MaintenanceWake, MaintenanceSleep
<1>4. stopped' \subseteq stopped \cup Reached(RecordedProcs(a))
      /\ UNCHANGED <<life, niced, powerVars, failures, rec>>
  BY <1>2 DEF MaintenanceWake, MaintenanceSleep
<1>5. Reached(RecordedProcs(a)) \subseteq Alive
  BY DEF Reached
<1>6. app[a] \in Entry
  BY <1>1 DEF BookType
<1>7. \/ app' = app
      \/ app' = [app EXCEPT ![a] = SetMaintenance(@, "sleep")]
      \/ app' = [app EXCEPT ![a] = SetMaintenance(@, "wake")]
  BY <1>2 DEF MaintenanceWake, MaintenanceSleep
<1>8. app' \in [App -> Entry]
  BY <1>1, <1>6, <1>7, SetMaintenanceEffect DEF BookType
<1>9. OsType' /\ PowerType' /\ BookType'
  BY <1>1, <1>4, <1>5, <1>8 DEF OsType, PowerType, BookType, powerVars, Alive
<1>10. QED
  BY <1>3, <1>9, TypePartsNext

LEMMA OwnerType ==
    ASSUME NEW p \in Root
    PROVE  p \in Proc /\ Owner[p] \in App /\ Parent[p] = p
BY EngineAssumption DEF Root

\* The entry of the application that gets the focus.
LEMMA ActivatedEffect ==
    ASSUME TypeOK, NEW a \in App, a \in Tracked, NEW p \in Root,
           ActivateExistingApp(a, p)
    PROVE  \E e \in Entry :
             /\ e.state = "active" /\ e.policy = app[a].policy
             /\ e.maint = app[a].maint /\ e.win = p
             /\ \E r : /\ e.roots = r \cup {p} /\ r \subseteq app[a].roots
                       /\ app[a].roots \cap Alive \subseteq r
             /\ app' = [b \in App |-> IF b = a THEN e ELSE Backgrounded(app[b])]
<1> DEFINE t == OnFocusGained(app[a].state)
           f == IF t.action = "noOp" THEN app[a]
                ELSE Transition(app[a], t, RecordedProcs(a), Managing)
           e == [f EXCEPT !.win = p, !.roots = @ \cup {p}]
<1>1. app[a] \in Entry /\ app[a].state \in States
  BY DEF TypeOK, Tracked, Entry
<1>2. t.action = "noOp" => app[a].state = "active"
  BY <1>1 DEF OnFocusGained, To, States
<1>3. /\ f \in Entry /\ f.state = "active" /\ Kept(f, app[a])
      /\ f.maint = app[a].maint /\ Shrunk(f, app[a])
  <2>1. CASE t.action = "noOp"
    BY <1>1, <1>2, <2>1 DEF Kept, Shrunk
  <2>2. CASE t.action # "noOp"
    BY <1>1, <2>2, GainedEffect
  <2>3. QED
    BY <2>1, <2>2
<1>4. /\ e \in Entry /\ e.state = "active" /\ e.policy = app[a].policy
      /\ e.maint = app[a].maint /\ e.win = p /\ e.roots = f.roots \cup {p}
  BY <1>3 DEF Entry, Kept
<1>5. app' = [b \in App |-> IF b = a THEN e ELSE Backgrounded(app[b])]
  BY DEF ActivateExistingApp
<1>6. QED
  BY <1>3, <1>4, <1>5 DEF Shrunk

LEMMA DesktopKeepsType ==
    ASSUME TypeOK, Desktop
    PROVE  TypeOK'
<1>1. OsType /\ PowerType /\ BookType /\ ChannelType /\ LoopType
  BY TypeParts
<1>2. \A b \in App : app[b] \in Entry /\ Backgrounded(app[b]) \in Entry
  BY <1>1, BackgroundedEffect DEF BookType
<1>3. 0 \in 0..MaxAttempts
  BY EngineAssumption
<1>4. ASSUME NEW p \in Root, RegisterNewApp(Owner[p], p)
      PROVE  TypeOK'
  <2>1. NewEntry(Owner[p], p) \in Entry
    BY <1>1, NewEntryEffect, OwnerType DEF PowerType
  <2>2. app' \in [App -> Entry]
    BY <1>2, <1>4, <2>1 DEF RegisterNewApp
  <2>3. UNCHANGED <<osVars, powerVars, failures, rec, loopVars>>
    BY <1>4 DEF RegisterNewApp
  <2>4. OsType' /\ PowerType' /\ BookType' /\ ChannelType'
    BY <1>1, <2>2, <2>3 DEF OsType, PowerType, BookType, ChannelType, osVars,
       powerVars, loopVars, Alive
  <2>5. LoopType'
    BY <1>1, <2>3, LoopKept DEF loopVars
  <2>6. QED
    BY <2>4, <2>5, TypePartsNext
<1>5. ASSUME NEW p \in Root, ActivateExistingApp(Owner[p], p)
      PROVE  TypeOK'
  <2> DEFINE a == Owner[p]
  <2>1. a \in App /\ a \in Tracked
    BY <1>5, OwnerType DEF ActivateExistingApp
  <2>2. app' \in [App -> Entry]
    BY <1>2, <1>5, <2>1, ActivatedEffect
  <2>3. OsType' /\ rec' \in [Key -> SUBSET Proc]
    BY <1>5, <2>1, ReleaseType DEF ActivateExistingApp
  <2>4. failures' \in [App -> 0..MaxAttempts] /\ UNCHANGED <<powerVars, loopVars>>
    BY <1>1, <1>3, <1>5 DEF ActivateExistingApp, BookType
  <2>5. PowerType' /\ BookType' /\ ChannelType'
    BY <1>1, <2>2, <2>3, <2>4 DEF PowerType, BookType, ChannelType, powerVars, loopVars
  <2>6. LoopType'
    BY <1>1, <2>4, LoopKept DEF loopVars
  <2>7. QED
    BY <2>3, <2>5, <2>6, TypePartsNext
<1>6. ASSUME NEW F \in SUBSET App, PreThaw(F)
      PROVE  TypeOK'
  <2>1. \A b \in App : SetSuspendTimer(ToBackground(app[b], RecordedProcs(b))) \in Entry
    BY <1>2, ToBackgroundEffect, SetTimerEffect
  <2>2. app' \in [App -> Entry]
    BY <1>2, <1>6, <2>1 DEF PreThaw
  <2>3. OsType' /\ rec' \in [Key -> SUBSET Proc] /\ UNCHANGED <<powerVars, failures, loopVars>>
    BY <1>6, ReleaseType DEF PreThaw
  <2>4. PowerType' /\ BookType' /\ ChannelType'
    BY <1>1, <2>2, <2>3 DEF PowerType, BookType, ChannelType, powerVars, loopVars
  <2>5. LoopType'
    BY <1>1, <2>3, LoopKept DEF loopVars
  <2>6. QED
    BY <2>3, <2>4, <2>5, TypePartsNext
<1>7. ASSUME NEW a \in App, WindowClosed(a)
      PROVE  TypeOK'
  <2> DEFINE tasks == {<<"suspend", a>> : x \in {app[a].timer} \cap {TRUE}} \cup
                      {<<k, a>> : k \in {app[a].maint} \ {"off"}}
  <2>1. tasks \subseteq Kinds \X App
    BY <1>2 DEF Kinds, Entry
  <2>2. stray' = stray \cup tasks /\ queue' = queue
    BY <1>7 DEF WindowClosed
  <2>3. ChannelType'
    BY <1>1, <2>1, <2>2 DEF ChannelType
  <2>4. app' \in [App -> Entry]
    BY <1>1, <1>7, UntrackedEffect DEF WindowClosed, BookType
  <2>5. failures' \in [App -> 0..MaxAttempts]
    BY <1>1, <1>3, <1>7 DEF WindowClosed, BookType
  <2>6. OsType' /\ rec' \in [Key -> SUBSET Proc]
    BY <1>7, ReleaseType DEF WindowClosed
  <2>7. PowerType' /\ up' = up /\ pending' = pending /\ found' = found
    BY <1>1, <1>7 DEF WindowClosed, PowerType, powerVars
  <2>8. BookType' /\ LoopType'
    BY <1>1, <2>4, <2>5, <2>6, <2>7, LoopKept DEF BookType
  <2>9. QED
    BY <2>3, <2>6, <2>7, <2>8, TypePartsNext
<1>8. ASSUME NEW p \in Proc, FocusChanged(p)
      PROVE  TypeOK'
  BY <1>4, <1>5, <1>8 DEF FocusChanged
<1>9. WorkspaceChanged \/ ActivationRequested => TypeOK'
  BY <1>6 DEF WorkspaceChanged, ActivationRequested
<1>10. QED
  BY <1>7, <1>8, <1>9 DEF Desktop

LEMMA ManagementType ==
    ASSUME TypeOK, NEW on \in BOOLEAN, ReconcileManagement(on)
    PROVE  OsType' /\ app' \in [App -> Entry] /\ rec' \in [Key -> SUBSET Proc]
<1>1. (IF on THEN {} ELSE In({"frozen"})) \in SUBSET App
  BY DEF In
<1>2. OsType' /\ rec' \in [Key -> SUBSET Proc]
  BY <1>1, ReleaseType DEF ReconcileManagement
<1>3. Managing \in BOOLEAN
  BY ManagingType DEF TypeOK
<1>4. \A a \in App : Reconciled(app[a], a, Managing, on) \in Entry
  BY <1>3, ReconciledEffect DEF TypeOK
<1>5. QED
  BY <1>2, <1>4 DEF ReconcileManagement

LEMMA PowerKeepsType ==
    ASSUME TypeOK,
           \/ \E s \in Sources : PowerSourceChanged(s)
           \/ \E f \in Overrides : SetPowerOverride(f)
    PROVE  TypeOK'
<1>1. OsType /\ PowerType /\ BookType /\ ChannelType /\ LoopType
  BY TypeParts
<1>2. PICK on \in BOOLEAN : ReconcileManagement(on)
  BY <1>1, ManagingType DEF PowerSourceChanged, SetPowerOverride, PowerType
<1>3. PowerType' /\ failures' = failures /\ UNCHANGED loopVars
  BY <1>1, EngineAssumption DEF PowerSourceChanged, SetPowerOverride, PowerType
<1>4. OsType' /\ BookType'
  BY <1>1, <1>2, <1>3, ManagementType DEF BookType
<1>5. ChannelType' /\ LoopType'
  BY <1>1, <1>3, LoopKept DEF ChannelType, loopVars
<1>6. QED
  BY <1>3, <1>4, <1>5, TypePartsNext

\* What a reload makes of an entry, matched again and then reconciled.
LEMMA ReloadedEffect ==
    ASSUME TypeOK, NEW c \in Configs, ConfigReloaded(c), NEW a \in App
    PROVE  LET on     == ShouldManage(c, source, forced)
               policy == ResolvedPolicy(c, a, app[a].win)
               back   == Restored(app[a].state, policy.action)
           IN /\ app'[a] \in Entry /\ app'[a].win = app[a].win
              /\ a \notin Tracked => app'[a] = app[a]
              /\ a \in Tracked =>
                   /\ app'[a].policy = policy
                   /\ Shrunk(app'[a], app[a])
                   /\ app'[a].maint = (IF back THEN "off" ELSE app[a].maint)
                   /\ app'[a].state = (IF back THEN "background"
                                       ELSE IF ~on /\ app[a].state \in Suspended
                                       THEN "active" ELSE app[a].state)
                   /\ (/\ app'[a].state = "background" /\ policy.action # "ignore"
                       /\ on /\ (app[a].policy.action # "ignore" \/ ~Managing)) =>
                         app'[a].timer
<1> DEFINE on     == ShouldManage(c, source, forced)
           e      == app[a]
           policy == ResolvedPolicy(c, a, e.win)
           back   == Restored(e.state, policy.action)
<1>1. e \in Entry /\ Managing \in BOOLEAN /\ on \in BOOLEAN
  BY ManagingType DEF TypeOK
<1>2. CASE a \notin Tracked
  BY <1>1, <1>2 DEF ConfigReloaded
<1>3. CASE a \in Tracked
  <2>1. PICK m : m = Rematched(e, a, c)
    OBVIOUS
  <2>2. PICK r : r = Reconciled(m, a, Managing, on)
    OBVIOUS
  <2>3. app'[a] = r
    BY <1>3, <2>1, <2>2 DEF ConfigReloaded
  <2>4. /\ m \in Entry /\ m.policy = policy /\ m.win = e.win /\ Shrunk(m, e)
        /\ m.state = (IF back THEN "background" ELSE e.state)
        /\ m.maint = (IF back THEN "off" ELSE e.maint)
        /\ back /\ policy.action # "ignore" => m.timer
        /\ (/\ e.state = "background" /\ policy.action # "ignore"
            /\ e.policy.action # "ignore") => m.timer
    BY <1>1, <2>1, RematchedEffect
  <2>5. /\ r \in Entry /\ Kept(r, m) /\ r.maint = m.maint /\ Shrunk(r, m)
        /\ r.state = (IF ~on /\ m.state \in Suspended THEN "active" ELSE m.state)
        /\ on => (m.timer => r.timer) /\ r.roots = m.roots
        /\ on /\ ~Managing /\ m.state = "background" /\ m.policy.action # "ignore" =>
             r.timer
    BY <1>1, <2>2, <2>4, ReconciledEffect
  <2>6. Shrunk(r, e)
    BY <2>4, <2>5 DEF Shrunk
  <2>7. r.state = (IF back THEN "background"
                   ELSE IF ~on /\ e.state \in Suspended THEN "active" ELSE e.state)
    BY <2>4, <2>5, StatesAre
  <2>8. (/\ r.state = "background" /\ policy.action # "ignore"
         /\ on /\ (e.policy.action # "ignore" \/ ~Managing)) => r.timer
    BY <2>4, <2>5, <2>7, StatesAre
  <2>9. r.policy = policy /\ r.win = e.win /\ r.maint = (IF back THEN "off" ELSE e.maint)
    BY <2>4, <2>5 DEF Kept
  <2>10. QED
    BY <1>3, <2>3, <2>5, <2>6, <2>7, <2>8, <2>9
<1>4. QED
  BY <1>2, <1>3

LEMMA ReloadKeepsType ==
    ASSUME TypeOK, NEW c \in Configs, ConfigReloaded(c)
    PROVE  TypeOK'
<1>1. OsType /\ PowerType /\ BookType /\ ChannelType /\ LoopType
  BY TypeParts
<1>2. PICK F, T : F \in SUBSET App /\ Restore(F, T, Recordings)
  BY DEF ConfigReloaded, In
<1>3. OsType' /\ rec' \in [Key -> SUBSET Proc]
  BY <1>2, ReleaseType
<1>4. app' \in [App -> Entry]
  <2>1. app' = [a \in App |-> app'[a]]
    BY DEF ConfigReloaded
  <2>2. \A a \in App : app'[a] \in Entry
    BY ReloadedEffect
  <2>3. QED
    BY <2>1, <2>2
<1>5. config' = c /\ UNCHANGED <<source, forced, failures, loopVars>>
  BY DEF ConfigReloaded
<1>6. PowerType' /\ BookType' /\ ChannelType'
  BY <1>1, <1>3, <1>4, <1>5 DEF PowerType, BookType, ChannelType, loopVars
<1>7. LoopType'
  BY <1>1, <1>5, LoopKept DEF loopVars
<1>8. QED
  BY <1>3, <1>6, <1>7, TypePartsNext

\* The requests that touch processes.
Client ==
    \/ \E a \in App : IpcFreeze(a, RecordedProcs(a)) \/ IpcThaw(a, RecordedProcs(a))
    \/ \E p \in Owned(Proc) : IpcFreeze(p, {p}) \/ IpcThaw(p, {p})
    \/ IpcThawAll

LEMMA ClientKeepsType ==
    ASSUME TypeOK, Client
    PROVE  TypeOK'
<1>1. OsType /\ PowerType /\ BookType /\ ChannelType /\ LoopType
  BY TypeParts
<1>2. ASSUME NEW k \in Key, NEW procs, IpcFreeze(k, procs)
      PROVE  /\ stopped' \subseteq Alive /\ rec' \in [Key -> SUBSET Proc]
             /\ app' \in [App -> Entry]
             /\ UNCHANGED <<life, niced, powerVars, failures, loopVars>>
  <2>1. Allowed(Owned(procs)) \subseteq Alive /\ Reached(Allowed(Owned(procs))) \subseteq Alive
    BY DEF Allowed, Owned, Reached
  <2>2. stopped' \subseteq Alive
    BY <1>1, <1>2, <2>1 DEF OsType, IpcFreeze
  <2>3. rec' \in [Key -> SUBSET Proc]
    <3>1. \/ rec' = [rec EXCEPT ![k] = @ \cup Allowed(Owned(procs))]
          \/ rec' = [rec EXCEPT ![k] = (@ \ Allowed(Owned(procs)))
                                       \cup Reached(Allowed(Owned(procs)))]
      BY <1>2 DEF IpcFreeze, ArmEntry, ArmCommitEntry
    <3>2. QED
      BY <1>1, <1>2, <2>1, <3>1 DEF BookType, Alive
  <2>4. QED
    BY <1>1, <1>2, <2>2, <2>3 DEF IpcFreeze, BookType
<1>3. ASSUME NEW k \in Key, NEW procs, IpcThaw(k, procs)
      PROVE  /\ stopped' \subseteq Alive /\ rec' \in [Key -> SUBSET Proc]
             /\ app' \in [App -> Entry]
             /\ UNCHANGED <<life, niced, powerVars, failures, loopVars>>
  <2>1. \A a \in App : SetState(app[a], "background") \in Entry
    BY <1>1, SetStateEffect, StatesAre DEF BookType
  <2>2. app' \in [App -> Entry]
    BY <1>1, <1>3, <2>1 DEF IpcThaw, BookType
  <2>3. rec' \in [Key -> SUBSET Proc]
    BY <1>1, <1>3 DEF IpcThaw, BookType
  <2>4. QED
    BY <1>1, <1>3, <2>2, <2>3 DEF IpcThaw, OsType
<1>4. ASSUME IpcThawAll
      PROVE  /\ stopped' \subseteq Alive /\ rec' \in [Key -> SUBSET Proc]
             /\ app' \in [App -> Entry]
             /\ UNCHANGED <<life, niced, powerVars, failures, loopVars>>
  <2>1. \A a \in App : SetState(app[a], "background") \in Entry
    BY <1>1, SetStateEffect, StatesAre DEF BookType
  <2>2. \A a \in App : CancelAllTimers(SetState(app[a], "background")) \in Entry
    BY <2>1, CancelAllEffect
  <2>3. app' \in [App -> Entry]
    BY <1>1, <1>4, <2>2 DEF IpcThawAll, BookType
  <2>4. rec' \in [Key -> SUBSET Proc]
    BY <1>1, <1>4 DEF IpcThawAll, ReleaseRecorded, BookType
  <2>5. QED
    BY <1>1, <1>4, <2>3, <2>4 DEF IpcThawAll, ReleaseRecorded, OsType
<1>5. /\ stopped' \subseteq Alive /\ rec' \in [Key -> SUBSET Proc]
      /\ app' \in [App -> Entry]
      /\ UNCHANGED <<life, niced, powerVars, failures, loopVars>>
  <2>1. App \subseteq Key /\ Owned(Proc) \subseteq Key
    BY DEF Key, Owned
  <2>2. QED
    BY <1>2, <1>3, <1>4, <2>1 DEF Client
<1>6. OsType' /\ PowerType' /\ BookType' /\ ChannelType'
  BY <1>1, <1>5 DEF OsType, PowerType, BookType, ChannelType, powerVars, loopVars, Alive
<1>7. LoopType'
  BY <1>1, <1>5, LoopKept DEF loopVars
<1>8. QED
  BY <1>6, <1>7, TypePartsNext

LEMMA SweepKeepsType ==
    ASSUME TypeOK, Reconcile \/ ReconcileResult
    PROVE  TypeOK'
<1>1. OsType /\ PowerType /\ BookType /\ ChannelType /\ LoopType
  BY TypeParts
<1>2. OsType' /\ PowerType' /\ ChannelType' /\ up' = up /\ pending' = pending
  BY <1>1 DEF Reconcile, ReconcileResult, OsType, PowerType, ChannelType,
     osVars, powerVars, Alive
<1>3. CASE Reconcile
  <2>1. BookType'
    BY <1>1, <1>3 DEF Reconcile, bookVars, BookType
  <2>2. UNION {app[a].roots : a \in Tracked} \subseteq Root
    BY <1>1 DEF BookType, Entry, Tracked
  <2>3. Exited \subseteq Proc
    BY DEF Exited
  <2>4. found' \in [reaped : SUBSET Root, journalDead : SUBSET Proc]
    BY <1>3, <2>2, <2>3 DEF Reconcile
  <2>5. LoopType'
    BY <1>1, <1>2, <2>4 DEF LoopType
  <2>6. QED
    BY <1>2, <2>1, <2>5, TypePartsNext
<1>4. CASE ReconcileResult
  <2>1. \A a \in App : [app[a] EXCEPT !.roots = @ \ found.reaped] \in Entry
    BY <1>1 DEF BookType, Entry
  <2>2. app' \in [App -> Entry]
    BY <1>4, <2>1, UntrackedEffect DEF ReconcileResult
  <2>3. 0 \in 0..MaxAttempts
    BY EngineAssumption
  <2>4. failures' \in [App -> 0..MaxAttempts]
    BY <1>1, <1>4, <2>3 DEF ReconcileResult, BookType
  <2>5. rec' \in [Key -> SUBSET Proc]
    BY <1>1, <1>4 DEF ReconcileResult, BookType
  <2>6. LoopType'
    BY <1>1, <1>2, <1>4 DEF LoopType, ReconcileResult
  <2>7. BookType'
    BY <2>2, <2>4, <2>5 DEF BookType
  <2>8. QED
    BY <1>2, <2>6, <2>7, TypePartsNext
<1>5. QED
  BY <1>3, <1>4

LEMMA ShutdownKeepsType ==
    ASSUME TypeOK, Shutdown
    PROVE  TypeOK'
<1>1. OsType /\ PowerType /\ BookType /\ ChannelType /\ LoopType
  BY TypeParts
<1>2. ASSUME NEW a \in App
      PROVE  CancelAllTimers(Reconciled(app[a], a, TRUE, FALSE)) \in Entry
  <2>1. Reconciled(app[a], a, TRUE, FALSE) \in Entry
    BY <1>1, ReconciledEffect DEF BookType
  <2>2. QED
    BY <2>1, CancelAllEffect
<1>3. app' \in [App -> Entry]
  BY <1>2 DEF Shutdown
<1>4. rec' \in [Key -> SUBSET Proc]
  BY <1>1 DEF Shutdown, BookType
<1>5. stopped' \subseteq stopped /\ niced' \subseteq niced /\ life' = life
  BY DEF Shutdown
<1>6. OsType' /\ PowerType' /\ BookType' /\ ChannelType'
  BY <1>1, <1>3, <1>4, <1>5 DEF Shutdown, OsType, PowerType, BookType, ChannelType,
     powerVars, Alive
<1>7. up' \in BOOLEAN /\ pending' = pending /\ found' = found
  BY DEF Shutdown
<1>8. LoopType'
  BY <1>1, <1>7 DEF LoopType
<1>9. QED
  BY <1>6, <1>8, TypePartsNext

LEMMA StutterKeepsType == TypeOK /\ UNCHANGED vars => TypeOK'
BY DEF TypeOK, vars, Alive

LEMMA NextIs ==
    Next <=> \/ \E p \in Proc : Spawn(p) \/ Exit(p)
             \/ Timers \/ SuspendTimer \/ Maintenance \/ Desktop
             \/ (\E s \in Sources : PowerSourceChanged(s))
                \/ (\E f \in Overrides : SetPowerOverride(f))
             \/ \E c \in Configs : ConfigReloaded(c)
             \/ Client \/ Reconcile \/ ReconcileResult \/ Shutdown
BY DEF Next, IpcRequest, Client

LEMMA NextType == TypeOK /\ [Next]_vars => TypeOK'
BY NextIs, ProcessKeepsType, TimersKeepType, SuspendTimerKeepsType,
   MaintenanceKeepsType, DesktopKeepsType, PowerKeepsType, ReloadKeepsType,
   ClientKeepsType, SweepKeepsType, ShutdownKeepsType, StutterKeepsType

\* Every variable keeps its type, for any number of applications and processes:
\* the channel never exceeds its capacity, the attempts never exceed the limit,
\* and only live processes are stopped or niced.
THEOREM TypeCorrect == Spec => []TypeOK
<1>1. Init => TypeOK
  BY InitType
<1>2. TypeOK /\ [Next]_vars => TypeOK'
  BY NextType
<1>3. QED
  BY <1>1, <1>2, PTL DEF Spec

----------------------------------------------------------------------------
(* Steps that leave the state, the policy and the roots of every entry     *)

Quiet == \A a \in App : /\ app'[a].state = app[a].state /\ Kept(app'[a], app[a])
                        /\ app'[a].roots = app[a].roots

LEMMA QuietEntry ==
    ASSUME TypeOK, NEW a \in App, NEW e \in Entry, e.state = app[a].state,
           Kept(e, app[a]), e.roots = app[a].roots, app' = [app EXCEPT ![a] = e]
    PROVE  Quiet
BY DEF Quiet, Kept, TypeOK

LEMMA SetQuiet ==
    ASSUME TypeOK, NEW a \in App, NEW k \in {"off", "wake", "sleep"},
           app' = [app EXCEPT ![a] = SetMaintenance(app[a], k)]
    PROVE  Quiet
<1>1. PICK e : e = SetMaintenance(app[a], k)
  OBVIOUS
<1>2. e \in Entry /\ e.state = app[a].state /\ Kept(e, app[a]) /\ e.roots = app[a].roots
  BY <1>1, SetMaintenanceEffect DEF TypeOK
<1>3. QED
  BY <1>1, <1>2, QuietEntry

LEMMA QuietTimers ==
    ASSUME TypeOK, Timers
    PROVE  Quiet /\ UNCHANGED <<osVars, powerVars, rec, pending, found>> /\ up /\ up' = up
<1>1. \A a \in App : app[a] \in Entry
  BY DEF TypeOK
<1>2. ASSUME NEW a \in App, FireSuspendTimer(a)
      PROVE  Quiet
  BY <1>1, <1>2, CancelTimerEffect, QuietEntry DEF FireSuspendTimer
<1>3. ASSUME NEW a \in App, FireMaintenance(a)
      PROVE  Quiet
  <2>1. app' = [app EXCEPT ![a] = SetMaintenance(app[a], "off")]
    BY <1>3 DEF FireMaintenance
  <2>2. QED
    BY <1>1, <2>1, SetQuiet
<1>4. ASSUME NEW event \in stray, FireStray(event)
      PROVE  Quiet
  BY <1>4 DEF FireStray, bookVars, Quiet, Kept
<1>5. UNCHANGED <<osVars, powerVars, rec, pending, found>>
  BY DEF Timers, FireSuspendTimer, FireMaintenance, FireStray, bookVars
<1>6. up /\ up' = up
  BY DEF Timers, FireSuspendTimer, FireMaintenance, FireStray
<1>7. QED
  BY <1>2, <1>3, <1>4, <1>5, <1>6 DEF Timers

LEMMA QuietMaintenance ==
    ASSUME TypeOK, NEW a \in App, MaintenanceWake(a) \/ MaintenanceSleep(a)
    PROVE  Quiet /\ UNCHANGED <<life, niced, powerVars, failures, rec, pending>>
<1>1. app' = app => Quiet
  BY DEF Quiet, Kept
<1>2. app' = [app EXCEPT ![a] = SetMaintenance(@, "sleep")] => Quiet
  BY SetQuiet
<1>3. app' = [app EXCEPT ![a] = SetMaintenance(@, "wake")] => Quiet
  BY SetQuiet
<1>4. QED
  BY <1>1, <1>2, <1>3 DEF MaintenanceWake, MaintenanceSleep

LEMMA QuietSuspendTimer ==
    ASSUME TypeOK, NEW a \in App, DropSuspendTimer(a) \/ PostponeSuspend(a) \/ ScanTree(a)
    PROVE  Quiet /\ UNCHANGED <<osVars, powerVars, failures, rec>>
<1>1. app[a] \in Entry
  BY DEF TypeOK
<1>2. CASE app' = app
  BY <1>2 DEF Quiet, Kept, DropSuspendTimer, PostponeSuspend, ScanTree, bookVars
<1>3. CASE /\ app' = [app EXCEPT ![a] = CancelSuspendTimer(@)]
           /\ UNCHANGED <<osVars, powerVars, failures, rec>>
  BY <1>1, <1>3, CancelTimerEffect, QuietEntry
<1>4. CASE /\ app' = [app EXCEPT ![a] = SetSuspendTimer(@)]
           /\ UNCHANGED <<osVars, powerVars, failures, rec>>
  BY <1>1, <1>4, SetTimerEffect, QuietEntry
<1>5. QED
  BY <1>2, <1>3, <1>4 DEF DropSuspendTimer, PostponeSuspend, ScanTree, bookVars

LEMMA QuietGuards ==
    ASSUME TypeOK, GuardsBlock
    PROVE  Quiet /\ UNCHANGED <<osVars, powerVars, failures, rec, up>>
<1>1. pending.app \in App /\ app[pending.app] \in Entry
  BY DEF TypeOK, GuardsBlock
<1>2. QED
  BY <1>1, SetTimerEffect, QuietEntry DEF GuardsBlock

----------------------------------------------------------------------------
(* The policy and the management switch                                    *)

\* A suspension in flight is of an application that may be suspended: the
\* policy was looked at before the tree was scanned, and while the handler
\* awaits no event is taken that could change it.
PendingWanted ==
    pending # None =>
        /\ app[pending.app].state # "untracked"
        /\ app[pending.app].policy.action # "ignore"

PolicyInv ==
    /\ PendingWanted
    /\ UnmanagedNothingSuspended
    /\ IgnoredNotSuspended

LEMMA PolicyInit == Init => PolicyInv
BY UntrackedEffect DEF Init, PolicyInv, PendingWanted, UnmanagedNothingSuspended,
   IgnoredNotSuspended, In, Suspended

LEMMA PolicyWith ==
    ASSUME Managing' => \A a \in App : app'[a].state \in Suspended =>
                                           app'[a].policy.action # "ignore",
           ~Managing' => \A a \in App : app'[a].state \notin Suspended,
           PendingWanted'
    PROVE  PolicyInv'
BY DEF PolicyInv, UnmanagedNothingSuspended, IgnoredNotSuspended, In

LEMMA ManagingKept == UNCHANGED powerVars => Managing' = Managing
BY DEF Managing, ShouldManage, powerVars

\* An entry that moves does not become suspended.
LEMMA PolicyKept ==
    ASSUME PolicyInv, UNCHANGED powerVars, PendingWanted',
           \A a \in App : \/ app'[a].state \notin Suspended
                          \/ /\ app'[a].state = app[a].state
                             /\ app'[a].policy = app[a].policy
    PROVE  PolicyInv'
<1>1. Managing' = Managing
  BY ManagingKept
<1>2. QED
  BY <1>1 DEF PolicyInv, UnmanagedNothingSuspended, IgnoredNotSuspended, In

LEMMA QuietKeepsPolicy ==
    ASSUME PolicyInv, Quiet, UNCHANGED powerVars, PendingWanted'
    PROVE  PolicyInv'
BY PolicyKept DEF Quiet, Kept

LEMMA SuspendKeepsPolicy ==
    ASSUME TypeOK, PolicyInv, Suspend
    PROVE  PolicyInv'
<1> DEFINE a == pending.app
           procs == pending.procs
<1>1. PICK e \in Entry : SuspendOutcome(a, procs, e)
  BY SuspendEffect
<1>2. a \in App /\ pending # None /\ pending' = None /\ UNCHANGED powerVars
  BY SuspendEffect
<1>3. app' = [app EXCEPT ![a] = e] /\ e.policy = app[a].policy
  BY <1>1 DEF SuspendOutcome, Kept
<1>4. Managing' = Managing /\ PendingWanted'
  BY <1>2, ManagingKept DEF PendingWanted
<1>5. app[a].policy.action # "ignore"
  BY <1>2 DEF PolicyInv, PendingWanted
<1>6. \/ Managing
      \/ e.state = app[a].state
  BY <1>1 DEF SuspendOutcome, Untried, Reaching, Missing
<1>7. QED
  BY <1>2, <1>3, <1>4, <1>5, <1>6, PolicyWith DEF TypeOK, PolicyInv,
     UnmanagedNothingSuspended, IgnoredNotSuspended, In

LEMMA DesktopKeepsPolicy ==
    ASSUME TypeOK, PolicyInv, Desktop
    PROVE  PolicyInv'
<1>1. UNCHANGED powerVars /\ PendingWanted'
  BY DEF Desktop, FocusChanged, RegisterNewApp, ActivateExistingApp, WorkspaceChanged,
     ActivationRequested, PreThaw, WindowClosed, Idle, loopVars, PendingWanted
<1>2. \A b \in App : /\ app[b] \in Entry
                     /\ Backgrounded(app[b]).state \in {app[b].state, "background"}
                     /\ Backgrounded(app[b]).policy = app[b].policy
  BY BackgroundedEffect DEF TypeOK, Kept
<1>3. "background" \notin Suspended /\ "active" \notin Suspended
      /\ "untracked" \notin Suspended
  BY DEF Suspended
<1>4. ASSUME NEW p \in Root, RegisterNewApp(Owner[p], p)
      PROVE  PolicyInv'
  <2>1. NewEntry(Owner[p], p).state = "active"
    BY NewEntryEffect, OwnerType DEF TypeOK
  <2>2. \A b \in App : app'[b] \in {NewEntry(Owner[p], p), Backgrounded(app[b])}
    BY <1>4 DEF RegisterNewApp
  <2>3. QED
    BY <1>1, <1>2, <1>3, <2>1, <2>2, PolicyKept
<1>5. ASSUME NEW p \in Root, ActivateExistingApp(Owner[p], p)
      PROVE  PolicyInv'
  <2>1. Owner[p] \in App /\ Owner[p] \in Tracked
    BY <1>5, OwnerType DEF ActivateExistingApp
  <2>2. PICK e \in Entry : /\ e.state = "active"
          /\ app' = [b \in App |-> IF b = Owner[p] THEN e ELSE Backgrounded(app[b])]
    BY <1>5, <2>1, ActivatedEffect
  <2>3. \A b \in App : app'[b] \in {e, Backgrounded(app[b])}
    BY <2>2
  <2>4. QED
    BY <1>1, <1>2, <1>3, <2>2, <2>3, PolicyKept
<1>6. ASSUME NEW F \in SUBSET App, PreThaw(F)
      PROVE  PolicyInv'
  <2>1. ASSUME NEW b \in App
        PROVE  SetSuspendTimer(ToBackground(app[b], RecordedProcs(b))).state = "background"
    BY <1>2, ToBackgroundEffect, SetTimerEffect
  <2>2. \A b \in App : app'[b] \in {SetSuspendTimer(ToBackground(app[b], RecordedProcs(b))),
                                    app[b]}
    BY <1>6 DEF PreThaw
  <2>3. QED
    BY <1>1, <1>3, <2>1, <2>2, PolicyKept
<1>7. ASSUME NEW a \in App, WindowClosed(a)
      PROVE  PolicyInv'
  <2>1. \A b \in App : app'[b] \in {Untracked, app[b]}
    BY <1>7 DEF WindowClosed, TypeOK
  <2>2. QED
    BY <1>1, <1>3, <2>1, UntrackedEffect, PolicyKept
<1>8. ASSUME NEW p \in Proc, FocusChanged(p)
      PROVE  PolicyInv'
  BY <1>4, <1>5, <1>8 DEF FocusChanged
<1>9. WorkspaceChanged \/ ActivationRequested => PolicyInv'
  BY <1>6 DEF WorkspaceChanged, ActivationRequested
<1>10. QED
  BY <1>7, <1>8, <1>9 DEF Desktop

LEMMA PowerKeepsPolicy ==
    ASSUME TypeOK, PolicyInv,
           \/ \E s \in Sources : PowerSourceChanged(s)
           \/ \E f \in Overrides : SetPowerOverride(f)
    PROVE  PolicyInv'
<1>1. PICK on \in BOOLEAN : ReconcileManagement(on) /\ Managing' = on
  BY ManagingType DEF PowerSourceChanged, SetPowerOverride, TypeOK, Managing
<1>2. PendingWanted'
  BY DEF PowerSourceChanged, SetPowerOverride, Idle, loopVars, PendingWanted
<1>3. Managing \in BOOLEAN
  BY ManagingType DEF TypeOK
<1>4. ASSUME NEW a \in App
      PROVE  /\ app'[a].policy = app[a].policy
             /\ app'[a].state = (IF ~on /\ app[a].state \in Suspended THEN "active"
                                 ELSE app[a].state)
  <2>1. app'[a] = Reconciled(app[a], a, Managing, on)
    BY <1>1 DEF ReconcileManagement
  <2>2. QED
    BY <1>3, <2>1, ReconciledEffect DEF TypeOK, Kept
<1>5. "active" \notin Suspended
  BY DEF Suspended
<1>6. QED
  BY <1>1, <1>2, <1>4, <1>5, PolicyWith DEF PolicyInv, IgnoredNotSuspended, In

LEMMA ReloadKeepsPolicy ==
    ASSUME TypeOK, PolicyInv, NEW c \in Configs, ConfigReloaded(c)
    PROVE  PolicyInv'
<1> DEFINE on == ShouldManage(c, source, forced)
<1>1. Managing' = on
  BY DEF ConfigReloaded, Managing, ShouldManage
<1>2. PendingWanted'
  BY DEF ConfigReloaded, Idle, loopVars, PendingWanted
<1>3. ASSUME NEW a \in App, app'[a].state \in Suspended
      PROVE  on /\ app'[a].policy.action # "ignore"
  <2> DEFINE policy == ResolvedPolicy(c, a, app[a].win)
  <2>1. a \in Tracked
    <3>1. CASE a \notin Tracked
      BY <1>3, <3>1, ReloadedEffect DEF Tracked, Suspended
    <3>2. QED
      BY <3>1
  <2>2. /\ app'[a].policy = policy
        /\ app'[a].state = (IF Restored(app[a].state, policy.action) THEN "background"
                            ELSE IF ~on /\ app[a].state \in Suspended
                            THEN "active" ELSE app[a].state)
    BY <2>1, ReloadedEffect
  <2>3. ~Restored(app[a].state, policy.action) /\ on /\ app[a].state \in Suspended
    BY <1>3, <2>2 DEF Suspended
  <2>4. QED
    BY <2>2, <2>3 DEF Restored
<1>4. QED
  BY <1>1, <1>2, <1>3, PolicyWith

LEMMA RestKeepsPolicy ==
    ASSUME TypeOK, PolicyInv, Client \/ Reconcile \/ ReconcileResult \/ Shutdown
    PROVE  PolicyInv'
<1>1. UNCHANGED powerVars /\ PendingWanted'
  BY DEF Client, IpcFreeze, IpcThaw, IpcThawAll, Reconcile, ReconcileResult, Shutdown,
     Idle, loopVars, PendingWanted
<1>2. \A a \in App : app[a] \in Entry
  BY DEF TypeOK
<1>3. "background" \notin Suspended /\ "untracked" \notin Suspended
      /\ "active" \notin Suspended
  BY DEF Suspended
<1>4. \A a \in App : SetState(app[a], "background") \in Entry
                     /\ SetState(app[a], "background").state = "background"
  BY <1>2, SetStateEffect, StatesAre
<1>5. ASSUME NEW a \in App
      PROVE  \/ app'[a].state \notin Suspended
             \/ app'[a].state = app[a].state /\ app'[a].policy = app[a].policy
  <2>1. ASSUME NEW k, NEW procs, IpcFreeze(k, procs) \/ IpcThaw(k, procs)
        PROVE  app'[a] \in {app[a], SetState(app[a], "background")}
    BY <2>1 DEF IpcFreeze, IpcThaw, TypeOK
  <2>2. CASE IpcThawAll
    BY <1>2, <1>3, <1>4, <2>2, CancelAllEffect DEF IpcThawAll
  <2>3. CASE Reconcile
    BY <2>3 DEF Reconcile, bookVars
  <2>4. CASE ReconcileResult
    <3>1. app'[a] \in {Untracked, [app[a] EXCEPT !.roots = @ \ found.reaped]}
      BY <2>4 DEF ReconcileResult
    <3>2. QED
      BY <1>2, <1>3, <3>1, UntrackedEffect DEF Entry
  <2>5. CASE Shutdown
    <3>1. PICK was \in BOOLEAN, on \in BOOLEAN, r \in Entry :
            ~on /\ r = Reconciled(app[a], a, was, on) /\ app'[a] = CancelAllTimers(r)
      BY <1>2, <2>5, ReconciledEffect DEF Shutdown
    <3>2. r \in Entry
          /\ r.state = (IF app[a].state \in Suspended THEN "active" ELSE app[a].state)
      BY <1>2, <3>1, ReconciledEffect
    <3>3. QED
      BY <1>3, <3>1, <3>2, CancelAllEffect
  <2>6. QED
    BY <1>3, <1>4, <2>1, <2>2, <2>3, <2>4, <2>5 DEF Client
<1>6. QED
  BY <1>1, <1>5, PolicyKept

LEMMA NextKeepsPolicy == TypeOK /\ PolicyInv /\ [Next]_vars => PolicyInv'
<1> SUFFICES ASSUME TypeOK, PolicyInv, [Next]_vars PROVE PolicyInv'
  OBVIOUS
<1>1. CASE (\E p \in Proc : Spawn(p) \/ Exit(p)) \/ UNCHANGED vars
  BY <1>1, QuietKeepsPolicy DEF Spawn, Exit, bookVars, loopVars, vars, powerVars, Quiet,
     Kept, PendingWanted, PolicyInv
<1>2. CASE Timers
  <2>1. Quiet /\ UNCHANGED powerVars /\ pending' = pending
    BY <1>2, QuietTimers
  <2>2. PendingWanted'
    BY <2>1 DEF PolicyInv, PendingWanted, Quiet, Kept, TypeOK
  <2>3. QED
    BY <2>1, <2>2, QuietKeepsPolicy
<1>3. CASE Maintenance
  <2>1. PICK a \in App : MaintenanceWake(a) \/ MaintenanceSleep(a)
    BY <1>3 DEF Maintenance
  <2>2. Quiet /\ UNCHANGED powerVars /\ pending' = None
    BY <2>1, QuietMaintenance, ReceiveType DEF MaintenanceWake, MaintenanceSleep
  <2>3. QED
    BY <2>2, QuietKeepsPolicy DEF PendingWanted
<1>4. ASSUME NEW a \in App, DropSuspendTimer(a) \/ PostponeSuspend(a)
      PROVE  PolicyInv'
  <2>1. Quiet /\ UNCHANGED powerVars /\ pending' = None
    BY <1>4, QuietSuspendTimer, ReceiveType DEF DropSuspendTimer, PostponeSuspend
  <2>2. QED
    BY <2>1, QuietKeepsPolicy DEF PendingWanted
<1>5. ASSUME NEW a \in App, ScanTree(a)
      PROVE  PolicyInv'
  <2>1. Quiet /\ UNCHANGED powerVars
    BY <1>5, QuietSuspendTimer
  <2>2. pending'.app = a /\ app[a].policy.action # "ignore" /\ app[a].state # "untracked"
    BY <1>5 DEF ScanTree, Tracked
  <2>3. PendingWanted'
    BY <2>1, <2>2 DEF PendingWanted, Quiet, Kept
  <2>4. QED
    BY <2>1, <2>3, QuietKeepsPolicy
<1>6. CASE GuardsBlock
  <2>1. Quiet /\ UNCHANGED powerVars /\ pending' = None
    BY <1>6, QuietGuards DEF GuardsBlock
  <2>2. QED
    BY <2>1, QuietKeepsPolicy DEF PendingWanted
<1>7. SuspendTimer => PolicyInv'
  BY <1>4, <1>5, <1>6, SuspendKeepsPolicy DEF SuspendTimer
<1>8. QED
  BY <1>1, <1>2, <1>3, <1>7, NextIs, DesktopKeepsPolicy, PowerKeepsPolicy,
     ReloadKeepsPolicy, RestKeepsPolicy

LEMMA PolicyHolds == Spec => [](TypeOK /\ PolicyInv)
<1>1. Init => TypeOK /\ PolicyInv
  BY InitType, PolicyInit
<1>2. TypeOK /\ PolicyInv /\ [Next]_vars => (TypeOK /\ PolicyInv)'
  BY NextType, NextKeepsPolicy
<1>3. QED
  BY <1>1, <1>2, PTL DEF Spec

\* While management is off no application is held suspended, however many
\* applications, configurations and power sources there are, and also when it
\* goes off between the scan of a tree and its suspension.
THEOREM UnmanagedRunsFree == Spec => []UnmanagedNothingSuspended
<1>1. PolicyInv => UnmanagedNothingSuspended
  BY DEF PolicyInv
<1>2. QED
  BY <1>1, PolicyHolds, PTL

\* An application that the policy in force says to leave alone is not
\* suspended: a reload restores what it now spares, and the policy read before
\* the scan of a tree still holds when the suspension is carried out.
THEOREM IgnoredRunsFree == Spec => []IgnoredNotSuspended
<1>1. PolicyInv => IgnoredNotSuspended
  BY DEF PolicyInv
<1>2. QED
  BY <1>1, PolicyHolds, PTL
=============================================================================
