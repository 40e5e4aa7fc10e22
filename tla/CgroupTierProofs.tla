------------------------- MODULE CgroupTierProofs -------------------------
(***************************************************************************)
(* Proofs about CgroupTier: the types, and that leaving the frozen state   *)
(* and starting again release what either route had stopped, for any       *)
(* applications, processes, environments and deny-list.                    *)
(***************************************************************************)
EXTENDS CgroupTier, TLAPS

----------------------------------------------------------------------------
(* The operators                                                           *)

LEMMA DetectEffect ==
    ASSUME NEW e \in Environments
    PROVE  Detect(e).tier \in Tiers /\ Detect(e).freezer \in BOOLEAN /\ e.base \in Bases
<1>1. /\ e.base \in Bases /\ e.writable \in BOOLEAN /\ e.freezeFile \in BOOLEAN
      /\ e.cpu \in BOOLEAN /\ e.systemd \in BOOLEAN
  BY CgroupAssumption DEF Environment
<1>2. CASE e.writable
  BY <1>1, <1>2 DEF Detect, Tiers
<1>3. CASE ~e.writable /\ e.systemd
  BY <1>1, <1>3 DEF Detect, Tiers
<1>4. CASE ~e.writable /\ ~e.systemd
  BY <1>1, <1>4 DEF Detect, Tiers
<1>5. QED
  BY <1>2, <1>3, <1>4

\* A new group is one of the tier that was found, and taken to lie below the
\* base.
LEMMA CreateCgroupEffect ==
    ASSUME env \in Environments, NEW a \in App, NEW g, g = CreateCgroup(a), g # None
    PROVE  /\ g \in Group /\ Placed(g) \in Group
           /\ Capabilities.tier # "signal" /\ BaseOf(g) = env.base
<1>1. Capabilities.tier \in Tiers /\ Capabilities.tier # "signal" /\ env.base \in Bases
  BY DetectEffect DEF Capabilities, CreateCgroup
<1>2. g = <<Capabilities.tier, UnitName[a], env.base>>
  BY DEF CreateCgroup
<1>3. g \in Group
  BY <1>1, <1>2 DEF Group, Tiers
<1>4. Placed(g) \in Group
  <2>1. [g EXCEPT ![3] = ScopeBase] = <<Capabilities.tier, UnitName[a], ScopeBase>>
    BY <1>2
  <2>2. QED
    BY <1>1, <1>3, <2>1, CgroupAssumption DEF Placed, Group, Tiers
<1>5. QED
  BY <1>1, <1>2, <1>3, <1>4 DEF BaseOf

LEMMA FreezableThere ==
    ASSUME NEW G
    PROVE  /\ Freezable(G) \subseteq G \cap dirs /\ CpuLands(G) \subseteq G \cap dirs
           /\ Writable(G) \subseteq G \cap dirs /\ Emptied(G) \subseteq G \cap dirs
BY DEF Freezable, CpuLands, Writable, Emptied

LEMMA EntryTypes ==
    /\ Untracked \in Entry /\ Untracked.state = "untracked" /\ Untracked.path = None
       /\ Untracked.roots = {}
    /\ NoRecord \in Record /\ NoRecord.procs = {}
    /\ \A s : OnFocusGained(s).state = "active"
    /\ OnFocusLost("active").state = "background"
BY DEF Untracked, Entry, NoRecord, Record, OnFocusGained, OnFocusLost, To

LEMMA RetireEffect ==
    ASSUME NEW r \in Record, NEW procs
    PROVE  Retire(r, procs) \in Record /\ Retire(r, procs).procs = r.procs \ procs
<1>1. CASE r.procs \subseteq procs
  BY <1>1, EntryTypes DEF Retire
<1>2. CASE ~(r.procs \subseteq procs)
  BY <1>2 DEF Retire, Record
<1>3. QED
  BY <1>1, <1>2

LEMMA BackgroundedEffect ==
    ASSUME NEW e \in Entry, NEW b, b = Backgrounded(e)
    PROVE  /\ b \in Entry /\ b.path = e.path /\ b.roots = e.roots
           /\ b.state = (IF e.state = "active" THEN "background" ELSE e.state)
BY EntryTypes DEF Backgrounded, Entry, States

----------------------------------------------------------------------------
(* Types                                                                   *)

\* Only the living are in groups, so a group without members has none at all.
HomesAlive == \A p \in Proc : home[p] # None => p \in Alive

TypeInv == TypeOK /\ HomesAlive

LEMMA RecordedType ==
    ASSUME TypeOK, NEW a \in App
    PROVE  RecordedProcs(a) \subseteq Proc
BY DEF TypeOK, RecordedProcs, Record, Entry, Root

LEMMA RemoveKeepsHomes ==
    ASSUME TypeInv, NEW G, RemoveCgroups(G)
    PROVE  dirs' \subseteq dirs /\ home' \in [Proc -> dirs' \cup {None}] /\ home' = home
<1>1. dirs' = dirs \ Emptied(G) /\ home' = home
  BY DEF RemoveCgroups
<1>2. \A p \in Proc : home[p] # None => home[p] \in dirs'
  BY <1>1 DEF TypeInv, TypeOK, HomesAlive, Emptied, Members
<1>3. QED
  BY <1>1, <1>2 DEF TypeInv, TypeOK

LEMMA InitType == Init => TypeInv
<1> SUFFICES ASSUME Init PROVE TypeInv
  OBVIOUS
<1>1. life \in [Proc -> {"unborn", "alive", "exited"}]
  BY DEF Init
<1>2. home \in [Proc -> dirs \cup {None}] /\ HomesAlive
  BY DEF Init, HomesAlive
<1>3. entry \in [App -> Entry] /\ rec \in [App -> Record]
  BY EntryTypes DEF Init
<1>4. QED
  BY <1>1, <1>2, <1>3 DEF Init, TypeInv, TypeOK

LEMMA ProcessesKeepType ==
    ASSUME TypeInv, Processes
    PROVE  TypeInv'
<1>1. ASSUME NEW p \in Proc, Spawn(p)
      PROVE  TypeInv'
  <2>1. Parent[p] \in Proc
    BY CgroupAssumption
  <2>2. life' \in [Proc -> {"unborn", "alive", "exited"}] /\ Alive' = Alive \cup {p}
    BY <1>1 DEF Spawn, TypeInv, TypeOK, Alive
  <2>3. home' \in [Proc -> dirs \cup {None}] /\ home' = [home EXCEPT ![p] = home[Parent[p]]]
    BY <1>1, <2>1 DEF Spawn, TypeInv, TypeOK
  <2>4. HomesAlive'
    BY <2>2, <2>3 DEF HomesAlive, TypeInv, TypeOK
  <2>5. stopped' \subseteq Alive' /\ niced' \subseteq Alive'
    BY <1>1, <2>2 DEF Spawn, TypeInv, TypeOK
  <2>6. QED
    BY <1>1, <2>2, <2>3, <2>4, <2>5 DEF Spawn, TypeInv, TypeOK
<1>2. ASSUME NEW p \in Proc, Exit(p)
      PROVE  TypeInv'
  <2>1. life' \in [Proc -> {"unborn", "alive", "exited"}] /\ Alive' = Alive \ {p}
    BY <1>2 DEF Exit, TypeInv, TypeOK, Alive
  <2>2. home' \in [Proc -> dirs \cup {None}] /\ home' = [home EXCEPT ![p] = None]
    BY <1>2 DEF Exit, TypeInv, TypeOK
  <2>3. HomesAlive'
    BY <2>1, <2>2 DEF HomesAlive, TypeInv, TypeOK
  <2>4. stopped' \subseteq Alive' /\ niced' \subseteq Alive'
    BY <1>2, <2>1 DEF Exit, TypeInv, TypeOK
  <2>5. QED
    BY <1>2, <2>1, <2>2, <2>3, <2>4 DEF Exit, TypeInv, TypeOK
<1>3. ASSUME NEW g \in Group, ScopeCollected(g)
      PROVE  TypeInv'
  <2>1. home' = home /\ home' \in [Proc -> dirs' \cup {None}]
    BY <1>3 DEF ScopeCollected, TypeInv, TypeOK, HomesAlive, Members
  <2>2. Alive' = Alive
    BY <1>3 DEF ScopeCollected, loopVars, Alive
  <2>3. QED
    BY <1>3, <2>1, <2>2 DEF ScopeCollected, loopVars, TypeInv, TypeOK, HomesAlive
<1>4. QED
  BY <1>1, <1>2, <1>3 DEF Processes

\* Thawing and restoring take away only.
LEMMA RestoreType ==
    ASSUME TypeInv, NEW F \in SUBSET App, NEW T, NEW procs, Restore(F, T, procs),
           life' = life, dirs' \subseteq Group
    PROVE  /\ stopped' \subseteq Alive' /\ niced' \subseteq Alive'
           /\ frozen' \subseteq dirs' /\ limited' \subseteq dirs'
           /\ rec' \in [App -> Record]
<1>1. Alive' = Alive
  BY DEF Alive
<1>2. rec' \in [App -> Record]
  BY RetireEffect DEF Restore, TypeInv, TypeOK
<1>3. QED
  BY <1>1, <1>2 DEF Restore, ThawApp, TypeInv, TypeOK

LEMMA FocusKeepsType ==
    ASSUME TypeInv, NEW p \in Proc, FocusChanged(p)
    PROVE  TypeInv'
<1>1. p \in Root \cap Alive /\ life' = life /\ Alive' = Alive /\ UNCHANGED <<env, up>>
  BY DEF FocusChanged, loopVars, Alive
<1>2. Owner[p] \in App
  BY CgroupAssumption
<1>3. \A b \in App : Backgrounded(entry[b]) \in Entry
  BY BackgroundedEffect DEF TypeInv, TypeOK
<1>4. CASE RegisterNewApp(Owner[p], p)
  <2>1. PICK g : g = CreateCgroup(Owner[p])
    OBVIOUS
  <2>2. g = None \/ (Placed(g) \in Group /\ g \in Group)
    BY <1>2, <2>1, CreateCgroupEffect DEF TypeInv, TypeOK
  <2>3. /\ dirs' = IF g = None THEN dirs ELSE dirs \cup {Placed(g)}
        /\ home' = IF MovesInto(g, p) THEN [home EXCEPT ![p] = Placed(g)] ELSE home
        /\ UNCHANGED <<stopped, niced, frozen, limited, rec>>
    BY <1>4, <2>1 DEF RegisterNewApp
  <2>4. home' \in [Proc -> dirs' \cup {None}] /\ HomesAlive'
    BY <1>1, <2>2, <2>3 DEF TypeInv, TypeOK, HomesAlive, MovesInto
  <2>5. [state |-> "active", path |-> g, roots |-> {p}, awake |-> FALSE] \in Entry
    BY <1>1, <2>2 DEF Entry, States
  <2>6. entry' \in [App -> Entry]
    BY <1>3, <1>4, <2>1, <2>5 DEF RegisterNewApp
  <2>7. dirs' \subseteq Group
    BY <2>2, <2>3 DEF TypeInv, TypeOK
  <2>8. QED
    BY <1>1, <2>3, <2>4, <2>6, <2>7 DEF TypeInv, TypeOK
<1>5. CASE ActivateExistingApp(Owner[p], p)
  <2> DEFINE a == Owner[p]
             e == entry[a]
             moved == p \notin e.roots /\ p \in Movable /\ Writable({e.path}) # {}
  <2>1. e \in Entry
    BY <1>2 DEF TypeInv, TypeOK
  <2>2. /\ dirs' = dirs
        /\ home' = IF moved THEN [home EXCEPT ![p] = e.path] ELSE home
        /\ Restore({a} \cap In({"frozen"}), {a} \cap In({"throttled"}), Recordings)
    BY <1>5 DEF ActivateExistingApp
  <2>3. moved => e.path \in dirs
    BY FreezableThere
  <2>4. home' \in [Proc -> dirs' \cup {None}] /\ HomesAlive'
    BY <1>1, <2>2, <2>3 DEF TypeInv, TypeOK, HomesAlive
  <2>5. PICK gone : entry' = [b \in App |->
          IF b = a THEN [e EXCEPT !.state = OnFocusGained(@).state,
                                  !.roots = (@ \ gone) \cup {p}, !.awake = FALSE]
                   ELSE Backgrounded(entry[b])]
    BY <1>5 DEF ActivateExistingApp
  <2>6. [e EXCEPT !.state = OnFocusGained(@).state,
                  !.roots = (@ \ gone) \cup {p}, !.awake = FALSE] \in Entry
    BY <1>1, <2>1, EntryTypes DEF Entry, States
  <2>7. entry' \in [App -> Entry]
    BY <1>3, <2>5, <2>6
  <2>8. /\ stopped' \subseteq Alive' /\ niced' \subseteq Alive'
        /\ frozen' \subseteq dirs' /\ limited' \subseteq dirs' /\ rec' \in [App -> Record]
    BY <1>1, <2>2, RestoreType DEF TypeInv, TypeOK, In
  <2>9. QED
    BY <1>1, <2>2, <2>4, <2>7, <2>8 DEF TypeInv, TypeOK
<1>6. QED
  BY <1>4, <1>5 DEF FocusChanged

\* What happens to groups and to nothing else of the operating system.
LEMMA FreezeAppType ==
    ASSUME TypeInv, NEW path, NEW procs, FreezeApp(path, procs)
    PROVE  stopped' \subseteq Alive /\ frozen' \subseteq dirs
BY FreezableThere DEF FreezeApp, TypeInv, TypeOK

LEMMA WindowClosedType ==
    ASSUME TypeInv, NEW a \in App, WindowClosed(a)
    PROVE  TypeInv'
<1>1. life' = life /\ Alive' = Alive /\ UNCHANGED <<env, up>>
  BY DEF WindowClosed, loopVars, Alive
<1>2. dirs' \subseteq dirs /\ home' \in [Proc -> dirs' \cup {None}] /\ home' = home
  BY RemoveKeepsHomes DEF WindowClosed
<1>3. entry' \in [App -> Entry]
  BY EntryTypes DEF WindowClosed, TypeInv, TypeOK
<1>4. /\ stopped' \subseteq Alive' /\ niced' \subseteq Alive'
      /\ frozen' \subseteq dirs' /\ limited' \subseteq dirs' /\ rec' \in [App -> Record]
  <2>1. Restore({a} \cap In({"frozen"}), {a} \cap In({"throttled"}),
                [b \in App |-> rec[b].procs])
    BY DEF WindowClosed
  <2>2. {a} \cap In({"frozen"}) \in SUBSET App /\ dirs' \subseteq Group
    BY <1>2 DEF TypeInv, TypeOK
  <2>3. QED
    BY <1>1, <2>1, <2>2, RestoreType
<1>5. QED
  BY <1>1, <1>2, <1>3, <1>4 DEF TypeInv, TypeOK, HomesAlive

LEMMA SuspendType ==
    ASSUME TypeInv, NEW a \in App, Suspend(a)
    PROVE  TypeInv'
<1> DEFINE procs == Allowed(ExpandTree(a))
<1>1. Alive' = Alive /\ UNCHANGED <<life, env, up, home, dirs>>
  BY DEF Suspend, loopVars, Alive
<1>2. procs \subseteq Proc /\ Applied(procs) \subseteq Alive /\ entry[a] \in Entry
  BY DEF Allowed, ExpandTree, Applied, TypeInv, TypeOK, Alive
<1>3. CASE SuspendByFreeze(a, procs)
  <2>1. stopped' \subseteq Alive /\ frozen' \subseteq dirs /\ UNCHANGED <<niced, limited>>
    BY <1>3, FreezeAppType DEF SuspendByFreeze
  <2>2. entry' \in [App -> Entry]
    BY <1>2, <1>3 DEF SuspendByFreeze, TypeInv, TypeOK, Entry, States
  <2>3. rec' \in [App -> Record]
    BY <1>2, <1>3 DEF SuspendByFreeze, RecordFreeze, Applied, TypeInv, TypeOK, Record, Entry
  <2>4. QED
    BY <1>1, <2>1, <2>2, <2>3 DEF TypeInv, TypeOK, HomesAlive
<1>4. CASE SuspendByThrottle(a, procs)
  <2>1. limited' \subseteq dirs /\ UNCHANGED <<stopped, frozen, rec>>
    BY <1>4, FreezableThere DEF SuspendByThrottle, CpuApplied, TypeInv, TypeOK
  <2>2. niced' \subseteq Alive
    BY <1>2, <1>4 DEF SuspendByThrottle, TypeInv, TypeOK
  <2>3. entry' \in [App -> Entry]
    BY <1>2, <1>4 DEF SuspendByThrottle, TypeInv, TypeOK, Entry, States
  <2>4. QED
    BY <1>1, <2>1, <2>2, <2>3 DEF TypeInv, TypeOK, HomesAlive
<1>5. QED
  BY <1>3, <1>4 DEF Suspend

LEMMA MaintenanceType ==
    ASSUME TypeInv, NEW a \in App, MaintenanceWake(a) \/ MaintenanceSleep(a)
    PROVE  TypeInv'
<1>1. Alive' = Alive /\ UNCHANGED <<life, env, up, niced, home, dirs, limited, rec>>
  BY DEF MaintenanceWake, MaintenanceSleep, loopVars, Alive
<1>2. entry' \in [App -> Entry]
  <2>1. \A w \in BOOLEAN : [entry[a] EXCEPT !.awake = w] \in Entry
    BY DEF TypeInv, TypeOK, Entry
  <2>2. PICK w \in BOOLEAN : entry' = [entry EXCEPT ![a] = [@ EXCEPT !.awake = w]]
    BY DEF MaintenanceWake, MaintenanceSleep
  <2>3. QED
    BY <2>1, <2>2 DEF TypeInv, TypeOK
<1>3. stopped' \subseteq Alive /\ frozen' \subseteq dirs
  <2>1. MaintenanceWake(a) => stopped' \subseteq Alive /\ frozen' \subseteq dirs
    BY DEF MaintenanceWake, ThawApp, TypeInv, TypeOK
  <2>2. MaintenanceSleep(a) => stopped' \subseteq Alive /\ frozen' \subseteq dirs
    BY FreezeAppType DEF MaintenanceSleep
  <2>3. QED
    BY <2>1, <2>2
<1>4. QED
  BY <1>1, <1>2, <1>3 DEF TypeInv, TypeOK, HomesAlive

LEMMA ReleaseType ==
    ASSUME TypeInv, ReleaseRecorded
    PROVE  stopped' \subseteq Alive /\ rec' \in [App -> Record]
BY EntryTypes DEF ReleaseRecorded, TypeInv, TypeOK

LEMMA ClientType ==
    ASSUME TypeInv, (\E a \in App : IpcFreeze(a) \/ IpcThaw(a)) \/ IpcThawAll
    PROVE  TypeInv'
<1>1. Alive' = Alive /\ UNCHANGED <<life, env, up, niced, home, dirs, frozen, limited>>
  BY DEF IpcFreeze, IpcThaw, IpcThawAll, loopVars, Alive
<1>2. stopped' \subseteq Alive /\ entry' \in [App -> Entry] /\ rec' \in [App -> Record]
  <2>1. ASSUME NEW a \in App, IpcFreeze(a)
        PROVE  stopped' \subseteq Alive /\ rec' \in [App -> Record]
    <3>1. PICK procs \in SUBSET Alive : /\ stopped' = stopped \cup procs
                                        /\ RecordFreeze(a, None, procs)
      BY <2>1 DEF IpcFreeze, Allowed
    <3>2. rec' \in [App -> Record]
      BY <3>1 DEF RecordFreeze, TypeInv, TypeOK, Record, Alive
    <3>3. QED
      BY <3>1, <3>2 DEF TypeInv, TypeOK
  <2>2. ASSUME NEW a \in App, IpcThaw(a)
        PROVE  stopped' \subseteq Alive /\ rec' \in [App -> Record]
    BY <2>2, RetireEffect DEF IpcThaw, TypeInv, TypeOK
  <2>3. IpcThawAll => stopped' \subseteq Alive /\ rec' \in [App -> Record]
    BY ReleaseType DEF IpcThawAll
  <2>4. entry' \in [App -> Entry]
    <3>1. \A b \in App : [entry[b] EXCEPT !.state = "background", !.awake = FALSE] \in Entry
      BY DEF TypeInv, TypeOK, Entry, States
    <3>2. entry \in [App -> Entry]
      BY DEF TypeInv, TypeOK
    <3>3. (\E a \in App : IpcFreeze(a)) => entry' \in [App -> Entry]
      BY <3>2 DEF IpcFreeze
    <3>4. (\E a \in App : IpcThaw(a)) => entry' \in [App -> Entry]
      BY <3>1, <3>2 DEF IpcThaw
    <3>5. IpcThawAll => entry' \in [App -> Entry]
      BY <3>1, <3>2 DEF IpcThawAll
    <3>6. QED
      BY <3>3, <3>4, <3>5
  <2>5. QED
    BY <2>1, <2>2, <2>3, <2>4
<1>3. QED
  BY <1>1, <1>2 DEF TypeInv, TypeOK, HomesAlive

LEMMA SweepType ==
    ASSUME TypeInv, Sweep
    PROVE  TypeInv'
<1>1. Alive' = Alive /\ UNCHANGED <<life, env, up, stopped, niced>>
  BY DEF Sweep, loopVars, Alive
<1>2. dirs' \subseteq dirs /\ home' \in [Proc -> dirs' \cup {None}] /\ home' = home
  BY RemoveKeepsHomes DEF Sweep
<1>3. entry' \in [App -> Entry]
  <2>1. \A a \in App : [entry[a] EXCEPT !.roots = @ \cap Alive] \in Entry
    BY DEF TypeInv, TypeOK, Entry
  <2>2. QED
    BY <2>1, EntryTypes DEF Sweep
<1>4. rec' \in [App -> Record]
  BY RetireEffect DEF Sweep, TypeInv, TypeOK
<1>5. frozen' \subseteq dirs' /\ limited' \subseteq dirs'
  BY DEF Sweep
<1>6. QED
  BY <1>1, <1>2, <1>3, <1>4, <1>5 DEF TypeInv, TypeOK, HomesAlive

LEMMA LifecycleType ==
    ASSUME TypeInv, Shutdown \/ Crash \/ Start \/ ThawAllOffline
    PROVE  TypeInv'
<1>1. Alive' = Alive /\ life' = life /\ up' \in BOOLEAN /\ env' \in Environments
  BY DEF Shutdown, Crash, Start, ThawAllOffline, loopVars, Alive, TypeInv, TypeOK
<1>2. dirs' \subseteq dirs /\ home' \in [Proc -> dirs' \cup {None}] /\ home' = home
  BY RemoveKeepsHomes DEF Shutdown, Crash, Start, ThawAllOffline, TypeInv, TypeOK
<1>3. frozen' \subseteq dirs' /\ limited' \subseteq dirs'
  BY DEF Shutdown, Crash, Start, ThawAllOffline, TypeInv, TypeOK
<1>4. stopped' \subseteq Alive /\ niced' \subseteq Alive
  BY DEF Shutdown, Crash, Start, ThawAllOffline, ReleaseRecorded, TypeInv, TypeOK
<1>5. entry' \in [App -> Entry]
  BY EntryTypes DEF Shutdown, Crash, Start, ThawAllOffline, TypeInv, TypeOK
<1>6. rec' \in [App -> Record]
  BY EntryTypes DEF Shutdown, Crash, Start, ThawAllOffline, ReleaseRecorded, TypeInv,
     TypeOK
<1>7. QED
  BY <1>1, <1>2, <1>3, <1>4, <1>5, <1>6 DEF TypeInv, TypeOK, HomesAlive

LEMMA NextType == TypeInv /\ [Next]_vars => TypeInv'
<1>1. TypeInv /\ UNCHANGED vars => TypeInv'
  BY DEF TypeInv, TypeOK, HomesAlive, vars, Alive
<1>2. TypeInv /\ Handlers => TypeInv'
  BY FocusKeepsType, WindowClosedType, SuspendType, MaintenanceType, ClientType, SweepType
     DEF Handlers
<1>3. QED
  BY <1>1, <1>2, ProcessesKeepType, LifecycleType DEF Next

\* Every variable keeps its type through crashes and restarts into other
\* environments: a process is only in a group that exists, as a group that has
\* members is not removed, and a group that is gone is not frozen or limited.
THEOREM TypeCorrect == Spec => []TypeOK
<1>1. Spec => []TypeInv
  BY InitType, NextType, PTL DEF Spec
<1>2. TypeInv => TypeOK
  BY DEF TypeInv
<1>3. QED
  BY <1>1, <1>2, PTL

----------------------------------------------------------------------------
(* Groups and the registry                                                 *)

\* No window of an application that is to be frozen belongs to a process on
\* the deny-list.  The end of a maintenance window falls back to the roots
\* when the record is empty, and does not look at protection again.
FreezersUnprotected ==
    \A p \in Proc : Parent[p] = p /\ p \in Protected => Rule[Owner[p]] # "freeze"

\* While the daemon runs it has the freezer that froze what is frozen below its
\* base, unless it found no way to use groups at all.
Thawable ==
    up => \A g \in frozen : BaseOf(g) = env.base =>
             Capabilities.freezer \/ Capabilities.tier = "signal"

\* A path the daemon may have given out in its environment.
OfTier(path) == Capabilities.tier # "signal" /\ BaseOf(path) = env.base

\* Without a way to use groups no application has one, the groups of the others
\* are taken to lie below the base, and a daemon that is down knows no
\* application.
PathsOfTier ==
    /\ \A a \in App : entry[a].path # None => OfTier(entry[a].path)
    /\ ~up => entry = [a \in App |-> Untracked]

\* The roots of an application are its own processes, and were started.
RootsKnown ==
    \A a \in App : \A p \in entry[a].roots : Owner[p] = a /\ life[p] # "unborn"

GroupInv == Thawable /\ PathsOfTier /\ RootsKnown

\* A step that freezes a group has written to it.
LEMMA FrozenGrows ==
    ASSUME TypeInv, [Next]_vars
    PROVE  \/ frozen' \subseteq frozen
           \/ /\ up /\ \E g \in Group : frozen' = frozen \cup {g} /\ Freezable({g}) # {}
<1>1. ASSUME NEW path, NEW procs, FreezeApp(path, procs)
      PROVE  \/ frozen' \subseteq frozen
             \/ \E g \in Group : frozen' = frozen \cup {g} /\ Freezable({g}) # {}
  <2>1. CASE Freezable({path}) # {}
    <3>1. path \in Group
      BY <2>1, FreezableThere DEF TypeInv, TypeOK
    <3>2. frozen' = frozen \cup {path}
      BY <1>1, <2>1 DEF FreezeApp
    <3>3. QED
      BY <2>1, <3>1, <3>2
  <2>2. CASE Freezable({path}) = {}
    BY <1>1, <2>2 DEF FreezeApp
  <2>3. QED
    BY <2>1, <2>2
<1>2. ASSUME NEW a \in App, Suspend(a) \/ MaintenanceSleep(a)
      PROVE  \/ frozen' \subseteq frozen
             \/ up /\ \E g \in Group : frozen' = frozen \cup {g} /\ Freezable({g}) # {}
  BY <1>1, <1>2 DEF Suspend, MaintenanceSleep, SuspendByFreeze, SuspendByThrottle
<1>3. ASSUME NEW a \in App,
             WindowClosed(a) \/ MaintenanceWake(a) \/ IpcFreeze(a) \/ IpcThaw(a)
      PROVE  frozen' \subseteq frozen
  BY <1>3 DEF WindowClosed, Restore, MaintenanceWake, ThawApp, IpcFreeze, IpcThaw
<1>4. (\E p \in Proc : FocusChanged(p)) => frozen' \subseteq frozen
  BY DEF FocusChanged, RegisterNewApp, ActivateExistingApp, Restore, ThawApp
<1>5. IpcThawAll \/ Sweep \/ Shutdown \/ Crash \/ Start \/ ThawAllOffline \/ Processes
      \/ UNCHANGED vars => frozen' \subseteq frozen
  BY DEF IpcThawAll, Sweep, Shutdown, Crash, Start, ThawAllOffline, Processes, Spawn, Exit,
     ScopeCollected, vars
<1>6. QED
  BY <1>2, <1>3, <1>4, <1>5 DEF Next, Handlers

\* The environment is looked at when the daemon starts, and only then.
LEMMA UpStep ==
    ASSUME [Next]_vars
    PROVE  Start \/ (env' = env /\ (up' => up))
<1>1. Processes \/ UNCHANGED vars => env' = env /\ up' = up
  BY DEF Processes, Spawn, Exit, ScopeCollected, loopVars, vars
<1>2. Handlers => env' = env /\ up' = up
  BY DEF Handlers, FocusChanged, WindowClosed, Suspend, MaintenanceWake, MaintenanceSleep,
     IpcFreeze, IpcThaw, IpcThawAll, Sweep, loopVars
<1>3. Shutdown \/ Crash \/ ThawAllOffline => env' = env /\ (up' => up)
  BY DEF Shutdown, Crash, ThawAllOffline, loopVars
<1>4. QED
  BY <1>1, <1>2, <1>3 DEF Next

\* A start that can use groups thaws those below its base.
LEMMA StartThaws ==
    ASSUME TypeInv, Start, Detect(env').tier # "signal", NEW g \in frozen'
    PROVE  BaseOf(g) # env'.base
<1>1. Stale(env') = {h \in dirs : BaseOf(h) = env'.base}
  BY DEF Stale
<1>2. g \in frozen /\ g \notin Stale(env')
  BY DEF Start
<1>3. QED
  BY <1>1, <1>2 DEF TypeInv, TypeOK

LEMMA ThawableStep ==
    ASSUME TypeInv, Thawable, [Next]_vars
    PROVE  Thawable'
<1>1. CASE Start
  <2>1. Capabilities' = Detect(env')
    BY DEF Capabilities, Detect
  <2>2. QED
    BY <1>1, <2>1, StartThaws DEF Thawable
<1>2. CASE env' = env /\ (up' => up)
  <2>1. Capabilities' = Capabilities
    BY <1>2 DEF Capabilities, Detect
  <2>2. ASSUME NEW g \in Group, Freezable({g}) # {}
        PROVE  Capabilities.freezer
    BY <2>2 DEF Freezable
  <2>3. QED
    BY <1>2, <2>1, <2>2, FrozenGrows DEF Thawable
<1>3. QED
  BY <1>1, <1>2, UpStep

\* What a step makes of the entry of an application: its path and its window
\* processes are as they were, but for dead ones, or it is forgotten, or a
\* live window process of its own has got the focus.
Same(a) == entry'[a].path = entry[a].path /\ entry'[a].roots \subseteq entry[a].roots

Focused(a) ==
    /\ up /\ entry'[a].state = "active"
    /\ entry'[a].roots \subseteq entry[a].roots \cup {p \in Alive : Owner[p] = a}
    /\ entry'[a].path \notin {entry[a].path, None} => OfTier(entry'[a].path)

LEMMA EntryStep ==
    ASSUME TypeInv, [Next]_vars, NEW a \in App
    PROVE  Same(a) \/ entry'[a] = Untracked \/ Focused(a)
<1>1. entry[a] \in Entry
  BY DEF TypeInv, TypeOK
<1>2. entry' = entry => Same(a)
  BY DEF Same
<1>3. ASSUME NEW p \in Proc, FocusChanged(p)
      PROVE  Same(a) \/ Focused(a)
  <2>1. up /\ p \in Root \cap Alive /\ Owner[p] \in App
    BY <1>3, CgroupAssumption DEF FocusChanged
  <2>2. entry'[a] = Backgrounded(entry[a]) => Same(a)
    BY <1>1, BackgroundedEffect DEF Same
  <2>3. CASE a # Owner[p]
    BY <1>3, <2>1, <2>2, <2>3 DEF FocusChanged, RegisterNewApp, ActivateExistingApp
  <2>4. CASE a = Owner[p] /\ RegisterNewApp(a, p)
    <3>1. PICK g : g = CreateCgroup(a)
      OBVIOUS
    <3>2. g # None => OfTier(g)
      BY <2>1, <2>4, <3>1, CreateCgroupEffect DEF OfTier, TypeInv, TypeOK
    <3>3. entry'[a] = [state |-> "active", path |-> g, roots |-> {p}, awake |-> FALSE]
      BY <2>4, <3>1 DEF RegisterNewApp
    <3>4. QED
      BY <2>1, <2>4, <3>2, <3>3 DEF Focused
  <2>5. CASE a = Owner[p] /\ ActivateExistingApp(a, p)
    <3>1. PICK gone :
            entry'[a] = [entry[a] EXCEPT !.state = OnFocusGained(@).state,
                                         !.roots = (@ \ gone) \cup {p}, !.awake = FALSE]
      BY <2>5 DEF ActivateExistingApp
    <3>2. /\ entry'[a].state = "active" /\ entry'[a].path = entry[a].path
          /\ entry'[a].roots = (entry[a].roots \ gone) \cup {p}
      BY <1>1, <3>1, EntryTypes DEF Entry
    <3>3. QED
      BY <2>1, <2>5, <3>2 DEF Focused
  <2>6. QED
    BY <1>3, <2>3, <2>4, <2>5 DEF FocusChanged
<1>4. ASSUME NEW b \in App, WindowClosed(b)
      PROVE  Same(a) \/ entry'[a] = Untracked
  BY <1>4 DEF WindowClosed, Same, TypeInv, TypeOK
<1>5. ASSUME NEW b \in App, Suspend(b)
      PROVE  Same(a)
  <2>1. entry' = entry \/ \E s : entry' = [entry EXCEPT ![b].state = s]
    BY <1>5 DEF Suspend, SuspendByFreeze, SuspendByThrottle
  <2>2. CASE a = b
    BY <1>1, <2>1, <2>2 DEF Same, TypeInv, TypeOK, Entry
  <2>3. CASE a # b
    BY <2>1, <2>3 DEF Same, TypeInv, TypeOK
  <2>4. QED
    BY <2>2, <2>3
<1>6. ASSUME NEW b \in App, MaintenanceWake(b) \/ MaintenanceSleep(b)
      PROVE  Same(a)
  <2>1. PICK w : entry' = [entry EXCEPT ![b] = [@ EXCEPT !.awake = w]]
    BY <1>6 DEF MaintenanceWake, MaintenanceSleep
  <2>2. entry'[a] = entry[a] \/ entry'[a] = [entry[a] EXCEPT !.awake = w]
    BY <2>1 DEF TypeInv, TypeOK
  <2>3. QED
    BY <1>1, <2>2 DEF Same, Entry
<1>7. ASSUME (\E b \in App : IpcFreeze(b) \/ IpcThaw(b)) \/ IpcThawAll
      PROVE  Same(a)
  <2>1. \/ entry'[a] = entry[a]
        \/ entry'[a] = [entry[a] EXCEPT !.state = "background", !.awake = FALSE]
    <3>1. ASSUME NEW b \in App, IpcFreeze(b) \/ IpcThaw(b)
          PROVE  \/ entry'[a] = entry[a]
                 \/ entry'[a] = [entry[a] EXCEPT !.state = "background", !.awake = FALSE]
      BY <3>1 DEF IpcFreeze, IpcThaw, TypeInv, TypeOK
    <3>2. QED
      BY <1>7, <3>1 DEF IpcThawAll
  <2>2. QED
    BY <1>1, <2>1 DEF Same, Entry
<1>8. Sweep => Same(a) \/ entry'[a] = Untracked
  BY <1>1 DEF Sweep, Same, Entry
<1>9. Shutdown \/ Crash => entry'[a] = Untracked
  BY DEF Shutdown, Crash
<1>10. Processes \/ Start \/ ThawAllOffline \/ UNCHANGED vars => entry' = entry
  BY DEF Processes, Spawn, Exit, ScopeCollected, Start, ThawAllOffline, vars
<1>11. QED
  BY <1>2, <1>3, <1>4, <1>5, <1>6, <1>7, <1>8, <1>9, <1>10 DEF Next, Handlers

LEMMA DownKeepsEntry == ~up /\ [Next]_vars => entry' = entry
BY DEF Next, Processes, Spawn, Exit, ScopeCollected, Handlers, FocusChanged, WindowClosed,
   Suspend, MaintenanceWake, MaintenanceSleep, IpcFreeze, IpcThaw, IpcThawAll, Sweep, Start,
   ThawAllOffline, Shutdown, Crash, vars

LEMMA PathsStep ==
    ASSUME TypeInv, PathsOfTier, [Next]_vars
    PROVE  PathsOfTier'
<1>1. CASE Start
  <2>1. entry' = [a \in App |-> Untracked] /\ up'
    BY <1>1 DEF Start, PathsOfTier
  <2>2. QED
    BY <2>1, EntryTypes DEF PathsOfTier
<1>2. CASE env' = env /\ (up' => up)
  <2>1. Capabilities' = Capabilities
    BY <1>2 DEF Capabilities, Detect
  <2>2. \A a \in App : entry'[a].path # None =>
           Capabilities'.tier # "signal" /\ BaseOf(entry'[a].path) = env'.base
    <3>1. ASSUME NEW a \in App, entry'[a].path # None
          PROVE  OfTier(entry'[a].path)
      BY <3>1, EntryStep, EntryTypes DEF PathsOfTier, Same, Focused
    <3>2. QED
      BY <1>2, <2>1, <3>1 DEF OfTier
  <2>3. ~up' => entry' = [a \in App |-> Untracked]
    <3>1. CASE ~up
      BY <3>1, DownKeepsEntry DEF PathsOfTier
    <3>2. CASE up /\ ~up'
      <4>1. Shutdown \/ Crash
        BY <3>2 DEF Next, Processes, Spawn, Exit, ScopeCollected, Handlers, FocusChanged,
           WindowClosed, Suspend, MaintenanceWake, MaintenanceSleep, IpcFreeze, IpcThaw,
           IpcThawAll, Sweep, Start, ThawAllOffline, loopVars, vars
      <4>2. QED
        BY <4>1 DEF Shutdown, Crash
    <3>3. QED
      BY <3>1, <3>2
  <2>4. QED
    BY <2>2, <2>3 DEF PathsOfTier, OfTier
<1>3. QED
  BY <1>1, <1>2, UpStep

\* Nobody comes back to life, and only a process that was not born starts.
LEMMA LifeStep ==
    ASSUME TypeInv, [Next]_vars, NEW p \in Proc, life[p] # "unborn"
    PROVE  life'[p] # "unborn" /\ (p \in Alive' => p \in Alive)
<1>1. CASE life' = life
  BY <1>1 DEF Alive
<1>2. ASSUME NEW q \in Proc, Spawn(q) \/ Exit(q)
      PROVE  life'[p] # "unborn" /\ (p \in Alive' => p \in Alive)
  BY <1>2 DEF Spawn, Exit, Alive, TypeInv, TypeOK
<1>3. Handlers => life' = life
  BY DEF Handlers, FocusChanged, WindowClosed, Suspend, MaintenanceWake, MaintenanceSleep,
     IpcFreeze, IpcThaw, IpcThawAll, Sweep, loopVars
<1>4. Shutdown \/ Crash \/ Start \/ ThawAllOffline \/ UNCHANGED vars
      \/ (\E g \in Group : ScopeCollected(g)) => life' = life
  BY DEF Shutdown, Crash, Start, ThawAllOffline, ScopeCollected, loopVars, vars
<1>5. QED
  BY <1>1, <1>2, <1>3, <1>4 DEF Next, Processes

LEMMA RootsStep ==
    ASSUME TypeInv, RootsKnown, [Next]_vars
    PROVE  RootsKnown'
<1> SUFFICES ASSUME NEW a \in App, NEW p \in entry'[a].roots
             PROVE  Owner[p] = a /\ life'[p] # "unborn"
  BY DEF RootsKnown
<1>1. p \in entry[a].roots \/ (p \in Alive /\ Owner[p] = a)
  BY EntryStep, EntryTypes DEF Same, Focused
<1>2. p \in Proc /\ Owner[p] = a /\ life[p] # "unborn"
  BY <1>1 DEF RootsKnown, Alive, TypeInv, TypeOK, Entry, Root
<1>3. QED
  BY <1>2, LifeStep

LEMMA GroupStep == TypeInv /\ GroupInv /\ [Next]_vars => GroupInv'
BY ThawableStep, PathsStep, RootsStep DEF GroupInv

LEMMA GroupInit == Init => GroupInv
BY EntryTypes DEF Init, GroupInv, Thawable, PathsOfTier, RootsKnown

----------------------------------------------------------------------------
(* Who becomes frozen or throttled                                         *)

LEMMA StateStep ==
    ASSUME TypeInv, [Next]_vars, NEW a \in App, entry'[a].state \in {"frozen", "throttled"}
    PROVE  entry'[a].state = entry[a].state \/ Suspend(a)
<1>1. entry[a] \in Entry
  BY DEF TypeInv, TypeOK
<1>2. ASSUME NEW p \in Proc, FocusChanged(p)
      PROVE  entry'[a].state = entry[a].state
  <2>1. Owner[p] \in App
    BY CgroupAssumption
  <2>2. CASE a = Owner[p]
    <3>1. entry'[a].state = "active"
      <4>1. RegisterNewApp(a, p) => entry'[a].state = "active"
        BY <2>2 DEF RegisterNewApp
      <4>2. ASSUME ActivateExistingApp(a, p)
            PROVE  entry'[a].state = "active"
        <5>1. PICK gone :
                entry'[a] = [entry[a] EXCEPT !.state = OnFocusGained(@).state,
                                             !.roots = (@ \ gone) \cup {p}, !.awake = FALSE]
          BY <4>2 DEF ActivateExistingApp
        <5>2. QED
          BY <1>1, <5>1, EntryTypes DEF Entry
      <4>3. QED
        BY <1>2, <2>2, <4>1, <4>2 DEF FocusChanged
    <3>2. QED
      BY <3>1
  <2>3. CASE a # Owner[p]
    <3>1. entry'[a] = Backgrounded(entry[a])
      BY <1>2, <2>1, <2>3 DEF FocusChanged, RegisterNewApp, ActivateExistingApp
    <3>2. QED
      BY <1>1, <3>1, BackgroundedEffect
  <2>4. QED
    BY <2>2, <2>3
<1>3. ASSUME NEW b \in App, WindowClosed(b)
      PROVE  entry'[a].state = entry[a].state
  <2>1. entry'[a] = entry[a] \/ entry'[a] = Untracked
    BY <1>3 DEF WindowClosed, TypeInv, TypeOK
  <2>2. QED
    BY <2>1, EntryTypes
<1>4. ASSUME NEW b \in App, Suspend(b)
      PROVE  entry'[a].state = entry[a].state \/ Suspend(a)
  <2>1. entry' = entry \/ \E s : entry' = [entry EXCEPT ![b].state = s]
    BY <1>4 DEF Suspend, SuspendByFreeze, SuspendByThrottle
  <2>2. CASE a # b
    BY <2>1, <2>2 DEF TypeInv, TypeOK
  <2>3. QED
    BY <1>4, <2>2
<1>5. ASSUME NEW b \in App, MaintenanceWake(b) \/ MaintenanceSleep(b)
      PROVE  entry'[a].state = entry[a].state
  <2>1. PICK w : entry' = [entry EXCEPT ![b] = [@ EXCEPT !.awake = w]]
    BY <1>5 DEF MaintenanceWake, MaintenanceSleep
  <2>2. entry'[a] = entry[a] \/ entry'[a] = [entry[a] EXCEPT !.awake = w]
    BY <2>1 DEF TypeInv, TypeOK
  <2>3. QED
    BY <1>1, <2>2 DEF Entry
<1>6. ASSUME (\E b \in App : IpcFreeze(b) \/ IpcThaw(b)) \/ IpcThawAll
      PROVE  entry'[a].state = entry[a].state
  <2>1. \/ entry'[a] = entry[a]
        \/ entry'[a] = [entry[a] EXCEPT !.state = "background", !.awake = FALSE]
    <3>1. ASSUME NEW b \in App, IpcFreeze(b) \/ IpcThaw(b)
          PROVE  \/ entry'[a] = entry[a]
                 \/ entry'[a] = [entry[a] EXCEPT !.state = "background", !.awake = FALSE]
      BY <3>1 DEF IpcFreeze, IpcThaw, TypeInv, TypeOK
    <3>2. QED
      BY <1>6, <3>1 DEF IpcThawAll
  <2>2. QED
    BY <1>1, <2>1 DEF Entry
<1>7. Sweep => entry'[a].state = entry[a].state
  <2>1. Sweep => entry'[a] = Untracked \/ entry'[a] = [entry[a] EXCEPT !.roots = @ \cap Alive]
    BY DEF Sweep
  <2>2. QED
    BY <1>1, <2>1, EntryTypes DEF Entry
<1>8. Shutdown \/ Crash => FALSE
  BY EntryTypes DEF Shutdown, Crash
<1>9. Processes \/ Start \/ ThawAllOffline \/ UNCHANGED vars => entry' = entry
  BY DEF Processes, Spawn, Exit, ScopeCollected, Start, ThawAllOffline, vars
<1>10. QED
  BY <1>2, <1>3, <1>4, <1>5, <1>6, <1>7, <1>8, <1>9 DEF Next, Handlers

LEMMA ThrottledStep ==
    ASSUME TypeInv, RootsKnown, NEW a \in App, Suspend(a), entry[a].state # "throttled",
           entry'[a].state = "throttled"
    PROVE  entry[a].path \in limited' \/ \E p \in niced' : Owner[p] = a
<1> DEFINE procs == Allowed(ExpandTree(a))
<1>1. SuspendByThrottle(a, procs) /\ Throttled(a, procs) # {}
  <2>1. SuspendByFreeze(a, procs) => entry'[a].state = "frozen"
    BY DEF SuspendByFreeze, TypeInv, TypeOK, Entry
  <2>2. SuspendByThrottle(a, procs) => Throttled(a, procs) # {}
    BY DEF SuspendByThrottle
  <2>3. QED
    BY <2>1, <2>2 DEF Suspend
<1>2. CASE CpuApplied(a) # {}
  <2>1. entry[a].path \in CpuApplied(a)
    BY <1>2, FreezableThere DEF CpuApplied
  <2>2. QED
    BY <1>1, <2>1 DEF SuspendByThrottle
<1>3. CASE Profile[a].nice /\ Applied(procs) # {}
  <2>1. PICK p \in Applied(procs) : TRUE
    BY <1>3
  <2>2. p \in niced'
    BY <1>1, <1>3, <2>1 DEF SuspendByThrottle
  <2>3. p \in Proc /\ Parent[p] \in entry[a].roots
    BY <2>1 DEF Applied, Allowed, ExpandTree, Alive
  <2>4. Owner[p] = a
    BY <2>3, CgroupAssumption DEF RootsKnown
  <2>5. QED
    BY <2>2, <2>4
<1>4. QED
  BY <1>1, <1>2, <1>3 DEF Throttled

LEMMA GroupAlways == Spec => [](TypeInv /\ GroupInv)
<1>1. Init => TypeInv /\ GroupInv
  BY InitType, GroupInit
<1>2. TypeInv /\ GroupInv /\ [Next]_vars => (TypeInv /\ GroupInv)'
  BY NextType, GroupStep
<1>3. QED
  BY <1>1, <1>2, PTL DEF Spec

\* An application becomes Throttled only with an effect on something of its
\* own: whatever the environment offers, the profile asks for and the deny-list
\* leaves of its tree.
THEOREM NoThrottleWithoutEffect == Spec => ThrottledMeansEffect
<1>1. ASSUME TypeInv, GroupInv, [Next]_vars, NEW a \in App,
             entry[a].state # "throttled", entry'[a].state = "throttled"
      PROVE  entry[a].path \in limited' \/ \E p \in niced' : Owner[p] = a
  <2>1. Suspend(a)
    BY <1>1, StateStep
  <2>2. QED
    BY <1>1, <2>1, ThrottledStep DEF GroupInv
<1>2. TypeInv /\ GroupInv /\ [Next]_vars
      => [\A a \in App :
             entry[a].state # "throttled" /\ entry'[a].state = "throttled" =>
               \/ entry[a].path \in limited'
               \/ \E p \in niced' : Owner[p] = a]_vars
  BY <1>1
<1>3. QED
  BY <1>2, GroupAlways, PTL DEF Spec, ThrottledMeansEffect

----------------------------------------------------------------------------
(* The journal names what is stopped                                       *)

\* The record of a frozen application names its live window processes.
FrozenRecorded ==
    \A a \in In({"frozen"}) :
       Rule[a] = "freeze" /\ entry[a].roots \cap Alive \subseteq rec[a].procs

StoppedRecorded == stopped \subseteq AllRecorded

RecordInv == FrozenRecorded /\ StoppedRecorded

LEMMA RecordFreezeEffect ==
    ASSUME TypeInv, NEW a \in App, NEW group, NEW procs, RecordFreeze(a, group, procs),
           NEW b \in App
    PROVE  rec'[b].procs = IF b = a THEN rec[b].procs \cup procs ELSE rec[b].procs
<1>1. rec[b] \in Record /\ rec \in [App -> Record]
  BY DEF TypeInv, TypeOK
<1>2. CASE b = a
  BY <1>1, <1>2 DEF RecordFreeze
<1>3. CASE b # a
  BY <1>1, <1>3 DEF RecordFreeze
<1>4. QED
  BY <1>2, <1>3

\* Restoring stops nothing, and what it takes from the journal it continues.
LEMMA RestoreRecord ==
    ASSUME TypeInv, StoppedRecorded, NEW F, NEW T, NEW procs, Restore(F, T, procs),
           F \subseteq App
    PROVE  StoppedRecorded' /\ \A a \in App \ F : rec'[a] = rec[a]
<1>1. \A a \in App : rec'[a] = IF a \in F THEN Retire(rec[a], procs[a]) ELSE rec[a]
  BY DEF Restore
<1>2. \A a \in F : rec'[a].procs = rec[a].procs \ procs[a]
  BY <1>1, RetireEffect DEF TypeInv, TypeOK
<1>3. stopped' = stopped \ UNION {procs[a] : a \in F}
  BY DEF Restore, ThawApp
<1>4. QED
  BY <1>1, <1>2, <1>3 DEF StoppedRecorded, AllRecorded

\* A frozen application that stays frozen loses only the dead from its record.
LEMMA FrozenKeepsRecord ==
    ASSUME TypeInv, PathsOfTier, StoppedRecorded, [Next]_vars, NEW a \in App,
           entry[a].state = "frozen", entry'[a].state = "frozen"
    PROVE  rec[a].procs \cap Alive \subseteq rec'[a].procs
<1>1. entry[a] \in Entry /\ rec[a] \in Record /\ entry \in [App -> Entry]
  BY DEF TypeInv, TypeOK
<1>2. ASSUME NEW p \in Proc, FocusChanged(p)
      PROVE  rec'[a] = rec[a]
  <2>1. Owner[p] \in App
    BY CgroupAssumption
  <2>2. RegisterNewApp(Owner[p], p) => rec' = rec
    BY DEF RegisterNewApp
  <2>3. ASSUME ActivateExistingApp(Owner[p], p)
        PROVE  rec'[a] = rec[a]
    <3>1. a # Owner[p]
      <4>1. SUFFICES ASSUME a = Owner[p] PROVE FALSE
        OBVIOUS
      <4>2. PICK gone :
              entry'[a] = [entry[a] EXCEPT !.state = OnFocusGained(@).state,
                                           !.roots = (@ \ gone) \cup {p}, !.awake = FALSE]
        BY <2>3, <4>1 DEF ActivateExistingApp
      <4>3. QED
        BY <1>1, <4>2, EntryTypes DEF Entry
    <3>2. /\ {Owner[p]} \cap In({"frozen"}) \subseteq App \ {a}
          /\ Restore({Owner[p]} \cap In({"frozen"}), {Owner[p]} \cap In({"throttled"}),
                     Recordings)
      BY <2>1, <2>3, <3>1 DEF ActivateExistingApp
    <3>3. QED
      BY <3>2, RestoreRecord
  <2>4. QED
    BY <1>2, <2>2, <2>3 DEF FocusChanged
<1>3. ASSUME NEW b \in App, WindowClosed(b)
      PROVE  rec'[a] = rec[a]
  <2>1. a # b
    BY <1>1, <1>3, EntryTypes DEF WindowClosed
  <2>2. /\ {b} \cap In({"frozen"}) \subseteq App \ {a}
        /\ Restore({b} \cap In({"frozen"}), {b} \cap In({"throttled"}),
                   [c \in App |-> rec[c].procs])
    BY <1>3, <2>1 DEF WindowClosed
  <2>3. QED
    BY <2>2, RestoreRecord
<1>4. ASSUME NEW b \in App, Suspend(b) \/ IpcFreeze(b)
      PROVE  rec[a].procs \subseteq rec'[a].procs
  <2>1. rec' = rec \/ \E group, procs : RecordFreeze(b, group, procs)
    BY <1>4 DEF Suspend, SuspendByFreeze, SuspendByThrottle, IpcFreeze
  <2>2. QED
    BY <2>1, RecordFreezeEffect
<1>5. ASSUME NEW b \in App, IpcThaw(b)
      PROVE  rec'[a] = rec[a]
  <2>1. PICK procs : rec' = [rec EXCEPT ![b] = Retire(@, procs)]
    BY <1>5 DEF IpcThaw
  <2>2. a # b
    <3>1. SUFFICES ASSUME a = b PROVE FALSE
      OBVIOUS
    <3>2. entry'[a] = [entry[a] EXCEPT !.state = "background", !.awake = FALSE]
      BY <1>1, <1>5, <3>1 DEF IpcThaw, Tracked
    <3>3. QED
      BY <1>1, <3>2 DEF Entry
  <2>3. QED
    BY <2>1, <2>2 DEF TypeInv, TypeOK
<1>6. IpcThawAll => FALSE
  <2>1. IpcThawAll => entry'[a] = [entry[a] EXCEPT !.state = "background", !.awake = FALSE]
    BY DEF IpcThawAll, In, Suspended
  <2>2. QED
    BY <1>1, <2>1 DEF Entry
<1>7. Sweep => rec'[a].procs = rec[a].procs \ (Proc \ Alive)
  BY <1>1, RetireEffect DEF Sweep
<1>8. Shutdown \/ Crash => FALSE
  BY EntryTypes DEF Shutdown, Crash
<1>9. Start \/ ThawAllOffline => FALSE
  BY EntryTypes DEF Start, ThawAllOffline, PathsOfTier
<1>10. Processes \/ UNCHANGED vars
       \/ (\E b \in App : MaintenanceWake(b) \/ MaintenanceSleep(b)) => rec' = rec
  BY DEF Processes, Spawn, Exit, ScopeCollected, MaintenanceWake, MaintenanceSleep, vars
<1>11. Alive \subseteq Proc
  BY DEF Alive
<1>12. QED
  BY <1>2, <1>3, <1>4, <1>5, <1>6, <1>7, <1>8, <1>9, <1>10, <1>11 DEF Next, Handlers

\* With an empty record a maintenance sleep would fall back to the roots; but
\* then no root of a frozen application is alive.
LEMMA SleepRecorded ==
    ASSUME TypeInv, FrozenRecorded, NEW a \in App, entry[a].state = "frozen"
    PROVE  RecordedProcs(a) \cap Alive \subseteq rec[a].procs
BY DEF RecordedProcs, FrozenRecorded, In

\* The scan of a suspension finds every live window process, and protection
\* leaves them all to be frozen.
LEMMA SuspendCoversRoots ==
    ASSUME FreezersUnprotected, TypeInv, RootsKnown, NEW a \in App, Rule[a] = "freeze"
    PROVE  entry[a].roots \cap Alive \subseteq Applied(Allowed(ExpandTree(a)))
<1> SUFFICES ASSUME NEW p \in entry[a].roots \cap Alive
             PROVE  p \in Applied(Allowed(ExpandTree(a)))
  OBVIOUS
<1>1. p \in Proc /\ Parent[p] = p
  BY DEF TypeInv, TypeOK, Entry, Root
<1>2. p \notin Protected
  BY <1>1 DEF FreezersUnprotected, RootsKnown
<1>3. QED
  BY <1>1, <1>2 DEF Applied, Allowed, ExpandTree

LEMMA FrozenRecordedStep ==
    ASSUME FreezersUnprotected, TypeInv, GroupInv, RecordInv, [Next]_vars
    PROVE  FrozenRecorded'
<1> SUFFICES ASSUME NEW a \in App, entry'[a].state = "frozen"
             PROVE  Rule[a] = "freeze" /\ entry'[a].roots \cap Alive' \subseteq rec'[a].procs
  BY DEF FrozenRecorded, In
<1>1. CASE entry[a].state = "frozen"
  <2>1. Same(a)
    BY EntryStep, EntryTypes DEF Focused
  <2>2. \A p \in entry[a].roots : p \in Alive' => p \in Alive
    BY LifeStep DEF GroupInv, RootsKnown, TypeInv, TypeOK, Entry, Root
  <2>3. entry'[a].roots \cap Alive' \subseteq entry[a].roots \cap Alive
    BY <2>1, <2>2 DEF Same
  <2>4. Rule[a] = "freeze" /\ entry[a].roots \cap Alive \subseteq rec[a].procs
    BY <1>1 DEF RecordInv, FrozenRecorded, In
  <2>5. rec[a].procs \cap Alive \subseteq rec'[a].procs
    BY <1>1, FrozenKeepsRecord DEF GroupInv, RecordInv
  <2>6. QED
    BY <2>3, <2>4, <2>5
<1>2. CASE entry[a].state # "frozen"
  <2> DEFINE procs == Allowed(ExpandTree(a))
  <2>1. Suspend(a)
    BY <1>2, StateStep
  <2>2. SuspendByFreeze(a, procs)
    <3>1. SuspendByThrottle(a, procs) => entry'[a].state \in {entry[a].state, "throttled"}
      BY DEF SuspendByThrottle, TypeInv, TypeOK, Entry
    <3>2. QED
      BY <1>2, <2>1, <3>1 DEF Suspend
  <2>3. Rule[a] = "freeze" /\ RecordFreeze(a, entry[a].path, Applied(procs))
    BY <2>2 DEF SuspendByFreeze
  <2>4. entry'[a].roots = entry[a].roots /\ Alive' = Alive
    <3>1. Alive' = Alive
      BY <2>1 DEF Suspend, loopVars, Alive
    <3>2. entry'[a].roots = entry[a].roots
      BY <2>2 DEF SuspendByFreeze, TypeInv, TypeOK, Entry
    <3>3. QED
      BY <3>1, <3>2
  <2>5. rec'[a].procs = rec[a].procs \cup Applied(procs)
    BY <2>3, RecordFreezeEffect
  <2>6. entry[a].roots \cap Alive \subseteq Applied(procs)
    BY <2>3, SuspendCoversRoots DEF GroupInv
  <2>7. QED
    BY <2>3, <2>4, <2>5, <2>6
<1>3. QED
  BY <1>1, <1>2

\* Two ways a step keeps the journal complete: it records what it stops, or it
\* continues what it retires.
LEMMA StoppedGrows ==
    ASSUME TypeInv, StoppedRecorded, NEW a \in App, NEW group, NEW procs,
           stopped' \subseteq stopped \cup procs, RecordFreeze(a, group, procs)
    PROVE  StoppedRecorded'
<1>1. \A b \in App : rec[b].procs \subseteq rec'[b].procs
  BY RecordFreezeEffect
<1>2. rec'[a].procs = rec[a].procs \cup procs
  BY RecordFreezeEffect
<1>3. QED
  BY <1>1, <1>2 DEF StoppedRecorded, AllRecorded

LEMMA StoppedKept ==
    ASSUME StoppedRecorded, stopped' \subseteq stopped,
           \A b \in App : rec[b].procs \cap stopped' \subseteq rec'[b].procs
    PROVE  StoppedRecorded'
BY DEF StoppedRecorded, AllRecorded

LEMMA StoppedRecordedStep ==
    ASSUME TypeInv, GroupInv, RecordInv, [Next]_vars
    PROVE  StoppedRecorded'
<1>1. StoppedRecorded /\ stopped \subseteq Alive /\ Alive \subseteq Proc
  BY DEF RecordInv, TypeInv, TypeOK, Alive
<1>2. ASSUME NEW p \in Proc, FocusChanged(p)
      PROVE  StoppedRecorded'
  <2>1. Owner[p] \in App
    BY CgroupAssumption
  <2>2. RegisterNewApp(Owner[p], p) => stopped' = stopped /\ rec' = rec
    BY DEF RegisterNewApp
  <2>3. ActivateExistingApp(Owner[p], p) => StoppedRecorded'
    BY <1>1, <2>1, RestoreRecord DEF ActivateExistingApp
  <2>4. QED
    BY <1>1, <1>2, <2>2, <2>3, StoppedKept DEF FocusChanged
<1>3. ASSUME NEW a \in App, WindowClosed(a)
      PROVE  StoppedRecorded'
  BY <1>1, <1>3, RestoreRecord DEF WindowClosed
<1>4. ASSUME NEW a \in App, Suspend(a)
      PROVE  StoppedRecorded'
  <2> DEFINE procs == Allowed(ExpandTree(a))
  <2>1. CASE SuspendByFreeze(a, procs)
    <3>1. stopped' \subseteq stopped \cup Applied(procs)
      BY <2>1 DEF SuspendByFreeze, FreezeApp, Applied
    <3>2. RecordFreeze(a, entry[a].path, Applied(procs))
      BY <2>1 DEF SuspendByFreeze
    <3>3. QED
      BY <1>1, <3>1, <3>2, StoppedGrows
  <2>2. CASE SuspendByThrottle(a, procs)
    BY <1>1, <2>2, StoppedKept DEF SuspendByThrottle
  <2>3. QED
    BY <1>4, <2>1, <2>2 DEF Suspend
<1>5. ASSUME NEW a \in App, MaintenanceWake(a)
      PROVE  StoppedRecorded'
  BY <1>1, <1>5, StoppedKept DEF MaintenanceWake, ThawApp
<1>6. ASSUME NEW a \in App, MaintenanceSleep(a)
      PROVE  StoppedRecorded'
  <2>1. stopped' \subseteq stopped \cup (RecordedProcs(a) \cap Alive) /\ rec' = rec
    BY <1>6 DEF MaintenanceSleep, FreezeApp
  <2>2. RecordedProcs(a) \cap Alive \subseteq rec[a].procs
    BY <1>6, SleepRecorded DEF MaintenanceSleep, RecordInv
  <2>3. QED
    BY <1>1, <2>1, <2>2 DEF StoppedRecorded, AllRecorded
<1>7. ASSUME NEW a \in App, IpcFreeze(a)
      PROVE  StoppedRecorded'
  BY <1>1, <1>7, StoppedGrows DEF IpcFreeze
<1>8. ASSUME NEW a \in App, IpcThaw(a)
      PROVE  StoppedRecorded'
  <2>1. PICK procs : stopped' = stopped \ procs /\ rec' = [rec EXCEPT ![a] = Retire(@, procs)]
    BY <1>8 DEF IpcThaw
  <2>2. \A b \in App : rec[b].procs \cap stopped' \subseteq rec'[b].procs
    BY <2>1, RetireEffect DEF TypeInv, TypeOK
  <2>3. QED
    BY <1>1, <2>1, <2>2, StoppedKept
<1>9. ReleaseRecorded => StoppedRecorded'
  BY <1>1 DEF ReleaseRecorded, StoppedRecorded
<1>10. Sweep => StoppedRecorded'
  <2>1. Sweep => \A b \in App : rec'[b].procs = rec[b].procs \ (Proc \ Alive)
    BY RetireEffect DEF Sweep, TypeInv, TypeOK
  <2>2. QED
    BY <1>1, <2>1, StoppedKept DEF Sweep
<1>11. Shutdown => StoppedRecorded'
  BY <1>1 DEF Shutdown, StoppedRecorded
<1>12. Processes \/ Crash \/ UNCHANGED vars => stopped' \subseteq stopped /\ rec' = rec
  BY DEF Processes, Spawn, Exit, ScopeCollected, Crash, vars
<1>13. QED
  BY <1>1, <1>2, <1>3, <1>4, <1>5, <1>6, <1>7, <1>8, <1>9, <1>10, <1>11, <1>12, StoppedKept
     DEF Next, Handlers, IpcThawAll, Start, ThawAllOffline

LEMMA RecordAlways ==
    ASSUME FreezersUnprotected
    PROVE  Spec => [](TypeInv /\ GroupInv /\ RecordInv)
<1>1. Init => TypeInv /\ GroupInv /\ RecordInv
  BY InitType, GroupInit, EntryTypes
     DEF Init, RecordInv, FrozenRecorded, StoppedRecorded, In
<1>2. TypeInv /\ GroupInv /\ RecordInv /\ [Next]_vars => (TypeInv /\ GroupInv /\ RecordInv)'
  BY NextType, GroupStep, FrozenRecordedStep, StoppedRecordedStep DEF RecordInv
<1>3. QED
  BY <1>1, <1>2, PTL DEF Spec

----------------------------------------------------------------------------
(* What a start and a departure from the frozen state release              *)

\* However the daemon ended, whatever a client did to the journal, whatever
\* environment the next one finds and wherever it is started: its start leaves
\* nothing stopped by a signal, and frozen only a group that the journal does
\* not name and the new daemon cannot find.
THEOREM StartReleasesAll ==
    ASSUME FreezersUnprotected
    PROVE  Spec => RestartFreesAll
<1> DEFINE Inv == TypeInv /\ GroupInv /\ RecordInv
           Freed(p) ==
              /\ p \notin stopped'
              /\ home[p] \notin {rec[a].group : a \in App}
              /\ Detect(env').tier # "signal" => BaseOf(home[p]) # env'.base
<1>1. ASSUME Inv, Start, NEW p \in Stalled'
      PROVE  Freed(p)
  <2>1. stopped' = {}
    BY <1>1 DEF Start, ReleaseRecorded, RecordInv, StoppedRecorded
  <2>2. home' = home
    BY <1>1 DEF Start, RemoveCgroups
  <2>3. home[p] \in frozen' /\ p \in Proc
    BY <1>1, <2>1, <2>2 DEF Stalled, Alive
  <2>4. home[p] \in frozen /\ home[p] \in dirs /\ home[p] \notin Replayed
    BY <1>1, <2>3 DEF Start, TypeInv, TypeOK
  <2>5. home[p] \notin {rec[a].group : a \in App}
    BY <2>4 DEF Replayed, Writable
  <2>6. QED
    BY <1>1, <2>1, <2>3, <2>5, StartThaws
<1>2. Inv /\ [Next]_vars => [Start => \A p \in Stalled' : Freed(p)]_vars
  BY <1>1
<1>3. QED
  BY <1>2, RecordAlways, PTL DEF Spec, RestartFreesAll

\* The group of a frozen application is one the daemon can thaw.
LEMMA FrozenPathThawable ==
    ASSUME TypeInv, GroupInv, up, NEW a \in In({"frozen"}), entry[a].path \in frozen,
           NEW A, a \in A
    PROVE  entry[a].path \in Freezable(Paths(A))
<1>1. entry[a].path \in dirs /\ entry[a].path # None
  BY CgroupAssumption DEF TypeInv, TypeOK
<1>2. entry[a].path \in Writable(Paths(A))
  BY <1>1 DEF Writable, Paths
<1>3. Capabilities.freezer
  BY <1>1 DEF GroupInv, Thawable, PathsOfTier, OfTier, In
<1>4. QED
  BY <1>2, <1>3 DEF Freezable

\* What ThawApp is given for a frozen application is enough to thaw it.
LEMMA ThawAppReleases ==
    ASSUME TypeInv, GroupInv, RecordInv, up, NEW a \in In({"frozen"}),
           NEW A, a \in A, NEW procs, rec[a].procs \subseteq procs,
           frozen' \subseteq frozen \ Freezable(Paths(A)), stopped' \subseteq stopped \ procs
    PROVE  entry[a].path \notin frozen' /\ entry[a].roots \cap stopped' = {}
<1>1. entry[a].path \notin frozen'
  BY FrozenPathThawable
<1>2. entry[a].roots \cap stopped \subseteq rec[a].procs
  BY DEF RecordInv, FrozenRecorded, TypeInv, TypeOK
<1>3. QED
  BY <1>1, <1>2

\* What becomes of an application that stops being frozen.
Released(a) == entry[a].path \notin frozen' /\ entry[a].roots \cap stopped' = {}

LEMMA ClosedReleases ==
    ASSUME TypeInv, GroupInv, RecordInv, NEW a \in In({"frozen"}), WindowClosed(a)
    PROVE  Released(a)
<1>1. /\ up /\ a \in App /\ {a} \cap In({"frozen"}) = {a}
      /\ Restore({a}, {a} \cap In({"throttled"}), [b \in App |-> rec[b].procs])
  BY DEF WindowClosed, In
<1>2. /\ frozen' \subseteq frozen \ Freezable(Paths({a}))
      /\ stopped' \subseteq stopped \ rec[a].procs
  BY <1>1 DEF Restore, ThawApp
<1>3. QED
  BY <1>1, <1>2, ThawAppReleases DEF Released

LEMMA ShutdownReleases ==
    ASSUME TypeInv, GroupInv, RecordInv, NEW a \in In({"frozen"}), Shutdown
    PROVE  Released(a)
<1>1. up /\ rec[a].procs \subseteq AllRecorded
  BY DEF Shutdown, AllRecorded, In
<1>2. /\ frozen' \subseteq frozen \ Freezable(Paths(In({"frozen"})))
      /\ stopped' \subseteq stopped \ AllRecorded
  BY DEF Shutdown
<1>3. QED
  BY <1>1, <1>2, ThawAppReleases DEF Released

LEMMA FocusReleases ==
    ASSUME TypeInv, GroupInv, RecordInv, NEW a \in In({"frozen"}),
           NEW p \in Proc, Owner[p] = a, FocusChanged(p)
    PROVE  Released(a)
<1>1. up /\ a \in App /\ a \in Tracked /\ {a} \cap In({"frozen"}) = {a}
  BY DEF FocusChanged, In, Tracked
<1>2. Restore({a}, {a} \cap In({"throttled"}), Recordings)
  BY <1>1 DEF FocusChanged, RegisterNewApp, ActivateExistingApp
<1>3. /\ frozen' \subseteq frozen \ Freezable(Paths({a}))
      /\ stopped' \subseteq stopped \ RecordedProcs(a)
  BY <1>1, <1>2 DEF Restore, ThawApp, Recordings
<1>4. rec[a].procs \subseteq RecordedProcs(a)
  BY DEF RecordedProcs
<1>5. QED
  BY <1>1, <1>3, <1>4, ThawAppReleases DEF Released

\* Clients continue what the journal names, which is every live window process.
LEMMA ClientContinues ==
    ASSUME TypeInv, RecordInv, NEW a \in In({"frozen"}), IpcThaw(a) \/ IpcThawAll
    PROVE  entry[a].roots \cap stopped' = {}
<1>1. entry[a].roots \cap stopped \subseteq rec[a].procs \cap Alive /\ a \in App
  BY DEF RecordInv, FrozenRecorded, TypeInv, TypeOK, In
<1>2. CASE IpcThaw(a)
  BY <1>1, <1>2 DEF IpcThaw, RecordedProcs
<1>3. CASE IpcThawAll
  BY <1>1, <1>3 DEF IpcThawAll, ReleaseRecorded, AllRecorded
<1>4. QED
  BY <1>2, <1>3

\* The steps that take an application out of Frozen, and no others.
LEMMA WaysOut ==
    ASSUME TypeInv, [Next]_vars, NEW a \in In({"frozen"}), entry'[a].state # "frozen"
    PROVE  \/ WindowClosed(a) \/ Shutdown \/ Crash \/ IpcThaw(a) \/ IpcThawAll
           \/ \E p \in Proc : Owner[p] = a /\ FocusChanged(p)
           \/ Sweep /\ entry[a].roots \cap Alive = {}
<1>1. a \in App /\ entry[a] \in Entry /\ entry[a].state = "frozen" /\ entry \in [App -> Entry]
  BY DEF In, TypeInv, TypeOK
<1>2. ASSUME NEW p \in Proc, FocusChanged(p), a # Owner[p]
      PROVE  FALSE
  <2>1. Owner[p] \in App
    BY CgroupAssumption
  <2>2. entry'[a] = Backgrounded(entry[a])
    BY <1>1, <1>2, <2>1 DEF FocusChanged, RegisterNewApp, ActivateExistingApp
  <2>3. QED
    BY <1>1, <2>2, BackgroundedEffect
<1>3. ASSUME NEW b \in App, WindowClosed(b) \/ IpcThaw(b), a # b
      PROVE  FALSE
  BY <1>1, <1>3 DEF WindowClosed, IpcThaw
<1>4. ASSUME NEW b \in App, Suspend(b)
      PROVE  FALSE
  <2>1. a # b
    BY <1>1, <1>4 DEF Suspend
  <2>2. entry' = entry \/ \E s : entry' = [entry EXCEPT ![b].state = s]
    BY <1>4 DEF Suspend, SuspendByFreeze, SuspendByThrottle
  <2>3. QED
    BY <1>1, <2>1, <2>2
<1>5. ASSUME NEW b \in App, MaintenanceWake(b) \/ MaintenanceSleep(b)
      PROVE  FALSE
  <2>1. PICK w : entry' = [entry EXCEPT ![b] = [@ EXCEPT !.awake = w]]
    BY <1>5 DEF MaintenanceWake, MaintenanceSleep
  <2>2. entry'[a] = entry[a] \/ entry'[a] = [entry[a] EXCEPT !.awake = w]
    BY <1>1, <2>1
  <2>3. QED
    BY <1>1, <2>2 DEF Entry
<1>6. Sweep => entry[a].roots \cap Alive = {}
  <2>1. ASSUME Sweep, entry[a].roots \cap Alive # {}
        PROVE  FALSE
    <3>1. entry'[a] = [entry[a] EXCEPT !.roots = @ \cap Alive]
      BY <1>1, <2>1 DEF Sweep
    <3>2. QED
      BY <1>1, <3>1 DEF Entry
  <2>2. QED
    BY <2>1
<1>7. Processes \/ Start \/ ThawAllOffline \/ UNCHANGED vars
      \/ (\E b \in App : IpcFreeze(b)) => entry' = entry
  BY DEF Processes, Spawn, Exit, ScopeCollected, Start, ThawAllOffline, IpcFreeze, vars
<1>8. QED
  BY <1>1, <1>2, <1>3, <1>4, <1>5, <1>6, <1>7 DEF Next, Handlers

\* Whatever takes a frozen application out of that state, a crash apart, none
\* of its window processes is left stopped: the journal names every one of them
\* that is alive.  Its group is thawed too, as the freezer that stopped it is
\* still within reach, by whatever asks for it: the focus, the last window's
\* close and the shutdown do; clients do not, and the sweep comes when nobody
\* is left.
THEOREM FrozenAlwaysThawed ==
    ASSUME FreezersUnprotected
    PROVE  Spec => LeavingFrozenThaws
<1> DEFINE Inv == TypeInv /\ GroupInv /\ RecordInv
           Thawed(a) ==
              /\ entry[a].roots \cap stopped' = {}
              /\ \/ entry[a].path \notin frozen'
                 \/ IpcThaw(a) \/ IpcThawAll
                 \/ entry[a].roots \cap Alive = {}
<1>1. ASSUME Inv, [Next]_vars, NEW a \in In({"frozen"}), entry'[a].state # "frozen", ~Crash
      PROVE  Thawed(a)
  <2>1. Released(a) => Thawed(a)
    BY DEF Released
  <2>2. CASE WindowClosed(a) \/ Shutdown \/ \E p \in Proc : Owner[p] = a /\ FocusChanged(p)
    BY <1>1, <2>1, <2>2, ClosedReleases, ShutdownReleases, FocusReleases
  <2>3. CASE IpcThaw(a) \/ IpcThawAll
    BY <1>1, <2>3, ClientContinues
  <2>4. CASE Sweep /\ entry[a].roots \cap Alive = {}
    BY <1>1, <2>4 DEF Sweep, TypeInv, TypeOK
  <2>5. QED
    BY <1>1, <2>2, <2>3, <2>4, WaysOut
<1>2. Inv /\ [Next]_vars =>
        [\A a \in In({"frozen"}) : entry'[a].state # "frozen" /\ ~Crash => Thawed(a)]_vars
  BY <1>1
<1>3. QED
  BY <1>2, RecordAlways, PTL DEF Spec, LeavingFrozenThaws
=============================================================================
