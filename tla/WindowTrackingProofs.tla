------------------------ MODULE WindowTrackingProofs ------------------------
(***************************************************************************)
(* Proofs about Rules and WindowTracking, for every desktop: any windows,  *)
(* programs, PIDs, configurations and channel capacity.                    *)
(***************************************************************************)
EXTENDS WindowTracking, TLAPS, WellFoundedInduction, SequenceTheorems,
        FiniteSetTheorems

----------------------------------------------------------------------------
(* What rule matching returns                                              *)

LEMMA LeastNatural ==
    ASSUME NEW S \in SUBSET Nat, S # {}
    PROVE  \E m \in S : \A n \in S : m <= n
<1>1. IsWellFoundedOn(OpToRel(<, Nat), Nat)
  BY NatLessThanWellFounded
<1>2. PICK m \in S : \A n \in S : ~ (<<n, m>> \in OpToRel(<, Nat))
  BY <1>1, WFMin
<1>3. \A n \in S : ~ (n < m)
  BY <1>2 DEF OpToRel
<1>4. QED
  BY <1>3

\* Whatever matches, the action is one of the three: what a rule and its profile
\* leave open, the defaults settle.
LEMMA MatchedAction ==
    ASSUME NEW c \in Config, NEW ctx
    PROVE  /\ "action" \in DOMAIN MatchWindow(c, ctx)
           /\ MatchWindow(c, ctx).action \in Actions
<1> DEFINE matching == {i \in DOMAIN c.rules : MatchesRule(c.rules[i], ctx)}
           first    == CHOOSE i \in matching : \A j \in matching : i <= j
<1>1. CASE matching = {}
  BY <1>1, ConfigAssumption DEF MatchWindow, DefaultPolicy
<1>2. CASE matching # {}
  <2>1. matching \in SUBSET Nat
    BY ConfigAssumption
  <2>2. first \in matching
    BY <1>2, <2>1, LeastNatural
  <2>3. c.rules[first].policy.action \in Actions \cup {None}
    BY <2>2, ConfigAssumption
  <2>4. MatchWindow(c, ctx) = ResolvePolicy(c, c.rules[first].policy)
    BY <1>2 DEF MatchWindow
  <2>5. /\ "action" \in DOMAIN ResolvePolicy(c, c.rules[first].policy)
        /\ ResolvePolicy(c, c.rules[first].policy).action \in Actions
    BY <2>3, ConfigAssumption DEF ResolvePolicy
  <2>6. QED
    BY <2>4, <2>5
<1>3. QED
  BY <1>1, <1>2

LEMMA PolicyAction ==
    ASSUME NEW c \in Config, NEW window, NEW comm
    PROVE  PolicyFor(c, window, comm).action \in Actions
BY MatchedAction DEF PolicyFor, Actions

----------------------------------------------------------------------------
(* Types, by the parts of the system                                       *)

DesktopType ==
    /\ exe \in [Pid -> Name \cup {None}] /\ exited \subseteq Process
    /\ open \subseteq Window /\ closed \subseteq Window
    /\ focus \in Window \cup {None} /\ desktop \in Desktop /\ moves \in 0..MaxMoves

BackendType ==
    /\ backend \in Backends
    /\ reading \in Window \cup {None} /\ watched \subseteq Window
    /\ known \subseteq Window /\ last \in Window \cup {None}
    /\ toplevels \in [Window -> Toplevel \cup {None}]
    /\ exe_cache \in [Pid -> Name \cup {None, Unasked}]
    /\ pid_cache \in [Name -> Pid \cup {None}]

FlowType ==
    /\ wire \in Seq(Message) /\ outbox \in Seq(FocusEvent)
    /\ channel \in Seq(FocusEvent) /\ Len(channel) <= ChannelLen

EngineType ==
    /\ config \in Config
    /\ entry \in [AppId -> Entry \cup {Untracked}]
    /\ window_map \in [Window -> AppId \cup {None}]
    /\ journal \in [AppId -> SUBSET Process]
    /\ scan \in [app : AppId, procs : SUBSET Process] \cup {None}
    /\ sweep \in [roots : [AppId -> SUBSET Process],
                  journal : [AppId -> SUBSET Process]] \cup {None}

LEMMA TypeParts ==
    TypeOK <=> DesktopType /\ BackendType /\ FlowType /\ EngineType
BY DEF TypeOK, DesktopType, BackendType, FlowType, EngineType

LEMMA ShortSequences ==
    ASSUME NEW S, NEW x \in S
    PROVE  <<x>> \in Seq(S) /\ <<>> \in Seq(S)
<1>1. <<x>> \in [1..1 -> S]
  OBVIOUS
<1>2. QED
  BY <1>1, SeqDef, EmptySeq

\* What a message of each kind carries.
LEMMA MessageFields ==
    ASSUME NEW m \in Message
    PROVE  /\ m.type \in {"destroyed", "closed", "activate", "update"} =>
                m.window \in Window
           /\ m.type = "update" => /\ m.app_id \in Name \cup {None}
                                  /\ m.activated \in BOOLEAN \cup {None}
BY DEF Message

LEMMA EventFields ==
    ASSUME NEW e \in FocusEvent
    PROVE  /\ e.type = "FocusChanged" => e.info \in WindowInfo
           /\ e.type \in {"WindowClosed", "ActivationRequested"} => e.window \in Window
BY DEF FocusEvent

LEMMA UpdateType ==
    ASSUME NEW w \in Window, NEW app \in Name \cup {None},
           NEW act \in BOOLEAN \cup {None}
    PROVE  Update(w, app, act) \in Message
BY DEF Update, Message

LEMMA EventTypes ==
    /\ \A info \in WindowInfo : FocusChanged(info) \in FocusEvent
    /\ \A w \in Window : WindowClosed(w) \in FocusEvent
BY DEF FocusChanged, WindowClosed, FocusEvent

\* The display server tells messages, whatever the back end.
LEMMA TellType ==
    ASSUME FlowType, NEW x \in Seq(Message), NEW y \in Seq(Message), Tell(x, y)
    PROVE  wire' \in Seq(Message)
BY DEF FlowType, Tell

LEMMA DesktopKeepsType ==
    ASSUME TypeOK, DesktopStep
    PROVE  TypeOK'
<1> USE DEF Process
<1>1. DesktopType /\ BackendType /\ FlowType /\ EngineType
  BY TypeParts
<1>2. BackendType' /\ EngineType'
  BY <1>1 DEF DesktopStep, BackendType, EngineType, backendVars, engineVars
<1>3. SUFFICES DesktopType' /\ wire' \in Seq(Message)
  BY <1>1, <1>2 DEF DesktopStep, TypeOK, DesktopType, BackendType, FlowType, EngineType
<1>4. \A w \in Window : Update(w, ClassOf[w], FALSE) \in Message
  BY UpdateType, WindowAssumption
<1>5. ASSUME NEW w \in Window, OpenWindow(w)
      PROVE  DesktopType' /\ wire' \in Seq(Message)
  <2>1. <<Update(w, ClassOf[w], FALSE)>> \in Seq(Message) /\ <<>> \in Seq(Message)
    BY <1>4, ShortSequences
  <2>2. wire' \in Seq(Message)
    BY <1>1, <1>5, <2>1, TellType DEF OpenWindow
  <2>3. QED
    BY <1>1, <1>5, <2>2, WindowAssumption DEF OpenWindow, DesktopType
<1>6. ASSUME NEW w \in Window, CloseWindow(w)
      PROVE  DesktopType' /\ wire' \in Seq(Message)
  <2>1. [type |-> "active"] \in Message /\ [type |-> "destroyed", window |-> w] \in Message
        /\ [type |-> "closed", window |-> w] \in Message
    BY DEF Message
  <2> DEFINE ended == IF w \in watched THEN <<[type |-> "destroyed", window |-> w]>> ELSE <<>>
             left  == IF focus = w THEN <<[type |-> "active"]>> ELSE <<>>
  <2>2. ended \in Seq(Message) /\ left \in Seq(Message)
    BY <2>1, ShortSequences
  <2>3. ended \o left \in Seq(Message) /\ <<[type |-> "closed", window |-> w]>> \in Seq(Message)
    BY <2>1, <2>2, ShortSequences, ConcatProperties
  <2>4. Tell(ended \o left, <<[type |-> "closed", window |-> w]>>)
    BY <1>6 DEF CloseWindow
  <2>5. wire' \in Seq(Message)
    BY <1>1, <2>3, <2>4, TellType
  <2>6. QED
    BY <1>1, <1>6, <2>5 DEF CloseWindow, DesktopType
<1>7. ASSUME NEW w \in Window, Retitle(w)
      PROVE  DesktopType' /\ wire' \in Seq(Message)
  <2>1. Update(w, None, None) \in Message
    BY UpdateType
  <2>2. wire' \in Seq(Message)
    BY <1>1, <1>7, <2>1, ShortSequences, TellType DEF Retitle
  <2>3. QED
    BY <1>1, <1>7, <2>2, WindowAssumption DEF Retitle, Move, DesktopType
<1>8. ASSUME NEW w \in Window, RequestActivation(w)
      PROVE  DesktopType' /\ wire' \in Seq(Message)
  <2>1. [type |-> "activate", window |-> w] \in Message
    BY DEF Message
  <2>2. wire' \in Seq(Message)
    BY <1>1, <1>8, <2>1, ShortSequences, TellType DEF RequestActivation
  <2>3. QED
    BY <1>1, <1>8, <2>2, WindowAssumption DEF RequestActivation, Move, DesktopType
<1>9. ASSUME NEW w \in Window \cup {None}, SwitchFocus(w)
      PROVE  DesktopType' /\ wire' \in Seq(Message)
  <2>1. [type |-> "active"] \in Message
    BY DEF Message
  <2>2. \A v \in Window, act \in BOOLEAN : Update(v, None, act) \in Message
    BY UpdateType
  <2> DEFINE left   == IF focus = None THEN <<>> ELSE <<Update(focus, None, FALSE)>>
             gained == IF w = None THEN <<>> ELSE <<Update(w, None, TRUE)>>
  <2>3. left \in Seq(Message)
    <3>1. CASE focus = None
      BY <2>1, <3>1, ShortSequences
    <3>2. CASE focus \in Window
      BY <2>2, <3>2, ShortSequences, WindowAssumption
    <3>3. QED
      BY <1>1, <3>1, <3>2 DEF DesktopType
  <2>4. gained \in Seq(Message)
    BY <2>1, <2>2, ShortSequences
  <2>5. left \o gained \in Seq(Message) /\ <<[type |-> "active"]>> \in Seq(Message)
    BY <2>1, <2>3, <2>4, ShortSequences, ConcatProperties
  <2>6. Tell(<<[type |-> "active"]>>, left \o gained)
    BY <1>9 DEF SwitchFocus
  <2>7. wire' \in Seq(Message)
    BY <1>1, <2>5, <2>6, TellType
  <2>8. QED
    BY <1>1, <1>9, <2>7, WindowAssumption DEF SwitchFocus, Move, DesktopType
<1>10. ASSUME NEW p \in Pid, ExitProcess(p)
       PROVE  DesktopType' /\ wire' \in Seq(Message)
  BY <1>1, <1>10 DEF ExitProcess, DesktopType, FlowType
<1>11. ASSUME NEW d \in Desktop, SwitchDesktop(d)
       PROVE  DesktopType' /\ wire' \in Seq(Message)
  <2>1. [type |-> "desktop"] \in Message
    BY DEF Message
  <2>2. wire' \in Seq(Message)
    BY <1>1, <1>11, <2>1, ShortSequences, TellType DEF SwitchDesktop
  <2>3. QED
    BY <1>1, <1>11, <2>2, WindowAssumption DEF SwitchDesktop, Move, DesktopType
<1>12. QED
  BY <1>5, <1>6, <1>7, <1>8, <1>9, <1>10, <1>11 DEF DesktopStep

----------------------------------------------------------------------------
(* The back ends                                                           *)

LEMMA InfoTypes ==
    ASSUME DesktopType, BackendType, NEW w \in Window
    PROVE  /\ X11Info(w) \in WindowInfo
           /\ GnomeInfo(w) \in WindowInfo
           /\ Asked(w) \in [Pid -> Name \cup {None, Unasked}]
           /\ \A app \in Name \cup {None}, p \in Pid \cup {None} :
                WlrInfo(w, app, p) \in WindowInfo
<1>1. PidOf[w] \in Pid \cup {None} /\ ClassOf[w] \in Name /\ DesktopOf[w] \in Desktop
  BY WindowAssumption
<1>2. \A p \in Pid \cup {None} : Comm(p) \in Name \cup {None}
  BY DEF Comm, DesktopType
<1>3. X11Info(w) \in WindowInfo
  BY <1>1, <1>2 DEF X11Info, NoWindow, WindowInfo
<1>4. Asked(w) \in [Pid -> Name \cup {None, Unasked}]
  BY DEF Asked, DesktopType, BackendType
<1>5. ASSUME PidOf[w] # None
      PROVE  Asked(w)[PidOf[w]] \in Name \cup {None}
  BY <1>1, <1>5 DEF Asked, DesktopType, BackendType
<1>6. GnomeInfo(w) \in WindowInfo
  BY <1>1, <1>5 DEF GnomeInfo, WindowInfo
<1>7. ASSUME NEW app \in Name \cup {None}, NEW p \in Pid \cup {None}
      PROVE  WlrInfo(w, app, p) \in WindowInfo
  BY <1>7 DEF WlrInfo, WindowInfo
<1>8. QED
  BY <1>3, <1>4, <1>6, <1>7

\* A message that was read came from the wire, and what is left is on it.
LEMMA ReadsType ==
    ASSUME FlowType, NEW type, Reads(type)
    PROVE  /\ Head(wire) \in Message /\ Head(wire).type = type
           /\ wire' \in Seq(Message)
BY HeadTailProperties DEF FlowType, Reads

LEMMA BackendKeepsType ==
    ASSUME TypeOK, BackendStep
    PROVE  TypeOK'
<1>1. DesktopType /\ BackendType /\ FlowType /\ EngineType
  BY TypeParts
<1>2. DesktopType' /\ EngineType' /\ backend' = backend
  BY <1>1 DEF BackendStep, DesktopType, EngineType, desktopVars, engineVars
<1>3. SUFFICES BackendType' /\ FlowType'
  BY <1>2 DEF TypeOK, DesktopType, BackendType, FlowType, EngineType
<1>4. CASE X11Active
  BY <1>1, <1>2, <1>4, ReadsType DEF X11Active, DesktopType, BackendType, FlowType
<1>5. CASE X11Inform
  <2>1. reading \in Window
    BY <1>1, <1>5 DEF X11Inform, BackendType
  <2>2. FocusChanged(X11Info(reading)) \in FocusEvent
    BY <1>1, <2>1, InfoTypes, EventTypes
  <2>3. outbox' \in Seq(FocusEvent)
    BY <1>5, <2>2, ShortSequences DEF X11Inform
  <2>4. QED
    BY <1>1, <1>2, <1>5, <2>3 DEF X11Inform, BackendType, FlowType, backendVars
<1>6. CASE X11Subscribe
  BY <1>1, <1>2, <1>6 DEF X11Subscribe, DesktopType, BackendType, FlowType
<1>7. CASE X11Destroyed
  <2>1. Head(wire).window \in Window /\ wire' \in Seq(Message)
    BY <1>1, <1>7, ReadsType, MessageFields DEF X11Destroyed
  <2>2. WindowClosed(Head(wire).window) \in FocusEvent
    BY <2>1, EventTypes
  <2>3. outbox' \in Seq(FocusEvent)
    BY <1>7, <2>2, ShortSequences DEF X11Destroyed
  <2>4. QED
    BY <1>1, <1>2, <1>7, <2>1, <2>3 DEF X11Destroyed, BackendType, FlowType, backendVars
<1>8. CASE X11Hint
  <2>1. wire' \in Seq(Message)
    BY <1>1, <1>8, ReadsType DEF X11Hint
  <2>2. ASSUME NEW hint \in FocusEvent, TrySend(hint)
        PROVE  channel' \in Seq(FocusEvent) /\ Len(channel') <= ChannelLen
    BY <1>1, <2>2, AppendProperties, WindowAssumption DEF TrySend, FlowType
  <2>3. CASE Reads("activate")
    <3>1. [type |-> "ActivationRequested", window |-> Head(wire).window] \in FocusEvent
      BY <1>1, <2>3, ReadsType, MessageFields DEF FocusEvent
    <3>2. channel' \in Seq(FocusEvent) /\ Len(channel') <= ChannelLen
      BY <1>8, <2>2, <2>3, <3>1 DEF X11Hint, Reads
    <3>3. QED
      BY <1>1, <1>2, <1>8, <2>1, <3>2 DEF X11Hint, BackendType, FlowType, backendVars
  <2>4. CASE Reads("desktop")
    <3>1. [type |-> "WorkspaceChanged", desktop |-> desktop] \in FocusEvent
      BY <1>1 DEF FocusEvent, DesktopType
    <3>2. channel' \in Seq(FocusEvent) /\ Len(channel') <= ChannelLen
      BY <1>8, <2>2, <2>4, <3>1 DEF X11Hint, Reads
    <3>3. QED
      BY <1>1, <1>2, <1>8, <2>1, <3>2 DEF X11Hint, BackendType, FlowType, backendVars
  <2>5. QED
    BY <1>8, <2>3, <2>4 DEF X11Hint
<1>9. CASE GnomePoll
  <2> DEFINE news == focus \notin {None, last}
             first == IF news THEN <<FocusChanged(GnomeInfo(focus))>> ELSE <<>>
  <2>1. PICK gone \in Orders(known \ open) :
          outbox' = first \o [i \in DOMAIN gone |-> WindowClosed(gone[i])]
    BY <1>9 DEF GnomePoll
  <2>2. news => focus \in Window
    BY <1>1 DEF DesktopType
  <2>3. first \in Seq(FocusEvent)
    <3>1. CASE news
      BY <1>1, <2>2, <3>1, InfoTypes, EventTypes, ShortSequences
    <3>2. CASE ~news
      BY <3>2, EmptySeq
    <3>3. QED
      BY <3>1, <3>2
  <2>4. Cardinality(known \ open) \in Nat
    BY <1>1, WindowAssumption, FS_Subset, FS_CardinalityType DEF BackendType
  <2>5. gone \in [1..Cardinality(known \ open) -> Window]
    BY <1>1, <2>4 DEF Orders, BackendType
  <2>6. [i \in DOMAIN gone |-> WindowClosed(gone[i])]
           \in [1..Cardinality(known \ open) -> FocusEvent]
    BY <2>5, EventTypes
  <2>7. [i \in DOMAIN gone |-> WindowClosed(gone[i])] \in Seq(FocusEvent)
    BY <2>4, <2>6, SeqDef
  <2>8. outbox' \in Seq(FocusEvent)
    BY <2>1, <2>3, <2>7, ConcatProperties
  <2>9. exe_cache' \in [Pid -> Name \cup {None, Unasked}]
    BY <1>1, <1>9, <2>2, InfoTypes DEF GnomePoll, BackendType
  <2>10. QED
    BY <1>1, <1>2, <1>9, <2>2, <2>8, <2>9 DEF GnomePoll, DesktopType, BackendType, FlowType
<1>10. CASE WlrDone
  <2> DEFINE w    == Head(wire).window
             next == Pending(Head(wire))
  <2>1. /\ w \in Window /\ wire' \in Seq(Message)
        /\ next.app_id \in Name \cup {None} /\ next \in Toplevel
    BY <1>1, <1>10, ReadsType, MessageFields DEF WlrDone, Pending, Toplevel
  <2>2. FindPid(next.app_id) \subseteq Pid \cup {None}
    BY <1>1, <2>1 DEF FindPid, BackendType
  <2>3. outbox' \in Seq(FocusEvent) /\ pid_cache' \in [Name -> Pid \cup {None}]
    <3>1. ASSUME NEW p \in FindPid(next.app_id),
                 outbox' = <<FocusChanged(WlrInfo(w, next.app_id, p))>>,
                 pid_cache' = [n \in Name |-> IF n = next.app_id THEN p ELSE pid_cache[n]]
          PROVE  outbox' \in Seq(FocusEvent) /\ pid_cache' \in [Name -> Pid \cup {None}]
      <4>1. WlrInfo(w, next.app_id, p) \in WindowInfo
        BY <1>1, <2>1, <2>2, InfoTypes
      <4>2. outbox' \in Seq(FocusEvent)
        BY <3>1, <4>1, EventTypes, ShortSequences
      <4>3. QED
        BY <1>1, <2>2, <3>1, <4>2 DEF BackendType
    <3>2. QED
      BY <1>1, <1>10, <3>1 DEF WlrDone, BackendType, FlowType
  <2>4. toplevels' \in [Window -> Toplevel \cup {None}]
    BY <1>1, <1>10, <2>1 DEF WlrDone, BackendType
  <2>5. QED
    BY <1>1, <1>2, <1>10, <2>1, <2>3, <2>4 DEF WlrDone, BackendType, FlowType
<1>11. CASE WlrClosed
  <2>1. Head(wire).window \in Window /\ wire' \in Seq(Message)
    BY <1>1, <1>11, ReadsType, MessageFields DEF WlrClosed
  <2>2. outbox' \in Seq(FocusEvent)
    BY <1>11, <2>1, EventTypes, ShortSequences DEF WlrClosed
  <2>3. QED
    BY <1>1, <1>2, <1>11, <2>1, <2>2 DEF WlrClosed, BackendType, FlowType
<1>12. CASE SendOut
  <2>1. Head(outbox) \in FocusEvent /\ outbox' \in Seq(FocusEvent)
    BY <1>1, <1>12, HeadTailProperties DEF SendOut, FlowType
  <2>2. channel' \in Seq(FocusEvent) /\ Len(channel') <= ChannelLen
    BY <1>1, <1>12, <2>1, AppendProperties, WindowAssumption DEF SendOut, FlowType
  <2>3. QED
    BY <1>1, <1>2, <1>12, <2>1, <2>2 DEF SendOut, BackendType, FlowType, backendVars
<1>13. QED
  BY <1>4, <1>5, <1>6, <1>7, <1>8, <1>9, <1>10, <1>11, <1>12 DEF BackendStep

----------------------------------------------------------------------------
(* The engine                                                              *)

\* A suspension under way is of a tracked application: its entry is not removed
\* while the loop awaits, as nothing else is handled.
ScanTracked == scan # None => entry[scan.app] # Untracked

IInv == TypeOK /\ RegistryConsistent /\ OneActive /\ ScanTracked

LEMMA UntrackedIsNoEntry == Untracked \notin Entry
BY NoneAssumption DEF Untracked

LEMMA TrackedEntries ==
    ASSUME EngineType, NEW a \in AppId
    PROVE  a \in Tracked <=> entry[a] \in Entry
BY UntrackedIsNoEntry DEF EngineType, Tracked

LEMMA AppIdType ==
    ASSUME NEW info \in WindowInfo
    PROVE  AppIdOf(info) \in AppId
BY DEF WindowInfo, AppIdOf, AppId

LEMMA OpenType ==
    ASSUME DesktopType, NEW p \in Pid \cup {None}
    PROVE  Open(p) \subseteq Process
BY DEF DesktopType, Open, Comm, Process

\* Leaving Frozen changes nothing but the processes.
LEMMA ThawedKeeps ==
    ASSUME EngineType, NEW a \in Tracked
    PROVE  /\ Thawed(a) \in Entry
           /\ Thawed(a).window_ids = entry[a].window_ids
           /\ Thawed(a).state = entry[a].state
<1>1. entry[a] \in Entry
  BY TrackedEntries DEF Tracked
<1>2. \A S \in SUBSET Process : \A gone : Without(S, gone) \subseteq S
  BY DEF Without
<1>3. QED
  BY <1>1, <1>2 DEF Thawed, Entry

\* Entries that keep their windows keep the registry consistent.
LEMMA SameWindows ==
    ASSUME RegistryConsistent, window_map' = window_map,
           \A a \in AppId : /\ entry'[a] = Untracked <=> entry[a] = Untracked
                            /\ entry[a] # Untracked =>
                                 entry'[a].window_ids = entry[a].window_ids
    PROVE  RegistryConsistent'
BY DEF RegistryConsistent, Tracked

LEMMA NoNewActive ==
    ASSUME OneActive,
           \A a \in AppId : entry'[a] # Untracked /\ entry'[a].state = "Active" =>
                              entry[a] # Untracked /\ entry[a].state = "Active"
    PROVE  OneActive'
BY DEF OneActive, Tracked

LEMMA JournalWithoutType ==
    ASSUME EngineType, NEW A
    PROVE  JournalWithout(A) \in [AppId -> SUBSET Process]
BY DEF EngineType, JournalWithout

\* What a thaw without a focus event does to the registry.
LEMMA RestoreKeeps ==
    ASSUME EngineType, RegistryConsistent, OneActive, NEW A \in SUBSET Tracked,
           RestoreToBackground(A), UNCHANGED <<config, window_map, scan, sweep>>
    PROVE  EngineType' /\ RegistryConsistent' /\ OneActive'
<1>1. ASSUME NEW a \in A
      PROVE  /\ entry'[a] \in Entry /\ entry'[a].state = "Background"
             /\ entry'[a].window_ids = entry[a].window_ids
  <2>1. entry'[a] = [Thawed(a) EXCEPT !.state = "Background"]
    BY DEF RestoreToBackground, Tracked
  <2>2. QED
    BY <2>1, ThawedKeeps DEF Entry
<1>2. \A a \in AppId \ A : entry'[a] = entry[a]
  BY DEF RestoreToBackground
<1>3. EngineType'
  <2>1. entry' \in [AppId -> Entry \cup {Untracked}]
    BY <1>1, <1>2 DEF RestoreToBackground, EngineType
  <2>2. QED
    BY <2>1, JournalWithoutType DEF RestoreToBackground, EngineType
<1>4. RegistryConsistent'
  BY <1>1, <1>2, SameWindows, UntrackedIsNoEntry DEF Tracked
<1>5. OneActive'
  BY <1>1, <1>2, NoNewActive
<1>6. QED
  BY <1>3, <1>4, <1>5

\* A window that gets the focus: its application is the one that is active.
LEMMA FocusKeeps ==
    ASSUME DesktopType, EngineType, RegistryConsistent, OneActive,
           NEW info \in WindowInfo, HandleFocusChanged(info)
    PROVE  EngineType' /\ RegistryConsistent' /\ OneActive'
<1> DEFINE a == AppIdOf(info)
<1>1. a \in AppId /\ info.window_id \in Window /\ info.pid \in Pid \cup {None}
  BY AppIdType DEF WindowInfo
<1>2. Open(info.pid) \subseteq Process
  BY <1>1, OpenType
<1>3. ASSUME NEW b \in AppId, b # a
      PROVE  /\ entry'[b] = Untracked <=> entry[b] = Untracked
             /\ entry'[b] \in Entry \cup {Untracked}
             /\ entry[b] # Untracked => /\ entry'[b].window_ids = entry[b].window_ids
                                        /\ entry'[b].state # "Active"
  <2>1. entry'[b] = Backgrounded(b)
    BY <1>3 DEF HandleFocusChanged
  <2>2. entry[b] \in Entry \cup {Untracked}
    BY DEF EngineType
  <2>3. QED
    BY <2>1, <2>2, UntrackedIsNoEntry DEF Backgrounded, Entry
<1>4. CASE entry[a] # Untracked
  <2>1. a \in Tracked /\ entry[a] \in Entry
    BY <1>1, <1>4, TrackedEntries DEF Tracked
  <2>2. entry'[a] = ActivateExistingApp(a, info)
    BY <1>1, <1>4 DEF HandleFocusChanged
  <2>3. /\ entry'[a] \in Entry
        /\ entry'[a].window_ids = entry[a].window_ids \cup {info.window_id}
    <3> DEFINE t     == Thawed(a)
               roots == IF \E p \in t.roots : p[1] = info.pid THEN t.roots
                        ELSE t.roots \cup Open(info.pid)
               lived == t.had_live \/ Open(info.pid) # {}
    <3>1. t \in Entry /\ t.window_ids = entry[a].window_ids
      BY <2>1, ThawedKeeps
    <3>2. roots \in SUBSET Process /\ lived \in BOOLEAN
      BY <1>2, <3>1 DEF Entry
    <3>3. entry'[a] = [t EXCEPT !.state = "Active", !.info = info,
                         !.window_ids = @ \cup {info.window_id},
                         !.roots = roots, !.had_live = lived]
      BY <2>2 DEF ActivateExistingApp
    <3> HIDE DEF t, roots, lived
    <3>4. t = [state |-> t.state, window_ids |-> t.window_ids, roots |-> t.roots,
               had_live |-> t.had_live, info |-> t.info, action |-> t.action]
      BY <3>1 DEF Entry
    <3>5. entry'[a] = [state |-> "Active", window_ids |-> t.window_ids \cup {info.window_id},
                       roots |-> roots, had_live |-> lived, info |-> info,
                       action |-> t.action]
      BY <3>3, <3>4
    <3>6. t.window_ids \in SUBSET Window /\ t.action \in Actions
      BY <3>1 DEF Entry
    <3>7. QED
      BY <1>1, <3>1, <3>2, <3>5, <3>6 DEF Entry
  <2>4. window_map' = window_map
    BY <1>4 DEF HandleFocusChanged
  <2>5. EngineType'
    <3>1. entry' \in [AppId -> Entry \cup {Untracked}]
      BY <1>3, <2>3 DEF HandleFocusChanged
    <3>2. QED
      BY <3>1, <2>4, JournalWithoutType DEF HandleFocusChanged, EngineType
  <2>6. RegistryConsistent'
    BY <1>3, <2>1, <2>3, <2>4, UntrackedIsNoEntry DEF RegistryConsistent, Tracked
  <2>7. OneActive'
    BY <1>3 DEF OneActive, Tracked
  <2>8. QED
    BY <2>5, <2>6, <2>7
<1>5. CASE entry[a] = Untracked
  <2>1. entry'[a] = RegisterNewApp(info)
    BY <1>1, <1>5 DEF HandleFocusChanged
  <2>2. config \in Config
    BY DEF EngineType
  <2>3. entry'[a] \in Entry /\ entry'[a].window_ids = {info.window_id}
    BY <1>1, <1>2, <2>1, <2>2, PolicyAction DEF RegisterNewApp, Entry
  <2>4. window_map' = [window_map EXCEPT ![info.window_id] = a]
    BY <1>5 DEF HandleFocusChanged
  <2>5. EngineType'
    <3>1. entry' \in [AppId -> Entry \cup {Untracked}]
      BY <1>3, <2>3 DEF HandleFocusChanged
    <3>2. window_map' \in [Window -> AppId \cup {None}]
      BY <1>1, <2>4 DEF EngineType
    <3>3. QED
      BY <3>1, <3>2, JournalWithoutType DEF HandleFocusChanged, EngineType
  <2>6. RegistryConsistent'
    <3>1. \A w \in Window : window_map[w] # a
      BY <1>1, <1>5, WindowAssumption DEF RegistryConsistent, Tracked, AppId
    <3>2. entry'[a] # Untracked
      BY <2>3, UntrackedIsNoEntry
    <3>3. ASSUME NEW w \in Window, window_map'[w] # None
          PROVE  window_map'[w] \in Tracked' /\ w \in entry'[window_map'[w]].window_ids
      <4>1. CASE w = info.window_id
        BY <1>1, <2>3, <2>4, <3>2, <4>1 DEF Tracked, EngineType
      <4>2. CASE w # info.window_id
        <5>1. window_map'[w] = window_map[w]
          BY <2>4, <4>2 DEF EngineType
        <5>2. window_map[w] \in Tracked /\ w \in entry[window_map[w]].window_ids
          BY <3>3, <5>1 DEF RegistryConsistent
        <5>3. QED
          BY <1>3, <3>1, <5>1, <5>2 DEF Tracked
      <4>3. QED
        BY <4>1, <4>2
    <3>4. ASSUME NEW b \in Tracked' PROVE entry'[b].window_ids # {}
      BY <1>3, <2>3 DEF RegistryConsistent, Tracked
    <3>5. QED
      BY <3>3, <3>4 DEF RegistryConsistent
  <2>7. OneActive'
    BY <1>3 DEF OneActive, Tracked
  <2>8. QED
    BY <2>5, <2>6, <2>7
<1>6. QED
  BY <1>4, <1>5

LEMMA CloseKeeps ==
    ASSUME EngineType, RegistryConsistent, OneActive,
           NEW w \in Window, HandleWindowClosed(w)
    PROVE  EngineType' /\ RegistryConsistent' /\ OneActive'
<1> DEFINE a == window_map[w]
<1>1. CASE a = None \/ entry[a] = Untracked
  <2>1. window_map' = [window_map EXCEPT ![w] = None]
        /\ UNCHANGED <<config, entry, journal, scan, sweep>>
    BY <1>1 DEF HandleWindowClosed
  <2>2. QED
    BY <2>1 DEF EngineType, RegistryConsistent, OneActive, Tracked
<1>2. CASE a # None /\ entry[a] # Untracked /\ entry[a].window_ids = {w}
  <2>1. a \in AppId
    BY <1>2 DEF EngineType
  <2>2. /\ entry' = [entry EXCEPT ![a] = Untracked]
        /\ window_map' = MapWithout({a}) /\ journal' = JournalWithout({a} \cap FrozenApps)
        /\ UNCHANGED <<config, scan, sweep>>
    BY <1>2 DEF HandleWindowClosed
  <2>3. EngineType'
    BY <2>2, JournalWithoutType DEF EngineType, MapWithout
  <2>4. RegistryConsistent'
    BY <2>1, <2>2 DEF RegistryConsistent, Tracked, MapWithout, EngineType
  <2>5. OneActive'
    BY <2>1, <2>2, NoNewActive DEF EngineType
  <2>6. QED
    BY <2>3, <2>4, <2>5
<1>3. CASE a # None /\ entry[a] # Untracked /\ entry[a].window_ids # {w}
  <2>1. a \in AppId /\ entry[a] \in Entry
    BY <1>3 DEF EngineType
  <2>2. /\ entry' = [entry EXCEPT ![a].window_ids = @ \ {w}]
        /\ window_map' = [window_map EXCEPT ![w] = None]
        /\ UNCHANGED <<config, journal, scan, sweep>>
    BY <1>3 DEF HandleWindowClosed
  <2>3. /\ entry'[a] \in Entry /\ entry'[a].window_ids = entry[a].window_ids \ {w}
        /\ entry'[a].state = entry[a].state
        /\ \A b \in AppId \ {a} : entry'[b] = entry[b]
    BY <2>1, <2>2 DEF EngineType, Entry
  <2>4. EngineType'
    BY <2>1, <2>2, <2>3 DEF EngineType
  <2>5. RegistryConsistent'
    <3>1. entry[a].window_ids \ {w} # {}
      BY <1>3, <2>1 DEF RegistryConsistent, Tracked
    <3>2. entry'[a] # Untracked
      BY <2>3, UntrackedIsNoEntry
    <3>3. ASSUME NEW v \in Window, window_map'[v] # None
          PROVE  window_map'[v] \in Tracked' /\ v \in entry'[window_map'[v]].window_ids
      <4>1. v # w /\ window_map'[v] = window_map[v]
        BY <2>2, <3>3 DEF EngineType
      <4>2. window_map[v] \in Tracked /\ v \in entry[window_map[v]].window_ids
        BY <3>3, <4>1 DEF RegistryConsistent
      <4>3. QED
        BY <2>3, <3>2, <4>1, <4>2 DEF Tracked
    <3>4. ASSUME NEW b \in Tracked' PROVE entry'[b].window_ids # {}
      BY <2>3, <3>1, <3>4 DEF RegistryConsistent, Tracked
    <3>5. QED
      BY <3>3, <3>4 DEF RegistryConsistent
  <2>6. OneActive'
    BY <1>3, <2>1, <2>3, NoNewActive
  <2>7. QED
    BY <2>4, <2>5, <2>6
<1>4. QED
  BY <1>1, <1>2, <1>3

LEMMA SuspendKeeps ==
    ASSUME EngineType, RegistryConsistent, OneActive, ScanTracked, SuspendApply
    PROVE  EngineType' /\ RegistryConsistent' /\ OneActive'
<1> DEFINE a    == scan.app
           gone == Dead(scan.procs)
           s    == IF scan.procs \ gone = {} THEN entry[a].state ELSE "Frozen"
<1>1. scan # None /\ a \in AppId /\ scan.procs \in SUBSET Process
  BY DEF SuspendApply, EngineType
<1>2. entry[a] \in Entry /\ entry[a] # Untracked
  BY <1>1 DEF ScanTracked, EngineType
<1>3. s \in {"Active", "Background", "Frozen"} /\ (s = "Active" => entry[a].state = "Active")
  BY <1>2 DEF Entry
<1>4. entry' = [entry EXCEPT ![a] = [entry[a] EXCEPT !.roots = Without(@, gone), !.state = s]]
  BY <1>1 DEF SuspendApply, EngineType
<1>5. /\ entry'[a] \in Entry /\ entry'[a].window_ids = entry[a].window_ids
      /\ entry'[a].state = s /\ \A b \in AppId \ {a} : entry'[b] = entry[b]
  <2> DEFINE f == [entry[a] EXCEPT !.roots = Without(@, gone), !.state = s]
  <2> HIDE DEF gone, s
  <2>1. /\ entry'[a] = f
        /\ \A b \in AppId \ {a} : entry'[b] = entry[b]
    BY <1>1, <1>4 DEF EngineType
  <2>2. f \in Entry /\ f.window_ids = entry[a].window_ids /\ f.state = s
    BY <1>2, <1>3 DEF Entry, Without
  <2> HIDE DEF f
  <2>3. QED
    BY <2>1, <2>2
<1>6. UNCHANGED <<config, window_map, sweep>> /\ scan' = None
  BY DEF SuspendApply
<1>7. journal' \in [AppId -> SUBSET Process]
  BY <1>1 DEF SuspendApply, EngineType
<1>8. EngineType'
  <2>1. entry' \in [AppId -> Entry \cup {Untracked}]
    BY <1>4, <1>5 DEF EngineType
  <2>2. QED
    BY <2>1, <1>6, <1>7 DEF EngineType
<1>9. RegistryConsistent'
  BY <1>1, <1>2, <1>5, <1>6, SameWindows, UntrackedIsNoEntry
<1>10. OneActive'
  BY <1>1, <1>2, <1>3, <1>5, NoNewActive
<1>11. QED
  BY <1>8, <1>9, <1>10

LEMMA SweepKeeps ==
    ASSUME EngineType, RegistryConsistent, OneActive, SweepApply
    PROVE  EngineType' /\ RegistryConsistent' /\ OneActive'
<1>1. ASSUME NEW a \in AppId, entry[a] # Untracked
      PROVE  /\ Reaped(a) \in Entry /\ Reaped(a).window_ids = entry[a].window_ids
             /\ Reaped(a).state = entry[a].state
  <2>1. entry[a] \in Entry
    BY <1>1 DEF EngineType
  <2>2. Reaped(a) = [entry[a] EXCEPT !.roots = Without(@, sweep.roots[a])]
    BY <1>1 DEF Reaped
  <2>3. QED
    BY <2>1, <2>2 DEF Entry, Without
<1>2. PICK D \in SUBSET Tracked :
        /\ entry' = [a \in AppId |-> IF a \in D THEN Untracked ELSE Reaped(a)]
        /\ window_map' = MapWithout(D)
  BY DEF SweepApply
<1>3. \A a \in AppId : entry[a] = Untracked => Reaped(a) = Untracked
  BY DEF Reaped
<1>4. /\ journal' = [a \in AppId |-> Without(journal[a], sweep.journal[a])]
      /\ sweep' = None /\ UNCHANGED <<config, scan>>
  BY DEF SweepApply
<1>5. EngineType'
  <2>1. entry' \in [AppId -> Entry \cup {Untracked}]
    BY <1>1, <1>2, <1>3 DEF EngineType
  <2>2. window_map' \in [Window -> AppId \cup {None}]
    BY <1>2 DEF MapWithout, EngineType
  <2>3. journal' \in [AppId -> SUBSET Process]
    BY <1>4 DEF Without, EngineType
  <2>4. QED
    BY <2>1, <2>2, <2>3, <1>4 DEF EngineType
<1>6. RegistryConsistent'
  <2>1. ASSUME NEW w \in Window, window_map'[w] # None
        PROVE  window_map'[w] \in Tracked' /\ w \in entry'[window_map'[w]].window_ids
    <3>1. window_map'[w] = window_map[w] /\ window_map[w] \notin D
      BY <1>2, <2>1 DEF MapWithout
    <3>2. window_map[w] \in Tracked /\ w \in entry[window_map[w]].window_ids
      BY <2>1, <3>1 DEF RegistryConsistent
    <3>3. QED
      BY <1>1, <1>2, <3>1, <3>2, UntrackedIsNoEntry DEF Tracked
  <2>2. ASSUME NEW a \in Tracked' PROVE entry'[a].window_ids # {}
    BY <1>1, <1>2, <1>3 DEF RegistryConsistent, Tracked
  <2>3. QED
    BY <2>1, <2>2 DEF RegistryConsistent
<1>7. OneActive'
  BY <1>1, <1>2, <1>3, NoNewActive
<1>8. QED
  BY <1>5, <1>6, <1>7

LEMMA EngineKeeps ==
    ASSUME IInv, EngineStep
    PROVE  IInv'
<1>1. /\ DesktopType /\ BackendType /\ FlowType /\ EngineType
      /\ RegistryConsistent /\ OneActive /\ ScanTracked
  BY TypeParts DEF IInv
<1>2. DesktopType' /\ BackendType' /\ wire' = wire /\ outbox' = outbox
  BY <1>1 DEF EngineStep, DesktopType, BackendType, desktopVars, backendVars
<1>3. SUFFICES /\ channel' \in Seq(FocusEvent) /\ Len(channel') <= ChannelLen
               /\ EngineType' /\ RegistryConsistent' /\ OneActive' /\ scan' = None
  BY <1>1, <1>2 DEF IInv, ScanTracked, TypeOK, DesktopType, BackendType, FlowType, EngineType
<1>4. CASE EngineTakes
  <2> DEFINE e == Head(channel)
  <2>1. /\ e \in FocusEvent /\ channel' \in Seq(FocusEvent)
        /\ Len(channel') <= ChannelLen
    BY <1>1, <1>4, HeadTailProperties, WindowAssumption DEF EngineTakes, FlowType
  <2>2. ASSUME NEW A \in SUBSET Tracked, PreThaw(A)
        PROVE  EngineType' /\ RegistryConsistent' /\ OneActive' /\ scan' = scan
    BY <1>1, <2>2, RestoreKeeps DEF PreThaw
  <2>3. FrozenApps \subseteq Tracked
    BY DEF FrozenApps
  <2>4. scan = None
    BY <1>4 DEF EngineTakes
  <2>5. CASE e.type = "FocusChanged" /\ HandleFocusChanged(e.info)
    <3>1. e.info \in WindowInfo
      BY <2>1, <2>5, EventFields
    <3>2. EngineType' /\ RegistryConsistent' /\ OneActive'
      BY <1>1, <2>5, <3>1, FocusKeeps
    <3>3. scan' = scan
      BY <2>5 DEF HandleFocusChanged
    <3>4. QED
      BY <2>1, <2>4, <3>2, <3>3
  <2>6. CASE e.type = "WindowClosed" /\ HandleWindowClosed(e.window)
    <3>1. e.window \in Window
      BY <2>1, <2>6, EventFields
    <3>2. EngineType' /\ RegistryConsistent' /\ OneActive'
      BY <1>1, <2>6, <3>1, CloseKeeps
    <3>3. scan' = scan
      BY <2>6 DEF HandleWindowClosed
    <3>4. QED
      BY <2>1, <2>4, <3>2, <3>3
  <2>7. ASSUME NEW a \in FrozenApps, PreThaw({a})
        PROVE  EngineType' /\ RegistryConsistent' /\ OneActive' /\ scan' = scan
    BY <2>2, <2>3, <2>7
  <2>8. CASE PreThaw({a \in FrozenApps : entry[a].info.desktop = e.desktop})
    BY <2>1, <2>2, <2>3, <2>4, <2>8
  <2>9. QED
    BY <1>4, <2>1, <2>2, <2>4, <2>5, <2>6, <2>7, <2>8 DEF EngineTakes
<1>5. CASE SuspendApply
  BY <1>1, <1>5, SuspendKeeps DEF SuspendApply, FlowType
<1>6. CASE SweepScan
  <2>1. sweep' \in [roots : [AppId -> SUBSET Process], journal : [AppId -> SUBSET Process]]
    <3>1. \A S \in SUBSET Process : Dead(S) \in SUBSET Process
      BY DEF Dead
    <3>2. \A a \in Tracked : entry[a].roots \in SUBSET Process
      BY <1>1, TrackedEntries DEF Tracked, Entry
    <3>3. QED
      BY <1>1, <1>6, <3>1, <3>2 DEF SweepScan, EngineType
  <2>2. scan' = None /\ UNCHANGED <<config, entry, window_map, journal, channel>>
    BY <1>6 DEF SweepScan
  <2>3. QED
    BY <1>1, <2>1, <2>2 DEF EngineType, FlowType, RegistryConsistent, OneActive, Tracked
<1>7. CASE SweepApply
  BY <1>1, <1>7, SweepKeeps DEF SweepApply, FlowType
<1>8. QED
  BY <1>4, <1>5, <1>6, <1>7 DEF EngineStep

\* rematch_tracked_apps changes policies, and thaws what may not stay frozen.
LEMMA ReloadKeeps ==
    ASSUME IInv, NEW c \in Config, Reload(c)
    PROVE  IInv'
<1> DEFINE now(a) == PolicyFor(c, entry[a].info, Comm(entry[a].info.pid)).action
           freed  == {a \in FrozenApps : now(a) # "freeze"}
<1>1. /\ DesktopType /\ BackendType /\ FlowType /\ EngineType
      /\ RegistryConsistent /\ OneActive /\ ScanTracked
  BY TypeParts DEF IInv
<1>2. DesktopType' /\ BackendType' /\ FlowType' /\ scan' = None
  <2>1. /\ UNCHANGED <<exe, exited, open, closed, focus, desktop, wire, backend,
                       backendVars, outbox, channel, scan>>
        /\ scan = None /\ moves < MaxMoves /\ moves' = moves + 1
    BY DEF Reload, Move
  <2>2. moves' \in 0..MaxMoves
    BY <1>1, <2>1, WindowAssumption DEF DesktopType
  <2>3. DesktopType'
    BY <1>1, <2>1, <2>2 DEF DesktopType
  <2>4. QED
    BY <1>1, <2>1, <2>3 DEF BackendType, FlowType, backendVars
<1>3. freed \subseteq Tracked
  BY DEF FrozenApps
<1>4. entry' = [a \in AppId |->
                  IF entry[a] = Untracked THEN Untracked
                  ELSE IF a \in freed
                       THEN [Thawed(a) EXCEPT !.state = "Background", !.action = now(a)]
                       ELSE [entry[a] EXCEPT !.action = now(a)]]
  BY DEF Reload
<1>5. ASSUME NEW a \in AppId, entry[a] # Untracked
      PROVE  /\ entry'[a] \in Entry /\ entry'[a].window_ids = entry[a].window_ids
             /\ entry'[a].state \in {entry[a].state, "Background"}
  <2>1. entry[a] \in Entry /\ a \in Tracked
    BY <1>1, <1>5 DEF EngineType, Tracked
  <2>2. now(a) \in Actions
    BY PolicyAction
  <2>3. Thawed(a) \in Entry /\ Thawed(a).window_ids = entry[a].window_ids
    BY <1>1, <2>1, ThawedKeeps
  <2> HIDE DEF now, freed
  <2>4. CASE a \in freed
    <3>1. entry'[a] = [Thawed(a) EXCEPT !.state = "Background", !.action = now(a)]
      BY <1>4, <1>5, <2>4
    <3>2. QED
      BY <2>2, <2>3, <3>1 DEF Entry
  <2>5. CASE a \notin freed
    <3>1. entry'[a] = [entry[a] EXCEPT !.action = now(a)]
      BY <1>4, <1>5, <2>5
    <3>2. QED
      BY <2>1, <2>2, <3>1 DEF Entry
  <2>6. QED
    BY <2>4, <2>5
<1>6. \A a \in AppId : entry[a] = Untracked => entry'[a] = Untracked
  BY <1>4
<1>7. EngineType'
  <2>1. entry' \in [AppId -> Entry \cup {Untracked}]
    <3> HIDE DEF now, freed
    <3>1. DOMAIN entry' = AppId /\ entry' = [a \in AppId |-> entry'[a]]
      BY <1>4
    <3>2. QED
      BY <1>5, <1>6, <3>1
  <2>2. config' = c /\ UNCHANGED <<window_map, scan, sweep>>
    BY DEF Reload
  <2>3. journal' \in [AppId -> SUBSET Process]
    BY <1>1, JournalWithoutType DEF Reload
  <2>4. QED
    BY <1>1, <2>1, <2>2, <2>3 DEF EngineType
<1>8. RegistryConsistent'
  BY <1>1, <1>5, <1>6, SameWindows, UntrackedIsNoEntry DEF Reload
<1>9. OneActive'
  BY <1>1, <1>5, <1>6, NoNewActive
<1>10. QED
  BY <1>2, <1>7, <1>8, <1>9
  DEF IInv, ScanTracked, TypeOK, DesktopType, BackendType, FlowType, EngineType

LEMMA ScanKeeps ==
    ASSUME IInv, NEW a \in AppId, SuspendScan(a)
    PROVE  IInv'
<1>1. /\ DesktopType /\ BackendType /\ FlowType /\ EngineType
      /\ RegistryConsistent /\ OneActive
  BY TypeParts DEF IInv
<1>2. entry[a] \in Entry /\ entry[a] # Untracked
  BY <1>1, TrackedEntries DEF SuspendScan, Tracked
<1>3. scan' \in [app : AppId, procs : SUBSET Process] /\ scan'.app = a
  BY <1>2 DEF SuspendScan, Entry
<1>4. DesktopType' /\ BackendType' /\ FlowType'
  BY <1>1 DEF SuspendScan, DesktopType, BackendType, FlowType, desktopVars, backendVars
<1>5. UNCHANGED <<config, entry, window_map, journal, sweep>>
  BY DEF SuspendScan
<1>6. EngineType' /\ RegistryConsistent' /\ OneActive'
  BY <1>1, <1>3, <1>5 DEF EngineType, RegistryConsistent, OneActive, Tracked
<1>7. ScanTracked'
  BY <1>2, <1>3, <1>5 DEF ScanTracked
<1>8. QED
  BY <1>4, <1>6, <1>7
  DEF IInv, TypeOK, DesktopType, BackendType, FlowType, EngineType

----------------------------------------------------------------------------
(* The specification                                                       *)

LEMMA InitEstablishes ==
    ASSUME Init
    PROVE  IInv
<1>1. DesktopType
  <2>1. ASSUME NEW p \in Pid, \E w \in Early : PidOf[w] = p
        PROVE  ExeOf[CHOOSE w \in Early : PidOf[w] = p] \in Name
    BY <2>1, WindowAssumption
  <2>2. exe \in [Pid -> Name \cup {None}]
    BY <2>1 DEF Init
  <2>3. focus \in Window \cup {None} /\ open \subseteq Window
    BY WindowAssumption DEF Init
  <2>4. desktop \in Desktop
    BY WindowAssumption DEF Init
  <2>5. QED
    BY <2>2, <2>3, <2>4, WindowAssumption DEF Init, DesktopType
<1>2. BackendType
  <2>1. exe_cache \in [Pid -> Name \cup {None, Unasked}]
    BY <1>1 DEF Init, DesktopType
  <2>2. last \in Window \cup {None}
    BY <1>1 DEF Init, DesktopType
  <2>3. QED
    BY <2>1, <2>2, WindowAssumption DEF Init, BackendType
<1>3. FlowType
  <2>1. outbox \in Seq(FocusEvent)
    <3>1. focus # None => focus \in Window
      BY <1>1 DEF DesktopType
    <3>2. focus # None => /\ <<FocusChanged(X11Info(focus))>> \in Seq(FocusEvent)
                          /\ <<FocusChanged(GnomeInfo(focus))>> \in Seq(FocusEvent)
      BY <1>1, <1>2, <3>1, InfoTypes, EventTypes, ShortSequences
    <3>3. <<>> \in Seq(FocusEvent)
      BY EmptySeq
    <3>4. \/ outbox = <<>>
          \/ focus # None /\ outbox = <<FocusChanged(X11Info(focus))>>
          \/ focus # None /\ outbox = <<FocusChanged(GnomeInfo(focus))>>
      BY WindowAssumption DEF Init
    <3>5. QED
      BY <3>2, <3>3, <3>4
  <2>2. wire \in Seq(Message)
    <3> DEFINE told == IF backend = "wlr" THEN Early ELSE {}
    <3>1. PICK first \in Orders(told) :
            wire = [i \in DOMAIN first |-> Update(first[i], ClassOf[first[i]], first[i] = focus)]
      BY DEF Init
    <3>2. Cardinality(told) \in Nat
      BY WindowAssumption, FS_Subset, FS_CardinalityType
    <3>3. first \in [1..Cardinality(told) -> Window]
      BY <3>2, WindowAssumption DEF Orders
    <3>4. \A w \in Window : Update(w, ClassOf[w], w = focus) \in Message
      BY WindowAssumption, UpdateType
    <3>5. wire \in [1..Cardinality(told) -> Message]
      BY <3>1, <3>3, <3>4
    <3>6. QED
      BY <3>2, <3>5, SeqDef
  <2>3. channel \in Seq(FocusEvent) /\ Len(channel) <= ChannelLen
    BY EmptySeq, WindowAssumption DEF Init
  <2>4. QED
    BY <2>1, <2>2, <2>3 DEF FlowType
<1>4. EngineType
  BY WindowAssumption DEF Init, EngineType
<1>5. RegistryConsistent /\ OneActive /\ ScanTracked
  BY DEF Init, RegistryConsistent, OneActive, ScanTracked, Tracked
<1>6. QED
  BY <1>1, <1>2, <1>3, <1>4, <1>5, TypeParts DEF IInv

LEMMA NextKeeps ==
    ASSUME IInv, [Next]_vars
    PROVE  IInv'
<1>1. CASE DesktopStep
  <2>1. TypeOK'
    BY <1>1, DesktopKeepsType DEF IInv
  <2>2. UNCHANGED <<entry, window_map, scan>>
    BY <1>1 DEF DesktopStep, engineVars
  <2>3. QED
    BY <2>1, <2>2 DEF IInv, RegistryConsistent, OneActive, ScanTracked, Tracked
<1>2. CASE BackendStep
  <2>1. TypeOK'
    BY <1>2, BackendKeepsType DEF IInv
  <2>2. UNCHANGED <<entry, window_map, scan>>
    BY <1>2 DEF BackendStep, engineVars
  <2>3. QED
    BY <2>1, <2>2 DEF IInv, RegistryConsistent, OneActive, ScanTracked, Tracked
<1>3. CASE EngineStep
  BY <1>3, EngineKeeps
<1>4. ASSUME NEW a \in AppId, SuspendScan(a) PROVE IInv'
  BY <1>4, ScanKeeps
<1>5. ASSUME NEW c \in Config, Reload(c) PROVE IInv'
  BY <1>5, ReloadKeeps
<1>6. CASE UNCHANGED vars
  BY <1>6 DEF IInv, TypeOK, RegistryConsistent, OneActive, ScanTracked, Tracked,
     vars, desktopVars, backendVars, engineVars
<1>7. QED
  BY <1>1, <1>2, <1>3, <1>4, <1>5, <1>6 DEF Next

\* The conjunction of the three invariants with ScanTracked holds in every reachable
\* state, whatever the desktop, its back end and the engine's handlers do.
THEOREM Invariance == Spec => []IInv
<1>1. Init => IInv
  BY InitEstablishes
<1>2. IInv /\ [Next]_vars => IInv'
  BY NextKeeps
<1>3. QED
  BY <1>1, <1>2, PTL DEF Spec

\* Every variable keeps its type; in particular the focus channel stays within its
\* capacity, whatever back end runs.
THEOREM TypeCorrect == Spec => []TypeOK
<1>1. IInv => TypeOK
  BY DEF IInv
<1>2. QED
  BY <1>1, Invariance, PTL

\* AppRegistry: the window map and the entries agree, through focus events,
\* closes, sweeps and reloads in any order.
THEOREM RegistryStaysConsistent == Spec => []RegistryConsistent
<1>1. IInv => RegistryConsistent
  BY DEF IInv
<1>2. QED
  BY <1>1, Invariance, PTL

\* The desktop alone never makes two applications active.
THEOREM AtMostOneActive == Spec => []OneActive
<1>1. IInv => OneActive
  BY DEF IInv
<1>2. QED
  BY <1>1, Invariance, PTL

----------------------------------------------------------------------------
(* What the engine is told of a window                                     *)

\* A message of wlroots names the application of its window or leaves it open.
TrueMessages ==
    {m \in Message : m.type = "update" => m.app_id \in {None, ClassOf[m.window]}}

\* What a back end says of a window: under X11 its PID and executable or nothing,
\* under wlroots, of a window with a process, the application as its executable.
TrueInfos(b) ==
    {i \in WindowInfo :
        /\ b = "x11" => /\ i.pid \in {None, PidOf[i.window_id]}
                        /\ i.executable \in {None, ExeOf[i.window_id]}
        /\ b = "wlr" /\ i.pid # None => i.executable = ClassOf[i.window_id]}

TrueEvents(b) == {e \in FocusEvent : e.type = "FocusChanged" => e.info \in TrueInfos(b)}

\* While a window is open its PID is not another program's.
OwnProcess == \A w \in open : PidOf[w] # None => exe[PidOf[w]] \in {None, ExeOf[w]}

ToldTrue == /\ wire \in Seq(TrueMessages)
            /\ outbox \in Seq(TrueEvents(backend)) /\ channel \in Seq(TrueEvents(backend))
            /\ reading # None => backend = "x11"

KeptTrue == \A a \in Tracked : entry[a].info \in TrueInfos(backend)

TInv == IInv /\ OwnProcess /\ ToldTrue /\ KeptTrue

LEMMA TellTrue ==
    ASSUME ToldTrue, NEW x \in Seq(TrueMessages), NEW y \in Seq(TrueMessages), Tell(x, y)
    PROVE  wire' \in Seq(TrueMessages)
BY DEF ToldTrue, Tell

LEMMA UpdateTrue ==
    ASSUME NEW w \in Window, NEW app \in {None, ClassOf[w]}, NEW act \in BOOLEAN \cup {None}
    PROVE  Update(w, app, act) \in TrueMessages
BY WindowAssumption DEF TrueMessages, Update, Message

LEMMA OthersTrue ==
    /\ [type |-> "active"] \in TrueMessages /\ [type |-> "desktop"] \in TrueMessages
    /\ \A w \in Window : /\ [type |-> "destroyed", window |-> w] \in TrueMessages
                         /\ [type |-> "closed", window |-> w] \in TrueMessages
                         /\ [type |-> "activate", window |-> w] \in TrueMessages
BY DEF TrueMessages, Message

LEMMA DesktopKeepsTrue ==
    ASSUME TInv, DesktopStep
    PROVE  OwnProcess' /\ ToldTrue'
<1>1. DesktopType /\ BackendType
  BY TypeParts DEF TInv, IInv
<1>2. UNCHANGED <<backend, reading, outbox, channel>>
  BY DEF DesktopStep, backendVars
<1>3. SUFFICES OwnProcess' /\ wire' \in Seq(TrueMessages)
  BY <1>2 DEF TInv, ToldTrue
<1> USE DEF TInv
<1>4. ASSUME NEW w \in Window, OpenWindow(w)
      PROVE  OwnProcess' /\ wire' \in Seq(TrueMessages)
  <2>1. Update(w, ClassOf[w], FALSE) \in TrueMessages
    BY UpdateTrue
  <2>2. wire' \in Seq(TrueMessages)
    BY <1>4, <2>1, ShortSequences, TellTrue DEF OpenWindow
  <2>3. /\ open' = open \cup {w}
        /\ exe' = [q \in Pid |-> IF q = PidOf[w] THEN ExeOf[w] ELSE exe[q]]
        /\ PidOf[w] # None => \A v \in open : PidOf[v] = PidOf[w] => ExeOf[v] = ExeOf[w]
    BY <1>4 DEF OpenWindow
  <2>4. \A v \in Window : PidOf[v] \in Pid \cup {None}
    BY WindowAssumption
  <2>5. QED
    BY <1>1, <2>2, <2>3, <2>4 DEF OwnProcess, DesktopType
<1>5. ASSUME NEW w \in Window, CloseWindow(w)
      PROVE  OwnProcess' /\ wire' \in Seq(TrueMessages)
  <2> DEFINE ended == IF w \in watched THEN <<[type |-> "destroyed", window |-> w]>> ELSE <<>>
             left  == IF focus = w THEN <<[type |-> "active"]>> ELSE <<>>
  <2>1. ended \in Seq(TrueMessages) /\ left \in Seq(TrueMessages)
    BY OthersTrue, ShortSequences
  <2>2. /\ ended \o left \in Seq(TrueMessages)
        /\ <<[type |-> "closed", window |-> w]>> \in Seq(TrueMessages)
    BY <2>1, OthersTrue, ShortSequences, ConcatProperties
  <2>3. Tell(ended \o left, <<[type |-> "closed", window |-> w]>>)
    BY <1>5 DEF CloseWindow
  <2>4. wire' \in Seq(TrueMessages)
    BY <2>2, <2>3, TellTrue
  <2>5. QED
    BY <1>5, <2>4 DEF CloseWindow, OwnProcess
<1>6. ASSUME NEW w \in Window, Retitle(w)
      PROVE  OwnProcess' /\ wire' \in Seq(TrueMessages)
  <2>1. Update(w, None, None) \in TrueMessages
    BY UpdateTrue
  <2>2. wire' \in Seq(TrueMessages)
    BY <1>6, <2>1, ShortSequences, TellTrue DEF Retitle
  <2>3. QED
    BY <1>6, <2>2 DEF Retitle, OwnProcess
<1>7. ASSUME NEW w \in Window, RequestActivation(w)
      PROVE  OwnProcess' /\ wire' \in Seq(TrueMessages)
  <2>1. wire' \in Seq(TrueMessages)
    BY <1>7, OthersTrue, ShortSequences, TellTrue DEF RequestActivation
  <2>2. QED
    BY <1>7, <2>1 DEF RequestActivation, OwnProcess
<1>8. ASSUME NEW w \in Window \cup {None}, SwitchFocus(w)
      PROVE  OwnProcess' /\ wire' \in Seq(TrueMessages)
  <2>1. \A v \in Window, act \in BOOLEAN : Update(v, None, act) \in TrueMessages
    BY UpdateTrue
  <2> DEFINE left   == IF focus = None THEN <<>> ELSE <<Update(focus, None, FALSE)>>
             gained == IF w = None THEN <<>> ELSE <<Update(w, None, TRUE)>>
  <2>2. left \in Seq(TrueMessages)
    <3>1. CASE focus = None
      BY <3>1, OthersTrue, ShortSequences
    <3>2. CASE focus \in Window
      BY <2>1, <3>2, ShortSequences, WindowAssumption
    <3>3. QED
      BY <1>1, <3>1, <3>2 DEF DesktopType
  <2>3. gained \in Seq(TrueMessages)
    BY <2>1, OthersTrue, ShortSequences
  <2>4. left \o gained \in Seq(TrueMessages) /\ <<[type |-> "active"]>> \in Seq(TrueMessages)
    BY <2>2, <2>3, OthersTrue, ShortSequences, ConcatProperties
  <2>5. Tell(<<[type |-> "active"]>>, left \o gained)
    BY <1>8 DEF SwitchFocus
  <2>6. wire' \in Seq(TrueMessages)
    BY <2>4, <2>5, TellTrue
  <2>7. QED
    BY <1>8, <2>6 DEF SwitchFocus, OwnProcess
<1>9. ASSUME NEW p \in Pid, ExitProcess(p)
      PROVE  OwnProcess' /\ wire' \in Seq(TrueMessages)
  BY <1>1, <1>9 DEF ExitProcess, OwnProcess, ToldTrue, DesktopType
<1>10. ASSUME NEW d \in Desktop, SwitchDesktop(d)
       PROVE  OwnProcess' /\ wire' \in Seq(TrueMessages)
  <2>1. wire' \in Seq(TrueMessages)
    BY <1>10, OthersTrue, ShortSequences, TellTrue DEF SwitchDesktop
  <2>2. QED
    BY <1>10, <2>1 DEF SwitchDesktop, OwnProcess
<1>11. QED
  BY <1>4, <1>5, <1>6, <1>7, <1>8, <1>9, <1>10 DEF DesktopStep

LEMMA ReadsTrue ==
    ASSUME ToldTrue, NEW type, Reads(type)
    PROVE  /\ Head(wire) \in TrueMessages /\ Head(wire).type = type
           /\ wire' \in Seq(TrueMessages)
BY HeadTailProperties DEF ToldTrue, Reads

\* Every way in which a back end describes a window.
LEMMA InfosTrue ==
    ASSUME DesktopType, BackendType, OwnProcess, NEW w \in Window
    PROVE  /\ backend = "x11" => X11Info(w) \in TrueInfos(backend)
           /\ backend = "gnome" => GnomeInfo(w) \in TrueInfos(backend)
           /\ \A p \in Pid \cup {None}, app \in {None, ClassOf[w]} :
                backend = "wlr" /\ (p # None => app # None) =>
                    WlrInfo(w, app, p) \in TrueInfos(backend)
<1>1. X11Info(w) \in WindowInfo /\ GnomeInfo(w) \in WindowInfo
  BY InfoTypes
<1>2. ClassOf[w] \in Name /\ PidOf[w] \in Pid \cup {None}
  BY WindowAssumption
<1>3. /\ X11Info(w).window_id = w /\ X11Info(w).pid \in {None, PidOf[w]}
      /\ X11Info(w).executable \in {None, ExeOf[w]}
  BY <1>2 DEF X11Info, NoWindow, Comm, OwnProcess
<1>4. ASSUME NEW p \in Pid \cup {None}, NEW app \in {None, ClassOf[w]},
             p # None => app # None
      PROVE  /\ WlrInfo(w, app, p) \in WindowInfo
             /\ WlrInfo(w, app, p).window_id = w
             /\ p # None => WlrInfo(w, app, p).executable = ClassOf[w]
             /\ WlrInfo(w, app, p).pid = p
  <2>1. WlrInfo(w, app, p) \in WindowInfo
    BY <1>2, <1>4, InfoTypes
  <2>2. QED
    BY <1>4, <2>1 DEF WlrInfo
<1>5. backend = "x11" => X11Info(w) \in TrueInfos(backend)
  BY <1>1, <1>3 DEF TrueInfos
<1>6. backend = "gnome" => GnomeInfo(w) \in TrueInfos(backend)
  BY <1>1 DEF TrueInfos
<1>7. ASSUME NEW p \in Pid \cup {None}, NEW app \in {None, ClassOf[w]},
             p # None => app # None, backend = "wlr"
      PROVE  WlrInfo(w, app, p) \in TrueInfos(backend)
  BY <1>4, <1>7 DEF TrueInfos
<1>8. QED
  BY <1>5, <1>6, <1>7

LEMMA EventsTrue ==
    /\ \A b, e : e \in FocusEvent /\ e.type # "FocusChanged" => e \in TrueEvents(b)
    /\ \A b : \A i \in TrueInfos(b) : FocusChanged(i) \in TrueEvents(b)
    /\ \A b : \A w \in Window : WindowClosed(w) \in TrueEvents(b)
<1>1. \A b : \A i \in TrueInfos(b) :
        FocusChanged(i) \in FocusEvent /\ FocusChanged(i).info = i
  BY EventTypes DEF TrueInfos, FocusChanged
<1>2. \A w \in Window : WindowClosed(w) \in FocusEvent /\ WindowClosed(w).type = "WindowClosed"
  BY EventTypes DEF WindowClosed
<1>3. QED
  BY <1>1, <1>2 DEF TrueEvents

LEMMA BackendKeepsTrue ==
    ASSUME TInv, BackendStep
    PROVE  OwnProcess' /\ ToldTrue'
<1>1. DesktopType /\ BackendType /\ FlowType /\ OwnProcess /\ ToldTrue
  BY TypeParts DEF TInv, IInv
<1>2. UNCHANGED <<exe, open, focus, backend>>
  BY DEF BackendStep, desktopVars
<1>3. OwnProcess'
  BY <1>1, <1>2 DEF OwnProcess
<1>4. SUFFICES ToldTrue'
  BY <1>3
<1>5. SUFFICES /\ wire' \in Seq(TrueMessages)
               /\ outbox' \in Seq(TrueEvents(backend)) /\ channel' \in Seq(TrueEvents(backend))
               /\ reading' # None => backend = "x11"
  BY <1>2 DEF ToldTrue
<1>6. CASE X11Active
  BY <1>1, <1>6, ReadsTrue DEF X11Active, ToldTrue
<1>7. CASE X11Inform
  <2>1. reading \in Window
    BY <1>1, <1>7 DEF X11Inform, BackendType
  <2>2. X11Info(reading) \in TrueInfos(backend)
    <3>1. backend = "x11"
      BY <1>1, <1>7 DEF X11Inform, ToldTrue
    <3>2. QED
      BY <1>1, <2>1, <3>1, InfosTrue
  <2>3. outbox' \in Seq(TrueEvents(backend))
    BY <1>7, <2>2, EventsTrue, ShortSequences DEF X11Inform
  <2>4. QED
    BY <1>1, <1>7, <2>3 DEF X11Inform, ToldTrue, backendVars
<1>8. CASE X11Subscribe
  BY <1>1, <1>8 DEF X11Subscribe, ToldTrue
<1>9. CASE X11Destroyed
  <2>1. Head(wire).window \in Window /\ wire' \in Seq(TrueMessages)
    BY <1>1, <1>9, ReadsType, ReadsTrue, MessageFields DEF X11Destroyed
  <2>2. outbox' \in Seq(TrueEvents(backend))
    BY <1>9, <2>1, EventsTrue, ShortSequences DEF X11Destroyed
  <2>3. QED
    BY <1>1, <1>9, <2>1, <2>2 DEF X11Destroyed, ToldTrue, backendVars
<1>10. CASE X11Hint
  <2>1. wire' \in Seq(TrueMessages)
    BY <1>1, <1>10, ReadsTrue DEF X11Hint
  <2>2. ASSUME NEW hint \in TrueEvents(backend), TrySend(hint)
        PROVE  channel' \in Seq(TrueEvents(backend))
    BY <1>1, <2>2, AppendProperties DEF TrySend, ToldTrue
  <2>3. ASSUME Reads("activate")
        PROVE  [type |-> "ActivationRequested", window |-> Head(wire).window]
                   \in TrueEvents(backend)
    <3>1. [type |-> "ActivationRequested", window |-> Head(wire).window] \in FocusEvent
      BY <1>1, <2>3, ReadsType, MessageFields DEF FocusEvent
    <3>2. QED
      BY <3>1, EventsTrue
  <2>4. [type |-> "WorkspaceChanged", desktop |-> desktop] \in TrueEvents(backend)
    <3>1. [type |-> "WorkspaceChanged", desktop |-> desktop] \in FocusEvent
      BY <1>1 DEF FocusEvent, DesktopType
    <3>2. QED
      BY <3>1, EventsTrue
  <2>5. channel' \in Seq(TrueEvents(backend))
    BY <1>10, <2>2, <2>3, <2>4 DEF X11Hint
  <2>6. QED
    BY <1>1, <1>10, <2>1, <2>5 DEF X11Hint, ToldTrue, backendVars
<1>11. CASE GnomePoll
  <2> DEFINE news == focus \notin {None, last}
             first == IF news THEN <<FocusChanged(GnomeInfo(focus))>> ELSE <<>>
  <2>1. PICK gone \in Orders(known \ open) :
          outbox' = first \o [i \in DOMAIN gone |-> WindowClosed(gone[i])]
    BY <1>11 DEF GnomePoll
  <2>2. first \in Seq(TrueEvents(backend))
    <3>1. CASE news
      <4>1. focus \in Window /\ backend = "gnome"
        BY <1>1, <1>11, <3>1 DEF DesktopType, GnomePoll
      <4>2. FocusChanged(GnomeInfo(focus)) \in TrueEvents(backend)
        BY <1>1, <4>1, InfosTrue, EventsTrue
      <4>3. QED
        BY <3>1, <4>2, ShortSequences
    <3>2. CASE ~news
      BY <3>2, EmptySeq
    <3>3. QED
      BY <3>1, <3>2
  <2>3. Cardinality(known \ open) \in Nat
    BY <1>1, WindowAssumption, FS_Subset, FS_CardinalityType DEF BackendType
  <2>4. gone \in [1..Cardinality(known \ open) -> Window]
    BY <1>1, <2>3 DEF Orders, BackendType
  <2>5. [i \in DOMAIN gone |-> WindowClosed(gone[i])]
           \in [1..Cardinality(known \ open) -> TrueEvents(backend)]
    BY <2>4, EventsTrue
  <2>6. [i \in DOMAIN gone |-> WindowClosed(gone[i])] \in Seq(TrueEvents(backend))
    BY <2>3, <2>5, SeqDef
  <2>7. outbox' \in Seq(TrueEvents(backend))
    BY <2>1, <2>2, <2>6, ConcatProperties
  <2>8. QED
    BY <1>1, <1>11, <2>7 DEF GnomePoll, ToldTrue
<1>12. CASE WlrDone
  <2> DEFINE w   == Head(wire).window
             app == Head(wire).app_id
  <2>1. /\ w \in Window /\ wire' \in Seq(TrueMessages) /\ app \in {None, ClassOf[w]}
        /\ Pending(Head(wire)).app_id = app /\ backend = "wlr"
    BY <1>1, <1>12, ReadsType, ReadsTrue, MessageFields DEF WlrDone, Pending, TrueMessages
  <2>2. app \in Name \cup {None}
    BY <2>1, WindowAssumption
  <2>3. ASSUME NEW p \in FindPid(app)
        PROVE  p \in Pid \cup {None} /\ (p # None => app # None)
    BY <1>1, <2>2 DEF FindPid, BackendType
  <2>4. \A p \in FindPid(app) : WlrInfo(w, app, p) \in TrueInfos(backend)
    BY <1>1, <2>1, <2>3, InfosTrue
  <2> HIDE DEF w, app
  <2>5. outbox' \in Seq(TrueEvents(backend))
    <3>1. \/ \E p \in FindPid(app) : outbox' = <<FocusChanged(WlrInfo(w, app, p))>>
          \/ outbox' = outbox
      BY <1>12, <2>1 DEF WlrDone, w
    <3>2. QED
      BY <1>1, <2>4, <3>1, EventsTrue, ShortSequences DEF ToldTrue
  <2>6. QED
    BY <1>1, <1>12, <2>1, <2>5 DEF WlrDone, ToldTrue
<1>13. CASE WlrClosed
  <2>1. Head(wire).window \in Window /\ wire' \in Seq(TrueMessages)
    BY <1>1, <1>13, ReadsType, ReadsTrue, MessageFields DEF WlrClosed
  <2>2. outbox' \in Seq(TrueEvents(backend))
    BY <1>13, <2>1, EventsTrue, ShortSequences DEF WlrClosed
  <2>3. QED
    BY <1>1, <1>13, <2>1, <2>2 DEF WlrClosed, ToldTrue
<1>14. CASE SendOut
  <2>1. Head(outbox) \in TrueEvents(backend) /\ outbox' \in Seq(TrueEvents(backend))
    BY <1>1, <1>14, HeadTailProperties DEF SendOut, ToldTrue
  <2>2. channel' \in Seq(TrueEvents(backend))
    BY <1>1, <1>14, <2>1, AppendProperties DEF SendOut, ToldTrue
  <2>3. QED
    BY <1>1, <1>14, <2>1, <2>2 DEF SendOut, ToldTrue, backendVars
<1>15. QED
  BY <1>6, <1>7, <1>8, <1>9, <1>10, <1>11, <1>12, <1>13, <1>14 DEF BackendStep

----------------------------------------------------------------------------
(* When a policy is resolved                                               *)

\* No application is registered and none is seen by another window.
SameApps ==
    \A a \in AppId : entry'[a] # Untracked =>
                       entry[a] # Untracked /\ entry'[a].info = entry[a].info

LEMMA ThawedInfo ==
    ASSUME EngineType, NEW a \in Tracked
    PROVE  Thawed(a).info = entry[a].info
<1>1. entry[a] \in Entry
  BY TrackedEntries DEF Tracked
<1>2. QED
  BY <1>1 DEF Thawed, Entry

LEMMA RestoreSameApps ==
    ASSUME EngineType, NEW A \in SUBSET Tracked, RestoreToBackground(A)
    PROVE  SameApps
<1>1. ASSUME NEW a \in A
      PROVE  entry'[a].info = entry[a].info /\ entry[a] # Untracked
  <2>1. entry'[a] = [Thawed(a) EXCEPT !.state = "Background"] /\ Thawed(a) \in Entry
    BY ThawedKeeps DEF RestoreToBackground, Tracked
  <2>2. entry'[a].info = Thawed(a).info
    BY <2>1 DEF Entry
  <2>3. QED
    BY <2>2, ThawedInfo DEF Tracked
<1>2. \A a \in AppId \ A : entry'[a] = entry[a]
  BY DEF RestoreToBackground
<1>3. QED
  BY <1>1, <1>2 DEF SameApps

LEMMA CloseSameApps ==
    ASSUME EngineType, NEW w \in Window, HandleWindowClosed(w)
    PROVE  SameApps
<1> DEFINE a == window_map[w]
<1>1. \/ entry' = entry
      \/ a \in AppId /\ entry' = [entry EXCEPT ![a] = Untracked]
      \/ /\ a \in AppId /\ entry[a] \in Entry
         /\ entry' = [entry EXCEPT ![a].window_ids = @ \ {w}]
  BY DEF HandleWindowClosed, EngineType
<1> HIDE DEF a
<1>2. ASSUME NEW b \in AppId, entry'[b] # Untracked
      PROVE  entry[b] # Untracked /\ entry'[b].info = entry[b].info
  <2>1. CASE entry' = entry
    BY <1>2, <2>1
  <2>2. CASE a \in AppId /\ entry' = [entry EXCEPT ![a] = Untracked]
    BY <1>2, <2>2 DEF EngineType
  <2>3. CASE /\ a \in AppId /\ entry[a] \in Entry
             /\ entry' = [entry EXCEPT ![a].window_ids = @ \ {w}]
    <3>1. /\ entry'[a] = [entry[a] EXCEPT !.window_ids = @ \ {w}]
          /\ \A c \in AppId \ {a} : entry'[c] = entry[c]
      BY <2>3 DEF EngineType
    <3>2. entry'[a].info = entry[a].info /\ entry[a] # Untracked
      BY <2>3, <3>1, UntrackedIsNoEntry DEF Entry
    <3>3. QED
      BY <1>2, <3>1, <3>2
  <2>4. QED
    BY <1>1, <2>1, <2>2, <2>3
<1>3. QED
  BY <1>2 DEF SameApps

LEMMA SuspendSameApps ==
    ASSUME EngineType, ScanTracked, SuspendApply
    PROVE  SameApps
<1> DEFINE a == scan.app
           s == IF scan.procs \ Dead(scan.procs) = {} THEN entry[a].state ELSE "Frozen"
           r == Without(entry[a].roots, Dead(scan.procs))
<1>1. scan # None /\ a \in AppId
  BY DEF SuspendApply, EngineType
<1>2. entry[a] \in Entry /\ entry[a] # Untracked
  BY <1>1 DEF ScanTracked, EngineType
<1>3. entry' = [entry EXCEPT ![a] = [entry[a] EXCEPT !.roots = r, !.state = s]]
  BY <1>1 DEF SuspendApply, EngineType
<1> HIDE DEF r, s
<1>4. /\ entry'[a] = [entry[a] EXCEPT !.roots = r, !.state = s]
      /\ \A b \in AppId \ {a} : entry'[b] = entry[b]
  BY <1>1, <1>3 DEF EngineType
<1>5. entry'[a].info = entry[a].info
  BY <1>2, <1>4 DEF Entry
<1>6. QED
  BY <1>2, <1>4, <1>5 DEF SameApps

LEMMA SweepSameApps ==
    ASSUME EngineType, SweepApply
    PROVE  SameApps
<1>1. ASSUME NEW a \in AppId, entry'[a] # Untracked
      PROVE  entry[a] # Untracked /\ entry'[a].info = entry[a].info
  <2>1. entry'[a] = Reaped(a) /\ entry[a] # Untracked
    BY <1>1 DEF SweepApply, Reaped
  <2>2. entry[a] \in Entry /\ entry'[a] = [entry[a] EXCEPT !.roots = Without(@, sweep.roots[a])]
    BY <2>1 DEF EngineType, Reaped
  <2>3. QED
    BY <2>1, <2>2 DEF Entry
<1>2. QED
  BY <1>1 DEF SameApps

\* Only a focus event registers an application, with the policy of the moment.
LEMMA EngineResolves ==
    ASSUME TInv, EngineStep
    PROVE  /\ ToldTrue' /\ KeptTrue' /\ config' = config
           /\ \A a \in AppId : entry'[a] # Untracked /\ entry[a] = Untracked =>
                \E info \in TrueInfos(backend) : entry'[a] = RegisterNewApp(info)
<1>1. DesktopType /\ EngineType /\ ScanTracked /\ ToldTrue /\ KeptTrue
  BY TypeParts DEF TInv, IInv
<1>2. UNCHANGED <<wire, backend, reading, outbox>>
  BY DEF EngineStep, backendVars
<1>3. ASSUME SameApps
      PROVE  KeptTrue' /\ \A a \in AppId : ~(entry'[a] # Untracked /\ entry[a] = Untracked)
  BY <1>1, <1>2, <1>3 DEF SameApps, KeptTrue, Tracked
<1>4. CASE EngineTakes
  <2> DEFINE e == Head(channel)
  <2>1. /\ e \in TrueEvents(backend) /\ e \in FocusEvent
        /\ channel' \in Seq(TrueEvents(backend))
    BY <1>1, <1>4, HeadTailProperties DEF EngineTakes, ToldTrue, TrueEvents
  <2>2. ToldTrue'
    BY <1>1, <1>2, <2>1 DEF ToldTrue
  <2>3. FrozenApps \subseteq Tracked
    BY DEF FrozenApps
  <2>4. CASE e.type = "FocusChanged" /\ HandleFocusChanged(e.info)
    <3> DEFINE info == e.info
               a    == AppIdOf(info)
    <3>1. info \in TrueInfos(backend) /\ info \in WindowInfo
      BY <2>1, <2>4 DEF TrueEvents, TrueInfos
    <3>2. a \in AppId
      BY <3>1, AppIdType
    <3> HIDE DEF info, a
    <3>3. HandleFocusChanged(info)
      BY <2>4 DEF info
    <3>4. ASSUME NEW b \in AppId, b # a
          PROVE  entry'[b] # Untracked =>
                   entry[b] # Untracked /\ entry'[b].info = entry[b].info
      <4>1. entry'[b] = Backgrounded(b)
        BY <3>3, <3>4 DEF HandleFocusChanged, a
      <4>2. entry[b] \in Entry \cup {Untracked}
        BY <1>1 DEF EngineType
      <4>3. QED
        BY <4>1, <4>2 DEF Backgrounded, Entry
    <3>5. entry[a] = Untracked => entry'[a] = RegisterNewApp(info)
      BY <3>2, <3>3 DEF HandleFocusChanged, a
    <3>6. entry[a] # Untracked => entry'[a].info = info
      <4>1. SUFFICES ASSUME entry[a] # Untracked PROVE entry'[a].info = info
        OBVIOUS
      <4>2. entry'[a] = ActivateExistingApp(a, info)
        BY <3>2, <3>3, <4>1 DEF HandleFocusChanged, a
      <4> DEFINE t     == Thawed(a)
                 roots == IF \E p \in t.roots : p[1] = info.pid THEN t.roots
                          ELSE t.roots \cup Open(info.pid)
                 lived == t.had_live \/ Open(info.pid) # {}
      <4>3. t \in Entry
        BY <1>1, <3>2, <4>1, ThawedKeeps DEF Tracked
      <4>4. entry'[a] = [t EXCEPT !.state = "Active", !.info = info,
                           !.window_ids = @ \cup {info.window_id},
                           !.roots = roots, !.had_live = lived]
        BY <4>2 DEF ActivateExistingApp
      <4> HIDE DEF t, roots, lived
      <4>5. QED
        BY <4>3, <4>4 DEF Entry
    <3>7. RegisterNewApp(info).info = info
      BY DEF RegisterNewApp
    <3>8. KeptTrue'
      BY <1>1, <1>2, <3>1, <3>2, <3>4, <3>5, <3>6, <3>7 DEF KeptTrue, Tracked
    <3>9. config' = config
      BY <3>3 DEF HandleFocusChanged
    <3>10. QED
      BY <2>2, <3>1, <3>4, <3>5, <3>8, <3>9
  <2>5. CASE e.type = "WindowClosed" /\ HandleWindowClosed(e.window)
    <3>1. e.window \in Window
      BY <2>1, <2>5, EventFields
    <3>2. SameApps
      BY <1>1, <2>5, <3>1, CloseSameApps
    <3>3. config' = config
      BY <2>5 DEF HandleWindowClosed
    <3>4. QED
      BY <1>3, <2>2, <3>2, <3>3
  <2>6. ASSUME NEW A \in SUBSET Tracked, PreThaw(A)
        PROVE  SameApps /\ config' = config
    BY <1>1, <2>6, RestoreSameApps DEF PreThaw
  <2>7. \/ e.type = "FocusChanged" /\ HandleFocusChanged(e.info)
        \/ e.type = "WindowClosed" /\ HandleWindowClosed(e.window)
        \/ \E A \in SUBSET Tracked : PreThaw(A)
    <3>1. {a \in FrozenApps : entry[a].info.desktop = e.desktop} \in SUBSET Tracked
          /\ \A a \in FrozenApps : {a} \in SUBSET Tracked
      BY <2>3
    <3>2. QED
      BY <1>4, <3>1 DEF EngineTakes
  <2>8. QED
    BY <1>3, <2>2, <2>4, <2>5, <2>6, <2>7
<1>5. CASE SuspendApply
  <2>1. SameApps /\ config' = config /\ channel' = channel
    BY <1>1, <1>5, SuspendSameApps DEF SuspendApply
  <2>2. QED
    BY <1>1, <1>2, <1>3, <2>1 DEF ToldTrue
<1>6. CASE SweepScan
  <2>1. UNCHANGED <<config, entry, channel>>
    BY <1>6 DEF SweepScan
  <2>2. QED
    BY <1>1, <1>2, <2>1 DEF ToldTrue, KeptTrue, Tracked
<1>7. CASE SweepApply
  <2>1. SameApps /\ config' = config /\ channel' = channel
    BY <1>1, <1>7, SweepSameApps DEF SweepApply
  <2>2. QED
    BY <1>1, <1>2, <1>3, <2>1 DEF ToldTrue
<1>8. QED
  BY <1>4, <1>5, <1>6, <1>7 DEF EngineStep

\* rematch_tracked_apps resolves every policy with what was last seen.
LEMMA ReloadResolves ==
    ASSUME TInv, NEW c \in Config, Reload(c)
    PROVE  /\ ToldTrue' /\ SameApps
           /\ \A a \in AppId : entry'[a] # Untracked =>
                entry'[a].action = PolicyFor(c, entry[a].info, Comm(entry[a].info.pid)).action
<1> DEFINE now(a) == PolicyFor(c, entry[a].info, Comm(entry[a].info.pid)).action
           freed  == {a \in FrozenApps : now(a) # "freeze"}
<1>1. EngineType /\ ToldTrue
  BY TypeParts DEF TInv, IInv
<1>2. UNCHANGED <<wire, backend, reading, outbox, channel>>
  BY DEF Reload, backendVars
<1>3. ToldTrue'
  BY <1>1, <1>2 DEF ToldTrue
<1>4. ASSUME NEW a \in AppId, entry'[a] # Untracked
      PROVE  /\ entry[a] # Untracked /\ entry'[a].info = entry[a].info
             /\ entry'[a].action = now(a)
  <2>1. entry[a] # Untracked
    BY <1>4 DEF Reload
  <2>2. entry[a] \in Entry /\ Thawed(a) \in Entry /\ Thawed(a).info = entry[a].info
    BY <1>1, <2>1, ThawedKeeps, ThawedInfo, TrackedEntries DEF Tracked
  <2>3. \/ entry'[a] = [Thawed(a) EXCEPT !.state = "Background", !.action = now(a)]
        \/ entry'[a] = [entry[a] EXCEPT !.action = now(a)]
    BY <2>1 DEF Reload
  <2> HIDE DEF now
  <2>4. QED
    BY <2>1, <2>2, <2>3 DEF Entry
<1>5. QED
  BY <1>3, <1>4 DEF SameApps

\* A denied window is protected by what is known of it, or by its own process.
LEMMA DeniedVerdict ==
    ASSUME NEW c \in Config, NEW info \in TrueInfos(backend), DeniedWindow(info.window_id)
    PROVE  PolicyFor(c, info, Comm(info.pid)).action = "ignore"
<1>1. info.window_id \in Window /\ info.executable \in Name \cup {None}
  BY DEF TrueInfos, WindowInfo
<1>2. ClassOf[info.window_id] \in Name /\ ExeOf[info.window_id] \in Name
  BY <1>1, WindowAssumption
<1>3. ASSUME info.pid # None
      PROVE  Check(info.executable, Comm(info.pid))
  <2>1. CASE backend = "x11"
    <3>1. /\ info.pid = PidOf[info.window_id] /\ exe[info.pid] = ExeOf[info.window_id]
          /\ ExeOf[info.window_id] \in Denied
          /\ info.executable \in {None, ExeOf[info.window_id]}
      BY <1>3, <2>1 DEF TrueInfos, DeniedWindow
    <3>2. QED
      BY <1>3, <3>1 DEF Check, MatchesDenyList, Comm
  <2>2. CASE backend = "wlr"
    <3>1. info.executable = ClassOf[info.window_id] /\ info.executable \in Denied
      BY <1>3, <2>2 DEF TrueInfos, DeniedWindow
    <3>2. QED
      BY <1>2, <3>1, WindowAssumption DEF Check, MatchesDenyList
  <2>3. QED
    BY <2>1, <2>2 DEF DeniedWindow
<1>4. ProtectionVerdict(info, Comm(info.pid))
  BY <1>3 DEF ProtectionVerdict
<1>5. PolicyFor(c, info, Comm(info.pid))
        = [MatchWindow(c, MatchContext(info)) EXCEPT !.action = "ignore"]
  BY <1>4 DEF PolicyFor
<1>6. "action" \in DOMAIN MatchWindow(c, MatchContext(info))
  BY MatchedAction
<1>7. QED
  BY <1>5, <1>6

LEMMA TrueKeeps ==
    ASSUME TInv, [Next]_vars
    PROVE  TInv'
<1>1. IInv'
  BY NextKeeps DEF TInv
<1>2. SUFFICES OwnProcess' /\ ToldTrue' /\ KeptTrue'
  BY <1>1 DEF TInv
<1> USE DEF TInv
<1>3. CASE DesktopStep
  <2>1. UNCHANGED <<backend, entry>>
    BY <1>3 DEF DesktopStep, engineVars
  <2>2. QED
    BY <1>3, <2>1, DesktopKeepsTrue DEF KeptTrue, Tracked
<1>4. CASE BackendStep
  <2>1. UNCHANGED <<backend, entry>>
    BY <1>4 DEF BackendStep, engineVars
  <2>2. QED
    BY <1>4, <2>1, BackendKeepsTrue DEF KeptTrue, Tracked
<1>5. CASE EngineStep
  <2>1. UNCHANGED <<exe, open>>
    BY <1>5 DEF EngineStep, desktopVars
  <2>2. QED
    BY <1>5, <2>1, EngineResolves DEF OwnProcess
<1>6. ASSUME NEW a \in AppId, SuspendScan(a)
      PROVE  OwnProcess' /\ ToldTrue' /\ KeptTrue'
  BY <1>6 DEF SuspendScan, OwnProcess, ToldTrue, KeptTrue, Tracked, desktopVars, backendVars
<1>7. ASSUME NEW c \in Config, Reload(c)
      PROVE  OwnProcess' /\ ToldTrue' /\ KeptTrue'
  <2>1. UNCHANGED <<exe, open, backend>>
    BY <1>7 DEF Reload
  <2>2. ToldTrue' /\ SameApps
    BY <1>7, ReloadResolves
  <2>3. QED
    BY <2>1, <2>2 DEF OwnProcess, KeptTrue, SameApps, Tracked
<1>8. CASE UNCHANGED vars
  BY <1>8 DEF OwnProcess, ToldTrue, KeptTrue, Tracked, vars, desktopVars, backendVars, engineVars
<1>9. QED
  BY <1>3, <1>4, <1>5, <1>6, <1>7, <1>8 DEF Next

LEMMA InitTrue ==
    ASSUME Init
    PROVE  TInv
<1>1. IInv /\ DesktopType /\ BackendType
  BY InitEstablishes, TypeParts DEF IInv
<1>2. OwnProcess
  <2>1. ASSUME NEW w \in open, PidOf[w] # None
        PROVE  exe[PidOf[w]] = ExeOf[w]
    <3> DEFINE first == CHOOSE v \in Early : PidOf[v] = PidOf[w]
    <3>1. w \in Early /\ PidOf[w] \in Pid
      BY <2>1, WindowAssumption DEF Init
    <3>2. first \in Early /\ PidOf[first] = PidOf[w]
      BY <3>1
    <3>3. exe[PidOf[w]] = ExeOf[first]
      BY <3>1 DEF Init
    <3>4. QED
      BY <2>1, <3>1, <3>2, <3>3, WindowAssumption
  <2>2. QED
    BY <2>1 DEF OwnProcess
<1>3. ToldTrue
  <2>1. outbox \in Seq(TrueEvents(backend))
    <3>1. focus # None => focus \in Window
      BY <1>1 DEF DesktopType
    <3>2. \/ outbox = <<>>
          \/ focus # None /\ backend = "x11" /\ outbox = <<FocusChanged(X11Info(focus))>>
          \/ focus # None /\ backend = "gnome" /\ outbox = <<FocusChanged(GnomeInfo(focus))>>
      BY WindowAssumption DEF Init
    <3>3. focus # None /\ backend = "x11" => FocusChanged(X11Info(focus)) \in TrueEvents(backend)
      BY <1>1, <1>2, <3>1, InfosTrue, EventsTrue
    <3>4. focus # None /\ backend = "gnome" =>
            FocusChanged(GnomeInfo(focus)) \in TrueEvents(backend)
      BY <1>1, <1>2, <3>1, InfosTrue, EventsTrue
    <3>5. QED
      BY <3>2, <3>3, <3>4, EmptySeq, ShortSequences
  <2>2. wire \in Seq(TrueMessages)
    <3> DEFINE told == IF backend = "wlr" THEN Early ELSE {}
    <3>1. PICK first \in Orders(told) :
            wire = [i \in DOMAIN first |-> Update(first[i], ClassOf[first[i]], first[i] = focus)]
      BY DEF Init
    <3>2. Cardinality(told) \in Nat
      BY WindowAssumption, FS_Subset, FS_CardinalityType
    <3>3. first \in [1..Cardinality(told) -> Window]
      BY <3>2, WindowAssumption DEF Orders
    <3>4. \A w \in Window : Update(w, ClassOf[w], w = focus) \in TrueMessages
      BY UpdateTrue
    <3>5. wire \in [1..Cardinality(told) -> TrueMessages]
      BY <3>1, <3>3, <3>4
    <3>6. QED
      BY <3>2, <3>5, SeqDef
  <2>3. channel \in Seq(TrueEvents(backend)) /\ reading = None
    BY EmptySeq DEF Init
  <2>4. QED
    BY <2>1, <2>2, <2>3 DEF ToldTrue
<1>4. KeptTrue
  BY DEF Init, KeptTrue, Tracked
<1>5. QED
  BY <1>1, <1>2, <1>3, <1>4 DEF TInv

\* Whenever the policy of an application is resolved, at its registration or at a
\* reload, a window of a denied program makes it `ignore', under X11 and wlroots,
\* for every number of windows, programs that share PIDs, and configurations.
THEOREM DeniedNeverManaged == Spec => DeniedIsIgnored
<1>1. TInv /\ [Next]_vars =>
        [\A a \in AppId :
           PolicyResolved(a) /\ DeniedWindow(entry'[a].info.window_id) =>
               entry'[a].action = "ignore"]_vars
  <2>1. SUFFICES ASSUME TInv, Next, NEW a \in AppId, PolicyResolved(a),
                        DeniedWindow(entry'[a].info.window_id)
                 PROVE  entry'[a].action = "ignore"
    OBVIOUS
  <2>2. KeptTrue /\ config \in Config
    BY <2>1, TypeParts DEF TInv, IInv, EngineType
  <2>3. CASE DesktopStep \/ BackendStep \/ \E b \in AppId : SuspendScan(b)
    BY <2>1, <2>3 DEF DesktopStep, BackendStep, SuspendScan, engineVars, PolicyResolved
  <2>4. CASE EngineStep
    <3>1. PICK info \in TrueInfos(backend) : entry'[a] = RegisterNewApp(info)
      BY <2>1, <2>4, EngineResolves DEF PolicyResolved
    <3>2. /\ entry'[a].info = info
          /\ entry'[a].action = PolicyFor(config, info, Comm(info.pid)).action
      BY <3>1 DEF RegisterNewApp
    <3>3. QED
      BY <2>1, <2>2, <3>2, DeniedVerdict
  <2>5. ASSUME NEW c \in Config, Reload(c)
        PROVE  entry'[a].action = "ignore"
    <3>1. /\ entry[a] # Untracked /\ entry'[a].info = entry[a].info
          /\ entry'[a].action = PolicyFor(c, entry[a].info, Comm(entry[a].info.pid)).action
      BY <2>1, <2>5, ReloadResolves DEF PolicyResolved, SameApps
    <3>2. entry[a].info \in TrueInfos(backend)
      BY <2>2, <3>1 DEF KeptTrue, Tracked
    <3>3. QED
      BY <2>1, <3>1, <3>2, DeniedVerdict
  <2>6. QED
    BY <2>1, <2>3, <2>4, <2>5 DEF Next
<1>2. Init => TInv
  BY InitTrue
<1>3. TInv /\ [Next]_vars => TInv'
  BY TrueKeeps
<1>4. QED
  BY <1>1, <1>2, <1>3, PTL DEF Spec, DeniedIsIgnored
=============================================================================
