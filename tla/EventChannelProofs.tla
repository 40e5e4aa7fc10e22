------------------------- MODULE EventChannelProofs -------------------------
(***************************************************************************)
(* Proofs about EventChannel, for every capacity, budget, number of        *)
(* connections, set of configurations and plan: the limits hold, and       *)
(* nothing that somebody waits for is lost, doubled or overtaken on its    *)
(* way to the engine.                                                      *)
(***************************************************************************)
EXTENDS EventChannel, TLAPS, SequenceTheorems, FiniteSetTheorems

----------------------------------------------------------------------------
(* Elements of a kind in a sequence                                        *)

Has(s, X)     == \E i \in DOMAIN s : s[i] \in X
Single(s, X)  == \A i, j \in DOMAIN s : s[i] \in X /\ s[j] \in X => i = j
Last(s, X, v) == \A i \in DOMAIN s :
                   s[i] \in X /\ (\A j \in DOMAIN s : s[j] \in X => j <= i) => s[i].of = v

LEMMA NoneInEmpty ==
    ASSUME NEW X, NEW v
    PROVE  ~Has(<<>>, X) /\ Single(<<>>, X) /\ Last(<<>>, X, v)
BY DEF Has, Single, Last

LEMMA AppendFacts ==
    ASSUME NEW S, NEW s \in Seq(S), NEW e \in S, NEW X, NEW v
    PROVE  /\ Has(Append(s, e), X) <=> Has(s, X) \/ e \in X
           /\ Single(s, X) /\ (e \in X => ~Has(s, X)) => Single(Append(s, e), X)
           /\ e \in X /\ e.of = v => Last(Append(s, e), X, v)
           /\ e \notin X /\ Last(s, X, v) => Last(Append(s, e), X, v)
<1> DEFINE t == Append(s, e)
           n == Len(s)
<1>1. /\ n \in Nat /\ DOMAIN s = 1..n /\ DOMAIN t = 1..(n + 1)
      /\ \A i \in 1..n : t[i] = s[i]
      /\ t[n + 1] = e
  BY AppendProperties, LenProperties
<1> HIDE DEF t, n
<1>2. Has(t, X) <=> Has(s, X) \/ e \in X
  BY <1>1 DEF Has
<1>3. Single(s, X) /\ (e \in X => ~Has(s, X)) => Single(t, X)
  BY <1>1 DEF Has, Single
<1>4. e \in X /\ e.of = v => Last(t, X, v)
  BY <1>1 DEF Last
<1>5. e \notin X /\ Last(s, X, v) => Last(t, X, v)
  BY <1>1 DEF Last
<1>6. QED
  BY <1>2, <1>3, <1>4, <1>5 DEF t

LEMMA TailFacts ==
    ASSUME NEW S, NEW s \in Seq(S), s # <<>>, NEW X, NEW v
    PROVE  /\ Has(s, X) <=> Head(s) \in X \/ Has(Tail(s), X)
           /\ Single(s, X) => /\ Single(Tail(s), X)
                              /\ Head(s) \in X => ~Has(Tail(s), X)
           /\ Last(s, X, v) => /\ Last(Tail(s), X, v)
                               /\ Head(s) \in X /\ ~Has(Tail(s), X) => Head(s).of = v
<1> DEFINE t == Tail(s)
           n == Len(t)
<1>1. /\ n \in Nat /\ DOMAIN t = 1..n /\ DOMAIN s = 1..(n + 1)
      /\ \A i \in 1..n : t[i] = s[i + 1]
      /\ s[1] = Head(s)
  BY HeadTailProperties, LenProperties
<1> HIDE DEF t, n
<1>2. \A i \in 1..(n + 1) : i # 1 => i - 1 \in 1..n /\ s[i] = t[i - 1]
  BY <1>1
<1>3. Has(s, X) <=> s[1] \in X \/ Has(t, X)
  <2>1. ASSUME NEW i \in 1..n, t[i] \in X PROVE Has(s, X)
    <3>1. i + 1 \in DOMAIN s /\ s[i + 1] \in X
      BY <1>1, <2>1
    <3>2. QED
      BY <3>1 DEF Has
  <2>2. ASSUME NEW i \in 1..(n + 1), s[i] \in X PROVE s[1] \in X \/ Has(t, X)
    BY <1>1, <1>2, <2>2 DEF Has
  <2>3. 1 \in DOMAIN s
    BY <1>1
  <2>4. QED
    BY <1>1, <2>1, <2>2, <2>3 DEF Has
<1>4. Single(s, X) => Single(t, X) /\ (s[1] \in X => ~Has(t, X))
  <2>1. SUFFICES ASSUME Single(s, X) PROVE Single(t, X) /\ (s[1] \in X => ~Has(t, X))
    OBVIOUS
  <2>2. ASSUME NEW i \in 1..n, NEW j \in 1..n, t[i] \in X, t[j] \in X PROVE i = j
    <3>1. i + 1 \in DOMAIN s /\ j + 1 \in DOMAIN s /\ s[i + 1] \in X /\ s[j + 1] \in X
      BY <1>1, <2>2
    <3>2. i + 1 = j + 1
      BY <2>1, <3>1 DEF Single
    <3>3. QED
      BY <3>2
  <2>3. ASSUME NEW i \in 1..n, t[i] \in X, s[1] \in X PROVE FALSE
    <3>1. i + 1 \in DOMAIN s /\ 1 \in DOMAIN s /\ s[i + 1] \in X
      BY <1>1, <2>3
    <3>2. i + 1 = 1
      BY <2>1, <2>3, <3>1 DEF Single
    <3>3. QED
      BY <3>2
  <2>4. QED
    BY <1>1, <2>2, <2>3 DEF Single, Has
<1>5. ASSUME Last(s, X, v) PROVE Last(t, X, v)
  <2>1. SUFFICES ASSUME NEW i \in 1..n, t[i] \in X, \A j \in 1..n : t[j] \in X => j <= i
                 PROVE  t[i].of = v
    BY <1>1 DEF Last
  <2>2. i + 1 \in 1..(n + 1) /\ s[i + 1] = t[i]
    BY <1>1
  <2>3. \A j \in 1..(n + 1) : s[j] \in X => j <= i + 1
    BY <1>1, <1>2, <2>1
  <2>4. QED
    BY <1>1, <1>5, <2>1, <2>2, <2>3 DEF Last
<1>6. ASSUME Last(s, X, v), s[1] \in X, ~Has(t, X) PROVE s[1].of = v
  BY <1>1, <1>2, <1>6 DEF Last, Has
<1>7. QED
  BY <1>1, <1>3, <1>4, <1>5, <1>6 DEF t

----------------------------------------------------------------------------
(* The channel and the senders in line                                     *)

In(X)   == Has(channel, X) \/ Has(waiting, X)
Once(X) == /\ Single(channel, X) /\ Single(waiting, X)
           /\ ~(Has(channel, X) /\ Has(waiting, X))

QueueType == /\ channel \in Seq(Event) /\ Len(channel) <= Capacity
             /\ waiting \in Seq(Event)

EngineType == /\ engine \in {"parked", "polled", "awaiting", "ended"}
              /\ budget \in 0..Budget
              /\ config \in Good \cup {Default} /\ source \in Source \cup {"unknown"}

ConnType ==
    /\ conn \in [Conn -> {"away", "connected", "reading", "asked", "replied", "closed"}]
    /\ ask \in [Conn -> Requests \cup {None}] /\ backlog \in Seq(Conn)
    /\ Cardinality(Served) <= MaxConnections

OtherType ==
    /\ file \in Content \cup {None} /\ watch \in {"starting", "on", "off"}
    /\ notices \in Nat
    /\ power \in Source /\ polled \in Source \cup {None}
    /\ hangup \in BOOLEAN /\ term \in {"none", "pending", "taken"} /\ desktop \in BOOLEAN
    /\ left \in [Outside -> Nat]

LEMMA TypeParts == TypeOK <=> QueueType /\ EngineType /\ ConnType /\ OtherType
BY DEF TypeOK, QueueType, EngineType, ConnType, OtherType

\* The events of each kind that somebody counts on.
RequestOf(c)    == {e \in Event : Asks(e, c)}
ShutdownBy(task) == {e \in Event : Ends(e, task)}
Findings        == {e \in Event : e.type = "PowerSourceChanged"}

\* What is sent is in the channel or in line, behind what was there.
LEMMA SendFacts ==
    ASSUME QueueType, NEW e \in Event, Send(e)
    PROVE  /\ QueueType'
           /\ \A X : In(X)' <=> In(X) \/ e \in X
           /\ \A X : Once(X) /\ (e \in X => ~In(X)) => Once(X)'
<1>1. CASE Places
  <2>1. channel' = Append(channel, e) /\ waiting' = waiting
    BY <1>1 DEF Send
  <2>2. Len(channel') <= Capacity /\ channel' \in Seq(Event)
    BY <1>1, <2>1, AppendProperties, LenProperties, ChannelAssumption DEF Places, QueueType
  <2>3. QED
    BY <2>1, <2>2, AppendFacts DEF QueueType, In, Once
<1>2. CASE ~Places
  <2>1. waiting' = Append(waiting, e) /\ channel' = channel
    BY <1>2 DEF Send
  <2>2. QED
    BY <2>1, AppendProperties, AppendFacts DEF QueueType, In, Once
<1>3. QED
  BY <1>1, <1>2

LEMMA AdmitFacts ==
    ASSUME QueueType, Admit
    PROVE  /\ QueueType'
           /\ \A X : In(X)' <=> In(X)
           /\ \A X : Once(X) => Once(X)'
<1> DEFINE e == Head(waiting)
<1>1. /\ waiting # <<>> /\ Len(channel) < Capacity
      /\ channel' = Append(channel, e) /\ waiting' = Tail(waiting)
  BY DEF Admit
<1>2. e \in Event /\ waiting' \in Seq(Event)
  BY <1>1, HeadTailProperties DEF QueueType
<1>3. channel' \in Seq(Event) /\ Len(channel') <= Capacity
  BY <1>1, <1>2, AppendProperties, LenProperties, ChannelAssumption DEF QueueType
<1>4. ASSUME NEW X
      PROVE  /\ Has(waiting, X) <=> e \in X \/ Has(waiting', X)
             /\ Single(waiting, X) => Single(waiting', X) /\ (e \in X => ~Has(waiting', X))
             /\ Has(channel', X) <=> Has(channel, X) \/ e \in X
             /\ Single(channel, X) /\ (e \in X => ~Has(channel, X)) => Single(channel', X)
  BY <1>1, <1>2, AppendFacts, TailFacts DEF QueueType
<1> HIDE DEF e
<1>5. QED
  BY <1>2, <1>3, <1>4 DEF QueueType, In, Once

\* What the engine takes is gone, and what it sends to itself is behind the rest.
LEMMA TakeFacts ==
    ASSUME QueueType, channel # <<>>, waiting' = waiting,
           \/ channel' = Tail(channel)
           \/ \E f \in Event : /\ channel' = Append(Tail(channel), f)
                               /\ Len(Tail(channel)) + Len(waiting) < Capacity
    PROVE  /\ QueueType'
           /\ \A X : In(X) => Head(channel) \in X \/ In(X)'
           /\ \A X : In(X)' => \/ In(X)
                               \/ \E f \in X : channel' = Append(Tail(channel), f)
           /\ \A X : Once(X) /\ (\A f \in X : channel' # Append(Tail(channel), f)) =>
                       Once(X)' /\ (Head(channel) \in X => ~In(X)')
<1> DEFINE e    == Head(channel)
           rest == Tail(channel)
<1>1. e \in Event /\ rest \in Seq(Event) /\ Len(rest) <= Capacity
  BY HeadTailProperties, LenProperties, ChannelAssumption DEF QueueType
<1>2. ASSUME NEW X
      PROVE  /\ Has(channel, X) <=> e \in X \/ Has(rest, X)
             /\ Single(channel, X) => Single(rest, X) /\ (e \in X => ~Has(rest, X))
  BY TailFacts DEF QueueType
<1>3. CASE channel' = rest
  BY <1>1, <1>2, <1>3 DEF QueueType, In, Once
<1>4. ASSUME NEW f \in Event, channel' = Append(rest, f),
             Len(rest) + Len(waiting) < Capacity
      PROVE  /\ QueueType'
             /\ \A X : In(X) => e \in X \/ In(X)'
             /\ \A X : In(X)' => In(X) \/ f \in X
             /\ \A X : Once(X) /\ f \notin X => Once(X)' /\ (e \in X => ~In(X)')
  <2>1. channel' \in Seq(Event) /\ Len(channel') <= Capacity
    BY <1>1, <1>4, AppendProperties, LenProperties, ChannelAssumption DEF QueueType
  <2>2. ASSUME NEW X
        PROVE  /\ Has(channel', X) <=> Has(rest, X) \/ f \in X
               /\ Single(rest, X) /\ f \notin X => Single(channel', X)
    BY <1>1, <1>4, AppendFacts
  <2> HIDE DEF e, rest
  <2>3. QED
    BY <1>2, <2>1, <2>2 DEF QueueType, In, Once
<1>5. QED
  BY <1>3, <1>4

----------------------------------------------------------------------------
(* The inductive invariant                                                 *)

AskKnown == \A c \in Conn : conn[c] # "away" => ask[c] \in Requests

\* Who is in the backlog is there once and has not been accepted.
BacklogWaits ==
    /\ \A i \in DOMAIN backlog : conn[backlog[i]] = "connected"
    /\ \A i, j \in DOMAIN backlog : backlog[i] = backlog[j] => i = j

RequestsOnce ==
    \A c \in Conn : /\ Once(RequestOf(c))
                    /\ conn[c] = "asked" <=> In(RequestOf(c))

ShutdownOn ==
    engine # "ended" => /\ term = "taken" => In(ShutdownBy("signal"))
                        /\ ~desktop => In(ShutdownBy("desktop"))

\* The monitor waits for its place, so one finding at most is in line, and what is
\* in line is newer than what is in the channel.
FindingsLast ==
    engine # "ended" =>
        /\ Single(waiting, Findings) /\ Last(waiting, Findings, polled)
        /\ ~Has(waiting, Findings) => Last(channel, Findings, polled)
        /\ ~In(Findings) => polled \in {source, None}

IInv == /\ TypeOK /\ AskKnown /\ BacklogWaits
        /\ RequestsOnce /\ ShutdownOn /\ FindingsLast

LEMMA IInvParts ==
    ASSUME IInv
    PROVE  /\ QueueType /\ EngineType /\ ConnType /\ OtherType
           /\ AskKnown /\ BacklogWaits /\ RequestsOnce /\ ShutdownOn /\ FindingsLast
BY TypeParts DEF IInv

LEMMA EventKinds ==
    /\ \A task, f : Ev("ConfigReloaded", task, f) \in Event =>
         Ev("ConfigReloaded", task, f) \notin Findings
    /\ \A task \in {"watcher", "hangup", "engine"}, f \in Good \cup BadRule :
         Ev("ConfigReloaded", task, f) \in Event
    /\ \A s \in Source : Ev("PowerSourceChanged", "monitor", s) \in Findings
    /\ \A task \in {"signal", "desktop", "engine"} :
         Ev("Shutdown", task, None) \in ShutdownBy(task)
    /\ Ev("FocusChanged", "desktop", None) \in Event
    /\ Ev("SuspendTimerFired", "timer", None) \in Event
BY DEF Ev, Event, Findings, ShutdownBy, Ends

LEMMA RequestEvents ==
    ASSUME NEW c \in Conn, NEW what \in {"query", "reload", "shutdown"}
    PROVE  /\ Ev("IpcRequest", c, what) \in RequestOf(c)
           /\ Ev("IpcRequest", c, what) \notin Findings
           /\ \A d \in Conn : d # c => Ev("IpcRequest", c, what) \notin RequestOf(d)
BY DEF Ev, Event, RequestOf, Findings, Asks

\* A step that leaves the channel and the connections alone.
LEMMA QuietKeeps ==
    ASSUME RequestsOnce, FindingsLast,
           UNCHANGED <<channel, waiting, conn, source, polled>>,
           engine' # "ended" => engine # "ended"
    PROVE  RequestsOnce' /\ FindingsLast' /\ \A X : In(X)' <=> In(X)
BY DEF RequestsOnce, FindingsLast, In, Once

LEMMA ConnKept ==
    ASSUME ConnType, AskKnown, BacklogWaits, UNCHANGED ipcVars
    PROVE  ConnType' /\ AskKnown' /\ BacklogWaits'
BY DEF ConnType, AskKnown, BacklogWaits, ipcVars, Served

\* Any task but a connection and the monitor sends.
LEMMA TellKeeps ==
    ASSUME QueueType, RequestsOnce, FindingsLast, NEW e \in Event, Send(e),
           e.type \notin {"IpcRequest", "PowerSourceChanged"},
           UNCHANGED <<engine, source, polled, conn>>
    PROVE  /\ QueueType' /\ RequestsOnce' /\ FindingsLast'
           /\ \A X : In(X)' <=> In(X) \/ e \in X
<1>1. /\ QueueType'
      /\ \A X : In(X)' <=> In(X) \/ e \in X
      /\ \A X : Once(X) /\ (e \in X => ~In(X)) => Once(X)'
  BY SendFacts
<1>2. e \notin Findings /\ \A c \in Conn : e \notin RequestOf(c)
  BY DEF Findings, RequestOf, Asks
<1>3. RequestsOnce'
  BY <1>1, <1>2 DEF RequestsOnce
<1>4. FindingsLast'
  <2>1. \/ channel' = Append(channel, e) /\ waiting' = waiting
        \/ waiting' = Append(waiting, e) /\ channel' = channel
    BY DEF Send
  <2>2. \A s \in Seq(Event) :
          /\ Has(Append(s, e), Findings) <=> Has(s, Findings)
          /\ Single(s, Findings) => Single(Append(s, e), Findings)
          /\ \A v : Last(s, Findings, v) => Last(Append(s, e), Findings, v)
    BY <1>2, AppendFacts
  <2>3. CASE channel' = Append(channel, e) /\ waiting' = waiting
    BY <1>1, <1>2, <2>2, <2>3 DEF FindingsLast, QueueType
  <2>4. CASE waiting' = Append(waiting, e) /\ channel' = channel
    BY <1>1, <1>2, <2>2, <2>4 DEF FindingsLast, QueueType
  <2>5. QED
    BY <2>1, <2>3, <2>4
<1>5. QED
  BY <1>1, <1>3, <1>4

\* The first in line moves up: a finding comes to be behind the older ones.
LEMMA AdmitKeeps ==
    ASSUME QueueType, RequestsOnce, FindingsLast, Admit
    PROVE  QueueType' /\ RequestsOnce' /\ FindingsLast' /\ \A X : In(X)' <=> In(X)
<1> DEFINE e == Head(waiting)
<1>1. /\ QueueType' /\ \A X : In(X)' <=> In(X)
      /\ \A X : Once(X) => Once(X)'
  BY AdmitFacts
<1>2. UNCHANGED <<engine, source, polled, conn>>
  BY DEF Admit, engineVars, ipcVars, powerVars
<1>3. RequestsOnce'
  BY <1>1, <1>2 DEF RequestsOnce
<1>4. FindingsLast'
  <2>1. /\ waiting # <<>> /\ e \in Event
        /\ channel' = Append(channel, e) /\ waiting' = Tail(waiting)
    BY HeadTailProperties DEF Admit, QueueType
  <2>2. /\ Has(waiting, Findings) <=> e \in Findings \/ Has(waiting', Findings)
        /\ Single(waiting, Findings) => /\ Single(waiting', Findings)
                                        /\ e \in Findings => ~Has(waiting', Findings)
        /\ Last(waiting, Findings, polled) =>
             /\ Last(waiting', Findings, polled)
             /\ e \in Findings /\ ~Has(waiting', Findings) => e.of = polled
    BY <2>1, TailFacts DEF QueueType
  <2>3. /\ e \in Findings /\ e.of = polled => Last(channel', Findings, polled)
        /\ e \notin Findings /\ Last(channel, Findings, polled) =>
             Last(channel', Findings, polled)
    BY <2>1, AppendFacts DEF QueueType
  <2> HIDE DEF e
  <2>4. QED
    BY <1>1, <1>2, <2>2, <2>3 DEF FindingsLast
<1>5. QED
  BY <1>1, <1>3, <1>4

----------------------------------------------------------------------------
(* The actions                                                             *)

\* Steps that send nothing and are not a connection's.
LEMMA OutsideKeeps ==
    ASSUME IInv,
           \/ Yield \/ Resume \/ Watch \/ Hangup \/ Signal
           \/ \E content \in Content \cup {None} : Edit(content)
           \/ \E s \in Source : PowerChange(s)
    PROVE  IInv'
<1>1. /\ QueueType /\ EngineType /\ ConnType /\ OtherType
      /\ AskKnown /\ BacklogWaits /\ RequestsOnce /\ ShutdownOn /\ FindingsLast
  BY IInvParts
<1>2. /\ UNCHANGED <<channel, waiting, config, source, ipcVars, polled, desktop>>
      /\ engine' # "ended" => engine # "ended"
      /\ term' = "taken" => term = "taken"
  BY DEF Yield, Resume, Watch, Hangup, Signal, Edit, PowerChange, engineVars, powerVars,
     restVars, fileVars
<1>3. QueueType' /\ ConnType' /\ AskKnown' /\ BacklogWaits'
  BY <1>1, <1>2, ConnKept DEF QueueType
<1>4. RequestsOnce' /\ FindingsLast' /\ \A X : In(X)' <=> In(X)
  BY <1>1, <1>2, QuietKeeps DEF ipcVars
<1>5. ShutdownOn'
  BY <1>1, <1>2, <1>4 DEF ShutdownOn
<1>6. \A what \in Outside : Happens(what) => left' \in [Outside -> Nat]
  BY <1>1 DEF Happens, OtherType
<1>7. EngineType' /\ OtherType'
  <2>1. CASE Yield \/ Resume
    BY <1>1, <2>1, ChannelAssumption DEF Yield, Resume, EngineType, OtherType, powerVars, fileVars,
       restVars
  <2>2. CASE Watch
    BY <1>1, <2>2 DEF Watch, EngineType, OtherType, engineVars, powerVars, restVars
  <2>3. CASE Hangup \/ Signal
    BY <1>1, <1>6, <2>3 DEF Hangup, Signal, EngineType, OtherType, engineVars, powerVars,
       fileVars, Outside
  <2>4. ASSUME NEW content \in Content \cup {None}, Edit(content)
        PROVE  EngineType' /\ OtherType'
    BY <1>1, <1>6, <2>4 DEF Edit, EngineType, OtherType, engineVars, powerVars, Outside
  <2>5. ASSUME NEW s \in Source, PowerChange(s)
        PROVE  EngineType' /\ OtherType'
    BY <1>1, <1>6, <2>5 DEF PowerChange, EngineType, OtherType, engineVars, fileVars, Outside
  <2>6. QED
    BY <2>1, <2>2, <2>3, <2>4, <2>5
<1>8. QED
  BY <1>3, <1>4, <1>5, <1>7
  DEF IInv, TypeOK, QueueType, EngineType, ConnType, OtherType

\* The tasks that reload, end, or tell of windows and timers.
LEMMA TasksKeep ==
    ASSUME IInv, WatcherReload \/ HangupReload \/ Terminate \/ Focus \/ Timer
    PROVE  IInv'
<1>1. /\ QueueType /\ EngineType /\ ConnType /\ OtherType
      /\ AskKnown /\ BacklogWaits /\ RequestsOnce /\ ShutdownOn /\ FindingsLast
  BY IInvParts
<1>2. UNCHANGED <<engineVars, ipcVars, powerVars, file, watch>>
  BY DEF WatcherReload, HangupReload, Terminate, Focus, Timer, fileVars
<1>3. EngineType' /\ ConnType' /\ AskKnown' /\ BacklogWaits'
  BY <1>1, <1>2, ConnKept DEF EngineType, engineVars
<1>4. \A what \in Outside : Happens(what) => left' \in [Outside -> Nat]
  BY <1>1 DEF Happens, OtherType
<1>5. OtherType'
  <2>1. CASE WatcherReload
    BY <1>1, <1>2, <2>1 DEF WatcherReload, OtherType, powerVars, restVars
  <2>2. CASE HangupReload \/ Terminate
    BY <1>1, <1>2, <2>2 DEF HangupReload, Terminate, OtherType, powerVars, fileVars
  <2>3. CASE Focus \/ Timer
    BY <1>1, <1>2, <1>4, <2>3 DEF Focus, Timer, OtherType, powerVars, fileVars, Outside
  <2>4. QED
    BY <2>1, <2>2, <2>3
<1> DEFINE Kept == /\ QueueType' /\ RequestsOnce' /\ FindingsLast'
                   /\ \A X : In(X) => In(X)'
<1>6. ASSUME UNCHANGED <<channel, waiting>> PROVE Kept
  BY <1>1, <1>2, <1>6, QuietKeeps DEF QueueType, engineVars, ipcVars, powerVars
<1>7. ASSUME NEW e \in Event, Send(e), e.type \notin {"IpcRequest", "PowerSourceChanged"}
      PROVE  Kept /\ \A X : e \in X => In(X)'
  BY <1>1, <1>2, <1>7, TellKeeps DEF engineVars, ipcVars, powerVars
<1>8. ASSUME NEW task \in {"watcher", "hangup"}, ReloadFromFile(task) PROVE Kept
  <2>1. CASE file \in Good \cup BadRule
    <3>1. /\ Ev("ConfigReloaded", task, file) \in Event
          /\ Ev("ConfigReloaded", task, file).type = "ConfigReloaded"
      BY <2>1, EventKinds DEF Ev
    <3>2. QED
      BY <1>7, <1>8, <2>1, <3>1 DEF ReloadFromFile
  <2>2. CASE file \notin Good \cup BadRule
    BY <1>6, <1>8, <2>2 DEF ReloadFromFile
  <2>3. QED
    BY <2>1, <2>2
<1>9. ASSUME NEW task \in {"signal", "desktop"}, Send(Ev("Shutdown", task, None))
      PROVE  Kept /\ In(ShutdownBy(task))'
  <2>1. /\ Ev("Shutdown", task, None) \in Event
        /\ Ev("Shutdown", task, None) \in ShutdownBy(task)
        /\ Ev("Shutdown", task, None).type = "Shutdown"
    BY EventKinds DEF Ev, ShutdownBy
  <2>2. QED
    BY <1>7, <1>9, <2>1
<1>10. Kept /\ ShutdownOn'
  <2>1. CASE WatcherReload \/ HangupReload
    <3>1. Kept /\ UNCHANGED <<term, desktop>>
      BY <1>8, <2>1 DEF WatcherReload, HangupReload, restVars
    <3>2. QED
      BY <1>1, <1>2, <3>1 DEF ShutdownOn, engineVars
  <2>2. CASE Terminate
    <3>1. Kept /\ In(ShutdownBy("signal"))' /\ desktop' = desktop
      BY <1>9, <2>2 DEF Terminate
    <3>2. QED
      BY <1>1, <1>2, <3>1 DEF ShutdownOn, engineVars
  <2>3. CASE Focus
    <3>1. Ev("FocusChanged", "desktop", None) \in Event
          /\ Ev("FocusChanged", "desktop", None).type = "FocusChanged"
      BY EventKinds DEF Ev
    <3>2. /\ Kept /\ term' = term
          /\ desktop' = desktop \/ In(ShutdownBy("desktop"))'
      BY <1>7, <1>9, <2>3, <3>1 DEF Focus
    <3>3. QED
      BY <1>1, <1>2, <3>2 DEF ShutdownOn, engineVars
  <2>4. CASE Timer
    <3>1. Ev("SuspendTimerFired", "timer", None) \in Event
          /\ Ev("SuspendTimerFired", "timer", None).type = "SuspendTimerFired"
      BY EventKinds DEF Ev
    <3>2. Kept /\ UNCHANGED <<term, desktop>>
      BY <1>7, <2>4, <3>1 DEF Timer
    <3>3. QED
      BY <1>1, <1>2, <3>2 DEF ShutdownOn, engineVars
  <2>5. QED
    BY <2>1, <2>2, <2>3, <2>4
<1>11. QED
  BY <1>3, <1>5, <1>10
  DEF IInv, TypeOK, QueueType, EngineType, ConnType, OtherType

\* What the monitor finds goes behind all it has found before.
LEMMA PollKeeps ==
    ASSUME IInv, Poll
    PROVE  IInv'
<1> DEFINE e == Ev("PowerSourceChanged", "monitor", power)
<1>1. /\ QueueType /\ EngineType /\ ConnType /\ OtherType
      /\ AskKnown /\ BacklogWaits /\ RequestsOnce /\ ShutdownOn /\ FindingsLast
  BY IInvParts
<1>2. /\ UNCHANGED <<engineVars, ipcVars, fileVars, power, restVars>>
      /\ polled' = power /\ Send(e) /\ ~Blocked("monitor")
  BY DEF Poll
<1>3. EngineType' /\ ConnType' /\ AskKnown' /\ BacklogWaits' /\ OtherType'
  BY <1>1, <1>2, ConnKept DEF EngineType, OtherType, engineVars, fileVars, restVars
<1>4. e \in Event /\ e \in Findings /\ e.of = power
  BY <1>1, EventKinds DEF OtherType, Ev, Findings
<1> HIDE DEF e
<1>5. /\ QueueType'
      /\ \A X : In(X)' <=> In(X) \/ e \in X
      /\ \A X : Once(X) /\ (e \in X => ~In(X)) => Once(X)'
  BY <1>1, <1>2, <1>4, SendFacts
<1>6. RequestsOnce'
  <2>1. \A c \in Conn : e \notin RequestOf(c)
    BY <1>4 DEF RequestOf, Findings, Asks
  <2>2. QED
    BY <1>1, <1>2, <1>5, <2>1 DEF RequestsOnce, ipcVars
<1>7. ShutdownOn'
  BY <1>1, <1>2, <1>5 DEF ShutdownOn, engineVars, restVars
<1>8. ~Has(waiting, Findings)
  <2>1. \A i \in DOMAIN waiting : waiting[i] \in Event
    BY <1>1, ElementOfSeq, LenProperties DEF QueueType
  <2>2. \A f \in Findings : f.by = "monitor"
    BY DEF Findings, Event
  <2>3. QED
    BY <1>2, <2>2 DEF Has, Blocked
<1>9. FindingsLast'
  <2>1. \/ channel' = Append(channel, e) /\ waiting' = waiting
        \/ waiting' = Append(waiting, e) /\ channel' = channel
    BY <1>2 DEF Send
  <2>2. \A s \in Seq(Event) :
          /\ Has(Append(s, e), Findings)
          /\ ~Has(s, Findings) => Single(Append(s, e), Findings)
          /\ Last(Append(s, e), Findings, power)
    <3>1. \A s \in Seq(Event) : ~Has(s, Findings) => Single(s, Findings)
      BY DEF Has, Single
    <3>2. QED
      BY <1>4, <3>1, AppendFacts
  <2>3. /\ Single(waiting, Findings) /\ Last(waiting, Findings, power)
    BY <1>8 DEF Has, Single, Last
  <2>4. CASE channel' = Append(channel, e) /\ waiting' = waiting
    BY <1>1, <1>2, <1>4, <1>5, <1>8, <2>2, <2>3, <2>4 DEF FindingsLast, QueueType
  <2>5. CASE waiting' = Append(waiting, e) /\ channel' = channel
    BY <1>1, <1>2, <1>4, <1>5, <1>8, <2>2, <2>5 DEF FindingsLast, QueueType
  <2>6. QED
    BY <2>1, <2>4, <2>5
<1>10. QED
  BY <1>3, <1>5, <1>6, <1>7, <1>9
  DEF IInv, TypeOK, QueueType, EngineType, ConnType, OtherType

----------------------------------------------------------------------------
(* Connections                                                             *)

\* What a step of the socket server does to connections, and to nothing else.
LEMMA ServerLeaves ==
    ASSUME IInv, UNCHANGED <<engineVars, fileVars, powerVars, hangup, term, desktop>>,
           left' \in [Outside -> Nat], QueueType',
           ConnType', AskKnown', BacklogWaits', RequestsOnce',
           \A X : In(X) => In(X)', FindingsLast'
    PROVE  IInv'
<1>1. EngineType /\ OtherType /\ ShutdownOn
  BY IInvParts
<1>2. EngineType' /\ OtherType' /\ ShutdownOn'
  BY <1>1 DEF EngineType, OtherType, ShutdownOn, engineVars, fileVars, powerVars
<1>3. QED
  BY <1>2 DEF IInv, TypeOK, QueueType, EngineType, ConnType, OtherType

LEMMA ServedIsFinite == IsFiniteSet(Served) /\ Cardinality(Served) \in Nat
BY ChannelAssumption, FS_Subset, FS_CardinalityType DEF Served

\* No connection is served that was not before.
LEMMA NoMoreServed ==
    ASSUME Cardinality(Served) <= MaxConnections, Served' \subseteq Served
    PROVE  Cardinality(Served)' <= MaxConnections
<1>1. Cardinality(Served') <= Cardinality(Served) /\ Cardinality(Served') \in Nat
  BY ServedIsFinite, FS_Subset, FS_CardinalityType
<1>2. QED
  BY <1>1, ServedIsFinite, ChannelAssumption

LEMMA ConnectKeeps ==
    ASSUME IInv, NEW c \in Conn, NEW what \in Ask[c], Connect(c, what)
    PROVE  IInv'
<1>1. /\ QueueType /\ EngineType /\ ConnType /\ OtherType
      /\ AskKnown /\ BacklogWaits /\ RequestsOnce /\ ShutdownOn /\ FindingsLast
  BY IInvParts
<1>2. /\ UNCHANGED <<channel, waiting, engineVars, fileVars, powerVars, hangup, term, desktop>>
      /\ conn[c] = "away" /\ conn' = [conn EXCEPT ![c] = "connected"]
      /\ ask' = [ask EXCEPT ![c] = what] /\ backlog' = Append(backlog, c)
      /\ Happens("connect")
  BY DEF Connect
<1>3. left' \in [Outside -> Nat]
  BY <1>1, <1>2 DEF Happens, OtherType, Outside
<1>4. what \in Requests
  BY ChannelAssumption
<1>5. /\ conn' \in [Conn -> {"away", "connected", "reading", "asked", "replied", "closed"}]
      /\ ask' \in [Conn -> Requests \cup {None}] /\ backlog' \in Seq(Conn)
  BY <1>1, <1>2, <1>4, AppendProperties DEF ConnType
<1>6. AskKnown'
  BY <1>1, <1>2, <1>4 DEF AskKnown, ConnType
<1>7. BacklogWaits'
  <2> DEFINE n == Len(backlog)
  <2>1. /\ n \in Nat /\ DOMAIN backlog = 1..n /\ DOMAIN backlog' = 1..(n + 1)
        /\ \A i \in 1..n : backlog'[i] = backlog[i] /\ backlog[i] \in Conn
        /\ backlog'[n + 1] = c
    BY <1>1, <1>2, <1>5, AppendProperties, LenProperties, ElementOfSeq DEF ConnType
  <2> HIDE DEF n
  <2>2. \A i \in 1..n : backlog[i] # c /\ conn'[backlog[i]] = "connected"
    BY <1>1, <1>2, <2>1 DEF BacklogWaits, ConnType
  <2>3. QED
    BY <1>1, <1>2, <2>1, <2>2 DEF BacklogWaits, ConnType
<1>8. Served' \subseteq Served
  BY <1>1, <1>2 DEF Served, ConnType
<1>9. ConnType'
  BY <1>1, <1>5, <1>8, NoMoreServed DEF ConnType
<1>10. RequestsOnce' /\ QueueType' /\ \A X : In(X) <=> In(X)'
  BY <1>1, <1>2 DEF RequestsOnce, QueueType, ConnType, In, Once
<1>11. FindingsLast'
  BY <1>1, <1>2 DEF FindingsLast, In, engineVars, powerVars
<1>12. QED
  BY <1>2, <1>3, <1>6, <1>7, <1>9, <1>10, <1>11, ServerLeaves

\* Connections are accepted as long as there is a permit.
LEMMA AcceptKeeps ==
    ASSUME IInv, Accept
    PROVE  IInv'
<1> DEFINE c == Head(backlog)
<1>1. /\ QueueType /\ EngineType /\ ConnType /\ OtherType
      /\ AskKnown /\ BacklogWaits /\ RequestsOnce /\ ShutdownOn /\ FindingsLast
  BY IInvParts
<1>2. /\ UNCHANGED <<channel, waiting, engineVars, ask, fileVars, powerVars, restVars>>
      /\ backlog # <<>> /\ Cardinality(Served) < MaxConnections
      /\ conn' = [conn EXCEPT ![c] = "reading"] /\ backlog' = Tail(backlog)
  BY DEF Accept
<1>3. /\ Len(backlog) \in Nat \ {0} /\ DOMAIN backlog = 1..Len(backlog)
      /\ backlog' \in Seq(Conn) /\ DOMAIN backlog' = 1..(Len(backlog) - 1)
      /\ \A i \in 1..(Len(backlog) - 1) : backlog'[i] = backlog[i + 1]
      /\ c = backlog[1] /\ c \in Conn
  BY <1>1, <1>2, HeadTailProperties, LenProperties, EmptySeq DEF ConnType
<1>4. conn[c] = "connected"
  BY <1>1, <1>3 DEF BacklogWaits
<1> HIDE DEF c
<1>5. /\ conn' \in [Conn -> {"away", "connected", "reading", "asked", "replied", "closed"}]
      /\ \A d \in Conn : d # c => conn'[d] = conn[d]
      /\ conn'[c] = "reading"
  BY <1>1, <1>2, <1>3 DEF ConnType
<1>6. AskKnown'
  BY <1>1, <1>2, <1>4, <1>5 DEF AskKnown
<1>7. BacklogWaits'
  <2>1. \A i \in 1..(Len(backlog) - 1) :
          i + 1 \in DOMAIN backlog /\ 1 \in DOMAIN backlog /\ i + 1 # 1
    BY <1>3
  <2>2. \A i \in 1..(Len(backlog) - 1) :
          backlog[i + 1] # c /\ backlog[i + 1] \in Conn /\ conn[backlog[i + 1]] = "connected"
    BY <1>1, <1>3, <2>1, ElementOfSeq DEF BacklogWaits, ConnType
  <2>3. \A i \in DOMAIN backlog' : conn'[backlog'[i]] = "connected"
    BY <1>3, <1>5, <2>2
  <2>4. \A i, j \in DOMAIN backlog' : backlog'[i] = backlog'[j] => i = j
    <3>1. SUFFICES ASSUME NEW i \in DOMAIN backlog', NEW j \in DOMAIN backlog',
                          backlog'[i] = backlog'[j]
                   PROVE  i = j
      OBVIOUS
    <3>2. i \in 1..(Len(backlog) - 1) /\ j \in 1..(Len(backlog) - 1)
      BY <1>3
    <3>3. backlog[i + 1] = backlog[j + 1] /\ i + 1 \in DOMAIN backlog /\ j + 1 \in DOMAIN backlog
      BY <1>3, <2>1, <3>1, <3>2
    <3>4. i + 1 = j + 1
      BY <1>1, <3>3 DEF BacklogWaits
    <3>5. QED
      BY <3>2, <3>4
  <2>5. QED
    BY <2>3, <2>4 DEF BacklogWaits
<1>8. Cardinality(Served') <= MaxConnections
  <2>1. Served' = Served \cup {c}
    BY <1>3, <1>5 DEF Served
  <2>2. Cardinality(Served \cup {c}) <= Cardinality(Served) + 1
    <3>1. Cardinality(Served \cup {c}) = IF c \in Served THEN Cardinality(Served)
                                         ELSE Cardinality(Served) + 1
      BY ServedIsFinite, FS_AddElement
    <3>2. QED
      BY <3>1, ServedIsFinite
  <2>3. Cardinality(Served) + 1 <= MaxConnections
    BY <1>2, ServedIsFinite, ChannelAssumption
  <2>4. Cardinality(Served \cup {c}) \in Nat
    BY ServedIsFinite, FS_AddElement, FS_CardinalityType
  <2>5. QED
    BY <2>1, <2>2, <2>3, <2>4, ServedIsFinite, ChannelAssumption
<1>9. ConnType'
  BY <1>1, <1>2, <1>3, <1>5, <1>8 DEF ConnType
<1>10. RequestsOnce' /\ QueueType' /\ \A X : In(X) <=> In(X)'
  BY <1>1, <1>2, <1>4, <1>5 DEF RequestsOnce, QueueType, In, Once
<1>11. FindingsLast'
  BY <1>1, <1>2 DEF FindingsLast, In, engineVars, powerVars
<1>12. left' \in [Outside -> Nat] /\ UNCHANGED <<hangup, term, desktop>>
  BY <1>1, <1>2 DEF OtherType, restVars
<1>13. QED
  BY <1>2, <1>6, <1>7, <1>9, <1>10, <1>11, <1>12, ServerLeaves

\* A connection moves on that has left the backlog.
LEMMA StageKeeps ==
    ASSUME ConnType, AskKnown, BacklogWaits, NEW c \in Conn,
           conn[c] \in {"reading", "asked", "replied"},
           NEW stage \in {"asked", "replied", "closed"},
           conn' = [conn EXCEPT ![c] = stage], UNCHANGED <<ask, backlog>>
    PROVE  ConnType' /\ AskKnown' /\ BacklogWaits'
<1>1. /\ conn' \in [Conn -> {"away", "connected", "reading", "asked", "replied", "closed"}]
      /\ \A d \in Conn : d # c => conn'[d] = conn[d]
      /\ conn'[c] = stage
  BY DEF ConnType
<1>2. Served' \subseteq Served
  BY <1>1 DEF Served
<1>3. ConnType'
  BY <1>1, <1>2, NoMoreServed DEF ConnType
<1>4. AskKnown'
  BY <1>1 DEF AskKnown
<1>5. BacklogWaits'
  <2>1. \A i \in DOMAIN backlog : backlog[i] \in Conn /\ backlog[i] # c
    BY ElementOfSeq, LenProperties DEF ConnType, BacklogWaits
  <2>2. QED
    BY <1>1, <2>1 DEF BacklogWaits
<1>6. QED
  BY <1>3, <1>4, <1>5

\* A request that was read goes to the engine, once.
LEMMA ReadKeeps ==
    ASSUME IInv, NEW c \in Conn, Read(c)
    PROVE  IInv'
<1>1. /\ QueueType /\ EngineType /\ ConnType /\ OtherType
      /\ AskKnown /\ BacklogWaits /\ RequestsOnce /\ ShutdownOn /\ FindingsLast
  BY IInvParts
<1>2. /\ UNCHANGED <<engineVars, ask, backlog, fileVars, powerVars, restVars>>
      /\ conn[c] = "reading"
  BY DEF Read
<1>3. left' \in [Outside -> Nat] /\ UNCHANGED <<hangup, term, desktop>>
  BY <1>1, <1>2 DEF OtherType, restVars
<1>4. CASE conn' = [conn EXCEPT ![c] = "closed"] /\ UNCHANGED <<channel, waiting>>
  <2>1. ConnType' /\ AskKnown' /\ BacklogWaits'
    BY <1>1, <1>2, <1>4, StageKeeps
  <2>2. RequestsOnce' /\ QueueType' /\ \A X : In(X) <=> In(X)'
    BY <1>1, <1>2, <1>4 DEF RequestsOnce, QueueType, ConnType, In, Once
  <2>3. FindingsLast'
    BY <1>1, <1>2, <1>4 DEF FindingsLast, In, engineVars, powerVars
  <2>4. QED
    BY <1>2, <1>3, <2>1, <2>2, <2>3, ServerLeaves
<1>5. CASE /\ ask[c] \notin {"garbage", "silent"}
           /\ conn' = [conn EXCEPT ![c] = "asked"]
           /\ Send(Ev("IpcRequest", c, ask[c]))
  <2> DEFINE e == Ev("IpcRequest", c, ask[c])
  <2>1. ConnType' /\ AskKnown' /\ BacklogWaits'
    BY <1>1, <1>2, <1>5, StageKeeps
  <2>2. ask[c] \in {"query", "reload", "shutdown"}
    BY <1>1, <1>2, <1>5 DEF AskKnown, Requests
  <2>3. /\ e \in RequestOf(c) /\ e \notin Findings /\ e \in Event
        /\ \A d \in Conn : d # c => e \notin RequestOf(d)
    BY <2>2, RequestEvents DEF RequestOf
  <2> HIDE DEF e
  <2>4. Send(e)
    BY <1>5 DEF e
  <2>5. /\ QueueType'
        /\ \A X : In(X)' <=> In(X) \/ e \in X
        /\ \A X : Once(X) /\ (e \in X => ~In(X)) => Once(X)'
    BY <1>1, <2>3, <2>4, SendFacts
  <2>6. RequestsOnce'
    <3>1. conn'[c] = "asked" /\ \A d \in Conn : d # c => conn'[d] = conn[d]
      BY <1>1, <1>5 DEF ConnType
    <3>2. ~In(RequestOf(c))
      BY <1>1, <1>2 DEF RequestsOnce
    <3>3. QED
      BY <1>1, <2>3, <2>5, <3>1, <3>2 DEF RequestsOnce
  <2>7. FindingsLast'
    <3>1. \/ channel' = Append(channel, e) /\ waiting' = waiting
          \/ waiting' = Append(waiting, e) /\ channel' = channel
      BY <2>4 DEF Send
    <3>2. \A s \in Seq(Event) :
            /\ Has(Append(s, e), Findings) <=> Has(s, Findings)
            /\ Single(s, Findings) => Single(Append(s, e), Findings)
            /\ \A v : Last(s, Findings, v) => Last(Append(s, e), Findings, v)
      BY <2>3, AppendFacts
    <3>3. UNCHANGED <<engine, source, polled>>
      BY <1>2 DEF engineVars, powerVars
    <3>4. CASE channel' = Append(channel, e) /\ waiting' = waiting
      BY <1>1, <2>3, <2>5, <3>2, <3>3, <3>4 DEF FindingsLast, QueueType
    <3>5. CASE waiting' = Append(waiting, e) /\ channel' = channel
      BY <1>1, <2>3, <2>5, <3>2, <3>3, <3>5 DEF FindingsLast, QueueType
    <3>6. QED
      BY <3>1, <3>4, <3>5
  <2>8. QED
    BY <1>2, <1>3, <2>1, <2>5, <2>6, <2>7, ServerLeaves
<1>6. QED
  BY <1>4, <1>5 DEF Read

LEMMA RespondKeeps ==
    ASSUME IInv, NEW c \in Conn, Respond(c)
    PROVE  IInv'
<1>1. /\ QueueType /\ EngineType /\ ConnType /\ OtherType
      /\ AskKnown /\ BacklogWaits /\ RequestsOnce /\ ShutdownOn /\ FindingsLast
  BY IInvParts
<1>2. /\ UNCHANGED <<channel, waiting, engineVars, ask, backlog, fileVars, powerVars, restVars>>
      /\ conn[c] = "replied" /\ conn' = [conn EXCEPT ![c] = "closed"]
  BY DEF Respond
<1>3. left' \in [Outside -> Nat] /\ UNCHANGED <<hangup, term, desktop>>
  BY <1>1, <1>2 DEF OtherType, restVars
<1>4. ConnType' /\ AskKnown' /\ BacklogWaits'
  BY <1>1, <1>2, StageKeeps
<1>5. RequestsOnce' /\ QueueType' /\ \A X : In(X) <=> In(X)'
  BY <1>1, <1>2 DEF RequestsOnce, QueueType, ConnType, In, Once
<1>6. FindingsLast'
  BY <1>1, <1>2 DEF FindingsLast, In, engineVars, powerVars
<1>7. QED
  BY <1>2, <1>3, <1>4, <1>5, <1>6, ServerLeaves

----------------------------------------------------------------------------
(* The engine takes an event                                               *)

\* The loop ends with nothing left that anybody waits for.
LEMMA EndKeeps ==
    ASSUME IInv, End, budget' \in 0..Budget, UNCHANGED <<ask, fileVars, powerVars, restVars>>
    PROVE  IInv'
<1>1. /\ QueueType /\ EngineType /\ ConnType /\ OtherType /\ AskKnown
  BY IInvParts
<1>2. /\ engine' = "ended" /\ channel' = <<>> /\ waiting' = <<>> /\ backlog' = <<>>
      /\ conn' = [c \in Conn |-> IF conn[c] = "away" THEN "away" ELSE "closed"]
      /\ UNCHANGED <<config, source>>
  BY DEF End
<1>3. QueueType' /\ EngineType' /\ OtherType'
  BY <1>1, <1>2, EmptySeq, LenProperties, ChannelAssumption
  DEF QueueType, EngineType, OtherType, fileVars, powerVars, restVars
<1>4. Served' \subseteq Served
  BY <1>2 DEF Served
<1>5. ConnType'
  BY <1>1, <1>2, <1>4, NoMoreServed, EmptySeq DEF ConnType
<1>6. AskKnown' /\ BacklogWaits'
  BY <1>1, <1>2 DEF AskKnown, BacklogWaits
<1>7. \A X : ~In(X)' /\ Once(X)'
  BY <1>2, NoneInEmpty DEF In, Once
<1>8. RequestsOnce' /\ ShutdownOn' /\ FindingsLast'
  BY <1>2, <1>7 DEF RequestsOnce, ShutdownOn, FindingsLast
<1>9. QED
  BY <1>3, <1>5, <1>6, <1>8 DEF IInv, TypeOK, QueueType, EngineType, ConnType, OtherType

\* An event of the engine's own is neither a request nor a finding.
LEMMA OwnEvents ==
    ASSUME OtherType, NEW rest, NEW what, HandleIpc(rest, what)
    PROVE  \/ channel' = rest
           \/ \E f \in Event : /\ f.type \in {"Shutdown", "ConfigReloaded"}
                               /\ channel' = Append(rest, f)
                               /\ Len(rest) + Len(waiting) < Capacity
<1>1. /\ Ev("Shutdown", "engine", None) \in Event
      /\ Ev("Shutdown", "engine", None).type = "Shutdown"
  BY DEF Ev, Event
<1>2. file \in Good \cup BadRule =>
        /\ Ev("ConfigReloaded", "engine", file) \in Event
        /\ Ev("ConfigReloaded", "engine", file).type = "ConfigReloaded"
  BY DEF Ev, Event
<1>3. \A f : EngineSends(rest, f) =>
        \/ channel' = rest
        \/ channel' = Append(rest, f) /\ Len(rest) + Len(waiting) < Capacity
  BY DEF EngineSends
<1>4. CASE what = "shutdown"
  <2>1. EngineSends(rest, Ev("Shutdown", "engine", None))
    BY <1>4 DEF HandleIpc
  <2>2. QED
    BY <1>1, <1>3, <2>1
<1>5. CASE what # "shutdown" /\ what = "reload" /\ file \in Good \cup BadRule
  <2>1. EngineSends(rest, Ev("ConfigReloaded", "engine", file))
    BY <1>5 DEF HandleIpc
  <2>2. QED
    BY <1>2, <1>3, <1>5, <2>1
<1>6. CASE what # "shutdown" /\ ~(what = "reload" /\ file \in Good \cup BadRule)
  BY <1>6 DEF HandleIpc
<1>7. QED
  BY <1>4, <1>5, <1>6

\* Where nothing is sent or what is sent is the engine's own, the order of the
\* findings stays; the engine goes by the one it takes.
LEMMA TakeFindings ==
    ASSUME QueueType, FindingsLast, channel # <<>>, waiting' = waiting, polled' = polled,
           engine # "ended",
           \/ channel' = Tail(channel)
           \/ \E f \in Event : /\ f.type \in {"Shutdown", "ConfigReloaded"}
                               /\ channel' = Append(Tail(channel), f),
           source' = IF Head(channel) \in Findings THEN Head(channel).of ELSE source
    PROVE  FindingsLast'
<1> DEFINE e    == Head(channel)
           rest == Tail(channel)
<1>1. /\ Has(channel, Findings) <=> e \in Findings \/ Has(rest, Findings)
      /\ Last(channel, Findings, polled) =>
           /\ Last(rest, Findings, polled)
           /\ e \in Findings /\ ~Has(rest, Findings) => e.of = polled
  BY TailFacts DEF QueueType
<1>2. rest \in Seq(Event)
  BY HeadTailProperties DEF QueueType
<1>3. /\ Has(channel', Findings) <=> Has(rest, Findings)
      /\ Last(rest, Findings, polled) => Last(channel', Findings, polled)
  <2>1. ASSUME NEW f \in Event, f.type \in {"Shutdown", "ConfigReloaded"},
               channel' = Append(rest, f)
        PROVE  /\ Has(channel', Findings) <=> Has(rest, Findings)
               /\ Last(rest, Findings, polled) => Last(channel', Findings, polled)
    <3>1. f \notin Findings
      BY <2>1 DEF Findings
    <3>2. QED
      BY <1>2, <2>1, <3>1, AppendFacts
  <2>2. QED
    BY <2>1
<1> HIDE DEF e, rest
<1>4. /\ Single(waiting, Findings) /\ Last(waiting, Findings, polled)
      /\ ~Has(waiting, Findings) => Last(channel, Findings, polled)
      /\ ~In(Findings) => polled \in {source, None}
  BY DEF FindingsLast
<1>5. ~In(Findings)' => polled \in {source', None}
  BY <1>1, <1>3, <1>4 DEF In, e
<1>6. QED
  BY <1>1, <1>3, <1>4, <1>5 DEF FindingsLast

LEMMA TakeKeeps ==
    ASSUME IInv, Take
    PROVE  IInv'
<1> DEFINE e    == Head(channel)
           rest == Tail(channel)
<1>1. /\ QueueType /\ EngineType /\ ConnType /\ OtherType
      /\ AskKnown /\ BacklogWaits /\ RequestsOnce /\ ShutdownOn /\ FindingsLast
  BY IInvParts
<1>2. /\ channel # <<>> /\ engine # "ended" /\ Handle(e, rest)
      /\ UNCHANGED <<ask, fileVars, powerVars, restVars>>
  BY DEF Take
<1>3. budget' \in 0..Budget
  BY <1>1, ChannelAssumption DEF Take, EngineType
<1>4. e \in Event
  BY <1>1, <1>2, HeadTailProperties DEF QueueType
<1>5. OtherType'
  BY <1>1, <1>2 DEF OtherType, fileVars, powerVars, restVars
<1>6. CASE End
  BY <1>2, <1>3, <1>6, EndKeeps
<1>7. CASE ~End
  <2>1. e.type # "Shutdown" /\ waiting' = waiting /\ engine' # "ended" /\ backlog' = backlog
    BY <1>2, <1>4, <1>7 DEF Handle, Event
  <2>2. \/ channel' = rest
        \/ \E f \in Event : /\ f.type \in {"Shutdown", "ConfigReloaded"}
                            /\ channel' = Append(rest, f)
                            /\ Len(rest) + Len(waiting) < Capacity
    <3>1. HandleIpc(rest, e.of) \/ channel' = rest
      BY <1>2, <1>7 DEF Handle
    <3>2. QED
      BY <1>1, <3>1, OwnEvents
  <2>3. /\ QueueType'
        /\ \A X : In(X) => e \in X \/ In(X)'
    BY <1>1, <1>2, <2>1, <2>2, TakeFacts
  <2>4. ASSUME NEW c \in Conn
        PROVE  /\ Once(RequestOf(c))'
               /\ e \in RequestOf(c) => ~In(RequestOf(c))'
               /\ In(RequestOf(c))' => In(RequestOf(c))
    <3>1. \A f \in RequestOf(c) : channel' # Append(rest, f)
      <4>1. \A f \in RequestOf(c) : f \in Event /\ f.type = "IpcRequest"
        BY DEF RequestOf, Asks
      <4>2. ASSUME NEW f \in RequestOf(c), channel' = Append(rest, f) PROVE FALSE
        <5>1. rest \in Seq(Event)
          BY <1>1, <1>2, HeadTailProperties DEF QueueType
        <5>2. channel' # rest
          BY <4>1, <4>2, <5>1, AppendProperties, LenProperties
        <5>3. PICK g \in Event : /\ g.type \in {"Shutdown", "ConfigReloaded"}
                                 /\ channel' = Append(rest, g)
          BY <2>2, <5>2
        <5>4. f = g
          <6>1. /\ Append(rest, f)[Len(rest) + 1] = f
                /\ Append(rest, g)[Len(rest) + 1] = g
            BY <4>1, <5>1, AppendProperties
          <6>2. QED
            BY <4>2, <5>3, <6>1
        <5>5. QED
          BY <4>1, <5>3, <5>4
      <4>3. QED
        BY <4>2
    <3>2. Once(RequestOf(c))
      BY <1>1 DEF RequestsOnce
    <3>3. QED
      BY <1>1, <1>2, <2>1, <2>2, <3>1, <3>2, TakeFacts
  <2>5. ShutdownOn'
    <3>1. \A task : e \notin ShutdownBy(task)
      BY <2>1 DEF ShutdownBy, Ends
    <3>2. UNCHANGED <<term, desktop>>
      BY <1>2 DEF restVars
    <3>3. QED
      BY <1>1, <1>2, <2>3, <3>1, <3>2 DEF ShutdownOn
  <2>6. FindingsLast'
    <3>1. source' = IF e \in Findings THEN e.of ELSE source
      BY <1>2, <1>4, <1>7 DEF Handle, Findings
    <3>2. polled' = polled
      BY <1>2 DEF powerVars
    <3>3. QED
      BY <1>1, <1>2, <2>1, <2>2, <3>1, <3>2, TakeFindings
  <2>7. EngineType'
    <3>1. engine' \in {"polled", "awaiting"}
      BY <1>2, <1>7 DEF Handle
    <3>2. config' \in Good \cup {Default}
      BY <1>1, <1>2, <1>7 DEF Handle, EngineType
    <3>3. source' \in Source \cup {"unknown"}
      BY <1>1, <1>2, <1>4, <1>7 DEF Handle, EngineType, Event
    <3>4. QED
      BY <1>3, <3>1, <3>2, <3>3 DEF EngineType
  <2>8. CASE e.type = "IpcRequest"
    <3>1. e.by \in Conn /\ e \in RequestOf(e.by) /\ \A c \in Conn : e \in RequestOf(c) => c = e.by
      BY <1>4, <2>8 DEF Event, RequestOf, Asks
    <3>2. In(RequestOf(e.by))
      <4>1. Has(channel, RequestOf(e.by))
        BY <1>1, <1>2, <3>1, TailFacts DEF QueueType
      <4>2. QED
        BY <4>1 DEF In
    <3>3. conn[e.by] = "asked" /\ conn' = [conn EXCEPT ![e.by] = "replied"]
      BY <1>1, <1>2, <1>7, <2>8, <3>1, <3>2 DEF RequestsOnce, Handle
    <3>4. ConnType' /\ AskKnown' /\ BacklogWaits'
      BY <1>1, <1>2, <2>1, <3>1, <3>3, StageKeeps
    <3>5. conn'[e.by] = "replied" /\ \A c \in Conn : c # e.by => conn'[c] = conn[c]
      BY <1>1, <3>1, <3>3 DEF ConnType
    <3>6. RequestsOnce'
      BY <1>1, <2>3, <2>4, <3>1, <3>5 DEF RequestsOnce
    <3>7. QED
      BY <1>5, <2>3, <2>5, <2>6, <2>7, <3>4, <3>6
      DEF IInv, TypeOK, QueueType, EngineType, ConnType, OtherType
  <2>9. CASE e.type # "IpcRequest"
    <3>1. conn' = conn /\ \A c \in Conn : e \notin RequestOf(c)
      BY <1>2, <1>7, <2>9 DEF Handle, RequestOf, Asks
    <3>2. ConnType' /\ AskKnown' /\ BacklogWaits'
      BY <1>1, <1>2, <2>1, <3>1, ConnKept DEF ipcVars
    <3>3. RequestsOnce'
      BY <1>1, <2>3, <2>4, <3>1 DEF RequestsOnce
    <3>4. QED
      BY <1>5, <2>3, <2>5, <2>6, <2>7, <3>2, <3>3
      DEF IInv, TypeOK, QueueType, EngineType, ConnType, OtherType
  <2>10. QED
    BY <2>8, <2>9
<1>8. QED
  BY <1>6, <1>7

----------------------------------------------------------------------------
(* The specification                                                       *)

LEMMA InitEstablishes ==
    ASSUME Init
    PROVE  IInv
<1>1. QueueType /\ EngineType /\ OtherType
  <2>1. budget = 0 /\ 0 \in 0..Budget
    BY ChannelAssumption DEF Init
  <2>2. QueueType
    BY EmptySeq, ChannelAssumption DEF Init, QueueType
  <2>3. EngineType
    BY <2>1 DEF Init, EngineType
  <2>4. OtherType
    BY ChannelAssumption DEF Init, OtherType
  <2>5. QED
    BY <2>2, <2>3, <2>4
<1>2. ConnType
  <2>1. Served = {}
    BY DEF Init, Served
  <2>2. Cardinality(Served) <= MaxConnections
    BY <2>1, FS_EmptySet, ChannelAssumption
  <2>3. QED
    BY <2>2, EmptySeq DEF Init, ConnType
<1>3. AskKnown /\ BacklogWaits
  BY DEF Init, AskKnown, BacklogWaits
<1>4. \A X : ~In(X) /\ Once(X)
  BY NoneInEmpty DEF Init, In, Once
<1>5. RequestsOnce /\ ShutdownOn
  BY <1>4 DEF Init, RequestsOnce, ShutdownOn
<1>6. FindingsLast
  BY NoneInEmpty DEF Init, FindingsLast
<1>7. QED
  BY <1>1, <1>2, <1>3, <1>5, <1>6, TypeParts DEF IInv

LEMMA NextKeeps ==
    ASSUME IInv, [Next]_vars
    PROVE  IInv'
<1>1. CASE Take
  BY <1>1, TakeKeeps
<1>2. CASE Admit
  <2>1. /\ QueueType /\ EngineType /\ ConnType /\ OtherType
        /\ AskKnown /\ BacklogWaits /\ RequestsOnce /\ ShutdownOn /\ FindingsLast
    BY IInvParts
  <2>2. QueueType' /\ RequestsOnce' /\ FindingsLast' /\ \A X : In(X)' <=> In(X)
    BY <1>2, <2>1, AdmitKeeps
  <2>3. UNCHANGED <<engineVars, ipcVars, fileVars, powerVars, restVars>>
    BY <1>2 DEF Admit
  <2>4. /\ EngineType' /\ OtherType' /\ ShutdownOn'
        /\ ConnType' /\ AskKnown' /\ BacklogWaits'
    BY <2>1, <2>2, <2>3, ConnKept
    DEF EngineType, OtherType, ShutdownOn, engineVars, fileVars, powerVars, restVars
  <2>5. QED
    BY <2>2, <2>4 DEF IInv, TypeOK, QueueType, EngineType, ConnType, OtherType
<1>3. CASE \/ Yield \/ Resume \/ Watch \/ Hangup \/ Signal
           \/ \E content \in Content \cup {None} : Edit(content)
           \/ \E s \in Source : PowerChange(s)
  BY <1>3, OutsideKeeps
<1>4. CASE WatcherReload \/ HangupReload \/ Terminate \/ Focus \/ Timer
  BY <1>4, TasksKeep
<1>5. CASE Poll
  BY <1>5, PollKeeps
<1>6. CASE Accept
  BY <1>6, AcceptKeeps
<1>7. CASE \E c \in Conn : Read(c) \/ Respond(c)
  BY <1>7, ReadKeeps, RespondKeeps
<1>8. CASE \E c \in Conn : \E what \in Ask[c] : Connect(c, what)
  BY <1>8, ConnectKeeps
<1>9. CASE UNCHANGED vars
  <2>1. /\ QueueType /\ EngineType /\ ConnType /\ OtherType
        /\ AskKnown /\ BacklogWaits /\ RequestsOnce /\ ShutdownOn /\ FindingsLast
    BY IInvParts
  <2>2. UNCHANGED <<channel, waiting, engineVars, ipcVars, fileVars, powerVars, restVars>>
    BY <1>9 DEF vars
  <2>3. ConnType' /\ AskKnown' /\ BacklogWaits'
    BY <2>1, <2>2, ConnKept
  <2>4. RequestsOnce' /\ FindingsLast' /\ \A X : In(X)' <=> In(X)
    BY <2>1, <2>2, QuietKeeps DEF engineVars, ipcVars, powerVars
  <2>5. QueueType' /\ EngineType' /\ OtherType' /\ ShutdownOn'
    BY <2>1, <2>2, <2>4 DEF QueueType, EngineType, OtherType, ShutdownOn, engineVars, fileVars,
       powerVars, restVars
  <2>6. QED
    BY <2>3, <2>4, <2>5 DEF IInv, TypeOK, QueueType, EngineType, ConnType, OtherType
<1>10. QED
  BY <1>1, <1>2, <1>3, <1>4, <1>5, <1>6, <1>7, <1>8, <1>9 DEF Next, Progress

LEMMA Invariance == Spec => []IInv
<1>1. Init => IInv
  BY InitEstablishes
<1>2. IInv /\ [Next]_vars => IInv'
  BY NextKeeps
<1>3. QED
  BY <1>1, <1>2, PTL DEF Spec

\* Where a position of the line is: in the channel, or behind it.
LEMMA LineFacts ==
    ASSUME QueueType
    PROVE  /\ \A i \in DOMAIN Line : Line[i] \in Event
           /\ \A i \in DOMAIN channel : i \in DOMAIN Line /\ Line[i] = channel[i]
           /\ \A i \in DOMAIN waiting : /\ Len(channel) + i \in DOMAIN Line
                                        /\ Line[Len(channel) + i] = waiting[i]
           /\ \A i \in DOMAIN Line :
                \/ i \in DOMAIN channel /\ Line[i] = channel[i]
                \/ /\ i > Len(channel) /\ i - Len(channel) \in DOMAIN waiting
                   /\ Line[i] = waiting[i - Len(channel)]
<1> DEFINE n == Len(channel)
           m == Len(waiting)
<1>1. /\ n \in Nat /\ m \in Nat /\ DOMAIN channel = 1..n /\ DOMAIN waiting = 1..m
      /\ DOMAIN Line = 1..(n + m)
      /\ \A i \in 1..(n + m) : Line[i] = IF i <= n THEN channel[i] ELSE waiting[i - n]
      /\ \A i \in 1..(n + m) : Line[i] \in Event
  BY ConcatProperties, LenProperties, ElementOfSeq DEF QueueType, Line
<1> HIDE DEF n, m
<1>2. \A i \in 1..n : i \in 1..(n + m) /\ i <= n
  BY <1>1
<1>3. \A i \in 1..m : n + i \in 1..(n + m) /\ ~(n + i <= n) /\ (n + i) - n = i
  BY <1>1
<1>4. \A i \in 1..(n + m) : i \in 1..n \/ (i > n /\ i - n \in 1..m)
  BY <1>1
<1>5. \A i \in DOMAIN waiting : n + i \in DOMAIN Line /\ Line[n + i] = waiting[i]
  BY <1>1, <1>3
<1>6. QED
  BY <1>1, <1>2, <1>4, <1>5 DEF n

LEMMA LineHas ==
    ASSUME QueueType, NEW X
    PROVE  (\E i \in DOMAIN Line : Line[i] \in X) <=> In(X)
BY LineFacts DEF In, Has

LEMMA LineOnce ==
    ASSUME QueueType, NEW X, Once(X)
    PROVE  \A i, j \in DOMAIN Line : Line[i] \in X /\ Line[j] \in X => i = j
<1>1. SUFFICES ASSUME NEW i \in DOMAIN Line, NEW j \in DOMAIN Line, Line[i] \in X, Line[j] \in X
               PROVE  i = j
  OBVIOUS
<1>2. /\ Len(channel) \in Nat /\ DOMAIN Line \subseteq Int
  BY LenProperties, ConcatProperties DEF QueueType, Line
<1>3. CASE i \in DOMAIN channel /\ j \in DOMAIN channel
  BY <1>1, <1>3, LineFacts DEF Once, Single
<1>4. CASE i \in DOMAIN channel /\ j \notin DOMAIN channel
  BY <1>1, <1>4, LineFacts DEF Once, Has
<1>5. CASE i \notin DOMAIN channel /\ j \in DOMAIN channel
  BY <1>1, <1>5, LineFacts DEF Once, Has
<1>6. CASE i \notin DOMAIN channel /\ j \notin DOMAIN channel
  <2>1. i - Len(channel) = j - Len(channel)
    BY <1>1, <1>6, LineFacts DEF Once, Single
  <2>2. QED
    BY <1>2, <2>1
<1>7. QED
  BY <1>3, <1>4, <1>5, <1>6

\* Every variable keeps its type: the channel stays within its capacity, and no more
\* connections are served than MAX_CONCURRENT_CONNECTIONS.
THEOREM TypeCorrect == Spec => []TypeOK
<1>1. IInv => TypeOK
  BY DEF IInv
<1>2. QED
  BY <1>1, Invariance, PTL

\* A request that was read is on its way to the engine exactly once until it is
\* answered, for every number of clients and whatever else is sent.
THEOREM NoRequestLost == Spec => []RequestsKept
<1>1. IInv => RequestsKept
  <2>1. SUFFICES ASSUME IInv, NEW c \in Conn
                 PROVE  /\ conn[c] = "asked" <=> \E i \in DOMAIN Line : Asks(Line[i], c)
                        /\ \A i, j \in DOMAIN Line :
                             Asks(Line[i], c) /\ Asks(Line[j], c) => i = j
    BY DEF RequestsKept
  <2>2. QueueType /\ Once(RequestOf(c)) /\ (conn[c] = "asked" <=> In(RequestOf(c)))
    BY <2>1, IInvParts DEF RequestsOnce
  <2>3. \A i \in DOMAIN Line : Line[i] \in RequestOf(c) <=> Asks(Line[i], c)
    BY <2>2, LineFacts DEF RequestOf
  <2>4. QED
    BY <2>2, <2>3, LineHas, LineOnce
<1>2. QED
  BY <1>1, Invariance, PTL

\* Once SIGTERM is taken, or the focus back end has gone, a Shutdown is on its way
\* until the engine ends: no flood of events and no request of the engine to itself
\* makes it disappear.
THEOREM NoShutdownLost == Spec => []ShutdownKept
<1>1. IInv => ShutdownKept
  <2>1. SUFFICES ASSUME IInv, engine # "ended"
                 PROVE  /\ term = "taken" => \E i \in DOMAIN Line : Ends(Line[i], "signal")
                        /\ ~desktop => \E i \in DOMAIN Line : Ends(Line[i], "desktop")
    BY DEF ShutdownKept
  <2>2. /\ QueueType
        /\ term = "taken" => In(ShutdownBy("signal"))
        /\ ~desktop => In(ShutdownBy("desktop"))
    BY <2>1, IInvParts DEF ShutdownOn
  <2>3. QED
    BY <2>2, LineHas DEF ShutdownBy
<1>2. QED
  BY <1>1, Invariance, PTL

\* The engine goes by the monitor's last finding, or that finding is the monitor's
\* last event on its way, so that an older one never has the last word.
THEOREM NoFindingOvertaken == Spec => []PowerKept
<1>1. IInv => PowerKept
  <2>1. SUFFICES ASSUME IInv, engine # "ended"
                 PROVE  /\ FromMonitor = {} => polled \in {source, None}
                        /\ \A i \in FromMonitor :
                             (\A j \in FromMonitor : j <= i) => Line[i].of = polled
    BY DEF PowerKept
  <2>2. /\ QueueType
        /\ Single(waiting, Findings) /\ Last(waiting, Findings, polled)
        /\ ~Has(waiting, Findings) => Last(channel, Findings, polled)
        /\ ~In(Findings) => polled \in {source, None}
    BY <2>1, IInvParts DEF FindingsLast
  <2>3. \A i \in DOMAIN Line : Line[i] \in Findings <=> i \in FromMonitor
    BY <2>2, LineFacts DEF Findings, FromMonitor
  <2>4. FromMonitor = {} => polled \in {source, None}
    <3>1. FromMonitor = {} => ~In(Findings)
      BY <2>2, <2>3, LineHas
    <3>2. QED
      BY <2>2, <3>1
  <2>5. ASSUME NEW i \in FromMonitor, \A j \in FromMonitor : j <= i
        PROVE  Line[i].of = polled
    <3>1. i \in DOMAIN Line /\ Line[i] \in Findings
      BY <2>3 DEF FromMonitor
    <3>2. /\ Len(channel) \in Nat /\ i \in Nat
          /\ DOMAIN channel \subseteq Nat /\ DOMAIN waiting \subseteq Nat
      BY <2>2, <3>1, LenProperties, ConcatProperties DEF QueueType, Line
    <3>3. CASE i \in DOMAIN channel
      <4>1. ASSUME NEW k \in DOMAIN waiting, waiting[k] \in Findings PROVE FALSE
        <5>1. Len(channel) + k \in FromMonitor
          BY <2>2, <2>3, <4>1, LineFacts
        <5>2. Len(channel) + k <= i
          BY <2>5, <5>1
        <5>3. i <= Len(channel) /\ k \in Nat \ {0}
          BY <2>2, <3>3, LenProperties DEF QueueType
        <5>4. QED
          BY <3>2, <5>2, <5>3
      <4>2. Last(channel, Findings, polled)
        BY <2>2, <4>1 DEF Has
      <4>3. \A k \in DOMAIN channel : channel[k] \in Findings => k <= i
        BY <2>2, <2>3, <2>5, LineFacts
      <4>4. channel[i] \in Findings /\ Line[i] = channel[i]
        BY <2>2, <3>1, <3>3, LineFacts
      <4>5. QED
        BY <3>3, <4>2, <4>3, <4>4 DEF Last
    <3>4. CASE i \notin DOMAIN channel
      <4>1. /\ i - Len(channel) \in DOMAIN waiting
            /\ Line[i] = waiting[i - Len(channel)]
        BY <2>2, <3>1, <3>4, LineFacts
      <4>2. \A k \in DOMAIN waiting : waiting[k] \in Findings => k = i - Len(channel)
        BY <2>2, <3>1, <4>1 DEF Single
      <4>3. \A k \in DOMAIN waiting : waiting[k] \in Findings => k <= i - Len(channel)
        BY <3>2, <4>2
      <4>4. QED
        BY <2>2, <3>1, <4>1, <4>3 DEF Last
    <3>5. QED
      BY <3>3, <3>4
  <2>6. QED
    BY <2>4, <2>5
<1>2. QED
  BY <1>1, Invariance, PTL
=============================================================================
