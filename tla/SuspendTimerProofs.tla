------------------------- MODULE SuspendTimerProofs -------------------------
(***************************************************************************)
(* Proofs about SuspendTimer, for any policies, limits and intervals: the  *)
(* types, that no suspension is lost between the timers, the channel, the  *)
(* grace period and the retries, and that none comes early.                *)
(***************************************************************************)
EXTENDS SuspendTimer, TLAPS, SequenceTheorems, FiniteSetTheorems

----------------------------------------------------------------------------
(* The invariant                                                           *)

\* The policies the claim is about: all freeze, and none waits shorter than its
\* own grace period.
Timely == \A p \in Policy : p.action = "freeze" /\ p.grace <= p.delay

HasFired(q) == \E i \in DOMAIN q : q[i].type = "fired"

\* A timer that the grace period cannot swallow when it fires.
Outlasts == timer # None /\ active_age + timer.left >= policy.grace

\* What makes NothingLost inductive: among all that is coming, something comes
\* after the grace period, and a suspension under way began after it.
Assured ==
    /\ scanning # None => active_age >= policy.grace
    /\ state = "background" =>
         \/ failures = MAX_SUSPEND_ATTEMPTS
         \/ scanning # None
         \/ Outlasts
         \/ active_age >= policy.grace /\ HasFired(queue)

IInv == TypeOK /\ Assured

----------------------------------------------------------------------------
(* Numbers and sequences                                                   *)

\* The back-off is a number: 2^n counts the subsets of 1..n.
LEMMA PowerOfTwo == ASSUME NEW n \in Nat PROVE 2 ^ n \in Nat
<1>1. IsFiniteSet(1..n) /\ Cardinality(1..n) = n
  BY FS_Interval
<1>2. IsFiniteSet(SUBSET (1..n)) /\ Cardinality(SUBSET (1..n)) = 2 ^ n
  BY <1>1, FS_SUBSET
<1>3. QED
  BY <1>2, FS_CardinalityType

LEMMA PolicyFields ==
    ASSUME NEW p \in Policy
    PROVE  /\ p.delay \in 1..Horizon /\ p.grace \in 0..Horizon /\ p.min \in 0..Horizon
           /\ p.action \in {"freeze", "ignore"}
BY TimingAssumption

LEMMA BackOff ==
    ASSUME NEW n \in Nat
    PROVE  Least(RETRY_INTERVAL * 2 ^ n, MAX_RETRY_INTERVAL) \in 0..Horizon
<1>1. RETRY_INTERVAL \in Nat /\ MAX_RETRY_INTERVAL \in 1..Horizon /\ Horizon \in Nat
  BY TimingAssumption
<1>2. PICK m \in Nat : m = 2 ^ n
  BY PowerOfTwo
<1>3. RETRY_INTERVAL * m \in Nat
  BY <1>1
<1>4. QED
  BY <1>1, <1>2, <1>3 DEF Least

LEMMA TimerType ==
    ASSUME NEW d \in 0..Horizon, NEW by \in By
    PROVE  /\ Timer(d, by) \in Timers /\ Timer(d, by) # None
           /\ Timer(d, by).left = d
BY NoneAssumption DEF Timer, Timers

LEMMA FiredType ==
    ASSUME NEW by \in By
    PROVE  Fired(by) \in Event /\ Fired(by).type = "fired"
BY DEF Fired, Event, By

\* What a handler leaves of the channel: its types stay, and the timer events.
LEMMA RestOfQueue ==
    ASSUME NEW q \in Seq(Event), q # <<>>
    PROVE  /\ Head(q) \in Event
           /\ Tail(q) \in Seq(Event) /\ FormerEvents(Tail(q)) \in Seq(Event)
           /\ HasFired(q) /\ Head(q).type # "fired" =>
                HasFired(Tail(q)) /\ HasFired(FormerEvents(Tail(q)))
<1>1. Head(q) \in Event /\ Tail(q) \in Seq(Event)
  BY HeadTailProperties
<1> DEFINE t == Tail(q)
<1>2. \A i \in DOMAIN t : t[i] \in Event
  BY <1>1, ElementOfSeq
<1>3. \A i \in DOMAIN t :
        /\ FormerEvents(t)[i] \in Event
        /\ FormerEvents(t)[i].type = t[i].type
  BY <1>2, FiredType DEF FormerEvents, By
<1>4. FormerEvents(t) \in [1..Len(t) -> Event]
  BY <1>1, <1>3 DEF FormerEvents
<1>5. FormerEvents(t) \in Seq(Event)
  BY <1>1, <1>4, LenProperties, SeqDef
<1>6. ASSUME HasFired(q), Head(q).type # "fired"
      PROVE  HasFired(t) /\ HasFired(FormerEvents(t))
  <2>1. PICK i \in DOMAIN q : q[i].type = "fired"
    BY <1>6 DEF HasFired
  <2>2. i \in 2..Len(q)
    BY <1>6, <2>1
  <2>3. i - 1 \in DOMAIN t /\ t[i - 1] = q[i]
    BY <2>2, HeadTailProperties
  <2>4. DOMAIN FormerEvents(t) = DOMAIN t
    BY DEF FormerEvents
  <2>5. QED
    BY <1>3, <2>1, <2>3, <2>4 DEF HasFired
<1>7. QED
  BY <1>1, <1>5, <1>6

LEMMA AppendFired ==
    ASSUME NEW q \in Seq(Event), NEW e \in Event
    PROVE  /\ Append(q, e) \in Seq(Event)
           /\ HasFired(q) \/ e.type = "fired" => HasFired(Append(q, e))
<1>1. /\ Append(q, e) \in Seq(Event) /\ DOMAIN Append(q, e) = 1..(Len(q) + 1)
      /\ Append(q, e)[Len(q) + 1] = e
      /\ \A i \in 1..Len(q) : Append(q, e)[i] = q[i]
  BY AppendProperties
<1>2. DOMAIN q = 1..Len(q) /\ Len(q) \in Nat
  BY LenProperties
<1>3. QED
  BY <1>1, <1>2 DEF HasFired

----------------------------------------------------------------------------
(* The types                                                               *)

LEMMA LeastType ==
    ASSUME NEW a \in 0..Horizon
    PROVE  /\ Least(a + 1, Horizon) \in 0..Horizon
           /\ Least(a + 1, Horizon) = a + 1 \/ Least(a + 1, Horizon) = Horizon
BY TimingAssumption DEF Least

LEMMA EventFields ==
    ASSUME NEW e \in Event
    PROVE  /\ e.type \in {"focused", "unfocused", "closed", "activation", "other",
                          "reload", "fired"}
           /\ e.type = "reload" => e.policy \in Policy
           /\ e.type = "fired" => e.by \in By
BY DEF Event

\* Time passes only while no timer is due.
LEMMA TimerTicks ==
    ASSUME NEW t \in Timers \cup {None}, t = None \/ t.left # 0
    PROVE  /\ (IF t = None THEN None ELSE [t EXCEPT !.left = @ - 1])
                \in Timers \cup {None}
           /\ t # None => /\ [t EXCEPT !.left = @ - 1] # None
                          /\ [t EXCEPT !.left = @ - 1].left = t.left - 1
<1>1. CASE t = None
  BY <1>1
<1>2. CASE t # None
  <2>1. t \in Timers /\ t.left \in 0..Horizon /\ t.left # 0 /\ Horizon \in Nat
    BY <1>2, TimingAssumption DEF Timers
  <2>2. t.left - 1 \in 0..Horizon
    BY <2>1
  <2>3. [t EXCEPT !.left = @ - 1] \in Timers
    BY <2>1, <2>2 DEF Timers
  <2>4. [t EXCEPT !.left = @ - 1].left = t.left - 1
    BY <2>1 DEF Timers
  <2>5. QED
    BY <1>2, <2>3, <2>4, NoneAssumption
<1>3. QED
  BY <1>1, <1>2

LEMMA TickType == TypeOK /\ Tick => TypeOK'
<1> SUFFICES ASSUME TypeOK, Tick PROVE TypeOK'
  OBVIOUS
<1>1. /\ state \in {"untracked", "active", "background", "frozen"}
      /\ policy \in Policy /\ rules \in Policy
      /\ active_age \in 0..Horizon /\ state_age \in 0..Horizon
      /\ timer \in Timers \cup {None} /\ stray \in Timers \cup {None}
      /\ failures \in 0..MAX_SUSPEND_ATTEMPTS
      /\ queue \in Seq(Event) /\ away \in 0..Away /\ scanning \in By \cup {None}
  BY DEF TypeOK
<1>2. active_age' \in 0..Horizon /\ state_age' \in 0..Horizon
  BY <1>1, LeastType DEF Tick
<1>3. (timer = None \/ timer.left # 0) /\ (stray = None \/ stray.left # 0)
  BY DEF Tick, Due
<1>4. timer' \in Timers \cup {None} /\ stray' \in Timers \cup {None}
  BY <1>1, <1>3, TimerTicks DEF Tick
<1>5. away' \in 0..Away
  <2>1. away' = IF away > 0 THEN away - 1 ELSE 0
    BY DEF Tick
  <2>2. QED
    BY <1>1, <2>1, TimingAssumption
<1>6. UNCHANGED <<state, policy, failures, rules, queue, scanning>>
  BY DEF Tick
<1>7. QED
  BY <1>1, <1>2, <1>4, <1>5, <1>6 DEF TypeOK

LEMMA FireType == TypeOK /\ Fire => TypeOK'
<1> SUFFICES ASSUME TypeOK, Fire PROVE TypeOK'
  OBVIOUS
<1>1. timer # None => timer \in Timers /\ timer.by \in By
  BY DEF TypeOK, Timers
<1>2. queue' \in Seq(Event) /\ timer' \in Timers \cup {None}
        /\ stray' \in Timers \cup {None}
  BY <1>1, FiredType, AppendFired DEF TypeOK, Fire, By
<1>3. UNCHANGED <<state, policy, active_age, state_age, failures, rules, away, scanning>>
  BY DEF Fire
<1>4. QED
  BY <1>2, <1>3 DEF TypeOK

LEMMA ArriveType ==
    ASSUME TypeOK, NEW e \in Outside, Arrive(e) PROVE TypeOK'
<1>1. e \in Event
  BY DEF Outside, Event
<1>2. queue' \in Seq(Event)
  BY <1>1, AppendFired DEF TypeOK, Arrive
<1>3. QED
  BY <1>2 DEF TypeOK, Arrive, entryVars

\* What the event's handler does to the entry keeps the types.
LEMMA HandlerType ==
    ASSUME TypeOK, NEW e \in Event,
           HandleEvent(e)
    PROVE  /\ state' \in {"untracked", "active", "background", "frozen"}
           /\ policy' \in Policy /\ rules' \in Policy
           /\ active_age' \in 0..Horizon /\ state_age' \in 0..Horizon
           /\ timer' \in Timers \cup {None} /\ stray' \in Timers \cup {None}
           /\ failures' \in 0..MAX_SUSPEND_ATTEMPTS
           /\ away' \in 0..Away /\ scanning' \in By \cup {None}
<1> DEFINE Goal == /\ state' \in {"untracked", "active", "background", "frozen"}
                   /\ policy' \in Policy /\ rules' \in Policy
                   /\ active_age' \in 0..Horizon /\ state_age' \in 0..Horizon
                   /\ timer' \in Timers \cup {None} /\ stray' \in Timers \cup {None}
                   /\ failures' \in 0..MAX_SUSPEND_ATTEMPTS
                   /\ away' \in 0..Away /\ scanning' \in By \cup {None}
<1> SUFFICES Goal
  OBVIOUS
<1>0. /\ state \in {"untracked", "active", "background", "frozen"}
      /\ policy \in Policy /\ rules \in Policy
      /\ active_age \in 0..Horizon /\ state_age \in 0..Horizon
      /\ timer \in Timers \cup {None} /\ stray \in Timers \cup {None}
      /\ failures \in 0..MAX_SUSPEND_ATTEMPTS
      /\ queue \in Seq(Event) /\ away \in 0..Away /\ scanning \in By \cup {None}
      /\ 0 \in 0..Horizon /\ 0 \in 0..MAX_SUSPEND_ATTEMPTS /\ "current" \in By
  BY TimingAssumption DEF TypeOK, By
<1>1. CASE e.type = "focused" /\ Register
  BY <1>0, <1>1 DEF Register, SetState, CancelSuspendTimer
<1>2. CASE e.type = "focused" /\ Activate
  BY <1>0, <1>2 DEF Activate, OnFocusGained, To, SetState, CancelSuspendTimer
<1>3. CASE e.type = "unfocused"
  <2>1. policy.delay \in 0..Horizon
    BY <1>0, PolicyFields, TimingAssumption
  <2>2. Background
    BY <1>3 DEF HandleEvent
  <2>3. Timer(policy.delay, "current") \in Timers
    BY <1>0, <2>1, TimerType
  <2>4. QED
    BY <1>0, <2>2, <2>3 DEF Background, OnFocusLost, To, SetState, ScheduleSuspend,
       Keep, entryVars
<1>4. CASE e.type = "activation"
  <2>1. policy.delay \in 0..Horizon
    BY <1>0, PolicyFields, TimingAssumption
  <2>2. PreThaw
    BY <1>4 DEF HandleEvent
  <2>3. Timer(policy.delay, "current") \in Timers
    BY <1>0, <2>1, TimerType
  <2>4. QED
    BY <1>0, <2>2, <2>3 DEF PreThaw, ScheduleSuspend, Keep, entryVars
<1>5. CASE e.type = "closed"
  <2>1. Close
    BY <1>5 DEF HandleEvent
  <2>2. timer # None => Timer(timer.left, "former") \in Timers
    BY <1>0, TimerType DEF Timers, By
  <2>3. QED
    BY <1>0, <2>1, <2>2 DEF Close, Keep, entryVars
<1>6. CASE e.type = "reload"
  <2>1. e.policy \in Policy /\ Rematch(e.policy)
    BY <1>6, EventFields DEF HandleEvent
  <2>2. Timer(e.policy.delay, "current") \in Timers
    BY <1>0, <2>1, PolicyFields, TimerType, TimingAssumption
  <2>3. timer' \in Timers \cup {None}
    BY <1>0, <2>1, <2>2 DEF Rematch, ScheduleSuspend, CancelSuspendTimer
  <2>4. state' \in {"untracked", "active", "background", "frozen"}
        /\ active_age' \in 0..Horizon /\ state_age' \in 0..Horizon
    BY <1>0, <2>1 DEF Rematch, ScheduleSuspend, CancelSuspendTimer
  <2>5. QED
    BY <1>0, <2>1, <2>3, <2>4 DEF Rematch
<1>7. CASE e.type = "fired"
  <2>1. e.by \in By /\ SuspendTimerFired(e.by)
    BY <1>7, EventFields DEF HandleEvent
  <2>2. CASE Postpone(e.by) /\ state_age < policy.min
    <3>1. policy.min - state_age \in 0..Horizon
      BY <1>0, <2>2, PolicyFields, TimingAssumption
    <3>2. Timer(policy.min - state_age, e.by) \in Timers
      BY <2>1, <3>1, TimerType
    <3>3. QED
      BY <1>0, <2>2, <3>2 DEF Postpone, ScheduleSuspend, Keep
  <2>3. CASE UNCHANGED entryVars /\ Keep
    BY <1>0, <2>3 DEF Keep, entryVars
  <2>4. CASE CancelSuspendTimer /\ UNCHANGED <<state, active_age, state_age>> /\ Keep
    BY <1>0, <2>4 DEF Keep, CancelSuspendTimer
  <2>5. CASE scanning' = e.by /\ away' \in 0..Away /\ UNCHANGED <<entryVars, rules>>
    BY <1>0, <2>1, <2>5 DEF entryVars
  <2>6. QED
    BY <2>1, <2>2, <2>3, <2>4, <2>5 DEF SuspendTimerFired
<1>8. CASE e.type = "other"
  BY <1>0, <1>8 DEF HandleEvent, entryVars
<1>9. e.type = "focused" => Register \/ Activate
  BY DEF HandleEvent
<1>10. QED
  BY <1>1, <1>2, <1>3, <1>4, <1>5, <1>6, <1>7, <1>8, <1>9, EventFields

LEMMA HandleType == TypeOK /\ Handle => TypeOK'
<1> SUFFICES ASSUME TypeOK, Handle PROVE TypeOK'
  OBVIOUS
<1> DEFINE e == Head(queue)
<1>1. queue \in Seq(Event) /\ queue # <<>>
  BY DEF TypeOK, Handle
<1>2. e \in Event /\ queue' \in Seq(Event)
  BY <1>1, RestOfQueue DEF Handle
<1>3. HandleEvent(e)
  BY DEF Handle
<1> HIDE DEF e
<1>4. QED
  BY <1>2, <1>3, HandlerType DEF TypeOK

LEMMA ReturnType == TypeOK /\ (GuardsBlock \/ Passes \/ Succeeds \/ Fails) => TypeOK'
<1> SUFFICES ASSUME TypeOK, GuardsBlock \/ Passes \/ Succeeds \/ Fails PROVE TypeOK'
  OBVIOUS
<1>1. scanning \in By /\ scanning' = None /\ RETRY_INTERVAL \in 0..Horizon
      /\ 0 \in 0..Horizon /\ 0 \in 0..MAX_SUSPEND_ATTEMPTS
  BY TimingAssumption DEF TypeOK, GuardsBlock, Passes, Succeeds, Fails, Returns
<1>2. CASE GuardsBlock
  <2>1. Timer(RETRY_INTERVAL, scanning) \in Timers
    BY <1>1, TimerType
  <2>2. QED
    BY <1>1, <1>2, <2>1 DEF TypeOK, GuardsBlock, ScheduleSuspend
<1>3. CASE Passes
  BY <1>1, <1>3 DEF TypeOK, Passes, entryVars
<1>4. CASE Succeeds
  BY <1>1, <1>4 DEF TypeOK, Succeeds, SetState
<1>5. CASE Fails
  <2>1. failures \in Nat /\ failures' \in 0..MAX_SUSPEND_ATTEMPTS
    BY <1>5, TimingAssumption DEF Fails, TypeOK, Least
  <2> DEFINE d == Least(RETRY_INTERVAL * 2 ^ failures, MAX_RETRY_INTERVAL)
  <2>2. d \in 0..Horizon
    BY <2>1, BackOff
  <2>3. timer' = None \/ timer' = Timer(d, scanning)
    BY <1>5 DEF Fails, CancelSuspendTimer, ScheduleSuspend
  <2> HIDE DEF d
  <2>4. timer' \in Timers \cup {None}
    BY <1>1, <2>2, <2>3, TimerType
  <2>5. UNCHANGED <<state, policy, active_age, state_age, stray, rules, queue, away>>
    BY <1>5 DEF Fails
  <2>6. QED
    BY <1>1, <2>1, <2>4, <2>5 DEF TypeOK
<1>6. QED
  BY <1>2, <1>3, <1>4, <1>5

LEMMA InitType == Init => TypeOK
<1> SUFFICES ASSUME Init PROVE TypeOK
  OBVIOUS
<1>1. Horizon \in 0..Horizon /\ 0 \in 0..MAX_SUSPEND_ATTEMPTS /\ 0 \in 0..Away
      /\ <<>> \in Seq(Event)
  BY TimingAssumption
<1>2. QED
  BY <1>1 DEF Init, TypeOK

LEMMA StepType == TypeOK /\ [Next]_vars => TypeOK'
<1> SUFFICES ASSUME TypeOK, [Next]_vars PROVE TypeOK'
  OBVIOUS
<1>1. CASE Tick
  BY <1>1, TickType
<1>2. CASE Fire
  BY <1>2, FireType
<1>3. CASE Handle
  BY <1>3, HandleType
<1>4. CASE GuardsBlock \/ Passes \/ Succeeds \/ Fails
  BY <1>4, ReturnType
<1>5. CASE \E e \in Outside : Arrive(e)
  BY <1>5, ArriveType
<1>6. CASE UNCHANGED vars
  BY <1>6 DEF TypeOK, vars, entryVars
<1>7. QED
  BY <1>1, <1>2, <1>3, <1>4, <1>5, <1>6 DEF Next

\* The variables keep their types for every set of policies, every limit and every
\* interval: in particular no back-off, no postponement (handle_suspend_timer)
\* and no passing of time makes a remaining time negative or unbounded.
THEOREM TypeCorrect == Spec => []TypeOK
<1>1. Init => TypeOK
  BY InitType
<1>2. TypeOK /\ [Next]_vars => TypeOK'
  BY StepType
<1>3. QED
  BY <1>1, <1>2, PTL DEF Spec

----------------------------------------------------------------------------
(* No suspension is lost                                                   *)

LEMMA TimelyPolicy ==
    ASSUME Timely, NEW p \in Policy
    PROVE  /\ p.delay \in Nat /\ p.grace \in 0..Horizon /\ p.action = "freeze"
           /\ p.grace <= p.delay
BY PolicyFields, TimingAssumption DEF Timely

\* Time makes the age grow as the remaining time shrinks.
LEMMA TickKeeps == ASSUME Timely, IInv, Tick PROVE Assured'
<1>1. /\ active_age \in 0..Horizon /\ Horizon \in Nat /\ timer \in Timers \cup {None}
      /\ policy.grace \in 0..Horizon
  BY TimelyPolicy, TimingAssumption DEF IInv, TypeOK
<1>2. /\ UNCHANGED <<state, policy, failures, queue, scanning>>
      /\ active_age' = Least(active_age + 1, Horizon)
  BY DEF Tick
<1>3. active_age' \in Nat /\ (active_age' = active_age + 1 \/ active_age' = Horizon)
  BY <1>1, <1>2, LeastType
<1>4. active_age >= policy.grace => active_age' >= policy'.grace
  BY <1>1, <1>2, <1>3
<1>5. ASSUME Outlasts PROVE Outlasts'
  <2>1. timer # None /\ timer.left # 0 /\ timer \in Timers
    BY <1>1, <1>5 DEF Outlasts, Tick, Due
  <2>2. timer' # None /\ timer'.left = timer.left - 1
    BY <1>1, <2>1, TimerTicks DEF Tick
  <2>3. timer.left \in Nat /\ active_age + timer.left >= policy.grace
    BY <1>1, <1>5, <2>1 DEF Outlasts, Timers
  <2>4. active_age' + timer'.left >= policy'.grace
    BY <1>1, <1>2, <1>3, <2>1, <2>2, <2>3
  <2>5. QED
    BY <2>2, <2>4 DEF Outlasts
<1>6. QED
  BY <1>2, <1>4, <1>5 DEF IInv, Assured, HasFired

\* A timer that outlasts the grace period fires after it.
LEMMA FireKeeps == ASSUME Timely, IInv, Fire PROVE Assured'
<1>1. UNCHANGED <<state, policy, active_age, failures, scanning>>
  BY DEF Fire
<1>2. \/ UNCHANGED timer /\ queue' = Append(queue, Fired("former"))
      \/ timer # None /\ timer.left = 0 /\ queue' = Append(queue, Fired(timer.by))
  BY DEF Fire
<1>3. timer # None => timer.by \in By
  BY DEF IInv, TypeOK, Timers
<1>4. HasFired(queue')
  <2>1. PICK by \in By : queue' = Append(queue, Fired(by))
    BY <1>2, <1>3 DEF By
  <2>2. QED
    BY <2>1, FiredType, AppendFired DEF IInv, TypeOK
<1>5. Outlasts => active_age >= policy.grace \/ UNCHANGED timer
  <2>1. active_age \in Nat /\ policy.grace \in Nat
    BY TimelyPolicy, TimingAssumption DEF IInv, TypeOK
  <2>2. QED
    BY <1>2, <2>1 DEF Outlasts
<1>6. QED
  BY <1>1, <1>4, <1>5 DEF IInv, Assured, Outlasts

LEMMA ArriveKeeps ==
    ASSUME IInv, NEW e \in Outside, Arrive(e) PROVE Assured'
<1>1. e \in Event /\ queue \in Seq(Event)
  BY DEF Outside, Event, IInv, TypeOK
<1>2. HasFired(queue) => HasFired(queue')
  BY <1>1, AppendFired DEF Arrive
<1>3. QED
  BY <1>2 DEF IInv, Assured, Outlasts, Arrive, entryVars

\* A timer set for no less than the grace period outlasts it.
LEMMA LongTimer ==
    ASSUME Timely, TypeOK, NEW p \in Policy, NEW a \in Nat
    PROVE  /\ Timer(p.delay, "current") # None
           /\ a + Timer(p.delay, "current").left >= p.grace
<1>1. /\ p.delay \in 0..Horizon /\ p.delay \in Nat /\ p.grace \in Nat
      /\ p.grace <= p.delay
  BY PolicyFields, TimelyPolicy, TimingAssumption
<1>2. Timer(p.delay, "current") # None /\ Timer(p.delay, "current").left = p.delay
  BY <1>1, TimerType DEF By
<1>3. QED
  BY <1>1, <1>2

\* An event that leaves the entry as it is takes no timer event with it.
LEMMA IdleEventKeeps ==
    ASSUME IInv, Handle, Head(queue).type # "fired",
           UNCHANGED <<state, policy, active_age, timer, failures>>, scanning' = None
    PROVE  Assured'
<1>1. scanning = None
  BY DEF Handle, Idle
<1>2. HasFired(queue) => HasFired(queue')
  BY RestOfQueue DEF IInv, TypeOK, Handle
<1>3. QED
  BY <1>1, <1>2 DEF IInv, Assured, Outlasts

\* The grace period swallows an event only while another one is coming.
LEMMA FiredKeeps ==
    ASSUME Timely, IInv, Handle, NEW by \in By, SuspendTimerFired(by)
    PROVE  Assured'
<1>1. /\ scanning = None /\ policy.action # "ignore"
      /\ active_age \in 0..Horizon /\ state_age \in 0..Horizon
      /\ policy.grace \in 0..Horizon /\ policy.min \in 0..Horizon /\ Horizon \in Nat
  BY TimelyPolicy, PolicyFields, TimingAssumption DEF Handle, Idle, IInv, TypeOK
<1>2. CASE state = "untracked"
  BY <1>1, <1>2 DEF SuspendTimerFired, Keep, entryVars, Assured
<1>3. CASE state # "untracked" /\ InResumeGrace
  <2>1. UNCHANGED entryVars /\ scanning' = None
    BY <1>1, <1>3 DEF SuspendTimerFired, Keep
  <2>2. ~(active_age >= policy.grace)
    BY <1>1, <1>3 DEF InResumeGrace
  <2>3. QED
    BY <1>1, <2>1, <2>2 DEF IInv, Assured, Outlasts, entryVars
<1>4. CASE state # "untracked" /\ ~InResumeGrace /\ state_age < policy.min
  <2>1. Postpone(by)
    BY <1>1, <1>4 DEF SuspendTimerFired
  <2>2. policy.min - state_age \in 0..Horizon /\ active_age >= policy.grace
    BY <1>1, <1>4 DEF InResumeGrace
  <2>3. /\ timer' # None /\ timer'.left \in Nat
        /\ UNCHANGED <<policy, active_age>> /\ scanning' = None
    BY <1>1, <2>1, <2>2, TimerType DEF Postpone, ScheduleSuspend, Keep
  <2>4. active_age' + timer'.left >= policy'.grace
    BY <1>1, <2>2, <2>3
  <2>5. QED
    BY <2>3, <2>4 DEF Assured, Outlasts
<1>5. CASE state # "untracked" /\ ~InResumeGrace /\ ~(state_age < policy.min)
  <2>1. scanning' = by /\ UNCHANGED entryVars
    BY <1>1, <1>5 DEF SuspendTimerFired
  <2>2. by # None
    BY NoneAssumption
  <2>3. active_age' >= policy'.grace
    BY <1>1, <1>5, <2>1 DEF InResumeGrace, entryVars
  <2>4. QED
    BY <2>1, <2>2, <2>3 DEF Assured
<1>6. QED
  BY <1>2, <1>3, <1>4, <1>5

LEMMA HandleKeeps == ASSUME Timely, IInv, Handle PROVE Assured'
<1> DEFINE e == Head(queue)
<1>1. /\ e \in Event /\ HandleEvent(e) /\ scanning = None
      /\ active_age \in Nat /\ policy \in Policy /\ rules \in Policy
      /\ state \in {"untracked", "active", "background", "frozen"}
  BY RestOfQueue, TimingAssumption DEF IInv, TypeOK, Handle, Idle
<1>2. CASE e.type = "focused"
  <2>1. Register \/ Activate
    BY <1>1, <1>2 DEF HandleEvent
  <2>2. state' # "background" /\ scanning' = None
    BY <1>1, <2>1 DEF Register, Activate, OnFocusGained, To, SetState
  <2>3. QED
    BY <2>2 DEF Assured
<1>3. CASE e.type = "unfocused"
  <2>1. Background /\ scanning' = None
    BY <1>1, <1>3 DEF HandleEvent, Background, Keep
  <2>2. CASE UNCHANGED entryVars
    BY <1>3, <2>1, <2>2, IdleEventKeeps DEF entryVars
  <2>3. CASE state = "active"
    <3>1. timer' = Timer(policy.delay, "current") /\ UNCHANGED <<policy, active_age>>
      BY <2>1, <2>3 DEF Background, OnFocusLost, To, SetState, ScheduleSuspend, Keep
    <3>2. Outlasts'
      BY <1>1, <3>1, LongTimer DEF IInv, Outlasts
    <3>3. QED
      BY <2>1, <3>2 DEF Assured
  <2>4. QED
    BY <2>1, <2>2, <2>3 DEF Background, OnFocusLost, To
<1>4. CASE e.type = "activation"
  <2>1. PreThaw /\ scanning' = None
    BY <1>1, <1>4 DEF HandleEvent, PreThaw, Keep
  <2>2. CASE UNCHANGED entryVars
    BY <1>4, <2>1, <2>2, IdleEventKeeps DEF entryVars
  <2>3. CASE state = "frozen"
    <3>1. /\ timer' = Timer(policy.delay, "current") /\ UNCHANGED policy
          /\ active_age' = 0
      BY <2>1, <2>3 DEF PreThaw, ScheduleSuspend, Keep
    <3>2. Outlasts'
      BY <1>1, <3>1, LongTimer DEF IInv, Outlasts
    <3>3. QED
      BY <2>1, <3>2 DEF Assured
  <2>4. QED
    BY <2>1, <2>2, <2>3 DEF PreThaw
<1>5. CASE e.type = "closed"
  <2>1. Close /\ scanning' = None
    BY <1>1, <1>5 DEF HandleEvent, Close, Keep
  <2>2. CASE UNCHANGED entryVars
    BY <1>5, <2>1, <2>2, IdleEventKeeps DEF entryVars
  <2>3. CASE state' = "untracked"
    BY <2>1, <2>3 DEF Assured
  <2>4. QED
    BY <2>1, <2>2, <2>3 DEF Close
<1>6. CASE e.type = "reload"
  <2>1. e.policy \in Policy /\ Rematch(e.policy)
    BY <1>1, <1>6, EventFields DEF HandleEvent
  <2>2. policy.action = "freeze" /\ e.policy.action = "freeze"
    BY <1>1, <2>1, TimelyPolicy
  <2>3. scanning' = None /\ state' = state
    BY <1>1, <2>1, <2>2 DEF Rematch
  <2>4. CASE state = "background"
    <3>1. /\ timer' = Timer(e.policy.delay, "current") /\ policy' = e.policy
          /\ active_age' = active_age
      BY <2>1, <2>2, <2>4 DEF Rematch, ScheduleSuspend
    <3>2. Outlasts'
      BY <1>1, <2>1, <3>1, LongTimer DEF IInv, Outlasts
    <3>3. QED
      BY <2>3, <3>2 DEF Assured
  <2>5. QED
    BY <2>3, <2>4 DEF Assured
<1>7. CASE e.type = "fired"
  BY <1>1, <1>7, EventFields, FiredKeeps DEF HandleEvent
<1>8. CASE e.type = "other"
  <2>1. UNCHANGED <<entryVars, scanning>>
    BY <1>1, <1>8 DEF HandleEvent
  <2>2. QED
    BY <1>1, <1>8, <2>1, IdleEventKeeps DEF entryVars
<1>9. QED
  BY <1>1, <1>2, <1>3, <1>4, <1>5, <1>6, <1>7, <1>8, EventFields

\* A suspension that returns began after the grace period, so any wait is enough.
LEMMA ReturnKeeps ==
    ASSUME Timely, IInv, GuardsBlock \/ Passes \/ Succeeds \/ Fails PROVE Assured'
<1>1. /\ scanning \in By /\ scanning' = None /\ active_age >= policy.grace
      /\ active_age \in Nat /\ policy.grace \in Nat
      /\ RETRY_INTERVAL \in 0..Horizon
  BY TimelyPolicy, TimingAssumption
  DEF IInv, TypeOK, Assured, GuardsBlock, Passes, Succeeds, Fails, Returns
<1>2. ASSUME NEW d \in 0..Horizon, timer' = Timer(d, scanning),
             UNCHANGED <<policy, active_age>>
      PROVE  Outlasts'
  <2>1. timer' # None /\ timer'.left \in Nat
    BY <1>1, <1>2, TimerType, TimingAssumption
  <2>2. active_age' + timer'.left >= policy'.grace
    BY <1>1, <1>2, <2>1
  <2>3. QED
    BY <2>1, <2>2 DEF Outlasts
<1>3. CASE GuardsBlock
  BY <1>1, <1>2, <1>3 DEF GuardsBlock, ScheduleSuspend, Assured
<1>4. CASE Passes
  BY <1>1, <1>4 DEF Passes, entryVars, Assured
<1>5. CASE Succeeds
  BY <1>1, <1>5 DEF Succeeds, SetState, Assured
<1>6. CASE Fails
  <2>1. failures \in Nat
    BY TimingAssumption DEF IInv, TypeOK
  <2> DEFINE d == Least(RETRY_INTERVAL * 2 ^ failures, MAX_RETRY_INTERVAL)
  <2>2. d \in 0..Horizon
    BY <2>1, BackOff
  <2>3. /\ failures' = MAX_SUSPEND_ATTEMPTS \/ timer' = Timer(d, scanning)
        /\ UNCHANGED <<policy, active_age>>
    BY <1>6 DEF Fails, ScheduleSuspend
  <2> HIDE DEF d
  <2>4. QED
    BY <1>1, <1>2, <2>2, <2>3 DEF Assured
<1>7. QED
  BY <1>3, <1>4, <1>5, <1>6

\* Where every policy freezes and none has a grace period longer than its delay, an
\* application in the background is always on its way to be frozen, or was given
\* up: whatever handle_suspend_timer drops or postpones, however long the loop is
\* away, and whatever reloads, pre-thaws and left-over timers come between.
THEOREM NoSuspensionLost == ASSUME Timely PROVE Spec => []NothingLost
<1>1. Init => IInv
  BY InitType DEF Init, IInv, Assured
<1>2. IInv /\ [Next]_vars => IInv'
  <2> SUFFICES ASSUME IInv, [Next]_vars PROVE IInv'
    OBVIOUS
  <2>1. TypeOK'
    BY StepType DEF IInv
  <2> SUFFICES Assured'
    BY <2>1 DEF IInv
  <2>2. CASE Tick
    BY <2>2, TickKeeps
  <2>3. CASE Fire
    BY <2>3, FireKeeps
  <2>4. CASE Handle
    BY <2>4, HandleKeeps
  <2>5. CASE GuardsBlock \/ Passes \/ Succeeds \/ Fails
    BY <2>5, ReturnKeeps
  <2>6. CASE \E e \in Outside : Arrive(e)
    BY <2>6, ArriveKeeps
  <2>7. CASE UNCHANGED vars
    BY <2>7 DEF IInv, Assured, Outlasts, HasFired, vars, entryVars
  <2>8. QED
    BY <2>2, <2>3, <2>4, <2>5, <2>6, <2>7 DEF Next
<1>3. IInv => NothingLost
  BY DEF IInv, Assured, Outlasts, HasFired, NothingLost, Coming
<1>4. QED
  BY <1>1, <1>2, <1>3, PTL DEF Spec

----------------------------------------------------------------------------
(* No suspension is early                                                  *)

\* The shortest delay will have gone by in d.
Ripe(d) == \E p \in Policy : state_age + d >= p.delay

CurrentFired(q) == \E i \in DOMAIN q : q[i] = Fired("current")

\* While the application is in the background, what the schedule in force has
\* under way comes after the shortest delay: its timer leaves enough to wait, and
\* its event, or the suspension it began, has waited already.
InTime ==
    state = "background" =>
      /\ timer # None /\ timer.by = "current" => Ripe(timer.left)
      /\ CurrentFired(queue) \/ scanning = "current" => Ripe(0)

LEMMA CurrentEvents ==
    ASSUME NEW q \in Seq(Event)
    PROVE  /\ ~CurrentFired(FormerEvents(q))
           /\ q # <<>> /\ CurrentFired(Tail(q)) => CurrentFired(q)
           /\ q # <<>> /\ Head(q) = Fired("current") => CurrentFired(q)
           /\ \A e : CurrentFired(Append(q, e)) => CurrentFired(q) \/ e = Fired("current")
<1>1. ~CurrentFired(FormerEvents(q))
  <2>1. ASSUME NEW i \in DOMAIN q PROVE FormerEvents(q)[i] # Fired("current")
    <3>1. CASE q[i].type = "fired"
      BY <3>1 DEF FormerEvents, Fired
    <3>2. CASE q[i].type # "fired"
      BY <3>2 DEF FormerEvents, Fired
    <3>3. QED
      BY <3>1, <3>2
  <2>2. DOMAIN FormerEvents(q) = DOMAIN q
    BY DEF FormerEvents
  <2>3. QED
    BY <2>1, <2>2 DEF CurrentFired
<1>2. q # <<>> /\ CurrentFired(Tail(q)) => CurrentFired(q)
  <2>1. ASSUME q # <<>>, NEW i \in DOMAIN Tail(q)
        PROVE  i + 1 \in DOMAIN q /\ Tail(q)[i] = q[i + 1]
    BY <2>1
  <2>2. QED
    BY <2>1 DEF CurrentFired
<1>3. q # <<>> /\ Head(q) = Fired("current") => CurrentFired(q)
  BY DEF CurrentFired
<1>4. ASSUME NEW e, NEW i \in DOMAIN Append(q, e)
      PROVE  (i \in DOMAIN q /\ Append(q, e)[i] = q[i]) \/ Append(q, e)[i] = e
  OBVIOUS
<1>5. QED
  BY <1>1, <1>2, <1>3, <1>4 DEF CurrentFired

\* What has waited long enough has done so for any further wait.
LEMMA RipeGrows ==
    ASSUME TypeOK, NEW d \in Nat, Ripe(0)
    PROVE  Ripe(d)
<1>1. PICK p \in Policy : state_age + 0 >= p.delay
  BY DEF Ripe
<1>2. p.delay \in Nat /\ state_age \in Nat
  BY PolicyFields, TimingAssumption DEF TypeOK
<1>3. state_age + d >= p.delay
  BY <1>1, <1>2
<1>4. QED
  BY <1>3 DEF Ripe

LEMMA DelayRipe ==
    ASSUME TypeOK, NEW p \in Policy
    PROVE  Ripe(p.delay)
<1>1. p.delay \in Nat /\ state_age \in Nat
  BY PolicyFields, TimingAssumption DEF TypeOK
<1>2. QED
  BY <1>1 DEF Ripe

LEMMA TickInTime == ASSUME TypeOK, InTime, Tick PROVE InTime'
<1>1. /\ state_age \in 0..Horizon /\ Horizon \in Nat /\ timer \in Timers \cup {None}
      /\ UNCHANGED <<state, queue, scanning>> /\ state_age' = Least(state_age + 1, Horizon)
  BY TimingAssumption DEF TypeOK, Tick
<1>2. state_age' \in Nat /\ (state_age' = state_age + 1 \/ state_age' = Horizon)
  BY <1>1, LeastType
<1>3. ASSUME NEW p \in Policy, NEW d \in Nat, NEW c \in Nat, c + 1 >= d,
             state_age + d >= p.delay
      PROVE  state_age' + c >= p.delay
  <2>1. p.delay \in 1..Horizon
    BY PolicyFields
  <2>2. QED
    BY <1>1, <1>2, <1>3, <2>1
<1>4. Ripe(0) => Ripe(0)'
  BY <1>3 DEF Ripe
<1>5. ASSUME timer' # None, timer'.by = "current", state = "background"
      PROVE  Ripe(timer.left) /\ Ripe(timer.left)'
  <2>1. timer # None /\ timer \in Timers /\ timer.left # 0
    BY <1>1, <1>5 DEF Tick, Due
  <2>2. timer'.left = timer.left - 1 /\ timer'.by = timer.by
    <3>1. timer' = [timer EXCEPT !.left = @ - 1]
      BY <2>1 DEF Tick
    <3>2. QED
      BY <2>1, <3>1 DEF Timers
  <2>3. timer.left \in Nat /\ timer'.left \in Nat
    BY <1>1, <2>1, <2>2 DEF Timers
  <2>4. Ripe(timer.left)
    BY <1>5, <2>1, <2>2 DEF InTime
  <2>5. timer'.left + 1 >= timer.left
    BY <2>2, <2>3
  <2>6. QED
    BY <1>3, <2>3, <2>4, <2>5 DEF Ripe
<1>6. QED
  BY <1>1, <1>4, <1>5 DEF InTime

LEMMA FireInTime == ASSUME TypeOK, InTime, Fire PROVE InTime'
<1>1. UNCHANGED <<state, state_age, scanning>> /\ queue \in Seq(Event)
  BY DEF Fire, TypeOK
<1>2. Ripe(0)' <=> Ripe(0)
  BY <1>1 DEF Ripe
<1>3. Fired("former") # Fired("current")
  BY DEF Fired
<1>4. CASE timer # None /\ timer.left = 0 /\ timer' = None
           /\ queue' = Append(queue, Fired(timer.by))
  <2>1. Fired(timer.by) = Fired("current") => timer.by = "current"
    BY DEF Fired
  <2>2. CurrentFired(queue') => CurrentFired(queue) \/ timer.by = "current"
    BY <1>1, <1>4, <2>1, CurrentEvents
  <2>3. QED
    BY <1>1, <1>2, <1>4, <2>2 DEF InTime
<1>5. CASE UNCHANGED timer /\ queue' = Append(queue, Fired("former"))
  <2>1. CurrentFired(queue') => CurrentFired(queue)
    BY <1>1, <1>3, <1>5, CurrentEvents
  <2>2. timer' = timer /\ (Ripe(timer.left)' <=> Ripe(timer.left))
    BY <1>1, <1>5 DEF Ripe
  <2>3. QED
    BY <1>1, <1>2, <2>1, <2>2 DEF InTime
<1>6. QED
  BY <1>4, <1>5 DEF Fire

LEMMA ArriveInTime == ASSUME TypeOK, InTime, NEW e \in Outside, Arrive(e) PROVE InTime'
<1>1. UNCHANGED <<state, state_age, timer, scanning>> /\ queue \in Seq(Event)
      /\ queue' = Append(queue, e)
  BY DEF Arrive, entryVars, TypeOK
<1>2. e # Fired("current")
  BY DEF Outside, Fired
<1>3. CurrentFired(queue') => CurrentFired(queue)
  BY <1>1, <1>2, CurrentEvents
<1>4. (Ripe(0)' <=> Ripe(0)) /\ (Ripe(timer.left)' <=> Ripe(timer.left))
  BY <1>1 DEF Ripe
<1>5. QED
  BY <1>1, <1>3, <1>4 DEF InTime

\* A suspension that returns has waited, or is not of the schedule in force.
LEMMA ReturnInTime ==
    ASSUME TypeOK, InTime, GuardsBlock \/ Passes \/ Succeeds \/ Fails
    PROVE  InTime'
<1>1. scanning # None /\ scanning \in By /\ scanning' = None /\ UNCHANGED queue
      /\ None # "current"
  BY NoneAssumption DEF GuardsBlock, Passes, Succeeds, Fails, Returns, TypeOK, By
<1>2. ASSUME NEW d \in 0..Horizon, timer' = Timer(d, scanning),
             UNCHANGED <<state, state_age>>
      PROVE  InTime'
  <2>1. timer'.left = d /\ timer'.by = scanning /\ d \in Nat
    BY <1>2, TimingAssumption DEF Timer
  <2>2. scanning = "current" /\ state = "background" => Ripe(d)
    BY <2>1, RipeGrows DEF InTime
  <2>3. (Ripe(0)' <=> Ripe(0)) /\ (Ripe(timer.left)' <=> Ripe(d))
    BY <1>2, <2>1 DEF Ripe
  <2>4. QED
    BY <1>1, <1>2, <2>1, <2>2, <2>3 DEF InTime
<1>3. CASE GuardsBlock
  <2>1. RETRY_INTERVAL \in 0..Horizon
    BY TimingAssumption
  <2>2. QED
    BY <1>2, <1>3, <2>1 DEF GuardsBlock, ScheduleSuspend
<1>4. CASE Passes \/ Succeeds
  BY <1>4 DEF Passes, Succeeds, SetState, entryVars, InTime
<1>5. CASE Fails
  <2>1. failures \in Nat
    BY TimingAssumption DEF TypeOK
  <2> DEFINE d == Least(RETRY_INTERVAL * 2 ^ failures, MAX_RETRY_INTERVAL)
  <2>2. d \in 0..Horizon
    BY <2>1, BackOff
  <2>3. /\ timer' = None \/ timer' = Timer(d, scanning)
        /\ UNCHANGED <<state, state_age>>
    BY <1>5 DEF Fails, ScheduleSuspend, CancelSuspendTimer
  <2> HIDE DEF d
  <2>4. CASE timer' = None
    <3>1. Ripe(0)' <=> Ripe(0)
      BY <2>3 DEF Ripe
    <3>2. QED
      BY <1>1, <2>3, <2>4, <3>1 DEF InTime
  <2>5. QED
    BY <1>2, <2>2, <2>3, <2>4
<1>6. QED
  BY <1>3, <1>4, <1>5

\* The events a handler leaves are no more of the schedule in force than before,
\* and not at all if it was another's event and the schedule has changed.
LEMMA RestCurrent ==
    ASSUME TypeOK, Handle
    PROVE  /\ CurrentFired(queue') => CurrentFired(queue)
           /\ Head(queue).type # "fired" /\ (state' # state \/ timer' # timer)
                => ~CurrentFired(queue')
<1>1. queue \in Seq(Event) /\ queue # <<>> /\ Tail(queue) \in Seq(Event)
  BY DEF TypeOK, Handle
<1>2. /\ ~CurrentFired(FormerEvents(Tail(queue)))
      /\ CurrentFired(Tail(queue)) => CurrentFired(queue)
  BY <1>1, CurrentEvents
<1>3. queue' = (IF Head(queue).type # "fired" /\ <<state, timer>>' # <<state, timer>>
                THEN FormerEvents(Tail(queue)) ELSE Tail(queue))
  BY DEF Handle
<1>4. QED
  BY <1>2, <1>3

LEMMA KeptInTime ==
    ASSUME TypeOK, InTime, Handle, UNCHANGED <<state, state_age>>, scanning' = None,
           timer' \in {timer, None}
    PROVE  InTime'
<1>1. None # "current"
  BY NoneAssumption DEF By
<1>2. (Ripe(0)' <=> Ripe(0)) /\ (timer' # None => (Ripe(timer.left)' <=> Ripe(timer.left)))
  BY DEF Ripe
<1>3. QED
  BY <1>1, <1>2, RestCurrent DEF InTime

\* A wait that begins with the handler is as long as a delay of the policies.
LEMMA NewWaitInTime ==
    ASSUME TypeOK, Handle, Head(queue).type # "fired", scanning' = None,
           state' # state \/ timer' # timer, state_age' \in Nat,
           NEW p \in Policy, timer' = None \/ timer' = Timer(p.delay, "current")
    PROVE  InTime'
<1>1. None # "current"
  BY NoneAssumption DEF By
<1>2. ~CurrentFired(queue')
  BY RestCurrent
<1>3. timer' # None => timer'.left = p.delay
  BY DEF Timer
<1>4. timer' # None => Ripe(timer.left)'
  <2>1. p.delay \in Nat
    BY PolicyFields, TimingAssumption
  <2>2. state_age' + p.delay >= p.delay
    BY <2>1
  <2>3. QED
    BY <1>3, <2>2 DEF Ripe
<1>5. QED
  BY <1>1, <1>2, <1>4 DEF InTime

LEMMA FiredInTime ==
    ASSUME TypeOK, InTime, Handle, NEW by \in By, Head(queue) = Fired(by),
           SuspendTimerFired(by)
    PROVE  InTime'
<1>1. /\ scanning = None /\ None # "current" /\ queue \in Seq(Event) /\ queue # <<>>
      /\ state_age \in 0..Horizon /\ policy.min \in 0..Horizon /\ Horizon \in Nat
  BY PolicyFields, TimingAssumption, NoneAssumption DEF Handle, Idle, TypeOK, By
<1>2. by = "current" /\ state = "background" => Ripe(0)
  <2>1. by = "current" => CurrentFired(queue)
    BY <1>1, CurrentEvents
  <2>2. QED
    BY <2>1 DEF InTime
<1>3. CASE state = "untracked"
  BY <1>1, <1>3, KeptInTime DEF SuspendTimerFired, Keep, entryVars
<1>4. CASE state # "untracked" /\ policy.action = "ignore"
  BY <1>1, <1>4, KeptInTime DEF SuspendTimerFired, CancelSuspendTimer, Keep
<1>5. CASE state # "untracked" /\ policy.action # "ignore" /\ InResumeGrace
  BY <1>1, <1>5, KeptInTime DEF SuspendTimerFired, Keep, entryVars
<1>6. CASE state # "untracked" /\ policy.action # "ignore" /\ ~InResumeGrace
           /\ state_age < policy.min
  <2> DEFINE d == policy.min - state_age
  <2>1. d \in Nat
    BY <1>1, <1>6
  <2>2. /\ timer' = Timer(d, by) /\ UNCHANGED <<state, state_age>> /\ scanning' = None
    BY <1>1, <1>6 DEF SuspendTimerFired, Postpone, ScheduleSuspend, Keep
  <2> HIDE DEF d
  <2>3. timer'.left = d /\ timer'.by = by
    BY <2>2 DEF Timer
  <2>4. by = "current" /\ state = "background" => Ripe(d)
    BY <1>2, <2>1, RipeGrows
  <2>5. (Ripe(0)' <=> Ripe(0)) /\ (Ripe(timer.left)' <=> Ripe(d))
    BY <2>2, <2>3 DEF Ripe
  <2>6. QED
    BY <1>1, <2>2, <2>3, <2>4, <2>5, RestCurrent DEF InTime
<1>7. CASE state # "untracked" /\ policy.action # "ignore" /\ ~InResumeGrace
           /\ ~(state_age < policy.min)
  <2>1. scanning' = by /\ UNCHANGED <<state, state_age, timer>>
    BY <1>7 DEF SuspendTimerFired, entryVars
  <2>2. (Ripe(0)' <=> Ripe(0)) /\ (Ripe(timer.left)' <=> Ripe(timer.left))
    BY <2>1 DEF Ripe
  <2>3. QED
    BY <1>2, <2>1, <2>2, RestCurrent DEF InTime
<1>8. QED
  BY <1>3, <1>4, <1>5, <1>6, <1>7

LEMMA HandleInTime == ASSUME TypeOK, InTime, Handle PROVE InTime'
<1> DEFINE e == Head(queue)
<1>1. /\ e \in Event /\ HandleEvent(e) /\ scanning = None
      /\ state_age \in Nat /\ policy \in Policy
      /\ state \in {"untracked", "active", "background", "frozen"}
  BY RestOfQueue, TimingAssumption DEF TypeOK, Handle, Idle
<1>2. CASE e.type = "focused"
  <2>1. Register \/ Activate
    BY <1>1, <1>2 DEF HandleEvent
  <2>2. state' # "background"
    BY <1>1, <2>1 DEF Register, Activate, OnFocusGained, To, SetState
  <2>3. QED
    BY <2>2 DEF InTime
<1>3. CASE e.type = "unfocused"
  <2>1. Background /\ scanning' = None
    BY <1>1, <1>3 DEF HandleEvent, Background, Keep
  <2>2. CASE UNCHANGED entryVars
    BY <2>1, <2>2, KeptInTime DEF entryVars
  <2>3. CASE state = "active"
    <3>1. timer' = Timer(policy.delay, "current") /\ state' # state /\ state_age' = 0
      BY <2>1, <2>3 DEF Background, OnFocusLost, To, SetState, ScheduleSuspend
    <3>2. QED
      BY <1>1, <1>3, <2>1, <3>1, NewWaitInTime
  <2>4. QED
    BY <2>1, <2>2, <2>3 DEF Background, OnFocusLost, To
<1>4. CASE e.type = "activation"
  <2>1. PreThaw /\ scanning' = None
    BY <1>1, <1>4 DEF HandleEvent, PreThaw, Keep
  <2>2. CASE UNCHANGED entryVars
    BY <2>1, <2>2, KeptInTime DEF entryVars
  <2>3. CASE state = "frozen"
    <3>1. timer' = Timer(policy.delay, "current") /\ state' # state /\ state_age' = 0
      BY <2>1, <2>3 DEF PreThaw, ScheduleSuspend
    <3>2. QED
      BY <1>1, <1>4, <2>1, <3>1, NewWaitInTime
  <2>4. QED
    BY <2>1, <2>2, <2>3 DEF PreThaw
<1>5. CASE e.type = "closed"
  <2>1. Close /\ scanning' = None
    BY <1>1, <1>5 DEF HandleEvent, Close, Keep
  <2>2. CASE UNCHANGED entryVars
    BY <2>1, <2>2, KeptInTime DEF entryVars
  <2>3. CASE state' = "untracked"
    BY <2>3 DEF InTime
  <2>4. QED
    BY <2>1, <2>2, <2>3 DEF Close
<1>6. CASE e.type = "reload"
  <2> DEFINE new == e.policy
  <2>1. new \in Policy /\ Rematch(new)
    BY <1>1, <1>6, EventFields DEF HandleEvent
  <2>2. scanning' = None
    BY <1>1, <2>1 DEF Rematch
  <2> HIDE DEF new
  <2>3. CASE state = "frozen" /\ new.action = "ignore"
    <3>1. timer' = None /\ state' # state /\ state_age' = 0
      BY <2>1, <2>3 DEF Rematch, CancelSuspendTimer
    <3>2. QED
      BY <1>6, <2>1, <2>2, <3>1, NewWaitInTime
  <2>4. CASE state = "background" /\ new.action = "ignore"
    <3>1. timer' = None /\ UNCHANGED <<state, state_age>>
      BY <2>1, <2>4 DEF Rematch, CancelSuspendTimer
    <3>2. QED
      BY <2>2, <3>1, KeptInTime
  <2>5. CASE state = "background" /\ new.action # "ignore" /\ policy.action # "ignore"
    <3>1. timer' = Timer(new.delay, "current") /\ UNCHANGED <<state, state_age>>
      BY <2>1, <2>5 DEF Rematch, ScheduleSuspend
    <3>2. CASE timer' = timer
      BY <2>2, <3>1, <3>2, KeptInTime
    <3>3. CASE timer' # timer
      BY <1>1, <1>6, <2>1, <2>2, <3>1, <3>3, NewWaitInTime
    <3>4. QED
      BY <3>2, <3>3
  <2>6. CASE /\ ~(state = "frozen" /\ new.action = "ignore")
             /\ ~(state = "background" /\ new.action = "ignore")
             /\ ~(state = "background" /\ new.action # "ignore" /\ policy.action # "ignore")
    <3>1. UNCHANGED <<state, state_age, timer>>
      BY <2>1, <2>6 DEF Rematch
    <3>2. QED
      BY <2>2, <3>1, KeptInTime
  <2>7. QED
    BY <2>3, <2>4, <2>5, <2>6
<1>7. CASE e.type = "fired"
  <2>1. e.by \in By /\ e = Fired(e.by)
    BY <1>1, <1>7 DEF Event, Fired
  <2>2. SuspendTimerFired(e.by)
    BY <1>1, <1>7 DEF HandleEvent
  <2>3. QED
    BY <2>1, <2>2, FiredInTime
<1>8. CASE e.type = "other"
  <2>1. UNCHANGED <<entryVars, scanning>>
    BY <1>1, <1>8 DEF HandleEvent
  <2>2. QED
    BY <1>1, <2>1, KeptInTime DEF entryVars
<1>9. QED
  BY <1>1, <1>2, <1>3, <1>4, <1>5, <1>6, <1>7, <1>8, EventFields

\* However long the loop is away, whatever guards, failures and reloads put off,
\* and whatever timers are left over: a suspension that the schedule in force
\* brings about comes after the shortest delay, for any policies, those that
\* ignore the application among them.
THEOREM NoSuspensionEarly == Spec => NotEarly
<1>1. Init => TypeOK /\ InTime
  BY InitType DEF Init, InTime
<1>2. TypeOK /\ InTime /\ [Next]_vars => TypeOK' /\ InTime'
  <2> SUFFICES ASSUME TypeOK, InTime, [Next]_vars PROVE InTime'
    BY StepType
  <2>1. CASE UNCHANGED vars
    BY <2>1 DEF InTime, Ripe, CurrentFired, vars, entryVars
  <2>2. QED
    BY <2>1, TickInTime, FireInTime, HandleInTime, ReturnInTime, ArriveInTime DEF Next
<1>3. TypeOK /\ InTime /\ [Next]_vars =>
        [Succeeds /\ scanning = "current" => \E p \in Policy : state_age >= p.delay]_vars
  <2>1. ASSUME TypeOK, NEW p \in Policy, state_age + 0 >= p.delay
        PROVE  state_age >= p.delay
    <3>1. p.delay \in Nat /\ state_age \in Nat
      BY PolicyFields, TimingAssumption, <2>1 DEF TypeOK
    <3>2. QED
      BY <2>1, <3>1
  <2>2. TypeOK /\ InTime /\ Succeeds /\ scanning = "current"
          => \E p \in Policy : state_age >= p.delay
    BY <2>1 DEF InTime, Ripe, Succeeds
  <2>3. QED
    BY <2>2
<1>4. QED
  BY <1>1, <1>2, <1>3, PTL DEF Spec, NotEarly
=============================================================================
