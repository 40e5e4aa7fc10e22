---------------------------- MODULE SuspendTimer ----------------------------
(***************************************************************************)
(* The way of one application to its suspension, with a clock              *)
(* (engine/suspend.rs, engine/transitions.rs, engine/focus.rs,             *)
(* engine/config_power.rs): the wait of suspend_delay, the grace after an  *)
(* activation, the postponement to min_suspend, retries with back-off, and *)
(* timers that outlive their purpose, because their event is in the        *)
(* channel already or their entry was dropped without aborting them.       *)
(* Times are ages and remaining times, so that the clock has no end.       *)
(***************************************************************************)
EXTENDS AppState, Naturals, Sequences

CONSTANTS
    Policy,             \* what a rule may resolve to: delay, grace, min, action
    Away,               \* longest time the loop is away for one suspension
    RETRY_INTERVAL, MAX_RETRY_INTERVAL, MAX_SUSPEND_ATTEMPTS,
    Horizon,            \* ages beyond it are not told apart
    QueueLen,           \* bound on what else is in the channel when events arrive
    None

ASSUME TimingAssumption ==
    /\ Policy \subseteq [delay : 1..Horizon, grace : 0..Horizon, min : 0..Horizon,
                         action : {"freeze", "ignore"}]
    /\ Away \in Nat /\ Horizon \in Nat /\ QueueLen \in Nat \ {0}
    /\ RETRY_INTERVAL \in 1..Horizon /\ MAX_RETRY_INTERVAL \in 1..Horizon
    /\ MAX_SUSPEND_ATTEMPTS \in Nat \ {0}

VARIABLES
    state,      \* of the entry, "untracked" if there is none
    policy,     \* of the entry
    rules,      \* the policy the rules in force resolve to
    active_age, \* since last_active
    state_age,  \* since state_since
    timer,      \* the entry's suspend timer, or None if none runs
    stray,      \* a timer of an entry that was dropped, or None
    failures,   \* suspend_failures of the application
    queue,      \* events in the channel
    away,       \* how long the loop is still away
    scanning    \* what its own suspension was started by, or None

entryVars == <<state, policy, active_age, state_age, timer, stray, failures>>
vars == <<entryVars, rules, queue, away, scanning>>

\* Each timer, and the event it sends, is marked: of the schedule in force for the
\* entry, or of a former one, that was replaced or cancelled or whose entry is
\* gone.  A timer that the event's own handler sets is marked like the event.  An
\* event that waits is of a former schedule once the state changes, as a timer
\* that has fired is cancelled in vain.
By     == {"current", "former"}
Timers == [left : 0..Horizon, by : By]
Event  == [type : {"focused", "unfocused", "closed", "activation", "other"}] \cup
          [type : {"reload"}, policy : Policy] \cup [type : {"fired"}, by : By]

\* A timer that does not run is not a timer.
ASSUME NoneAssumption == None \notin Timers \cup By

Fired(by)     == [type |-> "fired", by |-> by]
Timer(d, by)  == [left |-> d, by |-> by]
Least(x, y)   == IF x <= y THEN x ELSE y
FormerEvents(q) ==
    [i \in DOMAIN q |-> IF q[i].type = "fired" THEN Fired("former") ELSE q[i]]

----------------------------------------------------------------------------
(* Time, timers and what comes from outside                                *)

Due == \E t \in {timer, stray} \ {None} : t.left = 0

\* Nothing that can happen now waits for the clock.
Tick ==
    /\ ~Due /\ (queue = <<>> \/ away > 0) /\ (scanning = None \/ away > 0)
    /\ active_age' = Least(active_age + 1, Horizon)
    /\ state_age' = Least(state_age + 1, Horizon)
    /\ timer' = IF timer = None THEN None ELSE [timer EXCEPT !.left = @ - 1]
    /\ stray' = IF stray = None THEN None ELSE [stray EXCEPT !.left = @ - 1]
    /\ away' = IF away > 0 THEN away - 1 ELSE 0
    /\ UNCHANGED <<state, policy, failures, rules, queue, scanning>>

\* spawn_delayed_event: the task sends and ends.
Fire ==
    /\ \/ /\ timer # None /\ timer.left = 0
          /\ timer' = None /\ queue' = Append(queue, Fired(timer.by))
          /\ UNCHANGED stray
       \/ /\ stray # None /\ stray.left = 0
          /\ stray' = None /\ queue' = Append(queue, Fired("former"))
          /\ UNCHANGED timer
    /\ UNCHANGED <<state, policy, active_age, state_age, failures, rules, away, scanning>>

\* "other" is the suspend timer of another application: at most one runs.
Arrive(e) ==
    /\ Len(queue) < QueueLen
    /\ e.type = "other" => \A i \in DOMAIN queue : queue[i].type # "other"
    /\ queue' = Append(queue, e)
    /\ UNCHANGED <<entryVars, rules, away, scanning>>

----------------------------------------------------------------------------
(* The handlers                                                            *)

\* AppEntry::set_state.
SetState(s) ==
    /\ state' = s /\ state_age' = 0
    /\ active_age' = IF s = "active" THEN 0 ELSE active_age

\* schedule_suspend, with set_suspend_timer, which aborts the timer before.
ScheduleSuspend(delay, by) == timer' = Timer(delay, by)
CancelSuspendTimer == timer' = None

Keep == UNCHANGED <<policy, stray, failures, rules, away, scanning>>

\* register_new_app: AppEntry::new.  What earlier entries left behind is theirs.
Register ==
    /\ state = "untracked"
    /\ SetState("active") /\ policy' = rules /\ CancelSuspendTimer
    /\ UNCHANGED <<stray, failures, rules, away, scanning>>

\* activate_existing_app.
Activate ==
    LET to == OnFocusGained(state) IN
    /\ state # "untracked"
    /\ IF to.action = "noOp" THEN UNCHANGED <<state, state_age, active_age, failures>>
       ELSE SetState(to.state) /\ failures' = 0
    /\ IF to.action = "cancelSuspendTimer" THEN CancelSuspendTimer ELSE UNCHANGED timer
    /\ UNCHANGED <<policy, stray, rules, away, scanning>>

\* Mutant: what the activation's grace period leaves is the whole wait.
BackgroundForGrace ==
    LET to == OnFocusLost(state) IN
    IF state = "untracked" \/ to.action = "noOp" THEN UNCHANGED entryVars /\ Keep
    ELSE SetState(to.state) /\ ScheduleSuspend(policy.grace, "current") /\ Keep

\* background_other_active_apps, for whatever the policy says.
Background ==
    LET to == OnFocusLost(state) IN
    IF state = "untracked" \/ to.action = "noOp" THEN UNCHANGED entryVars /\ Keep
    ELSE SetState(to.state) /\ ScheduleSuspend(policy.delay, "current") /\ Keep

\* remove_window: the entry goes, its timer's task does not; a second one that
\* is left behind is not told apart from the first.
Close ==
    IF state = "untracked" THEN UNCHANGED entryVars /\ Keep
    ELSE /\ state' = "untracked" /\ timer' = None /\ failures' = 0
         /\ stray' = IF timer # None THEN Timer(timer.left, "former") ELSE stray
         /\ UNCHANGED <<policy, active_age, state_age, rules, away, scanning>>

\* handle_activation_requested; restore_to_background passes through Active.
PreThaw ==
    IF state # "frozen" THEN UNCHANGED entryVars /\ Keep
    ELSE /\ state' = "background" /\ state_age' = 0 /\ active_age' = 0
         /\ ScheduleSuspend(policy.delay, "current") /\ Keep

\* rematch_tracked_apps.
Rematch(new) ==
    /\ rules' = new
    /\ policy' = (IF state = "untracked" THEN policy ELSE new)
    /\ CASE state = "frozen" /\ new.action = "ignore" ->
              /\ state' = "background" /\ state_age' = 0 /\ active_age' = 0
              /\ CancelSuspendTimer
         [] state = "background" /\ new.action = "ignore" ->
              CancelSuspendTimer /\ UNCHANGED <<state, state_age, active_age>>
         [] state = "background" /\ "ignore" \notin {policy.action, new.action} ->
              /\ ScheduleSuspend(new.delay, "current")
              /\ UNCHANGED <<state, state_age, active_age>>
         [] OTHER -> UNCHANGED <<state, state_age, active_age, timer>>
    /\ UNCHANGED <<stray, failures, away, scanning>>

\* Mutants: what min_suspend holds back is dropped like what the grace period does;
\* the remaining time is counted from the last activation.
PostponeNever(by) == UNCHANGED entryVars /\ Keep
PostponeFromActivation(by) ==
    /\ ScheduleSuspend(policy.min - active_age, by)
    /\ UNCHANGED <<state, active_age, state_age>> /\ Keep

InResumeGrace == active_age < policy.grace

Postpone(by) ==
    /\ ScheduleSuspend(policy.min - state_age, by)
    /\ UNCHANGED <<state, active_age, state_age>> /\ Keep

\* handle_suspend_timer, up to the point where it awaits.
SuspendTimerFired(by) ==
    CASE state = "untracked" -> UNCHANGED entryVars /\ Keep
      [] state # "untracked" /\ policy.action = "ignore" ->
             CancelSuspendTimer /\ UNCHANGED <<state, active_age, state_age>> /\ Keep
      [] state # "untracked" /\ policy.action # "ignore" /\ InResumeGrace ->
             UNCHANGED entryVars /\ Keep
      [] state # "untracked" /\ policy.action # "ignore" /\ ~InResumeGrace
           /\ state_age < policy.min -> Postpone(by)
      [] OTHER -> /\ scanning' = by /\ away' \in 0..Away
                  /\ UNCHANGED <<entryVars, rules>>

Idle == away = 0 /\ scanning = None

\* handle_event.
HandleEvent(e) ==
    CASE e.type = "focused"    -> Register \/ Activate
      [] e.type = "unfocused"  -> Background
      [] e.type = "activation" -> PreThaw
      [] e.type = "closed"     -> Close
      [] e.type = "reload"     -> Rematch(e.policy)
      [] e.type = "fired"      -> SuspendTimerFired(e.by)
      [] e.type = "other"      -> away' \in 0..Away /\ UNCHANGED <<entryVars, rules, scanning>>

Handle ==
    /\ Idle /\ queue # <<>>
    /\ HandleEvent(Head(queue))
    /\ queue' = IF Head(queue).type # "fired" /\ <<state, timer>>' # <<state, timer>>
                THEN FormerEvents(Tail(queue)) ELSE Tail(queue)

Returns == scanning # None /\ away = 0 /\ scanning' = None

\* A guard blocks: reschedule_suspend.
GuardsBlock ==
    /\ Returns
    /\ ScheduleSuspend(RETRY_INTERVAL, scanning)
    /\ UNCHANGED <<state, policy, active_age, state_age, stray, failures, rules, queue,
                   away>>

\* An application that is not in the background is left as it is.
Passes ==
    /\ Returns /\ state # "background"
    /\ UNCHANGED <<entryVars, rules, queue, away>>

Succeeds ==
    /\ Returns /\ state = "background"
    /\ SetState("frozen") /\ failures' = 0
    /\ UNCHANGED <<policy, timer, stray, rules, queue, away>>

\* on_suspend_failed: 10 s, 20 s, 40 s, ... up to a limit, then no more.  That
\* nothing is left to suspend, or that the journal cannot be written, ends the
\* attempts without a retry: that is in Engine.
Fails ==
    /\ Returns /\ state = "background"
    /\ failures' = Least(failures + 1, MAX_SUSPEND_ATTEMPTS)
    /\ IF failures' = MAX_SUSPEND_ATTEMPTS THEN CancelSuspendTimer
       ELSE ScheduleSuspend(Least(RETRY_INTERVAL * 2 ^ failures, MAX_RETRY_INTERVAL),
                            scanning)
    /\ UNCHANGED <<state, policy, active_age, state_age, stray, rules, queue, away>>

----------------------------------------------------------------------------
(* The specification                                                       *)

Init ==
    /\ state = "untracked" /\ rules \in Policy /\ policy = rules
    /\ active_age = Horizon /\ state_age = Horizon
    /\ timer = None /\ stray = None /\ failures = 0
    /\ queue = <<>> /\ away = 0 /\ scanning = None

Outside == [type : {"focused", "unfocused", "closed", "activation", "other"}] \cup
           [type : {"reload"}, policy : Policy]

Next == \/ Tick \/ Fire \/ Handle
        \/ GuardsBlock \/ Passes \/ Succeeds \/ Fails
        \/ \E e \in Outside : Arrive(e)

Spec == Init /\ [][Next]_vars

----------------------------------------------------------------------------
(* Properties                                                              *)

\* The variables hold what the code can put there.
TypeOK ==
    /\ state \in {"untracked", "active", "background", "frozen"}
    /\ policy \in Policy /\ rules \in Policy
    /\ active_age \in 0..Horizon /\ state_age \in 0..Horizon
    /\ timer \in Timers \cup {None} /\ stray \in Timers \cup {None}
    /\ failures \in 0..MAX_SUSPEND_ATTEMPTS
    /\ queue \in Seq(Event) /\ away \in 0..Away /\ scanning \in By \cup {None}

\* What will lead to a suspension: a timer, its event, a suspension under way.
Coming == \/ timer # None \/ scanning # None
          \/ \E i \in DOMAIN queue : queue[i].type = "fired"

\* Where suspend_delay is no shorter than resume_grace, an application in the
\* background that is to be frozen is on its way to be, unless it was given up:
\* no event that a grace period swallows, and none that is postponed, was the
\* last one (handle_suspend_timer).
NothingLost ==
    state = "background" /\ policy.action = "freeze" =>
        Coming \/ failures = MAX_SUSPEND_ATTEMPTS

\* No application is frozen before the shortest suspend_delay has gone by since it
\* went to the background, unless the event of a former schedule does it: timers
\* that run on while the application is active or frozen (on_focus_gained,
\* reschedule_suspend) never shorten the wait that begins after them.
NotEarly ==
    [][Succeeds /\ scanning = "current" =>
         \E p \in Policy : state_age >= p.delay]_vars
=============================================================================
