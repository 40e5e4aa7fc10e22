------------------------------ MODULE AppState ------------------------------
(***************************************************************************)
(* The application state machine (state/machine.rs): pure functions from a *)
(* state and an event to the next state and the action that reaches it.    *)
(* "untracked" is no AppState of the code: it is the state of a name the   *)
(* registry holds no entry for.                                            *)
(***************************************************************************)

States    == {"active", "background", "throttled", "frozen"}
Suspended == {"throttled", "frozen"}

\* The actions that are withheld while management is off.
RequiresManagement(action) ==
    action \in {"startSuspendTimer", "applyThrottle", "applyFreeze"}

To(s, action) == [state |-> s, action |-> action]

OnFocusLost(s) ==
    IF s = "active" THEN To("background", "startSuspendTimer")
                    ELSE To(s, "noOp")

OnFocusGained(s) ==
    To("active", CASE s = "background" -> "cancelSuspendTimer"
                   [] s = "throttled"  -> "removeThrottle"
                   [] s = "frozen"     -> "thaw"
                   [] s = "active"     -> "noOp")

OnSuspendTimer(s, mode) ==
    IF s # "background"       THEN To(s, "noOp")
    ELSE IF mode = "freeze"   THEN To("frozen", "applyFreeze")
                              ELSE To("throttled", "applyThrottle")
=============================================================================
