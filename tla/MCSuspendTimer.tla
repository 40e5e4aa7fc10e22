--------------------------- MODULE MCSuspendTimer ---------------------------
(* Instances of SuspendTimer for TLC: a policy of three ticks, and one that  *)
(* has the same delay, a longer grace and a min_suspend beyond the delay.    *)
EXTENDS SuspendTimer

Timing(delay, grace, min) ==
    [delay |-> delay, grace |-> grace, min |-> min, action |-> "freeze"]
ShortAndLong == {Timing(3, 2, 1), Timing(3, 3, 4)}
=============================================================================
