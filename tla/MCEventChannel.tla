--------------------------- MODULE MCEventChannel ---------------------------
(* An instance of EventChannel for TLC.  A place in the channel is free or   *)
(* not, a second one lets a shutdown request find room; two connections      *)
(* compete for one permit.                                                   *)
EXTENDS EventChannel

CONSTANTS c1, c2, old, new, bad

Asked == [c \in Conn |-> IF c = c1 THEN {"reload", "shutdown"} ELSE {"silent"}]

\* What happens comes in parts: reloads by every way, power changes behind a slow
\* engine, clients, and every way to shut down.
Plan(counts) == [x \in Outside |-> IF x \in DOMAIN counts THEN counts[x] ELSE 0]
SomeOfEach ==
    {Plan([edit |-> 2, hangup |-> 1]),
     Plan([edit |-> 2, connect |-> 1, focus |-> 1]),
     Plan([power |-> 2, timer |-> 1]),
     Plan([connect |-> 2, timer |-> 1]),
     Plan([signal |-> 1, connect |-> 1, timer |-> 1]),
     Plan([signal |-> 1, gone |-> 1, timer |-> 1, focus |-> 1])}
=============================================================================
