------------------------------ MODULE MCEngine ------------------------------
(* Instances of Engine for TLC: application a1 with the window processes     *)
(* `main' and `next' and a `helper' below `main', application a2 with the    *)
(* window process `other'.  Management is on with an unknown source or on    *)
(* battery, and with "ac" where a configuration says so.                     *)
EXTENDS Engine

CONSTANTS a1, a2, main, helper, next, other

OwnerOf  == [p \in Proc |-> IF p = other THEN a2 ELSE a1]
ParentOf == [p \in Proc |-> IF p = helper THEN main ELSE p]

Conf(x, wakes) ==
    [enabled |-> TRUE, ac |-> FALSE, battery |-> TRUE,
     rules |-> [a \in App |-> [action |-> x, maintenance |-> wakes]]]

Freezing      == {Conf("freeze", FALSE)}
FreezeAndWake == {Conf("freeze", TRUE)}
EveryAction   == {Conf(x, FALSE) : x \in Actions} \cup
                 {[Conf("freeze", FALSE) EXCEPT !.enabled = FALSE]}
=============================================================================
