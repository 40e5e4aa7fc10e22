-------------------------- MODULE MCWindowTracking --------------------------
(* Instances of WindowTracking for TLC: two windows of one program, the      *)
(* second of which does not tell its PID, and one window of a denied program *)
(* that may get the PID of the first.                                        *)
EXTENDS WindowTracking

CONSTANTS w1, w2, w3, browser, portal

PidOfWindow == [w \in Window |-> IF w = w2 THEN None ELSE 1]
ExeOfWindow == [w \in Window |-> IF w = w3 THEN portal ELSE browser]
OnDesktop   == [w \in Window |-> IF w = w2 THEN 2 ELSE 1]

\* A rule for the browser with a profile, and freeze for the rest; or the rule
\* is gone and a catch-all says ignore.
Defaults == [action |-> "freeze"]
Profiles == [heavy |-> [action |-> "freeze"]]
FreezeAll ==
    [defaults |-> Defaults, profiles |-> Profiles,
     rules |-> <<[match |-> [wm_class |-> {browser}],
                  policy |-> [use_profile |-> "heavy", action |-> None]]>>]
IgnoreAll ==
    [defaults |-> Defaults, profiles |-> Profiles,
     rules |-> <<[match |-> [executable |-> {portal}, wm_class |-> {browser}],
                  policy |-> [use_profile |-> "heavy", action |-> None]],
                 [match |-> [x \in {} |-> {}],
                  policy |-> [use_profile |-> "gone", action |-> "ignore"]]>>]
BothConfigs == {FreezeAll, IgnoreAll}
OneConfig   == {FreezeAll}
=============================================================================
