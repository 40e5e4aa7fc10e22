---------------------------- MODULE MCCgroupTier ----------------------------
(* Instances of CgroupTier for TLC: application a1, to be frozen, with the  *)
(* window process `main' and a `helper' below it, and application a2, to be *)
(* throttled by a quota alone, with the window process `other'.             *)
EXTENDS CgroupTier

CONSTANTS a1, a2, main, helper, other, service, session

OwnerOf  == [p \in Proc |-> IF p = other THEN a2 ELSE a1]
ParentOf == [p \in Proc |-> IF p = helper THEN main ELSE p]
NameOf   == [a \in App |-> a]
RuleOf   == [a \in App |-> IF a = a2 THEN "throttle" ELSE "freeze"]
QuotaOnly ==
    [a \in App |-> [nice |-> FALSE, weight |-> FALSE, quota |-> 40]]

\* Started as a service of the user, or from the session.
Delegated == [writable |-> TRUE, freezeFile |-> TRUE, cpu |-> TRUE, systemd |-> TRUE,
              base |-> service]
NoControllers == [Delegated EXCEPT !.freezeFile = FALSE, !.cpu = FALSE]
SessionOnly   == [Delegated EXCEPT !.writable = FALSE]
Bare          == [SessionOnly EXCEPT !.systemd = FALSE]

Elsewhere(e)  == [e EXCEPT !.base = session]

DelegatedOnly == {Delegated}
EveryTier     == {Delegated, NoControllers, SessionOnly, Elsewhere(SessionOnly),
                  Bare}
=============================================================================
