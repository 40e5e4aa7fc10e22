--------------------------- MODULE SuspendLedger ---------------------------
(***************************************************************************)
(* What the freeze journal promises, without files, signals or handlers.   *)
(*                                                                         *)
(* `stopped' is the set of processes that the program has suspended and    *)
(* `recorded' the set that a later run could find on disk.  A process is   *)
(* suspended only when it is recorded already, and the record may be       *)
(* rewritten in any way that keeps every suspended process in it, so that  *)
(* "any state in between is recoverable" (state/journal.rs, lines 8-12).   *)
(***************************************************************************)
CONSTANT Proc

VARIABLES stopped, recorded

vars == <<stopped, recorded>>

Init == stopped = {} /\ recorded = {}

\* A recorded process is stopped.
Suspend(p) ==
    /\ p \in recorded
    /\ stopped' = stopped \cup {p}
    /\ UNCHANGED recorded

\* A process continues, or exits.
Resume(p) ==
    /\ stopped' = stopped \ {p}
    /\ UNCHANGED recorded

\* The durable record is replaced as a whole.
Rewrite(R) ==
    /\ stopped \subseteq R
    /\ recorded' = R
    /\ UNCHANGED stopped

Next ==
    \/ \E p \in Proc : Suspend(p) \/ Resume(p)
    \/ \E R \in SUBSET Proc : Rewrite(R)

Spec == Init /\ [][Next]_vars
=============================================================================
