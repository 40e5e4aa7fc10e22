-------------------------- MODULE MCFreezeJournal --------------------------
(***************************************************************************)
(* Instances of FreezeJournal for TLC.                                     *)
(***************************************************************************)
EXTENDS FreezeJournal, TLC

\* Every process has a PID of its own (then Pid is Proc) ...
OwnPid == [p \in Proc |-> p]

\* ... or the third process inherits the PID of the first.
CONSTANTS p1, p2, p3
SharedPid == (p1 :> 1) @@ (p2 :> 2) @@ (p3 :> 1)

KeySymmetry == Permutations(Key)
=============================================================================
