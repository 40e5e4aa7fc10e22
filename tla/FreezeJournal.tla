--------------------------- MODULE FreezeJournal ---------------------------
(***************************************************************************)
(* The freeze journal (state/journal.rs) at work: the engine's handlers    *)
(* that suspend and resume processes, one signal at a time, the in-memory  *)
(* and the on-disk journal, crashes of the daemon at any point between two *)
(* steps, the replay at the next start, and the emergency `thaw-all'.      *)
(*                                                                         *)
(* A handle (pid, starttime) names one process for ever, so a handle is a  *)
(* member of Proc and PidOf gives its PID; two members with one PID are    *)
(* two processes of which the later inherited the PID of the earlier.      *)
(* Suspension is by SIGSTOP; the cgroup freezer is left to the engine's    *)
(* model.                                                                  *)
(***************************************************************************)
EXTENDS Naturals

CONSTANTS
    Proc,           \* process identities (handles)
    Pid,
    PidOf,          \* [Proc -> Pid]
    Key,            \* journal keys: application keys and "ipc:pid:N"
    None,
    Refusers,       \* processes that may refuse a signal (EPERM)
    PersistMayFail, \* whether writing or removing the file may fail
    MaxCrashes      \* bound on the number of crashes

ASSUME JournalAssumption ==
    /\ PidOf \in [Proc -> Pid]
    /\ None \notin Key
    /\ Refusers \subseteq Proc
    /\ PersistMayFail \in BOOLEAN
    /\ MaxCrashes \in Nat

VARIABLES
    (* the operating system *)
    life,       \* [Proc -> {"unborn", "alive", "exited"}]
    stopped,    \* processes stopped by a SIGSTOP of the program
    disk,       \* the journal file, [Key -> SUBSET Proc]
    (* the instance lock and the service manager *)
    holder,     \* who holds the instance lock, and in which phase
    restart,    \* the service manager owes the daemon a restart
    crashes,
    (* the daemon's memory *)
    mem,        \* the in-memory journal, [Key -> SUBSET Proc]
    snap,       \* journal snapshot of the sweep in flight
    sweeping,   \* a sweep is in flight (reconcile_in_flight)
    (* the handler being executed *)
    step, key, planned, todo, done, rest

osVars    == <<life, stopped>>
lockVars  == <<holder, restart, crashes>>
sweepVars == <<snap, sweeping>>
opVars    == <<step, key, planned, todo, done, rest>>
vars      == <<life, stopped, disk, holder, restart, crashes, mem, snap,
               sweeping, step, key, planned, todo, done, rest>>

Holders == {"free", "thawall", "recover", "up"}
Steps   == {"idle", "expanded", "stop", "cont", "release", "exit", "sweep",
            "replay"}

Journal  == [Key -> SUBSET Proc]
NoRecord == [k \in Key |-> {}]

Alive       == {p \in Proc : life[p] = "alive"}
Exited      == {p \in Proc : life[p] = "exited"}
Recorded(j) == UNION {j[k] : k \in Key}
Pids(S)     == {PidOf[p] : p \in S}

----------------------------------------------------------------------------
(* Operations of the journal *)

\* Write the whole journal to a temporary file and rename it: the file holds
\* the new contents, or the old ones if a step fails.
Persist(j) == disk' = j \/ (PersistMayFail /\ disk' = disk)

ArmEntry(j, k, S) == [j EXCEPT ![k] = @ \cup S]

\* Mutants: the record is replaced outright; the planned handles are dropped.
CommitEntryReplacing(j, k, S, applied) == [j EXCEPT ![k] = applied]
CommitEntryDropping(j, k, S, applied) == [j EXCEPT ![k] = @ \ S]

CommitEntry(j, k, S, applied) ==
    [j EXCEPT ![k] = {p \in @ : p \in applied \/ p \notin S}]

\* Mutant: a partial thaw or sweep drops the entry as a whole.
RetireEntryWhole(j, k, pids) == [j EXCEPT ![k] = {}]

RetireEntry(j, k, pids) == [j EXCEPT ![k] = {p \in @ : PidOf[p] \notin pids}]

\* An application without an entry needs no write.
Replace(k, j) ==
    IF mem[k] = {} THEN UNCHANGED <<mem, disk>>
    ELSE mem' = j /\ Persist(j)

\* The handler returns to the event loop.
Return ==
    /\ step' = "idle" /\ key' = None
    /\ planned' = {} /\ todo' = {} /\ done' = {} /\ rest' = {}

----------------------------------------------------------------------------
(* The environment: processes start and exit; a PID is free to be reused   *)
(* as soon as its process has exited.                                      *)

Spawn(p) ==
    /\ life[p] = "unborn"
    /\ \A q \in Alive : PidOf[q] # PidOf[p]
    /\ life' = [life EXCEPT ![p] = "alive"]
    /\ UNCHANGED <<stopped, disk, mem, lockVars, sweepVars, opVars>>

Exit(p) ==
    /\ life[p] = "alive"
    /\ life' = [life EXCEPT ![p] = "exited"]
    /\ stopped' = stopped \ {p}
    /\ UNCHANGED <<disk, mem, lockVars, sweepVars, opVars>>

----------------------------------------------------------------------------
(* Suspending: expand -> arm -> SIGSTOP each -> commit *)

\* The process tree has been expanded and filtered; the handler is about to
\* consult the guards.
Expand(k, S) ==
    /\ holder = "up" /\ step = "idle"
    /\ S # {} /\ S \subseteq Alive
    /\ step' = "expanded" /\ key' = k /\ planned' = S
    /\ UNCHANGED <<osVars, disk, mem, lockVars, sweepVars, todo, done, rest>>

\* A guard blocks.
Blocked ==
    /\ step = "expanded"
    /\ Return
    /\ UNCHANGED <<osVars, disk, mem, lockVars, sweepVars>>

\* Mutant: a failed write does not abort the freeze.
ArmRegardless ==
    /\ step = "expanded"
    /\ mem' = ArmEntry(mem, key, planned)
    /\ Persist(mem')
    /\ step' = "stop" /\ todo' = planned
    /\ UNCHANGED <<osVars, lockVars, sweepVars, key, planned, done, rest>>

\* Record the intent.  When the write fails nothing is signalled, but the
\* entry stays in memory.
Arm ==
    /\ step = "expanded"
    /\ mem' = ArmEntry(mem, key, planned)
    /\ \/ /\ disk' = mem'
          /\ step' = "stop" /\ todo' = planned
          /\ UNCHANGED <<key, planned, done, rest>>
       \/ /\ PersistMayFail /\ UNCHANGED disk
          /\ Return
    /\ UNCHANGED <<osVars, lockVars, sweepVars>>

\* Check the handle, then signal.  A process that has exited is `gone', one
\* that refuses is `failed'; only the others are `applied' (here: done).
StopOne(p) ==
    /\ step = "stop" /\ p \in todo
    /\ todo' = todo \ {p}
    /\ \/ /\ p \in Alive
          /\ stopped' = stopped \cup {p} /\ done' = done \cup {p}
       \/ /\ p \notin Alive \/ p \in Refusers
          /\ UNCHANGED <<stopped, done>>
    /\ UNCHANGED <<life, disk, mem, lockVars, sweepVars, step, key, planned,
                   rest>>

Commit ==
    /\ step = "stop" /\ todo = {}
    /\ Replace(key, CommitEntry(mem, key, planned, done))
    /\ Return
    /\ UNCHANGED <<osVars, lockVars, sweepVars>>

----------------------------------------------------------------------------
(* Resuming: SIGCONT each -> retire *)

\* Thaw the application or manual target recorded under k.
Thaw(k) ==
    /\ holder = "up" /\ step = "idle" /\ mem[k] # {}
    /\ step' = "cont" /\ key' = k /\ todo' = mem[k]
    /\ UNCHANGED <<osVars, disk, mem, lockVars, sweepVars, planned, done, rest>>

\* SIGCONT one process.  Continued and exited processes are settled (done).
ContOne(p) ==
    /\ step \in {"cont", "release", "exit", "replay"} /\ p \in todo
    /\ todo' = todo \ {p}
    /\ \/ /\ p \in Alive
          /\ stopped' = stopped \ {p} /\ done' = done \cup {p}
       \/ /\ p \notin Alive
          /\ done' = done \cup {p} /\ UNCHANGED stopped
       \/ /\ p \in Alive \cap Refusers
          /\ UNCHANGED <<stopped, done>>
    /\ UNCHANGED <<life, disk, mem, lockVars, sweepVars, step, key, planned,
                   rest>>

Retire ==
    /\ step = "cont" /\ todo = {}
    /\ Replace(key, RetireEntry(mem, key, Pids(done)))
    /\ Return
    /\ UNCHANGED <<osVars, lockVars, sweepVars>>

\* Mutant: a shutdown trusts the registry and leaves the journal alone.
ReleaseAllOnRequest(s) ==
    /\ holder = "up" /\ step = "idle" /\ s \in {"release", "exit"}
    /\ step' = s /\ rest' = {k \in Key : mem[k] # {} /\ s = "release"}
    /\ UNCHANGED <<osVars, disk, mem, lockVars, sweepVars, key, planned, todo,
                   done>>

\* Release everything recorded: `thaw-all' sent to a running daemon ("release")
\* and the last step of a graceful shutdown ("exit").
ReleaseAll(s) ==
    /\ holder = "up" /\ step = "idle" /\ s \in {"release", "exit"}
    /\ step' = s /\ rest' = {k \in Key : mem[k] # {}}
    /\ UNCHANGED <<osVars, disk, mem, lockVars, sweepVars, key, planned, todo,
                   done>>

ReleaseNext(k) ==
    /\ step \in {"release", "exit"} /\ key = None /\ k \in rest
    /\ key' = k /\ rest' = rest \ {k} /\ todo' = mem[k] /\ done' = {}
    /\ UNCHANGED <<osVars, disk, mem, lockVars, sweepVars, step, planned>>

ReleaseRetire ==
    /\ step \in {"release", "exit"} /\ key # None /\ todo = {}
    /\ Replace(key, RetireEntry(mem, key, Pids(done)))
    /\ key' = None /\ done' = {}
    /\ UNCHANGED <<osVars, lockVars, sweepVars, step, planned, todo, rest>>

\* Delete the file once nothing is recorded; it stays when removal fails or
\* when some process could not be resumed.
Clear == IF mem = NoRecord THEN Persist(NoRecord) ELSE UNCHANGED disk

ReleaseEnd ==
    /\ step = "release" /\ key = None /\ rest = {}
    /\ Clear /\ Return
    /\ UNCHANGED <<osVars, mem, lockVars, sweepVars>>

\* The daemon forgets everything it held in memory.
Gone == Return /\ mem' = NoRecord /\ snap' = NoRecord /\ sweeping' = FALSE

ShutdownEnd ==
    /\ step = "exit" /\ key = None /\ rest = {}
    /\ Clear /\ Gone
    /\ holder' = "free"
    /\ UNCHANGED <<osVars, restart, crashes>>

----------------------------------------------------------------------------
(* The reconcile sweep: the journal is copied at the tick, liveness is read *)
(* on another thread while the loop goes on, and the PIDs found dead are    *)
(* retired when the result arrives.                                         *)

SweepStart ==
    /\ holder = "up" /\ step = "idle" /\ ~sweeping /\ mem # NoRecord
    /\ sweeping' = TRUE /\ snap' = mem
    /\ UNCHANGED <<osVars, disk, mem, lockVars, opVars>>

\* Mutant: the flag of the sweep in flight is not reset by an empty result.
SweepResultStuck(dead) ==
    /\ holder = "up" /\ step = "idle" /\ sweeping
    /\ dead \subseteq Exited \cap Recorded(snap) /\ dead # {}
    /\ step' = "sweep" /\ done' = dead
    /\ rest' = {k \in Key : snap[k] \cap dead # {}}
    /\ sweeping' = FALSE
    /\ UNCHANGED <<osVars, disk, mem, lockVars, snap, key, planned, todo>>

\* Each handle is read at some moment between the tick and the result, so any
\* of those that have exited by now may be reported; none if the task panics.
SweepResult(dead) ==
    /\ holder = "up" /\ step = "idle" /\ sweeping
    /\ dead \subseteq Exited \cap Recorded(snap)
    /\ sweeping' = FALSE
    /\ IF dead = {}
       THEN snap' = NoRecord /\ UNCHANGED <<step, done, rest>>
       ELSE /\ step' = "sweep" /\ done' = dead
            /\ rest' = {k \in Key : snap[k] \cap dead # {}}
            /\ UNCHANGED snap
    /\ UNCHANGED <<osVars, disk, mem, lockVars, key, planned, todo>>

SweepRetire(k) ==
    /\ step = "sweep" /\ k \in rest
    /\ Replace(k, RetireEntry(mem, k, Pids(snap[k] \cap done)))
    /\ rest' = rest \ {k}
    /\ UNCHANGED <<osVars, lockVars, sweepVars, step, key, planned, todo, done>>

SweepEnd ==
    /\ step = "sweep" /\ rest = {}
    /\ Return /\ snap' = NoRecord
    /\ UNCHANGED <<osVars, disk, mem, lockVars, sweeping>>

----------------------------------------------------------------------------
(* Crash, restart and replay *)

\* Whoever holds the lock is killed.  The kernel drops the lock; a daemon is
\* started again by the service manager (Restart=on-failure).
Crash ==
    /\ holder # "free" /\ crashes < MaxCrashes
    /\ crashes' = crashes + 1
    /\ holder' = "free"
    /\ restart' = (restart \/ holder \in {"recover", "up"})
    /\ Gone
    /\ UNCHANGED <<osVars, disk>>

Replay ==
    /\ step' = "replay" /\ todo' = Recorded(disk)
    /\ UNCHANGED <<osVars, disk, mem, crashes, sweepVars, key, planned, done,
                   rest>>

\* The daemon takes the lock and replays the journal before anything else.
Start ==
    /\ holder = "free"
    /\ holder' = "recover" /\ restart' = FALSE
    /\ Replay

\* `app-powerd thaw-all' finds the lock free and replays the journal itself.
ThawAllOffline ==
    /\ holder = "free"
    /\ holder' = "thawall" /\ UNCHANGED restart
    /\ Replay

\* Mutant: the file is removed before the last process has been resumed.
ReplayEndEarly ==
    /\ step = "replay"
    /\ Persist(NoRecord)
    /\ holder' = IF holder = "recover" THEN "up" ELSE "free"
    /\ mem' = IF holder = "recover" THEN disk' ELSE mem
    /\ Return
    /\ UNCHANGED <<osVars, restart, crashes, sweepVars>>

\* The file is removed (removal may fail); a daemon then loads what is there.
ReplayEnd ==
    /\ step = "replay" /\ todo = {}
    /\ Persist(NoRecord)
    /\ holder' = IF holder = "recover" THEN "up" ELSE "free"
    /\ mem' = IF holder = "recover" THEN disk' ELSE mem
    /\ Return
    /\ UNCHANGED <<osVars, restart, crashes, sweepVars>>

----------------------------------------------------------------------------
Init ==
    /\ life = [p \in Proc |-> "unborn"] /\ stopped = {}
    /\ disk = NoRecord
    /\ holder = "free" /\ restart = FALSE /\ crashes = 0
    /\ mem = NoRecord /\ snap = NoRecord /\ sweeping = FALSE
    /\ step = "idle" /\ key = None
    /\ planned = {} /\ todo = {} /\ done = {} /\ rest = {}

Environment == \E p \in Proc : Spawn(p) \/ Exit(p)

Request ==
    \/ \E k \in Key : Thaw(k) \/ \E S \in SUBSET Proc : Expand(k, S)
    \/ \E s \in {"release", "exit"} : ReleaseAll(s)
    \/ SweepStart

\* The steps a handler takes of its own accord once it has been started.
Progress ==
    \/ \E p \in Proc : StopOne(p) \/ ContOne(p)
    \/ \E k \in Key : ReleaseNext(k) \/ SweepRetire(k)
    \/ Blocked \/ Arm \/ Commit \/ Retire
    \/ ReleaseRetire \/ ReleaseEnd \/ ShutdownEnd \/ SweepEnd \/ ReplayEnd

Reconcile == \E dead \in SUBSET Proc : SweepResult(dead)

Next ==
    \/ Environment \/ Request \/ Progress \/ Reconcile
    \/ Crash \/ Start \/ ThawAllOffline

Spec == Init /\ [][Next]_vars

\* A running handler or replay goes on; systemd restarts a daemon that was
\* killed; ticks keep coming and the channel delivers the result of a sweep in
\* its turn, infinitely often one that reports all that had exited.
FairSpec ==
    /\ Spec
    /\ WF_vars(Progress)
    /\ WF_vars(restart /\ Start)
    /\ SF_vars(SweepStart)
    /\ SF_vars(SweepResult(Exited \cap Recorded(snap)))

----------------------------------------------------------------------------
(* Properties *)

TypeOK ==
    /\ life \in [Proc -> {"unborn", "alive", "exited"}]
    /\ stopped \subseteq Alive
    /\ disk \in Journal /\ mem \in Journal /\ snap \in Journal
    /\ holder \in Holders /\ restart \in BOOLEAN /\ crashes \in 0..MaxCrashes
    /\ sweeping \in BOOLEAN
    /\ step \in Steps /\ key \in Key \cup {None}
    /\ planned \subseteq Proc /\ todo \subseteq Proc /\ done \subseteq Proc
    /\ rest \subseteq Key

\* The processes the journal can promise something about: those that take
\* signals and whose PID no other process ever has.
Trusted ==
    {p \in Proc \ Refusers : \A q \in Proc : PidOf[q] = PidOf[p] => q = p}

Ledger == INSTANCE SuspendLedger WITH
    Proc     <- Trusted,
    stopped  <- stopped \cap Trusted,
    recorded <- Recorded(disk) \cap Trusted

\* A process is stopped only while the file records it, and the file loses no
\* record of a stopped process: the journal implements the ledger, whatever
\* crashes, failed writes, sweeps and emergency replays happen in between.
ImplementsLedger == Ledger!Spec

\* At every moment, in particular at a crash, the file names every stopped
\* process: nothing is ever stopped with no way back.
StoppedIsRecorded == stopped \cap Trusted \subseteq Recorded(disk)

(***************************************************************************)
(* The inductive invariant.  The file is covered by what the daemon knows: *)
(* memory covers the stopped processes while it runs, and every phase of a *)
(* handler keeps what its last step relies on.                             *)
(***************************************************************************)
Held == stopped \cap Trusted

PhaseOK ==
    /\ step = "replay" <=> holder \in {"recover", "thawall"}
    /\ holder = "free" => step = "idle"
    /\ step \in {"expanded", "stop", "cont"} => key \in Key
    /\ step \in {"idle", "expanded"} => todo = {} /\ done = {}

StopPhaseOK ==
    step = "stop" =>
        /\ disk = mem /\ planned \subseteq mem[key] /\ todo \subseteq planned
        /\ Held \cap planned \subseteq todo \cup done

ContPhaseOK == step \in {"cont", "release", "exit"} => done \cap stopped = {}

ReleasePhaseOK ==
    step \in {"release", "exit"} =>
        /\ Held \subseteq todo \cup UNION {mem[k] : k \in rest}
        /\ key = None => todo = {}

ReplayPhaseOK == step = "replay" => Held \subseteq todo

SweepPhaseOK == step = "sweep" => done \subseteq Exited

MemoryCovers == holder = "up" => Held \subseteq Recorded(mem)

IInv ==
    /\ TypeOK /\ StoppedIsRecorded /\ MemoryCovers /\ PhaseOK
    /\ StopPhaseOK /\ ContPhaseOK /\ ReleasePhaseOK /\ ReplayPhaseOK
    /\ SweepPhaseOK

\* A graceful shutdown leaves no process stopped, although the file cannot be
\* trusted to be empty.
CleanExitReleases == [][ShutdownEnd => stopped' \cap Trusted = {}]_vars

\* Replay finishes with nothing left stopped, so deleting the file is safe; no
\* process is suspended behind the back of a replay.
ReplayReleases == [][ReplayEnd => stopped' \cap Trusted = {}]_vars

\* After a crash, what the daemon had stopped is eventually resumed.
CrashIsRepaired ==
    \A p \in Trusted : restart /\ p \in stopped ~> p \notin stopped

\* The record of a process that has exited does not stay for ever: sweeping
\* goes on for the lifetime of the daemon.
CorpsesAreRetired ==
    \A p \in Trusted :
        holder = "up" /\ p \in Exited \cap Recorded(mem)
            ~> p \notin Recorded(mem)

(***************************************************************************)
(* What the comments promise and the code does not keep.                   *)
(***************************************************************************)

\* "so any state in between is recoverable" (journal.rs, lines 8-12), for all
\* processes: also for one that inherited a PID.
AnyStateRecoverable == stopped \subseteq Recorded(disk)
=============================================================================
