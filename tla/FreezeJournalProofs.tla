------------------------ MODULE FreezeJournalProofs ------------------------
(***************************************************************************)
(* Proofs about FreezeJournal, for every set of processes, assignment of   *)
(* PIDs, set of keys and number of crashes.                                *)
(***************************************************************************)
EXTENDS FreezeJournal, TLAPS

----------------------------------------------------------------------------
(* What the operations of the journal keep *)

\* A trusted process is in a set of handles if its PID is among their PIDs:
\* retiring by PID (journal.rs, retire) then retires the right process.
LEMMA TrustedPid ==
    ASSUME NEW p \in Trusted, NEW D \in SUBSET Proc, PidOf[p] \in Pids(D)
    PROVE  p \in D
BY DEF Trusted, Pids

\* Retiring the handles D keeps, under every key, whatever is not in D.
LEMMA RetireKeeps ==
    ASSUME NEW j \in Journal, NEW k \in Key, NEW D \in SUBSET Proc,
           NEW S \in SUBSET Trusted, S \cap D = {}
    PROVE  /\ RetireEntry(j, k, Pids(D)) \in Journal
           /\ \A l \in Key : S \cap j[l] \subseteq RetireEntry(j, k, Pids(D))[l]
<1>1. RetireEntry(j, k, Pids(D)) \in Journal
  BY DEF RetireEntry, Journal
<1>2. ASSUME NEW l \in Key, NEW p \in S, p \in j[l]
      PROVE  p \in RetireEntry(j, k, Pids(D))[l]
  <2>1. PidOf[p] \notin Pids(D)
    BY <1>2, TrustedPid
  <2>2. QED
    BY <1>2, <2>1 DEF RetireEntry, Journal
<1>3. QED
  BY <1>1, <1>2

\* Narrowing a record to the processes reached keeps every process of S, if
\* those of S that were planned have been reached.
LEMMA CommitKeeps ==
    ASSUME NEW j \in Journal, NEW k \in Key, NEW P \in SUBSET Proc,
           NEW D \in SUBSET Proc, NEW S \in SUBSET Proc, S \cap P \subseteq D
    PROVE  /\ CommitEntry(j, k, P, D) \in Journal
           /\ \A l \in Key : S \cap j[l] \subseteq CommitEntry(j, k, P, D)[l]
BY DEF CommitEntry, Journal

\* Arming only adds to the record: the planned processes are in it.
LEMMA ArmKeeps ==
    ASSUME NEW j \in Journal, NEW k \in Key, NEW P \in SUBSET Proc
    PROVE  /\ ArmEntry(j, k, P) \in Journal
           /\ P \subseteq ArmEntry(j, k, P)[k]
           /\ \A l \in Key : j[l] \subseteq ArmEntry(j, k, P)[l]
BY DEF ArmEntry, Journal

\* Writing a journal that still covers S: memory and file cover S afterwards.
LEMMA ReplaceKeeps ==
    ASSUME NEW k \in Key, NEW j \in Journal, NEW S \in SUBSET Proc,
           mem \in Journal, disk \in Journal, Replace(k, j),
           \A l \in Key : S \cap mem[l] \subseteq j[l]
    PROVE  /\ mem' \in Journal /\ disk' \in Journal
           /\ \A l \in Key : S \cap mem[l] \subseteq mem'[l]
           /\ S \subseteq Recorded(mem) => S \subseteq Recorded(mem')
           /\ S \subseteq Recorded(mem) /\ S \subseteq Recorded(disk)
                => S \subseteq Recorded(disk')
<1>1. CASE UNCHANGED <<mem, disk>>
  BY <1>1
<1>2. CASE mem' = j /\ (disk' = j \/ disk' = disk)
  BY <1>2 DEF Recorded
<1>3. QED
  BY <1>1, <1>2 DEF Replace, Persist

----------------------------------------------------------------------------
(* The inductive invariant *)

\* The machine has booted, nothing is stopped, and there is no file.
LEMMA InitIInv == Init => IInv
<1> SUFFICES ASSUME Init PROVE IInv
  OBVIOUS
<1>1. TypeOK
  <2>1. crashes \in 0..MaxCrashes
    BY JournalAssumption DEF Init, JournalAssumption
  <2>2. restart \in BOOLEAN /\ sweeping \in BOOLEAN
    BY DEF Init
  <2>3. disk \in Journal /\ mem \in Journal /\ snap \in Journal
    BY DEF Init, Journal, NoRecord
  <2>4. /\ life \in [Proc -> {"unborn", "alive", "exited"}]
        /\ stopped \subseteq Alive
        /\ holder \in Holders /\ step \in Steps /\ key \in Key \cup {None}
        /\ planned \subseteq Proc /\ todo \subseteq Proc /\ done \subseteq Proc
        /\ rest \subseteq Key
    BY DEF Init, Holders, Steps
  <2>5. QED
    BY <2>1, <2>2, <2>3, <2>4 DEF TypeOK
<1>2. StoppedIsRecorded /\ MemoryCovers
  BY DEF Init, StoppedIsRecorded, MemoryCovers, Held
<1>3. PhaseOK
  BY DEF Init, PhaseOK
<1>4. StopPhaseOK /\ ContPhaseOK /\ ReleasePhaseOK /\ ReplayPhaseOK
      /\ SweepPhaseOK
  BY DEF Init, StopPhaseOK, ContPhaseOK, ReleasePhaseOK, ReplayPhaseOK,
     SweepPhaseOK
<1>5. QED
  BY <1>1, <1>2, <1>3, <1>4 DEF IInv

\* The operating system's steps: a process that starts is not stopped.
LEMMA SpawnIInv ==
    ASSUME IInv, NEW q \in Proc, Spawn(q) PROVE IInv'
<1>. USE DEF IInv, Spawn, lockVars, sweepVars, opVars
<1>1. life' \in [Proc -> {"unborn", "alive", "exited"}]
      /\ Alive \subseteq Alive' /\ Exited \subseteq Exited'
  BY DEF TypeOK, Alive, Exited
<1>2. TypeOK'
  BY <1>1 DEF TypeOK
<1>3. StoppedIsRecorded' /\ MemoryCovers'
  BY DEF StoppedIsRecorded, MemoryCovers, Held, Recorded
<1>4. PhaseOK' /\ StopPhaseOK' /\ ContPhaseOK' /\ ReleasePhaseOK' /\ ReplayPhaseOK'
  BY DEF PhaseOK, StopPhaseOK, ContPhaseOK, ReleasePhaseOK, ReplayPhaseOK,
     Held
<1>5. SweepPhaseOK'
  BY <1>1 DEF SweepPhaseOK
<1>6. QED
  BY <1>2, <1>3, <1>4, <1>5

\* A process that exits is stopped no more.
LEMMA ExitIInv ==
    ASSUME IInv, NEW q \in Proc, Exit(q) PROVE IInv'
<1>. USE DEF IInv, Exit, lockVars, sweepVars, opVars
<1>1. life' \in [Proc -> {"unborn", "alive", "exited"}]
      /\ stopped' \subseteq Alive' /\ Exited \subseteq Exited'
  BY DEF TypeOK, Alive, Exited
<1>2. TypeOK'
  BY <1>1 DEF TypeOK
<1>3. StoppedIsRecorded' /\ MemoryCovers'
  BY DEF StoppedIsRecorded, MemoryCovers, Held, Recorded
<1>4. PhaseOK' /\ StopPhaseOK' /\ ContPhaseOK' /\ ReleasePhaseOK' /\ ReplayPhaseOK'
  BY DEF PhaseOK, StopPhaseOK, ContPhaseOK, ReleasePhaseOK, ReplayPhaseOK,
     Held
<1>5. SweepPhaseOK'
  BY <1>1 DEF SweepPhaseOK
<1>6. QED
  BY <1>2, <1>3, <1>4, <1>5

\* Suspending begins: the planned processes are chosen.
LEMMA ExpandIInv ==
    ASSUME IInv, NEW k \in Key, NEW S \in SUBSET Proc, Expand(k, S)
    PROVE  IInv'
<1>. USE DEF IInv, Expand, osVars, lockVars, sweepVars
<1>1. TypeOK'
  BY DEF TypeOK, Alive, Steps
<1>2. StoppedIsRecorded' /\ MemoryCovers'
  BY DEF StoppedIsRecorded, MemoryCovers, Held, Recorded
<1>3. PhaseOK' /\ StopPhaseOK' /\ ContPhaseOK' /\ ReleasePhaseOK' /\ ReplayPhaseOK'
      /\ SweepPhaseOK'
  BY DEF PhaseOK, StopPhaseOK, ContPhaseOK, ReleasePhaseOK, ReplayPhaseOK,
     SweepPhaseOK
<1>4. QED
  BY <1>1, <1>2, <1>3

\* Every step that returns to the loop only has to keep the journal.
LEMMA ReturnIInv ==
    ASSUME IInv, Return, UNCHANGED <<osVars, lockVars>>,
           snap' \in Journal, sweeping' \in BOOLEAN,
           mem' \in Journal, disk' \in Journal,
           holder \in {"free", "up"},
           Held \subseteq Recorded(disk'),
           holder = "up" => Held \subseteq Recorded(mem')
    PROVE  IInv'
<1>. USE DEF IInv, Return, osVars, lockVars
<1>1. TypeOK'
  BY DEF TypeOK, Alive, Steps
<1>2. StoppedIsRecorded' /\ MemoryCovers'
  BY DEF StoppedIsRecorded, MemoryCovers, Held, Recorded
<1>3. PhaseOK' /\ StopPhaseOK' /\ ContPhaseOK' /\ ReleasePhaseOK' /\ ReplayPhaseOK'
      /\ SweepPhaseOK'
  BY DEF PhaseOK, StopPhaseOK, ContPhaseOK, ReleasePhaseOK, ReplayPhaseOK,
     SweepPhaseOK
<1>4. QED
  BY <1>1, <1>2, <1>3

\* A guard blocks before anything was recorded or signalled.
LEMMA BlockedIInv == ASSUME IInv, Blocked PROVE IInv'
BY ReturnIInv
DEF Blocked, IInv, TypeOK, PhaseOK, StoppedIsRecorded, MemoryCovers, Held, sweepVars, lockVars,
    Recorded, Holders

\* Recording the intent: with a failed write nothing is signalled, with a
\* successful one file and memory agree when the signals start.
LEMMA ArmIInv == ASSUME IInv, Arm PROVE IInv'
<1>. USE DEF IInv
<1>1. key \in Key /\ holder = "up" /\ planned \in SUBSET Proc
      /\ mem \in Journal /\ disk \in Journal /\ done = {}
  BY DEF Arm, PhaseOK, TypeOK, Holders
<1>2. /\ mem' \in Journal /\ planned \subseteq mem'[key]
      /\ \A l \in Key : mem[l] \subseteq mem'[l]
  BY <1>1, ArmKeeps DEF Arm
<1>3. Held \subseteq Recorded(mem')
  BY <1>1, <1>2 DEF MemoryCovers, Recorded
<1>4. CASE step' = "idle" /\ Return /\ UNCHANGED disk
  BY <1>1, <1>2, <1>3, <1>4, ReturnIInv
  DEF Arm, TypeOK, StoppedIsRecorded, Held, sweepVars
<1>5. CASE /\ disk' = mem' /\ step' = "stop" /\ todo' = planned
           /\ UNCHANGED <<key, planned, done, rest>>
  <2>. USE <1>1, <1>5 DEF Arm, osVars, lockVars, sweepVars
  <2>1. TypeOK'
    BY <1>2 DEF TypeOK, Alive, Steps
  <2>2. StoppedIsRecorded' /\ MemoryCovers'
    BY <1>3 DEF StoppedIsRecorded, MemoryCovers, Held
  <2>3. PhaseOK' /\ StopPhaseOK'
    BY <1>2 DEF PhaseOK, StopPhaseOK, Held
  <2>4. ContPhaseOK' /\ ReleasePhaseOK' /\ ReplayPhaseOK' /\ SweepPhaseOK'
    BY DEF ContPhaseOK, ReleasePhaseOK, ReplayPhaseOK, SweepPhaseOK
  <2>5. QED
    BY <2>1, <2>2, <2>3, <2>4
<1>6. QED
  BY <1>4, <1>5 DEF Arm, Return

\* A process is stopped: it was planned, so the file records it.
LEMMA StopOneIInv ==
    ASSUME IInv, NEW q \in Proc, StopOne(q) PROVE IInv'
<1>. USE DEF IInv, StopOne, lockVars, sweepVars
<1>1. stopped' \subseteq stopped \cup {q} /\ done' \subseteq done \cup {q}
      /\ todo' = todo \ {q} /\ q \in planned /\ q \in mem[key]
      /\ key \in Key /\ disk = mem
  BY DEF StopPhaseOK, PhaseOK
<1>2. TypeOK'
  BY <1>1 DEF TypeOK, Alive
<1>3. Held' \cap planned \subseteq todo' \cup done'
  <2>1. q \in Held' => q \in done'
    BY DEF Held, Trusted, TypeOK
  <2>2. done \subseteq done'
    OBVIOUS
  <2>3. QED
    BY <1>1, <2>1, <2>2 DEF StopPhaseOK, Held
<1>4. StoppedIsRecorded' /\ MemoryCovers'
  BY <1>1 DEF StoppedIsRecorded, MemoryCovers, Held, Recorded
<1>5. StopPhaseOK'
  BY <1>1, <1>3 DEF StopPhaseOK
<1>6. PhaseOK' /\ ContPhaseOK' /\ ReleasePhaseOK' /\ ReplayPhaseOK' /\ SweepPhaseOK'
  BY DEF PhaseOK, ContPhaseOK, ReleasePhaseOK, ReplayPhaseOK, SweepPhaseOK
<1>7. QED
  BY <1>2, <1>4, <1>5, <1>6

\* The record is narrowed: the planned processes not reached run.
LEMMA CommitIInv == ASSUME IInv, Commit PROVE IInv'
<1>. USE DEF IInv
<1>1. /\ key \in Key /\ holder = "up" /\ mem \in Journal /\ disk \in Journal
      /\ planned \in SUBSET Proc /\ done \in SUBSET Proc
      /\ Held \in SUBSET Proc /\ Held \cap planned \subseteq done
  BY DEF Commit, PhaseOK, StopPhaseOK, TypeOK, Holders, Held, Alive
<1>2. /\ CommitEntry(mem, key, planned, done) \in Journal
      /\ \A l \in Key :
            Held \cap mem[l] \subseteq CommitEntry(mem, key, planned, done)[l]
  BY <1>1, CommitKeeps
<1>3. /\ mem' \in Journal /\ disk' \in Journal
      /\ Held \subseteq Recorded(mem') /\ Held \subseteq Recorded(disk')
  BY <1>1, <1>2, ReplaceKeeps
  DEF Commit, MemoryCovers, StoppedIsRecorded, Held
<1>4. QED
  BY <1>1, <1>3, ReturnIInv DEF Commit, TypeOK, sweepVars

\* Resuming begins with the recorded processes.
LEMMA ThawIInv == ASSUME IInv, NEW k \in Key, Thaw(k) PROVE IInv'
<1>. USE DEF IInv, Thaw, osVars, lockVars, sweepVars
<1>1. TypeOK'
  BY DEF TypeOK, Alive, Steps, Journal
<1>2. StoppedIsRecorded' /\ MemoryCovers'
  BY DEF StoppedIsRecorded, MemoryCovers, Held, Recorded
<1>3. PhaseOK' /\ StopPhaseOK' /\ ContPhaseOK' /\ ReleasePhaseOK' /\ ReplayPhaseOK'
      /\ SweepPhaseOK'
  BY DEF PhaseOK, StopPhaseOK, ContPhaseOK, ReleasePhaseOK, ReplayPhaseOK,
     SweepPhaseOK
<1>4. QED
  BY <1>1, <1>2, <1>3

\* A process is continued, or was dead: then it is not stopped.
LEMMA ContOneIInv ==
    ASSUME IInv, NEW q \in Proc, ContOne(q) PROVE IInv'
<1>. USE DEF IInv, ContOne, lockVars, sweepVars
<1>1. /\ stopped' \subseteq stopped /\ done' \subseteq done \cup {q}
      /\ q \in done' => q \notin stopped' \/ q \in done
      /\ Held' \subseteq Held \ (Trusted \cap {q})
  BY DEF Held, Trusted, TypeOK
<1>2. TypeOK'
  BY <1>1 DEF TypeOK, Alive
<1>3. StoppedIsRecorded' /\ MemoryCovers'
  BY <1>1 DEF StoppedIsRecorded, MemoryCovers, Held, Recorded
<1>4. PhaseOK' /\ StopPhaseOK' /\ SweepPhaseOK'
  BY DEF PhaseOK, StopPhaseOK, SweepPhaseOK
<1>5. ContPhaseOK'
  BY <1>1 DEF ContPhaseOK
<1>6. Held' \subseteq Trusted /\ q \notin Held'
  BY <1>1 DEF Held
<1>7. ReleasePhaseOK' /\ ReplayPhaseOK'
  BY <1>1, <1>6 DEF ReleasePhaseOK, ReplayPhaseOK
<1>8. QED
  BY <1>2, <1>3, <1>4, <1>5, <1>7

\* Retiring what has been settled, for the three handlers that do it.
LEMMA RetireStep ==
    ASSUME IInv, NEW k \in Key, NEW D \in SUBSET Proc, Held \cap D = {},
           holder = "up", Replace(k, RetireEntry(mem, k, Pids(D)))
    PROVE  /\ mem' \in Journal /\ disk' \in Journal
           /\ Held \subseteq Recorded(mem') /\ Held \subseteq Recorded(disk')
           /\ \A l \in Key : Held \cap mem[l] \subseteq mem'[l]
<1>. USE DEF IInv
<1>1. /\ mem \in Journal /\ disk \in Journal
      /\ Held \in SUBSET Trusted /\ Held \in SUBSET Proc
  BY DEF TypeOK, Held, Trusted
<1>2. /\ RetireEntry(mem, k, Pids(D)) \in Journal
      /\ \A l \in Key :
            Held \cap mem[l] \subseteq RetireEntry(mem, k, Pids(D))[l]
  BY <1>1, RetireKeeps
<1>3. Held \subseteq Recorded(mem) /\ Held \subseteq Recorded(disk)
  BY DEF MemoryCovers, StoppedIsRecorded, Held
<1>4. DEFINE j == RetireEntry(mem, k, Pids(D))
<1>5. j \in Journal /\ Replace(k, j)
      /\ \A l \in Key : Held \cap mem[l] \subseteq j[l]
  BY <1>2
<1>6. HIDE DEF j
<1>7. QED
  BY <1>1, <1>3, <1>5, ReplaceKeeps

\* The end of a thaw.
LEMMA RetireIInv == ASSUME IInv, Retire PROVE IInv'
<1>. USE DEF IInv
<1>1. key \in Key /\ done \in SUBSET Proc /\ holder = "up"
  BY DEF Retire, PhaseOK, TypeOK, Holders
<1>2. Held \cap done = {}
  BY DEF Retire, ContPhaseOK, Held
<1>3. /\ mem' \in Journal /\ disk' \in Journal
      /\ Held \subseteq Recorded(mem') /\ Held \subseteq Recorded(disk')
  BY <1>1, <1>2, RetireStep DEF Retire
<1>4. QED
  BY <1>1, <1>3, ReturnIInv DEF Retire, TypeOK, sweepVars

\* `thaw-all' or a shutdown begins: everything stopped is recorded under
\* some key that remains to be released.
LEMMA ReleaseAllIInv ==
    ASSUME IInv, NEW s \in {"release", "exit"}, ReleaseAll(s) PROVE IInv'
<1>. USE DEF IInv, ReleaseAll, osVars, lockVars, sweepVars
<1>1. TypeOK'
  BY DEF TypeOK, Alive, Steps
<1>2. StoppedIsRecorded' /\ MemoryCovers'
  BY DEF StoppedIsRecorded, MemoryCovers, Held, Recorded
<1>3. PhaseOK' /\ StopPhaseOK' /\ ContPhaseOK' /\ ReplayPhaseOK' /\ SweepPhaseOK'
  BY DEF PhaseOK, StopPhaseOK, ContPhaseOK, ReplayPhaseOK, SweepPhaseOK
<1>4. Held \subseteq UNION {mem[k] : k \in rest'}
  BY DEF MemoryCovers, Recorded
<1>5. ReleasePhaseOK'
  BY <1>4 DEF ReleasePhaseOK, PhaseOK, Held
<1>6. QED
  BY <1>1, <1>2, <1>3, <1>5

\* The next key is taken: its processes are to be continued.
LEMMA ReleaseNextIInv ==
    ASSUME IInv, NEW k \in Key, ReleaseNext(k) PROVE IInv'
<1>. USE DEF IInv, ReleaseNext, osVars, lockVars, sweepVars
<1>1. TypeOK'
  BY DEF TypeOK, Alive, Journal
<1>2. StoppedIsRecorded' /\ MemoryCovers'
  BY DEF StoppedIsRecorded, MemoryCovers, Held, Recorded
<1>3. PhaseOK' /\ StopPhaseOK' /\ ContPhaseOK' /\ ReplayPhaseOK' /\ SweepPhaseOK'
  BY DEF PhaseOK, StopPhaseOK, ContPhaseOK, ReplayPhaseOK, SweepPhaseOK
<1>4. ReleasePhaseOK'
  <2>1. UNION {mem[l] : l \in rest}
            \subseteq mem[k] \cup UNION {mem[l] : l \in rest \ {k}}
    OBVIOUS
  <2>2. key' # None
    BY JournalAssumption DEF JournalAssumption
  <2>3. QED
    BY <2>1, <2>2 DEF ReleasePhaseOK, Held
<1>5. QED
  BY <1>1, <1>2, <1>3, <1>4

\* One key has been released and is retired.
LEMMA ReleaseRetireIInv == ASSUME IInv, ReleaseRetire PROVE IInv'
<1>. USE DEF IInv
<1>1. key \in Key /\ done \in SUBSET Proc /\ holder = "up"
  BY DEF ReleaseRetire, PhaseOK, TypeOK, Holders
<1>2. Held \cap done = {}
  BY DEF ReleaseRetire, ContPhaseOK, Held
<1>3. /\ mem' \in Journal /\ disk' \in Journal
      /\ Held \subseteq Recorded(mem') /\ Held \subseteq Recorded(disk')
      /\ \A l \in Key : Held \cap mem[l] \subseteq mem'[l]
  BY <1>1, <1>2, RetireStep DEF ReleaseRetire
<1>. USE DEF ReleaseRetire, osVars, lockVars, sweepVars
<1>4. TypeOK'
  BY <1>3 DEF TypeOK, Alive
<1>5. StoppedIsRecorded' /\ MemoryCovers'
  BY <1>3 DEF StoppedIsRecorded, MemoryCovers, Held
<1>6. PhaseOK' /\ StopPhaseOK' /\ ContPhaseOK' /\ ReplayPhaseOK' /\ SweepPhaseOK'
  BY DEF PhaseOK, StopPhaseOK, ContPhaseOK, ReplayPhaseOK, SweepPhaseOK
<1>7. ReleasePhaseOK'
  <2>1. Held \subseteq UNION {mem[l] : l \in rest} /\ rest \subseteq Key
    BY DEF ReleasePhaseOK, TypeOK
  <2>2. Held \subseteq UNION {mem'[l] : l \in rest}
    BY <1>3, <2>1
  <2>3. QED
    BY <2>2 DEF ReleasePhaseOK, Held
<1>8. QED
  BY <1>4, <1>5, <1>6, <1>7

\* The file is removed only when memory, and with it Held, is empty.
LEMMA ClearStep ==
    ASSUME IInv, holder = "up", Clear
    PROVE  disk' \in Journal /\ Held \subseteq Recorded(disk')
<1>. USE DEF IInv
<1>1. NoRecord \in Journal /\ Recorded(NoRecord) = {} /\ disk \in Journal
  BY DEF NoRecord, Journal, Recorded, TypeOK
<1>2. Held \subseteq Recorded(disk)
  BY DEF StoppedIsRecorded, Held
<1>3. CASE mem = NoRecord
  <2>1. Held = {}
    BY <1>1, <1>3 DEF MemoryCovers
  <2>2. disk' \in Journal
    BY <1>1, <1>3 DEF Clear, Persist
  <2>3. QED
    BY <2>1, <2>2
<1>4. CASE mem # NoRecord
  BY <1>1, <1>2, <1>4 DEF Clear
<1>5. QED
  BY <1>3, <1>4

\* `thaw-all' ends; the file is cleared only when memory is empty.
LEMMA ReleaseEndIInv == ASSUME IInv, ReleaseEnd PROVE IInv'
<1>. USE DEF IInv
<1>1. holder = "up" /\ mem \in Journal /\ mem' = mem
      /\ Held \subseteq Recorded(mem)
  BY DEF ReleaseEnd, PhaseOK, TypeOK, Holders, MemoryCovers
<1>2. disk' \in Journal /\ Held \subseteq Recorded(disk')
  BY <1>1, ClearStep DEF ReleaseEnd
<1>3. QED
  BY <1>1, <1>2, ReturnIInv DEF ReleaseEnd, TypeOK, sweepVars

\* Steps that free the lock only have to keep the file.
LEMMA GoneIInv ==
    ASSUME IInv, Gone, UNCHANGED osVars, holder' = "free",
           restart' \in BOOLEAN, crashes' \in 0..MaxCrashes,
           disk' \in Journal, Held \subseteq Recorded(disk')
    PROVE  IInv'
<1>. USE DEF IInv, Gone, Return, osVars
<1>1. NoRecord \in Journal
  BY DEF NoRecord, Journal
<1>2. TypeOK'
  BY <1>1 DEF TypeOK, Alive, Steps, Holders
<1>3. StoppedIsRecorded' /\ MemoryCovers'
  BY DEF StoppedIsRecorded, MemoryCovers, Held, Recorded
<1>4. PhaseOK' /\ StopPhaseOK' /\ ContPhaseOK' /\ ReleasePhaseOK' /\ ReplayPhaseOK'
      /\ SweepPhaseOK'
  BY DEF PhaseOK, StopPhaseOK, ContPhaseOK, ReleasePhaseOK, ReplayPhaseOK,
     SweepPhaseOK
<1>5. QED
  BY <1>2, <1>3, <1>4

\* A shutdown ends with nothing stopped.
LEMMA ShutdownEndIInv == ASSUME IInv, ShutdownEnd PROVE IInv'
<1>1. holder = "up"
  BY DEF ShutdownEnd, IInv, PhaseOK, TypeOK, Holders
<1>2. disk' \in Journal /\ Held \subseteq Recorded(disk')
  BY <1>1, ClearStep DEF ShutdownEnd
<1>3. QED
  BY <1>2, GoneIInv DEF ShutdownEnd, IInv, TypeOK

\* A crash loses memory, and memory only.
LEMMA CrashIInv == ASSUME IInv, Crash PROVE IInv'
<1>1. crashes' \in 0..MaxCrashes
  BY JournalAssumption DEF JournalAssumption, Crash, IInv, TypeOK
<1>2. restart' \in BOOLEAN
  BY DEF Crash, IInv, TypeOK
<1>3. disk' \in Journal /\ Held \subseteq Recorded(disk')
  BY DEF Crash, IInv, TypeOK, StoppedIsRecorded, Held
<1>4. QED
  BY <1>1, <1>2, <1>3, GoneIInv DEF Crash

\* The sweep copies the journal.
LEMMA SweepStartIInv == ASSUME IInv, SweepStart PROVE IInv'
<1>. USE DEF IInv, SweepStart, osVars, lockVars, opVars
<1>1. TypeOK'
  BY DEF TypeOK, Alive
<1>2. StoppedIsRecorded' /\ MemoryCovers'
  BY DEF StoppedIsRecorded, MemoryCovers, Held, Recorded
<1>3. PhaseOK' /\ StopPhaseOK' /\ ContPhaseOK' /\ ReleasePhaseOK' /\ ReplayPhaseOK'
      /\ SweepPhaseOK'
  BY DEF PhaseOK, StopPhaseOK, ContPhaseOK, ReleasePhaseOK, ReplayPhaseOK,
     SweepPhaseOK
<1>4. QED
  BY <1>1, <1>2, <1>3

\* The sweep reports processes that have exited.
LEMMA SweepResultIInv ==
    ASSUME IInv, NEW dead \in SUBSET Proc, SweepResult(dead) PROVE IInv'
<1>. USE DEF IInv, SweepResult, osVars, lockVars
<1>1. NoRecord \in Journal
  BY DEF NoRecord, Journal
<1>2. TypeOK'
  BY <1>1 DEF TypeOK, Alive, Steps
<1>3. StoppedIsRecorded' /\ MemoryCovers'
  BY DEF StoppedIsRecorded, MemoryCovers, Held, Recorded
<1>4. PhaseOK' /\ StopPhaseOK' /\ ContPhaseOK' /\ ReleasePhaseOK' /\ ReplayPhaseOK'
  BY DEF PhaseOK, StopPhaseOK, ContPhaseOK, ReleasePhaseOK, ReplayPhaseOK
<1>5. SweepPhaseOK'
  BY DEF SweepPhaseOK, Exited
<1>6. QED
  BY <1>2, <1>3, <1>4, <1>5

\* Retiring the dead loses no stopped process.
LEMMA SweepRetireIInv ==
    ASSUME IInv, NEW k \in Key, SweepRetire(k) PROVE IInv'
<1>. USE DEF IInv
<1>1. holder = "up" /\ snap[k] \cap done \in SUBSET Proc
  BY DEF SweepRetire, PhaseOK, TypeOK, Holders
<1>2. Held \cap (snap[k] \cap done) = {}
  BY DEF SweepRetire, SweepPhaseOK, Held, TypeOK, Alive, Exited
<1>3. /\ mem' \in Journal /\ disk' \in Journal
      /\ Held \subseteq Recorded(mem') /\ Held \subseteq Recorded(disk')
  BY <1>1, <1>2, RetireStep DEF SweepRetire
<1>. USE DEF SweepRetire, osVars, lockVars, sweepVars
<1>4. TypeOK'
  BY <1>3 DEF TypeOK, Alive
<1>5. StoppedIsRecorded' /\ MemoryCovers'
  BY <1>3 DEF StoppedIsRecorded, MemoryCovers, Held
<1>6. PhaseOK' /\ StopPhaseOK' /\ ContPhaseOK' /\ ReleasePhaseOK' /\ ReplayPhaseOK'
  BY DEF PhaseOK, StopPhaseOK, ContPhaseOK, ReleasePhaseOK, ReplayPhaseOK
<1>7. SweepPhaseOK'
  BY DEF SweepPhaseOK, Exited
<1>8. QED
  BY <1>4, <1>5, <1>6, <1>7

\* The sweep has retired all it found.
LEMMA SweepEndIInv == ASSUME IInv, SweepEnd PROVE IInv'
<1>. USE DEF IInv
<1>1. NoRecord \in Journal
  BY DEF NoRecord, Journal
<1>2. /\ holder = "up" /\ mem \in Journal /\ disk \in Journal
      /\ Held \subseteq Recorded(mem) /\ Held \subseteq Recorded(disk)
  BY DEF SweepEnd, PhaseOK, TypeOK, Holders, MemoryCovers, StoppedIsRecorded,
     Held
<1>3. QED
  BY <1>1, <1>2, ReturnIInv DEF SweepEnd, TypeOK, osVars, lockVars

\* A replay, by the daemon or by `thaw-all', starts from the file.
LEMMA ReplayIInv ==
    ASSUME IInv, Replay, holder = "free", holder' \in {"recover", "thawall"},
           restart' \in BOOLEAN, UNCHANGED osVars
    PROVE  IInv'
<1>. USE DEF IInv, Replay, osVars, sweepVars
<1>1. TypeOK'
  BY DEF TypeOK, Alive, Steps, Holders, Recorded, Journal
<1>2. StoppedIsRecorded' /\ MemoryCovers'
  BY DEF StoppedIsRecorded, MemoryCovers, Held, Recorded
<1>3. PhaseOK' /\ StopPhaseOK' /\ ContPhaseOK' /\ ReleasePhaseOK' /\ SweepPhaseOK'
  BY DEF PhaseOK, StopPhaseOK, ContPhaseOK, ReleasePhaseOK, SweepPhaseOK
<1>4. ReplayPhaseOK'
  BY DEF ReplayPhaseOK, StoppedIsRecorded, Held
<1>5. QED
  BY <1>1, <1>2, <1>3, <1>4

\* A replay ends: everything trusted runs, so the file may go.
LEMMA ReplayEndIInv == ASSUME IInv, ReplayEnd PROVE IInv'
<1>. USE DEF IInv, ReplayEnd, Return, osVars, sweepVars
<1>1. Held = {} /\ Held' = {}
  BY DEF ReplayPhaseOK, Held
<1>2. NoRecord \in Journal
  BY DEF NoRecord, Journal
<1>3. disk' \in Journal /\ mem' \in Journal
  BY <1>2 DEF Persist, TypeOK
<1>4. TypeOK'
  BY <1>3 DEF TypeOK, Alive, Steps, Holders
<1>5. StoppedIsRecorded' /\ MemoryCovers'
  BY <1>1 DEF StoppedIsRecorded, MemoryCovers, Held
<1>6. PhaseOK' /\ StopPhaseOK' /\ ContPhaseOK' /\ ReleasePhaseOK' /\ ReplayPhaseOK'
      /\ SweepPhaseOK'
  BY DEF PhaseOK, StopPhaseOK, ContPhaseOK, ReleasePhaseOK, ReplayPhaseOK,
     SweepPhaseOK
<1>7. QED
  BY <1>4, <1>5, <1>6

\* A step of something else changes nothing here.
LEMMA StutterIInv == ASSUME IInv, UNCHANGED vars PROVE IInv'
<1>. USE DEF vars
<1>1. TypeOK' /\ PhaseOK' /\ SweepPhaseOK'
  BY DEF IInv, TypeOK, Alive, PhaseOK, SweepPhaseOK, Exited
<1>2. StoppedIsRecorded' /\ MemoryCovers' /\ StopPhaseOK' /\ ContPhaseOK'
      /\ ReleasePhaseOK' /\ ReplayPhaseOK'
  BY DEF IInv, StoppedIsRecorded, MemoryCovers, StopPhaseOK, ContPhaseOK,
     ReleasePhaseOK, ReplayPhaseOK, Held, Recorded
<1>3. QED
  BY <1>1, <1>2 DEF IInv

\* The invariant is inductive: one case per action.
LEMMA NextIInv == IInv /\ [Next]_vars => IInv'
<1> SUFFICES ASSUME IInv, [Next]_vars PROVE IInv'
  OBVIOUS
<1>1. CASE Environment
  BY <1>1, SpawnIInv, ExitIInv DEF Environment
<1>2. CASE Request
  BY <1>2, ThawIInv, ExpandIInv, ReleaseAllIInv, SweepStartIInv DEF Request
<1>3. CASE Progress
  BY <1>3, StopOneIInv, ContOneIInv, ReleaseNextIInv, SweepRetireIInv,
     BlockedIInv, ArmIInv, CommitIInv, RetireIInv, ReleaseRetireIInv,
     ReleaseEndIInv, ShutdownEndIInv, SweepEndIInv, ReplayEndIInv
  DEF Progress
<1>4. CASE Reconcile
  BY <1>4, SweepResultIInv DEF Reconcile
<1>5. CASE Crash
  BY <1>5, CrashIInv
<1>6. CASE Start \/ ThawAllOffline
  <2>1. restart \in BOOLEAN
    BY DEF IInv, TypeOK
  <2>2. Replay /\ holder = "free" /\ holder' \in {"recover", "thawall"}
        /\ restart' \in BOOLEAN /\ UNCHANGED osVars
    BY <1>6, <2>1 DEF Start, ThawAllOffline, Replay
  <2>3. QED
    BY <2>2, ReplayIInv
<1>7. CASE UNCHANGED vars
  BY <1>7, StutterIInv
<1>8. QED
  BY <1>1, <1>2, <1>3, <1>4, <1>5, <1>6, <1>7 DEF Next

----------------------------------------------------------------------------
(* Theorems *)

\* The strengthened invariant, for any processes, keys and number of crashes: at
\* every step of arm, stop, commit, continue and retire, of a sweep, a shutdown and
\* a replay, memory and file cover what is stopped as far as that step promises
\* (state/journal.rs with the handlers that call it).
THEOREM IInvInvariant == Spec => []IInv
BY InitIInv, NextIInv, PTL DEF Spec

\* Every variable keeps its type; in particular only live processes count as
\* stopped (state/journal.rs, engine/transitions.rs).
THEOREM TypeCorrect == Spec => []TypeOK
<1>1. IInv => TypeOK
  BY DEF IInv
<1>2. QED
  BY <1>1, IInvInvariant, PTL

\* The journal's purpose: whatever moment the daemon dies at, the file names
\* every process it has stopped (state/journal.rs, arm, commit, retire).
THEOREM NothingStoppedUnrecorded == Spec => []StoppedIsRecorded
<1>1. IInv => StoppedIsRecorded
  BY DEF IInv
<1>2. QED
  BY <1>1, IInvInvariant, PTL

\* A graceful shutdown resumes everything it had stopped, also what the
\* registry has forgotten (engine/config_power.rs, release_journal_remnants).
THEOREM ShutdownReleasesAll == Spec => CleanExitReleases
<1>1. IInv /\ [Next]_vars => [ShutdownEnd => stopped' \cap Trusted = {}]_vars
  <2> SUFFICES ASSUME IInv, ShutdownEnd PROVE stopped' \cap Trusted = {}
    OBVIOUS
  <2>1. todo = {} /\ UNION {mem[k] : k \in rest} = {}
    BY DEF ShutdownEnd, IInv, ReleasePhaseOK
  <2>2. Held = {}
    BY <2>1 DEF ShutdownEnd, IInv, ReleasePhaseOK
  <2>3. QED
    BY <2>2 DEF ShutdownEnd, Held, osVars
<1>2. QED
  BY <1>1, IInvInvariant, PTL DEF Spec, CleanExitReleases

\* Replay leaves nothing stopped, so removing the file afterwards forgets
\* nothing (state/journal.rs, recover).
THEOREM ReplayReleasesAll == Spec => ReplayReleases
<1>1. IInv /\ [Next]_vars => [ReplayEnd => stopped' \cap Trusted = {}]_vars
  BY DEF ReplayEnd, IInv, ReplayPhaseOK, Held, osVars
<1>2. QED
  BY <1>1, IInvInvariant, PTL DEF Spec, ReplayReleases

\* Only three steps touch a process; they leave the file alone.
LEMMA SignalSteps ==
    ASSUME [Next]_vars
    PROVE  \/ UNCHANGED stopped
           \/ \E q \in Proc : Exit(q) \/ StopOne(q) \/ ContOne(q)
<1>1. CASE Environment
  BY <1>1 DEF Environment, Spawn
<1>2. CASE Request
  BY <1>2 DEF Request, Thaw, Expand, ReleaseAll, SweepStart, osVars
<1>3. CASE Progress
  BY <1>3 DEF Progress, ReleaseNext, SweepRetire, Blocked, Arm, Commit, Retire,
     ReleaseRetire, ReleaseEnd, ShutdownEnd, SweepEnd, ReplayEnd, osVars
<1>4. CASE Reconcile \/ Crash \/ Start \/ ThawAllOffline
  BY <1>4 DEF Reconcile, SweepResult, Crash, Start, ThawAllOffline, Replay,
     osVars
<1>5. CASE UNCHANGED vars
  BY <1>5 DEF vars
<1>6. QED
  BY <1>1, <1>2, <1>3, <1>4, <1>5 DEF Next

\* Every step of the journal is a step of the ledger or none.
LEMMA LedgerStep ==
    ASSUME IInv, IInv', [Next]_vars
    PROVE  [Ledger!Next]_(Ledger!vars)
<1>. DEFINE file == Recorded(disk) \cap Trusted
<1>1. Held' \subseteq file'
  BY DEF IInv, StoppedIsRecorded, Held
<1>2. CASE UNCHANGED stopped
  <2>1. Ledger!Rewrite(file')
    BY <1>1, <1>2 DEF Ledger!Rewrite, Held
  <2>2. QED
    BY <2>1 DEF Ledger!Next
<1>3. ASSUME NEW q \in Proc, Exit(q) \/ StopOne(q) \/ ContOne(q)
      PROVE  [Ledger!Next]_(Ledger!vars)
  <2>1. disk' = disk /\ file' = file
    BY <1>3 DEF Exit, StopOne, ContOne, Recorded
  <2>2. \/ stopped' = stopped
        \/ stopped' = stopped \ {q}
        \/ stopped' = stopped \cup {q} /\ q \in Recorded(disk)
    <3>1. CASE StopOne(q)
      <4>1. q \in mem[key] /\ key \in Key /\ disk = mem
        BY <3>1 DEF StopOne, IInv, StopPhaseOK, PhaseOK
      <4>2. QED
        BY <3>1, <4>1 DEF StopOne, Recorded
    <3>2. QED
      BY <1>3, <3>1 DEF Exit, ContOne
  <2>3. CASE q \notin Trusted
    BY <2>1, <2>2, <2>3 DEF Ledger!vars
  <2>4. CASE q \in Trusted
    <3>1. \/ Held' = Held
          \/ Held' = Held \ {q}
          \/ Held' = Held \cup {q} /\ q \in file
      BY <2>2, <2>4 DEF Held
    <3>2. UNCHANGED Ledger!vars \/ Ledger!Resume(q) \/ Ledger!Suspend(q)
      BY <2>1, <3>1 DEF Ledger!vars, Ledger!Resume, Ledger!Suspend, Held
    <3>3. QED
      BY <2>4, <3>2 DEF Ledger!Next
  <2>5. QED
    BY <2>3, <2>4
<1>4. QED
  BY <1>2, <1>3, SignalSteps

\* The journal implements the ledger: record before stopping, and forget only
\* what runs (state/journal.rs, lines 8-20).
THEOREM JournalImplementsLedger == Spec => ImplementsLedger
<1>1. Init => Ledger!Init
  BY DEF Init, Ledger!Init, Recorded, NoRecord
<1>2. IInv /\ IInv' /\ [Next]_vars => [Ledger!Next]_(Ledger!vars)
  BY LedgerStep
<1>3. QED
  BY <1>1, <1>2, IInvInvariant, PTL DEF Spec, ImplementsLedger, Ledger!Spec
=============================================================================
