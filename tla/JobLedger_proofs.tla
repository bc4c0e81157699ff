-------------------------- MODULE JobLedger_proofs --------------------------
(*****************************************************************************)
(* What a job's record promises while its launcher, its worker, a cancel and *)
(* the session-end sweep race to write it (JobLedger): the inductive         *)
(* invariant, kept by every step for any number of jobs, and the theorems it *)
(* gives. An index write is not atomic: what its actor decided at its start  *)
(* is still true when it ends only because the lock keeps other writes out   *)
(* while processes go on, start and die; that is what most of the parts say. *)
(*****************************************************************************)
EXTENDS JobLedger, FiniteSetTheorems, TLAPS

\* Where an actor is while an index write of its own is under way.
Writes(a, at) ==
    \/ /\ a[1] = "launcher"
       /\ at \in {"upsert", "failSpawn", "note"}
    \/ /\ a[1] = "worker"
       /\ at \in {"bootFail", "begin", "run", "finish", "signal"}
    \/ /\ a[1] \in {"canceller", "sweeper", "sweep"}
       /\ at = "settle"

\* Where a call leaves an actor that does nothing more for its job.
Ends == {"end", "dead", "stop", "stopped"}

\* The write under way is that of an actor that waits for it, is about its
\* job and leads on to where that actor may go: only a worker that starts, or
\* has started, runs on.
OpIsItsActors ==
    op # None =>
        /\ Writes(op.by, pc[op.by])
        /\ op.by = Sweep => op.row = None /\ op.file = None
        /\ op.by # Sweep => op.by[2] = op.job
        /\ op.step = "file" => op.file # None
        /\ op.next \in Ends \cup Running \cup {"spawn"} /\ op.onError \in Ends \cup Running
        /\ op.next \in Running \/ op.onError \in Running =>
              op.by = Worker(op.job) /\ pc[op.by] \in {"begin", "run"}
        /\ op.onError \in Running => pc[op.by] = "run"
        /\ pc[op.by] = "run" => op.next \in Running /\ op.onError \in Running
        /\ op.next = "spawn" => op.by = Launcher(op.job) /\ pc[op.by] = "upsert"
        /\ op.wins => IsTerminal(op.row)
        /\ op.wins /\ op.by \in Stoppers => op.next = "stop"

\* A write was let through because its row is not terminal, and nobody can
\* change that while it has the lock.
OpenRow ==
    op # None /\ op.row # None => ~IsTerminal(rows[op.job])

\* The write of the index and that of the job file tell the same: a record is
\* not settled in one and active in the other, unless a write has failed.
OpAgrees ==
    op # None =>
        /\ op.failed => faults > 0
        /\ op.step = "index" /\ op.file # None /\ ~op.failed => file[op.job] = op.file
        /\ IsActive(op.file) => IsActive(op.row)
        /\ IsTerminal(op.file) => op.file = IF op.row = None THEN rows[op.job] ELSE op.row
        /\ IsTerminal(op.row) /\ op.file = None => file[op.job] = op.row

\* A terminal record has its status and no process.
Bare(r) == IsTerminal(r) => r = TerminalRec(r.status)
TerminalIsBare ==
    /\ \A j \in Jobs : Bare(rows[j]) /\ Bare(file[j])
    /\ op # None => Bare(op.row) /\ Bare(op.file)

\* While nothing has failed a job that is settled in the index is settled
\* alike in its file.
Together == faults = 0 => \A j \in Jobs : IsTerminal(rows[j]) /\ file[j] # None => file[j] = rows[j]

\* Who settled a job left a terminal row, unless the ledger has dropped the
\* job since.
WinnerHasRow == \A j \in Jobs : winners[j] # {} => IsTerminal(rows[j]) \/ j \in forgotten

\* Before its launcher has written a job there is no row, no worker and
\* nobody who could have picked it.
Untouched ==
    \A j \in Background : pc[Launcher(j)] \in {"new", "upsert"} =>
        /\ rows[j] = None /\ pc[Worker(j)] = "off"
        /\ \A a \in Stoppers : a[2] = j => pc[a] \in {"pick", "end"}
\* A sweeper of a job is past its choice only when the session's end is.
SweepFirst == pc[Sweep] = "pick" => \A j \in Session : pc[Sweeper(j)] = "pick"
\* A launcher that notes a pid has spawned the worker; one that has still to
\* do so has none.
SpawnFirst ==
    \A j \in Background :
        /\ pc[Launcher(j)] \in {"spawn", "failSpawn"} => pc[Worker(j)] = "off"
        /\ pc[Launcher(j)] = "note" => pc[Worker(j)] # "off"

\* An active record tells the pid of its worker.
Names(r) == IsActive(r) => r.pid
\* A worker that runs is on record by pid, in the index and the file, and in
\* what is being written there, unless the ledger has dropped its job.
RunIsRecorded ==
    /\ \A j \in Jobs : pc[Worker(j)] \in Running =>
          /\ Names(rows[j]) /\ Names(file[j])
          /\ j \notin forgotten => rows[j] # None /\ file[j] # None
    /\ op # None /\ pc[Worker(op.job)] \in Running => Names(op.row) /\ Names(op.file)
    /\ op # None /\ op.next \in Running /\ pc[op.by] = "begin" =>
          op.file # None /\ IsActive(op.row) /\ Names(op.row) /\ Names(op.file)

\* A record tells a pid only of a process that was there.
Exist(j, r) ==
    /\ r.pid => pc[Worker(j)] # "off"
    /\ r.claudePid => child[j] # "none"
\* No record, none that was read, and none that is being written tells the
\* pid of a process that never was.
ProcsExist ==
    /\ \A j \in Jobs : \A r \in {rows[j], file[j]} \ {None} : Exist(j, r)
    /\ \A a \in Stoppers : Exist(a[2], targets[a]) /\ (seen[a] # None => Exist(a[2], seen[a]))
    /\ op # None => /\ Exist(op.job, op.procs)
                    /\ \A r \in {op.row, op.file} \ {None} : Exist(op.job, r)
\* A Claude child lives only while its worker runs, or after the worker was
\* killed.
LiveChild == \A j \in Jobs : child[j] = "live" => pc[Worker(j)] \in Running \cup {"killed"}

\* Who settled a job and stops its processes knows the worker if that runs,
\* and has seen gone, from one wait to the next, what it knows of.
StopIsDone ==
    \A a \in Stoppers : a \in winners[a[2]] =>
        /\ pc[a] \in {"stop", "wait", "stopped", "left", "killed"}
        /\ a[2] \notin forgotten /\ pc[Worker(a[2])] \in Running => targets[a].pid
        /\ targets[a].claudePid /\ pc[a] \in {"wait", "stopped"} => child[a[2]] = "gone"
        /\ targets[a].pid /\ pc[a] = "stopped" => pc[Worker(a[2])] \in Over
\* And what it will know is read before the write that settles.
OpStops ==
    op # None /\ op.wins /\ op.by \in Stoppers =>
        (op.job \notin forgotten /\ pc[Worker(op.job)] \in Running => op.procs.pid)

\* The inductive invariant.
IInv == /\ TypeOK /\ OpIsItsActors /\ OpenRow /\ OpAgrees /\ TerminalIsBare /\ Together
        /\ WinnerHasRow /\ OneWinner /\ Untouched /\ SweepFirst /\ SpawnFirst /\ RunIsRecorded
        /\ ProcsExist /\ LiveChild /\ StopIsDone /\ OpStops

-----------------------------------------------------------------------------

\* An actor's name tells its role and its job.
LEMMA ActorFacts ==
    /\ Stoppers \subseteq Actors /\ Sweep \in Actors /\ Sweep[1] = "sweep"
    /\ \A j \in Jobs : Worker(j) \in Actors /\ Worker(j)[1] = "worker" /\ Worker(j)[2] = j
    /\ \A j \in Background :
          j \in Jobs /\ Launcher(j) \in Actors /\ Launcher(j)[1] = "launcher" /\ Launcher(j)[2] = j
    /\ \A j \in Cancels :
          j \in Jobs /\ Canceller(j) \in Stoppers /\ Canceller(j)[1] = "canceller"
              /\ Canceller(j)[2] = j
    /\ \A j \in Session :
          j \in Jobs /\ Sweeper(j) \in Stoppers /\ Sweeper(j)[1] = "sweeper" /\ Sweeper(j)[2] = j
    /\ \A a \in Actors :
          /\ a[1] = "worker" => a[2] \in Jobs /\ a = Worker(a[2])
          /\ a[1] = "launcher" => a[2] \in Background /\ a = Launcher(a[2])
          /\ a[1] = "sweeper" => a[2] \in Session /\ a = Sweeper(a[2])
          /\ a[1] = "canceller" => a[2] \in Cancels /\ a = Canceller(a[2])
          /\ a[1] = "sweep" => a = Sweep
          /\ a[1] \in {"canceller", "sweeper"} <=> a \in Stoppers
          /\ a[1] \in {"worker", "launcher", "sweeper", "canceller", "sweep"}
<1>1. Cancels \cup Session \cup Foreground \subseteq Jobs
  BY JobsAssumption
<1> QED
  BY <1>1 DEF Actors, Stoppers, Background, Sweep, Worker, Launcher, Canceller, Sweeper

\* A record is active or terminal, never both, and what is no record is
\* neither.
LEMMA RecordFacts ==
    /\ None \notin Records /\ Unreadable \notin Records /\ Unreadable # None
    /\ \A o \in Ops : o # None
    /\ \A r \in Records : /\ IsActive(r) \/ IsTerminal(r)
                          /\ ~IsActive(r) \/ ~IsTerminal(r)
                          /\ r.pid \in BOOLEAN /\ r.claudePid \in BOOLEAN
    /\ \A r \in Records : IsTerminal(r) => r.status \in Terminal
    /\ ~IsActive(None) /\ ~IsTerminal(None) /\ ~IsActive(Unreadable) /\ ~IsTerminal(Unreadable)
    /\ ~Unreadable.pid /\ ~Unreadable.claudePid
    /\ \A s \in Terminal : /\ TerminalRec(s) \in Records /\ IsTerminal(TerminalRec(s))
                           /\ TerminalRec(s).status = s
                           /\ ~TerminalRec(s).pid /\ ~TerminalRec(s).claudePid
    /\ QueuedRec \in Records /\ IsActive(QueuedRec) /\ ~QueuedRec.pid /\ ~QueuedRec.claudePid
    /\ RunningRec \in Records /\ IsActive(RunningRec) /\ RunningRec.pid /\ ~RunningRec.claudePid
<1>1. None \notin Records /\ Unreadable # None /\ \A o \in Ops : o # None
  BY NoneAssumption
<1>2. Unreadable \notin Records
  BY DEF Records, Unreadable, Active, Terminal, Rec
<1>3. \A r \in Records : /\ IsActive(r) \/ IsTerminal(r)
                         /\ ~IsActive(r) \/ ~IsTerminal(r)
                         /\ r.pid \in BOOLEAN /\ r.claudePid \in BOOLEAN
  BY <1>1 DEF Records, IsActive, IsTerminal, Active, Terminal
<1>4. \A r \in Records : IsTerminal(r) => r.status \in Terminal
  BY DEF IsTerminal
<1>5. /\ ~IsActive(None) /\ ~IsTerminal(None) /\ ~IsActive(Unreadable) /\ ~IsTerminal(Unreadable)
      /\ ~Unreadable.pid /\ ~Unreadable.claudePid
  BY DEF Unreadable, IsActive, IsTerminal, Active, Terminal, Rec
<1>6. \A s \in Terminal : /\ TerminalRec(s) \in Records
                          /\ TerminalRec(s).status = s
                          /\ ~TerminalRec(s).pid /\ ~TerminalRec(s).claudePid
  BY DEF Records, TerminalRec, Rec
<1>7. \A s \in Terminal : IsTerminal(TerminalRec(s))
  BY <1>1, <1>6 DEF IsTerminal
<1>8. /\ QueuedRec \in Records /\ QueuedRec.status \in Active /\ ~QueuedRec.pid
         /\ ~QueuedRec.claudePid
      /\ RunningRec \in Records /\ RunningRec.status \in Active /\ RunningRec.pid
         /\ ~RunningRec.claudePid
  BY DEF Records, Active, Rec, QueuedRec, RunningRec
<1>9. IsActive(QueuedRec) /\ IsActive(RunningRec)
  BY <1>1, <1>8 DEF IsActive
<1> QED
  BY <1>1, <1>3, <1>4, <1>5, <1>6, <1>7, <1>8, <1>9

\* An update of an active record keeps it active and its pids.
Patches == {Rec("same", TRUE, FALSE), Rec("same", FALSE, TRUE), RunningRec}

\* So a patched record can be written where the record was.
LEMMA PatchFacts ==
    ASSUME NEW r \in Records, IsActive(r), NEW p \in Patches
    PROVE  /\ Patched(r, p) \in Records /\ IsActive(Patched(r, p))
           /\ Patched(r, p).pid <=> r.pid \/ p.pid
           /\ Patched(r, p).claudePid <=> r.claudePid \/ p.claudePid
<1>1. r.status \in Active /\ r.pid \in BOOLEAN /\ r.claudePid \in BOOLEAN
  BY DEF IsActive, Records
<1>2. p.status \in {"same", "running"} /\ p.pid \in BOOLEAN /\ p.claudePid \in BOOLEAN
  <2>1. CASE p = RunningRec
    BY <2>1 DEF Rec, RunningRec
  <2>2. CASE p = Rec("same", TRUE, FALSE)
    BY <2>2 DEF Rec
  <2>3. CASE p = Rec("same", FALSE, TRUE)
    BY <2>3 DEF Rec
  <2> QED
    BY <2>1, <2>2, <2>3 DEF Patches
<1>3. Patched(r, p) \in Records /\ Patched(r, p).status \in Active
  BY <1>1, <1>2 DEF Patched, Rec, Records, Active
<1>4. /\ Patched(r, p).pid <=> r.pid \/ p.pid
      /\ Patched(r, p).claudePid <=> r.claudePid \/ p.claudePid
  BY <1>1, <1>2 DEF Patched, Rec
<1> QED
  BY <1>3, <1>4, RecordFacts DEF IsActive

\* A job file is read as it is, unless a failure makes it unreadable.
LEMMA ReadFacts ==
    ASSUME TypeOK, NEW j \in Jobs, NEW f \in FileReads(j), Charge(f)
    PROVE  /\ f \in Records \cup {None, Unreadable}
           /\ f # Unreadable => f = file[j] /\ faults' = faults
           /\ f = Unreadable => file[j] # None /\ faults' = faults + 1
           /\ f = None => file[j] = None
           /\ faults' \in Nat /\ crashes' = crashes /\ faults' + crashes' <= MaxFailures
           /\ faults' = 0 => faults = 0
BY RecordFacts, BoundsAssumption DEF TypeOK, FileReads, Charge, MayFail

\* The states to begin with.
LEMMA InitInv == Init => IInv
<1> SUFFICES ASSUME Init PROVE IInv
  OBVIOUS
<1>1. TypeOK
  BY RecordFacts, BoundsAssumption DEF Init, TypeOK, InitialPc, PcValues, Procs, NoProcs
<1>2. \A a \in Actors : pc[a] \in {"new", "begin", "off", "pick"}
  BY DEF Init, InitialPc
<1>3. OneWinner
  BY FS_EmptySet DEF Init, OneWinner
<1>4. OpIsItsActors /\ OpenRow /\ OpAgrees /\ TerminalIsBare /\ Together /\ WinnerHasRow
  BY RecordFacts
     DEF Init, OpIsItsActors, OpenRow, OpAgrees, TerminalIsBare, Bare, Together, WinnerHasRow
<1>5. Untouched /\ SweepFirst /\ SpawnFirst
  BY ActorFacts DEF Init, Untouched, SweepFirst, SpawnFirst, InitialPc, Background
<1>6. RunIsRecorded /\ ProcsExist /\ LiveChild /\ StopIsDone /\ OpStops
  BY <1>2, ActorFacts
     DEF Init, RunIsRecorded, Running, ProcsExist, Exist, NoProcs, LiveChild, StopIsDone, OpStops
<1> QED
  BY <1>1, <1>3, <1>4, <1>5, <1>6 DEF IInv

-----------------------------------------------------------------------------

\* An actor whose call has nothing to write goes on.
LEMMA CallReturns ==
    ASSUME IInv, NEW a \in Actors, NEW at \in {"end", "dead", "stop", "stopped"},
           Writes(a, pc[a]), pc[a] \notin {"upsert", "run"},
           a \notin Stoppers => at \in {"end", "dead"},
           op = None, Go(a, at), UNCHANGED <<ledger, op, procVars, stopVars, history>>,
           faults' \in Nat, crashes' \in Nat, faults' + crashes' <= MaxFailures,
           faults' = 0 => faults = 0
    PROVE  IInv'
<1>1. TypeOK'
  BY DEF IInv, TypeOK, Go, PcValues, Over, ledger, procVars, stopVars, history, Indexed
<1>2. OpIsItsActors' /\ OpenRow' /\ OpAgrees' /\ OpStops'
  BY DEF OpIsItsActors, OpenRow, OpAgrees, OpStops
<1>3. TerminalIsBare' /\ Together' /\ WinnerHasRow' /\ OneWinner'
  BY DEF IInv, TerminalIsBare, Together, WinnerHasRow, OneWinner, ledger, history
<1>4. Untouched' /\ SweepFirst' /\ SpawnFirst'
  BY DEF IInv, Untouched, SweepFirst, SpawnFirst, Go, Writes, ledger
<1>5. \A w \in Actors : pc'[w] = pc[w] \/ (w = a /\ pc'[w] \notin Running)
  BY DEF IInv, TypeOK, Running, Go
<1>10. \A w \in Actors : pc[w] # "off" => pc'[w] # "off"
  BY DEF IInv, TypeOK, Go
<1>6. RunIsRecorded'
  BY <1>5, ActorFacts DEF IInv, RunIsRecorded, ledger, history
<1>7. LiveChild'
  BY <1>5, ActorFacts DEF IInv, LiveChild, Running, Writes, procVars
<1>8. ProcsExist'
  BY <1>10, ActorFacts DEF IInv, ProcsExist, Exist, ledger, procVars, stopVars
<1>9. StopIsDone'
  BY ActorFacts DEF IInv, StopIsDone, Running, Over, Go, Writes, procVars, stopVars, history
<1> QED
  BY <1>1, <1>2, <1>3, <1>4, <1>6, <1>7, <1>8, <1>9 DEF IInv

\* An index write that is taken up leaves what is not about it alone.
LEMMA WriteBegins ==
    ASSUME IInv, op' \in Ops, UNCHANGED <<ledger, pc, procVars, stopVars, history>>,
           faults' \in Nat, crashes' \in Nat, faults' + crashes' <= MaxFailures,
           faults' = 0 => faults = 0
    PROVE  /\ TypeOK' /\ Together' /\ WinnerHasRow' /\ OneWinner' /\ Untouched' /\ SweepFirst'
           /\ SpawnFirst' /\ LiveChild' /\ StopIsDone'
<1>1. TypeOK'
  BY DEF IInv, TypeOK, ledger, procVars, stopVars, history, Indexed
<1>2. Together' /\ WinnerHasRow' /\ OneWinner'
  BY DEF IInv, Together, WinnerHasRow, OneWinner, ledger, history
<1>3. Untouched' /\ SweepFirst' /\ SpawnFirst' /\ LiveChild' /\ StopIsDone'
  BY DEF IInv, Untouched, SweepFirst, SpawnFirst, LiveChild, StopIsDone, ledger, procVars, stopVars,
         history
<1> QED
  BY <1>1, <1>2, <1>3

\* settleJob begins: a terminal row stays, an active one is about to be
\* settled with its file.
LEMMA SettleStep ==
    ASSUME IInv, NEW a \in Actors, NEW j \in Jobs, NEW status \in Terminal,
           NEW fallback \in Records \cup {None}, NEW skipUnknown \in BOOLEAN,
           NEW next \in Ends, NEW late \in [Terminal -> Ends], NEW onError \in Ends,
           a # Sweep, a[2] = j, Writes(a, pc[a]), pc[a] \notin {"upsert", "run", "begin"},
           a \in Stoppers => next = "stop",
           a \notin Stoppers => next # "stop" /\ \A s \in Terminal : late[s] \in {"end", "dead"},
           fallback # None => Exist(j, fallback),
           Settle(a, j, status, fallback, skipUnknown, next, late, onError),
           UNCHANGED <<ledger, procVars, stopVars, history>>
    PROVE  IInv'
<1> DEFINE o == [Op(a, j) EXCEPT !.onError = onError]
<1>1. op = None
  BY DEF Settle, Locked
<1>2. PICK f \in FileReads(j) :
        /\ Charge(f)
        /\ \/ \E s \in Terminal : Go(a, late[s]) /\ a \notin Stoppers /\ UNCHANGED op
           \/ \E s \in Terminal : Go(a, late[s]) /\ a \in Stoppers /\ UNCHANGED op
           \/ /\ IsTerminal(f) /\ IsActive(rows[j]) /\ UNCHANGED pc
              /\ Begins([o EXCEPT !.next = late[f.status], !.row = TerminalRec(f.status)])
           \/ /\ IsTerminal(rows[j]) /\ IsActive(f) /\ UNCHANGED pc
              /\ Begins([o EXCEPT !.next = late[rows[j].status],
                 !.file = TerminalRec(rows[j].status)])
           \/ /\ ~IsTerminal(f) /\ ~IsTerminal(rows[j]) /\ UNCHANGED pc
              /\ Begins([o EXCEPT !.next = next, !.wins = TRUE,
                           !.file = TerminalRec(status), !.row = TerminalRec(status),
                           !.procs = RecordedProcesses(f, rows[j], fallback)])
  BY RecordFacts DEF Settle, RowSettled, IsTerminal
<1>3. rows[j] \in Records \cup {None} /\ file[j] \in Records \cup {None}
      /\ child \in [Jobs -> {"none", "live", "gone"}]
  BY DEF IInv, TypeOK
<1>4. /\ f \in Records \cup {None, Unreadable}
      /\ f # Unreadable => f = file[j]
      /\ faults' \in Nat /\ crashes' \in Nat /\ faults' + crashes' <= MaxFailures
      /\ faults' = 0 => faults = 0
  BY <1>2, ReadFacts DEF IInv, TypeOK
<1>5. Ends \subseteq PcValues \ Running
  BY DEF Ends, PcValues, Running, Over
<1>6. CASE \E s \in Terminal : Go(a, late[s]) /\ UNCHANGED op
  <2>1. PICK s \in Terminal : Go(a, late[s]) /\ UNCHANGED op
    BY <1>6
  <2>2. late[s] \in Ends /\ (a \notin Stoppers => late[s] \in {"end", "dead"})
    OBVIOUS
  <2> QED
    BY <1>1, <1>4, <2>1, <2>2, CallReturns DEF Ends
<1>7. CASE /\ IsTerminal(f) /\ IsActive(rows[j]) /\ UNCHANGED pc
           /\ Begins([o EXCEPT !.next = late[f.status], !.row = TerminalRec(f.status)])
  <2>1. f = file[j] /\ f \in Records /\ f.status \in Terminal
    BY <1>4, <1>7, RecordFacts
  <2>2. late[f.status] \in Ends /\ TerminalRec(f.status) \in Records
    BY <2>1, RecordFacts
  <2>3. /\ op' \in Ops /\ op'.by = a /\ op'.job = j /\ op'.file = None
           /\ op'.row = TerminalRec(f.status)
        /\ op'.step = "index" /\ op'.next = late[f.status] /\ op'.onError = onError
        /\ ~op'.wins /\ ~op'.failed /\ op'.procs = NoProcs
    BY <1>5, <1>7, <2>2 DEF Begins, Op, Ops, NoProcs, Procs, PcValues, Over
  <2>4. TerminalRec(f.status) = file[j]
    BY <2>1, <1>7 DEF IInv, TerminalIsBare, Bare
  <2>5. OpIsItsActors' /\ OpenRow' /\ OpAgrees' /\ TerminalIsBare'
    <3>1. pc[a] \notin {"begin", "run", "upsert"} /\ Ends \cap Running = {} /\ "spawn" \notin Ends
      BY DEF Ends, Running
    <3>2. OpIsItsActors'
      BY <3>1, <1>7, <2>2, <2>3, <2>4, RecordFacts DEF OpIsItsActors
    <3>3. OpenRow' /\ OpAgrees' /\ TerminalIsBare'
      BY <1>3, <1>7, <2>1, <2>2, <2>3, <2>4, RecordFacts
         DEF IInv, OpenRow, OpAgrees, TerminalIsBare, Bare, ledger
    <3> QED
      BY <3>2, <3>3
  <2>6. RunIsRecorded' /\ ProcsExist' /\ OpStops'
    BY <1>5, <1>7, <2>1, <2>2, <2>3, RecordFacts
       DEF IInv, RunIsRecorded, Names, ProcsExist, Exist, NoProcs, OpStops, ledger, procVars,
           stopVars, history
  <2> QED
    BY <1>4, <1>7, <2>3, <2>5, <2>6, WriteBegins DEF IInv
<1>8. CASE /\ IsTerminal(rows[j]) /\ IsActive(f) /\ UNCHANGED pc
           /\ Begins([o EXCEPT !.next = late[rows[j].status], !.file = TerminalRec(rows[j].status)])
  <2>1. rows[j] \in Records /\ rows[j].status \in Terminal
    BY <1>3, <1>8, RecordFacts
  <2>2. late[rows[j].status] \in Ends /\ TerminalRec(rows[j].status) \in Records
    BY <2>1, RecordFacts
  <2>9. op' = [o EXCEPT !.next = late[rows[j].status], !.file = TerminalRec(rows[j].status),
        !.step = "file"]
    BY <1>8, <2>2, RecordFacts DEF Begins, Op
  <2>3. /\ op' \in Ops /\ op'.by = a /\ op'.job = j /\ op'.row = None
           /\ op'.file = TerminalRec(rows[j].status)
        /\ op'.step = "file" /\ op'.next = late[rows[j].status] /\ op'.onError = onError
        /\ ~op'.wins /\ ~op'.failed /\ op'.procs = NoProcs
    BY <1>5, <2>2, <2>9 DEF Op, Ops, NoProcs, Procs, PcValues, Over
  <2>4. TerminalRec(rows[j].status) = rows[j]
    BY <2>1, <1>8 DEF IInv, TerminalIsBare, Bare
  <2>5. OpIsItsActors' /\ OpenRow' /\ OpAgrees' /\ TerminalIsBare'
    <3>1. pc[a] \notin {"begin", "run", "upsert"} /\ Ends \cap Running = {} /\ "spawn" \notin Ends
      BY DEF Ends, Running
    <3>2. OpIsItsActors'
      BY <3>1, <1>8, <2>2, <2>3, <2>4, RecordFacts DEF OpIsItsActors
    <3>3. OpenRow' /\ OpAgrees' /\ TerminalIsBare'
      BY <2>1, <2>2, <2>3, <2>4, RecordFacts
         DEF IInv, OpenRow, OpAgrees, TerminalIsBare, Bare, ledger
    <3> QED
      BY <3>2, <3>3
  <2>6. RunIsRecorded' /\ ProcsExist' /\ OpStops'
    BY <1>5, <1>8, <2>1, <2>2, <2>3, RecordFacts
       DEF IInv, RunIsRecorded, Names, ProcsExist, Exist, NoProcs, OpStops, ledger, procVars,
           stopVars, history
  <2> QED
    BY <1>4, <1>8, <2>3, <2>5, <2>6, WriteBegins DEF IInv
<1>9. CASE /\ ~IsTerminal(f) /\ ~IsTerminal(rows[j]) /\ UNCHANGED pc
           /\ Begins([o EXCEPT !.next = next, !.wins = TRUE,
                        !.file = TerminalRec(status), !.row = TerminalRec(status),
                        !.procs = RecordedProcesses(f, rows[j], fallback)])
  <2>1. TerminalRec(status) \in Records /\ RecordedProcesses(f, rows[j], fallback) \in Procs
    BY RecordFacts DEF RecordedProcesses, Procs
  <2>9. op' = [o EXCEPT !.next = next, !.wins = TRUE, !.file = TerminalRec(status),
        !.row = TerminalRec(status),
                        !.procs = RecordedProcesses(f, rows[j], fallback), !.step = "file"]
    BY <1>9, <2>1, RecordFacts DEF Begins, Op
  <2>2. /\ op' \in Ops /\ op'.by = a /\ op'.job = j /\ op'.row = TerminalRec(status)
           /\ op'.file = TerminalRec(status)
        /\ op'.step = "file" /\ op'.next = next /\ op'.onError = onError
        /\ op'.wins /\ ~op'.failed /\ op'.procs = RecordedProcesses(f, rows[j], fallback)
    BY <1>5, <2>1, <2>9 DEF Op, Ops, NoProcs, Procs, PcValues, Over
  <2>3. OpIsItsActors' /\ OpenRow' /\ OpAgrees' /\ TerminalIsBare'
    <3>1. pc[a] \notin {"begin", "run", "upsert"} /\ Ends \cap Running = {} /\ "spawn" \notin Ends
      BY DEF Ends, Running
    <3>2. OpIsItsActors'
      BY <3>1, <1>9, <2>2, RecordFacts DEF OpIsItsActors
    <3>3. OpenRow' /\ OpAgrees' /\ TerminalIsBare'
      BY <1>9, <2>1, <2>2, RecordFacts DEF IInv, OpenRow, OpAgrees, TerminalIsBare, Bare, ledger
    <3> QED
      BY <3>2, <3>3
  <2>4. RunIsRecorded'
    BY <1>9, <2>2, RecordFacts DEF IInv, RunIsRecorded, Names, ledger, history
  <2>5. rows[j] # None /\ rows[j].pid => op'.procs.pid
    BY <2>2 DEF RecordedProcesses
  <2>6. /\ op'.procs.pid => \E r \in {f, rows[j], fallback} \ {None} : r.pid
        /\ op'.procs.claudePid => \E r \in {f, rows[j], fallback} \ {None} : r.claudePid
    BY <2>2 DEF RecordedProcesses
  <2>7. Exist(j, op'.procs)
    BY <1>4, <2>6, RecordFacts DEF IInv, ProcsExist, Exist
  <2>8. OpStops'
    BY <1>3, <1>9, <2>2, <2>5, RecordFacts DEF IInv, RunIsRecorded, Names, OpStops, history
  <2>10. ProcsExist'
    BY <1>9, <2>2, <2>7, RecordFacts DEF IInv, ProcsExist, Exist, ledger, procVars, stopVars
  <2> QED
    BY <1>4, <1>9, <2>2, <2>3, <2>4, <2>8, <2>10, WriteBegins DEF IInv
<1> QED
  BY <1>2, <1>6, <1>7, <1>8, <1>9

\* An update of an active record that waits to be written: the file's record
\* and the row's, each the patched form of an active record that was there.
UpdateWaits(a, j, patch, fallback, next, onError) ==
    /\ op' \in Ops /\ op'.by = a /\ op'.job = j /\ op'.next = next /\ op'.onError = onError
    /\ ~op'.wins /\ ~op'.failed /\ op'.procs = NoProcs
    /\ op'.step = "file" <=> op'.file # None
    /\ op'.file = None => fallback = None
    /\ op'.file # None =>
         \E b \in {file[j], fallback} \ {None} :
            b \in Records /\ IsActive(b) /\ op'.file = Patched(b, patch)
    /\ \E r \in {rows[j], file[j], fallback} \ {None} :
            r \in Records /\ IsActive(r) /\ op'.row = Patched(r, patch)

\* What an update that waits tells of itself.
LEMMA UpdateFacts ==
    ASSUME IInv, NEW a \in Actors, NEW j \in Jobs, NEW patch \in Patches,
           NEW fallback \in {None, QueuedRec, RunningRec}, NEW skipUnknown \in BOOLEAN,
           NEW next \in PcValues, NEW refused \in PcValues, NEW onError \in PcValues,
           UpdateActive(a, j, patch, fallback, skipUnknown, next, refused, onError)
    PROVE  /\ op = None
           /\ faults' \in Nat /\ crashes' \in Nat /\ faults' + crashes' <= MaxFailures
           /\ faults' = 0 => faults = 0
           /\ \/ Go(a, refused) /\ UNCHANGED op
              \/ Go(a, next) /\ UNCHANGED op /\ (skipUnknown \/ fallback = None)
              \/ /\ UNCHANGED pc /\ ~IsTerminal(rows[j])
                 /\ UpdateWaits(a, j, patch, fallback, next, onError)
<1>1. op = None
  BY DEF UpdateActive, Locked
<1>2. PICK f \in FileReads(j) :
        LET base == IF IsRecord(f) THEN f ELSE fallback
            o    == [Op(a, j) EXCEPT !.next = next, !.onError = onError]
        IN
        /\ Charge(f)
        /\ \/ Go(a, refused) /\ UNCHANGED op
           \/ Go(a, next) /\ UNCHANGED op /\ (skipUnknown \/ base = None)
           \/ /\ ~IsTerminal(f) /\ ~IsTerminal(rows[j]) /\ UNCHANGED pc
              /\ rows[j] # None \/ base # None
              /\ Begins([o EXCEPT
                   !.file = IF base = None THEN None ELSE Patched(base, patch),
                   !.row  = Patched(IF rows[j] = None THEN base ELSE rows[j], patch)])
  BY DEF UpdateActive, TooLate
<1> DEFINE base == IF IsRecord(f) THEN f ELSE fallback
           o    == [Op(a, j) EXCEPT !.next = next, !.onError = onError]
<1>3. rows[j] \in Records \cup {None} /\ file[j] \in Records \cup {None}
  BY DEF IInv, TypeOK
<1>4. /\ f \in Records \cup {None, Unreadable}
      /\ f # Unreadable => f = file[j]
      /\ faults' \in Nat /\ crashes' \in Nat /\ faults' + crashes' <= MaxFailures
      /\ faults' = 0 => faults = 0
  BY <1>2, ReadFacts DEF IInv, TypeOK
<1>5. CASE /\ ~IsTerminal(f) /\ ~IsTerminal(rows[j]) /\ UNCHANGED pc
           /\ rows[j] # None \/ base # None
           /\ Begins([o EXCEPT
                !.file = IF base = None THEN None ELSE Patched(base, patch),
                !.row  = Patched(IF rows[j] = None THEN base ELSE rows[j], patch)])
  <2> DEFINE newFile == IF base = None THEN None ELSE Patched(base, patch)
             newRow  == Patched(IF rows[j] = None THEN base ELSE rows[j], patch)
  <2>1. base # None => base \in {file[j], fallback} \ {None} /\ base \in Records /\ IsActive(base)
    BY <1>4, <1>5, RecordFacts DEF IsRecord
  <2>2. \E r \in {rows[j], file[j], fallback} \ {None} :
           r \in Records /\ IsActive(r) /\ newRow = Patched(r, patch)
    BY <1>3, <1>5, <2>1, RecordFacts
  <2>3. newRow \in Records
    BY <2>2, PatchFacts
  <2>4. newFile \in Records \cup {None} /\ (newFile = None <=> base = None)
    BY <2>1, PatchFacts, RecordFacts
  <2>5. base = None => fallback = None
    BY <1>4, <1>5, RecordFacts DEF IsRecord
  <2> HIDE DEF newFile, newRow
  <2>6. op' = [o EXCEPT !.file = newFile, !.row = newRow, !.step = IF newFile = None THEN "index"
        ELSE "file"]
    BY <1>5 DEF Begins, Op, newFile, newRow
  <2>7. /\ op' \in Ops /\ op'.by = a /\ op'.job = j /\ op'.next = next /\ op'.onError = onError
        /\ ~op'.wins /\ ~op'.failed /\ op'.procs = NoProcs /\ op'.file = newFile /\ op'.row = newRow
        /\ op'.step = "file" <=> op'.file # None
    BY <2>3, <2>4, <2>6 DEF Op, Ops, NoProcs, Procs
  <2>8. op'.file # None => \E b \in {file[j], fallback} \ {None} :
                              b \in Records /\ IsActive(b) /\ op'.file = Patched(b, patch)
    BY <2>1, <2>4, <2>7 DEF newFile
  <2> QED
    BY <1>1, <1>4, <1>5, <2>2, <2>4, <2>5, <2>7, <2>8 DEF UpdateWaits
<1>6. base = None => fallback = None
  BY RecordFacts DEF IsRecord
<1> QED
  BY <1>1, <1>2, <1>4, <1>5, <1>6

\* updateActiveJob begins.
LEMMA UpdateBegins ==
    ASSUME IInv, NEW a \in Actors, NEW j \in Jobs, NEW patch \in Patches,
           NEW fallback \in {None, QueuedRec, RunningRec},
           NEW next \in Ends \cup Running, NEW onError \in Ends \cup Running,
           op = None, UNCHANGED <<ledger, pc, procVars, stopVars, history>>,
           faults' \in Nat, crashes' \in Nat, faults' + crashes' <= MaxFailures,
           faults' = 0 => faults = 0,
           a # Sweep, a[2] = j, Writes(a, pc[a]), ~IsTerminal(rows[j]),
           Exist(j, patch), fallback # None => Exist(j, fallback),
           patch.pid \/ fallback = None,
           next \in Running \/ onError \in Running => a = Worker(j) /\ pc[a] \in {"begin", "run"},
           onError \in Running <=> pc[a] = "run",
           pc[a] = "run" => next \in Running,
           pc[a] = "begin" => fallback # None,
           UpdateWaits(a, j, patch, fallback, next, onError)
    PROVE  IInv'
<1>0. /\ op' \in Ops /\ op'.by = a /\ op'.job = j /\ op'.next = next /\ op'.onError = onError
      /\ ~op'.wins /\ ~op'.failed /\ op'.procs = NoProcs
      /\ op'.step = "file" <=> op'.file # None
      /\ op'.file = None => fallback = None
  BY DEF UpdateWaits
<1>1. PICK r \in {rows[j], file[j], fallback} \ {None} :
         r \in Records /\ IsActive(r) /\ op'.row = Patched(r, patch)
  BY DEF UpdateWaits
<1>2. /\ op'.row \in Records /\ IsActive(op'.row)
      /\ op'.row.pid <=> r.pid \/ patch.pid
      /\ op'.row.claudePid <=> r.claudePid \/ patch.claudePid
  BY <1>1, PatchFacts
<1>3. op'.file # None => /\ op'.file \in Records /\ IsActive(op'.file)
                         /\ \E b \in {file[j], fallback} \ {None} :
                              /\ IsActive(b)
                              /\ op'.file.pid <=> b.pid \/ patch.pid
                              /\ op'.file.claudePid <=> b.claudePid \/ patch.claudePid
  BY PatchFacts DEF UpdateWaits
<1>4. op'.step \in {"file", "index"}
  BY <1>0 DEF Ops
<1>5. \A x \in {op'.row, op'.file} \ {None} : Exist(j, x)
  BY <1>2, <1>3 DEF IInv, ProcsExist, Exist
<1>6. pc[Worker(j)] \in Running \/ patch.pid => Names(op'.row) /\ Names(op'.file)
  BY <1>1, <1>2, <1>3, RecordFacts DEF IInv, RunIsRecorded, Names
<1>7. OpIsItsActors'
  <2>1. "spawn" \notin Ends \cup Running
    BY DEF Ends, Running
  <2> QED
    BY <1>0, <2>1 DEF OpIsItsActors
<1>10. OpenRow' /\ OpAgrees' /\ TerminalIsBare' /\ OpStops'
  BY <1>0, <1>2, <1>3, <1>4, RecordFacts
     DEF IInv, OpenRow, OpAgrees, TerminalIsBare, Bare, OpStops, ledger
<1>8. RunIsRecorded'
  BY <1>0, <1>2, <1>6, RecordFacts DEF IInv, RunIsRecorded, ledger, history
<1>9. ProcsExist'
  BY <1>0, <1>5 DEF IInv, ProcsExist, Exist, NoProcs, ledger, procVars, stopVars
<1> QED
  BY <1>0, <1>7, <1>8, <1>9, <1>10, WriteBegins DEF IInv

-----------------------------------------------------------------------------

\* What a step keeps that writes nothing, whether or not the index write in
\* progress goes with its actor.
LEMMA LedgerKept ==
    ASSUME IInv, UNCHANGED <<ledger, history>>, op' \in {op, None},
           faults' \in Nat, faults' >= faults
    PROVE  /\ OpenRow' /\ OpAgrees' /\ TerminalIsBare' /\ Together' /\ WinnerHasRow' /\ OneWinner'
<1>1. OpenRow' /\ OpAgrees' /\ TerminalIsBare'
  BY DEF IInv, TypeOK, OpenRow, OpAgrees, TerminalIsBare, ledger
<1>2. Together' /\ WinnerHasRow' /\ OneWinner'
  BY DEF IInv, TypeOK, Together, WinnerHasRow, OneWinner, ledger, history
<1> QED
  BY <1>1, <1>2

\* The write under way is still its actor's when another actor moves.
LEMMA OpKept ==
    ASSUME IInv, op' \in {op, None}, op' # None => pc'[op.by] = pc[op.by]
    PROVE  OpIsItsActors'
BY DEF IInv, OpIsItsActors, Writes

\* Nobody begins to run unrecorded when no worker begins to run.
LEMMA RunKept ==
    ASSUME IInv, UNCHANGED <<ledger, history>>, op' \in {op, None},
           op' # None => pc'[op.by] = pc[op.by],
           \A j \in Jobs : pc'[Worker(j)] \in Running => pc[Worker(j)] \in Running
    PROVE  RunIsRecorded'
<1>1. op # None => op.job \in Jobs
  BY DEF IInv, TypeOK, Ops
<1> QED
  BY <1>1 DEF IInv, RunIsRecorded, Names, ledger, history

\* No process that a record tells of is unmade.
LEMMA ProcsKept ==
    ASSUME IInv, UNCHANGED <<ledger, stopVars>>, op' \in {op, None},
           \A j \in Jobs : pc[Worker(j)] # "off" => pc'[Worker(j)] # "off",
           \A j \in Jobs : child[j] # "none" => child'[j] # "none"
    PROVE  ProcsExist'
<1>1. op # None => op.job \in Jobs
  BY DEF IInv, TypeOK, Ops
<1>2. \A a \in Stoppers : a[2] \in Jobs
  BY ActorFacts
<1> QED
  BY <1>1, <1>2 DEF IInv, ProcsExist, Exist, ledger, stopVars

\* The launcher spawns the worker, or cannot.
LEMMA SpawnStep ==
    ASSUME IInv, NEW j \in Background, Spawn(j)
    PROVE  IInv'
<1>1. j \in Jobs /\ Launcher(j) # Worker(j) /\ pc[Launcher(j)] = "spawn" /\ pc[Worker(j)] = "off"
  BY ActorFacts DEF IInv, SpawnFirst, Spawn
<1>2. /\ pc' \in [Actors -> PcValues]
      /\ \A w \in Actors \ {Launcher(j), Worker(j)} : pc'[w] = pc[w]
      /\ \/ pc'[Launcher(j)] = "note" /\ pc'[Worker(j)] = "boot"
         \/ pc'[Launcher(j)] = "failSpawn" /\ pc'[Worker(j)] = "off"
  BY <1>1, ActorFacts DEF IInv, TypeOK, Spawn, Go, Over, PcValues
<1>3. \A w \in Actors : pc'[w] = pc[w]
      \/ (pc[w] \in {"spawn", "off"} /\ pc'[w] \in {"note", "failSpawn", "boot"})
  BY <1>1, <1>2
<1>4. /\ faults' \in Nat /\ crashes' = crashes /\ faults' + crashes' <= MaxFailures
         /\ faults' >= faults
  BY BoundsAssumption DEF IInv, TypeOK, Spawn, Fault, MayFail, budget
<1>5. op' \in {op, None} /\ (op' # None => pc'[op.by] = pc[op.by])
  BY <1>1, <1>2, <1>3, <1>4, ActorFacts DEF IInv, TypeOK, Ops, OpIsItsActors, Writes, Spawn
<1>6. \A k \in Jobs : pc'[Worker(k)] \in Running => pc[Worker(k)] \in Running
  BY <1>3, ActorFacts DEF Running, Over
<1>7. \A k \in Jobs : pc[Worker(k)] # "off" => pc'[Worker(k)] # "off"
  BY <1>1, <1>2, <1>3, <1>4, ActorFacts DEF Over
<1>8. TypeOK'
  BY <1>1, <1>2, <1>3, <1>4, <1>5, <1>6, <1>7, ActorFacts, RecordFacts
     DEF IInv, TypeOK, Spawn, Indexed, ledger, procVars, stopVars, history
<1>9. OpenRow' /\ OpAgrees' /\ TerminalIsBare' /\ Together' /\ WinnerHasRow' /\ OneWinner'
  BY <1>4, <1>6, <1>7, LedgerKept DEF Spawn
<1>10. OpIsItsActors'
  BY <1>5, OpKept
<1>11. Untouched'
  BY <1>2, ActorFacts DEF IInv, Untouched, Spawn, ledger
<1>12. SweepFirst'
  BY <1>1, <1>2, <1>3, <1>4, <1>5, <1>6, <1>7, ActorFacts, RecordFacts
     DEF IInv, SweepFirst, procVars, stopVars, history, budget
<1>13. SpawnFirst'
  BY <1>1, <1>2, <1>3, <1>4, <1>5, <1>6, <1>7, ActorFacts, RecordFacts
     DEF IInv, SpawnFirst, procVars, stopVars, history, budget
<1>14. RunIsRecorded'
  BY <1>5, <1>6, RunKept DEF Spawn
<1>15. ProcsExist'
  BY <1>5, <1>7, ProcsKept DEF Spawn, procVars
<1>16. LiveChild'
  BY <1>1, <1>2, <1>3, <1>4, <1>5, <1>6, <1>7, ActorFacts, RecordFacts
     DEF IInv, LiveChild, Spawn, Running, procVars, stopVars, history, budget
<1>17. StopIsDone'
  BY <1>3, ActorFacts DEF IInv, StopIsDone, Over, Running, Spawn, procVars, stopVars, history
<1>18. OpStops'
  BY <1>1, <1>2, <1>3, <1>4, <1>5, <1>6, <1>7, ActorFacts, RecordFacts
     DEF IInv, OpIsItsActors, OpStops, Spawn, procVars, stopVars, history, budget
<1> QED
  BY <1>8, <1>9, <1>10, <1>11, <1>12, <1>13, <1>14, <1>15, <1>16, <1>17, <1>18 DEF IInv

\* The worker reads its job file.
LEMMA BootStep ==
    ASSUME IInv, NEW j \in Jobs, Boot(j)
    PROVE  IInv'
<1>1. /\ pc' \in [Actors -> PcValues] /\ pc[Worker(j)] = "boot"
         /\ pc'[Worker(j)] \in {"begin", "bootFail"}
      /\ \A w \in Actors \ {Worker(j)} : pc'[w] = pc[w]
  BY ActorFacts DEF IInv, TypeOK, Boot, Go, PcValues
<1>2. /\ faults' \in Nat /\ crashes' = crashes /\ faults' + crashes' <= MaxFailures
         /\ faults' >= faults
  BY ReadFacts DEF IInv, TypeOK, Boot
<1>3. op' \in {op, None} /\ (op' # None => pc'[op.by] = pc[op.by])
  BY <1>1, <1>2, ActorFacts DEF IInv, TypeOK, Ops, OpIsItsActors, Writes, Boot
<1>4. \A k \in Jobs : pc'[Worker(k)] \in Running => pc[Worker(k)] \in Running
  BY <1>1, <1>2, ActorFacts DEF Running, Over
<1>5. \A k \in Jobs : pc[Worker(k)] # "off" => pc'[Worker(k)] # "off"
  BY <1>1, <1>2, ActorFacts DEF Over
<1>6. TypeOK'
  BY <1>1, <1>2, <1>3, <1>4, <1>5, ActorFacts, RecordFacts
     DEF IInv, TypeOK, Boot, Indexed, ledger, procVars, stopVars, history, budget
<1>7. OpenRow' /\ OpAgrees' /\ TerminalIsBare' /\ Together' /\ WinnerHasRow' /\ OneWinner'
  BY <1>2, LedgerKept DEF Boot
<1>8. OpIsItsActors'
  BY <1>3, OpKept
<1>9. Untouched'
  BY <1>1, <1>2, <1>3, <1>4, <1>5, ActorFacts, RecordFacts
     DEF IInv, Untouched, Boot, ledger, procVars, stopVars, history, budget
<1>10. SweepFirst'
  BY <1>1, <1>2, <1>3, <1>4, <1>5, ActorFacts, RecordFacts
     DEF IInv, SweepFirst, procVars, stopVars, history, budget
<1>11. SpawnFirst'
  BY <1>1, <1>2, <1>3, <1>4, <1>5, ActorFacts, RecordFacts
     DEF IInv, SpawnFirst, procVars, stopVars, history, budget
<1>12. RunIsRecorded'
  BY <1>3, <1>4, RunKept DEF Boot
<1>13. ProcsExist'
  BY <1>5, ProcsKept DEF Boot, procVars
<1>14. LiveChild'
  BY <1>1, <1>2, <1>3, <1>4, <1>5, ActorFacts, RecordFacts
     DEF IInv, LiveChild, Boot, Running, procVars, stopVars, history, budget
<1>15. StopIsDone'
  BY <1>1, <1>2, <1>3, <1>4, <1>5, ActorFacts, RecordFacts
     DEF IInv, StopIsDone, Boot, Over, procVars, stopVars, history, budget
<1>16. OpStops'
  BY <1>1, <1>2, <1>3, <1>4, <1>5, ActorFacts, RecordFacts
     DEF IInv, OpIsItsActors, OpStops, Boot, procVars, stopVars, history, budget
<1> QED
  BY <1>6, <1>7, <1>8, <1>9, <1>10, <1>11, <1>12, <1>13, <1>14, <1>15, <1>16 DEF IInv

\* A worker that runs starts Claude.
LEMMA SpawnChildStep ==
    ASSUME IInv, NEW j \in Jobs, SpawnChild(j)
    PROVE  IInv'
<1>1. TypeOK'
  BY ActorFacts, RecordFacts
     DEF IInv, TypeOK, SpawnChild, Go, Indexed, ledger, procVars, stopVars, history, budget
<1>2. OpenRow' /\ OpAgrees' /\ TerminalIsBare' /\ Together' /\ WinnerHasRow' /\ OneWinner'
  BY LedgerKept DEF IInv, TypeOK, SpawnChild, budget
<1>3. OpIsItsActors'
  BY ActorFacts, RecordFacts
     DEF IInv, OpIsItsActors, SpawnChild, procVars, stopVars, history, budget
<1>4. Untouched'
  BY ActorFacts, RecordFacts
     DEF IInv, Untouched, SpawnChild, Running, ledger, procVars, stopVars, history, budget
<1>5. SweepFirst'
  BY ActorFacts, RecordFacts
     DEF IInv, SweepFirst, SpawnChild, ledger, procVars, stopVars, history, budget
<1>6. SpawnFirst'
  BY ActorFacts, RecordFacts
     DEF IInv, SpawnFirst, SpawnChild, ledger, procVars, stopVars, history, budget
<1>7. RunIsRecorded'
  BY ActorFacts, RecordFacts
     DEF IInv, RunIsRecorded, SpawnChild, Running, ledger, procVars, stopVars, history, budget
<1>8. ProcsExist'
  BY ActorFacts, RecordFacts
     DEF IInv, ProcsExist, Exist, SpawnChild, Running, ledger, procVars, stopVars, history, budget
<1>9. LiveChild'
  BY ActorFacts, RecordFacts
     DEF IInv, LiveChild, SpawnChild, Running, ledger, procVars, stopVars, history, budget
<1>10. StopIsDone'
  BY ActorFacts, RecordFacts
     DEF IInv, StopIsDone, SpawnChild, ledger, procVars, stopVars, history, budget
<1>11. OpStops'
  BY ActorFacts, RecordFacts
     DEF IInv, OpStops, SpawnChild, ledger, procVars, stopVars, history, budget
<1> QED
  BY <1>1, <1>2, <1>3, <1>4, <1>5, <1>6, <1>7, <1>8, <1>9, <1>10, <1>11 DEF IInv

\* The run is over and its outcome is to be settled.
LEMMA RunEndsStep ==
    ASSUME IInv, NEW j \in Jobs, RunEnds(j)
    PROVE  IInv'
<1>1. TypeOK'
  BY ActorFacts, RecordFacts
     DEF IInv, TypeOK, RunEnds, ChildGone, Go, PcValues, Indexed, ledger, procVars, stopVars,
         history, budget
<1>2. OpenRow' /\ OpAgrees' /\ TerminalIsBare' /\ Together' /\ WinnerHasRow' /\ OneWinner'
  BY LedgerKept DEF IInv, TypeOK, RunEnds, budget
<1>3. OpIsItsActors'
  BY ActorFacts, RecordFacts
     DEF IInv, OpIsItsActors, RunEnds, Locked, Go, Running, ledger, procVars, stopVars, history,
         budget
<1>4. Untouched'
  BY ActorFacts, RecordFacts
     DEF IInv, Untouched, RunEnds, Go, Over, Running, ledger, procVars, stopVars, history, budget
<1>5. SweepFirst'
  BY ActorFacts, RecordFacts
     DEF IInv, SweepFirst, RunEnds, Go, Over, Running, ledger, procVars, stopVars, history, budget
<1>6. SpawnFirst'
  BY ActorFacts, RecordFacts
     DEF IInv, SpawnFirst, RunEnds, Go, Over, Running, ledger, procVars, stopVars, history, budget
<1>7. RunIsRecorded'
  BY ActorFacts, RecordFacts
     DEF IInv, RunIsRecorded, RunEnds, Go, Over, Running, ledger, procVars, stopVars, history,
         budget
<1>8. ProcsExist'
  BY ActorFacts, RecordFacts
     DEF IInv, ProcsExist, Exist, RunEnds, ChildGone, Go, Over, Running, ledger, procVars, stopVars,
         history, budget
<1>9. LiveChild'
  BY ActorFacts, RecordFacts
     DEF IInv, TypeOK, LiveChild, RunEnds, ChildGone, Go, Over, Running, ledger, procVars, stopVars,
         history, budget
<1>10. StopIsDone'
  BY ActorFacts, RecordFacts
     DEF IInv, StopIsDone, RunEnds, ChildGone, Go, Over, Running, ledger, procVars, stopVars,
         history, budget
<1>11. OpStops'
  BY ActorFacts, RecordFacts
     DEF IInv, OpStops, RunEnds, Go, Over, Running, ledger, procVars, stopVars, history, budget
<1> QED
  BY <1>1, <1>2, <1>3, <1>4, <1>5, <1>6, <1>7, <1>8, <1>9, <1>10, <1>11 DEF IInv

\* The worker takes the signal it was sent.
LEMMA TakeSignalStep ==
    ASSUME IInv, NEW j \in Jobs, TakeSignal(j)
    PROVE  IInv'
<1>1. \/ pc[Worker(j)] = "boot" /\ child' = child
      \/ /\ pc[Worker(j)] \in Running /\ (op # None => op.by # Worker(j))
         /\ child' = [child EXCEPT ![j] = IF @ = "live" THEN "gone" ELSE @]
  BY DEF TakeSignal, ChildGone, Locked
<1>2. /\ pc' \in [Actors -> PcValues] /\ pc'[Worker(j)] \in {"dead", "signal"}
      /\ \A w \in Actors \ {Worker(j)} : pc'[w] = pc[w]
  BY ActorFacts DEF IInv, TypeOK, TakeSignal, Go, PcValues, Over
<1>3. op' \in {op, None} /\ (op' # None => pc'[op.by] = pc[op.by])
  BY <1>1, <1>2, ActorFacts DEF IInv, TypeOK, Ops, OpIsItsActors, Writes, TakeSignal
<1>4. \A k \in Jobs : pc'[Worker(k)] \in Running => pc[Worker(k)] \in Running
  BY <1>1, <1>2, ActorFacts DEF Running, Over
<1>5. \A k \in Jobs : pc[Worker(k)] # "off" => pc'[Worker(k)] # "off"
  BY <1>1, <1>2, ActorFacts DEF Over
<1>6. TypeOK'
  BY <1>1, <1>2, <1>3, <1>4, <1>5, ActorFacts, RecordFacts
     DEF IInv, TypeOK, TakeSignal, Indexed, ledger, procVars, stopVars, history, budget
<1>7. OpenRow' /\ OpAgrees' /\ TerminalIsBare' /\ Together' /\ WinnerHasRow' /\ OneWinner'
  BY LedgerKept DEF IInv, TypeOK, TakeSignal, budget
<1>8. OpIsItsActors'
  BY <1>3, OpKept
<1>9. Untouched'
  BY <1>1, <1>2, <1>3, <1>4, <1>5, ActorFacts, RecordFacts
     DEF IInv, Untouched, TakeSignal, Running, ledger, procVars, stopVars, history, budget
<1>10. SweepFirst'
  BY <1>1, <1>2, <1>3, <1>4, <1>5, ActorFacts, RecordFacts
     DEF IInv, SweepFirst, procVars, stopVars, history, budget
<1>11. SpawnFirst'
  BY <1>1, <1>2, <1>3, <1>4, <1>5, ActorFacts, RecordFacts
     DEF IInv, SpawnFirst, Running, procVars, stopVars, history, budget
<1>12. RunIsRecorded'
  BY <1>3, <1>4, RunKept DEF TakeSignal
<1>13. ProcsExist'
  BY <1>1, <1>5, ProcsKept DEF IInv, TypeOK, TakeSignal, procVars
<1>14. LiveChild'
  BY <1>1, <1>2, <1>3, <1>4, <1>5, ActorFacts, RecordFacts
     DEF IInv, TypeOK, LiveChild, Running, procVars, stopVars, history, budget
<1>15. StopIsDone'
  BY <1>1, <1>2, <1>3, <1>4, <1>5, ActorFacts, RecordFacts
     DEF IInv, TypeOK, StopIsDone, TakeSignal, Over, Running, procVars, stopVars, history, budget
<1>16. OpStops'
  BY <1>1, <1>2, <1>3, <1>4, <1>5, ActorFacts, RecordFacts
     DEF IInv, OpIsItsActors, OpStops, TakeSignal, procVars, stopVars, history, budget
<1> QED
  BY <1>6, <1>7, <1>8, <1>9, <1>10, <1>11, <1>12, <1>13, <1>14, <1>15, <1>16 DEF IInv

\* A cancel picks its job.
LEMMA PickCancelStep ==
    ASSUME IInv, NEW j \in Cancels, PickCancel(j)
    PROVE  IInv'
<1>1. /\ pc' \in [Actors -> PcValues] /\ pc[Canceller(j)] = "pick" /\ pc'[Canceller(j)] = "settle"
      /\ \A w \in Actors \ {Canceller(j)} : pc'[w] = pc[w]
  BY ActorFacts DEF IInv, TypeOK, PickCancel, Go, PcValues
<1>2. j \in Jobs /\ Canceller(j) \in Stoppers /\ rows[j] \in Records /\ IsActive(rows[j])
  BY ActorFacts, RecordFacts DEF IInv, TypeOK, PickCancel
<1>3. /\ faults' \in Nat /\ crashes' = crashes /\ faults' + crashes' <= MaxFailures
         /\ faults' >= faults
      /\ \E r \in Records :
            /\ seen' = [seen EXCEPT ![Canceller(j)] = r]
            /\ Exist(j, r)
  <2>1. PICK f \in FileReads(j) :
          LET p == RecordedProcesses(f, rows[j], None) IN
          Charge(f) /\ seen' = [seen EXCEPT ![Canceller(j)] = Rec(rows[j].status, p.pid,
              p.claudePid)]
    BY DEF PickCancel
  <2> DEFINE p == RecordedProcesses(f, rows[j], None)
             r == Rec(rows[j].status, p.pid, p.claudePid)
  <2>2. /\ f \in Records \cup {None, Unreadable}
        /\ f # Unreadable => f = file[j]
        /\ faults' \in Nat /\ crashes' = crashes /\ faults' + crashes' <= MaxFailures
           /\ faults' >= faults
    BY <1>2, <2>1, ReadFacts DEF IInv, TypeOK
  <2>3. /\ p \in Procs
        /\ p.pid => \E x \in {f, rows[j]} \ {None} : x.pid
        /\ p.claudePid => \E x \in {f, rows[j]} \ {None} : x.claudePid
    BY DEF RecordedProcesses, Procs
  <2>4. Exist(j, p)
    BY <2>2, <2>3, <1>2, RecordFacts DEF IInv, ProcsExist, Exist
  <2>5. r \in Records /\ r.pid = p.pid /\ r.claudePid = p.claudePid
    BY <1>2, <2>3 DEF Rec, Records, IsActive, Procs
  <2> QED
    BY <2>1, <2>2, <2>4, <2>5 DEF Exist
<1>4. op' \in {op, None} /\ (op' # None => pc'[op.by] = pc[op.by])
  BY <1>1, <1>2, <1>3, ActorFacts DEF IInv, TypeOK, Ops, OpIsItsActors, Writes, PickCancel
<1>5. \A k \in Jobs : pc'[Worker(k)] \in Running => pc[Worker(k)] \in Running
  BY <1>1, <1>2, <1>3, ActorFacts DEF Running, Over
<1>6. \A k \in Jobs : pc[Worker(k)] # "off" => pc'[Worker(k)] # "off"
  BY <1>1, <1>2, <1>3, ActorFacts DEF Over
<1>7. TypeOK'
  BY <1>1, <1>2, <1>3, <1>4, <1>5, <1>6, ActorFacts, RecordFacts
     DEF IInv, TypeOK, PickCancel, Indexed, ledger, procVars, stopVars, history, budget
<1>8. OpenRow' /\ OpAgrees' /\ TerminalIsBare' /\ Together' /\ WinnerHasRow' /\ OneWinner'
  BY <1>3, <1>6, LedgerKept DEF PickCancel
<1>9. OpIsItsActors'
  BY <1>4, OpKept
<1>10. Untouched'
  BY <1>1, <1>2, <1>3, <1>4, <1>5, <1>6, ActorFacts, RecordFacts
     DEF IInv, Untouched, PickCancel, ledger, procVars, stopVars, history, budget
<1>11. SweepFirst'
  BY <1>1, <1>2, <1>3, <1>4, <1>5, <1>6, ActorFacts, RecordFacts
     DEF IInv, SweepFirst, procVars, stopVars, history, budget
<1>12. SpawnFirst'
  BY <1>1, <1>2, <1>3, <1>4, <1>5, <1>6, ActorFacts, RecordFacts
     DEF IInv, SpawnFirst, procVars, stopVars, history, budget
<1>13. RunIsRecorded'
  BY <1>4, <1>5, RunKept DEF PickCancel
<1>14. ProcsExist'
  <2>1. \A k \in Jobs : \A r : Exist(k, r) => Exist(k, r)'
    BY <1>6 DEF Exist, PickCancel, procVars
  <2>2. /\ \A k \in Stoppers : k[2] \in Jobs
        /\ \A k \in Stoppers : seen'[k] = seen[k] \/ (k[2] = j /\ Exist(j, seen'[k]))
    BY <1>2, <1>3, ActorFacts DEF IInv, TypeOK
  <2>3. op' = op /\ (op # None => op.job \in Jobs)
    BY DEF IInv, TypeOK, Ops, PickCancel
  <2> QED
    BY <2>1, <2>2, <2>3 DEF IInv, ProcsExist, PickCancel, ledger
<1>15. LiveChild'
  BY <1>1, <1>2, <1>3, <1>4, <1>5, <1>6, ActorFacts, RecordFacts
     DEF IInv, LiveChild, PickCancel, procVars, stopVars, history, budget
<1>16. StopIsDone'
  BY <1>1, <1>2, <1>3, <1>4, <1>5, <1>6, ActorFacts, RecordFacts
     DEF IInv, StopIsDone, PickCancel, procVars, stopVars, history, budget
<1>17. OpStops'
  BY <1>1, <1>2, <1>3, <1>4, <1>5, <1>6, ActorFacts, RecordFacts
     DEF IInv, OpIsItsActors, OpStops, PickCancel, procVars, stopVars, history, budget
<1> QED
  BY <1>7, <1>8, <1>9, <1>10, <1>11, <1>12, <1>13, <1>14, <1>15, <1>16, <1>17 DEF IInv

\* The session's end picks its jobs.
LEMMA PickSweepStep ==
    ASSUME IInv, PickSweep
    PROVE  IInv'
<1>1. /\ pc' \in [Actors -> PcValues] /\ pc[Sweep] = "pick" /\ pc'[Sweep] = "settle"
      /\ \A w \in Actors \ {Sweep} : w[1] # "sweeper" => pc'[w] = pc[w]
      /\ \A j \in Session : /\ pc[Sweeper(j)] = "pick"
                            /\ pc'[Sweeper(j)] \in {"settle", "end"}
                            /\ pc'[Sweeper(j)] = "settle" => rows[j] # None
  BY ActorFacts, RecordFacts DEF IInv, TypeOK, SweepFirst, PickSweep, PcValues, Over
<1>2. \A w \in Actors : pc[w] # "pick" => pc'[w] = pc[w] /\ w # Sweep /\ w[1] # "sweeper"
  BY <1>1, ActorFacts
<1>3. op' \in {op, None} /\ (op' # None => pc'[op.by] = pc[op.by])
  BY <1>1, <1>2, ActorFacts DEF IInv, TypeOK, Ops, OpIsItsActors, Writes, PickSweep
<1>4. \A j \in Jobs : pc'[Worker(j)] \in Running => pc[Worker(j)] \in Running
  BY <1>1, <1>2, ActorFacts DEF Running, Over
<1>5. \A j \in Jobs : pc[Worker(j)] # "off" => pc'[Worker(j)] # "off"
  BY <1>1, <1>2, ActorFacts DEF Over
<1>6. TypeOK'
  BY <1>1, <1>2, <1>3, <1>4, <1>5, ActorFacts, RecordFacts
     DEF IInv, TypeOK, PickSweep, Indexed, ledger, procVars, stopVars, history, budget
<1>7. OpenRow' /\ OpAgrees' /\ TerminalIsBare' /\ Together' /\ WinnerHasRow' /\ OneWinner'
  BY <1>5, LedgerKept DEF IInv, TypeOK, PickSweep, budget
<1>8. OpIsItsActors'
  BY <1>3, OpKept
<1>9. Untouched'
  BY <1>1, <1>2, <1>3, <1>4, <1>5, ActorFacts, RecordFacts
     DEF IInv, Untouched, PickSweep, ledger, procVars, stopVars, history, budget
<1>10. SweepFirst'
  BY <1>1, <1>2, <1>3, <1>4, <1>5, ActorFacts, RecordFacts
     DEF SweepFirst, procVars, stopVars, history, budget
<1>11. SpawnFirst'
  BY <1>1, <1>2, <1>3, <1>4, <1>5, ActorFacts, RecordFacts
     DEF IInv, SpawnFirst, procVars, stopVars, history, budget
<1>12. RunIsRecorded'
  BY <1>3, <1>4, RunKept DEF PickSweep
<1>13. ProcsExist'
  <2>1. \A k \in Jobs : \A r : Exist(k, r) => Exist(k, r)'
    BY <1>5 DEF Exist, PickSweep, procVars
  <2>2. /\ \A k \in Stoppers : k[2] \in Jobs
        /\ \A k \in Stoppers : seen'[k] = seen[k] \/ (rows[k[2]] # None /\ seen'[k] = rows[k[2]])
    BY ActorFacts DEF PickSweep, IsActive
  <2>3. op' = op /\ (op # None => op.job \in Jobs)
    BY DEF IInv, TypeOK, Ops, PickSweep
  <2> QED
    BY <2>1, <2>2, <2>3 DEF IInv, ProcsExist, PickSweep, ledger
<1>14. LiveChild'
  BY <1>1, <1>2, <1>3, <1>4, <1>5, ActorFacts, RecordFacts
     DEF IInv, LiveChild, PickSweep, procVars, stopVars, history, budget
<1>15. StopIsDone'
  BY <1>1, <1>2, <1>3, <1>4, <1>5, ActorFacts, RecordFacts
     DEF IInv, StopIsDone, PickSweep, procVars, stopVars, history, budget
<1>16. OpStops'
  BY <1>1, <1>2, <1>3, <1>4, <1>5, ActorFacts, RecordFacts
     DEF IInv, OpIsItsActors, OpStops, PickSweep, procVars, stopVars, history, budget
<1> QED
  BY <1>6, <1>7, <1>8, <1>9, <1>10, <1>11, <1>12, <1>13, <1>14, <1>15, <1>16 DEF IInv

\* A stopper signals the processes it knows.
LEMMA TerminateStep ==
    ASSUME IInv, NEW a \in Stoppers, Terminate(a)
    PROVE  IInv'
<1>1. /\ pc' \in [Actors -> PcValues] /\ pc[a] = "stop" /\ pc'[a] \in {"wait", "left"}
      /\ \A w \in Actors \ {a} : pc'[w] = pc[w]
  BY ActorFacts DEF IInv, TypeOK, Terminate, Go, PcValues, Over, Running
<1>2. a[2] \in Jobs /\ a \in Actors /\ a[1] \in {"canceller", "sweeper"}
  BY ActorFacts
<1>3. /\ \A j \in Jobs : child'[j] = child[j]
         \/ (j = a[2] /\ child[j] = "live" /\ child'[j] = "gone")
      /\ pc'[a] = "wait" /\ targets[a].claudePid => child'[a[2]] # "live"
      /\ child' \in [Jobs -> {"none", "live", "gone"}]
  BY <1>2 DEF IInv, TypeOK, Terminate, Go, procVars
<1>4. op' \in {op, None} /\ (op' # None => pc'[op.by] = pc[op.by])
  BY <1>1, <1>2, <1>3, ActorFacts DEF IInv, TypeOK, Ops, OpIsItsActors, Writes, Terminate
<1>5. \A j \in Jobs : pc'[Worker(j)] \in Running => pc[Worker(j)] \in Running
  BY <1>1, <1>2, <1>3, ActorFacts DEF Running, Over
<1>6. \A j \in Jobs : pc[Worker(j)] # "off" => pc'[Worker(j)] # "off"
  BY <1>1, <1>2, <1>3, ActorFacts DEF Over
<1>7. TypeOK'
  BY <1>1, <1>2, <1>3, <1>4, <1>5, <1>6, ActorFacts, RecordFacts
     DEF IInv, TypeOK, Terminate, Indexed, ledger, procVars, stopVars, history, budget
<1>8. OpenRow' /\ OpAgrees' /\ TerminalIsBare' /\ Together' /\ WinnerHasRow' /\ OneWinner'
  BY <1>6, LedgerKept DEF IInv, TypeOK, Terminate, budget
<1>9. OpIsItsActors'
  BY <1>4, OpKept
<1>10. Untouched'
  BY <1>1, <1>2, <1>3, <1>4, <1>5, <1>6, ActorFacts, RecordFacts
     DEF IInv, Untouched, Terminate, ledger, procVars, stopVars, history, budget
<1>11. SweepFirst'
  BY <1>1, <1>2, <1>3, <1>4, <1>5, <1>6, ActorFacts, RecordFacts
     DEF IInv, SweepFirst, procVars, stopVars, history, budget
<1>12. SpawnFirst'
  BY <1>1, <1>2, <1>3, <1>4, <1>5, <1>6, ActorFacts, RecordFacts
     DEF IInv, SpawnFirst, procVars, stopVars, history, budget
<1>13. RunIsRecorded'
  BY <1>4, <1>5, RunKept DEF Terminate
<1>14. ProcsExist'
  BY <1>3, <1>6, ProcsKept DEF Terminate
<1>15. LiveChild'
  BY <1>1, <1>2, <1>3, <1>4, <1>5, <1>6, ActorFacts, RecordFacts
     DEF IInv, LiveChild, procVars, stopVars, history, budget
<1>16. StopIsDone'
  <2>1. \A w \in Stoppers : w[2] \in Jobs /\ Worker(w[2]) \in Actors \ {a} /\ w \in Actors
    BY <1>2, ActorFacts
  <2>2. \A w \in Stoppers : targets[w].claudePid => child[w[2]] # "none"
    BY DEF IInv, ProcsExist, Exist
  <2>3. UNCHANGED <<targets, winners, forgotten>>
    BY DEF Terminate, stopVars, history
  <2>4. ASSUME NEW w \in Stoppers, targets[w].claudePid, w \in winners[w[2]],
               pc'[w] \in {"wait", "stopped"}
        PROVE  child'[w[2]] = "gone"
    <3>1. CASE w = a
      BY <1>1, <1>3, <2>1, <2>2, <2>4, <3>1
    <3>2. CASE w # a
      BY <1>1, <1>3, <2>1, <2>4, <3>2 DEF IInv, StopIsDone
    <3> QED
      BY <3>1, <3>2
  <2> QED
    BY <1>1, <2>1, <2>3, <2>4 DEF IInv, StopIsDone
<1>17. OpStops'
  BY <1>1, <1>2, <1>3, <1>4, <1>5, <1>6, ActorFacts, RecordFacts
     DEF IInv, OpIsItsActors, OpStops, Terminate, procVars, stopVars, history, budget
<1> QED
  BY <1>7, <1>8, <1>9, <1>10, <1>11, <1>12, <1>13, <1>14, <1>15, <1>16, <1>17 DEF IInv

\* And kills those that were not gone in time.
LEMMA HardKillStep ==
    ASSUME IInv, NEW a \in Stoppers, HardKill(a)
    PROVE  IInv'
<1>1. a[2] \in Jobs /\ a \in Actors /\ Worker(a[2]) \in Actors /\ pc[a] = "wait"
      /\ pc[Worker(a[2])] \notin Over \cup {"off"}
  BY ActorFacts DEF IInv, ProcsExist, Exist, HardKill
<1>2. /\ pc' \in [Actors -> PcValues] /\ pc'[Worker(a[2])] = "killed"
      /\ \A w \in Actors \ {Worker(a[2])} : pc'[w] = pc[w]
  BY <1>1 DEF IInv, TypeOK, HardKill, Go, PcValues, Over
<1>3. \/ op' = None \/ (op' = op /\ op # None /\ op.by # Worker(a[2]))
  BY DEF HardKill, Locked
<1>4. op' \in {op, None} /\ (op' # None => pc'[op.by] = pc[op.by])
  BY <1>1, <1>2, <1>3, ActorFacts DEF IInv, TypeOK, Ops
<1>5. \A j \in Jobs : pc'[Worker(j)] \in Running => pc[Worker(j)] \in Running
  BY <1>1, <1>2, <1>3, ActorFacts DEF Running, Over
<1>6. \A j \in Jobs : pc[Worker(j)] # "off" => pc'[Worker(j)] # "off"
  BY <1>1, <1>2, <1>3, ActorFacts DEF Over
<1>7. TypeOK'
  BY <1>1, <1>2, <1>3, <1>4, <1>5, <1>6, ActorFacts, RecordFacts
     DEF IInv, TypeOK, HardKill, Indexed, ledger, procVars, stopVars, history, budget
<1>8. OpenRow' /\ OpAgrees' /\ TerminalIsBare' /\ Together' /\ WinnerHasRow' /\ OneWinner'
  BY <1>6, LedgerKept DEF IInv, TypeOK, HardKill, budget
<1>9. OpIsItsActors'
  BY <1>4, OpKept
<1>10. Untouched'
  BY <1>1, <1>2, <1>3, <1>4, <1>5, <1>6, ActorFacts, RecordFacts
     DEF IInv, Untouched, HardKill, ledger, procVars, stopVars, history, budget
<1>11. SweepFirst'
  BY <1>1, <1>2, <1>3, <1>4, <1>5, <1>6, ActorFacts, RecordFacts
     DEF IInv, SweepFirst, procVars, stopVars, history, budget
<1>12. SpawnFirst'
  BY <1>1, <1>2, <1>3, <1>4, <1>5, <1>6, ActorFacts, RecordFacts
     DEF IInv, SpawnFirst, procVars, stopVars, history, budget
<1>13. RunIsRecorded'
  BY <1>4, <1>5, RunKept DEF HardKill
<1>14. ProcsExist'
  BY <1>6, ProcsKept DEF HardKill, procVars
<1>15. LiveChild'
  BY <1>1, <1>2, <1>3, <1>4, <1>5, <1>6, ActorFacts, RecordFacts
     DEF IInv, LiveChild, HardKill, procVars, stopVars, history, budget
<1>16. StopIsDone'
  BY <1>1, <1>2, <1>3, <1>4, <1>5, <1>6, ActorFacts, RecordFacts
     DEF IInv, StopIsDone, HardKill, procVars, stopVars, history, budget
<1>17. OpStops'
  BY <1>1, <1>2, <1>3, <1>4, <1>5, <1>6, ActorFacts, RecordFacts
     DEF IInv, OpIsItsActors, OpStops, HardKill, procVars, stopVars, history, budget
<1> QED
  BY <1>7, <1>8, <1>9, <1>10, <1>11, <1>12, <1>13, <1>14, <1>15, <1>16, <1>17 DEF IInv

\* And is done when what it knows of is gone.
LEMMA StopEndsStep ==
    ASSUME IInv, NEW a \in Stoppers, StopEnds(a)
    PROVE  IInv'
<1>1. TypeOK'
  BY ActorFacts, RecordFacts
     DEF IInv, TypeOK, StopEnds, Go, PcValues, Indexed, ledger, procVars, stopVars, history, budget
<1>2. OpenRow' /\ OpAgrees' /\ TerminalIsBare' /\ Together' /\ WinnerHasRow' /\ OneWinner'
  BY LedgerKept DEF IInv, TypeOK, StopEnds, budget
<1>3. OpIsItsActors'
  BY ActorFacts, RecordFacts
     DEF IInv, OpIsItsActors, Writes, StopEnds, Go, procVars, stopVars, history, budget
<1>4. Untouched'
  BY ActorFacts, RecordFacts
     DEF IInv, Untouched, StopEnds, Go, Running, ledger, procVars, stopVars, history, budget
<1>5. SweepFirst'
  BY ActorFacts, RecordFacts
     DEF IInv, SweepFirst, StopEnds, Go, ledger, procVars, stopVars, history, budget
<1>6. SpawnFirst'
  BY ActorFacts, RecordFacts
     DEF IInv, SpawnFirst, StopEnds, Go, ledger, procVars, stopVars, history, budget
<1>7. RunIsRecorded'
  BY ActorFacts, RecordFacts
     DEF IInv, RunIsRecorded, StopEnds, Go, Running, ledger, procVars, stopVars, history, budget
<1>8. ProcsExist'
  BY ActorFacts, RecordFacts
     DEF IInv, ProcsExist, Exist, StopEnds, Go, Running, ledger, procVars, stopVars, history, budget
<1>9. LiveChild'
  BY ActorFacts, RecordFacts
     DEF IInv, LiveChild, StopEnds, Go, ledger, procVars, stopVars, history, budget
<1>10. StopIsDone'
  BY ActorFacts, RecordFacts
     DEF IInv, StopIsDone, StopEnds, Go, ledger, procVars, stopVars, history, budget
<1>11. OpStops'
  BY ActorFacts, RecordFacts
     DEF IInv, OpStops, StopEnds, Go, Running, ledger, procVars, stopVars, history, budget
<1> QED
  BY <1>1, <1>2, <1>3, <1>4, <1>5, <1>6, <1>7, <1>8, <1>9, <1>10, <1>11 DEF IInv

\* A process is killed from outside.
LEMMA CrashStep ==
    ASSUME IInv, NEW a \in Actors, Crash(a)
    PROVE  IInv'
<1>1. /\ pc' \in [Actors -> PcValues] /\ pc'[a] = "killed"
      /\ pc[a] \notin Over \cup {"off", "new", "pick", "stopped", "left"}
      /\ \A w \in Actors \ {a} : pc'[w] = pc[w]
  BY DEF IInv, TypeOK, Crash, Go, PcValues, Over
<1>2. \/ op' = None \/ (op' = op /\ op # None /\ op.by # a)
  BY DEF Crash, Locked
<1>3. \A w \in Actors : pc'[w] = pc[w] \/ (pc[w] # "stopped" /\ pc'[w] = "killed")
  BY <1>1
<1>4. faults' = faults /\ crashes' \in Nat /\ faults' + crashes' <= MaxFailures
  BY BoundsAssumption DEF IInv, TypeOK, Crash, MayFail
<1>5. op' \in {op, None} /\ (op' # None => pc'[op.by] = pc[op.by])
  BY <1>1, <1>2, <1>3, <1>4, ActorFacts DEF IInv, TypeOK, Ops
<1>6. \A j \in Jobs : pc'[Worker(j)] \in Running => pc[Worker(j)] \in Running
  BY <1>3, ActorFacts DEF Running
<1>7. \A j \in Jobs : pc[Worker(j)] # "off" => pc'[Worker(j)] # "off"
  BY <1>1, <1>2, <1>3, <1>4, ActorFacts DEF Over
<1>8. TypeOK'
  BY <1>1, <1>2, <1>3, <1>4, <1>5, <1>6, <1>7, ActorFacts, RecordFacts
     DEF IInv, TypeOK, Crash, Indexed, ledger, procVars, stopVars, history, budget
<1>9. OpenRow' /\ OpAgrees' /\ TerminalIsBare' /\ Together' /\ WinnerHasRow' /\ OneWinner'
  BY <1>6, <1>7, LedgerKept DEF IInv, TypeOK, Crash, budget
<1>10. OpIsItsActors'
  BY <1>5, OpKept
<1>11. Untouched'
  BY <1>1, <1>2, <1>3, <1>4, <1>5, <1>6, <1>7, ActorFacts, RecordFacts
     DEF IInv, Untouched, Crash, Over, ledger, procVars, stopVars, history, budget
<1>12. SweepFirst'
  BY <1>1, <1>2, <1>3, <1>4, <1>5, <1>6, <1>7, ActorFacts, RecordFacts
     DEF IInv, SweepFirst, procVars, stopVars, history, budget
<1>13. SpawnFirst'
  BY <1>1, <1>2, <1>3, <1>4, <1>5, <1>6, <1>7, ActorFacts, RecordFacts
     DEF IInv, SpawnFirst, procVars, stopVars, history, budget
<1>14. RunIsRecorded'
  BY <1>5, <1>6, RunKept DEF Crash
<1>15. ProcsExist'
  BY <1>5, <1>7, ProcsKept DEF Crash, procVars
<1>16. LiveChild'
  BY <1>1, <1>2, <1>3, <1>4, <1>5, <1>6, <1>7, ActorFacts, RecordFacts
     DEF IInv, LiveChild, Crash, procVars, stopVars, history, budget
<1>17. StopIsDone'
  BY <1>1, <1>3, ActorFacts DEF IInv, StopIsDone, Running, Crash, procVars, stopVars, history
<1>18. OpStops'
  BY <1>1, <1>2, <1>3, <1>4, <1>5, <1>6, <1>7, ActorFacts, RecordFacts
     DEF IInv, OpIsItsActors, OpStops, Crash, procVars, stopVars, history, budget
<1> QED
  BY <1>8, <1>9, <1>10, <1>11, <1>12, <1>13, <1>14, <1>15, <1>16, <1>17, <1>18 DEF IInv

\* Only its launcher writes of a job that is not queued yet (the sweep's
\* removal names a job but writes no record of it).
LEMMA QuietJob ==
    ASSUME IInv, op # None, NEW j \in Background, pc[Launcher(j)] \in {"new", "upsert"},
           op.by # Launcher(j)
    PROVE  /\ op.by # Worker(j)
           /\ op.job # j \/ (op.row = None /\ op.file = None)
<1>1. op.by \in Actors /\ j \in Jobs
  BY ActorFacts DEF IInv, TypeOK, Ops
<1>2. /\ pc[Worker(j)] = "off"
      /\ \A a \in Stoppers : a[2] = j => pc[a] \in {"pick", "end"}
      /\ Writes(op.by, pc[op.by])
      /\ op.by = Sweep => op.row = None /\ op.file = None
      /\ op.by # Sweep => op.by[2] = op.job
  BY DEF IInv, Untouched, OpIsItsActors
<1>3. op.by # Worker(j) /\ (op.by \in Stoppers => op.by[2] # j)
  BY <1>1, <1>2, ActorFacts DEF Writes
<1>4. op.by[2] = j => op.by \in Stoppers \cup {Launcher(j), Worker(j), Sweep}
  BY <1>1, ActorFacts
<1> QED
  BY <1>2, <1>3, <1>4

\* The launcher writes the job file of a queued job.
LEMMA SaveQueuedStep ==
    ASSUME IInv, NEW j \in Background, SaveQueued(j)
    PROVE  IInv'
<1>1. /\ j \in Jobs /\ pc[Launcher(j)] = "new" /\ rows[j] = None /\ pc[Worker(j)] = "off"
      /\ \A a \in Stoppers : a[2] = j => pc[a] \in {"pick", "end"}
  BY ActorFacts DEF IInv, Untouched, SaveQueued
<1>2. /\ pc' \in [Actors -> PcValues] /\ pc'[Launcher(j)] \in {"upsert", "end"}
      /\ \A w \in Actors \ {Launcher(j)} : pc'[w] = pc[w]
  <2>1. Launcher(j) \in Actors /\ pc \in [Actors -> PcValues]
    BY ActorFacts DEF IInv, TypeOK
  <2>2. \E at \in {"upsert", "end"} : pc' = [pc EXCEPT ![Launcher(j)] = at]
    BY DEF SaveQueued, Go
  <2> QED
    BY <2>1, <2>2 DEF PcValues, Over
<1>3. /\ faults' \in Nat /\ crashes' = crashes /\ faults' + crashes' <= MaxFailures
         /\ faults' >= faults
  BY BoundsAssumption DEF IInv, TypeOK, SaveQueued, Fault, MayFail, budget
<1>4. /\ file' = file \/ file' = [file EXCEPT ![j] = QueuedRec]
      /\ file' \in [Jobs -> Records \cup {None}]
  BY RecordFacts DEF IInv, TypeOK, SaveQueued
<1>5. UNCHANGED <<rows, newer, op, procVars, stopVars, history>>
  BY DEF SaveQueued
<1>6. op # None => op.by # Launcher(j)
  BY <1>1, ActorFacts DEF IInv, OpIsItsActors, Writes
<1>7. op # None => op.by # Worker(j) /\ (op.job # j \/ (op.row = None /\ op.file = None))
  BY <1>1, <1>6, QuietJob
<1>8. /\ op # None => op.by \in Actors /\ op.job \in Jobs
      /\ \A a \in Stoppers : a \in Actors \ {Launcher(j)} /\ a[2] \in Jobs
      /\ \A k \in Jobs : Worker(k) \in Actors \ {Launcher(j)}
  BY <1>1, ActorFacts DEF IInv, TypeOK, Ops
<1>9. TypeOK'
  BY <1>2, <1>3, <1>4, <1>5 DEF IInv, TypeOK, Indexed, procVars, stopVars, history
<1>10. OpIsItsActors'
  BY <1>2, <1>5, <1>6, <1>8 DEF IInv, OpIsItsActors
<1>11. OpenRow' /\ OpStops'
  BY <1>2, <1>5, <1>8 DEF IInv, OpenRow, OpStops, history
<1>12. OpAgrees'
  BY <1>3, <1>4, <1>5, <1>7, <1>8, RecordFacts DEF IInv, TypeOK, OpAgrees
<1>13. TerminalIsBare' /\ Together'
  BY <1>1, <1>3, <1>4, <1>5, RecordFacts DEF IInv, TypeOK, TerminalIsBare, Bare, Together
<1>14. WinnerHasRow' /\ OneWinner'
  BY <1>5 DEF IInv, WinnerHasRow, OneWinner, history
<1>15. Untouched' /\ SweepFirst' /\ SpawnFirst'
  BY <1>1, <1>2, <1>5, ActorFacts DEF IInv, Untouched, SweepFirst, SpawnFirst
<1>16. RunIsRecorded'
  BY <1>1, <1>2, <1>4, <1>5, <1>6, <1>8, RecordFacts DEF IInv, RunIsRecorded, Running, history
<1>17. ProcsExist'
  BY <1>2, <1>4, <1>5, <1>8, RecordFacts DEF IInv, ProcsExist, Exist, procVars, stopVars
<1>18. LiveChild'
  BY <1>2, <1>5, <1>8 DEF IInv, LiveChild, procVars
<1>19. StopIsDone'
  BY <1>2, <1>5, <1>8 DEF IInv, StopIsDone, procVars, stopVars, history
<1> QED
  BY <1>9, <1>10, <1>11, <1>12, <1>13, <1>14, <1>15, <1>16, <1>17, <1>18, <1>19 DEF IInv

\* The launcher writes the row of a queued job.
LEMMA UpsertStep ==
    ASSUME IInv, NEW j \in Background, Upsert(j)
    PROVE  IInv'
<1>1. /\ j \in Jobs /\ pc[Launcher(j)] = "upsert" /\ rows[j] = None /\ pc[Worker(j)] = "off"
      /\ Launcher(j) \in Actors \ (Stoppers \cup {Sweep}) /\ Launcher(j)[1] = "launcher"
         /\ Launcher(j)[2] = j
  BY ActorFacts DEF IInv, Untouched, Upsert
<1>2. op = None /\ UNCHANGED <<ledger, pc, procVars, stopVars, history, budget>>
  BY DEF Upsert, Locked
<1>3. op' = [Op(Launcher(j), j) EXCEPT !.row = QueuedRec, !.next = "spawn", !.step = "index"]
  BY DEF Upsert, Begins, Op
<1>4. /\ op' \in Ops /\ op'.by = Launcher(j) /\ op'.job = j /\ op'.row = QueuedRec
         /\ op'.file = None
      /\ op'.step = "index" /\ op'.next = "spawn" /\ op'.onError = "end"
      /\ ~op'.wins /\ ~op'.failed /\ op'.procs = NoProcs
  BY <1>1, <1>3, RecordFacts DEF Op, Ops, NoProcs, Procs, PcValues, Over
<1>5. OpIsItsActors'
  BY <1>1, <1>2, <1>4 DEF OpIsItsActors, Writes, Ends, Running
<1>6. OpenRow' /\ OpAgrees' /\ TerminalIsBare' /\ OpStops'
  BY <1>1, <1>2, <1>4, RecordFacts
     DEF IInv, OpenRow, OpAgrees, TerminalIsBare, Bare, OpStops, ledger
<1>7. RunIsRecorded'
  BY <1>1, <1>2, <1>4, RecordFacts DEF IInv, RunIsRecorded, Running, ledger, history
<1>8. ProcsExist'
  BY <1>2, <1>4, RecordFacts DEF IInv, ProcsExist, Exist, NoProcs, ledger, procVars, stopVars
<1>9. faults' \in Nat /\ crashes' \in Nat /\ faults' + crashes' <= MaxFailures /\ faults' = faults
  BY <1>2 DEF IInv, TypeOK, budget
<1> QED
  BY <1>2, <1>4, <1>5, <1>6, <1>7, <1>8, <1>9, WriteBegins DEF IInv

\* The session's end removes the rows of its jobs.
LEMMA RemoveRowsStep ==
    ASSUME IInv, RemoveRows
    PROVE  IInv'
<1> DEFINE gone == {j \in Session : pc[Sweeper(j)] = "stopped" /\ rows[j] # None}
<1>1. /\ op = None /\ pc[Sweep] = "settle"
      /\ UNCHANGED <<ledger, procVars, stopVars, history, budget>>
      /\ \/ Go(Sweep, "end") /\ UNCHANGED op
         \/ /\ gone # {} /\ UNCHANGED pc
            /\ Begins([Op(Sweep, CHOOSE j \in gone : TRUE) EXCEPT !.drop = gone])
  BY DEF RemoveRows, Locked
<1>2. faults' \in Nat /\ crashes' \in Nat /\ faults' + crashes' <= MaxFailures /\ faults' = faults
  BY <1>1 DEF IInv, TypeOK, budget
<1>3. Sweep \in Actors \ Stoppers /\ Sweep[1] = "sweep" /\ Writes(Sweep, pc[Sweep])
  BY <1>1, ActorFacts DEF Writes
<1>4. CASE Go(Sweep, "end") /\ UNCHANGED op
  BY <1>1, <1>2, <1>3, <1>4, CallReturns
<1>5. CASE /\ gone # {} /\ UNCHANGED pc
           /\ Begins([Op(Sweep, CHOOSE j \in gone : TRUE) EXCEPT !.drop = gone])
  <2> DEFINE j == CHOOSE k \in gone : TRUE
  <2>1. j \in Jobs /\ gone \subseteq Jobs
    BY <1>5, ActorFacts
  <2> HIDE DEF j, gone
  <2>2. op' = [Op(Sweep, j) EXCEPT !.drop = gone, !.step = "index"]
    BY <1>5 DEF Begins, Op, j
  <2>3. /\ op' \in Ops /\ op'.by = Sweep /\ op'.row = None /\ op'.file = None
        /\ op'.step = "index" /\ op'.next = "end" /\ op'.onError = "end"
        /\ ~op'.wins /\ ~op'.failed /\ op'.procs = NoProcs
    BY <1>3, <2>1, <2>2 DEF Op, Ops, NoProcs, Procs, PcValues, Over
  <2>4. OpIsItsActors' /\ OpenRow' /\ OpStops'
    BY <1>1, <1>3, <2>3 DEF OpIsItsActors, OpenRow, OpStops, Ends, Running
  <2>5. OpAgrees' /\ TerminalIsBare'
    BY <1>1, <2>3, RecordFacts DEF IInv, OpAgrees, TerminalIsBare, Bare, ledger
  <2>6. RunIsRecorded'
    BY <1>1, <2>3, RecordFacts DEF IInv, RunIsRecorded, Names, ledger, history
  <2>7. ProcsExist'
    BY <1>1, <1>5, <2>3 DEF IInv, ProcsExist, Exist, NoProcs, ledger, procVars, stopVars
  <2> QED
    BY <1>1, <1>2, <1>5, <2>3, <2>4, <2>5, <2>6, <2>7, WriteBegins DEF IInv
<1> QED
  BY <1>1, <1>4, <1>5

-----------------------------------------------------------------------------

\* What the ledger may become when the write in progress ends: a row is what
\* it was, what its file tells, the row written, or gone; a file is what it
\* was or gone; what was there goes, and an outcome too, only with a job that
\* is then forgotten; and when the call returns, what it wrote is there.
Moves(ok) ==
    /\ \A j \in Jobs : /\ rows'[j] \in {rows[j], file[j], None}
                                     \cup (IF j \in Written THEN {op.row} ELSE {})
                       /\ file'[j] \in {file[j], None}
                       /\ rows[j] = None /\ j \notin Written => rows'[j] = None
                       /\ rows[j] # None /\ file[j] # None /\ j \notin forgotten' =>
                             rows'[j] # None /\ file'[j] # None
                       /\ IsTerminal(rows[j]) => IsTerminal(rows'[j]) \/ j \in forgotten'
                       /\ IsTerminal(rows[j]) /\ IsTerminal(file'[j]) => IsTerminal(rows'[j])
                       /\ ok /\ j \in Written => rows'[j] = op.row /\ file'[j] = file[j]
    /\ rows' = [j \in Jobs |-> rows'[j]]
    /\ file' = [j \in Jobs |-> file'[j]]
    /\ newer' \subseteq Indexed' \X Indexed'
    /\ forgotten \subseteq forgotten' /\ forgotten' \subseteq Jobs
    /\ ok /\ op.failed => ~IsActive(op.row)
    /\ faults' \in Nat /\ crashes' \in Nat /\ faults' + crashes' <= MaxFailures
    /\ faults' >= faults /\ crashes' >= crashes /\ (~ok => faults' # 0)
    /\ Together'

\* A write that is over returns to its caller.
LEMMA ReturnStep ==
    ASSUME IInv, op # None, NEW ok \in BOOLEAN, ok => op.step = "index",
           Return(ok), Moves(ok), UNCHANGED <<seen, procVars>>
    PROVE  IInv'
<1>1. /\ op \in Ops /\ op.by \in Actors /\ op.job \in Jobs /\ op.procs \in Procs
      /\ op.row \in Records \cup {None} /\ op.file \in Records \cup {None}
      /\ op.wins \in BOOLEAN /\ op.next \in PcValues /\ op.onError \in PcValues
  BY DEF IInv, TypeOK, Ops
<1>2. /\ \A a \in Stoppers : a \in Actors /\ a[2] \in Jobs /\ a # Sweep
         /\ Worker(a[2]) \in Actors \ Stoppers
      /\ \A j \in Jobs : Worker(j) \in Actors
  BY ActorFacts
<1>3. /\ pc' \in [Actors -> PcValues] /\ \A w \in Actors \ {op.by} : pc'[w] = pc[w]
      /\ pc'[op.by] = IF ok THEN op.next ELSE op.onError
      /\ op' = None
  BY <1>1 DEF IInv, TypeOK, Return, Go
<1>4. /\ Writes(op.by, pc[op.by])
      /\ op.by = Sweep => op.row = None /\ op.file = None
      /\ op.by # Sweep => op.by[2] = op.job
      /\ pc'[op.by] \in Ends \cup Running \cup {"spawn"}
      /\ pc'[op.by] \in Running => op.by = Worker(op.job) /\ pc[op.by] \in {"begin", "run"}
      /\ pc'[op.by] \in Running /\ pc[op.by] = "begin" => ok /\ op.next \in Running
      /\ pc[op.by] = "run" => pc'[op.by] \in Running
      /\ pc'[op.by] = "spawn" => op.by = Launcher(op.job) /\ pc[op.by] = "upsert"
      /\ op.wins => IsTerminal(op.row)
      /\ op.wins /\ op.by \in Stoppers => op.next = "stop"
  BY <1>3 DEF IInv, OpIsItsActors, Ends, Running
<1>5. /\ rows' \in [Jobs -> Records \cup {None}] /\ file' \in [Jobs -> Records \cup {None}]
  BY <1>1 DEF IInv, TypeOK, Moves, Written
<1>6. op.row # None => Written = {op.job}
  BY DEF Written
<1>7. /\ targets' \in [Stoppers -> Procs]
      /\ \A a \in Stoppers \ {op.by} : targets'[a] = targets[a]
      /\ op.by \in Stoppers => targets'[op.by] = IF ok THEN op.procs ELSE Snapshot(op.by)
  BY <1>1 DEF IInv, TypeOK, Return, Snapshot, RecordedProcesses, Procs
<1>8. /\ winners' \in [Jobs -> SUBSET Actors]
      /\ \A j \in Jobs : winners'[j] = IF ok /\ op.wins /\ j = op.job THEN winners[j] \cup {op.by}
         ELSE winners[j]
  BY <1>1 DEF IInv, TypeOK, Return
<1>9. op.wins => winners[op.job] = {} \/ op.job \in forgotten
  BY <1>1, <1>4, RecordFacts DEF IInv, WinnerHasRow, OpenRow
<1>10. TypeOK'
  BY <1>3, <1>5, <1>7, <1>8 DEF IInv, TypeOK, Moves, procVars
<1>11. OpIsItsActors' /\ OpenRow' /\ OpAgrees' /\ OpStops' /\ Together'
  BY <1>3 DEF OpIsItsActors, OpenRow, OpAgrees, OpStops, Moves
<1>12. TerminalIsBare'
  BY <1>3, RecordFacts DEF IInv, TerminalIsBare, Bare, Moves
<1>13. WinnerHasRow'
  BY <1>4, <1>6, <1>8, RecordFacts DEF IInv, WinnerHasRow, Moves
<1>14. OneWinner'
  <2>1. Cardinality({op.by}) = 1
    BY FS_Singleton
  <2>2. ASSUME NEW j \in Jobs
        PROVE  Cardinality(winners'[j]) <= 1 \/ j \in forgotten'
    <3>1. CASE winners'[j] = winners[j]
      BY <3>1 DEF IInv, OneWinner, Moves
    <3>2. CASE winners[j] = {} /\ winners'[j] = {op.by}
      BY <2>1, <3>2
    <3>3. CASE j \in forgotten
      BY <3>3 DEF Moves
    <3> QED
      BY <1>8, <1>9, <3>1, <3>2, <3>3
  <2> QED
    BY <2>2 DEF OneWinner
<1>15. Untouched'
  <2>1. ASSUME NEW j \in Background, pc'[Launcher(j)] \in {"new", "upsert"}
        PROVE  /\ rows'[j] = None /\ pc'[Worker(j)] = "off"
               /\ \A a \in Stoppers : a[2] = j => pc'[a] \in {"pick", "end"}
    <3>1. j \in Jobs /\ Launcher(j) \in Actors
      BY ActorFacts
    <3>2. op.by # Launcher(j) /\ pc[Launcher(j)] \in {"new", "upsert"}
      BY <1>3, <1>4, <2>1, <3>1 DEF Ends, Running
    <3>3. op.by # Worker(j) /\ j \notin Written
      BY <3>2, QuietJob DEF Written
    <3>4. rows[j] = None /\ pc[Worker(j)] = "off" /\ \A a \in Stoppers : a[2] = j
          => pc[a] \in {"pick", "end"}
      BY <3>2 DEF IInv, Untouched
    <3>5. \A a \in Stoppers : a[2] = j => a # op.by
      BY <1>4, <3>4, ActorFacts DEF Writes
    <3> QED
      BY <1>2, <1>3, <3>1, <3>3, <3>4, <3>5 DEF Moves
  <2> QED
    BY <2>1 DEF Untouched
<1>16. SweepFirst'
  BY <1>3, <1>4, ActorFacts DEF IInv, SweepFirst, Writes, Ends
<1>17. SpawnFirst'
  <2>1. ASSUME NEW j \in Background
        PROVE  /\ pc'[Launcher(j)] \in {"spawn", "failSpawn"} => pc'[Worker(j)] = "off"
               /\ pc'[Launcher(j)] = "note" => pc'[Worker(j)] # "off"
    <3>1. j \in Jobs /\ Launcher(j) \in Actors /\ Worker(j) \in Actors /\ Worker(j) # Launcher(j)
          /\ Worker(j)[1] = "worker"
      BY ActorFacts
    <3>2. CASE pc'[Launcher(j)] \in {"spawn", "failSpawn"}
      <4>1. pc[Worker(j)] = "off"
        BY <1>3, <1>4, <3>1, <3>2 DEF IInv, SpawnFirst, Untouched, Ends, Running
      <4>2. op.by # Worker(j)
        BY <1>4, <3>1, <4>1 DEF Writes
      <4> QED
        BY <1>3, <3>1, <3>2, <4>1, <4>2
    <3>3. CASE pc'[Launcher(j)] = "note"
      <4>1. pc[Launcher(j)] = "note"
        BY <1>3, <1>4, <3>1, <3>3 DEF Ends, Running
      <4>2. pc'[Worker(j)] # "off"
        BY <1>3, <1>4, <3>1, <4>1 DEF IInv, SpawnFirst, Ends, Running
      <4> QED
        BY <3>3, <4>2
    <3> QED
      BY <3>2, <3>3
  <2> QED
    BY <2>1 DEF SpawnFirst
<1>18. ASSUME NEW j \in Jobs, pc'[Worker(j)] \in Running
       PROVE  \/ pc[Worker(j)] \in Running
              \/ op.by = Worker(j) /\ op.job = j /\ pc[op.by] = "begin" /\ ok /\ op.next \in Running
  BY <1>2, <1>3, <1>4, <1>18, ActorFacts DEF Running
<1>19. RunIsRecorded'
  <2>1. ASSUME NEW j \in Jobs, pc'[Worker(j)] \in Running
        PROVE  /\ Names(rows'[j]) /\ Names(file'[j])
               /\ j \notin forgotten' => rows'[j] # None /\ file'[j] # None
    <3>1. CASE pc[Worker(j)] \in Running
      BY <1>6, <3>1, RecordFacts DEF IInv, RunIsRecorded, Names, Moves
    <3>2. CASE op.by = Worker(j) /\ op.job = j /\ pc[op.by] = "begin" /\ ok /\ op.next \in Running
      <4>1. op.file # None /\ IsActive(op.row) /\ Names(op.row) /\ Names(op.file)
        BY <3>2 DEF IInv, RunIsRecorded
      <4>2. j \in Written /\ ~op.failed /\ op.step = "index"
        BY <3>2, <4>1, RecordFacts DEF Written, Moves
      <4>3. file[j] = op.file
        BY <3>2, <4>1, <4>2 DEF IInv, OpAgrees
      <4> QED
        BY <3>2, <4>1, <4>2, <4>3, RecordFacts DEF Moves
    <3> QED
      BY <1>18, <2>1, <3>1, <3>2
  <2> QED
    BY <1>3, <2>1 DEF RunIsRecorded
<1>20. \A w \in Actors : pc[w] # "off" => pc'[w] # "off"
  BY <1>3, <1>4 DEF Ends, Running
<1>21. ProcsExist'
  <2>1. \A j \in Jobs : \A r : Exist(j, r) => Exist(j, r)'
    BY <1>2, <1>20 DEF Exist, procVars
  <2>2. \A j \in Jobs : \A r \in {rows'[j], file'[j]} \ {None} : Exist(j, r)
    BY <1>1, <1>6 DEF IInv, ProcsExist, Moves, Written
  <2>3. \A a \in Stoppers : Exist(a[2], targets'[a]) /\ (seen[a] # None => Exist(a[2], seen[a]))
    <3>1. op.by \in Stoppers => Exist(op.job, op.procs) /\ op.job = op.by[2]
      BY <1>2, <1>4 DEF IInv, ProcsExist
    <3>2. op.by \in Stoppers => Exist(op.by[2], Snapshot(op.by))
      <4> SUFFICES ASSUME op.by \in Stoppers PROVE Exist(op.by[2], Snapshot(op.by))
        OBVIOUS
      <4>1. \A r \in {file[op.by[2]], seen[op.by]} \ {None} : Exist(op.by[2], r)
        BY <1>2 DEF IInv, ProcsExist
      <4> QED
        BY <4>1 DEF Snapshot, RecordedProcesses, Exist
    <3> QED
      BY <1>7, <3>1, <3>2 DEF IInv, ProcsExist
  <2> QED
    BY <1>2, <1>3, <2>1, <2>2, <2>3 DEF ProcsExist
<1>22. LiveChild'
  BY <1>3, <1>4, ActorFacts DEF IInv, LiveChild, Writes, Running, procVars
<1>23. StopIsDone'
  <2> SUFFICES ASSUME NEW a \in Stoppers, a \in winners'[a[2]]
               PROVE  /\ pc'[a] \in {"stop", "wait", "stopped", "left", "killed"}
                      /\ a[2] \notin forgotten' /\ pc'[Worker(a[2])] \in Running => targets'[a].pid
                      /\ targets'[a].claudePid /\ pc'[a] \in {"wait", "stopped"}
                         => child[a[2]] = "gone"
                      /\ targets'[a].pid /\ pc'[a] = "stopped" => pc'[Worker(a[2])] \in Over
    BY DEF StopIsDone, procVars
  <2>1. a[2] \in Jobs /\ a \in Actors /\ Worker(a[2]) \in Actors \ Stoppers
    BY <1>2
  <2>2. CASE a \in winners[a[2]]
    <3>1. /\ pc[a] \in {"stop", "wait", "stopped", "left", "killed"}
          /\ a[2] \notin forgotten /\ pc[Worker(a[2])] \in Running => targets[a].pid
          /\ targets[a].claudePid /\ pc[a] \in {"wait", "stopped"} => child[a[2]] = "gone"
          /\ targets[a].pid /\ pc[a] = "stopped" => pc[Worker(a[2])] \in Over
      BY <2>2 DEF IInv, StopIsDone
    <3>2. a # op.by
      BY <1>4, <3>1, ActorFacts DEF Writes
    <3>3. pc[Worker(a[2])] \in Over => op.by # Worker(a[2])
      BY <1>4, <2>1, ActorFacts DEF Writes, Over
    <3>4. op.by = Worker(a[2]) /\ pc[op.by] = "begin" /\ op.next \in Running => a[2] \in forgotten
      <4>1. ASSUME op.by = Worker(a[2]), pc[op.by] = "begin", op.next \in Running
            PROVE  op.row # None /\ op.job = a[2]
        BY <4>1, <1>4, ActorFacts, RecordFacts DEF IInv, RunIsRecorded
      <4> QED
        BY <2>1, <2>2, <4>1 DEF IInv, OpenRow, WinnerHasRow
    <3> QED
      BY <1>3, <1>7, <1>18, <2>1, <3>1, <3>2, <3>3, <3>4 DEF Moves
  <2>3. CASE a \notin winners[a[2]]
    <3>1. ok /\ op.wins /\ a = op.by /\ a[2] = op.job
      BY <1>8, <2>1, <2>3
    <3>2. pc'[a] = "stop" /\ targets'[a] = op.procs /\ pc'[Worker(a[2])] = pc[Worker(a[2])]
      BY <1>3, <1>4, <1>7, <2>1, <3>1
    <3>3. a[2] \notin forgotten /\ pc[Worker(a[2])] \in Running => op.procs.pid
      BY <3>1 DEF IInv, OpStops
    <3> QED
      BY <3>2, <3>3 DEF Moves
  <2> QED
    BY <2>2, <2>3
<1> QED
  BY <1>10, <1>11, <1>12, <1>13, <1>14, <1>15, <1>16, <1>17, <1>19, <1>21, <1>22, <1>23 DEF IInv

\* A write that fails altogether leaves the ledger as it is.
LEMMA FailedMoves ==
    ASSUME IInv, Fault, UNCHANGED <<rows, newer, file, forgotten>>
    PROVE  Moves(FALSE)
<1>1. /\ faults' \in Nat /\ crashes' \in Nat /\ faults' + crashes' <= MaxFailures
      /\ faults' # 0 /\ faults' >= faults /\ crashes' >= crashes
  BY BoundsAssumption DEF IInv, TypeOK, Fault, MayFail
<1>2. newer \subseteq Indexed' \X Indexed' /\ forgotten \subseteq Jobs
      /\ rows \in [Jobs -> Records \cup {None}] /\ file \in [Jobs -> Records \cup {None}]
  BY DEF IInv, TypeOK, Indexed
<1> QED
  BY <1>1, <1>2 DEF Moves, Together

\* The job file is written, or cannot be.
LEMMA WriteJobFileStep ==
    ASSUME IInv, WriteJobFile
    PROVE  IInv'
<1>1. /\ op # None /\ op.step = "file" /\ UNCHANGED <<rows, newer, seen, procVars, forgotten>>
      /\ op \in Ops /\ op.by \in Actors /\ op.job \in Jobs /\ op.file \in Records
      /\ op.row \in Records \cup {None}
  BY DEF IInv, TypeOK, Ops, OpIsItsActors, WriteJobFile, Locked
<1>2. CASE Fault /\ Return(FALSE) /\ UNCHANGED file
  <2>1. Moves(FALSE)
    BY <1>1, <1>2, FailedMoves
  <2> QED
    BY <1>1, <1>2, <2>1, ReturnStep
<1>3. CASE /\ \/ /\ file' = [file EXCEPT ![op.job] = op.file] /\ UNCHANGED budget
                 /\ op' = [op EXCEPT !.step = "index"]
              \/ /\ UNCHANGED file /\ Fault
                 /\ op' = [op EXCEPT !.step = "index", !.failed = TRUE]
           /\ UNCHANGED <<pc, targets, winners>>
  <2>1. /\ op' \in Ops /\ op'.by = op.by /\ op'.job = op.job /\ op'.file = op.file
           /\ op'.row = op.row
        /\ op'.step = "index" /\ op'.next = op.next /\ op'.onError = op.onError
        /\ op'.wins = op.wins /\ op'.procs = op.procs
        /\ op'.failed \/ (op'.failed = op.failed /\ file'[op.job] = op.file)
    BY <1>1, <1>3 DEF IInv, TypeOK, Ops
  <2>2. /\ file' \in [Jobs -> Records \cup {None}]
        /\ \A j \in Jobs : file'[j] = file[j]
           \/ (j = op.job /\ file'[j] = op.file /\ faults' = faults)
    BY <1>1, <1>3 DEF IInv, TypeOK, budget
  <2>3. /\ faults' \in Nat /\ crashes' \in Nat /\ faults' + crashes' <= MaxFailures
        /\ faults' >= faults
        /\ faults' > faults \/ op'.failed = op.failed
    BY <1>1, <1>3, BoundsAssumption DEF IInv, TypeOK, Ops, Fault, MayFail, budget
  <2>4. (op'.failed => faults' > 0) /\ UNCHANGED <<pc, targets, winners>>
    BY <1>1, <1>3, <2>3 DEF IInv, TypeOK, OpAgrees
  <2>5. op.row = None => IsTerminal(op.file) /\ op.file = rows[op.job]
    BY <1>1, RecordFacts DEF IInv, OpAgrees
  <2>6. TypeOK'
    BY <1>1, <2>1, <2>2, <2>3, <2>4 DEF IInv, TypeOK, Indexed, procVars
  <2>7. OpIsItsActors' /\ OpenRow' /\ OpStops'
    BY <1>1, <2>1, <2>4 DEF IInv, OpIsItsActors, OpenRow, OpStops
  <2>8. OpAgrees'
    BY <1>1, <2>1, <2>4, RecordFacts DEF IInv, OpAgrees
  <2>9. TerminalIsBare'
    BY <1>1, <2>1, <2>2 DEF IInv, TerminalIsBare, Bare
  <2>10. Together'
    BY <1>1, <2>2, <2>3, <2>5 DEF IInv, TypeOK, Together, OpenRow
  <2>11. WinnerHasRow' /\ OneWinner' /\ Untouched' /\ SweepFirst' /\ SpawnFirst' /\ LiveChild'
         /\ StopIsDone'
    BY <1>1, <2>4
       DEF IInv, WinnerHasRow, OneWinner, Untouched, SweepFirst, SpawnFirst, LiveChild, StopIsDone,
           procVars
  <2>12. RunIsRecorded'
    BY <1>1, <2>1, <2>2, <2>4, RecordFacts DEF IInv, RunIsRecorded
  <2>13. ProcsExist'
    BY <1>1, <2>1, <2>2, <2>4 DEF IInv, ProcsExist, Exist, procVars
  <2> QED
    BY <2>6, <2>7, <2>8, <2>9, <2>10, <2>11, <2>12, <2>13 DEF IInv
<1> QED
  BY <1>2, <1>3 DEF WriteJobFile

\* The index is written, merged and pruned, or cannot be.
LEMMA IndexMoves ==
    ASSUME IInv, SaveIndex
    PROVE  \E ok \in BOOLEAN : Return(ok) /\ Moves(ok)
<1>1. /\ op # None /\ op.step = "index" /\ UNCHANGED <<seen, procVars>>
      /\ op \in Ops /\ op.by \in Actors /\ op.job \in Jobs
      /\ op.file \in Records \cup {None} /\ op.row \in Records \cup {None}
  BY DEF IInv, TypeOK, Ops, SaveIndex, Locked
<1>2. /\ rows \in [Jobs -> Records \cup {None}] /\ file \in [Jobs -> Records \cup {None}]
      /\ newer \subseteq Indexed \X Indexed /\ forgotten \subseteq Jobs
      /\ faults \in Nat /\ crashes \in Nat /\ faults + crashes <= MaxFailures
      /\ Indexed \subseteq Jobs
  BY DEF IInv, TypeOK, Indexed
<1>3. /\ Leaving \subseteq Indexed /\ Leaving \cap Written = {} /\ PruneJobs \subseteq Indexed
         \cup Written
      /\ Written \subseteq PruneJobs /\ Written \subseteq {op.job}
      /\ op.job \in Written => op.row # None
      /\ \A j \in Jobs : j \in Leaving <=> rows[j] # None /\ j \notin PruneJobs
  BY <1>1 DEF Leaving, PruneJobs, Written, Others, Indexed
<1>4. CASE ~WritesIndex /\ Return(TRUE) /\ UNCHANGED <<ledger, forgotten, budget>>
  <2>1. op.row = None /\ Written = {} /\ ~IsActive(op.row)
    BY <1>4, RecordFacts DEF WritesIndex, Written
  <2>2. Moves(TRUE)
    BY <1>2, <1>4, <2>1 DEF IInv, OpenRow, Moves, Together, Indexed, ledger, budget
  <2> QED
    BY <1>4, <2>2
<1>5. CASE /\ Fault /\ DeleteFiles({}) /\ Forget(Deleted) /\ Return(FALSE)
           /\ UNCHANGED <<rows, newer>>
  <2>1. /\ faults' \in Nat /\ crashes' \in Nat /\ faults' + crashes' <= MaxFailures
        /\ faults' # 0 /\ faults' >= faults /\ crashes' >= crashes
    BY <1>2, <1>5, BoundsAssumption DEF Fault, MayFail
  <2>2. /\ Deleted \subseteq Jobs /\ forgotten' = forgotten \cup Deleted
        /\ file' = [j \in Jobs |-> IF j \in Deleted THEN None ELSE file[j]]
    BY <1>2, <1>3, <1>5 DEF DeleteFiles, Forget, Deleted
  <2>3. Moves(FALSE)
    BY <1>2, <1>5, <2>1, <2>2 DEF Moves, Together, Indexed
  <2> QED
    BY <1>5, <2>3
<1>6. ASSUME NEW unread \in SUBSET {j \in Leaving : file[j] # None},
             Cardinality(unread) + faults + crashes <= MaxFailures,
             faults' = faults + Cardinality(unread), UNCHANGED crashes,
             SaveState(unread), DeleteFiles(unread), Forget(Dropped(unread)),
             Return(~(op.failed /\ IsActive(op.row)))
      PROVE  \E ok \in BOOLEAN : Return(ok) /\ Moves(ok)
  <2> DEFINE ok == ~(op.failed /\ IsActive(op.row))
  <2>1. IsFiniteSet(unread)
    BY <1>2, <1>3, JobsAssumption, FS_Subset
  <2>2. Cardinality(unread) \in Nat /\ (Cardinality(unread) = 0 <=> unread = {})
    BY <2>1, FS_CardinalityType, FS_EmptySet
  <2>3. /\ faults' \in Nat /\ crashes' \in Nat /\ faults' + crashes' <= MaxFailures
        /\ faults' = 0 => faults = 0 /\ unread = {}
        /\ faults' >= faults /\ crashes' >= crashes /\ (~ok => faults' # 0)
    <3>1. ~ok => faults > 0
      BY <1>1 DEF IInv, OpAgrees
    <3> HIDE DEF ok
    <3> QED
      BY <1>2, <1>6, <2>2, <3>1
  <2>4. \A j \in Jobs :
          rows'[j] = IF j \in Written THEN NewerJobRecord(rows[j], op.row)
                     ELSE IF j \in PruneJobs \cup (Restored(unread) \cap unread) THEN rows[j]
                     ELSE IF j \in Restored(unread) THEN file[j]
                     ELSE None
    BY <1>6 DEF SaveState
  <2>5. /\ \A j \in Jobs : file'[j] = IF j \in Deleted \ unread THEN None ELSE file[j]
        /\ rows' = [j \in Jobs |-> rows'[j]] /\ file' = [j \in Jobs |-> file'[j]]
    BY <1>6 DEF SaveState, DeleteFiles
  <2>6. forgotten' = forgotten \cup Dropped(unread) /\ Dropped(unread) \subseteq Jobs
    BY <1>2, <1>3, <1>6 DEF Forget, Dropped, Deleted
  <2>7. \A j \in Written : j = op.job /\ rows'[j] = op.row
    BY <1>1, <1>3, <2>4 DEF IInv, OpenRow, NewerJobRecord
  <2>8. \A j \in Jobs \ Written :
          /\ rows'[j] = rows[j] \/ (j \in Leaving
             /\ rows'[j] = IF j \in Restored(unread) THEN file[j] ELSE None)
          /\ rows'[j] # rows[j] => j \notin unread
    BY <1>3, <2>4 DEF Restored
  <2>9. \A j \in Jobs : /\ j \in Deleted => j \in Leaving /\ IsTerminal(file[j])
                        /\ j \in Restored(unread) => j \in Leaving /\ file[j] # None
                        /\ j \in Leaving /\ j \notin unread /\ IsActive(file[j])
                           => j \in Restored(unread)
                        /\ j \in Dropped(unread) <=>
                              (j \in Deleted /\ j \notin unread)
                              \/ (j \in Leaving /\ j \notin unread /\ IsTerminal(rows[j]))
    BY RecordFacts DEF Deleted, MayDelete, Restored, Dropped, IsActive
  <2>10. newer' \subseteq Indexed' \X Indexed'
    <3>1. \A j \in PruneJobs \cup Restored(unread) : j \in Jobs /\ rows'[j] # None
      BY <1>1, <1>3, <2>4, <2>7, <2>9 DEF Indexed, Restored
    <3>2. PruneJobs \cup Restored(unread) \subseteq Indexed'
      BY <3>1 DEF Indexed
    <3> QED
      BY <1>6, <3>2 DEF SaveState
  <2>11. Together'
    <3>1. ASSUME faults' = 0, NEW j \in Jobs, IsTerminal(rows'[j]), file'[j] # None
          PROVE  file'[j] = rows'[j]
      <4>1. faults = 0 /\ unread = {} /\ file'[j] = file[j] /\ j \notin Deleted
        BY <2>3, <2>5, <3>1
      <4>2. CASE j \in Written
        <5>1. j = op.job /\ IsTerminal(op.row) /\ rows'[j] = op.row /\ ~op.failed
          BY <1>1, <2>7, <3>1, <4>1, <4>2 DEF IInv, OpAgrees
        <5>2. CASE op.file = None
          BY <1>1, <4>1, <5>1, <5>2 DEF IInv, OpAgrees
        <5>3. CASE op.file # None
          BY <1>1, <4>1, <5>1, RecordFacts DEF IInv, OpAgrees
        <5> QED
          BY <5>2, <5>3
      <4>3. CASE j \notin Written
        BY <2>8, <3>1, <4>1, <4>3, RecordFacts DEF IInv, Together
      <4> QED
        BY <4>2, <4>3
    <3> QED
      BY <3>1 DEF Together
  <2>12. ASSUME NEW j \in Jobs
         PROVE  /\ rows'[j] \in {rows[j], file[j], None}
                   \cup (IF j \in Written THEN {op.row} ELSE {})
                /\ file'[j] \in {file[j], None}
                /\ rows[j] = None /\ j \notin Written => rows'[j] = None
                /\ rows[j] # None /\ file[j] # None /\ j \notin forgotten' =>
                      rows'[j] # None /\ file'[j] # None
                /\ IsTerminal(rows[j]) => IsTerminal(rows'[j]) \/ j \in forgotten'
                /\ IsTerminal(rows[j]) /\ IsTerminal(file'[j]) => IsTerminal(rows'[j])
                /\ ok /\ j \in Written => rows'[j] = op.row /\ file'[j] = file[j]
    <3>1. CASE j \in Written
      BY <1>1, <1>3, <2>5, <2>7, <2>9, <3>1 DEF IInv, OpenRow
    <3>2. CASE j \notin Written
      <4>1. rows[j] = None => rows'[j] = None
        BY <1>3, <2>8, <3>2
      <4>2. IsTerminal(rows[j]) => IsTerminal(rows'[j]) \/ j \in forgotten'
        BY <2>6, <2>8, <2>9, <3>2
      <4>3. rows[j] # None /\ file[j] # None /\ j \notin forgotten' => rows'[j] # None
            /\ file'[j] # None
        BY <1>2, <2>5, <2>6, <2>8, <2>9, <3>2, RecordFacts DEF Deleted, MayDelete
      <4>4. IsTerminal(rows[j]) /\ IsTerminal(file'[j]) => IsTerminal(rows'[j])
        BY <2>5, <2>8, <2>9, <3>2, RecordFacts DEF Deleted, MayDelete
      <4> QED
        BY <2>5, <2>8, <3>2, <4>1, <4>2, <4>3, <4>4
    <3> QED
      BY <3>1, <3>2
  <2>13. Moves(ok)
    BY <1>2, <2>3, <2>5, <2>6, <2>10, <2>11, <2>12 DEF Moves
  <2> QED
    BY <1>6, <2>13
<1> QED
  BY <1>4, <1>5, <1>6 DEF SaveIndex

\* So the write of the index keeps the invariant.
LEMMA SaveIndexStep ==
    ASSUME IInv, SaveIndex
    PROVE  IInv'
<1>1. op # None /\ op.step = "index" /\ UNCHANGED <<seen, procVars>>
  BY DEF SaveIndex, Locked
<1>2. PICK ok \in BOOLEAN : Return(ok) /\ Moves(ok)
  BY IndexMoves
<1> QED
  BY <1>1, <1>2, ReturnStep

-----------------------------------------------------------------------------

\* Whoever settles a job begins to.
LEMMA SettlingStep ==
    ASSUME IInv,
           \/ \E j \in Background : FailSpawn(j)
           \/ \E j \in Jobs : BootFail(j) \/ Persist(j) \/ SettleOnSignal(j)
           \/ \E a \in Stoppers : SettleCancelled(a)
    PROVE  IInv'
<1>1. \A at \in Ends : AlwaysTo(at) \in [Terminal -> Ends]
      /\ \A s \in Terminal : AlwaysTo(at)[s] = at
  BY DEF AlwaysTo
<1>2. "cancelled" \in Terminal /\ "failed" \in Terminal /\ "completed" \in Terminal
  BY DEF Terminal
<1>3. "end" \in Ends /\ "dead" \in Ends /\ "stop" \in Ends
  BY DEF Ends
<1>4. ASSUME NEW j \in Background, FailSpawn(j)
      PROVE  IInv'
  <2>1. /\ j \in Jobs /\ Launcher(j) \in Actors /\ Launcher(j)[1] = "launcher" /\ Launcher(j)[2] = j
        /\ Launcher(j) # Sweep /\ Launcher(j) \notin Stoppers /\ pc[Launcher(j)] = "failSpawn"
    BY <1>4, ActorFacts DEF FailSpawn
  <2>2. /\ Settle(Launcher(j), j, "failed", None, FALSE, "end", AlwaysTo("end"), "end")
        /\ UNCHANGED <<ledger, procVars, stopVars, history>>
    BY <1>4 DEF FailSpawn
  <2>3. Writes(Launcher(j), pc[Launcher(j)])
    BY <2>1 DEF Writes
  <2>4. AlwaysTo("end") \in [Terminal -> Ends]
        /\ \A s \in Terminal : AlwaysTo("end")[s] \in {"end", "dead"}
    BY <1>1, <1>3
  <2> QED
    BY <1>2, <1>3, <2>1, <2>2, <2>3, <2>4, SettleStep
<1>5. ASSUME NEW j \in Jobs, BootFail(j) \/ Persist(j) \/ SettleOnSignal(j)
      PROVE  IInv'
  <2>1. /\ Worker(j) \in Actors /\ Worker(j)[1] = "worker" /\ Worker(j)[2] = j
        /\ Worker(j) # Sweep /\ Worker(j) \notin Stoppers
    BY ActorFacts
  <2>2. CASE BootFail(j)
    <3>1. /\ pc[Worker(j)] = "bootFail" /\ UNCHANGED <<ledger, procVars, stopVars, history>>
          /\ Settle(Worker(j), j, "failed", None, TRUE, "end", AlwaysTo("end"), "end")
      BY <2>2 DEF BootFail
    <3>2. Writes(Worker(j), pc[Worker(j)])
      BY <2>1, <3>1 DEF Writes
    <3>3. AlwaysTo("end") \in [Terminal -> Ends]
          /\ \A s \in Terminal : AlwaysTo("end")[s] \in {"end", "dead"}
      BY <1>1, <1>3
    <3> QED
      BY <1>2, <1>3, <2>1, <3>1, <3>2, <3>3, SettleStep
  <2>3. CASE Persist(j)
    <3>1. PICK status \in {"completed", "failed"} :
            Settle(Worker(j), j, status, RunningRec, TRUE, "end", AlwaysTo("end"), "end")
      BY <2>3 DEF Persist
    <3>2. /\ RunningRec \in Records /\ Exist(j, RunningRec) /\ pc[Worker(j)] = "finish"
          /\ UNCHANGED <<ledger, procVars, stopVars, history>>
      BY <2>3, RecordFacts DEF Persist, Exist
    <3>3. Writes(Worker(j), pc[Worker(j)]) /\ status \in Terminal
      BY <1>2, <2>1, <3>2 DEF Writes
    <3>4. AlwaysTo("end") \in [Terminal -> Ends]
          /\ \A s \in Terminal : AlwaysTo("end")[s] \in {"end", "dead"}
      BY <1>1, <1>3
    <3> QED
      BY <1>3, <2>1, <3>1, <3>2, <3>3, <3>4, SettleStep
  <2>4. CASE SettleOnSignal(j)
    <3>1. /\ pc[Worker(j)] = "signal" /\ UNCHANGED <<ledger, procVars, stopVars, history>>
          /\ Settle(Worker(j), j, "cancelled", None, TRUE, "dead", AlwaysTo("dead"), "dead")
      BY <2>4 DEF SettleOnSignal
    <3>2. Writes(Worker(j), pc[Worker(j)])
      BY <2>1, <3>1 DEF Writes
    <3>3. AlwaysTo("dead") \in [Terminal -> Ends]
          /\ \A s \in Terminal : AlwaysTo("dead")[s] \in {"end", "dead"}
      BY <1>1, <1>3
    <3> QED
      BY <1>2, <1>3, <2>1, <3>1, <3>2, <3>3, SettleStep
  <2> QED
    BY <1>5, <2>2, <2>3, <2>4
<1>6. ASSUME NEW a \in Stoppers, SettleCancelled(a)
      PROVE  IInv'
  <2> DEFINE found == [AlwaysTo("end") EXCEPT !["cancelled"] = IF a[1] = "sweeper" THEN "stopped"
             ELSE "end"]
  <2>1. /\ a \in Actors /\ a[1] \in {"canceller", "sweeper"} /\ a[2] \in Jobs /\ a # Sweep
        /\ pc[a] = "settle" /\ seen[a] \in Records \cup {None}
        /\ seen[a] # None => Exist(a[2], seen[a])
    BY <1>6, ActorFacts DEF IInv, TypeOK, ProcsExist, SettleCancelled
  <2>2. found \in [Terminal -> Ends]
    BY <1>1, <1>3 DEF Ends
  <2>3. Settle(a, a[2], "cancelled", seen[a], FALSE, "stop", found, "stop")
    BY <1>6 DEF SettleCancelled
  <2> HIDE DEF found
  <2> QED
    BY <1>2, <1>3, <1>6, <2>1, <2>2, <2>3, SettleStep DEF SettleCancelled, Writes
<1> QED
  BY <1>4, <1>5, <1>6

\* The launcher notes the worker's pid.
LEMMA NotePidStep ==
    ASSUME IInv, NEW j \in Background, NotePid(j)
    PROVE  IInv'
<1> DEFINE a     == Launcher(j)
           patch == Rec("same", TRUE, FALSE)
<1>1. /\ j \in Jobs /\ a \in Actors /\ a[1] = "launcher" /\ a[2] = j /\ a # Sweep
      /\ a \notin Stoppers /\ a # Worker(j) /\ pc[a] = "note" /\ pc[Worker(j)] # "off"
      /\ UNCHANGED <<ledger, procVars, stopVars, history>>
  BY ActorFacts DEF IInv, SpawnFirst, NotePid
<1>2. patch \in Patches /\ patch.pid /\ ~patch.claudePid /\ Exist(j, patch) /\ Exist(j, QueuedRec)
  BY <1>1, RecordFacts DEF Patches, Rec, Exist
<1>3. "end" \in PcValues /\ "end" \in Ends /\ "end" \notin Running /\ Writes(a, pc[a])
  BY <1>1 DEF PcValues, Over, Ends, Running, Writes
<1>4. UpdateActive(a, j, patch, QueuedRec, TRUE, "end", "end", "end")
  BY DEF NotePid
<1> HIDE DEF a, patch
<1>5. /\ op = None
      /\ faults' \in Nat /\ crashes' \in Nat /\ faults' + crashes' <= MaxFailures
      /\ faults' = 0 => faults = 0
      /\ \/ Go(a, "end") /\ UNCHANGED op
         \/ /\ UNCHANGED pc /\ ~IsTerminal(rows[j])
            /\ UpdateWaits(a, j, patch, QueuedRec, "end", "end")
  BY <1>1, <1>2, <1>3, <1>4, UpdateFacts
<1>6. CASE Go(a, "end") /\ UNCHANGED op
  BY <1>1, <1>3, <1>5, <1>6, CallReturns
<1>7. CASE ~(Go(a, "end") /\ UNCHANGED op)
  <2>1. /\ UNCHANGED pc /\ ~IsTerminal(rows[j])
        /\ UpdateWaits(a, j, patch, QueuedRec, "end", "end")
      BY <1>5, <1>7
  <2> QED
    BY <1>1, <1>2, <1>3, <1>5, <2>1, UpdateBegins
<1> QED
  BY <1>6, <1>7

\* The worker marks its job as running.
LEMMA MarkRunningStep ==
    ASSUME IInv, NEW j \in Jobs, MarkRunning(j)
    PROVE  IInv'
<1> DEFINE a == Worker(j)
<1>1. /\ a \in Actors /\ a[1] = "worker" /\ a[2] = j /\ a # Sweep
      /\ a \notin Stoppers /\ pc[a] = "begin"
      /\ UNCHANGED <<ledger, procVars, stopVars, history>>
  BY ActorFacts DEF MarkRunning
<1>2. RunningRec \in Patches /\ RunningRec # None /\ RunningRec.pid /\ Exist(j, RunningRec)
  BY <1>1, RecordFacts DEF Patches, Exist
<1>3. /\ {"run", "end"} \subseteq PcValues /\ "end" \in Ends /\ "run" \in Running
         /\ "end" \notin Running
      /\ Writes(a, pc[a])
  BY <1>1 DEF PcValues, Over, Ends, Running, Writes
<1>4. UpdateActive(a, j, RunningRec, RunningRec, FALSE, "run", "end", "end")
  BY DEF MarkRunning
<1>5. /\ op = None
      /\ faults' \in Nat /\ crashes' \in Nat /\ faults' + crashes' <= MaxFailures
      /\ faults' = 0 => faults = 0
      /\ \/ Go(a, "end") /\ UNCHANGED op
         \/ Go(a, "run") /\ UNCHANGED op /\ (FALSE \/ RunningRec = None)
         \/ /\ UNCHANGED pc /\ ~IsTerminal(rows[j])
            /\ UpdateWaits(a, j, RunningRec, RunningRec, "run", "end")
  BY <1>1, <1>2, <1>3, <1>4, UpdateFacts
<1>6. CASE Go(a, "end") /\ UNCHANGED op
  BY <1>1, <1>3, <1>5, <1>6, CallReturns
<1>7. CASE ~(Go(a, "end") /\ UNCHANGED op)
  <2>1. a = Worker(j)
    OBVIOUS
  <2> HIDE DEF a
  <2> QED
    <3>1. /\ UNCHANGED pc /\ ~IsTerminal(rows[j])
          /\ UpdateWaits(a, j, RunningRec, RunningRec, "run", "end")
        BY <1>5, <1>7, RecordFacts
    <3> QED
      BY <1>1, <1>2, <1>3, <1>5, <2>1, <3>1, UpdateBegins
<1> QED
  BY <1>6, <1>7

\* The worker notes the child's pid.
LEMMA ReportChildStep ==
    ASSUME IInv, NEW j \in Jobs, ReportChild(j)
    PROVE  IInv'
<1> DEFINE a     == Worker(j)
           patch == Rec("same", FALSE, TRUE)
<1>1. /\ a \in Actors /\ a[1] = "worker" /\ a[2] = j /\ a # Sweep
      /\ a \notin Stoppers /\ pc[a] = "run" /\ child[j] # "none" /\ a = Worker(j)
      /\ UNCHANGED <<ledger, procVars, stopVars, history>>
  BY ActorFacts DEF ReportChild
<1>2. patch \in Patches /\ ~patch.pid /\ patch.claudePid /\ Exist(j, patch)
  BY <1>1 DEF Patches, Rec, Exist
<1>3. {"run", "runTold"} \subseteq PcValues /\ {"run", "runTold"} = Running /\ Writes(a, pc[a])
  BY <1>1 DEF PcValues, Running, Writes
<1>4. UpdateActive(a, j, patch, None, FALSE, "runTold", "runTold", "run")
  BY DEF ReportChild
<1> HIDE DEF a, patch
<1>5. /\ op = None
      /\ faults' \in Nat /\ crashes' \in Nat /\ faults' + crashes' <= MaxFailures
      /\ faults' = 0 => faults = 0
      /\ \/ Go(a, "runTold") /\ UNCHANGED op
         \/ /\ UNCHANGED pc /\ ~IsTerminal(rows[j])
            /\ UpdateWaits(a, j, patch, None, "runTold", "run")
  BY <1>1, <1>2, <1>3, <1>4, UpdateFacts
<1>6. CASE Go(a, "runTold") /\ UNCHANGED op
  <2>1. /\ pc' \in [Actors -> PcValues] /\ pc'[a] \in Running /\ pc[a] \in Running /\ op' = None
        /\ \A w \in Actors \ {a} : pc'[w] = pc[w]
    BY <1>1, <1>3, <1>5, <1>6 DEF IInv, TypeOK, Go
  <2>2. \A w \in Actors : pc'[w] = pc[w] \/ (w = a /\ {pc[w], pc'[w]} \subseteq Running)
    BY <2>1
  <2>3. TypeOK'
    BY <1>1, <1>5, <2>1 DEF IInv, TypeOK, Indexed, ledger, procVars, stopVars, history
  <2>4. /\ OpIsItsActors' /\ OpStops' /\ OpenRow' /\ OpAgrees' /\ TerminalIsBare' /\ Together'
        /\ WinnerHasRow' /\ OneWinner'
    BY <1>1, <1>5, <2>1
       DEF IInv, OpIsItsActors, OpStops, OpenRow, OpAgrees, TerminalIsBare, Together, WinnerHasRow,
           OneWinner, ledger, history
  <2>5. Untouched' /\ SweepFirst' /\ SpawnFirst'
    BY <1>1, <2>2, ActorFacts DEF IInv, Untouched, SweepFirst, SpawnFirst, Running, ledger
  <2>6. RunIsRecorded'
    BY <1>1, <2>1, ActorFacts DEF IInv, RunIsRecorded, ledger, history
  <2>7. ProcsExist' /\ LiveChild'
    BY <1>1, <1>5, <2>1, <2>2, ActorFacts
       DEF IInv, ProcsExist, Exist, LiveChild, Running, ledger, procVars, stopVars
  <2>8. StopIsDone'
    BY <1>1, <2>2, ActorFacts DEF IInv, StopIsDone, Over, procVars, stopVars, history
  <2> QED
    BY <2>3, <2>4, <2>5, <2>6, <2>7, <2>8 DEF IInv
<1>7. CASE ~(Go(a, "runTold") /\ UNCHANGED op)
  <2>1. /\ UNCHANGED pc /\ ~IsTerminal(rows[j])
        /\ UpdateWaits(a, j, patch, None, "runTold", "run")
      BY <1>5, <1>7
  <2>2. Ends \cap Running = {} /\ "runTold" \in Running /\ "run" \in Running
    BY DEF Ends, Running
  <2> QED
    BY <1>1, <1>2, <1>3, <1>5, <2>1, UpdateBegins
<1> QED
  BY <1>6, <1>7

\* Every step keeps the invariant.
LEMMA NextInv == IInv /\ [Next]_vars => IInv'
<1> SUFFICES ASSUME IInv, [Next]_vars PROVE IInv'
  OBVIOUS
<1>1. CASE WriteJobFile \/ SaveIndex
  BY <1>1, WriteJobFileStep, SaveIndexStep
<1>2. ASSUME NEW j \in Jobs, WorkerStep(j) \/ WorkStep(j)
      PROVE  IInv'
  BY <1>2, BootStep, MarkRunningStep, RunEndsStep, TakeSignalStep, SettlingStep, SpawnChildStep,
     ReportChildStep
     DEF WorkerStep, WorkStep
<1>3. ASSUME NEW j \in Background, LauncherStep(j)
      PROVE  IInv'
  BY <1>3, SaveQueuedStep, UpsertStep, SpawnStep, SettlingStep, NotePidStep DEF LauncherStep
<1>4. ASSUME NEW j \in Cancels, PickCancel(j)
      PROVE  IInv'
  BY <1>4, PickCancelStep
<1>5. CASE PickSweep \/ RemoveRows
  BY <1>5, PickSweepStep, RemoveRowsStep
<1>6. ASSUME NEW a \in Stoppers, StopperStep(a)
      PROVE  IInv'
  BY <1>6, SettlingStep, TerminateStep, HardKillStep, StopEndsStep DEF StopperStep
<1>7. ASSUME NEW a \in Actors, Crash(a)
      PROVE  IInv'
  BY <1>7, CrashStep
<1>8. CASE UNCHANGED vars
  <2>1. UNCHANGED <<rows, newer, file, op, pc, seen, child, termed, targets, winners, forgotten,
        faults, crashes>>
    BY <1>8 DEF vars, ledger, procVars, stopVars, history, budget
  <2> QED
    BY <2>1
       DEF IInv, TypeOK, Indexed, OpIsItsActors, OpenRow, OpAgrees, TerminalIsBare, Together,
           WinnerHasRow, OneWinner, Untouched, SweepFirst, SpawnFirst, RunIsRecorded, Names,
           ProcsExist, Exist, LiveChild, StopIsDone, OpStops
<1> QED
  BY <1>1, <1>2, <1>3, <1>4, <1>5, <1>6, <1>7, <1>8 DEF Next

\* Every reachable state satisfies the inductive invariant.
THEOREM Inductive == Spec => []IInv
BY InitInv, NextInv, PTL DEF Spec

\* The variables of the ledger always have their types, and failures stay
\* within their bound.
THEOREM TypeCorrect == Spec => []TypeOK
<1>1. IInv => TypeOK
  BY DEF IInv
<1> QED
  BY <1>1, Inductive, PTL

\* "No terminal record keeps a worker or Claude pid" (job-lifecycle.ts:107-129).
THEOREM NoTerminalPidHolds == Spec => []NoTerminalPid
<1>1. IInv => NoTerminalPid
  BY RecordFacts DEF IInv, TypeOK, TerminalIsBare, Bare, NoTerminalPid
<1> QED
  BY <1>1, Inductive, PTL

\* A job has one outcome: whoever races to settle it (settleJob), one of them
\* is told it did, and row and job file agree on how while nothing fails.
THEOREM OneOutcomeHolds == Spec => []OneOutcome
<1>1. IInv => OneOutcome
  BY DEF IInv, OneOutcome, SettledTogether, Together
<1> QED
  BY <1>1, Inductive, PTL

\* Whoever settled a job and confirmed its processes gone (cancelJob, the
\* session-end sweep) leaves none of them at work.
THEOREM ConfirmedStopHolds == Spec => []ConfirmedStop
<1>1. ASSUME IInv, NEW a \in Stoppers, pc[a] = "stopped", a \in winners[a[2]], a[2] \notin forgotten
      PROVE  /\ pc[Worker(a[2])] \notin Running
             /\ child[a[2]] = "live" => pc[Worker(a[2])] = "killed" /\ ~targets[a].claudePid
  <2>1. a[2] \in Jobs
    BY ActorFacts
  <2>2. /\ pc[Worker(a[2])] \in Running => targets[a].pid
        /\ targets[a].claudePid => child[a[2]] = "gone"
        /\ targets[a].pid => pc[Worker(a[2])] \in Over
    BY <1>1 DEF IInv, StopIsDone
  <2>3. child[a[2]] = "live" => pc[Worker(a[2])] \in Running \cup {"killed"}
    BY <1>1, <2>1 DEF IInv, LiveChild
  <2> QED
    BY <2>2, <2>3 DEF Running, Over
<1>2. IInv => ConfirmedStop
  BY <1>1 DEF ConfirmedStop
<1> QED
  BY <1>2, Inductive, PTL

\* What an index write makes of a row it does not write.
LEMMA RowsMove ==
    ASSUME IInv, Next, NEW j \in Jobs
    PROVE  rows'[j] \in {rows[j], file[j], None} \/ ~IsTerminal(rows[j])
<1>1. CASE UNCHANGED rows
  BY <1>1
<1>2. CASE SaveIndex
  <2>1. op # None
    BY <1>2 DEF SaveIndex, Locked
  <2>2. CASE \E unread : SaveState(unread)
    <3>1. j \in Written => ~IsTerminal(rows[j])
      BY <2>1 DEF IInv, OpenRow, Written
    <3> QED
      BY <2>2, <3>1 DEF SaveState
  <2> QED
    BY <1>1, <1>2, <2>2 DEF SaveIndex, ledger
<1> QED
  BY <1>1, <1>2
     DEF Next, WriteJobFile, WorkerStep, WorkStep, LauncherStep, StopperStep, Boot, BootFail,
         MarkRunning, RunEnds, Persist, TakeSignal, SettleOnSignal, SpawnChild, ReportChild,
         SaveQueued, Upsert, Spawn, FailSpawn, NotePid, PickCancel, PickSweep, RemoveRows,
         SettleCancelled, Terminate, HardKill, StopEnds, Crash, ledger

\* A settled row changes only to what its own job file says (saveStateMerged),
\* whatever fails and whoever dies.
THEOREM SettledRowFollowsFileHolds == Spec => SettledRowFollowsFile
<1>1. IInv /\ [Next]_vars =>
        [\A j \in Jobs : IsTerminal(rows[j]) /\ rows'[j] # None
           => rows'[j] = rows[j] \/ rows'[j] = file[j]]_vars
  BY RowsMove
<1> QED
  BY <1>1, Inductive, PTL DEF Spec, SettledRowFollowsFile

\* A settle moves nobody, or only its own actor to where it rests.
LEMMA SettleMoves ==
    ASSUME NEW a, NEW j \in Jobs, NEW status \in Terminal, NEW fallback, NEW skipUnknown,
           NEW next, NEW late \in [Terminal -> Ends], NEW onError, IInv,
           Settle(a, j, status, fallback, skipUnknown, next, late, onError)
    PROVE  UNCHANGED pc \/ \E at \in Ends : Go(a, at)
<1>1. PICK f \in FileReads(j) :
        \/ UNCHANGED pc
        \/ \E s \in {status} \cup {r.status : r \in {x \in {f, rows[j]} : IsTerminal(x)}} : Go(a,
           late[s])
  BY DEF Settle, RowSettled
<1>2. \A r : IsTerminal(r) => r.status \in Terminal
  BY DEF IsTerminal
<1> QED
  BY <1>1, <1>2

\* The steps that put a worker to work end a write of its job's row.
LEMMA RunStarts ==
    ASSUME IInv, Next, NEW j \in Jobs, pc[Worker(j)] \notin Running, pc'[Worker(j)] \in Running
    PROVE  SaveIndex /\ op # None /\ op.job = j /\ op.row # None
<1>1. Worker(j) \in Actors /\ pc \in [Actors -> PcValues] /\ pc' # pc
  BY ActorFacts DEF IInv, TypeOK
<1>2. ASSUME NEW a, NEW at, Go(a, at), at \notin Running
      PROVE  FALSE
  BY <1>1, <1>2 DEF Go
<1>3. Ends \cap Running = {}
  BY DEF Ends, Running
<1>4. \A at \in Ends : AlwaysTo(at) \in [Terminal -> Ends]
  BY DEF AlwaysTo
<1>5. {"end", "dead", "stop", "stopped"} \subseteq Ends
      /\ {"cancelled", "failed", "completed"} \subseteq Terminal
  BY DEF Ends, Terminal
<1>6. CASE WriteJobFile \/ SaveIndex
  <2>1. PICK ok \in BOOLEAN : op # None /\ Return(ok)
    BY <1>1, <1>6 DEF WriteJobFile, SaveIndex, Locked
  <2>2. Worker(j) = op.by /\ (op.next \in Running \/ op.onError \in Running)
    BY <1>1, <2>1 DEF Return, Go
  <2>3. /\ op.by = Worker(op.job) /\ pc[op.by] \in {"begin", "run"}
        /\ op.onError \in Running => pc[op.by] = "run"
    BY <2>1, <2>2 DEF IInv, OpIsItsActors
  <2>4. op.job = j /\ pc[op.by] = "begin" /\ op.next \in Running
    BY <2>1, <2>2, <2>3, ActorFacts DEF IInv, TypeOK, Ops, Running
  <2>5. ~WriteJobFile
    <3>1. ASSUME WriteJobFile
          PROVE  FALSE
      <4>1. Go(op.by, op.onError)
        BY <1>1, <3>1 DEF WriteJobFile, Return
      <4> QED
        BY <1>1, <2>1, <2>2, <2>3, <2>4, <4>1 DEF Go, IInv, OpIsItsActors
    <3> QED
      BY <3>1
  <2> QED
    BY <1>6, <2>1, <2>4, <2>5, RecordFacts DEF IInv, RunIsRecorded
<1>7. ASSUME NEW k \in Jobs, WorkerStep(k) \/ WorkStep(k)
      PROVE  FALSE
  <2>1. CASE Boot(k) \/ RunEnds(k) \/ TakeSignal(k) \/ SpawnChild(k)
    BY <1>2, <2>1 DEF Boot, RunEnds, TakeSignal, SpawnChild, Running
  <2>2. CASE BootFail(k)
    BY <1>1, <1>2, <1>3, <1>4, <1>5, <2>2, SettleMoves DEF BootFail
  <2>3. CASE SettleOnSignal(k)
    BY <1>1, <1>2, <1>3, <1>4, <1>5, <2>3, SettleMoves DEF SettleOnSignal
  <2>4. CASE Persist(k)
    <3>1. PICK status \in {"completed", "failed"} :
            Settle(Worker(k), k, status, RunningRec, TRUE, "end", AlwaysTo("end"), "end")
      BY <2>4 DEF Persist
    <3> QED
      BY <1>1, <1>2, <1>3, <1>4, <1>5, <3>1, SettleMoves
  <2>5. CASE MarkRunning(k)
    <3>1. UpdateActive(Worker(k), k, RunningRec, RunningRec, FALSE, "run", "end", "end")
      BY <2>5 DEF MarkRunning
    <3>2. /\ Worker(k) \in Actors /\ RunningRec \in Patches /\ {"run", "end"} \subseteq PcValues
          /\ "end" \notin Running
      BY ActorFacts DEF Patches, PcValues, Over, Running
    <3>3. \/ Go(Worker(k), "end")
          \/ Go(Worker(k), "run") /\ RunningRec = None
          \/ UNCHANGED pc
      BY <3>1, <3>2, UpdateFacts
    <3> QED
      BY <1>1, <1>2, <3>2, <3>3, RecordFacts
  <2>6. CASE ReportChild(k)
    <3>1. /\ UpdateActive(Worker(k), k, Rec("same", FALSE, TRUE), None, FALSE, "runTold", "runTold",
             "run")
          /\ pc[Worker(k)] \in Running
      BY <2>6 DEF ReportChild, Running
    <3>2. /\ Worker(k) \in Actors /\ Rec("same", FALSE, TRUE) \in Patches
          /\ {"run", "runTold"} \subseteq PcValues
      BY ActorFacts DEF Patches, PcValues, Running
    <3>3. Go(Worker(k), "runTold") \/ UNCHANGED pc
      BY <3>1, <3>2, UpdateFacts
    <3> QED
      BY <1>1, <3>1, <3>3 DEF Go
  <2> QED
    BY <1>7, <2>1, <2>2, <2>3, <2>4, <2>5, <2>6 DEF WorkerStep, WorkStep
<1>8. ASSUME NEW k \in Background, LauncherStep(k)
      PROVE  FALSE
  <2>1. k \in Jobs /\ Launcher(k) \in Actors
    BY ActorFacts
  <2>2. CASE SaveQueued(k) \/ Upsert(k) \/ Spawn(k)
    BY <1>1, <1>2, <2>2 DEF SaveQueued, Upsert, Spawn, Running
  <2>3. CASE FailSpawn(k)
    BY <1>1, <1>2, <1>3, <1>4, <1>5, <2>1, <2>3, SettleMoves DEF FailSpawn
  <2>4. CASE NotePid(k)
    <3>1. UpdateActive(Launcher(k), k, Rec("same", TRUE, FALSE), QueuedRec, TRUE, "end", "end",
          "end")
      BY <2>4 DEF NotePid
    <3>2. Rec("same", TRUE, FALSE) \in Patches /\ "end" \in PcValues /\ "end" \notin Running
      BY DEF Patches, PcValues, Over, Running
    <3>3. Go(Launcher(k), "end") \/ UNCHANGED pc
      BY <2>1, <3>1, <3>2, UpdateFacts
    <3> QED
      BY <1>1, <1>2, <3>2, <3>3
  <2> QED
    BY <1>8, <2>2, <2>3, <2>4 DEF LauncherStep
<1>9. CASE (\E k \in Cancels : PickCancel(k)) \/ RemoveRows \/ (\E a \in Actors : Crash(a))
  BY <1>2, <1>9 DEF PickCancel, RemoveRows, Crash, Running
<1>10. CASE PickSweep
  BY <1>1, <1>10, ActorFacts DEF PickSweep, Running
<1>11. ASSUME NEW a \in Stoppers, StopperStep(a)
       PROVE  FALSE
  <2> DEFINE found == [AlwaysTo("end") EXCEPT !["cancelled"] = IF a[1] = "sweeper" THEN "stopped"
             ELSE "end"]
  <2>1. CASE SettleCancelled(a)
    <3>1. Settle(a, a[2], "cancelled", seen[a], FALSE, "stop", found, "stop")
      BY <2>1 DEF SettleCancelled
    <3>2. found \in [Terminal -> Ends] /\ a[2] \in Jobs
      BY <1>4, <1>5, ActorFacts
    <3> HIDE DEF found
    <3> QED
      BY <1>1, <1>2, <1>3, <1>5, <3>1, <3>2, SettleMoves
  <2>2. CASE Terminate(a) \/ HardKill(a) \/ StopEnds(a)
    BY <1>2, <2>2 DEF Terminate, HardKill, StopEnds, Running
  <2> QED
    BY <1>11, <2>1, <2>2 DEF StopperStep
<1> QED
  BY <1>6, <1>7, <1>8, <1>9, <1>10, <1>11 DEF Next

\* A worker that starts finds the record of its job unsettled, unless the
\* ledger has lost that record (markJobRunning, updateActiveJob).
THEOREM SettledRecordRefusesWorkerHolds == Spec => SettledRecordRefusesWorker
<1>1. ASSUME IInv, Next, NEW j \in Jobs, pc[Worker(j)] \notin Running, pc'[Worker(j)] \in Running
      PROVE  winners[j] = {} \/ j \in forgotten
  <2>1. op # None /\ op.job = j /\ op.row # None
    BY <1>1, RunStarts
  <2> QED
    BY <1>1, <2>1 DEF IInv, OpenRow, WinnerHasRow
<1>2. IInv /\ [Next]_vars =>
        [\A j \in Jobs : pc[Worker(j)] \notin Running /\ pc'[Worker(j)] \in Running
           => winners[j] = {} \/ j \in forgotten]_vars
  BY <1>1
<1> QED
  BY <1>2, Inductive, PTL DEF Spec, SettledRecordRefusesWorker

\* What becomes of a settled job: its row follows its own file, and no worker of
\* it starts while its record is there, whatever fails and whoever dies.
THEOREM SettledIsFinalHolds == Spec => SettledIsFinal
BY SettledRowFollowsFileHolds, SettledRecordRefusesWorkerHolds DEF SettledIsFinal

-----------------------------------------------------------------------------
(* The job file of a settled job stays settled (JobFileKept).  It could go  *)
(* back only through an update that found no settled record: of a job file  *)
(* it could not read, whose row lags behind.  A row lags behind its file    *)
(* when the write between the two was cut short, and while nothing has      *)
(* failed only the kill of a stop does that, which leaves nobody to update. *)
(* LedgerTold, the last part of FileInv, says what rows and files tell of a *)
(* job meanwhile: the refinement of JobOutcomes at the end rests on it.     *)

Failures == faults + crashes

\* The launcher has noted the worker's pid, or given up, or is about to.
LauncherDone(j) ==
    \/ pc[Launcher(j)] \in Ends
    \/ op # None /\ op.by = Launcher(j) /\ pc[Launcher(j)] = "note"

\* The worker has marked its job as running, or given up, or is about to.
Unbegun == {"off", "boot", "bootFail", "begin"}
Begun(j) ==
    \/ pc[Worker(j)] \notin Unbegun
    \/ op # None /\ op.by = Worker(j) /\ pc[Worker(j)] = "begin"

\* One of the two has told the ledger the worker's pid.
Told(j) == j \in Foreground \/ LauncherDone(j) \/ Begun(j)

\* Nobody else can have it.
PidsAreTold ==
    Failures = 0 =>
        /\ \A j \in Jobs : \A r \in {rows[j], file[j]} \ {None} : r.pid => Told(j)
        /\ \A a \in Stoppers : /\ targets[a].pid => Told(a[2])
                               /\ seen[a] # None /\ seen[a].pid => Told(a[2])
        /\ op # None => /\ op.procs.pid => Told(op.job)
                        /\ \A r \in {op.row, op.file} \ {None} : r.pid => Told(op.job)

\* The worker is past its start, no record of its job is active, and none is
\* being made so: the worker has nothing to settle.
NothingToSettle(j) ==
    /\ pc[Worker(j)] \notin Unbegun
    /\ ~IsActive(rows[j]) /\ ~IsActive(file[j])
    /\ op # None /\ op.job = j =>
          ~IsActive(op.row) /\ ~IsActive(op.file) /\ (op.by = Worker(j) => op.row = None)

\* A stop that knows the worker comes after the launcher is done, or finds
\* nothing that the worker could still settle.
StopComesLast ==
    Failures = 0 =>
        \A a \in Stoppers :
            /\ pc[a] \in {"stop", "wait"} => a \in winners[a[2]]
            /\ op # None /\ op.by = a /\ op.next = "stop" => op.wins
            /\ a \in winners[a[2]] /\ targets[a].pid =>
                  a[2] \in Foreground \/ LauncherDone(a[2]) \/ NothingToSettle(a[2])

\* A job nobody is left to update.
Abandoned(j) == pc[Worker(j)] \in Over /\ (j \in Background => pc[Launcher(j)] \in Ends)

\* The row of a settled file is settled, or being settled, or abandoned.
RowFollows ==
    Failures = 0 =>
        \A j \in Jobs : IsTerminal(file[j]) =>
            \/ IsTerminal(rows[j])
            \/ op # None /\ op.job = j /\ op.step = "index" /\ IsTerminal(op.row)
            \/ Abandoned(j)

\* An update that is about to be written was let through by its file.
OpenFile ==
    op # None /\ IsActive(op.file) /\ op.step = "file" /\ Failures < 2 => ~IsTerminal(file[op.job])

\* A job has no file before its launcher writes one.
FreshFile == \A j \in Background : pc[Launcher(j)] = "new" => file[j] = None

\* A record that says so, and a worker's start that is being written.
Says(r, status) == r # None /\ r.status = status
Starting(j) == op # None /\ op.by = Worker(j) /\ pc[Worker(j)] = "begin"

\* The row of a job that goes on says what its file does, but between the two
\* writes, or when the job was forgotten and came back; a forgotten job is not
\* queued; a job is running once its worker has begun, and has a row by then;
\* and a job whose launcher has not placed its row is in its file only.
JobTold(j) ==
    /\ IsActive(rows[j]) =>
          \/ Says(file[j], rows[j].status)
          \/ IsTerminal(file[j]) /\ j \in forgotten
          \/ op # None /\ op.job = j /\ op.step = "index" /\ op.row # None
    /\ Says(rows[j], "queued") \/ Says(file[j], "queued") => j \notin forgotten
    /\ Says(rows[j], "running") => pc[Worker(j)] \notin Unbegun
    /\ Says(file[j], "running") => pc[Worker(j)] \notin Unbegun \/ Starting(j)
    /\ rows[j] = None /\ Says(file[j], "running") => Abandoned(j) \/ Starting(j)
    /\ j \in Background /\ pc[Launcher(j)] \in {"new", "upsert"} =>
          j \notin forgotten /\ (pc[Launcher(j)] = "upsert" => Says(file[j], "queued"))

\* The row being written says what the file will; it is running when it was, or
\* when the worker starts, queued only before that, and settled by who is told
\* so, or again.
OpTold ==
    op # None =>
        /\ IsActive(op.row) =>
              Says(IF op.file = None THEN file[op.job] ELSE op.file, op.row.status)
        /\ Says(op.row, "running") =>
              Says(rows[op.job], "running") \/ (Starting(op.job) /\ op.next \in Running)
        /\ Says(op.row, "queued") => ~Says(rows[op.job], "running") /\ op.job \notin forgotten
        /\ Starting(op.job) => Says(op.row, "running")
        /\ IsTerminal(op.row) => op.wins \/ op.job \in forgotten
        /\ pc[op.by] = "upsert" => op.file = None

\* While nothing has failed and nobody has died of it.
AllTold    == (\A j \in Jobs : JobTold(j)) /\ OpTold
LedgerTold == Failures = 0 => AllTold

FileInv == /\ PidsAreTold /\ StopComesLast /\ RowFollows /\ OpenFile /\ FreshFile
           /\ LedgerTold

\* What the actors of a job do not take back.
Onward(j) ==
    /\ Begun(j) => Begun(j)'
    /\ pc[Worker(j)] \notin Unbegun => pc'[Worker(j)] \notin Unbegun
    /\ pc[Worker(j)] \in Over => pc'[Worker(j)] \in Over
    /\ j \in Background => /\ LauncherDone(j) => LauncherDone(j)'
                           /\ pc[Launcher(j)] \in Ends => pc'[Launcher(j)] \in Ends

LEMMA FailuresGrow ==
    ASSUME TypeOK, faults' \in Nat, crashes' \in Nat, faults' >= faults, crashes' >= crashes
    PROVE  /\ Failures \in Nat /\ Failures' \in Nat /\ Failures' >= Failures
           /\ Failures' = 0 => /\ Failures = 0 /\ faults' = faults /\ crashes' = crashes
                              /\ faults' = 0 /\ crashes' = 0
<1>1. faults \in Nat /\ crashes \in Nat
  BY DEF TypeOK
<1>2. \A f, c \in Nat : f + c \in Nat /\ (f + c = 0 => f = 0 /\ c = 0)
  OBVIOUS
<1>3. \A f, c, g, d \in Nat : g >= f /\ d >= c => g + d >= f + c
  OBVIOUS
<1>4. faults + crashes \in Nat /\ faults' + crashes' \in Nat
      /\ faults' + crashes' >= faults + crashes
  BY <1>1, <1>2, <1>3
<1>5. ASSUME faults' + crashes' = 0
      PROVE  /\ faults + crashes = 0 /\ faults' = faults /\ crashes' = crashes
             /\ faults' = 0 /\ crashes' = 0
  <2>1. faults' = 0 /\ crashes' = 0
    BY <1>2, <1>5
  <2>2. faults = 0 /\ crashes = 0
    BY <1>1, <2>1
  <2> QED
    BY <2>1, <2>2
<1> QED
  BY <1>4, <1>5 DEF Failures

\* A job is the foreground's or has a launcher.
LEMMA ToldStays ==
    ASSUME NEW j \in Jobs, Onward(j), Told(j)
    PROVE  Told(j)'
BY DEF Onward, Told, Background

\* The states to begin with.
LEMMA InitFileInv == Init => FileInv
<1> SUFFICES ASSUME Init PROVE FileInv
  OBVIOUS
<1>1. PidsAreTold
  BY DEF Init, PidsAreTold, NoProcs
<1>2. StopComesLast
  <2>1. \A a \in Stoppers : a \in Actors /\ a[2] \in Jobs
    BY ActorFacts
  <2>2. \A a \in Stoppers : pc[a] \notin {"stop", "wait"} /\ winners[a[2]] = {}
    BY <2>1 DEF Init, InitialPc
  <2> QED
    BY <2>2 DEF Init, StopComesLast
<1>3. RowFollows /\ OpenFile /\ FreshFile
  BY RecordFacts, ActorFacts DEF Init, RowFollows, OpenFile, FreshFile
<1>4. LedgerTold
  <2>1. \A j \in Background : pc[Launcher(j)] = "new"
    BY ActorFacts DEF Init, InitialPc
  <2> QED
    BY <2>1, RecordFacts DEF Init, LedgerTold, AllTold, JobTold, OpTold, Says
<1> QED
  BY <1>1, <1>2, <1>3, <1>4 DEF FileInv

\* What the ledger tells stays true while its records, and the write in progress,
\* are left alone.
LEMMA ToldMoves ==
    ASSUME AllTold, UNCHANGED <<rows, file, forgotten, op>>, \A j \in Jobs : Onward(j),
           op # None => pc'[op.by] = pc[op.by],
           \A j \in Background : pc'[Launcher(j)] \in {"new", "upsert"} =>
               pc'[Launcher(j)] = pc[Launcher(j)]
    PROVE  AllTold'
<1>1. \A j : Starting(j) <=> Starting(j)'
  BY DEF Starting
<1>2. \A j \in Jobs : Abandoned(j) => Abandoned(j)'
  BY DEF Abandoned, Onward
<1>3. ASSUME NEW j \in Jobs
      PROVE  JobTold(j)'
  <2>1. JobTold(j) /\ (pc[Worker(j)] \notin Unbegun => pc'[Worker(j)] \notin Unbegun)
    BY DEF AllTold, Onward
  <2> HIDE DEF Unbegun, Starting, Abandoned
  <2> QED
    BY <1>1, <1>2, <2>1 DEF JobTold, Says, IsActive, IsTerminal
<1>4. OpTold'
  BY <1>1 DEF AllTold, OpTold, Starting, Says
<1> QED
  BY <1>3, <1>4 DEF AllTold

\* And when a write is taken up.
LEMMA ToldBegins ==
    ASSUME AllTold, op = None, UNCHANGED <<rows, file, forgotten, pc>>, OpTold'
    PROVE  AllTold'
<1>1. ASSUME NEW j \in Jobs
      PROVE  JobTold(j)'
  <2>1. JobTold(j) /\ ~Starting(j) /\ (Abandoned(j) => Abandoned(j)')
    BY DEF AllTold, Starting, Abandoned
  <2> HIDE DEF Unbegun, Starting, Abandoned
  <2> QED
    BY <2>1 DEF JobTold, Says, IsActive, IsTerminal
<1> QED
  BY <1>1 DEF AllTold

\* A step that leaves the records alone, and the write in progress but for a
\* death.
LEMMA MovesOn ==
    ASSUME IInv, FileInv, UNCHANGED <<rows, file, targets, history>>, op' \in {op, None},
           faults' \in Nat, crashes' \in Nat, faults' >= faults, crashes' >= crashes,
           Failures' = 0 =>
               /\ op' = op /\ (op # None => pc'[op.by] = pc[op.by])
               /\ \A j \in Jobs : Onward(j)
               /\ \A a \in Stoppers :
                     /\ \/ seen'[a] = seen[a]
                        \/ seen'[a].pid => \E r \in {rows[a[2]], file[a[2]]} \ {None} : r.pid
                     /\ pc'[a] \in {"stop", "wait"} => pc[a] \in {"stop", "wait"},
           \A j \in Background : pc'[Launcher(j)] \in {"new", "upsert"} =>
               pc'[Launcher(j)] = pc[Launcher(j)]
    PROVE  FileInv'
<1>1. /\ Failures \in Nat /\ Failures' \in Nat /\ Failures' >= Failures
      /\ Failures' = 0 => Failures = 0
      /\ UNCHANGED <<winners, forgotten>>
  BY FailuresGrow DEF IInv, history
<1>2. /\ \A a \in Stoppers : a[2] \in Jobs
      /\ op # None => op.job \in Jobs
  BY ActorFacts DEF IInv, TypeOK, Ops
<1>3. OpenFile' /\ FreshFile'
  BY <1>1 DEF FileInv, OpenFile, FreshFile
<1>4. ASSUME Failures' = 0
      PROVE  PidsAreTold' /\ StopComesLast' /\ RowFollows' /\ LedgerTold'
  <2>1. /\ Failures = 0 /\ op' = op /\ \A j \in Jobs : Onward(j)
        /\ \A j \in Jobs : Told(j) => Told(j)'
    BY <1>1, <1>4, ToldStays
  <2>2. PidsAreTold'
    <3>1. \A j \in Jobs : \A r \in {rows[j], file[j]} \ {None} : r.pid => Told(j)'
      BY <2>1 DEF FileInv, PidsAreTold
    <3>2. ASSUME NEW a \in Stoppers
          PROVE  /\ targets[a].pid => Told(a[2])'
                 /\ seen'[a] # None /\ seen'[a].pid => Told(a[2])'
      BY <1>2, <1>4, <2>1, <3>1 DEF FileInv, PidsAreTold
    <3>3. op # None => /\ op.procs.pid => Told(op.job)'
                       /\ \A r \in {op.row, op.file} \ {None} : r.pid => Told(op.job)'
      BY <1>2, <2>1 DEF FileInv, PidsAreTold
    <3> HIDE DEF Told
    <3> QED
      BY <2>1, <3>1, <3>2, <3>3 DEF PidsAreTold
  <2>3. ASSUME NEW a \in Stoppers, a \in winners[a[2]], targets[a].pid
        PROVE  a[2] \in Foreground \/ LauncherDone(a[2])' \/ NothingToSettle(a[2])'
    <3>1. a[2] \in Foreground \/ LauncherDone(a[2]) \/ NothingToSettle(a[2])
      BY <2>1, <2>3 DEF FileInv, StopComesLast
    <3>2. NothingToSettle(a[2]) => NothingToSettle(a[2])'
      BY <1>2, <2>1 DEF NothingToSettle, Onward
    <3> QED
      BY <1>2, <2>1, <3>1, <3>2 DEF Onward, Background
  <2>4. StopComesLast'
    BY <1>1, <1>4, <2>1, <2>3 DEF FileInv, StopComesLast
  <2>5. \A j \in Jobs : Abandoned(j) => Abandoned(j)'
    BY <2>1 DEF Abandoned, Onward
  <2>6. RowFollows'
    BY <2>1, <2>5 DEF FileInv, RowFollows
  <2>7. AllTold'
    BY <1>1, <1>4, <2>1, ToldMoves DEF FileInv, LedgerTold
  <2> QED
    BY <2>2, <2>4, <2>6, <2>7 DEF LedgerTold
<1>5. Failures' # 0 => PidsAreTold' /\ StopComesLast' /\ RowFollows' /\ LedgerTold'
  BY DEF PidsAreTold, StopComesLast, RowFollows, LedgerTold
<1> QED
  BY <1>3, <1>4, <1>5 DEF FileInv

\* The move of one actor is onward.
LEMMA ActorMoves ==
    ASSUME IInv, NEW a \in Actors, NEW at, Go(a, at), op' = op, op = None \/ op.by # a,
           a[1] = "worker" => /\ pc[a] \notin Unbegun => at \notin Unbegun
                              /\ pc[a] \notin Over,
           a[1] = "launcher" => pc[a] \notin Ends
    PROVE  \A j \in Jobs : Onward(j)
<1>1. pc \in [Actors -> PcValues]
  BY DEF IInv, TypeOK
<1>2. \A j \in Jobs : /\ Worker(j) \in Actors /\ Worker(j)[1] = "worker"
                      /\ j \in Background => Launcher(j) \in Actors /\ Launcher(j)[1] = "launcher"
  BY ActorFacts
<1>3. \A b \in Actors : pc'[b] = IF b = a THEN at ELSE pc[b]
  BY <1>1 DEF Go
<1> QED
  BY <1>2, <1>3 DEF Onward, Begun, LauncherDone

\* An index write that is taken up.
LEMMA OpBegins ==
    ASSUME IInv, FileInv, op = None, op' \in Ops, NEW j \in Jobs, op'.job = j,
           UNCHANGED <<ledger, pc, stopVars, history>>,
           faults' \in Nat, crashes' \in Nat, faults' >= faults, crashes' >= crashes,
           Failures' = 0 =>
               /\ op'.procs.pid => Told(j)'
               /\ \A r \in {op'.row, op'.file} \ {None} : r.pid => Told(j)'
               /\ NothingToSettle(j) =>
                     ~IsActive(op'.row) /\ ~IsActive(op'.file)
                         /\ (op'.by = Worker(j) => op'.row = None)
               /\ op'.next = "stop" => op'.wins
               /\ OpTold',
           IsActive(op'.file) /\ Failures' < 2 => ~IsTerminal(file[j])
    PROVE  FileInv'
<1>1. /\ Failures \in Nat /\ Failures' \in Nat /\ Failures' >= Failures
      /\ Failures' = 0 => Failures = 0
  BY FailuresGrow DEF IInv
<1>2. /\ \A a \in Stoppers : a[2] \in Jobs
      /\ UNCHANGED <<rows, file, pc, seen, targets, winners, forgotten>>
  BY ActorFacts DEF ledger, stopVars, history
<1>3. OpenFile' /\ FreshFile'
  BY <1>1, <1>2 DEF FileInv, OpenFile, FreshFile
<1>4. ASSUME Failures' = 0
      PROVE  PidsAreTold' /\ StopComesLast' /\ RowFollows' /\ LedgerTold'
  <2>1. \A k \in Jobs : Onward(k)
    BY <1>2 DEF Onward, Begun, LauncherDone
  <2>2. Failures = 0 /\ \A k \in Jobs : Told(k) => Told(k)'
    BY <1>1, <1>4, <2>1, ToldStays
  <2>3. PidsAreTold'
    <3>1. \A k \in Jobs : \A r \in {rows[k], file[k]} \ {None} : r.pid => Told(k)'
      BY <2>2 DEF FileInv, PidsAreTold
    <3>2. \A a \in Stoppers : /\ targets[a].pid => Told(a[2])'
                              /\ seen[a] # None /\ seen[a].pid => Told(a[2])'
      BY <1>2, <2>2 DEF FileInv, PidsAreTold
    <3> HIDE DEF Told
    <3> QED
      BY <1>2, <1>4, <3>1, <3>2 DEF PidsAreTold
  <2>4. ASSUME NEW a \in Stoppers, a \in winners[a[2]], targets[a].pid
        PROVE  a[2] \in Foreground \/ LauncherDone(a[2])' \/ NothingToSettle(a[2])'
    <3>1. a[2] \in Foreground \/ LauncherDone(a[2]) \/ NothingToSettle(a[2])
      BY <2>2, <2>4 DEF FileInv, StopComesLast
    <3>2. NothingToSettle(a[2]) => NothingToSettle(a[2])'
      BY <1>2, <1>4 DEF NothingToSettle
    <3> QED
      BY <1>2, <2>1, <3>1, <3>2 DEF Onward, Background
  <2>5. StopComesLast'
    BY <1>2, <1>4, <2>2, <2>4 DEF FileInv, StopComesLast
  <2>6. RowFollows'
    BY <1>2, <2>2 DEF FileInv, RowFollows, Abandoned
  <2>7. AllTold'
    BY <1>2, <1>4, <2>2, ToldBegins DEF FileInv, LedgerTold
  <2> QED
    BY <2>3, <2>5, <2>6, <2>7 DEF LedgerTold
<1>5. Failures' # 0 => PidsAreTold' /\ StopComesLast' /\ RowFollows' /\ LedgerTold'
  BY DEF PidsAreTold, StopComesLast, RowFollows, LedgerTold
<1> QED
  BY <1>3, <1>4, <1>5 DEF FileInv
-----------------------------------------------------------------------------
\* One actor moves.
LEMMA OneMoves ==
    ASSUME IInv, FileInv, NEW a \in Actors, NEW at, Go(a, at), op' = op, op = None \/ op.by # a,
           UNCHANGED <<rows, file, targets, history>>,
           faults' \in Nat, crashes' \in Nat, faults' >= faults, crashes' >= crashes,
           at \notin {"new", "upsert", "stop"},
           at = "wait" => pc[a] = "stop",
           a[1] = "worker" => /\ pc[a] \notin Unbegun => at \notin Unbegun
                              /\ pc[a] \notin Over,
           a[1] = "launcher" => pc[a] \notin Ends,
           faults' = 0 =>
               \A b \in Stoppers :
                   \/ seen'[b] = seen[b]
                   \/ seen'[b].pid => \E r \in {rows[b[2]], file[b[2]]} \ {None} : r.pid
    PROVE  FileInv'
<1>1. \A j \in Jobs : Onward(j)
  BY ActorMoves
<1>2. \A b \in Actors : pc'[b] = IF b = a THEN at ELSE pc[b]
  BY DEF IInv, TypeOK, Go
<1>3. \A j \in Background : pc'[Launcher(j)] \in {"new", "upsert"} =>
        pc'[Launcher(j)] = pc[Launcher(j)]
  BY <1>2, ActorFacts
<1>4. \A b \in Stoppers : pc'[b] \in {"stop", "wait"} => pc[b] \in {"stop", "wait"}
  BY <1>2, ActorFacts
<1>5. Failures' = 0 => faults' = 0
  BY FailuresGrow DEF IInv, Failures
<1>6. op # None => pc'[op.by] = pc[op.by]
  BY <1>2 DEF IInv, TypeOK, Ops
<1> QED
  BY <1>1, <1>3, <1>4, <1>5, <1>6, MovesOn

\* Nobody who is elsewhere has an index write under way.
LEMMA NoWrite ==
    ASSUME IInv, NEW a \in Actors, pc[a] \in PcValues \ {"upsert", "failSpawn", "note", "bootFail",
           "begin",
              "run", "finish", "signal", "settle"}
    PROVE  op = None \/ op.by # a
BY DEF IInv, OpIsItsActors, Writes

\* The worker's moves outside its index writes.
LEMMA WorkerMoves ==
    ASSUME IInv, FileInv, NEW j \in Jobs,
           Boot(j) \/ SpawnChild(j) \/ RunEnds(j) \/ TakeSignal(j)
    PROVE  FileInv'
<1> DEFINE w == Worker(j)
<1>1. w \in Actors /\ w[1] = "worker" /\ pc[w] \in PcValues
  BY ActorFacts DEF IInv, TypeOK
<1>2. faults \in Nat /\ crashes \in Nat
  BY DEF IInv, TypeOK
<1>3. CASE Boot(j)
  <2>1. PICK f \in FileReads(j) : Charge(f) /\ Go(w, IF IsRecord(f) THEN "begin" ELSE "bootFail")
    BY <1>3 DEF Boot
  <2>2. /\ pc[w] = "boot" /\ UNCHANGED <<rows, file, op, targets, history, seen>>
        /\ faults' \in Nat /\ crashes' \in Nat /\ faults' >= faults /\ crashes' >= crashes
    BY <1>2, <1>3, <2>1 DEF Boot, Charge, ledger, stopVars
  <2>3. op = None \/ op.by # w
    BY <1>1, <2>2, NoWrite
  <2> HIDE DEF w
  <2>4. \E at \in {"begin", "bootFail"} : Go(w, at)
    BY <2>1
  <2> QED
    BY <1>1, <2>2, <2>3, <2>4, OneMoves DEF Unbegun, Over
<1>4. CASE SpawnChild(j)
  <2>1. UNCHANGED <<rows, file, op, pc, targets, history, seen, faults, crashes>>
    BY <1>4 DEF SpawnChild, ledger, stopVars, budget
  <2>2. \A k \in Jobs : Onward(k)
    BY <2>1 DEF Onward, Begun, LauncherDone
  <2> QED
    BY <1>2, <2>1, <2>2, MovesOn
<1>5. CASE RunEnds(j) \/ TakeSignal(j)
  <2>1. UNCHANGED <<rows, file, op, targets, history, seen, faults, crashes>>
    BY <1>5 DEF RunEnds, TakeSignal, ledger, stopVars, budget
  <2>2. op = None \/ op.by # w
    BY <1>1, <1>5, NoWrite DEF RunEnds, TakeSignal, Locked
  <2>3. pc[w] \in Running \cup {"boot"} /\ \E at \in {"finish", "dead", "signal"} : Go(w, at)
    BY <1>5 DEF RunEnds, TakeSignal
  <2> HIDE DEF w
  <2> QED
    BY <1>1, <1>2, <2>1, <2>2, <2>3, OneMoves DEF Unbegun, Over, Running
<1> QED
  BY <1>3, <1>4, <1>5

\* The launcher spawns the worker, or cannot.
LEMMA SpawnKeeps ==
    ASSUME IInv, FileInv, NEW j \in Background, Spawn(j)
    PROVE  FileInv'
<1>1. j \in Jobs /\ Launcher(j) # Worker(j) /\ pc[Launcher(j)] = "spawn" /\ pc[Worker(j)] = "off"
      /\ Launcher(j) \in Actors /\ Worker(j) \in Actors
  BY ActorFacts DEF IInv, SpawnFirst, Spawn
<1>2. /\ \A b \in Actors \ {Launcher(j), Worker(j)} : pc'[b] = pc[b]
      /\ pc'[Worker(j)] \in {"boot", "off"} /\ pc'[Launcher(j)] \in {"note", "failSpawn"}
  BY <1>1, ActorFacts DEF IInv, TypeOK, Spawn, Go
<1>3. /\ UNCHANGED <<rows, file, op, targets, history, seen>>
      /\ faults' \in Nat /\ crashes' \in Nat /\ faults' >= faults /\ crashes' >= crashes
  BY DEF IInv, TypeOK, Spawn, Fault, ledger, stopVars, budget
<1>4. \A k \in Jobs : Onward(k)
  BY <1>1, <1>2, <1>3, ActorFacts DEF Onward, Begun, LauncherDone, Unbegun, Over, Ends
<1>5. \A k \in Background : pc'[Launcher(k)] \in {"new", "upsert"} =>
        pc'[Launcher(k)] = pc[Launcher(k)]
  BY <1>1, <1>2, ActorFacts
<1>6. \A a \in Stoppers : pc'[a] = pc[a]
  BY <1>1, <1>2, ActorFacts
<1>7. op # None => op.by \in Actors \ {Launcher(j), Worker(j)}
  BY <1>1, NoWrite DEF IInv, TypeOK, Ops, PcValues
<1> QED
  BY <1>2, <1>3, <1>4, <1>5, <1>6, <1>7, MovesOn

\* Whom a cancel or the session's end chooses.
LEMMA PicksKeep ==
    ASSUME IInv, FileInv, PickSweep \/ \E j \in Cancels : PickCancel(j)
    PROVE  FileInv'
<1>1. faults \in Nat /\ crashes \in Nat /\ pc \in [Actors -> PcValues]
  BY DEF IInv, TypeOK
<1>2. CASE PickSweep
  <2>1. UNCHANGED <<rows, file, op, targets, history, faults, crashes>>
    BY <1>2 DEF PickSweep, ledger, stopVars, budget
  <2>2. \A a \in Actors : /\ a[1] \in {"worker", "launcher"} => pc'[a] = pc[a]
                          /\ pc'[a] \in {pc[a], "settle", "end"}
    BY <1>2, ActorFacts DEF PickSweep
  <2>3. \A k \in Jobs : Onward(k)
    BY <2>1, <2>2, ActorFacts DEF Onward, Begun, LauncherDone
  <2>4. \A a \in Stoppers : \/ seen'[a] = seen[a]
                            \/ seen'[a].pid => \E r \in {rows[a[2]], file[a[2]]} \ {None} : r.pid
    BY <1>2, RecordFacts DEF PickSweep, IsActive
  <2>5. \A a \in Stoppers : pc'[a] \in {"stop", "wait"} => pc[a] \in {"stop", "wait"}
    BY <2>2, ActorFacts
  <2>6. \A k \in Background : pc'[Launcher(k)] = pc[Launcher(k)]
    BY <2>2, ActorFacts
  <2>7. op # None => pc'[op.by] = pc[op.by]
    <3>1. \A a \in Actors : pc'[a] # pc[a] => pc[a] = "pick"
      BY <1>2, ActorFacts DEF IInv, SweepFirst, PickSweep
    <3> QED
      BY <3>1 DEF IInv, TypeOK, Ops, OpIsItsActors, Writes
  <2> QED
    BY <1>1, <2>1, <2>3, <2>4, <2>5, <2>6, <2>7, MovesOn
<1>3. ASSUME NEW j \in Cancels, PickCancel(j)
      PROVE  FileInv'
  <2> DEFINE a == Canceller(j)
  <2>1. a \in Actors /\ a \in Stoppers /\ a[2] = j /\ a[1] = "canceller" /\ j \in Jobs
        /\ pc[a] = "pick" /\ pc[a] \in PcValues
    BY <1>1, <1>3, ActorFacts DEF PickCancel
  <2>2. PICK f \in FileReads(j) :
          /\ Charge(f)
          /\ LET p == RecordedProcesses(f, rows[j], None) IN
             seen' = [seen EXCEPT ![a] = Rec(rows[j].status, p.pid, p.claudePid)]
    BY <1>3 DEF PickCancel
  <2>3. (f = file[j] /\ faults' = faults) \/ faults' = faults + 1
    BY <2>2 DEF FileReads, Charge
  <2>4. /\ UNCHANGED <<rows, file, op, targets, history>> /\ Go(a, "settle")
        /\ faults' \in Nat /\ crashes' \in Nat /\ faults' >= faults /\ crashes' >= crashes
    BY <1>1, <1>3, <2>2 DEF PickCancel, Charge, ledger
  <2>5. op = None \/ op.by # a
    BY <2>1, NoWrite
  <2>6. faults' = 0 =>
          \A b \in Stoppers :
              \/ seen'[b] = seen[b]
              \/ seen'[b].pid => \E r \in {rows[b[2]], file[b[2]]} \ {None} : r.pid
    <3>1. seen \in [Stoppers -> Records \cup {None}]
      BY DEF IInv, TypeOK
    <3>2. seen'[a].pid = RecordedProcesses(f, rows[j], None).pid
      BY <2>1, <2>2, <3>1 DEF Rec
    <3>3. faults' = 0 => f = file[j]
      BY <1>1, <2>3
    <3>4. RecordedProcesses(f, rows[j], None).pid <=> \E r \in {f, rows[j], None} \ {None} : r.pid
      BY DEF RecordedProcesses
    <3> QED
      BY <2>1, <2>2, <3>1, <3>2, <3>3, <3>4
  <2> HIDE DEF a
  <2> QED
    BY <2>1, <2>4, <2>5, <2>6, OneMoves
<1> QED
  BY <1>2, <1>3

\* A stop goes on.
LEMMA StopsKeep ==
    ASSUME IInv, FileInv, NEW a \in Stoppers, Terminate(a) \/ StopEnds(a)
    PROVE  FileInv'
<1>1. a \in Actors /\ a[1] \in {"canceller", "sweeper"} /\ pc[a] \in PcValues
  BY ActorFacts DEF IInv, TypeOK
<1>2. UNCHANGED <<rows, file, op, targets, history, seen, faults, crashes>>
      /\ faults \in Nat /\ crashes \in Nat
  BY DEF IInv, TypeOK, Terminate, StopEnds, ledger, stopVars, budget
<1>3. \/ pc[a] = "stop" /\ \E at \in {"wait", "left"} : Go(a, at)
      \/ pc[a] = "wait" /\ Go(a, "stopped")
  BY DEF Terminate, StopEnds
<1>4. op = None \/ op.by # a
  BY <1>1, <1>3, NoWrite
<1> QED
  BY <1>1, <1>2, <1>3, <1>4, OneMoves

\* An actor dies on its own.
LEMMA CrashKeeps ==
    ASSUME IInv, FileInv, NEW a \in Actors, Crash(a)
    PROVE  FileInv'
<1>1. /\ UNCHANGED <<rows, file, targets, history>> /\ op' \in {op, None}
      /\ faults' \in Nat /\ crashes' \in Nat /\ faults' >= faults /\ crashes' >= crashes
      /\ crashes' # 0
  BY DEF IInv, TypeOK, Crash, ledger, stopVars
<1>2. Failures' # 0
  BY <1>1, FailuresGrow DEF IInv, TypeOK
<1>3. \A k \in Background : pc'[Launcher(k)] \in {"new", "upsert"} =>
        pc'[Launcher(k)] = pc[Launcher(k)]
  BY ActorFacts DEF IInv, TypeOK, Crash, Go
<1> QED
  BY <1>1, <1>2, <1>3, MovesOn
-----------------------------------------------------------------------------
\* The kill of a stop takes the worker's write along, half done or not.
LEMMA HardKillKeeps ==
    ASSUME IInv, FileInv, NEW a \in Stoppers, HardKill(a)
    PROVE  FileInv'
<1> DEFINE j == a[2]
           w == Worker(j)
<1>1. /\ j \in Jobs /\ w \in Actors /\ w[1] = "worker" /\ w[2] = j /\ w \notin Stoppers
      /\ pc[a] = "wait" /\ targets[a].pid /\ pc[w] \notin Over /\ Go(w, "killed")
      /\ op' = IF op # None /\ op.by = w THEN None ELSE op
  BY ActorFacts DEF HardKill, Locked
<1>2. UNCHANGED <<rows, file, targets, history, seen, faults, crashes>>
      /\ UNCHANGED <<winners, forgotten>> /\ faults \in Nat /\ crashes \in Nat
  BY DEF IInv, TypeOK, HardKill, ledger, stopVars, history, budget
<1> HIDE DEF w
<1>3. CASE op = None \/ op.by # w
  BY <1>1, <1>2, <1>3, OneMoves DEF Unbegun
<1>4. CASE op # None /\ op.by = w
  <2>1. \A b \in Actors : pc'[b] = IF b = w THEN "killed" ELSE pc[b]
    BY <1>1 DEF IInv, TypeOK, Go
  <2>2. op' = None /\ op.job = j /\ Failures' = Failures
    BY <1>1, <1>2, <1>4, ActorFacts DEF IInv, OpIsItsActors, Failures
  <2>3. \A k \in Jobs : Onward(k)
    BY <1>1, <1>4, <2>1, <2>2, ActorFacts DEF w, Onward, Begun, LauncherDone, Unbegun, Over
  <2>4. \A k \in Jobs : Told(k) => Told(k)'
    BY <2>3, ToldStays
  <2>5. \A b \in Stoppers : b[2] \in Jobs /\ pc'[b] = pc[b]
    BY <1>1, <2>1, ActorFacts
  <2>6. PidsAreTold'
    <3>1. Failures = 0 =>
             /\ \A k \in Jobs : \A r \in {rows[k], file[k]} \ {None} : r.pid => Told(k)'
             /\ \A b \in Stoppers : /\ targets[b].pid => Told(b[2])'
                                    /\ seen[b] # None /\ seen[b].pid => Told(b[2])'
      BY <2>4, <2>5 DEF FileInv, PidsAreTold
    <3> HIDE DEF Told
    <3> QED
      BY <1>2, <2>2, <3>1 DEF PidsAreTold
  <2>7. Failures = 0 =>
          \A b \in Stoppers : b \in winners[b[2]] /\ targets[b].pid =>
              b[2] \in Foreground \/ LauncherDone(b[2])' \/ NothingToSettle(b[2])'
    <3>1. \A k \in Jobs : NothingToSettle(k) => NothingToSettle(k)'
      BY <1>2, <2>2, <2>3 DEF NothingToSettle, Onward
    <3>2. \A b \in Stoppers : LauncherDone(b[2]) => b[2] \in Foreground \/ LauncherDone(b[2])'
      BY <2>3, <2>5 DEF Onward, Background
    <3> QED
      BY <2>5, <3>1, <3>2 DEF FileInv, StopComesLast
  <2>8. StopComesLast'
    BY <1>2, <2>2, <2>5, <2>7 DEF FileInv, StopComesLast
  <2>9. Failures = 0 /\ IsTerminal(op.row) => Abandoned(j)'
    <3>1. ASSUME Failures = 0, IsTerminal(op.row)
          PROVE  Abandoned(j)'
      <4>1. j \in Foreground \/ LauncherDone(j) \/ NothingToSettle(j)
        BY <1>1, <3>1 DEF FileInv, StopComesLast
      <4>2. ~NothingToSettle(j)
        BY <1>4, <2>2, <3>1, RecordFacts DEF w, NothingToSettle
      <4>3. j \in Background => pc[Launcher(j)] \in Ends /\ Launcher(j) \in Actors
            /\ Launcher(j) # w
        BY <1>1, <1>4, <4>1, <4>2, ActorFacts DEF LauncherDone, Background
      <4> QED
        BY <1>1, <2>1, <4>3 DEF w, Abandoned, Over
    <3> QED
      BY <3>1
  <2>10. \A k \in Jobs : Abandoned(k) => Abandoned(k)'
    BY <2>3 DEF Abandoned, Onward
  <2>11. RowFollows'
    BY <1>2, <2>2, <2>9, <2>10 DEF FileInv, RowFollows
  <2>12. OpenFile'
    BY <2>2 DEF OpenFile
  <2>13. FreshFile'
    BY <1>1, <1>2, <2>1, ActorFacts DEF FileInv, FreshFile
  <2>14. LedgerTold'
    <3>1. ASSUME Failures = 0
          PROVE  AllTold'
      <4>1. AllTold /\ op.row \in Records \cup {None} /\ file[j] \in Records \cup {None}
            /\ rows[j] \in Records \cup {None} /\ op.file \in Records \cup {None}
        BY <1>1, <1>4, <3>1 DEF FileInv, LedgerTold, IInv, TypeOK, Ops
      <4>2. op.row # None => j \in forgotten
        BY <1>1, <1>4, <2>2, <3>1 DEF FileInv, StopComesLast, IInv, WinnerHasRow, OpenRow
      <4>3. faults = 0
        BY <1>2, <3>1 DEF Failures
      <4>4. op.row # None /\ op.step = "index" /\ IsTerminal(op.row) => IsTerminal(file[j])
        BY <1>4, <2>2, <4>1, <4>3, RecordFacts DEF IInv, OpAgrees
      <4>5. op.row # None /\ op.step = "index" /\ IsActive(op.row) => Says(file[j], op.row.status)
        BY <1>4, <2>2, <4>1, <4>3, RecordFacts DEF IInv, OpAgrees, AllTold, OpTold, Says
      <4>6. IsActive(op.row) /\ IsActive(rows[j]) => op.row.status = rows[j].status
        BY <1>1, <1>4, <2>2, <4>1, <4>2, RecordFacts
           DEF AllTold, OpTold, JobTold, Says, IsActive, Active
      <4>7. op.row # None /\ op.step = "index" /\ IsActive(rows[j]) =>
               Says(file[j], rows[j].status) \/ (IsTerminal(file[j]) /\ j \in forgotten)
        BY <4>1, <4>2, <4>4, <4>5, <4>6, RecordFacts
      <4>8. \A k \in Jobs : Starting(k) => k = j /\ pc'[Worker(k)] = "killed"
        BY <1>1, <1>4, <2>1, <2>2, ActorFacts DEF w, Starting
      <4>9. \A k \in Jobs :
               /\ pc[Worker(k)] \notin Unbegun => pc'[Worker(k)] \notin Unbegun
               /\ k \in Background => pc'[Launcher(k)] = pc[Launcher(k)]
        BY <1>1, <2>1, <2>3, ActorFacts DEF Onward
      <4>10. Starting(j) => Abandoned(j)'
        <5>1. ASSUME Starting(j)
              PROVE  Abandoned(j)'
          <6>1. j \in Foreground \/ LauncherDone(j)
            BY <1>1, <3>1, <5>1
               DEF FileInv, StopComesLast, NothingToSettle, Starting, Unbegun
          <6>2. j \in Background => pc'[Launcher(j)] \in Ends
            BY <1>1, <1>4, <2>1, <6>1, ActorFacts DEF w, LauncherDone, Background
          <6> QED
            BY <1>1, <4>8, <5>1, <6>2 DEF Abandoned, Over
        <5> QED
          BY <5>1
      <4>11. ASSUME NEW k \in Jobs
             PROVE  JobTold(k)'
        <5>1. JobTold(k)
          BY <4>1 DEF AllTold
        <5>2. Starting(k) => Abandoned(k)' /\ pc'[Worker(k)] \notin Unbegun
          BY <4>8, <4>10 DEF Unbegun
        <5>3. IsActive(rows[k]) => \/ Says(file[k], rows[k].status)
                                   \/ IsTerminal(file[k]) /\ k \in forgotten
          BY <1>4, <2>2, <4>7, <5>1 DEF JobTold
        <5> HIDE DEF Starting, Abandoned, Unbegun
        <5> QED
          BY <1>2, <2>10, <4>9, <5>1, <5>2, <5>3 DEF JobTold, Says, IsActive, IsTerminal
      <4> QED
        BY <2>2, <4>11 DEF AllTold, OpTold
    <3> QED
      BY <2>2, <3>1 DEF LedgerTold
  <2> QED
    BY <2>6, <2>8, <2>11, <2>12, <2>13, <2>14 DEF FileInv
<1> QED
  BY <1>3, <1>4

\* The launcher's first write: nobody has heard of the job.
LEMMA SaveQueuedKeeps ==
    ASSUME IInv, FileInv, NEW j \in Background, SaveQueued(j)
    PROVE  FileInv'
<1> DEFINE l == Launcher(j)
<1>1. /\ j \in Jobs /\ l \in Actors /\ l[1] = "launcher" /\ l[2] = j /\ pc[l] = "new"
      /\ pc[Worker(j)] = "off" /\ \A a \in Stoppers : a[2] = j => pc[a] \in {"pick", "end"}
  BY ActorFacts DEF IInv, Untouched, SaveQueued
<1>2. /\ UNCHANGED <<rows, op, seen, targets, winners, forgotten>>
      /\ faults' \in Nat /\ crashes' \in Nat /\ faults' >= faults /\ crashes' >= crashes
  BY DEF IInv, TypeOK, SaveQueued, Fault, stopVars, history, budget
<1>3. \A k \in Jobs : file'[k] = file[k] \/ (k = j /\ file'[k] = QueuedRec)
  BY DEF IInv, TypeOK, SaveQueued
<1>4. \E at \in {"upsert", "end"} : Go(l, at)
  BY DEF SaveQueued
<1>5. op = None \/ op.by # l
  BY <1>1, NoWrite DEF PcValues
<1>6. op # None => op.by # Worker(j) /\ (op.job # j \/ (op.row = None /\ op.file = None))
  BY <1>1, <1>5, QuietJob
<1>7. /\ op # None => op.job \in Jobs
      /\ \A a \in Stoppers : a[2] \in Jobs /\ a \in Actors /\ a # l
  BY <1>1, ActorFacts DEF IInv, TypeOK, Ops
<1>8. \A b \in Actors : pc'[b] = IF b = l THEN pc'[l] ELSE pc[b]
  BY <1>1, <1>4 DEF IInv, TypeOK, Go
<1>9. pc'[l] # "new"
  BY <1>1, <1>4 DEF IInv, TypeOK, Go
<1>10. \A k \in Jobs : Onward(k)
  BY <1>1, <1>2, <1>4, <1>5, ActorMoves DEF Ends
<1>11. \A k \in Jobs : Told(k) => Told(k)'
  BY <1>10, ToldStays
<1>12. /\ Failures \in Nat /\ Failures' \in Nat /\ Failures' >= Failures
       /\ Failures' = 0 => Failures = 0
  BY <1>2, FailuresGrow DEF IInv
<1> HIDE DEF l
<1>13. OpenFile'
  BY <1>2, <1>3, <1>7, <1>12, RecordFacts DEF FileInv, OpenFile
<1>14. FreshFile'
  BY <1>3, <1>8, <1>9, ActorFacts DEF FileInv, FreshFile, l
<1>15. ASSUME Failures' = 0
       PROVE  PidsAreTold' /\ StopComesLast' /\ RowFollows' /\ LedgerTold'
  <2>1. Failures = 0
    BY <1>12, <1>15
  <2>2. PidsAreTold'
    <3>1. \A k \in Jobs : \A r \in {rows[k], file'[k]} \ {None} : r.pid => Told(k)'
      BY <1>3, <1>11, <2>1, RecordFacts DEF FileInv, PidsAreTold
    <3>2. \A a \in Stoppers : /\ targets[a].pid => Told(a[2])'
                              /\ seen[a] # None /\ seen[a].pid => Told(a[2])'
      BY <1>7, <1>11, <2>1 DEF FileInv, PidsAreTold
    <3>3. op # None => /\ op.procs.pid => Told(op.job)'
                       /\ \A r \in {op.row, op.file} \ {None} : r.pid => Told(op.job)'
      BY <1>2, <1>7, <1>11, <2>1 DEF FileInv, PidsAreTold
    <3> HIDE DEF Told
    <3> QED
      BY <1>2, <3>1, <3>2, <3>3 DEF PidsAreTold
  <2>3. ASSUME NEW a \in Stoppers, a \in winners[a[2]], targets[a].pid
        PROVE  a[2] \in Foreground \/ LauncherDone(a[2])' \/ NothingToSettle(a[2])'
    <3>1. a[2] \in Foreground \/ LauncherDone(a[2]) \/ NothingToSettle(a[2])
      BY <2>1, <2>3 DEF FileInv, StopComesLast
    <3>2. a[2] # j
      BY <1>1, <2>3 DEF IInv, StopIsDone
    <3>3. NothingToSettle(a[2]) => NothingToSettle(a[2])'
      BY <1>2, <1>3, <1>7, <1>10, <3>2 DEF NothingToSettle, Onward
    <3> QED
      BY <1>7, <1>10, <3>1, <3>3 DEF Onward, Background
  <2>4. StopComesLast'
    BY <1>2, <1>7, <1>8, <2>1, <2>3 DEF FileInv, StopComesLast
  <2>5. \A k \in Jobs : Abandoned(k) => Abandoned(k)'
    BY <1>10 DEF Abandoned, Onward
  <2>6. RowFollows'
    BY <1>2, <1>3, <2>1, <2>5, RecordFacts DEF FileInv, RowFollows
  <2>7. AllTold'
    <3>1. AllTold /\ op' = op /\ \A b : b # l /\ b \in Actors => pc'[b] = pc[b]
      BY <1>2, <1>8, <2>1 DEF FileInv, LedgerTold
    <3>2. \A k : Starting(k) <=> Starting(k)'
      <4>1. op # None => pc'[op.by] = pc[op.by]
        BY <1>5, <3>1 DEF IInv, TypeOK, Ops
      <4> QED
        BY <3>1, <4>1 DEF Starting
    <3>3. op # None => op.job # j \/ (op.row = None /\ op.file = None /\ ~Starting(j))
      BY <1>6 DEF Starting
    <3>4. OpTold'
      <4>1. ASSUME op # None
            PROVE  OpTold'
        <5>1. OpTold /\ op.job \in Jobs /\ pc'[op.by] = pc[op.by]
          BY <1>5, <1>7, <3>1, <4>1 DEF AllTold, IInv, TypeOK, Ops
        <5>2. op.job = j => op.row = None /\ ~Starting(op.job)
          BY <3>3, <4>1
        <5>3. op.job # j => file'[op.job] = file[op.job]
          BY <1>3, <5>1
        <5>4. Starting(op.job) <=> Starting(op.job)'
          BY <3>1, <3>2
        <5> HIDE DEF Starting
        <5> QED
          BY <1>2, <4>1, <5>1, <5>2, <5>3, <5>4, RecordFacts DEF OpTold, Says
      <4> QED
        BY <3>1, <4>1 DEF OpTold
    <3>5. ASSUME NEW k \in Jobs, k # j
          PROVE  JobTold(k)'
      <4>1. JobTold(k) /\ file'[k] = file[k]
        BY <1>3, <3>1, <3>5 DEF AllTold
      <4>2. k \in Background => pc'[Launcher(k)] = pc[Launcher(k)]
        BY <1>1, <1>8, <3>5, ActorFacts DEF l
      <4>3. pc[Worker(k)] \notin Unbegun => pc'[Worker(k)] \notin Unbegun
        BY <1>10 DEF Onward
      <4> HIDE DEF Starting, Abandoned, Unbegun
      <4> QED
        BY <1>2, <2>5, <3>1, <3>2, <4>1, <4>2, <4>3 DEF JobTold, Says, IsActive, IsTerminal
    <3>6. JobTold(j)'
      <4>1. /\ rows[j] = None /\ rows'[j] = None /\ j \notin forgotten /\ file[j] = None
            /\ j \notin forgotten'
        BY <1>1, <1>2, <3>1 DEF IInv, Untouched, FileInv, FreshFile, AllTold, JobTold, l
      <4>2. \/ file'[j] = QueuedRec
            \/ file'[j] = None /\ pc'[l] = "end"
        BY <1>1, <4>1 DEF IInv, TypeOK, SaveQueued, Go, l
      <4>3. /\ ~Says(file'[j], "running") /\ (file'[j] = QueuedRec => Says(file'[j], "queued"))
            /\ ~IsActive(rows'[j]) /\ ~Says(rows'[j], "running")
        BY <4>1, <4>2, RecordFacts DEF Says, QueuedRec, Rec
      <4> QED
        BY <4>1, <4>2, <4>3 DEF JobTold, Says, l
    <3> QED
      BY <3>4, <3>5, <3>6 DEF AllTold
  <2> QED
    BY <2>2, <2>4, <2>6, <2>7 DEF LedgerTold
<1>16. Failures' # 0 => PidsAreTold' /\ StopComesLast' /\ RowFollows' /\ LedgerTold'
  BY DEF PidsAreTold, StopComesLast, RowFollows, LedgerTold
<1> QED
  BY <1>13, <1>14, <1>15, <1>16 DEF FileInv
-----------------------------------------------------------------------------
\* A settle begins, or finds the job settled.
LEMMA SettleKeeps ==
    ASSUME IInv, FileInv, NEW a \in Actors, NEW j \in Jobs, NEW status \in Terminal,
           NEW fallback \in Records \cup {None}, NEW skipUnknown \in BOOLEAN,
           NEW next \in Ends, NEW late \in [Terminal -> Ends], NEW onError \in Ends,
           \A s \in Terminal : late[s] # "stop",
           a[1] = "worker" => a = Worker(j) /\ skipUnknown /\ pc[a] \notin Over,
           a[1] = "launcher" => pc[a] \notin Ends, pc[a] \notin {"begin", "upsert"},
           Failures = 0 /\ fallback # None /\ fallback.pid => Told(j),
           Settle(a, j, status, fallback, skipUnknown, next, late, onError),
           UNCHANGED <<ledger, procVars, stopVars, history>>
    PROVE  FileInv'
<1> DEFINE o == [Op(a, j) EXCEPT !.onError = onError]
<1>1. op = None
  BY DEF Settle, Locked
<1>2. PICK f \in FileReads(j) :
        /\ Charge(f)
        /\ \/ \E s \in Terminal : Go(a, late[s]) /\ UNCHANGED op
           \/ /\ IsTerminal(f) /\ IsActive(rows[j]) /\ UNCHANGED pc
              /\ Begins([o EXCEPT !.next = late[f.status], !.row = TerminalRec(f.status)])
           \/ /\ IsTerminal(rows[j]) /\ IsActive(f) /\ UNCHANGED pc
              /\ Begins([o EXCEPT !.next = late[rows[j].status],
                 !.file = TerminalRec(rows[j].status)])
           \/ /\ ~IsTerminal(f) /\ ~IsTerminal(rows[j]) /\ UNCHANGED pc
              /\ ~(skipUnknown /\ rows[j] = None /\ f = None)
              /\ Begins([o EXCEPT !.next = next, !.wins = TRUE,
                           !.file = TerminalRec(status), !.row = TerminalRec(status),
                           !.procs = RecordedProcesses(f, rows[j], fallback)])
  BY RecordFacts DEF Settle, RowSettled, IsTerminal
<1>3. rows[j] \in Records \cup {None} /\ file[j] \in Records \cup {None}
      /\ faults \in Nat /\ crashes \in Nat
  BY DEF IInv, TypeOK
<1>4. /\ f \in Records \cup {None, Unreadable}
      /\ faults' \in Nat /\ crashes' \in Nat /\ faults' >= faults /\ crashes' >= crashes
      /\ Failures' = 0 => f = file[j] /\ Failures = 0
  <2>1. /\ f \in Records \cup {None, Unreadable}
        /\ f # Unreadable => f = file[j] /\ faults' = faults
        /\ f = Unreadable => faults' = faults + 1
        /\ faults' \in Nat /\ crashes' = crashes
    BY <1>2, ReadFacts DEF IInv
  <2>2. crashes' \in Nat /\ faults' >= faults /\ crashes' >= crashes
    BY <1>3, <2>1
  <2>3. Failures' = 0 => Failures = 0 /\ faults' = faults
    BY <2>1, <2>2, FailuresGrow DEF IInv
  <2> QED
    BY <1>3, <2>1, <2>2, <2>3
<1>5. UNCHANGED <<rows, file, seen, targets, history, forgotten>>
  BY DEF ledger, stopVars, history
<1>6. CASE \E s \in Terminal : Go(a, late[s]) /\ UNCHANGED op
  <2>1. PICK at \in Ends \ {"stop"} : Go(a, at) /\ UNCHANGED op
    BY <1>6
  <2> QED
    BY <1>1, <1>4, <1>5, <2>1, OneMoves DEF Ends, Unbegun
<1>7. ASSUME UNCHANGED pc, op' \in Ops, op'.by = a, op'.job = j,
             op'.row \in {None} \cup {TerminalRec(s) : s \in Terminal},
             op'.file \in {None} \cup {TerminalRec(s) : s \in Terminal},
             op'.procs.pid => \E r \in {f, rows[j], fallback} \ {None} : r.pid,
             op'.next = "stop" => op'.wins,
             a[1] = "worker" /\ NothingToSettle(j) /\ f = file[j] => op'.row = None,
             op'.row = None \/ op'.wins \/ (IsTerminal(f) /\ IsActive(rows[j]))
      PROVE  FileInv'
  <2>1. ~IsActive(op'.row) /\ ~IsActive(op'.file) /\ \A r \in {op'.row, op'.file} \ {None} : ~r.pid
    BY <1>7, RecordFacts DEF TerminalRec, Rec
  <2>2. Told(j) => Told(j)'
    BY <1>1, <1>7 DEF Told, LauncherDone, Begun
  <2>3. Failures' = 0 /\ op'.procs.pid => Told(j)'
    <3>1. ASSUME Failures' = 0, NEW r \in {f, rows[j], fallback} \ {None}, r.pid
          PROVE  Told(j)
      BY <1>4, <3>1 DEF FileInv, PidsAreTold
    <3> QED
      BY <1>7, <2>2, <3>1
  <2>4. op'.by = Worker(j) => a[1] = "worker"
    BY <1>7, ActorFacts
  <2>5. Failures' = 0 => OpTold'
    <3>1. ASSUME Failures' = 0
          PROVE  OpTold'
      <4>1. ~IsActive(op'.row) /\ \A s \in Active : ~Says(op'.row, s)
        BY <1>7, <2>1, RecordFacts DEF Says, TerminalRec, Rec, Active, Terminal
      <4>2. op'.row = None \/ op'.wins \/ j \in forgotten
        <5>1. JobTold(j) /\ f = file[j]
          BY <1>4, <3>1 DEF FileInv, LedgerTold, AllTold
        <5>2. IsTerminal(file[j]) /\ IsActive(rows[j]) => ~Says(file[j], rows[j].status)
          BY DEF IsTerminal, IsActive, Says, Terminal, Active
        <5> QED
          BY <1>1, <1>7, <5>1, <5>2 DEF JobTold
      <4>3. ~Starting(j)' /\ pc'[op'.by] # "upsert"
        BY <1>7 DEF Starting
      <4> HIDE DEF Starting
      <4> QED
        BY <1>5, <1>7, <4>1, <4>2, <4>3, RecordFacts DEF OpTold, Active
    <3> QED
      BY <3>1
  <2> HIDE DEF Told
  <2> QED
    BY <1>1, <1>4, <1>5, <1>7, <2>1, <2>3, <2>4, <2>5, OpBegins
<1>8. /\ \A s \in Terminal : TerminalRec(s) \in Records
      /\ \A r : IsTerminal(r) => r.status \in Terminal /\ late[r.status] \in Ends
         /\ late[r.status] # "stop"
      /\ Ends \subseteq PcValues /\ None \notin Records
         /\ RecordedProcesses(f, rows[j], fallback) \in Procs
      /\ \A s \in Terminal : TerminalRec(s) # None
  BY RecordFacts DEF Ends, PcValues, Over, RecordedProcesses, Procs, IsTerminal
<1>9. CASE /\ IsTerminal(f) /\ IsActive(rows[j]) /\ UNCHANGED pc
           /\ Begins([o EXCEPT !.next = late[f.status], !.row = TerminalRec(f.status)])
  <2>1. op' = [o EXCEPT !.next = late[f.status], !.row = TerminalRec(f.status), !.step = "index"]
    BY <1>9 DEF Begins, Op
  <2>2. /\ op' \in Ops /\ op'.by = a /\ op'.job = j /\ op'.row = TerminalRec(f.status)
        /\ op'.file = None /\ op'.procs = NoProcs /\ op'.next = late[f.status] /\ ~op'.wins
    BY <1>8, <1>9, <2>1 DEF Op, Ops, NoProcs, Procs
  <2>3. ~NothingToSettle(j)
    BY <1>9 DEF NothingToSettle
  <2> QED
    BY <1>7, <1>8, <1>9, <2>2, <2>3 DEF NoProcs
<1>10. CASE /\ IsTerminal(rows[j]) /\ IsActive(f) /\ UNCHANGED pc
            /\ Begins([o EXCEPT !.next = late[rows[j].status],
                 !.file = TerminalRec(rows[j].status)])
  <2>1. op' = [o EXCEPT !.next = late[rows[j].status], !.file = TerminalRec(rows[j].status),
        !.step = "file"]
    BY <1>8, <1>10 DEF Begins, Op
  <2>2. /\ op' \in Ops /\ op'.by = a /\ op'.job = j /\ op'.file = TerminalRec(rows[j].status)
        /\ op'.row = None /\ op'.procs = NoProcs /\ op'.next = late[rows[j].status] /\ ~op'.wins
    BY <1>8, <1>10, <2>1 DEF Op, Ops, NoProcs, Procs
  <2> QED
    BY <1>7, <1>8, <1>10, <2>2 DEF NoProcs
<1>11. CASE /\ ~IsTerminal(f) /\ ~IsTerminal(rows[j]) /\ UNCHANGED pc
            /\ ~(skipUnknown /\ rows[j] = None /\ f = None)
            /\ Begins([o EXCEPT !.next = next, !.wins = TRUE,
                           !.file = TerminalRec(status), !.row = TerminalRec(status),
                           !.procs = RecordedProcesses(f, rows[j], fallback)])
  <2>1. op' = [o EXCEPT !.next = next, !.wins = TRUE,
                           !.file = TerminalRec(status), !.row = TerminalRec(status),
                           !.procs = RecordedProcesses(f, rows[j], fallback), !.step = "file"]
    BY <1>8, <1>11 DEF Begins, Op
  <2>2. /\ op' \in Ops /\ op'.by = a /\ op'.job = j /\ op'.file = TerminalRec(status)
        /\ op'.row = TerminalRec(status) /\ op'.procs = RecordedProcesses(f, rows[j], fallback)
           /\ op'.wins
    BY <1>8, <2>1 DEF Op, Ops, NoProcs, Procs
  <2>3. a[1] = "worker" /\ f = file[j] => ~NothingToSettle(j)
    BY <1>3, <1>11, RecordFacts DEF NothingToSettle
  <2>4. op'.procs.pid => \E r \in {f, rows[j], fallback} \ {None} : r.pid
    BY <2>2 DEF RecordedProcesses
  <2> QED
    BY <1>7, <1>11, <2>2, <2>3, <2>4
<1> QED
  BY <1>2, <1>6, <1>9, <1>10, <1>11

\* An update begins, or finds the job settled.  The worker's start makes a
\* record of what it does not find, the other two do not.
LEMMA UpdateKeeps ==
    ASSUME IInv, FileInv, NEW a \in Actors, NEW j \in Jobs, NEW patch \in Patches,
           NEW fallback \in {None, QueuedRec, RunningRec}, NEW skipUnknown \in BOOLEAN,
           NEW next \in Ends \cup Running, NEW refused \in Ends \cup Running,
           NEW onError \in Ends \cup Running,
           {next, refused, onError} \cap {"stop"} = {},
           \/ a = Worker(j) /\ pc[a] = "begin" /\ patch = RunningRec /\ fallback = RunningRec
                 /\ next \in Running
           \/ a = Worker(j) /\ pc[a] = "run" /\ fallback = None /\ patch.status = "same"
           \/ j \in Background /\ a = Launcher(j) /\ pc[a] = "note" /\ skipUnknown
                 /\ patch.status = "same",
           UpdateActive(a, j, patch, fallback, skipUnknown, next, refused, onError),
           UNCHANGED <<ledger, procVars, stopVars, history>>
    PROVE  FileInv'
<1>1. op = None
  BY DEF UpdateActive, Locked
<1>2. PICK f \in FileReads(j) :
        LET base == IF IsRecord(f) THEN f ELSE fallback
            o    == [Op(a, j) EXCEPT !.next = next, !.onError = onError]
        IN
        /\ Charge(f)
        /\ \/ \E at \in {refused, next} : Go(a, at) /\ UNCHANGED op
           \/ /\ ~IsTerminal(f) /\ ~IsTerminal(rows[j]) /\ UNCHANGED pc
              /\ rows[j] # None \/ (base # None /\ ~(skipUnknown /\ f = None))
              /\ Begins([o EXCEPT
                   !.file = IF base = None THEN None ELSE Patched(base, patch),
                   !.row  = Patched(IF rows[j] = None THEN base ELSE rows[j], patch)])
  BY DEF UpdateActive, TooLate
<1> DEFINE base == IF IsRecord(f) THEN f ELSE fallback
           o    == [Op(a, j) EXCEPT !.next = next, !.onError = onError]
           row  == Patched(IF rows[j] = None THEN base ELSE rows[j], patch)
           new  == IF base = None THEN None ELSE Patched(base, patch)
<1>3. rows[j] \in Records \cup {None} /\ file[j] \in Records \cup {None}
      /\ faults \in Nat /\ crashes \in Nat
  BY DEF IInv, TypeOK
<1>4. /\ f \in Records \cup {None, Unreadable}
      /\ faults' \in Nat /\ crashes' \in Nat /\ faults' >= faults /\ crashes' >= crashes
      /\ Failures' = 0 => f = file[j] /\ Failures = 0
      /\ Failures' < 2 => f = file[j] \/ Failures = 0
  <2>1. /\ f \in Records \cup {None, Unreadable}
        /\ f # Unreadable => f = file[j] /\ faults' = faults
        /\ f = Unreadable => faults' = faults + 1
        /\ faults' \in Nat /\ crashes' = crashes
    BY <1>2, ReadFacts DEF IInv
  <2>2. crashes' \in Nat /\ faults' >= faults /\ crashes' >= crashes
    BY <1>3, <2>1
  <2>3. Failures' = 0 => Failures = 0 /\ faults' = faults
    BY <2>1, <2>2, FailuresGrow DEF IInv
  <2>4. faults' = faults + 1 /\ Failures' < 2 => Failures = 0
    <3>1. \A x, y \in Nat : (x + 1) + y < 2 => x + y = 0
      OBVIOUS
    <3> QED
      BY <1>3, <2>1, <3>1 DEF Failures
  <2> QED
    BY <1>3, <2>1, <2>2, <2>3, <2>4
<1>5. UNCHANGED <<rows, file, seen, targets, history, forgotten>>
  BY DEF ledger, stopVars, history
<1>6. /\ a[1] \in {"worker", "launcher"} /\ pc[a] \notin Ends \cup Over
      /\ (Ends \cup Running) \cap Unbegun = {} /\ Ends \cup Running \subseteq PcValues
      /\ {next, refused} \cap {"new", "upsert", "stop", "wait"} = {}
  BY ActorFacts DEF Ends, Over, Running, Unbegun, PcValues
<1>7. CASE \E at \in {refused, next} : Go(a, at) /\ UNCHANGED op
  BY <1>1, <1>4, <1>5, <1>6, <1>7, OneMoves
<1>8. CASE /\ ~IsTerminal(f) /\ ~IsTerminal(rows[j]) /\ UNCHANGED pc
           /\ rows[j] # None \/ (base # None /\ ~(skipUnknown /\ f = None))
           /\ Begins([o EXCEPT !.file = new, !.row = row])
  <2>1. base # None => base \in Records /\ IsActive(base)
    BY <1>4, <1>8, RecordFacts DEF IsRecord
  <2>2. rows[j] # None => IsActive(rows[j])
    BY <1>3, <1>8, RecordFacts
  <2>3. row \in Records /\ new \in Records \cup {None}
    BY <1>3, <1>8, <2>1, <2>2, PatchFacts
  <2>3a. /\ IsActive(row) /\ (base # None => new # None)
         /\ base = None => new = None
    BY <1>3, <1>8, <2>1, <2>2, PatchFacts, RecordFacts
  <2>4. f = file[j] => ~NothingToSettle(j)
    <3>1. CASE pc[a] = "begin" /\ a = Worker(j)
      BY <3>1 DEF NothingToSettle, Unbegun
    <3>2. CASE pc[a] # "begin"
      <4>1. f = file[j] /\ NothingToSettle(j) => f = None /\ rows[j] = None
        BY <1>3, <1>8, RecordFacts DEF NothingToSettle
      <4>2. f = None => base = fallback
        BY RecordFacts DEF IsRecord
      <4> QED
        BY <1>8, <3>2, <4>1, <4>2
    <3> QED
      BY <3>1, <3>2
  <2> HIDE DEF row, new
  <2>5. op' = [o EXCEPT !.file = new, !.row = row, !.step = IF new = None THEN "index" ELSE "file"]
    BY <1>8 DEF Begins, Op
  <2>6. op' \in Ops /\ op'.by = a /\ op'.job = j /\ op'.next = next /\ op'.procs = NoProcs
    BY <1>6, <2>3, <2>5 DEF Op, Ops, NoProcs, Procs
  <2>7. Told(j)'
    <3>1. op' # None /\ pc' = pc
      BY <1>8, <2>6, RecordFacts
    <3>2. a = Worker(j) => Begun(j)'
      BY <2>6, <3>1 DEF Begun, Unbegun
    <3>3. a = Launcher(j) /\ pc[a] = "note" => LauncherDone(j)'
      BY <2>6, <3>1 DEF LauncherDone
    <3> QED
      BY <3>2, <3>3 DEF Told
  <2>8. Failures' < 2 => ~IsTerminal(file[j])
    <3>1. CASE f = file[j]
      BY <1>8, <3>1
    <3>2. CASE Failures = 0
      <4>1. ~Abandoned(j)
        BY <1>6 DEF Abandoned
      <4> QED
        BY <1>1, <1>8, <3>2, <4>1 DEF FileInv, RowFollows
    <3> QED
      BY <1>4, <3>1, <3>2
  <2>9. op'.next # "stop"
    BY <2>6
  <2>10. Failures' = 0 => OpTold'
    <3>1. ASSUME Failures' = 0
          PROVE  OpTold'
      <4>1. JobTold(j) /\ f = file[j] /\ ~IsTerminal(file[j]) /\ ~IsTerminal(rows[j])
        BY <1>4, <1>8, <3>1 DEF FileInv, LedgerTold, AllTold
      <4>2. IsActive(rows[j]) => Says(file[j], rows[j].status)
        BY <1>1, <4>1 DEF JobTold
      <4>3. /\ op' # None /\ op'.by = a /\ op'.row = row /\ op'.file = new
            /\ row # None /\ ~IsTerminal(row) /\ pc' = pc /\ op'.job = j /\ op'.next = next
        BY <1>8, <2>3, <2>5, <2>6, <2>3a, RecordFacts DEF Op
      <4>4. CASE pc[a] = "begin"
        <5>1. a = Worker(j) /\ next \in Running /\ patch = RunningRec /\ fallback = RunningRec
          BY <1>6, <4>4 DEF Running, Unbegun
        <5>2. base # None /\ Says(row, "running") /\ Says(new, "running")
          <6>1. base # None /\ row # None /\ new # None
            BY <2>3, <2>3a, <5>1, RecordFacts DEF IsRecord
          <6>2. patch.status = "running"
            BY <5>1 DEF RunningRec, Rec
          <6>3. row.status = "running" /\ new.status = "running"
            BY <6>1, <6>2 DEF row, new, Patched, Rec
          <6> QED
            BY <6>1, <6>3 DEF Says
        <5>3. Starting(j)'
          BY <4>3, <4>4, <5>1 DEF Starting
        <5> HIDE DEF Starting
        <5> QED
          BY <4>3, <4>4, <5>1, <5>2, <5>3 DEF OpTold, Says
      <4>5. CASE pc[a] # "begin"
        <5>1. /\ ~Starting(j)' /\ pc'[op'.by] # "upsert" /\ patch.status = "same" /\ ~Abandoned(j)
              /\ fallback = None \/ skipUnknown
          BY <1>6, <4>3, <4>5 DEF Starting, Abandoned
        <5>2. row.status = (IF rows[j] = None THEN base ELSE rows[j]).status
              /\ (base # None => new.status = base.status) /\ (new = None <=> base = None)
          BY <2>3, <2>3a, <5>1, RecordFacts DEF row, new, Patched, Rec
        <5>3. CASE rows[j] = None
          <6>1. base = file[j] /\ file[j] # None
            BY <1>3, <1>8, <4>1, <5>1, <5>3, RecordFacts DEF IsRecord
          <6>2. ~Says(file[j], "running") /\ (Says(file[j], "queued") => j \notin forgotten)
            BY <1>1, <4>1, <5>1, <5>3 DEF JobTold, Starting
          <6>3. new # None /\ new.status = row.status /\ row.status = file[j].status
            BY <5>2, <5>3, <6>1
          <6> HIDE DEF Starting
          <6> QED
            BY <1>5, <4>3, <5>1, <5>3, <6>1, <6>2, <6>3 DEF OpTold, Says
        <5>4. CASE rows[j] # None
          <6>1. IsActive(rows[j]) /\ file[j] # None /\ file[j].status = rows[j].status
            BY <2>2, <4>2, <5>4 DEF Says
          <6>2. base = file[j]
            BY <1>3, <4>1, <6>1, RecordFacts DEF IsRecord
          <6>3. new # None /\ new.status = row.status /\ row.status = rows[j].status
            BY <5>2, <5>4, <6>1, <6>2
          <6>4. Says(rows[j], "queued") => j \notin forgotten
            BY <4>1 DEF JobTold
          <6> HIDE DEF Starting
          <6> QED
            BY <1>5, <4>3, <5>1, <5>4, <6>1, <6>3, <6>4 DEF OpTold, Says
        <5> QED
          BY <5>3, <5>4
      <4> QED
        BY <4>4, <4>5
    <3> QED
      BY <3>1
  <2> HIDE DEF Told
  <2> QED
    BY <1>1, <1>4, <1>5, <1>8, <2>4, <2>6, <2>7, <2>8, <2>9, <2>10, OpBegins
<1> QED
  BY <1>2, <1>7, <1>8
-----------------------------------------------------------------------------
\* Whoever settles a job begins to.
LEMMA SettlingKeeps ==
    ASSUME IInv, FileInv,
           \/ \E j \in Background : FailSpawn(j)
           \/ \E j \in Jobs : BootFail(j) \/ Persist(j) \/ SettleOnSignal(j)
           \/ \E a \in Stoppers : SettleCancelled(a)
    PROVE  FileInv'
<1>1. \A at \in Ends \ {"stop"} : /\ AlwaysTo(at) \in [Terminal -> Ends]
                                 /\ \A s \in Terminal : AlwaysTo(at)[s] # "stop"
  BY DEF AlwaysTo
<1>2. /\ {"cancelled", "failed", "completed"} \subseteq Terminal
         /\ {"end", "dead", "stop"} \subseteq Ends
      /\ {"failSpawn", "bootFail", "finish", "signal", "settle"} \cap (Ends \cup Over) = {}
  BY DEF Terminal, Ends, Over
<1>3. ASSUME NEW j \in Background, FailSpawn(j)
      PROVE  FileInv'
  <2>1. /\ j \in Jobs /\ Launcher(j) \in Actors /\ Launcher(j)[1] = "launcher"
        /\ pc[Launcher(j)] = "failSpawn" /\ UNCHANGED <<ledger, procVars, stopVars, history>>
        /\ Settle(Launcher(j), j, "failed", None, FALSE, "end", AlwaysTo("end"), "end")
    BY <1>3, ActorFacts DEF FailSpawn
  <2> QED
    BY <1>1, <1>2, <2>1, SettleKeeps
<1>4. ASSUME NEW j \in Jobs, BootFail(j) \/ Persist(j) \/ SettleOnSignal(j)
      PROVE  FileInv'
  <2>1. Worker(j) \in Actors /\ Worker(j)[1] = "worker"
    BY ActorFacts
  <2>2. CASE BootFail(j)
    <3>1. /\ pc[Worker(j)] = "bootFail" /\ UNCHANGED <<ledger, procVars, stopVars, history>>
          /\ Settle(Worker(j), j, "failed", None, TRUE, "end", AlwaysTo("end"), "end")
      BY <2>2 DEF BootFail
    <3> QED
      BY <1>1, <1>2, <2>1, <3>1, SettleKeeps
  <2>3. CASE Persist(j)
    <3>1. PICK status \in {"completed", "failed"} :
            Settle(Worker(j), j, status, RunningRec, TRUE, "end", AlwaysTo("end"), "end")
      BY <2>3 DEF Persist
    <3>2. /\ RunningRec \in Records /\ pc[Worker(j)] = "finish"
          /\ UNCHANGED <<ledger, procVars, stopVars, history>>
      BY <2>3, RecordFacts DEF Persist
    <3>3. Told(j)
      BY <3>2 DEF Told, Begun, Unbegun
    <3>4. AlwaysTo("end") \in [Terminal -> Ends] /\ \A s \in Terminal : AlwaysTo("end")[s] # "stop"
      BY <1>1 DEF Ends
    <3> HIDE DEF Told, RunningRec, AlwaysTo
    <3> QED
      BY <1>2, <2>1, <3>1, <3>2, <3>3, <3>4, SettleKeeps
  <2>4. CASE SettleOnSignal(j)
    <3>1. /\ pc[Worker(j)] = "signal" /\ UNCHANGED <<ledger, procVars, stopVars, history>>
          /\ Settle(Worker(j), j, "cancelled", None, TRUE, "dead", AlwaysTo("dead"), "dead")
      BY <2>4 DEF SettleOnSignal
    <3> QED
      BY <1>1, <1>2, <2>1, <3>1, SettleKeeps
  <2> QED
    BY <1>4, <2>2, <2>3, <2>4
<1>5. ASSUME NEW a \in Stoppers, SettleCancelled(a)
      PROVE  FileInv'
  <2> DEFINE found == [AlwaysTo("end") EXCEPT !["cancelled"] = IF a[1] = "sweeper" THEN "stopped"
             ELSE "end"]
  <2>1. /\ a \in Actors /\ a[1] \in {"canceller", "sweeper"} /\ a[2] \in Jobs
        /\ seen[a] \in Records \cup {None} /\ UNCHANGED <<ledger, procVars, stopVars, history>>
        /\ pc[a] = "settle"
    BY <1>5, ActorFacts DEF IInv, TypeOK, SettleCancelled
  <2>2. found \in [Terminal -> Ends] /\ \A s \in Terminal : found[s] # "stop"
    BY <1>1, <1>2 DEF Ends
  <2>3. Settle(a, a[2], "cancelled", seen[a], FALSE, "stop", found, "stop")
    BY <1>5 DEF SettleCancelled
  <2>4. Failures = 0 /\ seen[a] # None /\ seen[a].pid => Told(a[2])
    BY DEF FileInv, PidsAreTold
  <2> HIDE DEF found, Told
  <2> QED
    BY <1>2, <2>1, <2>2, <2>3, <2>4, SettleKeeps
<1> QED
  BY <1>3, <1>4, <1>5

\* Whoever updates an active record begins to.
LEMMA UpdatingKeeps ==
    ASSUME IInv, FileInv,
           \/ \E j \in Background : NotePid(j)
           \/ \E j \in Jobs : MarkRunning(j) \/ ReportChild(j)
    PROVE  FileInv'
<1>1. /\ Rec("same", TRUE, FALSE) \in Patches /\ Rec("same", FALSE, TRUE) \in Patches
      /\ RunningRec \in Patches
      /\ Rec("same", TRUE, FALSE).status = "same" /\ Rec("same", FALSE, TRUE).status = "same"
      /\ "end" \in Ends /\ "run" \in Running /\ "runTold" \in Running
      /\ {"end", "end", "end"} \cap {"stop"} = {}
      /\ {"runTold", "runTold", "run"} \cap {"stop"} = {}
  BY DEF Patches, Ends, Running, Rec
<1>2. ASSUME NEW j \in Background, NotePid(j)
      PROVE  FileInv'
  <2>1. /\ j \in Jobs /\ Launcher(j) \in Actors /\ pc[Launcher(j)] = "note"
        /\ UNCHANGED <<ledger, procVars, stopVars, history>>
        /\ UpdateActive(Launcher(j), j, Rec("same", TRUE, FALSE), QueuedRec, TRUE, "end", "end",
           "end")
    BY <1>2, ActorFacts DEF NotePid
  <2> HIDE DEF Ends, Running, Patches, QueuedRec, Rec
  <2> QED
    BY <1>1, <1>2, <2>1, UpdateKeeps
<1>3. ASSUME NEW j \in Jobs, MarkRunning(j)
      PROVE  FileInv'
  <2>1. /\ Worker(j) \in Actors /\ pc[Worker(j)] = "begin"
        /\ UNCHANGED <<ledger, procVars, stopVars, history>>
        /\ UpdateActive(Worker(j), j, RunningRec, RunningRec, FALSE, "run", "end", "end")
    BY <1>3, ActorFacts DEF MarkRunning
  <2> QED
    BY <1>1, <2>1, UpdateKeeps
<1>4. ASSUME NEW j \in Jobs, ReportChild(j)
      PROVE  FileInv'
  <2>1. /\ Worker(j) \in Actors /\ pc[Worker(j)] = "run"
        /\ UNCHANGED <<ledger, procVars, stopVars, history>>
        /\ UpdateActive(Worker(j), j, Rec("same", FALSE, TRUE), None, FALSE, "runTold", "runTold",
           "run")
    BY <1>4, ActorFacts DEF ReportChild
  <2>2. "runTold" \in Ends \cup Running /\ "run" \in Ends \cup Running
    BY <1>1
  <2> QED
    BY <1>1, <2>1, <2>2, UpdateKeeps
<1> QED
  BY <1>2, <1>3, <1>4

\* The first row of a job, and the rows that a session's end removes.
LEMMA RowsKeep ==
    ASSUME IInv, FileInv, RemoveRows \/ \E j \in Background : Upsert(j)
    PROVE  FileInv'
<1>1. faults \in Nat /\ crashes \in Nat
  BY DEF IInv, TypeOK
<1>2. ASSUME NEW j \in Background, Upsert(j)
      PROVE  FileInv'
  <2>1. /\ j \in Jobs /\ Launcher(j) \in Actors /\ pc[Worker(j)] = "off" /\ op = None
    BY <1>2, ActorFacts DEF IInv, Untouched, Upsert, Locked
  <2>2. op' = [Op(Launcher(j), j) EXCEPT !.row = QueuedRec, !.next = "spawn", !.step = "index"]
    BY <1>2 DEF Upsert, Begins, Op
  <2>3. /\ op' \in Ops /\ op'.job = j /\ op'.row = QueuedRec /\ op'.file = None
           /\ op'.procs = NoProcs
        /\ op'.next = "spawn"
    <3>1. QueuedRec \in Records /\ "spawn" \in PcValues /\ "end" \in PcValues /\ NoProcs \in Procs
      BY RecordFacts DEF PcValues, Over, NoProcs, Procs
    <3> HIDE DEF QueuedRec, NoProcs, Procs, PcValues
    <3> QED
      BY <2>1, <2>2, <3>1 DEF Op, Ops
  <2>4. UNCHANGED <<ledger, pc, stopVars, history, faults, crashes>>
    BY <1>2 DEF Upsert, budget
  <2>5. ~NothingToSettle(j)
    BY <2>1 DEF NothingToSettle, Unbegun
  <2>6. Failures' = 0 => OpTold'
    <3>1. ASSUME Failures' = 0
          PROVE  OpTold'
      <4>1. Failures' = Failures /\ UNCHANGED <<rows, file, forgotten, pc>>
        BY <2>4 DEF Failures, ledger, history
      <4>2. j \notin forgotten /\ Says(file[j], "queued") /\ rows[j] = None
        BY <1>2, <2>1, <3>1, <4>1
           DEF FileInv, LedgerTold, AllTold, JobTold, IInv, Untouched, Upsert
      <4>3. ~Starting(j)'
        BY <2>1, <4>1 DEF Starting
      <4>4. op'.row.status = "queued" /\ op'.row # None /\ ~IsTerminal(op'.row)
        <5>1. QueuedRec.status = "queued"
          BY DEF QueuedRec, Rec
        <5> QED
          BY <2>3, <5>1, RecordFacts
      <4> HIDE DEF Starting
      <4> QED
        BY <2>3, <4>1, <4>2, <4>3, <4>4 DEF OpTold, Says
    <3> QED
      BY <3>1
  <2> HIDE DEF Told
  <2> QED
    BY <1>1, <2>1, <2>3, <2>4, <2>5, <2>6, RecordFacts, OpBegins DEF NoProcs
<1>3. CASE RemoveRows
  <2> DEFINE gone == {j \in Session : pc[Sweeper(j)] = "stopped" /\ rows[j] # None}
  <2>1. /\ pc[Sweep] = "settle" /\ op = None /\ Sweep \in Actors /\ Sweep[1] = "sweep"
        /\ UNCHANGED <<ledger, stopVars, history, faults, crashes>>
    BY <1>3, ActorFacts DEF RemoveRows, Locked, budget
  <2>2. CASE Go(Sweep, "end") /\ UNCHANGED op
    BY <1>1, <2>1, <2>2, OneMoves DEF ledger, stopVars
  <2>3. CASE gone # {} /\ UNCHANGED pc /\ Begins([Op(Sweep,
        CHOOSE j \in gone : TRUE) EXCEPT !.drop = gone])
    <3>1. PICK j \in gone : j = CHOOSE k \in gone : TRUE
      BY <2>3
    <3>2. j \in Jobs /\ gone \subseteq Jobs
      BY ActorFacts, JobsAssumption
    <3> HIDE DEF gone
    <3>3. op' = [Op(Sweep, j) EXCEPT !.drop = gone, !.step = "index"]
      BY <2>3, <3>1 DEF Begins, Op
    <3>4. /\ op' \in Ops /\ op'.job = j /\ op'.row = None /\ op'.file = None /\ op'.procs = NoProcs
          /\ op'.next = "end" /\ op'.by = Sweep
      BY <2>1, <3>2, <3>3 DEF Op, Ops, NoProcs, Procs, PcValues, Over
    <3>5. OpTold'
      <4>1. ~Starting(j)' /\ pc'[op'.by] # "upsert"
        BY <2>1, <2>3, <3>2, <3>4, ActorFacts DEF Starting
      <4> HIDE DEF Starting
      <4> QED
        BY <3>4, <4>1, RecordFacts DEF OpTold, Says
    <3> HIDE DEF Told
    <3> QED
      BY <1>1, <2>1, <2>3, <3>2, <3>4, <3>5, RecordFacts, OpBegins DEF NoProcs
  <2> QED
    BY <1>3, <2>2, <2>3 DEF RemoveRows
<1> QED
  BY <1>2, <1>3
-----------------------------------------------------------------------------
\* What the write of the index makes of a job's row while nothing fails.  The
\* row it places is there, with the file as it was; another row stays, says what
\* its file says, or goes, with the file, when that is not of a job that goes on.
Stays(j) == rows'[j] = rows[j] /\ file'[j] = file[j] /\ (j \in forgotten' <=> j \in forgotten)
IsBack(j) ==
    /\ IsActive(file[j]) /\ rows[j] # None /\ ~IsTerminal(rows[j])
    /\ rows'[j] = file[j] /\ file'[j] = file[j] /\ (j \in forgotten' <=> j \in forgotten)
Goes(j) ==
    /\ ~IsActive(file[j]) /\ rows[j] # None /\ rows'[j] = None /\ file'[j] = None
    /\ IsTerminal(file[j]) \/ IsTerminal(rows[j]) \/ j \in forgotten => j \in forgotten'
IndexMove(j) ==
    IF j \in Written
    THEN rows'[j] = op.row /\ file'[j] = file[j] /\ (j \in forgotten' <=> j \in forgotten)
    ELSE Stays(j) \/ IsBack(j) \/ Goes(j)

\* While nothing fails the index write moves each row as described.
LEMMA CalmIndex ==
    ASSUME IInv, SaveIndex, faults' = 0
    PROVE  Return(TRUE) /\ \A j \in Jobs : IndexMove(j)
<1>1. /\ op # None /\ op.step = "index" /\ op \in Ops /\ op.job \in Jobs
      /\ rows \in [Jobs -> Records \cup {None}] /\ file \in [Jobs -> Records \cup {None}]
      /\ faults \in Nat /\ Indexed \subseteq Jobs
  BY DEF IInv, TypeOK, Ops, SaveIndex, Locked, Indexed
<1>2. CASE ~WritesIndex /\ Return(TRUE) /\ UNCHANGED <<ledger, forgotten, budget>>
  <2>1. Written = {}
    BY <1>2 DEF WritesIndex, Written
  <2> QED
    BY <1>2, <2>1 DEF IndexMove, Stays, ledger
<1>3. CASE Fault
  BY <1>1, <1>3 DEF Fault
<1>4. ASSUME NEW unread \in SUBSET {j \in Leaving : file[j] # None},
             faults' = faults + Cardinality(unread),
             SaveState(unread), DeleteFiles(unread), Forget(Dropped(unread)),
             Return(~(op.failed /\ IsActive(op.row)))
      PROVE  Return(TRUE) /\ \A j \in Jobs : IndexMove(j)
  <2>1. /\ IsFiniteSet(unread) /\ Leaving \subseteq Indexed
    BY <1>1, JobsAssumption, FS_Subset DEF Leaving
  <2>2. Cardinality(unread) \in Nat /\ (Cardinality(unread) = 0 => unread = {})
    BY <2>1, FS_CardinalityType, FS_EmptySet
  <2>3. faults = 0 /\ unread = {}
    BY <1>1, <1>4, <2>2
  <2>4. ~op.failed
    BY <1>1, <2>3 DEF IInv, OpAgrees
  <2>5. ASSUME NEW j \in Jobs
        PROVE  IndexMove(j)
    <3>1. /\ rows'[j] = IF j \in Written THEN NewerJobRecord(rows[j], op.row)
                        ELSE IF j \in PruneJobs THEN rows[j]
                        ELSE IF j \in Restored({}) THEN file[j]
                        ELSE None
          /\ file'[j] = IF j \in Deleted THEN None ELSE file[j]
          /\ j \in forgotten' <=> j \in forgotten \/ j \in Dropped({})
      BY <1>4, <2>3 DEF SaveState, DeleteFiles, Forget
    <3>2. /\ Written \subseteq PruneJobs /\ (j \in Leaving <=> rows[j] # None /\ j \notin PruneJobs)
          /\ j \in PruneJobs \ Written => rows[j] # None
          /\ j \in Written => j = op.job /\ op.row # None
      BY DEF PruneJobs, Leaving, Indexed, Others, Written
    <3>3. /\ j \in Deleted <=> j \in Leaving /\ IsTerminal(file[j])
          /\ j \in Restored({}) <=> j \in Leaving /\ IsActive(file[j])
          /\ j \in Dropped({}) <=> j \in Leaving /\ (IsTerminal(file[j]) \/ IsTerminal(rows[j]))
      BY DEF Deleted, MayDelete, Restored, Dropped
    <3>4. CASE j \in Written
      <4>1. rows'[j] = op.row
        BY <1>1, <3>1, <3>2, <3>4 DEF IInv, OpenRow, NewerJobRecord
      <4> QED
        BY <3>1, <3>2, <3>3, <3>4, <4>1 DEF IndexMove
    <3>5. CASE j \notin Written /\ j \notin Leaving
      BY <3>1, <3>2, <3>3, <3>5 DEF IndexMove, Stays
    <3>6. CASE j \in Leaving /\ IsActive(file[j])
      <4>1. ~IsTerminal(file[j]) /\ ~IsTerminal(rows[j])
        BY <1>1, <2>3, <3>6, RecordFacts DEF IInv, Together
      <4> QED
        BY <3>1, <3>2, <3>3, <3>6, <4>1 DEF IndexMove, IsBack
    <3>7. CASE j \in Leaving /\ ~IsActive(file[j])
      <4>1. IsTerminal(file[j]) \/ file[j] = None
        BY <1>1, <3>7, RecordFacts
      <4> QED
        BY <3>1, <3>2, <3>3, <3>7, <4>1 DEF IndexMove, Goes
    <3> QED
      BY <3>2, <3>4, <3>5, <3>6, <3>7
  <2> QED
    BY <1>4, <2>4, <2>5
<1> QED
  BY <1>2, <1>3, <1>4 DEF SaveIndex

\* So it keeps what the ledger tells.
LEMMA IndexTells ==
    ASSUME IInv, FileInv, SaveIndex, Failures' = 0
    PROVE  AllTold'
<1>1. /\ faults' \in Nat /\ crashes' \in Nat /\ faults' >= faults /\ crashes' >= crashes
  BY IndexMoves DEF Moves
<1>2. faults' = 0 /\ faults = 0 /\ AllTold
  BY <1>1, FailuresGrow DEF IInv, FileInv, LedgerTold
<1>3. Return(TRUE) /\ \A j \in Jobs : IndexMove(j)
  BY <1>2, CalmIndex
<1>4. /\ op # None /\ op.step = "index" /\ op \in Ops /\ op.job \in Jobs /\ op.by \in Actors
      /\ op' = None /\ Writes(op.by, pc[op.by])
      /\ \A b \in Actors : pc'[b] = IF b = op.by THEN op.next ELSE pc[b]
      /\ op.next \in Ends \cup Running \cup {"spawn"}
      /\ op.row \in Records \cup {None} /\ op.file \in Records \cup {None}
      /\ ~op.failed
  BY <1>2, <1>3 DEF SaveIndex, Locked, Return, Go, IInv, TypeOK, Ops, OpIsItsActors, OpAgrees
<1>5. ASSUME NEW j \in Jobs
      PROVE  JobTold(j)'
  <2>1. /\ Worker(j) \in Actors /\ Worker(j)[1] = "worker" /\ JobTold(j) /\ IndexMove(j)
        /\ j \in Background => Launcher(j) \in Actors /\ Launcher(j)[1] = "launcher"
        /\ rows[j] \in Records \cup {None} /\ file[j] \in Records \cup {None}
        /\ j \in Written <=> j = op.job /\ op.row # None
    BY <1>2, <1>3, ActorFacts DEF AllTold, IInv, TypeOK, Written
  <2>2. /\ op.next \notin Unbegun \cup {"new", "upsert"}
        /\ op.by = Worker(j) => pc[Worker(j)] \notin Over
        /\ j \in Background /\ op.by = Launcher(j) => pc[Launcher(j)] \notin Ends
    BY <1>4, <2>1 DEF Ends, Running, Unbegun, Over, Writes
  <2>3. /\ pc[Worker(j)] \notin Unbegun \/ Starting(j) => pc'[Worker(j)] \notin Unbegun
        /\ Abandoned(j) => Abandoned(j)'
        /\ j \in Background /\ pc'[Launcher(j)] \in {"new", "upsert"} =>
              pc'[Launcher(j)] = pc[Launcher(j)] /\ op.by # Launcher(j)
    BY <1>4, <2>1, <2>2 DEF Starting, Abandoned
  <2>4. Starting(j) => j \in Written
    <3>1. Starting(j) => op.by # Sweep /\ op.by[2] = j
      BY <2>1, ActorFacts DEF Starting
    <3>2. Starting(j) => op.job = j
      BY <1>4, <3>1 DEF IInv, OpIsItsActors
    <3> QED
      BY <1>2, <1>4, <2>1, <3>2 DEF AllTold, OpTold, Says
  <2>5. CASE j \in Written
    <3>1. j = op.job /\ op.row # None /\ rows'[j] = op.row /\ file'[j] = file[j]
          /\ (j \in forgotten' <=> j \in forgotten)
      BY <2>1, <2>5 DEF IndexMove
    <3>2. IsActive(op.row) => Says(file[j], op.row.status)
      BY <1>2, <1>4, <3>1, RecordFacts DEF AllTold, OpTold, Says, IInv, OpAgrees
    <3>3. Says(op.row, "running") => pc'[Worker(j)] \notin Unbegun
      BY <1>2, <1>4, <2>1, <2>3, <3>1 DEF AllTold, OpTold, JobTold
    <3>4. Says(op.row, "queued") => j \notin forgotten
      BY <1>2, <1>4, <3>1 DEF AllTold, OpTold
    <3>5. j \in Background => pc'[Launcher(j)] \notin {"new", "upsert"}
      BY <1>4, <2>3, <3>1, QuietJob
    <3> HIDE DEF Starting, Abandoned, Unbegun
    <3> QED
      BY <2>1, <2>3, <3>1, <3>2, <3>3, <3>4, <3>5 DEF JobTold
  <2>6. CASE j \notin Written
    <3>1. /\ ~Starting(j) /\ (Stays(j) \/ IsBack(j) \/ Goes(j))
          /\ op.job # j \/ op.row = None
      BY <2>1, <2>4, <2>6 DEF IndexMove
    <3>2. IsActive(rows[j]) => \/ Says(file[j], rows[j].status)
                               \/ IsTerminal(file[j]) /\ j \in forgotten
      BY <2>1, <3>1 DEF JobTold
    <3> HIDE DEF Starting, Abandoned, Unbegun
    <3>3. CASE Stays(j)
      BY <2>1, <2>3, <3>1, <3>2, <3>3 DEF JobTold, Stays
    <3>4. CASE IsBack(j)
      <4>1. IsActive(rows[j])
        BY <2>1, <3>4, RecordFacts DEF IsBack
      <4>2. Says(file[j], rows[j].status)
        BY <2>1, <3>2, <3>4, <4>1, RecordFacts DEF IsBack
      <4>3. rows'[j].status = rows[j].status /\ rows'[j] # None
        BY <3>4, <4>2 DEF Says, IsBack
      <4> QED
        BY <2>1, <2>3, <3>1, <3>4, <4>2, <4>3 DEF JobTold, IsBack, Says
    <3>5. CASE Goes(j)
      <4>1. ~Says(rows'[j], "queued") /\ ~Says(rows'[j], "running") /\ ~IsActive(rows'[j])
            /\ ~Says(file'[j], "queued") /\ ~Says(file'[j], "running")
        BY <3>5, RecordFacts DEF Goes, Says
      <4>2. j \in Background => pc'[Launcher(j)] \notin {"new", "upsert"}
        BY <2>3, <3>5 DEF Goes, IInv, Untouched
      <4> QED
        BY <4>1, <4>2 DEF JobTold
    <3> QED
      BY <3>1, <3>3, <3>4, <3>5
  <2> QED
    BY <2>5, <2>6
<1> QED
  BY <1>4, <1>5 DEF AllTold, OpTold

\* The call of an index write that is over returns.
LEMMA ReturnKeeps ==
    ASSUME IInv, FileInv, op # None, NEW ok \in BOOLEAN, ok => op.step = "index",
           Return(ok), Moves(ok), UNCHANGED seen, Failures' = 0 => AllTold'
    PROVE  FileInv'
<1>1. /\ op \in Ops /\ op.by \in Actors /\ op.job \in Jobs
      /\ op.row \in Records \cup {None} /\ op.file \in Records \cup {None}
  BY DEF IInv, TypeOK, Ops
<1>2. /\ \A a \in Stoppers : a \in Actors /\ a[2] \in Jobs /\ a # Sweep
      /\ \A j \in Jobs : Worker(j) \in Actors \ Stoppers
      /\ \A j \in Background : Launcher(j) \in Actors /\ j \in Jobs /\ Launcher(j) # Worker(j)
  BY ActorFacts
<1>3. /\ \A w \in Actors \ {op.by} : pc'[w] = pc[w]
      /\ pc'[op.by] = IF ok THEN op.next ELSE op.onError
      /\ op' = None
  BY <1>1 DEF IInv, TypeOK, Return, Go
<1>4. /\ Writes(op.by, pc[op.by])
      /\ op.by # Sweep => op.by[2] = op.job
      /\ pc'[op.by] \in Ends \cup Running \cup {"spawn"}
      /\ pc'[op.by] \in Running => op.by = Worker(op.job)
      /\ pc'[op.by] = "spawn" => op.by = Launcher(op.job) /\ pc[op.by] = "upsert"
      /\ op.wins => IsTerminal(op.row)
      /\ Written = IF op.row = None THEN {} ELSE {op.job}
  BY <1>3 DEF IInv, OpIsItsActors, Ends, Running, Written
<1>5. \A j \in Jobs : /\ rows'[j] \in {rows[j], file[j], None}
                            \cup (IF j \in Written THEN {op.row} ELSE {})
                      /\ file'[j] \in {file[j], None}
                      /\ IsTerminal(rows[j]) /\ IsTerminal(file'[j]) => IsTerminal(rows'[j])
                      /\ ok /\ j \in Written => rows'[j] = op.row /\ file'[j] = file[j]
  BY DEF Moves
<1>6. faults' \in Nat /\ crashes' \in Nat /\ faults' >= faults /\ crashes' >= crashes
      /\ (~ok => faults' # 0)
  BY DEF Moves
<1>7. Failures' = 0 => ok /\ Failures = 0 /\ faults = 0
  BY <1>6, FailuresGrow DEF IInv
<1>8. OpenFile'
  BY <1>3 DEF OpenFile
<1>9. FreshFile'
  <2>1. \A j \in Background : pc'[Launcher(j)] = "new" => pc[Launcher(j)] = "new"
    BY <1>2, <1>3, <1>4 DEF Ends, Running
  <2> QED
    BY <1>2, <1>5, <2>1 DEF FileInv, FreshFile
<1>10. \A j \in Jobs : Onward(j)
  <2> TAKE j \in Jobs
  <2>1. op.by = Worker(j) => pc[op.by] \notin Over /\ pc'[op.by] \notin Unbegun
    BY <1>4, ActorFacts DEF Writes, Over, Unbegun, Ends, Running
  <2>2. /\ Begun(j) => pc'[Worker(j)] \notin Unbegun
        /\ pc[Worker(j)] \notin Unbegun => pc'[Worker(j)] \notin Unbegun
        /\ pc[Worker(j)] \in Over => pc'[Worker(j)] \in Over
    BY <1>2, <1>3, <2>1 DEF Begun
  <2>3. j \in Background /\ op.by = Launcher(j) =>
           pc[op.by] \notin Ends /\ (pc[op.by] = "note" => pc'[op.by] \in Ends)
    BY <1>4, ActorFacts DEF Writes, Ends
  <2>4. j \in Background => /\ LauncherDone(j) => pc'[Launcher(j)] \in Ends
                            /\ pc[Launcher(j)] \in Ends => pc'[Launcher(j)] \in Ends
    BY <1>2, <1>3, <2>3 DEF LauncherDone
  <2> QED
    BY <2>2, <2>4 DEF Onward, Begun, LauncherDone
<1>11. \A j \in Jobs : Told(j) => Told(j)'
  BY <1>10, ToldStays
<1>12. /\ \A a \in Stoppers \ {op.by} : targets'[a] = targets[a]
       /\ ok /\ op.by \in Stoppers => targets'[op.by] = op.procs
       /\ \A j \in Jobs : winners'[j] = IF ok /\ op.wins /\ j = op.job THEN winners[j] \cup {op.by}
          ELSE winners[j]
  BY <1>1 DEF IInv, TypeOK, Return
<1>13. ASSUME Failures' = 0
       PROVE  PidsAreTold' /\ StopComesLast' /\ RowFollows'
  <2>1. ok /\ Failures = 0 /\ faults = 0 /\ op.step = "index" /\ ~op.failed
    BY <1>1, <1>7, <1>13 DEF IInv, OpAgrees
  <2>2. PidsAreTold'
    <3>1. \A j \in Jobs : \A r \in {rows'[j], file'[j]} \ {None} : r.pid => Told(j)
      <4> TAKE j \in Jobs
      <4>1. /\ \A r \in {rows[j], file[j]} \ {None} : r.pid => Told(j)
            /\ j \in Written => j = op.job /\ (op.row # None /\ op.row.pid => Told(j))
        BY <1>4, <2>1 DEF FileInv, PidsAreTold
      <4> HIDE DEF Told
      <4> QED
        BY <1>5, <4>1
    <3>2. \A a \in Stoppers : targets'[a].pid => Told(a[2])
      BY <1>2, <1>4, <1>12, <2>1 DEF FileInv, PidsAreTold
    <3>3. \A a \in Stoppers : seen[a] # None /\ seen[a].pid => Told(a[2])
      BY <2>1 DEF FileInv, PidsAreTold
    <3>4. /\ \A j \in Jobs : \A r \in {rows'[j], file'[j]} \ {None} : r.pid => Told(j)'
          /\ \A a \in Stoppers : /\ targets'[a].pid => Told(a[2])'
                                 /\ seen[a] # None /\ seen[a].pid => Told(a[2])'
      BY <1>2, <1>11, <3>1, <3>2, <3>3
    <3> HIDE DEF Told
    <3> QED
      BY <1>3, <3>4 DEF PidsAreTold
  <2>3. ASSUME NEW a \in Stoppers, a \in winners'[a[2]], targets'[a].pid
        PROVE  a[2] \in Foreground \/ LauncherDone(a[2])' \/ NothingToSettle(a[2])'
    <3> DEFINE j == a[2]
    <3>1. j \in Jobs /\ Worker(j) # a /\ (j \notin Foreground => j \in Background)
      BY <1>2 DEF Background
    <3> HIDE DEF j
    <3>2. CASE a \in winners[j]
      <4>1. a # op.by
        BY <1>4, <3>2, ActorFacts DEF IInv, StopIsDone, Writes, j
      <4>2. j \in Foreground \/ LauncherDone(j) \/ NothingToSettle(j)
        BY <1>12, <2>1, <2>3, <3>2, <4>1 DEF FileInv, StopComesLast, j
      <4>3. NothingToSettle(j) => NothingToSettle(j)'
        BY <1>3, <1>4, <1>5, <1>10, <3>1, RecordFacts DEF NothingToSettle, Onward
      <4> QED
        BY <1>10, <3>1, <4>2, <4>3 DEF Onward, j
    <3>3. CASE a \notin winners[j]
      <4>1. op.wins /\ a = op.by /\ j = op.job /\ op.procs.pid
        <5>1. op.wins /\ a = op.by /\ j = op.job
          <6>1. a \in winners'[j] /\ winners'[j] # winners[j]
            BY <2>3, <3>3 DEF j
          <6>2. winners'[j] = IF ok /\ op.wins /\ j = op.job THEN winners[j] \cup {op.by}
                ELSE winners[j]
            BY <1>12, <3>1
          <6>3. ok /\ op.wins /\ j = op.job
            BY <6>1, <6>2
          <6> QED
            BY <3>3, <6>1, <6>2, <6>3
        <5>2. targets'[a] = op.procs
          BY <1>12, <2>1, <5>1
        <5> QED
          BY <2>3, <5>1, <5>2
      <4>2. j \in Foreground \/ LauncherDone(j) \/ pc[Worker(j)] \notin Unbegun
        BY <2>1, <3>1, <4>1 DEF FileInv, PidsAreTold, Told, Begun
      <4>3. IsTerminal(op.row) /\ j \in Written /\ rows'[j] = op.row /\ file'[j] = file[j]
        BY <1>4, <1>5, <2>1, <3>1, <4>1, RecordFacts
      <4>4. ~IsActive(file[j])
        BY <1>1, <2>1, <4>1, <4>3, RecordFacts DEF IInv, OpAgrees
      <4>5. pc[Worker(j)] \notin Unbegun => NothingToSettle(j)'
        BY <1>1, <1>3, <1>10, <3>1, <4>3, <4>4, RecordFacts DEF NothingToSettle, Onward
      <4> QED
        BY <1>10, <3>1, <4>2, <4>5 DEF Onward, j
    <3> QED
      BY <3>2, <3>3
  <2>4. ASSUME NEW a \in Stoppers, pc'[a] \in {"stop", "wait"}
        PROVE  a \in winners'[a[2]]
    <3>1. CASE a = op.by
      <4>1. op.next = "stop" /\ op.job = a[2]
        BY <1>2, <1>3, <1>4, <2>1, <2>4, <3>1 DEF Ends, Running
      <4> QED
        BY <1>1, <1>12, <2>1, <3>1, <4>1 DEF FileInv, StopComesLast
    <3>2. CASE a # op.by
      BY <1>2, <1>3, <1>12, <2>1, <2>4, <3>2 DEF FileInv, StopComesLast
    <3> QED
      BY <3>1, <3>2
  <2>5. StopComesLast'
    BY <1>3, <2>3, <2>4 DEF StopComesLast
  <2>6. \A j \in Jobs : Abandoned(j) => Abandoned(j)'
    BY <1>10 DEF Abandoned, Onward
  <2>7. ASSUME NEW j \in Jobs, IsTerminal(file'[j])
        PROVE  IsTerminal(rows'[j]) \/ Abandoned(j)'
    <3>1. IsTerminal(file[j])
      BY <1>5, <2>7, RecordFacts
    <3>2. op.job = j /\ IsTerminal(op.row) => IsTerminal(rows'[j])
      BY <1>4, <1>5, <2>1, RecordFacts
    <3> QED
      BY <1>5, <2>1, <2>6, <2>7, <3>1, <3>2 DEF FileInv, RowFollows
  <2>8. RowFollows'
    BY <2>7 DEF RowFollows
  <2> QED
    BY <2>2, <2>5, <2>8
<1>14. Failures' # 0 => PidsAreTold' /\ StopComesLast' /\ RowFollows'
  BY DEF PidsAreTold, StopComesLast, RowFollows
<1> QED
  BY <1>8, <1>9, <1>13, <1>14 DEF FileInv, LedgerTold

\* An index write goes on: the job file is written, or cannot be, and then the
\* index.
LEMMA WritesKeep ==
    ASSUME IInv, FileInv, WriteJobFile \/ SaveIndex
    PROVE  FileInv'
<1>1. op # None /\ UNCHANGED seen
  BY DEF WriteJobFile, SaveIndex, Locked
<1>2. CASE SaveIndex
  <2>1. PICK ok \in BOOLEAN : Return(ok) /\ Moves(ok)
    BY <1>2, IndexMoves
  <2>2. op.step = "index"
    BY <1>2 DEF SaveIndex
  <2>3. Failures' = 0 => AllTold'
    BY <1>2, IndexTells
  <2> QED
    BY <1>1, <2>1, <2>2, <2>3, ReturnKeeps
<1>3. CASE WriteJobFile /\ Fault /\ Return(FALSE) /\ UNCHANGED file
  <2>1. UNCHANGED <<rows, newer, file, forgotten>>
    BY <1>3 DEF WriteJobFile
  <2>2. Moves(FALSE)
    BY <1>3, <2>1, FailedMoves
  <2>3. Failures' # 0
    <3>1. faults' \in Nat /\ crashes' \in Nat /\ faults' >= faults /\ crashes' >= crashes
          /\ faults' # 0
      BY <2>2 DEF Moves
    <3> QED
      BY <3>1, FailuresGrow DEF IInv
  <2> QED
    BY <1>1, <1>3, <2>2, <2>3, ReturnKeeps
<1>4. CASE /\ op.step = "file" /\ UNCHANGED <<rows, pc, targets, winners, forgotten>>
           /\ \/ /\ file' = [file EXCEPT ![op.job] = op.file] /\ UNCHANGED budget
                 /\ op' = [op EXCEPT !.step = "index"]
              \/ /\ UNCHANGED file /\ Fault
                 /\ op' = [op EXCEPT !.step = "index", !.failed = TRUE]
  <2>1. /\ op \in Ops /\ op.by \in Actors /\ op.job \in Jobs /\ op.file \in Records
        /\ op.row \in Records \cup {None}
    BY <1>1, <1>4 DEF IInv, TypeOK, Ops, OpIsItsActors
  <2>2. /\ op' # None /\ op'.by = op.by /\ op'.job = op.job /\ op'.file = op.file
           /\ op'.row = op.row
        /\ op'.step = "index" /\ op'.next = op.next /\ op'.wins = op.wins /\ op'.procs = op.procs
    <3>1. op' \in Ops
      BY <1>4, <2>1 DEF Ops
    <3>2. op' # None
      BY <3>1, RecordFacts
    <3> QED
      BY <1>4, <2>1, <3>2 DEF Ops
  <2>3. /\ \A j \in Jobs : file'[j] = file[j] \/ (j = op.job /\ file'[j] = op.file)
        /\ faults' \in Nat /\ crashes' \in Nat /\ faults' >= faults /\ crashes' >= crashes
    BY <1>4, <2>1 DEF IInv, TypeOK, Fault, budget
  <2>4. \A j \in Jobs : Onward(j)
    BY <1>1, <1>4, <2>2 DEF Onward, Begun, LauncherDone
  <2>5. \A j \in Jobs : Told(j) => Told(j)'
    BY <2>4, ToldStays
  <2>6. /\ Failures \in Nat /\ Failures' \in Nat /\ Failures' >= Failures
        /\ Failures' = 0 => Failures = 0
    BY <2>3, FailuresGrow DEF IInv
  <2>7. \A a \in Stoppers : a[2] \in Jobs
    BY ActorFacts
  <2>8. OpenFile'
    BY <2>2 DEF OpenFile
  <2>9. FreshFile'
    <3>1. ASSUME NEW j \in Background, pc[Launcher(j)] = "new"
          PROVE  op.job # j
      <4>1. op.by # Launcher(j)
        BY <1>1, <3>1, ActorFacts, NoWrite DEF PcValues
      <4> QED
        BY <1>1, <2>1, <3>1, <4>1, QuietJob, RecordFacts
    <3> QED
      BY <1>4, <2>3, <3>1, ActorFacts DEF FileInv, FreshFile
  <2>10. ASSUME Failures' = 0
         PROVE  PidsAreTold' /\ StopComesLast' /\ RowFollows' /\ LedgerTold'
    <3>1. Failures = 0
      BY <2>6, <2>10
    <3>2. PidsAreTold'
      <4>1. op.procs.pid => Told(op.job)
        BY <1>1, <3>1 DEF FileInv, PidsAreTold
      <4>2. \A r \in {op.row, op.file} \ {None} : r.pid => Told(op.job)
        BY <1>1, <3>1 DEF FileInv, PidsAreTold
      <4>3. \A j \in Jobs : \A r \in {rows[j], file'[j]} \ {None} : r.pid => Told(j)
        BY <2>3, <3>1, <4>2 DEF FileInv, PidsAreTold
      <4>4. \A a \in Stoppers : /\ targets[a].pid => Told(a[2])
                                /\ seen[a] # None /\ seen[a].pid => Told(a[2])
        BY <3>1 DEF FileInv, PidsAreTold
      <4>5. /\ \A j \in Jobs : \A r \in {rows[j], file'[j]} \ {None} : r.pid => Told(j)'
            /\ \A a \in Stoppers : /\ targets[a].pid => Told(a[2])'
                                   /\ seen[a] # None /\ seen[a].pid => Told(a[2])'
            /\ \A j \in Jobs : j = op.job =>
                  /\ op.procs.pid => Told(j)'
                  /\ \A r \in {op.row, op.file} \ {None} : r.pid => Told(j)'
        BY <2>1, <2>5, <2>7, <4>1, <4>2, <4>3, <4>4
      <4>6. \A j \in Jobs : j = op'.job =>
               /\ op'.procs.pid => Told(j)'
               /\ \A r \in {op'.row, op'.file} \ {None} : r.pid => Told(j)'
        BY <2>2, <4>5
      <4>7. op'.job \in Jobs
        BY <2>1, <2>2
      <4> HIDE DEF Told
      <4> QED
        BY <1>1, <1>4, <4>5, <4>6, <4>7 DEF PidsAreTold
    <3>3. ASSUME NEW a \in Stoppers, a \in winners[a[2]], targets[a].pid
          PROVE  a[2] \in Foreground \/ LauncherDone(a[2])' \/ NothingToSettle(a[2])'
      <4>1. a[2] \in Foreground \/ LauncherDone(a[2]) \/ NothingToSettle(a[2])
        BY <3>1, <3>3 DEF FileInv, StopComesLast
      <4>2. NothingToSettle(a[2]) => NothingToSettle(a[2])'
        BY <1>1, <1>4, <2>2, <2>3, <2>4, <2>7 DEF NothingToSettle, Onward
      <4> QED
        BY <2>4, <2>7, <4>1, <4>2 DEF Onward, Background
    <3>4. StopComesLast'
      BY <1>1, <1>4, <2>2, <3>1, <3>3 DEF FileInv, StopComesLast
    <3>5. \A j \in Jobs : Abandoned(j) => Abandoned(j)'
      BY <2>4 DEF Abandoned, Onward
    <3>6. IsTerminal(op.file) => op.file = IF op.row = None THEN rows[op.job] ELSE op.row
      BY <1>1 DEF IInv, OpAgrees
    <3>7. RowFollows'
      BY <1>4, <2>2, <2>3, <3>1, <3>5, <3>6 DEF FileInv, RowFollows
    <3>8. AllTold'
      <4>1. AllTold /\ file' = [file EXCEPT ![op.job] = op.file]
        BY <1>1, <1>4, <2>3, <2>6, <2>10, FailuresGrow DEF IInv, FileInv, LedgerTold, Fault
      <4>2. \A k : Starting(k) <=> Starting(k)'
        BY <1>1, <1>4, <2>2 DEF Starting
      <4>3. file'[op.job] = op.file /\ \A k \in Jobs : k # op.job => file'[k] = file[k]
        BY <2>1, <4>1 DEF IInv, TypeOK
      <4>4. IsActive(op.file) => /\ op.row # None /\ op.row.status = op.file.status
                                 /\ Says(op.row, "queued") \/ Says(op.row, "running")
        <5>1. IsActive(op.file) => IsActive(op.row) /\ op.file # None
          BY <1>1, <2>1, RecordFacts DEF IInv, OpAgrees
        <5> QED
          BY <1>1, <4>1, <5>1 DEF AllTold, OpTold, Says, IsActive, Active
      <4>5. OpTold'
        <5>1. OpTold /\ op' # None /\ op'.job = op.job /\ op'.by = op.by /\ op'.row = op.row
              /\ op'.file = op.file /\ op.file # None /\ op'.next = op.next /\ op'.wins = op.wins
          BY <2>1, <2>2, <4>1, RecordFacts DEF AllTold
        <5> QED
          BY <1>1, <1>4, <5>1 DEF OpTold, Says, Starting
      <4>6. ASSUME NEW k \in Jobs, k # op.job
            PROVE  JobTold(k)'
        <5>1. JobTold(k) /\ file'[k] = file[k] /\ (Abandoned(k) <=> Abandoned(k)')
          BY <1>4, <4>1, <4>3, <4>6 DEF AllTold, Abandoned
        <5> HIDE DEF Starting, Abandoned, Unbegun
        <5> QED
          BY <1>4, <2>2, <4>2, <4>6, <5>1 DEF JobTold, Says, IsActive, IsTerminal
      <4>7. ASSUME NEW k \in Jobs, k = op.job
            PROVE  JobTold(k)'
        <5>1. /\ JobTold(k) /\ OpTold /\ (Abandoned(k) <=> Abandoned(k)') /\ file'[k] = op.file
              /\ rows'[k] = rows[k]
          BY <1>4, <4>1, <4>3, <4>7 DEF AllTold, Abandoned
        <5>2. Says(op.file, "running") =>
                 Says(op.row, "running") /\ (Says(rows[k], "running") \/ Starting(k))
          <6>1. Says(op.file, "running") => IsActive(op.file)
            BY DEF Says, IsActive, Active
          <6> QED
            BY <1>1, <4>4, <4>7, <5>1, <6>1 DEF OpTold, Says
        <5>3. Says(op.file, "queued") => k \notin forgotten
          <6>1. Says(op.file, "queued") => IsActive(op.file)
            BY DEF Says, IsActive, Active
          <6> QED
            BY <1>1, <4>4, <4>7, <5>1, <6>1 DEF OpTold, Says
        <5>4. k \in Background => pc'[Launcher(k)] \notin {"new", "upsert"}
          <6>1. CASE k \in Background /\ op.by = Launcher(k)
            BY <1>1, <1>4, <2>1, <5>1, <6>1, ActorFacts, RecordFacts
               DEF IInv, OpIsItsActors, Writes, OpTold
          <6>2. CASE k \in Background /\ op.by # Launcher(k)
            BY <1>1, <1>4, <2>1, <4>7, <6>2, QuietJob, RecordFacts
          <6> QED
            BY <6>1, <6>2
        <5>5. IsActive(rows[k]) => op.row # None
          BY <1>1, <2>1, <4>4, <4>7, RecordFacts DEF IInv, OpAgrees
        <5> HIDE DEF Starting, Abandoned, Unbegun
        <5> QED
          BY <1>4, <2>2, <4>2, <4>7, <5>1, <5>2, <5>3, <5>4, <5>5 DEF JobTold, Says
      <4> QED
        BY <4>5, <4>6, <4>7 DEF AllTold
    <3> QED
      BY <3>2, <3>4, <3>7, <3>8 DEF LedgerTold
  <2>11. Failures' # 0 => PidsAreTold' /\ StopComesLast' /\ RowFollows' /\ LedgerTold'
    BY DEF PidsAreTold, StopComesLast, RowFollows, LedgerTold
  <2> QED
    BY <2>8, <2>9, <2>10, <2>11 DEF FileInv
<1> QED
  BY <1>2, <1>3, <1>4 DEF WriteJobFile

\* Every step keeps what the job files rest on.
LEMMA FileNext == IInv /\ FileInv /\ [Next]_vars => FileInv'
<1> SUFFICES ASSUME IInv, FileInv, [Next]_vars PROVE FileInv'
  OBVIOUS
<1>1. CASE WriteJobFile \/ SaveIndex
  BY <1>1, WritesKeep
<1>2. ASSUME NEW j \in Jobs, WorkerStep(j) \/ WorkStep(j)
      PROVE  FileInv'
  BY <1>2, WorkerMoves, SettlingKeeps, UpdatingKeeps DEF WorkerStep, WorkStep
<1>3. ASSUME NEW j \in Background, LauncherStep(j)
      PROVE  FileInv'
  BY <1>3, SaveQueuedKeeps, RowsKeep, SpawnKeeps, SettlingKeeps, UpdatingKeeps DEF LauncherStep
<1>4. CASE PickSweep \/ \E j \in Cancels : PickCancel(j)
  BY <1>4, PicksKeep
<1>5. CASE RemoveRows
  BY <1>5, RowsKeep
<1>6. ASSUME NEW a \in Stoppers, StopperStep(a)
      PROVE  FileInv'
  BY <1>6, SettlingKeeps, StopsKeep, HardKillKeeps DEF StopperStep
<1>7. ASSUME NEW a \in Actors, Crash(a)
      PROVE  FileInv'
  BY <1>7, CrashKeeps
<1>8. CASE UNCHANGED vars
  <2>1. UNCHANGED <<rows, file, op, pc, seen, targets, history, faults, crashes>>
        /\ faults \in Nat /\ crashes \in Nat
    BY <1>8 DEF IInv, TypeOK, vars, ledger, stopVars, budget
  <2>2. \A j \in Jobs : Onward(j)
    BY <2>1 DEF Onward, Begun, LauncherDone
  <2> QED
    BY <2>1, <2>2, MovesOn
<1> QED
  BY <1>1, <1>2, <1>3, <1>4, <1>5, <1>6, <1>7, <1>8 DEF Next

\* What a step makes of a job file.
LEMMA FileMoves ==
    ASSUME IInv, FileInv, Next, NEW j \in Jobs
    PROVE  /\ IsActive(file[j]) => file'[j] # None
           /\ IsTerminal(file[j]) /\ faults' + crashes' < 2 => ~IsActive(file'[j])
<1>1. file \in [Jobs -> Records \cup {None}] /\ faults \in Nat /\ crashes \in Nat
  BY DEF IInv, TypeOK
<1>2. CASE UNCHANGED file
  BY <1>1, <1>2, RecordFacts
<1>3. CASE SaveIndex
  <2>1. CASE \E unread : DeleteFiles(unread)
    <3>1. file'[j] = file[j] \/ (file'[j] = None /\ IsTerminal(file[j]))
      BY <2>1 DEF DeleteFiles, Deleted, MayDelete
    <3> QED
      BY <1>1, <3>1, RecordFacts
  <2> QED
    BY <1>2, <1>3, <2>1 DEF SaveIndex, ledger
<1>4. CASE WriteJobFile /\ file' = [file EXCEPT ![op.job] = op.file] /\ UNCHANGED budget
  <2>1. op # None /\ op.step = "file" /\ op.file \in Records
    BY <1>4 DEF IInv, TypeOK, Ops, OpIsItsActors, WriteJobFile, Locked
  <2>2. IsActive(op.file) /\ faults' + crashes' < 2 => ~IsTerminal(file[op.job])
    BY <1>4, <2>1 DEF FileInv, OpenFile, Failures, budget
  <2> QED
    BY <1>1, <1>4, <2>1, <2>2, RecordFacts
<1>5. ASSUME NEW k \in Background, SaveQueued(k)
      PROVE  /\ IsActive(file[j]) => file'[j] # None
             /\ IsTerminal(file[j]) => ~IsActive(file'[j])
  <2>1. file[k] = None /\ \/ UNCHANGED file
                          \/ file' = [file EXCEPT ![k] = QueuedRec]
    BY <1>5 DEF FileInv, FreshFile, SaveQueued
  <2> QED
    BY <1>1, <2>1, RecordFacts
<1> QED
  BY <1>2, <1>3, <1>4, <1>5
     DEF Next, WriteJobFile, WorkerStep, WorkStep, LauncherStep, StopperStep, Boot, BootFail,
         MarkRunning, RunEnds, Persist, TakeSignal, SettleOnSignal, SpawnChild, ReportChild,
         Upsert, Spawn, FailSpawn, NotePid, PickCancel, PickSweep, RemoveRows,
         SettleCancelled, Terminate, HardKill, StopEnds, Crash, ledger

\* So it holds throughout.
LEMMA FilesTell == Spec => []FileInv
BY InitFileInv, FileNext, Inductive, PTL DEF Spec

\* Pruning and the sweep never delete the file of a live job (saveStateMerged),
\* and a settled job file never becomes active again (updateActiveJob), but
\* when two things fail.
THEOREM JobFileKeptHolds == Spec => JobFileKept
<1>1. Spec => []FileInv
  BY FilesTell
<1>2. IInv /\ FileInv /\ [Next]_vars =>
        [\A j \in Jobs :
           /\ IsActive(file[j]) => file'[j] # None
           /\ IsTerminal(file[j]) /\ faults' + crashes' < 2 => ~IsActive(file'[j])]_vars
  BY FileMoves
<1> QED
  BY <1>1, <1>2, Inductive, PTL DEF Spec, JobFileKept

-----------------------------------------------------------------------------
(* The ledger tells what JobOutcomes says, step by step: the write of the   *)
(* index moves its own job and those it prunes or restores; every other     *)
(* step tells nothing new, but that a worker is no longer at work.          *)

\* At first no job has a row or a settler, and no worker is at work.
LEMMA InitOutcomes == Init => Ledger!Init
<1> SUFFICES ASSUME Init PROVE Ledger!Init
  OBVIOUS
<1>1. \A j \in Jobs : pc[Worker(j)] \notin Running
  BY ActorFacts DEF Init, InitialPc, Running
<1>2. Status = [j \in Jobs |-> "absent"] /\ AtWork = {} /\ Disturbed = FALSE
  BY <1>1 DEF Init, Status, AtWork, Disturbed
<1> QED
  BY <1>2 DEF Init, Ledger!Init

\* What the ledger tells of a job.
LEMMA StatusFacts ==
    ASSUME NEW j \in Jobs
    PROVE  /\ Status[j] = IF rows[j] = None THEN "absent" ELSE rows[j].status
           /\ Status'[j] = IF rows'[j] = None THEN "absent" ELSE rows'[j].status
           /\ j \in AtWork <=> pc[Worker(j)] \in Running
           /\ j \in AtWork' <=> pc'[Worker(j)] \in Running
BY DEF Status, AtWork

\* A step that does not write the index tells at most that work has ended.
LEMMA OtherSteps ==
    ASSUME IInv, Next, ~SaveIndex, NEW j \in Jobs
    PROVE  Ledger!Move(j)
<1>1. UNCHANGED <<rows, winners, forgotten>>
  BY DEF Next, WriteJobFile, Return, WorkerStep, WorkStep, LauncherStep, StopperStep, Boot,
         BootFail, MarkRunning, RunEnds, Persist, TakeSignal, SettleOnSignal, SpawnChild,
         ReportChild, SaveQueued, Upsert, Spawn, FailSpawn, NotePid, PickCancel, PickSweep,
         RemoveRows, SettleCancelled, Terminate, HardKill, StopEnds, Crash, ledger, stopVars,
         history
<1>2. pc'[Worker(j)] \in Running => pc[Worker(j)] \in Running
  BY RunStarts
<1>3. /\ Status'[j] = Status[j] /\ winners'[j] = winners[j]
      /\ j \in forgotten' <=> j \in forgotten
      /\ j \in AtWork' => j \in AtWork
  BY <1>1, <1>2, StatusFacts
<1> QED
  BY <1>3 DEF Ledger!Move, Ledger!Stay, Ledger!StopWork, Ledger!SameStatus, Ledger!SameSettlers,
              Ledger!SameWork, Ledger!SameMemory

\* The write of the index moves each job as it may.
LEMMA IndexOutcomes ==
    ASSUME IInv, FileInv, Next, SaveIndex, Failures' = 0, NEW j \in Jobs
    PROVE  Ledger!Move(j)
<1>1. /\ faults' \in Nat /\ crashes' \in Nat /\ faults' >= faults /\ crashes' >= crashes
  BY IndexMoves DEF Moves
<1>2. faults' = 0 /\ JobTold(j) /\ OpTold
  BY <1>1, FailuresGrow DEF IInv, FileInv, LedgerTold, AllTold
<1>3. Return(TRUE) /\ IndexMove(j)
  BY <1>2, CalmIndex
<1>4. /\ op # None /\ op \in Ops /\ op.by \in Actors /\ op.row \in Records \cup {None}
      /\ rows[j] \in Records \cup {None} /\ file[j] \in Records \cup {None}
      /\ j \in Written <=> j = op.job /\ op.row # None
  BY DEF SaveIndex, Locked, IInv, TypeOK, Ops, Written
<1>5. /\ pc'[Worker(j)] = IF op.by = Worker(j) THEN op.next ELSE pc[Worker(j)]
      /\ winners'[j] = IF op.wins /\ j = op.job THEN winners[j] \cup {op.by} ELSE winners[j]
      /\ op.wins => IsTerminal(op.row)
  <2>1. /\ Go(op.by, op.next) /\ Worker(j) \in Actors /\ op.job \in Jobs
        /\ pc \in [Actors -> PcValues] /\ winners \in [Jobs -> SUBSET Actors]
        /\ op.wins => IsTerminal(op.row)
    BY <1>3, <1>4, ActorFacts DEF Return, IInv, TypeOK, OpIsItsActors, Ops
  <2>2. winners' = IF op.wins THEN [winners EXCEPT ![op.job] = @ \cup {op.by}] ELSE winners
    BY <1>3 DEF Return
  <2> QED
    BY <2>1, <2>2 DEF Go
<1>6. pc[Worker(j)] \in Running => pc'[Worker(j)] \in Running
  BY <1>4, <1>5, ActorFacts DEF IInv, OpIsItsActors, Writes, Running
<1>7. pc'[Worker(j)] \in Running /\ pc[Worker(j)] \notin Running => j \in Written /\ Starting(j)
  <2>1. ASSUME pc'[Worker(j)] \in Running, pc[Worker(j)] \notin Running
        PROVE  j \in Written /\ Starting(j)
    <3>1. j \in Written
      BY <1>4, <2>1, RunStarts
    <3>2. op.by = Worker(j) /\ op.next \in Running
      BY <1>5, <2>1
    <3> QED
      BY <1>4, <2>1, <3>1, <3>2 DEF IInv, OpIsItsActors, Starting, Running
  <2> QED
    BY <2>1
<1> DEFINE told(r) == IF r = None THEN "absent" ELSE r.status
           moved   == pc'[Worker(j)] \in Running /\ pc[Worker(j)] \notin Running
<1>8. /\ Status[j] = told(rows[j]) /\ Status'[j] = told(rows'[j])
      /\ IF moved THEN j \in AtWork' /\ j \notin AtWork ELSE j \in AtWork' <=> j \in AtWork
  BY <1>6, StatusFacts
<1>9. \A r \in Records \cup {None} :
        /\ told(r) = IF r = None THEN "absent" ELSE r.status
        /\ IsTerminal(r) => told(r) \in Terminal
        /\ \A status \in Active : Says(r, status) => told(r) = status
        /\ r = None \/ IsTerminal(r) \/ Says(r, "queued") \/ Says(r, "running")
  BY RecordFacts DEF Says, IsTerminal, IsActive, Active
<1>10. Ledger!Outcome = Terminal
  BY DEF Ledger!Outcome, Terminal
<1> HIDE DEF told
<1>11. CASE j \in Written
  <2>1. /\ j = op.job /\ op.row # None /\ rows'[j] = op.row
        /\ (j \in forgotten' <=> j \in forgotten)
        /\ ~IsTerminal(rows[j])
    BY <1>3, <1>4, <1>11 DEF IndexMove, IInv, OpenRow
  <2>2. winners[j] = {} \/ j \in forgotten
    BY <2>1 DEF IInv, WinnerHasRow
  <2>3. moved => Says(op.row, "running")
    BY <1>2, <1>4, <1>7, <2>1 DEF OpTold
  <2>4. CASE Says(op.row, "queued")
    <3>1. /\ rows[j] = None \/ Says(rows[j], "queued")
          /\ j \notin forgotten /\ ~moved /\ winners'[j] = winners[j]
      BY <1>2, <1>4, <1>5, <1>9, <2>1, <2>3, <2>4, RecordFacts
         DEF OpTold, Says, IsTerminal, Terminal
    <3>2. Status'[j] = "queued" /\ Status[j] \in {"absent", "queued"}
          /\ (j \in AtWork' <=> j \in AtWork)
      BY <1>4, <1>8, <1>9, <2>1, <2>4, <3>1 DEF Active
    <3> QED
      BY <2>1, <2>2, <3>1, <3>2
         DEF Ledger!Move, Ledger!Enqueue, Ledger!Stay, Ledger!SameStatus, Ledger!SameSettlers,
             Ledger!SameWork, Ledger!SameMemory
  <2>5. CASE Says(op.row, "running")
    <3>1. winners'[j] = winners[j]
      BY <1>5, <2>5 DEF Says, IsTerminal, Terminal
    <3>2. Status'[j] = "running"
      BY <1>4, <1>8, <1>9, <2>1, <2>5 DEF Active
    <3>3. CASE Says(rows[j], "running")
      <4>1. ~moved
        BY <1>2, <1>7, <3>3 DEF JobTold, Starting, Unbegun
      <4>2. Status[j] = "running" /\ (j \in AtWork' <=> j \in AtWork)
        BY <1>4, <1>8, <1>9, <3>3, <4>1 DEF Active
      <4> QED
        BY <2>1, <3>1, <3>2, <4>2
           DEF Ledger!Move, Ledger!Stay, Ledger!SameStatus, Ledger!SameSettlers,
               Ledger!SameWork, Ledger!SameMemory
    <3>4. CASE ~Says(rows[j], "running")
      <4>1. Starting(j) /\ op.next \in Running
        BY <1>2, <1>4, <2>1, <2>5, <3>4 DEF OpTold
      <4>2. moved
        BY <1>5, <4>1 DEF Starting, Running
      <4>3. Status[j] \in {"absent", "queued"} /\ j \in AtWork' /\ j \notin AtWork
        BY <1>4, <1>8, <1>9, <2>1, <3>4, <4>2 DEF Active
      <4> QED
        BY <2>1, <2>2, <3>1, <3>2, <4>3
           DEF Ledger!Move, Ledger!Start, Ledger!Unsettled, Ledger!SameSettlers, Ledger!SameMemory
    <3> QED
      BY <3>3, <3>4
  <2>6. CASE IsTerminal(op.row)
    <3>1. ~moved
      BY <2>3, <2>6 DEF Says, IsTerminal, Terminal
    <3>2. \/ winners'[j] = winners[j] \cup {op.by}
          \/ winners'[j] = winners[j] /\ j \in forgotten
      BY <1>2, <1>4, <1>5, <2>1, <2>6 DEF OpTold
    <3>3. Status'[j] \in Terminal /\ (j \in AtWork' <=> j \in AtWork)
      BY <1>4, <1>8, <1>9, <2>1, <2>6, <3>1
    <3>4. Status[j] \notin Terminal
      BY <1>4, <1>8, <1>9, <2>1 DEF Active, Terminal
    <3> QED
      BY <1>4, <1>10, <2>1, <2>2, <3>2, <3>3, <3>4
         DEF Ledger!Move, Ledger!Settle, Ledger!Unsettled, Ledger!SameSettlers,
             Ledger!SameWork, Ledger!SameMemory
  <2> QED
    BY <1>4, <1>9, <2>1, <2>4, <2>5, <2>6
<1>12. CASE j \notin Written
  <2>1. ~moved /\ winners'[j] = winners[j] /\ (j \in AtWork' <=> j \in AtWork)
    BY <1>4, <1>5, <1>7, <1>8, <1>12, RecordFacts
  <2>2. IsActive(rows[j]) => \/ Says(file[j], rows[j].status)
                             \/ IsTerminal(file[j]) /\ j \in forgotten
    BY <1>2, <1>4, <1>12 DEF JobTold
  <2>3. CASE Stays(j) \/ IsBack(j)
    <3>1. (j \in forgotten' <=> j \in forgotten)
      BY <2>3 DEF Stays, IsBack
    <3>2. ASSUME IsBack(j)
          PROVE  Status'[j] = Status[j]
      <4>1. Says(file[j], rows[j].status) /\ rows'[j] = file[j] /\ rows[j] # None
        BY <1>4, <2>2, <3>2, RecordFacts DEF IsBack
      <4> QED
        BY <1>4, <1>8, <1>9, <4>1 DEF Says
    <3>3. Status'[j] = Status[j]
      BY <1>8, <2>3, <3>2 DEF Stays
    <3> QED
      BY <2>1, <3>1, <3>3
         DEF Ledger!Move, Ledger!Stay, Ledger!SameStatus, Ledger!SameSettlers,
             Ledger!SameWork, Ledger!SameMemory
  <2>4. CASE Goes(j)
    <3>1. /\ rows'[j] = None /\ ~IsActive(file[j]) /\ rows[j] # None
          /\ IsTerminal(file[j]) \/ IsTerminal(rows[j]) \/ j \in forgotten => j \in forgotten'
      BY <2>4 DEF Goes
    <3>2. IsTerminal(rows[j]) \/ (IsTerminal(file[j]) /\ j \in forgotten)
      <4>1. IsActive(rows[j]) => ~Says(file[j], rows[j].status)
        BY <3>1 DEF Says, IsActive
      <4> QED
        BY <1>4, <2>2, <3>1, <4>1, RecordFacts
    <3>3. Status'[j] = "absent" /\ (Status[j] \in Terminal \/ j \in forgotten) /\ j \in forgotten'
      BY <1>4, <1>8, <1>9, <3>1, <3>2
    <3> QED
      BY <1>10, <2>1, <3>3 DEF Ledger!Move, Ledger!Forget, Ledger!SameSettlers, Ledger!SameWork
  <2> QED
    BY <1>3, <1>12, <2>3, <2>4 DEF IndexMove
<1> QED
  BY <1>11, <1>12

\* Without failures and deaths the ledger implements JobOutcomes: of every job a
\* queue, a start, one outcome of one settler, and nothing else until the job is
\* forgotten; no worker starts on a settled job (jobs/job-lifecycle.ts).
THEOREM OutcomesKeptHolds == Spec => OutcomesKept
<1>1. Spec => []FileInv
  BY FilesTell
<1>2. ASSUME IInv, IInv', FileInv, [Next]_vars
      PROVE  [Ledger!Next]_(Ledger!outcomes)
  <2>1. CASE UNCHANGED vars
    <3>1. UNCHANGED <<rows, winners, pc, forgotten, faults, crashes>>
      BY <2>1 DEF vars, ledger, history, budget
    <3> QED
      BY <3>1 DEF Ledger!outcomes, Status, AtWork, Disturbed
  <2>2. CASE Next /\ Failures' # 0
    <3>1. faults' + crashes' > 0
      <4>1. \A f, c \in Nat : f + c # 0 => f + c > 0
        OBVIOUS
      <4>2. faults' \in Nat /\ crashes' \in Nat
        BY <1>2 DEF IInv, TypeOK
      <4> QED
        BY <2>2, <4>1, <4>2 DEF Failures
    <3> QED
      BY <3>1 DEF Ledger!Next, Disturbed
  <2>3. CASE Next /\ Failures' = 0
    <3>1. \A j \in Jobs : Ledger!Move(j)
      BY <1>2, <2>3, OtherSteps, IndexOutcomes
    <3> QED
      BY <3>1 DEF Ledger!Next
  <2> QED
    BY <1>2, <2>1, <2>2, <2>3
<1>3. IInv /\ IInv' /\ FileInv /\ [Next]_vars => [Ledger!Next]_(Ledger!outcomes)
  BY <1>2
<1> QED
  BY <1>1, <1>3, InitOutcomes, Inductive, PTL DEF Spec, OutcomesKept, Ledger!Spec
=============================================================================
