----------------------------- MODULE JobLedger -----------------------------
(***************************************************************************)
(* The job ledger of one workspace: the index rows of state.json           *)
(* (workspace/state.ts), one job file per job, and everyone who writes     *)
(* them: the launcher of a background job (workflows/companion-jobs.ts),   *)
(* the job's worker process (cli/commands/task.ts, jobs/tracked-jobs.ts),  *)
(* a cancel (cli/commands/cancel.ts) and the session-end sweep             *)
(* (hooks/session-lifecycle.ts).                                           *)
(*                                                                         *)
(* Every index write runs under the index lock (updateState); `op` is the  *)
(* one write in progress: it has read the row and the job file, still has  *)
(* to write the job file, then the index.  The lock is taken to be         *)
(* exclusive here; FileLock says when it is.  Job files are also read and  *)
(* written without it.  A record keeps what the ledger decides on: its     *)
(* status and which of the job's processes it names.                       *)
(***************************************************************************)
EXTENDS Integers, FiniteSets

CONSTANTS
    Jobs,
    Foreground,  \* the jobs run by the command itself, not by a spawned worker
    Claude,      \* the jobs whose run has a headless Claude child
    Cancels,     \* the jobs the user may cancel
    MaxJobs,     \* MAX_JOBS: the rows pruning keeps
    Session,     \* the jobs of the session that ends
    MaxFailures, \* bound: file reads, file writes and spawns that fail, and
                 \* actors that die without being told to
    None         \* no row, no file, nothing to write

ASSUME JobsAssumption ==
    IsFiniteSet(Jobs) /\ Foreground \cup Claude \cup Cancels \cup Session \subseteq Jobs
ASSUME BoundsAssumption == MaxJobs \in Nat \ {0} /\ MaxFailures \in Nat

Active == {"queued", "running"}
CancelledLeftOut == {"completed", "failed"}   \* a slip: the status added last is forgotten
Terminal == {"completed", "failed", "cancelled"}

Rec(status, pid, claudePid) ==
    [status |-> status, pid |-> pid, claudePid |-> claudePid]
Records == [status : Active \cup Terminal, pid : BOOLEAN, claudePid : BOOLEAN]

\* What a read of a job file that exists but cannot be read returns.
Unreadable == Rec("unreadable", FALSE, FALSE)

IsTerminal(r) == r # None /\ r.status \in Terminal
IsActive(r)   == r # None /\ r.status \in Active
IsRecord(r)   == IsTerminal(r) \/ IsActive(r)

Launcher(j)  == <<"launcher", j>>
Worker(j)    == <<"worker", j>>
Canceller(j) == <<"canceller", j>>
Sweeper(j)   == <<"sweeper", j>>      \* the session-end sweep's handling of job j
Sweep        == <<"sweep", None>>     \* and its removal of the rows at the end

Background == Jobs \ Foreground
Stoppers   == {Canceller(j) : j \in Cancels} \cup {Sweeper(j) : j \in Session}
Actors     == {Launcher(j) : j \in Background} \cup {Worker(j) : j \in Jobs}
                \cup Stoppers \cup {Sweep}

VARIABLES
    rows,      \* the index: each job's row
    newer,     \* the rows' updatedAt: <<k, j>> when k's row is newer than j's
    file,      \* each job's file
    op,        \* the index write in progress, or None
    pc,        \* where each actor is
    seen,      \* the record each stopper looked up before its settle
    child,     \* each job's Claude child: "none", "live", "gone"
    termed,    \* the jobs whose worker was sent SIGTERM
    targets,   \* the processes each stopper's settle took off the records
    winners,   \* history: who was told it settled the job
    forgotten, \* history: jobs whose outcome left the ledger: its record was
               \* deleted, or its row restored from a job file that lacks it
    faults,
    crashes

ledger   == <<rows, newer, file>>
procVars == <<child, termed>>
stopVars == <<seen, targets>>
history  == <<winners, forgotten>>
budget   == <<faults, crashes>>
vars     == <<ledger, op, pc, procVars, stopVars, history, budget>>

Running == {"run", "runTold"}            \* the runner has started (job's work)
Over    == {"end", "dead", "killed"}     \* a process that is gone

PcValues == Running \cup Over \cup
    {"new", "upsert", "spawn", "failSpawn", "note", "off", "boot", "bootFail", "begin",
     "finish", "signal", "pick", "settle", "stop", "wait", "stopped", "left"}

NoProcs == [pid |-> FALSE, claudePid |-> FALSE]
Procs   == [pid : BOOLEAN, claudePid : BOOLEAN]

Indexed == {j \in Jobs : rows[j] # None}

\* An index write in progress (see Op).
Ops == [by : Actors, job : Jobs, file : Records \cup {None}, row : Records \cup {None},
        drop : SUBSET Jobs, step : {"file", "index"}, next : PcValues, onError : PcValues,
        procs : Procs, wins : BOOLEAN, failed : BOOLEAN]

ASSUME NoneAssumption == None \notin Records \cup {Unreadable} \cup Ops

TypeOK ==
    /\ rows \in [Jobs -> Records \cup {None}]
    /\ file \in [Jobs -> Records \cup {None}]
    /\ newer \subseteq Indexed \X Indexed
    /\ op \in Ops \cup {None}
    /\ pc \in [Actors -> PcValues]
    /\ seen \in [Stoppers -> Records \cup {None}]
    /\ child \in [Jobs -> {"none", "live", "gone"}]
    /\ targets \in [Stoppers -> Procs]
    /\ winners \in [Jobs -> SUBSET Actors]
    /\ termed \subseteq Jobs /\ forgotten \subseteq Jobs
    /\ faults \in Nat /\ crashes \in Nat /\ faults + crashes <= MaxFailures

InitialPc(a) ==
    CASE a[1] = "launcher" -> "new"
      [] a[1] = "worker"   -> IF a[2] \in Foreground THEN "begin" ELSE "off"
      [] OTHER             -> "pick"

Init ==
    /\ rows = [j \in Jobs |-> None] /\ file = [j \in Jobs |-> None]
    /\ newer = {}
    /\ op = None
    /\ pc = [a \in Actors |-> InitialPc(a)]
    /\ seen = [a \in Stoppers |-> None]
    /\ child = [j \in Jobs |-> "none"] /\ termed = {}
    /\ targets = [a \in Stoppers |-> NoProcs]
    /\ winners = [j \in Jobs |-> {}] /\ forgotten = {}
    /\ faults = 0 /\ crashes = 0

-----------------------------------------------------------------------------
(* Slips the checked properties must notice: each replaces the definition   *)
(* of the same arity named behind it.                                      *)

FileTooLate(f, row)        == IsTerminal(f)                             \* TooLate
SnapshotOnly(f, row, snap) == IF snap = None THEN NoProcs               \* RecordedProcesses
                              ELSE [pid |-> snap.pid, claudePid |-> snap.claudePid]
FirstOfATie(previous, candidate) ==                                     \* NewerJobRecord
    IF previous = None THEN candidate ELSE previous
WhateverItHolds(j)         == TRUE                                      \* MayDelete

-----------------------------------------------------------------------------
(* Records (job-lifecycle.ts).                                             *)

Go(a, at) == pc' = [pc EXCEPT ![a] = at]

MayFail == faults + crashes < MaxFailures
Fault   == MayFail /\ faults' = faults + 1 /\ UNCHANGED crashes

\* readJobFileTolerant: the file, or Unreadable when the read fails.
FileReads(j) == {file[j]} \cup
    (IF file[j] # None /\ MayFail THEN {Unreadable} ELSE {})

\* What a read costs: an unreadable file is a fault.
Charge(f) == faults' = (IF f = Unreadable THEN faults + 1 ELSE faults) /\ UNCHANGED crashes

\* recordedProcesses: each pid from the first record that names one.
RecordedProcesses(f, row, fallback) ==
    LET named == {f, row, fallback} \ {None}
    IN  [pid |-> \E r \in named : r.pid, claudePid |-> \E r \in named : r.claudePid]

\* A patch of updateActiveJob: a status, or "same", and the pids it adds.
Patched(r, patch) ==
    Rec(IF patch.status = "same" THEN r.status ELSE patch.status,
        r.pid \/ patch.pid, r.claudePid \/ patch.claudePid)

\* withoutProcesses / withTerminalFields: a terminal record names no process.
TerminalRec(status) == Rec(status, FALSE, FALSE)

\* newerJobRecord: terminal status is absorbing; within a class the record
\* written under the lock is the newer one.
NewerJobRecord(previous, candidate) ==
    IF IsTerminal(previous) /\ IsActive(candidate) THEN previous ELSE candidate

-----------------------------------------------------------------------------
(* An index write (updateState).  The step that takes the lock reads the   *)
(* row and the job file and decides (`mutate`); what it decided waits in   *)
(* `op`: the job file to write, the row, the rows to drop, where the actor *)
(* goes on, and what a settle returns.                                     *)

Op(a, j) == [by |-> a, job |-> j, file |-> None, row |-> None, drop |-> {}, step |-> "index",
             next |-> "end", onError |-> "end", procs |-> NoProcs,
             wins |-> FALSE, failed |-> FALSE]

Locked == op # None

RowSettled(row) == IsTerminal(row)
TooLate(f, row) == IsTerminal(f) \/ IsTerminal(row)

\* Where an actor goes on when its job was already settled, by the outcome.
AlwaysTo(at) == [status \in Terminal |-> at]

Begins(o) == op' = [o EXCEPT !.step = IF o.file = None THEN "index" ELSE "file"]

\* settleJob's `mutate`: nothing when the job is unknown; a job file that is
\* already terminal brings the row in line, a row that is brings the job file
\* in line; otherwise both become terminal and the call settled the job.  The
\* actor goes on at `next` when it did, at late[the status found] when not.
Settle(a, j, status, fallback, skipUnknown, next, late, onError) ==
    /\ ~Locked
    /\ \E f \in FileReads(j) :
         LET row     == rows[j]
             unknown == skipUnknown /\ row = None /\ f = None
             o       == [Op(a, j) EXCEPT !.onError = onError]
             settled == [o EXCEPT !.next = next, !.wins = TRUE,
                           !.file = TerminalRec(status), !.row = TerminalRec(status),
                           !.procs = RecordedProcesses(f, row, fallback)]
         IN
         /\ Charge(f)
         /\ \/ /\ unknown
               /\ Go(a, late[status]) /\ UNCHANGED op
            \/ /\ IsTerminal(f) /\ IsActive(row)
               /\ Begins([o EXCEPT !.next = late[f.status], !.row = TerminalRec(f.status)])
               /\ UNCHANGED pc
            \/ /\ IsTerminal(f) /\ ~IsActive(row)
               /\ Go(a, late[f.status]) /\ UNCHANGED op
            \/ /\ ~IsTerminal(f) /\ RowSettled(row) /\ IsActive(f)
               /\ Begins([o EXCEPT !.next = late[row.status], !.file = TerminalRec(row.status)])
               /\ UNCHANGED pc
            \/ /\ ~IsTerminal(f) /\ RowSettled(row) /\ ~IsActive(f)
               /\ Go(a, late[row.status]) /\ UNCHANGED op
            \/ /\ ~unknown /\ ~IsTerminal(f) /\ ~RowSettled(row)
               /\ Begins(settled) /\ UNCHANGED pc

\* updateActiveJob's `mutate`; the next record is the current one patched.
UpdateActive(a, j, patch, fallback, skipUnknown, next, refused, onError) ==
    /\ ~Locked
    /\ \E f \in FileReads(j) :
         LET base == IF IsRecord(f) THEN f ELSE fallback
             o    == [Op(a, j) EXCEPT !.next = next, !.onError = onError]
         IN
         /\ Charge(f)
         /\ \/ /\ TooLate(f, rows[j])
               /\ Go(a, refused) /\ UNCHANGED op
            \/ /\ ~TooLate(f, rows[j])
               /\ \/ /\ rows[j] = None
                     /\ (skipUnknown /\ f = None) \/ base = None
                     /\ Go(a, next) /\ UNCHANGED op
                  \/ /\ rows[j] # None \/ (base # None /\ ~(skipUnknown /\ f = None))
                     /\ Begins([o EXCEPT
                          !.file = IF base = None THEN None ELSE Patched(base, patch),
                          !.row  = Patched(IF rows[j] = None THEN base ELSE rows[j], patch)])
                     /\ UNCHANGED pc

\* The rows an index write has to place: the one it writes, and the others it
\* does not drop.
Written == IF op.row = None THEN {} ELSE {op.job}
Others  == Indexed \ (op.drop \cup {op.job})

\* pruneJobs: the written row is the newest; the first MaxJobs stay.
PruneJobs ==
    LET ahead(j) == {k \in Others : <<k, j>> \in newer} \cup Written
    IN  Written \cup {j \in Others : Cardinality(ahead(j)) < MaxJobs}

\* saveStateMerged.  A row that leaves the index, pruned or dropped, takes its
\* files along when the job file is terminal, goes alone when there is none,
\* and otherwise comes back: from the job file, or as it was when the file
\* cannot be read.
Leaving   == Indexed \ PruneJobs
MayDelete(j) == IsTerminal(file[j])
Deleted   == {j \in Leaving : MayDelete(j)}
Restored(unread) == {j \in Leaving : j \in unread \/ IsActive(file[j])}

SaveState(unread) ==
    LET back  == Restored(unread)
        stays == PruneJobs \cup back
    IN
    /\ rows' = [j \in Jobs |->
         IF j \in Written THEN NewerJobRecord(rows[j], op.row)
         ELSE IF j \in PruneJobs \cup (back \cap unread) THEN rows[j]
         ELSE IF j \in back THEN file[j]
         ELSE None]
    /\ newer' = {p \in stays \X stays : p[2] \notin Written /\ (p \in newer \/ p[1] \in Written)}

DeleteFiles(unread) ==
    file' = [j \in Jobs |-> IF j \in Deleted \ unread THEN None ELSE file[j]]

\* The outcomes the ledger loses: with a file that goes, and with a settled
\* row that leaves whose file does not tell it.
Forget(jobs) == forgotten' = forgotten \cup jobs
Dropped(unread) ==
    (Deleted \ unread) \cup {j \in Leaving \ unread : IsTerminal(rows[j])}

\* What a stopper whose settle threw goes by: the record it looked up, and for
\* the sweep the job file as it is now.
Snapshot(a) ==
    RecordedProcesses(IF a[1] = "sweeper" THEN file[a[2]] ELSE None, None, seen[a])

\* The actor's call returns, or throws when the index could not be written (a
\* stopper then goes by its own snapshot) or, in updateActiveJob, the job file
\* could not (a settle hands that error back instead).
Return(ok) ==
    /\ Go(op.by, IF ok THEN op.next ELSE op.onError)
    /\ op' = None
    /\ targets' = IF op.by \in Stoppers
                  THEN [targets EXCEPT ![op.by] = IF ok THEN op.procs ELSE Snapshot(op.by)]
                  ELSE targets
    /\ winners' = IF ok /\ op.wins THEN [winners EXCEPT ![op.job] = @ \cup {op.by}] ELSE winners

\* The job file is written first; a write that fails is kept for the end.  An
\* index that cannot be read throws before anything is written.
WriteJobFile ==
    /\ Locked /\ op.step = "file"
    /\ \/ /\ file' = [file EXCEPT ![op.job] = op.file]
          /\ op' = [op EXCEPT !.step = "index"]
          /\ UNCHANGED <<pc, targets, winners, budget>>
       \/ /\ Fault
          /\ op' = [op EXCEPT !.step = "index", !.failed = TRUE]
          /\ UNCHANGED <<file, pc, targets, winners>>
       \/ /\ Fault
          /\ Return(FALSE)
          /\ UNCHANGED file
    /\ UNCHANGED <<rows, newer, seen, procVars, forgotten>>

WritesIndex == op.row # None \/ op.drop # {}

SaveIndex ==
    /\ Locked /\ op.step = "index"
    /\ \/ /\ ~WritesIndex
          /\ Return(TRUE)
          /\ UNCHANGED <<ledger, forgotten, budget>>
       \/ /\ WritesIndex
          /\ \E unread \in SUBSET {j \in Leaving : file[j] # None} :
               /\ Cardinality(unread) + faults + crashes <= MaxFailures
               /\ faults' = faults + Cardinality(unread) /\ UNCHANGED crashes
               /\ SaveState(unread)
               /\ DeleteFiles(unread)
               /\ Forget(Dropped(unread))
          /\ Return(~(op.failed /\ IsActive(op.row)))
       \/ /\ WritesIndex
          /\ Fault
          /\ DeleteFiles({}) /\ Forget(Deleted)
          /\ Return(FALSE)
          /\ UNCHANGED <<rows, newer>>
    /\ UNCHANGED <<seen, procVars>>

-----------------------------------------------------------------------------
(* The launcher of a background job (enqueueBackgroundTask).               *)

QueuedRec  == Rec("queued", FALSE, FALSE)
RunningRec == Rec("running", TRUE, FALSE)

\* The job file comes first, without the lock: the worker reads it at once.
SaveQueued(j) ==
    /\ pc[Launcher(j)] = "new"
    /\ \/ /\ file' = [file EXCEPT ![j] = QueuedRec]
          /\ Go(Launcher(j), "upsert") /\ UNCHANGED budget
       \/ Fault /\ Go(Launcher(j), "end") /\ UNCHANGED file
    /\ UNCHANGED <<rows, newer, op, procVars, stopVars, history>>

\* upsertJob
Upsert(j) ==
    /\ pc[Launcher(j)] = "upsert" /\ ~Locked
    /\ Begins([Op(Launcher(j), j) EXCEPT !.row = QueuedRec, !.next = "spawn"])
    /\ UNCHANGED <<ledger, pc, procVars, stopVars, history, budget>>

Spawn(j) ==
    /\ pc[Launcher(j)] = "spawn"
    /\ \/ /\ pc' = [pc EXCEPT ![Launcher(j)] = "note", ![Worker(j)] = "boot"]
          /\ UNCHANGED budget
       \/ Fault /\ Go(Launcher(j), "failSpawn")
    /\ UNCHANGED <<ledger, op, procVars, stopVars, history>>

\* failQueuedJobForSpawnError
FailSpawn(j) ==
    /\ pc[Launcher(j)] = "failSpawn"
    /\ Settle(Launcher(j), j, "failed", None, FALSE, "end", AlwaysTo("end"), "end")
    /\ UNCHANGED <<ledger, procVars, stopVars, history>>

\* recordQueuedWorkerPid
NotePid(j) ==
    /\ pc[Launcher(j)] = "note"
    /\ UpdateActive(Launcher(j), j, Rec("same", TRUE, FALSE), QueuedRec, TRUE, "end", "end", "end")
    /\ UNCHANGED <<ledger, procVars, stopVars, history>>

-----------------------------------------------------------------------------
(* The worker (handleTaskWorker, runTrackedJob).                           *)

\* The detached worker reads its job file; one it cannot find or read fails
\* the job.
Boot(j) ==
    /\ pc[Worker(j)] = "boot"
    /\ \E f \in FileReads(j) :
         /\ Charge(f)
         /\ Go(Worker(j), IF IsRecord(f) THEN "begin" ELSE "bootFail")
    /\ UNCHANGED <<ledger, op, procVars, stopVars, history>>

BootFail(j) ==
    /\ pc[Worker(j)] = "bootFail"
    /\ Settle(Worker(j), j, "failed", None, TRUE, "end", AlwaysTo("end"), "end")
    /\ UNCHANGED <<ledger, procVars, stopVars, history>>

\* markJobRunning: a job that is already terminal is not run.
MarkRunning(j) ==
    /\ pc[Worker(j)] = "begin"
    /\ UpdateActive(Worker(j), j, RunningRec, RunningRec, FALSE,
                    "run", "end", "end")
    /\ UNCHANGED <<ledger, procVars, stopVars, history>>

SpawnChild(j) ==
    /\ j \in Claude /\ pc[Worker(j)] = "run" /\ child[j] = "none"
    /\ child' = [child EXCEPT ![j] = "live"]
    /\ UNCHANGED <<ledger, op, pc, termed, stopVars, history, budget>>

\* The progress updater records the child; what a failed write carried goes
\* out again with the next event.
ReportChild(j) ==
    /\ pc[Worker(j)] = "run" /\ child[j] # "none"
    /\ UpdateActive(Worker(j), j, Rec("same", FALSE, TRUE), None, FALSE, "runTold", "runTold", "run")
    /\ UNCHANGED <<ledger, procVars, stopVars, history>>

ChildGone(j) == child' = [child EXCEPT ![j] = IF @ = "live" THEN "gone" ELSE @]

RunEnds(j) ==
    /\ pc[Worker(j)] \in Running
    /\ ~(Locked /\ op.by = Worker(j))
    /\ Go(Worker(j), "finish") /\ ChildGone(j)
    /\ UNCHANGED <<ledger, op, termed, stopVars, history, budget>>

\* persistTerminalState: a failed write never changes the run's outcome.
Persist(j) ==
    /\ pc[Worker(j)] = "finish"
    /\ \E status \in {"completed", "failed"} :
         Settle(Worker(j), j, status, RunningRec, TRUE, "end", AlwaysTo("end"), "end")
    /\ UNCHANGED <<ledger, procVars, stopVars, history>>

\* SIGTERM: before its handler is installed it ends the worker; later it is
\* handled when the event loop is reached: the Claude children are stopped,
\* the job settled (terminalizeJobForSignal), and the signal raised again.
TakeSignal(j) ==
    /\ j \in termed
    /\ \/ /\ pc[Worker(j)] = "boot"
          /\ Go(Worker(j), "dead") /\ UNCHANGED child
       \/ /\ pc[Worker(j)] \in Running /\ ~(Locked /\ op.by = Worker(j))
          /\ Go(Worker(j), "signal") /\ ChildGone(j)
    /\ UNCHANGED <<ledger, op, termed, stopVars, history, budget>>

SettleOnSignal(j) ==
    /\ pc[Worker(j)] = "signal"
    /\ Settle(Worker(j), j, "cancelled", None, TRUE, "dead", AlwaysTo("dead"), "dead")
    /\ UNCHANGED <<ledger, procVars, stopVars, history>>

-----------------------------------------------------------------------------
(* Cancel and session end: look up, settle, stop what the settle took off  *)
(* the record, and (session end) remove the rows.                          *)

\* resolveCancelableJob, and the job file as read before the settle.
PickCancel(j) ==
    /\ pc[Canceller(j)] = "pick" /\ IsActive(rows[j])
    /\ \E f \in FileReads(j) :
         /\ Charge(f)
         /\ LET p == RecordedProcesses(f, rows[j], None) IN
            seen' = [seen EXCEPT ![Canceller(j)] = Rec(rows[j].status, p.pid, p.claudePid)]
    /\ Go(Canceller(j), "settle")
    /\ UNCHANGED <<ledger, op, procVars, targets, history>>

\* settleRootJobs: the session's active jobs in one snapshot of the index.
PickSweep ==
    /\ pc[Sweep] = "pick"
    /\ pc' = [a \in Actors |->
                IF a = Sweep THEN "settle"
                ELSE IF a[1] = "sweeper" THEN IF IsActive(rows[a[2]]) THEN "settle" ELSE "end"
                ELSE pc[a]]
    /\ seen' = [a \in Stoppers |->
                IF a[1] = "sweeper" /\ IsActive(rows[a[2]]) THEN rows[a[2]] ELSE seen[a]]
    /\ UNCHANGED <<ledger, op, procVars, targets, history, budget>>

SettleCancelled(a) ==
    LET found == [AlwaysTo("end") EXCEPT
                    !["cancelled"] = IF a[1] = "sweeper" THEN "stopped" ELSE "end"] IN
    /\ pc[a] = "settle"
    /\ Settle(a, a[2], "cancelled", seen[a], FALSE, "stop", found, "stop")
    /\ UNCHANGED <<ledger, procVars, stopVars, history>>

\* All of the sweep's jobs are settled before any of them is signalled.
MaySignal(a) == a[1] = "sweeper" => \A j \in Session : pc[Sweeper(j)] # "settle"

\* The polite signal, to the processes the settle named; one whose identity
\* cannot be verified is left alone ('unconfirmed').
Terminate(a) ==
    /\ pc[a] = "stop" /\ MaySignal(a)
    /\ \/ /\ termed' = IF targets[a].pid THEN termed \cup {a[2]} ELSE termed
          /\ child' = [child EXCEPT ![a[2]] =
                         IF targets[a].claudePid /\ @ = "live" THEN "gone" ELSE @]
          /\ Go(a, "wait")
       \/ /\ targets[a] # NoProcs
          /\ Go(a, "left") /\ UNCHANGED procVars
    /\ UNCHANGED <<ledger, op, stopVars, history, budget>>

\* A worker that did not go within its grace is killed, wherever it is.
HardKill(a) ==
    LET w == Worker(a[2]) IN
    /\ pc[a] = "wait" /\ targets[a].pid /\ pc[w] \notin Over
    /\ Go(w, "killed")
    /\ op' = IF Locked /\ op.by = w THEN None ELSE op
    /\ UNCHANGED <<ledger, procVars, stopVars, history, budget>>

StopEnds(a) ==
    /\ pc[a] = "wait"
    /\ targets[a].pid => pc[Worker(a[2])] \in Over
    /\ Go(a, "stopped")
    /\ UNCHANGED <<ledger, op, procVars, stopVars, history, budget>>

\* The rows whose processes were confirmed gone leave the index, and those
\* another cancel had settled; the merge deletes their files.
RemoveRows ==
    LET gone == {j \in Session : pc[Sweeper(j)] = "stopped" /\ rows[j] # None} IN
    /\ pc[Sweep] = "settle" /\ ~Locked
    /\ \A j \in Session : pc[Sweeper(j)] \in Over \cup {"stopped", "left"}
    /\ \/ /\ gone = {}
          /\ Go(Sweep, "end") /\ UNCHANGED op
       \/ /\ gone # {}
          /\ Begins([Op(Sweep, CHOOSE j \in gone : TRUE) EXCEPT !.drop = gone])
          /\ UNCHANGED pc
    /\ UNCHANGED <<ledger, procVars, stopVars, history, budget>>

-----------------------------------------------------------------------------
\* An actor dies; the index lock it held is taken over.
Crash(a) ==
    /\ MayFail /\ crashes' = crashes + 1
    /\ pc[a] \notin Over \cup {"off", "new", "pick", "stopped", "left"}
    /\ Go(a, "killed")
    /\ op' = IF Locked /\ op.by = a THEN None ELSE op
    /\ UNCHANGED <<ledger, procVars, stopVars, history, faults>>

WorkerStep(j) ==
    \/ Boot(j) \/ BootFail(j) \/ MarkRunning(j) \/ RunEnds(j) \/ Persist(j)
    \/ TakeSignal(j) \/ SettleOnSignal(j)
WorkStep(j)   == SpawnChild(j) \/ ReportChild(j)
LauncherStep(j) == SaveQueued(j) \/ Upsert(j) \/ Spawn(j) \/ FailSpawn(j) \/ NotePid(j)
StopperStep(a)  == SettleCancelled(a) \/ Terminate(a) \/ HardKill(a) \/ StopEnds(a)

Next ==
    \/ WriteJobFile \/ SaveIndex
    \/ \E j \in Jobs : WorkerStep(j) \/ WorkStep(j)
    \/ \E j \in Background : LauncherStep(j)
    \/ \E j \in Cancels : PickCancel(j)
    \/ PickSweep \/ RemoveRows
    \/ \E a \in Stoppers : StopperStep(a)
    \/ \E a \in Actors : Crash(a)

Spec == Init /\ [][Next]_vars

\* Every process that is not killed goes on, and a run ends some day.
FairSpec ==
    /\ Spec
    /\ WF_vars(WriteJobFile) /\ WF_vars(SaveIndex)
    /\ \A j \in Jobs : WF_vars(WorkerStep(j))
    /\ \A j \in Background : WF_vars(LauncherStep(j))
    /\ \A a \in Stoppers : WF_vars(StopperStep(a))

-----------------------------------------------------------------------------
(* Properties.                                                             *)

\* "No terminal record keeps a worker or Claude pid": whatever late pid or
\* progress patch races the settle (job-lifecycle.ts).
NoTerminalPid ==
    \A j \in Jobs : \A r \in {rows[j], file[j]} :
        IsTerminal(r) => ~r.pid /\ ~r.claudePid

\* A job is settled once: of a cancel, a session end, a signal, a failed spawn
\* and the run's own end only one is told it settled the job and reports its
\* outcome.  An outcome the ledger has
\* forgotten can be settled again.
OneWinner == \A j \in Jobs : Cardinality(winners[j]) <= 1 \/ j \in forgotten

\* Whoever looks, the index and the job file tell the same outcome once no
\* write is in progress; without a failed write or a death between the two
\* files they never end up apart.
SettledTogether ==
    op = None /\ faults = 0 /\ crashes = 0 =>
        \A j \in Jobs : IsTerminal(rows[j]) /\ file[j] # None => file[j] = rows[j]

\* "Terminal status is absorbing for a job id" (saveStateMerged): a row that
\* reached an outcome keeps it as long as it is in the index.
TerminalAbsorbing ==
    [][\A j \in Jobs : IsTerminal(rows[j]) /\ rows'[j] # None => rows'[j] = rows[j]]_vars

\* The part of it that holds whatever fails: a settled row changes only to
\* what its own job file says.
SettledRowFollowsFile ==
    [][\A j \in Jobs : IsTerminal(rows[j]) /\ rows'[j] # None
          => rows'[j] = rows[j] \/ rows'[j] = file[j]]_vars

\* Pruning and the sweep never delete the record of a live job, and a settled
\* job file never goes back to an active status (but for a job file that
\* cannot be read after its settler died before the index write).
JobFileKept ==
    [][\A j \in Jobs :
         /\ IsActive(file[j]) => file'[j] # None
         /\ IsTerminal(file[j]) /\ faults' + crashes' < 2 => ~IsActive(file'[j])]_vars

\* "A worker that starts after its job's settle finds it terminal and never
\* runs" (settleRootJobs).
SettledNeverRuns ==
    [][\A j \in Jobs : pc[Worker(j)] \notin Running /\ pc'[Worker(j)] \in Running
          => winners[j] = {}]_vars

\* It holds while the settled record is there to be found.
SettledRecordRefusesWorker ==
    [][\A j \in Jobs : pc[Worker(j)] \notin Running /\ pc'[Worker(j)] \in Running
          => winners[j] = {} \/ j \in forgotten]_vars

\* Whoever settled a job and confirmed its processes gone leaves none at work:
\* no worker starts or goes on, and a Claude child survives only a worker
\* that died before it could report it.
ConfirmedStop ==
    \A a \in Stoppers :
        LET j == a[2] IN
        pc[a] = "stopped" /\ a \in winners[j] /\ j \notin forgotten =>
            /\ pc[Worker(j)] \notin Running
            /\ child[j] = "live" => pc[Worker(j)] = "killed" /\ ~targets[a].claudePid

Status     == [j \in Jobs |-> IF rows[j] = None THEN "absent" ELSE rows[j].status]
AtWork     == {j \in Jobs : pc[Worker(j)] \in Running}
Disturbed  == faults + crashes > 0

Ledger ==
    INSTANCE JobOutcomes WITH
        Settlers <- Actors, status <- Status, settlers <- winners,
        working <- AtWork, disturbed <- Disturbed

\* Without failures and deaths the ledger tells of every job what JobOutcomes
\* allows: a job only goes from queued to running to one outcome, of one
\* settler, and its outcome is the last that is told of it until it is
\* forgotten; no worker starts on a settled job.
OutcomesKept == Ledger!Spec

\* A job does not stay queued or running for good while nothing fails and
\* nobody dies but of the signals a settle sends, whoever of the racing
\* settlers gets there.  A job the ledger has forgotten may come back and stay.
JobSettles ==
    \A j \in Jobs :
        IsActive(rows[j]) ~>
            ~IsActive(rows[j]) \/ j \in forgotten \/ faults > 0 \/ crashes > 0

\* What becomes of a settled job: its row follows its own file, and no worker of
\* it starts while its record is there.
SettledIsFinal == SettledRowFollowsFile /\ SettledRecordRefusesWorker

\* Both: one actor settles a job, and its row and job file agree on how.
OneOutcome == OneWinner /\ SettledTogether

=============================================================================
