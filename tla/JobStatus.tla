------------------------------ MODULE JobStatus ------------------------------
(***************************************************************************)
(* What `status`, `status --wait` and `result` say of a job while its      *)
(* worker reports progress, settles and goes (jobs/job-control.ts,         *)
(* jobs/tracked-jobs.ts).  A job has a file and an index row, written in   *)
(* that order under the index lock; either write may fail, and the worker  *)
(* may die between them.  The readers take no lock.  A phase is a number,  *)
(* 0 for none; the Claude child has the pid 1.                             *)
(***************************************************************************)
EXTENDS Naturals, FiniteSets

CONSTANTS
    Readers,     \* status and result commands
    MaxPhase,    \* bound: phases the worker reports
    MaxFails     \* bound: writes that fail

ASSUME ReadersAssumption == Readers \cap {"worker", "cancel", "nobody"} = {}

Nobody    == "nobody"
Terminal  == {"completed", "failed", "cancelled"}
Ended(r)  == r.status \in Terminal
Started   == [status |-> "running", phase |-> 0, child |-> 0]

VARIABLES
    file, row,   \* the job file and the index row: [status, phase, child]
    worker,      \* run, busy, settle, gone
    last,        \* the phase the updater counts as recorded
    pending,     \* what no write has taken yet: [phase, child], 0 for none
    reported,    \* history: the child pid the worker has reported
    write,       \* the write under the lock: [by, kind, step, status, failed]
    fails,
    cancel,      \* idle, wait, busy, done
    reader,      \* where each reader is
    kind,        \* the command: status, wait (status --wait) or result
    listed,      \* the row each reader read
    said,        \* history: the outcomes a command reported
    stalledOn    \* history: readers that reported `stalled` when the worker's settle was in

stsVars == <<file, row, worker, last, pending, reported, write, fails, cancel, reader, kind,
             listed, said, stalledOn>>

NoWrite == [by |-> Nobody, kind |-> "none", step |-> "none", status |-> "none", failed |-> FALSE]

StsInit ==
    /\ file = Started /\ row = Started
    /\ worker = "run" /\ last = 0 /\ pending = [phase |-> 0, child |-> 0] /\ reported = 0
    /\ write = NoWrite /\ fails = 0 /\ cancel = "idle"
    /\ reader = [r \in Readers |-> "idle"] /\ kind = [r \in Readers |-> "none"]
    /\ listed = [r \in Readers |-> Started] /\ said = {} /\ stalledOn = {}

readVars == <<reader, kind, listed, stalledOn>>
workVars == <<worker, last, pending, reported>>

Locked == write # NoWrite
Begin(by, what, status) ==
    /\ ~Locked
    /\ write' = [by |-> by, kind |-> what, step |-> "file", status |-> status, failed |-> FALSE]

-----------------------------------------------------------------------------
(* createJobProgressUpdater *)

\* A phase that is recorded already drops the one still to go out.
Track(phase) == IF phase = 0 THEN pending.phase ELSE IF phase = last THEN 0 ELSE phase

ProgressEvent ==
    /\ worker = "run" /\ ~Locked
    /\ \E phase \in 0..MaxPhase, child \in {0, 1 - reported} :
          LET next == [phase |-> Track(phase), child |-> IF child = 1 THEN 1 ELSE pending.child] IN
          /\ reported' = IF child = 1 THEN 1 ELSE reported
          /\ pending' = next
          /\ IF next = [phase |-> 0, child |-> 0]
             THEN UNCHANGED <<write, worker>>
             ELSE Begin("worker", "progress", "running") /\ worker' = "busy"
    /\ UNCHANGED <<file, row, last, fails, cancel, readVars, said>>

Patch(r) == [r EXCEPT !.phase = IF pending.phase > 0 THEN pending.phase ELSE @,
                      !.child = IF pending.child = 1 THEN 1 ELSE @]

\* The slip AfterProgress must not make: what a failed write carried is
\* given up.
GivesUp(ok) == [phase |-> 0, child |-> 0]

\* What is still to go out after a write: nothing, or all of it again.
AfterProgress(ok) == IF ok THEN [phase |-> 0, child |-> 0] ELSE pending

\* The update returns, or throws, or finds the job settled (and then counts
\* what it carried as recorded).
EndProgress(ok) ==
    /\ write' = NoWrite /\ worker' = "run"
    /\ pending' = AfterProgress(ok)
    /\ last' = IF ok /\ pending.phase > 0 THEN pending.phase ELSE last
    /\ UNCHANGED reported

Fail == fails < MaxFails /\ fails' = fails + 1

ProgressFile ==
    /\ write.kind = "progress" /\ write.step = "file"
    /\ IF Ended(file) \/ Ended(row)
       THEN EndProgress(TRUE) /\ UNCHANGED <<file, fails>>
       ELSE /\ \/ file' = Patch(file) /\ write' = [write EXCEPT !.step = "row"] /\ UNCHANGED fails
               \/ Fail /\ write' = [write EXCEPT !.step = "row", !.failed = TRUE] /\ UNCHANGED file
            /\ UNCHANGED workVars
    /\ UNCHANGED <<row, cancel, readVars, said>>

ProgressRow ==
    /\ write.kind = "progress" /\ write.step = "row"
    /\ \/ row' = Patch(row) /\ EndProgress(~write.failed) /\ UNCHANGED fails
       \/ Fail /\ EndProgress(FALSE) /\ UNCHANGED row
    /\ UNCHANGED <<file, cancel, readVars, said>>

-----------------------------------------------------------------------------
(* settleJob, for the run's end, a cancel or a result *)

Settled(r, status) == [status |-> status, phase |-> r.phase, child |-> 0]

RunEnds ==
    /\ worker = "run"
    /\ \E status \in {"completed", "failed"} : Begin("worker", "settle", status)
    /\ worker' = "settle"
    /\ UNCHANGED <<file, row, last, pending, reported, fails, cancel, readVars, said>>

Cancel ==
    /\ cancel = "idle" /\ ~Ended(row)
    /\ Begin("cancel", "settle", "cancelled") /\ cancel' = "busy"
    /\ UNCHANGED <<file, row, workVars, fails, readVars, said>>

\* Whoever settles is through: the worker exits, the others report.
Through(by, outcomes) ==
    /\ write' = NoWrite
    /\ worker' = IF by = "worker" THEN "gone" ELSE worker
    /\ cancel' = IF by = "cancel" THEN "done" ELSE cancel
    /\ reader' = [r \in Readers |-> IF r = by THEN "done" ELSE reader[r]]
    /\ said' = said \cup IF by = "worker" THEN {} ELSE outcomes
    /\ UNCHANGED <<last, pending, reported, kind, listed, stalledOn>>

\* The slip FileOutcome must not make: the job file is not asked.
RowOnly == {}

\* The outcome the job file holds, which stands.
FileOutcome == IF Ended(file) THEN {file.status} ELSE {}

SettleFile ==
    /\ write.kind = "settle" /\ write.step = "file"
    /\ \/ /\ FileOutcome # {} /\ Ended(row)
          /\ Through(write.by, FileOutcome) /\ UNCHANGED <<file, fails>>
       \/ /\ FileOutcome # {} /\ ~Ended(row)
          /\ write' = [write EXCEPT !.step = "row", !.status = file.status]
          /\ UNCHANGED <<file, fails, workVars, cancel, readVars, said>>
       \/ /\ FileOutcome = {} /\ Ended(row)
          /\ \/ file' = Settled(file, row.status) /\ UNCHANGED fails
             \/ Fail /\ UNCHANGED file
          /\ Through(write.by, {row.status})
       \/ /\ FileOutcome = {} /\ ~Ended(row)
          /\ \/ file' = Settled(file, write.status) /\ write' = [write EXCEPT !.step = "row"]
                /\ UNCHANGED fails
             \/ Fail /\ UNCHANGED file /\ write' = [write EXCEPT !.step = "row", !.failed = TRUE]
          /\ UNCHANGED <<workVars, cancel, readVars, said>>
    /\ UNCHANGED row

\* A cancel whose job-file write failed ends with that error, as one whose
\* index write failed does.
SettleRow ==
    /\ write.kind = "settle" /\ write.step = "row"
    /\ \/ /\ row' = Settled(row, write.status) /\ UNCHANGED fails
          /\ Through(write.by, IF write.failed THEN {} ELSE {write.status})
       \/ Fail /\ Through(write.by, {}) /\ UNCHANGED row
    /\ UNCHANGED file

\* A worker dies, or is killed, anywhere; the lock it held is broken.
WorkerDies ==
    /\ worker # "gone" /\ worker' = "gone"
    /\ write' = IF write.by = "worker" THEN NoWrite ELSE write
    /\ UNCHANGED <<file, row, last, pending, reported, fails, cancel, readVars, said>>

-----------------------------------------------------------------------------
(* The readers *)

Active(r)  == ~Ended(listed[r])
GoneNow    == worker = "gone"      \* isJobProcessGone

\* listJobs: status reads the row; --wait polls it until the row is
\* terminal, the worker is gone or its window ends.
ReadRow(r) ==
    /\ \/ reader[r] = "idle" /\ \E k \in {"status", "wait", "result"} : kind' = [kind EXCEPT ![r] = k]
       \/ reader[r] = "poll" /\ UNCHANGED kind
    /\ listed' = [listed EXCEPT ![r] = row]
    /\ reader' = [reader EXCEPT ![r] = IF kind'[r] = "result" THEN "open" ELSE "listed"]
    /\ UNCHANGED <<file, row, workVars, write, fails, cancel, said, stalledOn>>

PollAgain(r) ==
    /\ kind[r] = "wait" /\ reader[r] = "listed" /\ Active(r) /\ ~GoneNow
    /\ reader' = [reader EXCEPT ![r] = "poll"]
    /\ UNCHANGED <<file, row, workVars, write, fails, cancel, kind, listed, said, stalledOn>>

Report(r, outcomes, stalled) ==
    /\ reader' = [reader EXCEPT ![r] = "done"]
    /\ said' = said \cup outcomes
    /\ stalledOn' = IF stalled /\ {row.status, file.status} \cap {"completed", "failed"} # {}
                    THEN stalledOn \cup {r} ELSE stalledOn
    /\ UNCHANGED <<file, row, workVars, write, fails, cancel, kind, listed>>

\* enrichJob of a row that is terminal, or whose worker runs.
EnrichRow(r) ==
    /\ reader[r] = "listed" /\ (~Active(r) \/ ~GoneNow)
    /\ Report(r, IF Active(r) THEN {} ELSE {listed[r].status}, FALSE)

\* The slip SettledSinceRead must not make: the first read stands.
NotReadAgain(again) == {}

\* The outcome the row, or else the job file, holds by now.
SettledSinceRead(again) ==
    IF Ended(again) THEN {again.status} ELSE IF Ended(file) THEN {file.status} ELSE {}

\* enrichJob of an active row whose worker is gone: the row and then the
\* file are read once more.
ReadRowAgain(r) ==
    /\ reader[r] = "listed" /\ Active(r) /\ GoneNow
    /\ listed' = [listed EXCEPT ![r] = row]
    /\ reader' = [reader EXCEPT ![r] = "again"]
    /\ UNCHANGED <<file, row, workVars, write, fails, cancel, kind, said, stalledOn>>

ReadFileAgain(r) ==
    /\ reader[r] = "again"
    /\ LET found == SettledSinceRead(listed[r]) IN Report(r, found, found = {})

\* resolveResultJob: a terminal row is the result; else a terminal job file
\* brings the row in line; else there is none yet.
ResultOfRow(r) ==
    /\ reader[r] = "open" /\ ~Active(r)
    /\ Report(r, {listed[r].status}, FALSE)

ResultOfFile(r) ==
    /\ reader[r] = "open" /\ Active(r)
    /\ IF Ended(file)
       THEN /\ Begin(r, "settle", file.status) /\ reader' = [reader EXCEPT ![r] = "busy"]
            /\ UNCHANGED <<file, row, workVars, fails, cancel, kind, listed, said, stalledOn>>
       ELSE Report(r, {}, FALSE)

StsNext ==
    \/ ProgressEvent \/ ProgressFile \/ ProgressRow
    \/ RunEnds \/ Cancel \/ SettleFile \/ SettleRow \/ WorkerDies
    \/ \E r \in Readers : \/ ReadRow(r) \/ PollAgain(r) \/ EnrichRow(r)
                          \/ ReadRowAgain(r) \/ ReadFileAgain(r)
                          \/ ResultOfRow(r) \/ ResultOfFile(r)

StsSpec == StsInit /\ [][StsNext]_stsVars

-----------------------------------------------------------------------------

(* What a command reported as the job's outcome is its outcome: no later   *)
(* command reports another, and neither the row nor the job file comes to  *)
(* hold another (job-control.ts:439-452, 690-735).                         *)
ReportStands ==
    /\ Cardinality(said) <= 1
    /\ \A s \in said, r \in {row, file} : Ended(r) => r.status = s

(* `stalled` is not said of a job whose worker had settled it, on the row  *)
(* or only in its file, however close the two came (job-control.ts:        *)
(* 436-452).                                                               *)
StalledIsUnsettled == stalledOn = {}

(* Both: what status, result and cancel say of a job is so, and stays so.   *)
StatusIsTrue == ReportStands /\ StalledIsUnsettled

(* The Claude child's pid is reported once.  While the job runs, it is on  *)
(* the row and in the job file, or a later event takes it out again,       *)
(* whatever writes failed (tracked-jobs.ts:145-215).                       *)
ChildPidGoesOut ==
    reported = 1 /\ worker # "gone" /\ ~Ended(row) /\ ~Ended(file) =>
        \/ pending.child = 1
        \/ row.child = 1 /\ file.child = 1

=============================================================================
