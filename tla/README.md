# Formal verification of stereo

TLA+ models of the stereo plugin (`src/plugins/stereo/src`), the TLC configurations that check them on
small instances, and TLAPS proofs of what holds for every instance. `PROJECT.json` maps every
definition to the lines it models; paths below are relative to `src/plugins/stereo/src`.

Stereo hands work of a Claude Code session to Codex (through `codex app-server`) and to headless
Claude runs. Every invocation is a short-lived process (a command, a hook, a background worker); the
one long-lived process is the shared broker. What the processes know of each other is in files of a
per-workspace state directory, so most of the hard behaviour is interleaving on files, death between
two writes, and reuse of pids.

## Running it

    tlc -workers 2 -config FileLock.cfg MCFileLock.tla   # each cfg's MC module is in the table of runs
    tlapm FileLock_proofs.tla                            # likewise every other *_proofs.tla

## The system

| Component | State | Operations | Correct when |
| --- | --- | --- | --- |
| File lock (`shared/fs.ts`) | a lock file, its age; contents name the call | create, judge a held lock stale, take it over, release, unlocked fallback | a holder's update is not lost; every call ends; a stale lock goes |
| Job ledger (`workspace/state.ts`, `jobs/job-lifecycle.ts`, `jobs/tracked-jobs.ts`) | `state.json` index rows, one JSON file per job | enqueue, mark running, progress, finish, settle, prune, remove | one settler per job; index and files agree; a record that is needed is kept |
| Launch, cancel, session end (`workflows/companion-jobs.ts`, `cli/commands/cancel.ts`, `hooks/session-lifecycle.ts`) | the ledger, worker and Claude pids | spawn, boot, settle-then-stop, sweep | what is reported stopped is stopped; no job stays active for good |
| Process stop and identity (`platform/process.ts`) | pid with start token and command marks | probe, polite and hard signal, poll | only a process just found to be the recorded one is signalled; the outcome reported is true |
| Thread reservation (`runtime/reservations.ts`, `workspace/thread-lock-io.ts`) | lock file per thread, cleanup claim beside it | acquire, takeover, note of the Claude child, release, scan | one run drives a session; a dead run neither keeps it for good nor loses it while its child runs |
| Claude run (`runtime/claude-runner.ts`, `transport/claude-cli.ts`) | child, pipe, reservation, four deadlines | spawn, events, result, stop of the tree, close, report | the session is held while the child runs; the report is what the child did; it ends |
| Broker (`broker/server.ts`) | sockets, the request in flight, stream ownership, orphaned turn, pending completions | lines, responses, notifications, disconnect, watchdog, grace, idle stop | one turn at a time; a completion reaches its owner; the gate opens again |
| Broker lifecycle (`broker/lifecycle.ts`) | `broker.json`, sockets and pid files | check, spawn, wait, save, clear, teardown, self-check | a command is served or told; a busy broker's record stays; a stray broker exits |
| Turn runner and client (`runtime/turn-runner.ts`, `runtime/threads.ts`, `transport/app-server-client.ts`) | connection, thread, reservation, request | connect, start or resume, busy retry, wait, capture | a turn starts once; its thread is reserved; every run ends |
| Turn capture (`runtime/turn-capture.ts`) | buffer, tracked threads and turns, calls, timers, outcome | notification dispatch, inferred completion, inactivity | only the turn's lines count, all of them do, and the capture ends |
| Announcements (`jobs/job-announcements.ts`) | a watermark | list, announce, move the watermark | every end is told of |
| Job control (`jobs/job-control.ts`) | none of its own | snapshot, reconcile dead workers, resume candidates | what `status` says was so |
| Session registry (`workspace/session-registry.ts`) | the roots a session launched into | upsert, clear | the roots of active jobs are listed |
| Legacy migration (`workspace/state.ts`) | legacy and durable files | copy, mark | marked means whole |
| Worktrees (`cli/commands/worktree.ts`) | git's worktrees, links, the exclude file | create, roll back, remove | the main tree's directories survive; a worktree that is reported is whole |
| Work records (`cli/commands/plan.ts`, `implement.ts`, `tournament.ts`) | plan slots, entries of rounds | save, review, record, delete | a plan keeps its review and an entry its outcome |
| Plan comparison (`shared/diff.ts`) | none | diff of two plans | the hunks are a least patch |
| Launch, models, task threads (`cli/launch.ts`, `models/*`, `workflows/task.ts`) | role defaults, catalog, pinned launches, index rows | config, dry run, replay, resume | a replay runs its pin; an effort fits its model; a role gets no other role's thread |
| Commands around them, review gate, transfer, rendering, git, probes | none that lasts | single calls and formatting | results as documented |

How they interact: a command resolves its **launch**, acquires a **thread reservation** (a Claude
session or Codex thread), writes its job to the **ledger** under the **file lock**, notes its root in
the **session registry** and spawns a worker that runs the job through the **Claude run** or the
**turn runner**; the turn runner talks to the **broker**, which it starts through the **broker
lifecycle** if need be, and captures the turn with **turn capture**. Cancel and session end settle
jobs on the ledger and then **stop** the recorded processes; session end also stops the broker. Status
reads the ledger and reconciles dead workers; hooks **announce** finished jobs. Plans, implement
rounds and tournaments keep **work records** between commands, and work in **worktrees**.

The hard behaviour: compare-then-unlink on lock files and claims; settlers racing a worker that just
starts; a settle whose second write fails; a signal racing the reuse of its pid; a retry of a turn that
may have started; lines, responses and completions of the broker in any order with disconnects; exit,
close, result and deadlines of a child in any order; read-then-replace of files without a lock.
`hazards` in `PROJECT.json` lists each at its line with the properties that cover it.

## Modules

| Module | Models | Checked by | Proofs |
| --- | --- | --- | --- |
| `FileLock`, `SerialUpdates` | `withFileLock` and what it calls; what it implements | `MCFileLock` | `FileLock_proofs` |
| `JobLedger`, `JobOutcomes` | ledger, launch, worker, cancel, session end; what they implement | `MCJobLedger` | `JobLedger_proofs` |
| `ThreadReservation`, `ThreadPossession` | the reservation of one thread; what it implements | `MCThreadReservation` | `ThreadReservation_proofs` |
| `ProcessIdentity`, `StopProcesses` | identity verdicts; stop and escalation over a host | `MCStopProcesses` | `StopProcesses_proofs` |
| `ClaudeTurn` | one headless Claude run | `MCClaudeTurn` | `ClaudeTurn_proofs` |
| `BrokerServer` | the broker's event loop | `MCBrokerServer` | `BrokerServer_proofs` |
| `BrokerLifecycle` | who starts, finds and ends brokers | `MCBrokerLifecycle` | `Workspace_proofs` |
| `TurnRunner` | Codex runs over the shared broker and private app-servers | `MCCodexTurn` | `CodexTurn_proofs` |
| `TurnCapture` | the capture of one turn on one connection | `MCCodexTurn` | `CodexTurn_proofs` |
| `Announcements`, `JobStatus`, `SessionRegistry`, `LegacyMigration`, `Worktrees`, `WorkRecords` | a workspace's own files | `MCWorkspace` | `Workspace_proofs` |
| `TaskThreads` | which thread a task resumes | `MCWorkspace` | `Workspace_proofs` |
| `Models`, `Launch` | models, efforts and role defaults; what a launch is resolved to | `MCWorkspace` | `Workspace_proofs` |
| `PlanDiff` | the comparison of two plans | `MCWorkspace` | - |

**FileLock.** An action is one system call of a call of `withFileLock`: create, read, stat, re-read, unlink,
the work's read and write, the release's compare and unlink. `lock` holds the ticket (process and call
number) of whoever wrote the file, `stale` its age beyond `STALE_LOCK_MS`; `Age` makes it so whenever its
call is over or its process dead, and once while its holder is suspended. A create that fails with another
error than `EEXIST`, with or without the file it made, ends the call. `robbed`, `unlocked`, `aged` and
`written` are history. **SerialUpdates** is what the lock is for: calls enter one at a time, a write adds
its update to all earlier ones, and the holder leaves. The abstract `weakened` says that a holder was robbed
or a call went without the lock; from then on a second call may enter and a write may lose updates.
`UpdatesSerialize` is its specification under a mapping that counts a process as inside from its create to
its release.

**JobLedger.** An index write runs under the index lock: `op` is the one in progress, which has read the
row and the job file when it begins, writes the job file, then the index, then returns. Job files are
read and written without the lock, and processes start, run and die between its steps; each read, write
and spawn may fail. The worker goes through boot, running, its turn and its finish; the launcher
enqueues, spawns and records the pid; cancels and the sweep snapshot, settle, and stop what the settled
record names. The index keeps `MaxJobs` rows. **JobOutcomes** is what the ledger promises to whoever reads
it: each job goes from queued to running to one outcome of one settler, may be forgotten once it has an
outcome, and nobody starts to work on a settled one; a step may move several jobs, since one index write
prunes others. A failure or a death ends the promise (`disturbed`); which parts then still hold is the
subject of `JobLedgerFaults`. `OutcomesKept` is its specification with the status of a job read off its
row, its settlers off `winners` and its work off the worker's place.

**ThreadReservation.** An action is one read, create, compare or unlink of the lock or the claim. A run goes
enter, create, read, judge, take over, drive, note, release, and a turn also ends without a child, as when
the spawn failed; the takeover goes claim, verify, unlink, give back. **ThreadPossession** is what these
files are for: one possessor of the thread, who takes it when nobody has it and no child of a former one
runs on it, and gives it up or dies; the abstract `weakened` says that a cleaner left its claim behind,
after which it promises nothing. `PossessionKept` is its specification under a refinement mapping from the
lock files.

**ProcessIdentity, StopProcesses.** The verdict on a recorded pid as each platform computes it (exact
start ticks, wall-clock windows, command marks, earlier boots), and the stop that goes by it: polite
signal, shared grace, fresh look, hard signal, poll. A probe gives nothing, or a start without a command
line, or the reverse. Processes and groups of the host exit, are reaped and their pids reused between
any two system calls.

**ClaudeTurn.** One run from its reservation to its report. The child writes events to a pipe, edits,
may leave a descendant that holds the pipe, and dies any time; the companion spawns it, notes its pid on
the session's lock (a step of its own, which may fail and which a SIGKILL may come before), reserves a
fresh session at the init event, reads, and arms and disarms the deadlines of start, idle, result and
close. The drain after the child's exit ends the wait for the pipes whether or not all was read.

**BrokerServer.** An action is the code between two awaits of the broker: a client's line up to its
app-server request, that request's continuation, a notification, a socket's event, a timer. A turn/start is
answered, refused or not answered in time: the last gives the slot up with the turn under way
(`TurnTimesOut`). The app-server answers and notifies in any order it may. A client sends each line of its
script once.

**BrokerLifecycle.** Commands that probe, tear down, spawn, wait and save; session ends that ask,
retry and clear; brokers that listen, check their record twice before they leave, and stop when idle. A
connect or initialize that is not answered in time ends its command (`late`).
A broker is its socket and its clients here; its event loop is `BrokerServer`'s.

**TurnRunner.** Runs of two threads over one broker that serves one turn and answers busy or abandoned;
each attempt may end in a private app-server, a fresh thread's reservation may collide, and a run may
be killed anywhere and leave its turn behind. A request that is not answered in time fails its attempt
for good (`TimesOut`). The broker is its gate and grace only.

**TurnCapture.** The app-server's side sends lines (of the captured turn, of a subagent's turns, of an
older turn on the thread) and the client's handler runs in the same step; what it leaves to a later
microtask or timer is a step of its own. `named` is whether the response carries the turn's id.

**Announcements, JobStatus, SessionRegistry, LegacyMigration, WorkRecords.** One action per read, write,
copy or unlink of the file that is shared, with every process that does so. In `JobStatus` the worker's
two writes and its exit are steps between the reader's index read, file read and probe. In
`SessionRegistry` a session end may fail to settle any of a root's jobs (`unswept`), and the list goes
all the same; it may also be killed before.

**Worktrees.** Creation and removal step by step, `git worktree` as one step of each, with the listing after
the add, whose failure rolls back a worktree without links; `follows` says whether git's own deletion would
go through a link.

**Models, Launch, TaskThreads, PlanDiff.** Names are parsed keys, not text. `Models` resolves them as
the code does, order of precedence included; `Launch` runs `config` calls, a dry run and its replay
over it, with the catalog changing in between; `TaskThreads` chains launches and resumes over an index
that prunes; `PlanDiff` computes the table, the walk, the flush and the hunks of two texts.

## Runs

| Run | Question | What it shows |
| --- | --- | --- |
| `FileLock` (`MCFileLock`) | What does the lock guarantee, and on which condition? | Until a holder is robbed or a call runs unlocked every step is one of `SerialUpdates`' or none, so no update is lost; calls end and a stale lock goes |
| `JobLedgerRaces` (`MCJobLedger`) | Who wins when all settle at once? | One settler reports it and the two files agree on the outcome; each job's steps are those of `JobOutcomes`; no job stays active for good |
| `JobLedgerFaults` (`MCJobLedger`) | What survives one failed write, spawn or death? | A confirmed stop is of the recorded processes; a settled row changes only to what its file says, and its job does not start while the record is there; a live job's record is not deleted and a settled file never goes back |
| `ThreadReservation` (`MCThreadReservation`) | Do the lock files implement possession? | While cleaners give their claims back, every step is one of `ThreadPossession`'s or none; a dead run's lock goes with the next run, also past a dead claim, unless something more fails or dies |
| `ThreadReservationTwoDrivers` (`MCThreadReservation`) | Is a session always driven by one run? | **No**, see the findings |
| `BrokerServer` (`MCBrokerServer`) | Who owns a turn, its completion and its end? | One turn at a time unless the broker gave the other up (which its own unanswered turn/start also does); a completion goes to its owner; abandoned turns are interrupted; the gate opens after a client is gone |
| `CodexTurn` (`MCCodexTurn`) | What may a retry repeat; whose lines count, and when is the turn over? | One turn of a run is started at most; a live run drives under its own reservation and does not go on privately on the answer that tells it of an abandoned turn before the wait; every run ends. Only the turn's own lines count once it is named, all of them on either side of the response; a capture ends |
| `StopProcesses` (`MCStopProcesses`) | Who is signalled, and is the report true? | A stranger is hit only if the pid changed hands after the look, or no look could tell; a confirmed stop is one, and a survivor had the hard signal; every stop ends |
| `BrokerLifecycle` (`MCBrokerLifecycle`) | Do concurrent commands and session ends agree on a broker? | A command in service keeps its broker and fails only through another's step, or because its broker was late; a busy record is not cleared by one that read it; strays exit |
| `ClaudeTurn` (`MCClaudeTurn`) | Is the child what the turn says it is? | The session stays held while the child runs, with its pid once that was noted, whoever dies; success and touched files are the child's; every turn ends |
| `LaunchPinnedName` (`MCWorkspace`) | Does a replay always run the pinned model? | **No**, see the findings |
| `Workspace` (`MCWorkspace`) | Do the protocols over the workspace's files keep what they promise? | Ten properties, below |

The properties of `Workspace`:

- `EndIsToldOf`: a finished job that the watermark has passed was told of, unless it was written after
  a job that ended in the same millisecond or later had been told of, or after the first watermark.
- `ActiveRootIsListed`: a root with an active job of the session is listed for its next end, unless the
  launch could not record it or met an end that had read the list and not yet removed it, or an end tried
  to settle the job and could not.
- `MarkerMeansMigrated`: once the marker is the migrated index, every legacy file is there and whole, but for
  one that a death or a failed write left empty or that another process is still writing.
- `StatusIsTrue`: an outcome that was reported is the job's and stays so; `stalled` is not said of a
  job that its worker had settled.
- `ChildPidGoesOut`: while the job runs, the child's pid is on the row and in the file, or a later event
  still takes it out, whatever writes failed.
- `WorktreesAreWhole`: no removal reaches the main tree's directories through a link, unless a link could not
  be removed or two commands worked on one path; what create reports (whole, or removed again) is so.
- `RecordsStand`: a work record names the plan its command read, and a plan marked implemented has a
  text that a mark read; the entries of other slots are kept unless two commands overlapped on the record.
- `DiffIsAPatch`: the diff turns the first plan into the second with the fewest changes possible, and says
  identical exactly when no line differs.
- `LaunchesStand`: a replay runs its pin, a name that was passed on excepted, efforts fit their models, and
  config stores nothing that a launch would ignore.
- `ResumesFit`: a Claude session a role ran goes on as that role and from its directory, for as long as the
  index remembers it; `--resume-last` continues a rescue of its own session, never the hook's review.

The runs check the refinements and not what follows from them or lies on the way: `FileLock!NoLostUpdate`
and `ThreadReservation!DriverHasLock` are invariants that the proofs below establish.

Each property of a passing run has a mutant in `PROJECT.json`: a plausible slip of a mapped definition,
kept beside it in its module, under which TLC finds the property violated in the same instance.

### The findings

`ThreadReservationTwoDrivers`. The reap of a dead claim compares and unlinks in two system calls; two
reapers and a dead cleaner let two takeovers run at once, and the later one's unlink takes the lock of
a run that drives (`workspace/thread-lock-io.ts:160`). The theorem `OneDriverWhileClaimsReturn` says
that this is the only way.

`LaunchPinnedName`. `cli/launch.ts:174-176` says a dry run pins the exact id, so that a replay runs the
same model. A name in the form of a family that no catalog lists yet is passed on as it is if it has a
provider or a digit in its word (`models/registry.ts:199-200`), so the pin is that name, and the replay
parses it as a family again: with a catalog that lists the version by then, `astra-7@openrouter` runs as
`gpt-7-astra@openrouter`. `PassedOn` is that case, and `LaunchesAlwaysStand` says it is the only one.

### Other departures

The modules state these too; the properties do not hold and no run is kept for them. To see one, put
it in the run's cfg with the values named.

- `JobLedger!SettledNeverRuns` (cfg `JobLedgerRaces`, `MaxJobs = 2`, `Cancels` and `Claude` of `j1`).
  `hooks/session-lifecycle.ts:118-119` says a worker that starts after its settle never runs. When the
  sweep settled a queued job and removed its record, a worker that had read its job file before writes
  the job anew as running (`jobs/tracked-jobs.ts:286`).
- `JobLedger!TerminalAbsorbing` (cfg `JobLedgerFaults`). `workspace/state.ts:626-628` says terminal
  status is absorbing. A settle whose job-file write failed leaves a terminal row over an active file;
  pruning that row re-adds the job from its file, active (652).
- `ThreadReservation!ChildKeepsThread` (three runs, `MaxFaults = 0`, `MaxCrashes = 1`).
  `runtime/reservations.ts:490-492` says the note refuses the takeover while the child runs. The verify
  under the claim compares token and pid only: a child noted after the first read is overlooked (382).
- `TurnCapture!InferredWhenDrained`. A subagent's second turn does not match the turn id kept for its
  thread, so its start is dropped and completion is inferred while it runs
  (`runtime/turn-capture.ts:718`, against 679 and 692).
- `StopProcesses!GroupGetsHardSignal`. `jobs/job-lifecycle.ts:399-402` says a group without its leader
  still gets the hard signal. A leader that goes between the poll's look and the verdict of the same
  pass is counted as stopped (443-467).
- `TurnRunner!NoSecondDriver`. `runtime/turn-runner.ts:418-421` wants an abandoned turn waited out. The
  broker answers plain busy until it has seen the dead run's connection close, or while it works for
  another client when a resume that was told of the abandoned turn asks again; either is retried
  privately at once (`runtime/threads.ts:181-200`). Hence `AbandonedAnswerIsWaitedOut` is about the answer
  that tells of the turn.
- `BrokerServer`: the broker's own turn/start that is not answered in time
  (`transport/app-server-client.ts:159-168`) is taken for one that failed (`broker/server.ts:645-655`): the
  slot is free, nothing is orphaned, the next turn is let in next to it, and its completion may go to
  another client. `loose` is where the properties except such a turn.
- `StopProcesses`: a start within the window without a command line is `ours` (`platform/process.ts:599-603`),
  so a stranger on a pid reused within the window may be signalled. `veiled` is that case.
- `ClaudeTurn`: the note of the child's pid is best effort (`runtime/reservations.ts:488-492`). A write that
  failed, or a SIGKILL between spawn and note, leaves a session whose lock names only the companion, so
  the next run may take it while the child runs. `"note" \in lost` and `turn = "note"` are these cases.
- `SessionRegistry`: a sweep that could not settle a job still removes the list
  (`hooks/session-lifecycle.ts:375-378`), so no later end finds that job's root by it.
- `TaskThreads`: `workflows/task.ts:185-191` says a run without a role never takes over a role's thread;
  `--resume-last` (290-321) does when the candidate's row changed between the two reads.
- `Launch!StoredIsValid` needs `~overlapped`: two `config` calls that overlap can store an entry that
  launches ignore, against the comment at `cli/commands/config.ts:95-98`.
- The gap of the first finding exists in the file lock itself (`shared/fs.ts:149-165`); `workspace/state.ts`
  admits it at 595-597 and merges. `OneHolderWhileFresh` states the condition exactly.

### Bounds

- `FileLock`: three processes, one hurried with the fallback, one call each, two attempts, one failing
  operation or suspended holder, deaths and all other ageing unbounded. A robbery takes two waiters and a
  stale lock.
- `JobLedger`: a background job with all its actors and a foreground one; an index of one row (one more
  job than rows is the first prune); one failure, because two (both writes of a settle) lose the outcome
  by design; the races run with none, to tell what an interleaving alone can do.
- `ThreadReservation`: two runs and a scan, three crashes, two failing operations, two creates where the
  code has three (a retry only repeats the step). What holds is proved for every number of each, so two
  runs serve the refinement and liveness; the first finding needs three.
- `StopProcesses`: two targets, one whose pid is reused once and which leads a group, one failure; every
  platform and both modes are initial choices.
- `ClaudeTurn`: two edits (one denied, one made), two events ahead in the pipe, one line of noise, one
  callback that throws. The pipe's length only lets the child run ahead; two is an event and its result.
- `BrokerServer`: a client with a turn and another request, one with a review, an interrupt and a stop,
  disconnects anywhere. Ownership fields name one client, so two are an owner and another.
- `BrokerLifecycle`: two commands, one session end, an old broker, one slow answer and one second
  request. Two commands and an end make every pair of writers of the record.
- `TurnRunner`: two runs that resume one thread and a third with an endpoint of its own; one fault (a kill,
  the broker's exit, or a request not answered in time).
- `TurnCapture`: one subagent with two turns, two messages and usage samples, one line of an older turn,
  three lines before the response is processed. `CodexTurn` checks the two side by side: `part` picks one
  in the initial state, and the other one has ended.
- `Workspace`: two or three processes of each kind and one or two failures. Readers, commands and tasks
  that are alike begin in one order (`InOrder`), which loses no behaviour up to their names. The parts
  share no file with one another, so they are checked side by side: `part` picks one in the initial
  state. Plans have up to five lines, blank or not, ended or not, and one is over the cap; a context of
  one line makes two hunks fit in five. `Launch` has three catalogs (as shipped, with a newer version,
  with tiers moved), three versions of Claude and two third-party models.

### Fairness

Only steps the program takes by itself are fair. `FileLock`: a process that is not dead goes on (the
calls are synchronous loops with bounded attempts). `JobLedger`: pending writes and the steps of each
process that was not killed; a run ends some day, which the turn's inactivity timeout and the CLI's own
end justify. `ThreadReservation`: file work only, no turn has to end. `BrokerServer`: close events, the
watchdog and the grace, never the app-server or a client. `BrokerLifecycle`: commands, session ends and
a broker's own timer; an abandoned turn ends because the broker interrupts it. `TurnCapture`: the
request timeout, continuations and timers; the app-server owes nothing. `TurnRunner`: a live run's own
steps, the broker's reading of its sockets, and the end of a turn that has a client (its capture's
timeouts). `StopProcesses`: the caller and time, no process need obey. `ClaudeTurn`: the companion's
callbacks and deadlines, never the child. The timeouts of capture and child can be switched off by
environment variables; the properties are about the defaults.

Deadlock checking is off in every run: the models are of processes that finish.

## Proofs

Every theorem holds for any number of processes, files, failures and deaths; assumptions are the named
ones of each module (types of the constants, and that "no file" is no process).

`FileLock_proofs`. `HolderHasFile` is not inductive: a takeover's unlink is harmless only because it
re-read the lock it judged, so `IInv` adds that a process in `reread` or `unlink` has seen a stale lock,
that a bare read or write is the fallback's, and that a holder's snapshot is current. From it:
`HolderKeepsFile`, `RobberyByTakeoverOnly`, `OneHolderWhileFresh` (mutual exclusion while no lock went
stale, with crashes and failed operations), `UpdatesKept`, `FallbackOnly`, and `TypeCorrect`.
`SerialRefined` is the refinement. Two things must be shown of a step: that a create finds nobody inside,
which is `HolderHasFile` read backwards (a path without a file has no unrobbed holder), and that a holder's
write keeps what is there, which is the part of `IInv` on snapshots. The tickets of the mapping name a
call and not a process, so a process that enters again is another call (`TicketsDiffer`). A robbery and
the fallback map to `Weaken`, a write after one of them to `Overwrite`, a death with the lock to `Leave`.

`ThreadReservation_proofs`. While no cleaner left its claim behind (`strays = {}`), the claim names a
live cleaner and that cleaner is the only one (`Claims`), nobody reaps; whoever is on the way to remove a
lock judged an owner that is gone for good (`JudgedIsGone`); so the lock that was verified is still
there at the unlink (`VerifiedStays`) and is no driver's, which gives `DriverKeepsLock`,
`RobberyByStrayClaimOnly` and `OneDriverWhileClaimsReturn`. For a noted child (`Kept`) the lock keeps its
note while the child lives and no taker has a noted owner with a live child: `NotedChildIsRespected`.
`PossessionRefined` is the refinement: the holders of the mapping change only where a run comes to
drive, ends or dies (`HolderDrives` and the lemmas beside it), `DriverHoldsAlone` and the noted child's
part of the invariant give the guard of `ThreadPossession!Take`, and every other step is a stutter.

`BrokerServer_proofs`. None of the three properties is inductive. `OneRecord` says that a request in
flight, a stream and an abandoned turn exclude one another; `TurnsAreKept` that a turn which runs and
was not given up is the one on record, through every response, disconnect and timer. So there is one
(`OneTurnIsUnderway`). `OwnerRoutes` says that while its owner is connected no other client's request
comes before it, so its completion reaches it (`CompletionIsTheOwners`); `ObservedIsDone` that a
response finds its turn over only if it is. With `StartedIsKnown` every turn that has an id is
interrupted when its client goes (`AbandonedTurnsAreInterrupted`). Each of the first two excepts the turns
in `loose`, an unanswered turn/start's among them.

`JobLedger_proofs`. What makes `OneOutcome` hard is that a write is three steps: what its actor decided
at the first must be true at the last. The lock keeps other writes out (`OpenRow`: the row it found
unsettled stays so; `OpAgrees`: file and row tell the same unless a write failed), and `OpIsItsActors`
ties the write to an actor that waits for it, so a return goes where its caller stands. `WinnerHasRow`
says that who settled left a terminal row until the ledger drops the job, so nobody settles twice
(`OneOutcomeHolds`), `TerminalIsBare` that it names no process (`NoTerminalPidHolds`). For
`ConfirmedStopHolds` a worker that runs is on record by pid wherever its job is (`RunIsRecorded`), and a
settle takes the pids off the record it replaces (`OpStops`, `StopIsDone`): a worker that the cancel's
snapshot missed is in the settle's. `SettledIsFinalHolds` has two parts, each from the invariant and a
lemma on which rows a step can touch (`RowsMove`, `RunStarts`). Jobs, rows kept and failures are any.

`JobFileKeptHolds` needs a second invariant on top, `FileInv`, since a settled job file is not protected by
the record itself: an update takes a file it could not read for its own base and goes by the row alone. It
would write over a settled file whose row lags behind, so `RowFollows` says when a row does: while nothing
has failed only after a stop killed a worker between its two writes, and then nobody is left who would
update (`Abandoned`). That rests on who can know a worker's pid: a record has it from the launcher's note
or from the worker's start (`PidsAreTold`), so a stop that can kill comes after the launcher is done, or
after everything about the job was settled (`StopComesLast`). With one failure spent on the row the read
succeeds, with the failure spent on the read the row is there: `OpenFile` is what remains, and two failures
are where it ends.

`OutcomesKeptHolds` is the refinement of `JobOutcomes`, and its hard case is the start of a worker. That a
row goes to running only from queued, and once, is nowhere checked by the code: the worker's update judges
its job file, which others write without the lock, and the row it replaces was read by its own write. So
`FileInv` has a third group, `LedgerTold`: while nothing has failed, the row of an active job says what its
file says but between the two writes of one update, a forgotten job is never queued again, and a running
record means that its worker has begun (`JobTold`); and a write in progress says what the file will and
brings in `running` only as the worker's own start (`OpTold`). Then every index write is, for its own job
and each one it prunes or restores, one step of `JobOutcomes` (`IndexOutcomes`; `Goes` gives the
guard of `Forget`), and of all other steps only a worker's end shows (`OtherSteps`). It holds while
nothing failed or died, which is what the abstract `disturbed` says; with a failed write a
terminal row may go back to active (`TerminalAbsorbing` below the findings), so more would be false.

`StopProcesses_proofs`. `LookIsTrue` says for every platform what the verdict in progress knows: a start or
a mark that was read belongs to who had the pid at that time, so `ours` is about the recorded process, about
one that changed hands since, or from a start alone (`SignalNeedsOwnLookHolds`). `HostStands` keeps
generations of a pid apart and `TargetsStand` says that an outcome, once given, stays so while the host
moves on, which with `LoopsStand` (how far the two rounds are) gives `OutcomesAreTrueHolds`.

`ClaudeTurn_proofs`. The companion learns of the child through a pipe, so the invariant relates what is
unread to what is so: the last unread event of an edit, or else what was read of it, is what the child
said (`CallsAreTold`), the result is written once (`ResultIsTold`), and the init event comes first
(`InitComesFirst`). With `Phases` and `Reserved` it gives `ReportIsTheChildsHolds` and
`SessionHeldWhileChildRunsHolds`.

`CodexTurn_proofs`, about two modules that share no state. `TurnRunner`: what the broker has of a run is a
turn the run waits for or a dead run's (`BrokersTurns`), and a run owns its thread from before it asks for
it until it is over (`Owners`); so an answer that allows a repetition is about a turn that never began
(`TurnStartsOnceHolds`). What a run heard last is why it goes on privately, and after an answer that told of
an abandoned turn it has waited (`ThreadIsItsOwnersHolds`). `TurnCapture`: lines that come before the
response are only kept, so the invariant speaks of the capture as it would be after their replay, `Capture`;
it has taken every line of its turn and none of an older one (`AllTaken`, `OwnTaken`), and a line received
early or late changes it alike. That the replay of a longer buffer is one more line applied (`FoldAppend`)
rests on lemmas about the library's fold, whose recursion is unwound by a least counterexample (`LeastOne`)
since no prover here does induction: `OwnTurnOnlyHolds`, `NothingLostHolds`.

`Workspace_proofs` has the modules about a workspace's own files and the broker's record, which share no
state either; each section stands alone.

`WorkRecords` (`RecordsAlwaysStand`): what a reader will write back named the plan it was given
(`RecordsNamed`, `PlansMarked`), and a record that nobody wrote behind a reader is what it read
(`ReadsAreFresh`), so its merge loses nothing.

`BrokerLifecycle` (`CommandsAreAlwaysServed`, `BusyRecordAlwaysStays`): a broker that anyone but its
spawner goes by was saved (`SavedBeforeSeen`), so it is up or gone and never still starting; a command
nobody came between finds what it read (`AloneFinds`); and as long as no answer was late only a broker
that is gone is torn down (`PunctualIsTrue`), on which `BusyRecordStays` rests.

`SessionRegistry` (`ActiveRootsAreListed`): a launch that is past its check either is in the list or met an
end, and one that an end leaves active while it removes the list is one it failed to settle.
`LegacyMigration` (`MigratedMeansAll`): whoever is to write the marker has seen every other file.
`Worktrees` (`WorktreesStayWhole`): two commands at work on one path have crossed (`Apart`), so a path about
to be deleted has no link (`Unlinked`); what is linked is what the main tree ignores (`Ignored`), a path
nobody got to has no link (`Fresh`), and the only command that got to its path knows every link there
(`Owned`).

`Announcements` (`EveryEndIsToldOf`): no watermark, written or held by a hook, is beyond the
latest end told of (`MarksFollow`), and every row up to that end is accounted for (`Accounted`), which a
slow hook that puts the watermark back and a reset do not disturb. That a bounded set of ends has a
latest one is a lemma from the well-foundedness of `<` (`BoundedMax`).

`JobStatus` (`ReportsAreTrue`, `ChildPidIsKept`): a settle writes a row that has no outcome, as
the job file says if that has one, and only the worker brings in an outcome the file does not hold
(`SettlesAgree`); so row, file, reports and what readers have read agree (`OutcomesAgree`), and once the
worker is gone its outcome reaches the row from the file (`SettledShows`). `ChildKept` is the
strengthening for the pid: an update between its two writes has put it into the file.

`TaskThreads` (`ResumesAlwaysFit`): a resume is judged against one job, the newest row with the id, and a
background task only once, at its launch; the index forgets settled rows meanwhile. The invariant is why
that is enough: the runs of an id are those of the tasks that have it (`RunsAreTheirs`), a task that has
an id keeps its row unless the index dropped one of the same id (`OnRecord`), an id that no row was
dropped for is run by its own runtime (`OnItsRuntime`), and all tasks with it are alike, as is a task
that waits to resume it (`ResumesAlike`). Filters of a sequence are a recursive function, `Only`, whose
value (`OnlyFacts`) is again shown by a least counterexample.

`Launch`, with `Models` (`LaunchesAlwaysStand`): what an alias resolves to resolves to itself from then
on, a row of the Claude table by its own name (`RowIsNamed`), an id of Codex against every catalog
(`CodexModelIsStable`), so the pin means one launch whatever the defaults and the catalog say
(`PinStands`). `JudgedIsSound` carries a config call from its judgement to its write. The assumptions are
what the shipped tables are: a version once and with a default that it takes, no name in two rows of the
registry and none an OpenAI id (`models/model-table.ts:36-48`, `models/registry.ts`), and that catalogs
list tiers of the ladder, which `normalizeEfforts` sees to (`models/catalog.ts:64-77`).

Only model-checked, and why:

- Liveness, and whatever rests on ENABLED, since the prover has no support for it here: `CallEnds`,
  `StaleLockGoes`, `JobSettles`, `DeadLockGoes`, `GateOpens`, `RunEnds`, `CaptureEnds`, `StopEnds`,
  `StrayExits`, `TurnEnds`.
- `DiffIsAPatch` is about a table computed by recursion over two texts, which needs induction over data.

## Not modelled

Inside the modelled components:

- File lock: errors are one failing operation whatever its cause; a holder is suspended beyond the age
  limit at most as often as `MaxFaults`; the directory helpers.
- Ledger: overlap of two operations on the index (that is `FileLock`'s subject, and `saveStateMerged`
  exists for it), recovery of an unreadable index, log files, the Codex interrupt of a cancel. In
  `JobStatus` phases only grow: after a failed job-file write whose row took the phase, an event of the
  phase before would write nothing.
- Stop: parsing of ps and PowerShell output; the spawn helpers.
- Reservation: file naming and the legacy location.
- Claude run: read-only roles, structured output, permission flags, Windows.
- Broker: the initialize handshake, notifications once it is closing, what an app-server does with
  another client's interrupt.
- Turn runner: the review turn's request, sandbox and model fields.
- Turn capture: diff and plan progress, reasoning and command lists, malformed notifications, the
  previous handler, lines of a turn the broker gave up on.
- Launch: letter case and spelling of names, and the effort of a dry run that resolved none (nothing is
  pinned then).
- Plan comparison: the cut of the output by characters, and what is shown when the output is over its cap.
- Worktrees: what makes a directory a dependency, and the commands that list and prune.

Whole components are `not_modelled` in `PROJECT.json` with the reason: session transfer, the stop review
gate, the review commands, argument handling, git, probes, rendering and formatting helpers are single
calls or formatting, with no state between two steps and no order to get wrong.

## Plan

The abstract specifications that were planned are stated and proved: `SerialUpdates`, `JobOutcomes` and
`ThreadPossession`. What would come next, most important first:

1. The Codex interrupt of a cancel, composed of `JobLedger` and `BrokerServer`.
2. A weaker `JobOutcomes` that `JobLedger` implements after one failure, in which a row may lag behind
   until somebody updates its job.
