---------------------------- MODULE StopProcesses ----------------------------
(***************************************************************************)
(* The stop of the processes a job records (jobs/job-lifecycle.ts), over   *)
(* the processes of the host (platform/process.ts): every target is        *)
(* identified and, only when it is the recorded process, gets the polite   *)
(* signal; once its grace is over a fresh verdict decides on the hard one; *)
(* it counts as stopped only once it is confirmed gone.  The escalation on *)
(* child handles (signalThenEscalate) is the second mode of the module.    *)
(*                                                                         *)
(* A look at a process and the signal that follows are system calls of     *)
(* their own: between any two of them a process may exit, be reaped, and   *)
(* its pid go to a stranger.  A pid is not given out again while a process *)
(* or a group holds it.                                                    *)
(***************************************************************************)
EXTENDS ProcessIdentity, Sequences, FiniteSets

CONSTANTS
    Targets,      \* the order of the targets: a sequence of pids
    MaxGen,       \* bound: the processes each pid names, one after the other
    Crowded,      \* bound: the pids that may lead a group, with other members
    MaxFailures   \* bound: signals and probes that fail

ASSUME TargetsAssumption ==
    /\ Targets \in Seq(Nat \ {0}) /\ Targets # << >>
    /\ MaxGen \in [{Targets[i] : i \in DOMAIN Targets} -> Nat \ {0}] /\ MaxFailures \in Nat

Pids == {Targets[i] : i \in DOMAIN Targets}
Boot == 2    \* this boot's id; the recorded process is generation 1 of its pid

VARIABLES
    platform,   \* the host's
    mode,       \* "stop": stopTargets; "sync", "timer": signalThenEscalate
    record,     \* the start token recorded for each pid
    proc,       \* who has each pid: generation, state, program, group leader
    group,      \* the generation whose other members keep the group, 0 for none
    at,         \* where the caller is: its loop, target and step
    look,       \* what the running verdict has read, and the verdict
    target,     \* each pid's StopTarget: outcome, phase, due, leaderGone
    failures,   \* signals and probes that failed so far
    strays,     \* history: the signals that reached another process
    hard        \* history: the pids whose own process or group had the hard signal

vars == <<platform, mode, record, proc, group, at, look, target, failures, strays, hard>>
host == <<proc, group>>
history == <<strays, hard>>
setup == <<platform, mode, record>>

Posix     == platform # "win32"
Here      == Targets[at.i]
Start(p)  == Comparable(platform, record[p])
NoLook    == [marker |-> "unknown", verdict |-> "none", meant |-> FALSE, veiled |-> FALSE]

Fresh(gen, marker, leads) == [gen |-> gen, st |-> "runs", marker |-> marker, leads |-> leads]
Nobody(gen) == [gen |-> gen, st |-> "gone", marker |-> FALSE, leads |-> FALSE]

\* When a generation started, for the platforms that compare a wall start:
\* the second within the window of the recorded one, the third after it.
StartedAt(gen) == IF gen = 1 THEN 0 ELSE (Forward + gen) - 2

Observed(p) == IF platform = "linux" THEN LinuxStart(Boot, proc[p].gen)
                                     ELSE WallStart(StartedAt(proc[p].gen))

\* kill(pid, 0), and on Linux the state of the pid's stat.
HasExited(p) == proc[p].st = "gone" \/ (platform = "linux" /\ proc[p].st = "zombie")

Members(p)      == group[p] # 0 \/ (proc[p].leads /\ proc[p].st # "gone")
CommandMarks(p) == IF proc[p].st = "runs" /\ proc[p].marker THEN "yes" ELSE "no"
Own(p)          == proc[p].gen = 1

\* A start that passes for the recorded one by the wall clock.
Timely(p) == platform # "linux" /\ Start(p) # NoStart /\ InWindow(Observed(p), Start(p))

\* A stranger no look can tell from the recorded process.
Alike(p) ==
    /\ ~Own(p) /\ proc[p].marker
    /\ Start(p) = NoStart \/ Timely(p)

Meant(p) == Own(p) \/ Alike(p)

\* A child's handle says it runs until it was reaped.
HandleRuns(p) == Own(p) /\ proc[p].st # "gone"

Init ==
    /\ platform \in Platforms
    /\ mode \in {"stop", "sync", "timer"}
    /\ record \in [Pids -> IF platform = "linux"
                             THEN {LinuxStart(Boot, 1), LinuxStart(1, 1), NoStart}
                             ELSE {WallStart(0), NoStart}]
    /\ mode # "stop" => \A p \in Pids : record[p] = NoStart
    /\ \A p, q \in Pids : record[p] = NoStart => record[q] = NoStart
    /\ \E leads \in [Pids -> BOOLEAN] :
         proc = [p \in Pids |-> IF record[p].boot = 1 THEN Nobody(1)
                                                      ELSE Fresh(1, TRUE, leads[p])]
    /\ group \in [Pids -> {0, 1}]
    /\ \A p \in Pids : proc[p].leads => p \in Crowded
    /\ \A p \in Pids : group[p] = 1 => proc[p].leads
    /\ at = [loop |-> IF mode = "stop" THEN "first" ELSE "term", i |-> 1, step |-> "alive"]
    /\ look = NoLook
    /\ target = [p \in Pids |-> [outcome |-> "none", phase |-> "term", due |-> FALSE,
                                 leaderGone |-> FALSE]]
    /\ failures = 0 /\ strays = {} /\ hard = {}

-----------------------------------------------------------------------------
(* The host.                                                                *)

Exit(p) ==
    /\ proc[p].st = "runs"
    /\ proc' = [proc EXCEPT ![p].st = IF Posix THEN "zombie" ELSE "gone"]
    /\ UNCHANGED <<setup, group, at, look, target, failures, history>>

\* The parent reaps; a caller that waits in place does not.
Reap(p) ==
    /\ proc[p].st = "zombie"
    /\ mode = "sync" => ~Own(p)
    /\ proc' = [proc EXCEPT ![p].st = "gone"]
    /\ UNCHANGED <<setup, group, at, look, target, failures, history>>

MembersExit(p) ==
    /\ group[p] # 0
    /\ group' = [group EXCEPT ![p] = 0]
    /\ UNCHANGED <<setup, proc, at, look, target, failures, history>>

Reuse(p) ==
    /\ proc[p].st = "gone" /\ group[p] = 0 /\ proc[p].gen < MaxGen[p]
    /\ \E marker, leads \in BOOLEAN, members \in BOOLEAN :
         /\ members => leads
         /\ leads => p \in Crowded
         /\ proc' = [proc EXCEPT ![p] = Fresh(@.gen + 1, marker, leads)]
         /\ group' = [group EXCEPT ![p] = IF members THEN proc[p].gen + 1 ELSE 0]
    /\ UNCHANGED <<setup, at, look, target, failures, history>>

\* The wait a target was given is over.
Elapse(p) ==
    /\ at.loop = "poll" \/ (at.loop = "grace" /\ p = Here)
    /\ target[p].outcome = "none" /\ ~target[p].due
    /\ target' = [target EXCEPT ![p].due = TRUE]
    /\ UNCHANGED <<setup, host, at, look, failures, history>>

-----------------------------------------------------------------------------
(* Slips the checked properties must notice: each replaces the definition   *)
(* of the same arity named behind it.                                      *)

Step(step) == at' = [at EXCEPT !.step = step]

TrustFirstLook(p) == Step("signal") /\ look' = look /\ target' = target   \* LookDue
SignalledIsGone(v) ==                                                     \* PolledOutcome
    IF v \in {"dead", "foreign"} \/ target[Here].phase = "kill" THEN "stopped"
    ELSE IF v = "unknown" \/ ~Posix THEN "unconfirmed" ELSE "none"
NoHardSignal(v) ==                                                        \* PolledOutcome
    CASE v \in {"dead", "foreign"} -> "stopped"
      [] OTHER -> "unconfirmed"
LastStays(p) ==                                                           \* NextTarget
    /\ look' = NoLook
    /\ at' = IF at.i < Len(Targets) THEN [at EXCEPT !.i = @ + 1, !.step = "alive"]
             ELSE [at EXCEPT !.loop = "poll", !.i = 1, !.step = "poll"]

-----------------------------------------------------------------------------
(* processVerdict, one system call per step.                                *)

Verdict(v) == look' = [look EXCEPT !.verdict = v, !.meant = @ \/ Meant(Here)] /\ Step("act")

\* What an identity says; one without a command line leaves a timely start
\* unchallenged.
Judged(start, marker) ==
    /\ look' = [look EXCEPT !.verdict = IdentityVerdict([start |-> start, marker |-> marker], Start(Here)),
                            !.meant = @ \/ Meant(Here),
                            !.veiled = (marker = "unknown" /\ Timely(Here))]
    /\ Step("act")

\* The recorded boot, then whether the pid still runs.
LookAlive ==
    /\ at.step = "alive" /\ mode = "stop"
    /\ IF FromEarlierBoot(platform, Start(Here), Boot) \/ HasExited(Here)
         THEN Verdict("dead")
         ELSE look' = NoLook /\ Step("identity")
    /\ UNCHANGED <<setup, host, target, failures, history>>

\* /proc/<pid>/cmdline, or the one probe that gives command and start.
ReadIdentity ==
    /\ at.step = "identity"
    /\ IF proc[Here].st = "gone" THEN look' = NoLook /\ Step("again")
       ELSE IF platform = "linux"
         THEN look' = [NoLook EXCEPT !.marker = CommandMarks(Here), !.meant = Meant(Here)] /\ Step("start")
         ELSE Judged(Observed(Here), CommandMarks(Here))
    /\ UNCHANGED <<setup, host, target, failures, history>>

\* A probe that gives nothing, no start (a locale, a withheld time), or no
\* command line.
ProbeFails ==
    /\ at.step = "identity" /\ platform # "linux" /\ failures < MaxFailures
    /\ failures' = failures + 1
    /\ \/ look' = NoLook /\ Step("again")
       \/ /\ proc[Here].st # "gone"
          /\ \E start \in {NoStart, Observed(Here)}, marker \in {"unknown", CommandMarks(Here)} :
               (start = NoStart \/ marker = "unknown") /\ Judged(start, marker)
    /\ UNCHANGED <<setup, host, target, history>>

\* /proc/<pid>/stat.
ReadStart ==
    /\ at.step = "start"
    /\ Judged(IF proc[Here].st = "gone" THEN NoStart ELSE Observed(Here), look.marker)
    /\ UNCHANGED <<setup, host, target, failures, history>>

LookAgain ==
    /\ at.step = "again"
    /\ Verdict(IF HasExited(Here) THEN "dead" ELSE "unknown")
    /\ UNCHANGED <<setup, host, target, failures, history>>

-----------------------------------------------------------------------------
(* terminateProcessTree: the group the pid leads, else (unless only the     *)
(* group is meant) the pid; on Windows the tree of a pid that still runs.   *)

Reached(p, only) ==
    LET leader == proc[p].st # "gone" /\ (proc[p].leads \/ ~only)
    IN (IF leader THEN {proc[p].gen} ELSE {}) \cup (IF Posix THEN {group[p]} \ {0} ELSE {})

Deliver(p, sig, only) ==
    LET own == 1 \in Reached(p, only)
    IN /\ hard' = hard \cup (IF own /\ sig = "kill" THEN {p} ELSE {})
       /\ strays' = strays \cup (IF Reached(p, only) \subseteq {1} THEN {} ELSE
            {[pid |-> p, only |-> only, looked |-> look.meant, veiled |-> look.veiled]})

\* The signal is delivered (or finds nobody), or it is refused: the failure
\* of a target is its own.
FailsOnce        == failures < MaxFailures /\ failures' = failures + 1 /\ UNCHANGED history
Refused          == FailsOnce /\ ~HasExited(Here)
Given(sig, only) == failures' = failures /\ Deliver(Here, sig, only)

Outcome(outcome) == target' = [target EXCEPT ![Here].outcome = outcome]
Waits(phase)     == target' = [target EXCEPT ![Here].phase = phase, ![Here].due = FALSE]

AllSettled == \A p \in Pids : target'[p].outcome # "none"

\* The next target of the pass, or the next pass after the poll's sleep.
NextTarget(p) ==
    /\ look' = NoLook
    /\ at' = IF at.i < Len(Targets)
               THEN [at EXCEPT !.i = @ + 1, !.step = IF at.loop = "first" THEN "alive" ELSE "poll"]
             ELSE IF AllSettled THEN [at EXCEPT !.loop = "over", !.step = "over"]
             ELSE [loop |-> "poll", i |-> 1, step |-> "poll"]

FirstOutcome(v) ==
    CASE v = "dead" -> "exited" [] v = "foreign" -> "foreign"
      [] v = "unknown" -> "unconfirmed" [] OTHER -> "none"

PolledOutcome(v) ==
    IF v \in {"dead", "foreign"} THEN "stopped"
    ELSE IF v = "unknown" \/ target[Here].phase = "kill" \/ ~Posix THEN "unconfirmed"
    ELSE "none"

\* What the verdict says of the target: nothing more to do, or the signal.
Act ==
    /\ at.step = "act"
    /\ LET outcome == IF at.loop = "first" THEN FirstOutcome(look.verdict)
                                           ELSE PolledOutcome(look.verdict)
       IN IF outcome # "none" THEN Outcome(outcome) /\ NextTarget(Here)
          ELSE Step("signal") /\ UNCHANGED <<target, look>>
    /\ UNCHANGED <<setup, host, failures, history>>

Signal ==
    /\ at.step = "signal"
    /\ \/ Given(IF at.loop = "first" THEN "term" ELSE "kill", FALSE)
          /\ Waits(IF at.loop = "first" THEN "term" ELSE "kill")
       \/ Refused /\ Outcome("failed")
    /\ NextTarget(Here)
    /\ UNCHANGED <<setup, host>>

LookDue(p) == Step("alive") /\ look' = NoLook /\ target' = target

\* One target of a poll: settled already, its leader gone, its wait over or not.
Poll ==
    /\ at.step = "poll"
    /\ CASE target[Here].outcome # "none" -> target' = target /\ NextTarget(Here)
         [] target[Here].outcome = "none" /\ (target[Here].leaderGone \/ HasExited(Here)) ->
              /\ target' = [target EXCEPT ![Here].leaderGone = TRUE]
              /\ Step("group") /\ look' = look
         [] OTHER -> IF target[Here].due THEN LookDue(Here)
                     ELSE target' = target /\ NextTarget(Here)
    /\ UNCHANGED <<setup, host, failures, history>>

\* The leader is gone: what is left of its group gets its grace as well.
LookGroup ==
    /\ at.step = "group"
    /\ IF target[Here].phase = "term" /\ Posix /\ Members(Here)
         THEN /\ target' = target
              /\ IF target[Here].due THEN Step("sweep") /\ look' = look ELSE NextTarget(Here)
         ELSE Outcome("stopped") /\ NextTarget(Here)
    /\ UNCHANGED <<setup, host, failures, history>>

Sweep ==
    /\ at.step = "sweep"
    /\ Given("kill", TRUE) \/ FailsOnce
    /\ Outcome("stopped") /\ NextTarget(Here)
    /\ UNCHANGED <<setup, host>>

-----------------------------------------------------------------------------
(* signalThenEscalate on the children of the caller: the polite signal to   *)
(* all, the grace, the hard one unless the targets settled.                 *)

NextChild(loop) ==
    at' = IF at.i < Len(Targets) THEN [at EXCEPT !.i = @ + 1]
          ELSE [at EXCEPT !.i = 1, !.loop = loop]

SignalGroup(sig) ==
    IF HandleRuns(Here) THEN Given(sig, FALSE) \/ Refused
    ELSE IF Posix THEN Given(sig, TRUE)
    ELSE UNCHANGED <<failures, history>>

EscalatePolite ==
    /\ at.loop = "term" /\ SignalGroup("term")
    /\ NextChild(IF Posix THEN "grace" ELSE "over")
    /\ UNCHANGED <<setup, host, look, target>>

\* The grace is over; stillNeeded may say that the targets settled.
EscalateHard ==
    /\ at.loop = "grace" /\ target[Here].due
    /\ at' = [at EXCEPT !.loop = "kill"] \/ at' = [at EXCEPT !.loop = "spared"]
    /\ UNCHANGED <<setup, host, look, target, failures, history>>

EscalateKill ==
    /\ at.loop = "kill" /\ SignalGroup("kill")
    /\ NextChild("over")
    /\ UNCHANGED <<setup, host, look, target>>

-----------------------------------------------------------------------------
Caller == \/ LookAlive \/ ReadIdentity \/ ProbeFails \/ ReadStart \/ LookAgain
          \/ Act \/ Signal \/ Poll \/ LookGroup \/ Sweep
          \/ EscalatePolite \/ EscalateHard \/ EscalateKill

Host(p) == Exit(p) \/ Reap(p) \/ MembersExit(p) \/ Reuse(p)

\* The host is followed for as long as the caller runs.
Runs == at.loop \notin {"over", "spared"}

Next == Caller \/ (Runs /\ \E p \in Pids : Host(p)) \/ \E p \in Pids : Elapse(p)

Spec == Init /\ [][Next]_vars

\* The caller runs on, and time passes; no process need ever exit.
FairSpec == Spec /\ WF_vars(Caller) /\ \A p \in Pids : WF_vars(Elapse(p))

-----------------------------------------------------------------------------
(* Properties.                                                              *)

(* A signal to a pid reaches a process that is not the recorded one only   *)
(* when the pid changed hands after the look that said 'ours' (it is never *)
(* sent on an older look, nor on one that could not be verified), when no  *)
(* look can tell the two apart, or when the probe gave a start within the  *)
(* window and no command line, which counts as 'ours' (job-lifecycle.ts:   *)
(* 387-396, process.ts:317-325, 497-519, 599-603).                         *)
SignalNeedsOwnLook ==
    \A h \in strays : h.only \/ h.looked \/ h.veiled

(* An outcome that counts as confirmed (stopConfirmed: exited, foreign,    *)
(* stopped) is given only to a recorded process that no longer runs,       *)
(* whatever probe or signal failed before (job-lifecycle.ts:558-564).      *)
ConfirmedIsGone ==
    \A p \in Pids : target[p].outcome \in {"exited", "foreign", "stopped"} =>
        ~(Own(p) /\ proc[p].st = "runs")

(* A recorded process that outlives the stop had the hard signal, unless   *)
(* something failed on the way or the escalation was called off            *)
(* (job-lifecycle.ts:436-497, process.ts:708-751).                         *)
SurvivorHadHardSignal ==
    (at.loop = "over" /\ Posix /\ failures = 0) =>
        \A p \in Pids : (Own(p) /\ proc[p].st = "runs") => p \in hard

(* Both: what a stop says of its targets is so, and it said it only after  *)
(* it had tried what it may.                                               *)
OutcomesAreTrue == ConfirmedIsGone /\ SurvivorHadHardSignal

(* A group whose leader went away during the grace gets the hard signal    *)
(* while a member remains (the comment at job-lifecycle.ts:399-402).  It   *)
(* does not hold: a leader that goes between the poll's look and the       *)
(* verdict of the same pass is counted as stopped with its group alive.    *)
GroupGetsHardSignal ==
    (at.loop = "over" /\ mode = "stop" /\ failures = 0) =>
        \A p \in Pids : (target[p].outcome = "stopped" /\ group[p] = 1 /\ Posix) => p \in hard

(* Every stop and escalation ends, though no process obeys                 *)
(* (job-lifecycle.ts:436-497).                                             *)
StopEnds == <>(at.loop \in {"over", "spared"})

=============================================================================
