---------------------------- MODULE Announcements ----------------------------
(***************************************************************************)
(* The SessionStart hook tells a session which jobs of the workspace run   *)
(* and which finished since the watermark, and moves the watermark to the  *)
(* latest end it told of (hooks/session-lifecycle.ts,                      *)
(* jobs/job-announcements.ts).  Hooks of several sessions overlap; a job's *)
(* end is stamped before its row is written.  Times are milliseconds.      *)
(***************************************************************************)
EXTENDS Integers, FiniteSetsExt

CONSTANTS
    JobIds,    \* the jobs of the workspace
    Hooks,     \* the session starts
    MaxClock   \* bound: the last millisecond

VARIABLES
    clock,
    rowAt,       \* each job's row: -1 none, 0 active, else its end
    stamp,       \* the end a job's settle has taken and not yet written, 0 for none
    watermark,   \* 0 for none
    hook,        \* where each hook is
    mark,        \* the watermark it will write
    told,        \* history: the finished jobs some hook told of
    toldEnd,     \* history: the latest end told of, or the first watermark
    overtaken    \* history: jobs whose row came when a later end had been told of

annVars == <<clock, rowAt, stamp, watermark, hook, mark, told, toldEnd, overtaken>>

AnnInit ==
    /\ clock = 1
    /\ rowAt = [j \in JobIds |-> -1] /\ stamp = [j \in JobIds |-> 0]
    /\ watermark = 0
    /\ hook = [h \in Hooks |-> "idle"] /\ mark = [h \in Hooks |-> 0]
    /\ told = {} /\ toldEnd = 0 /\ overtaken = {}

\* The slip NextMark must not make: everything up to now counts as told.
UpToNow(ends) == clock

\* The next watermark, from the ends that are later than the current one.
NextMark(ends) == IF watermark = 0 THEN clock ELSE Max(ends \cup {0})

Launch(j) ==
    /\ rowAt[j] = -1 /\ stamp[j] = 0
    /\ rowAt' = [rowAt EXCEPT ![j] = 0]
    /\ UNCHANGED <<clock, stamp, watermark, hook, mark, told, toldEnd, overtaken>>

\* completedAt is taken before the settle waits for the index lock.
StampEnd(j) ==
    /\ rowAt[j] = 0 /\ stamp[j] = 0
    /\ stamp' = [stamp EXCEPT ![j] = clock]
    /\ UNCHANGED <<clock, rowAt, watermark, hook, mark, told, toldEnd, overtaken>>

WriteEnd(j) ==
    /\ rowAt[j] = 0 /\ stamp[j] > 0
    /\ rowAt' = [rowAt EXCEPT ![j] = stamp[j]]
    /\ overtaken' = IF stamp[j] <= toldEnd THEN overtaken \cup {j} ELSE overtaken
    /\ UNCHANGED <<clock, stamp, watermark, hook, mark, told, toldEnd>>

\* buildSessionJobAnnouncement: with a watermark the jobs that ended after
\* it, listed or counted as overflow.
Finished == IF watermark = 0 THEN {} ELSE {j \in JobIds : rowAt[j] > watermark}
Announce(h) ==
    /\ hook[h] = "idle"
    /\ LET ends == {rowAt[j] : j \in Finished} IN
       /\ told' = told \cup Finished
       /\ toldEnd' = Max({toldEnd} \cup ends \cup IF watermark = 0 THEN {clock} ELSE {})
       /\ overtaken' = IF watermark = 0 THEN overtaken \cup {j \in JobIds : rowAt[j] > 0}
                       ELSE overtaken
       /\ IF watermark = 0 \/ Finished # {}
          THEN hook' = [hook EXCEPT ![h] = "save"] /\ mark' = [mark EXCEPT ![h] = NextMark(ends)]
          ELSE hook' = [hook EXCEPT ![h] = "done"] /\ UNCHANGED mark
    /\ UNCHANGED <<clock, rowAt, stamp, watermark>>

\* setConfig writes whatever the hook holds, later or earlier than the
\* watermark of a hook that came between.
SaveMark(h) ==
    /\ hook[h] = "save"
    /\ watermark' = mark[h]
    /\ hook' = [hook EXCEPT ![h] = "done"]
    /\ UNCHANGED <<clock, rowAt, stamp, mark, told, toldEnd, overtaken>>

\* doctor --reset-job-announcements.
ResetMark ==
    /\ watermark > 0 /\ watermark' = 0
    /\ \E h \in Hooks : hook[h] = "idle"     \* bound: a hook is still to come
    /\ UNCHANGED <<clock, rowAt, stamp, hook, mark, told, toldEnd, overtaken>>

Millisecond ==
    /\ clock < MaxClock /\ clock' = clock + 1
    /\ UNCHANGED <<rowAt, stamp, watermark, hook, mark, told, toldEnd, overtaken>>

AnnNext ==
    \/ \E j \in JobIds : Launch(j) \/ StampEnd(j) \/ WriteEnd(j)
    \/ \E h \in Hooks : Announce(h) \/ SaveMark(h)
    \/ ResetMark \/ Millisecond

AnnSpec == AnnInit /\ [][AnnNext]_annVars

(* A finished job that no session was told of and none will be (its end is *)
(* not after the watermark) was overtaken: its row was written when a job  *)
(* that ended in the same millisecond or later had been told of, or the    *)
(* first watermark had been taken (job-announcements.ts:60-76).            *)
EndIsToldOf ==
    \A j \in JobIds :
        rowAt[j] > 0 /\ watermark > 0 /\ rowAt[j] <= watermark => j \in told \cup overtaken

=============================================================================
