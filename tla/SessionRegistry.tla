--------------------------- MODULE SessionRegistry ---------------------------
(***************************************************************************)
(* The roots in which a session launched jobs (workspace/session-          *)
(* registry.ts): a launch adds its root under the file lock before it      *)
(* queues its job; the session's end reads the list, sweeps the jobs of    *)
(* these roots and removes the list without the lock                       *)
(* (hooks/session-lifecycle.ts).  One session id, which may end and be     *)
(* resumed.                                                                *)
(***************************************************************************)
EXTENDS FiniteSets, Naturals

CONSTANTS
    Launches,   \* the launches of the session
    RootOf,     \* the workspace root each one launches into
    MaxEnds     \* bound: ends of the session

VARIABLES
    roots,      \* the registry file; it does not exist when empty
    locked,     \* the launch that holds the registry's lock
    launch,     \* where each launch is
    read,       \* the roots a launch read under the lock
    ending,     \* where the session's end is
    sweeping,   \* the roots it goes through
    ends,       \* ends so far
    met,        \* history: launches that met an end between its read and its removal
    unlisted,   \* history: launches whose root could not be recorded
    unswept     \* history: launches whose job a sweep could not settle

regVars == <<roots, locked, launch, read, ending, sweeping, ends, met, unlisted, unswept>>

RegInit ==
    /\ roots = {} /\ locked = {}
    /\ launch = [l \in Launches |-> "idle"] /\ read = [l \in Launches |-> {}]
    /\ ending = "none" /\ sweeping = {} /\ ends = 0 /\ met = {} /\ unlisted = {}
    /\ unswept = {}

MeetsEnd(l) == met' = IF ending = "none" THEN met ELSE met \cup {l}

\* The slip Locks must not make: the list is changed without the lock.
NeverHeld == TRUE

\* withFileLock lets one writer in.
Locks == locked = {}

\* recordSessionWorkspace: a root already listed needs no lock.
LookUp(l) ==
    /\ launch[l] = "idle"
    /\ launch' = [launch EXCEPT ![l] = IF RootOf[l] \in roots THEN "listed" ELSE "lock"]
    /\ MeetsEnd(l)
    /\ UNCHANGED <<roots, locked, read, ending, sweeping, ends, unlisted, unswept>>

ReadRoots(l) ==
    /\ launch[l] = "lock" /\ Locks
    /\ locked' = locked \cup {l}
    /\ read' = [read EXCEPT ![l] = roots]
    /\ launch' = [launch EXCEPT ![l] = "write"]
    /\ MeetsEnd(l)
    /\ UNCHANGED <<roots, ending, sweeping, ends, unlisted, unswept>>

WriteRoots(l) ==
    /\ launch[l] = "write"
    /\ locked' = locked \ {l}
    /\ roots' = read[l] \cup {RootOf[l]}
    /\ launch' = [launch EXCEPT ![l] = "listed"]
    /\ MeetsEnd(l)
    /\ UNCHANGED <<read, ending, sweeping, ends, unlisted, unswept>>

\* A CODEX_HOME that cannot be written, or a lock that is not to be had.
FailToRecord(l) ==
    /\ launch[l] \in {"lock", "write"}
    /\ locked' = locked \ {l}
    /\ launch' = [launch EXCEPT ![l] = "listed"]
    /\ unlisted' = unlisted \cup {l}
    /\ MeetsEnd(l)
    /\ UNCHANGED <<roots, read, ending, sweeping, ends, unswept>>

\* createJobRecord is through, and the job is queued.
QueueJob(l) ==
    /\ launch[l] = "listed"
    /\ launch' = [launch EXCEPT ![l] = "active"]
    /\ MeetsEnd(l)
    /\ UNCHANGED <<roots, locked, read, ending, sweeping, ends, unlisted, unswept>>

JobEnds(l) ==
    /\ launch[l] = "active"
    /\ launch' = [launch EXCEPT ![l] = "over"]
    /\ UNCHANGED <<roots, locked, read, ending, sweeping, ends, met, unlisted, unswept>>

\* handleSessionEnd, unless the session goes on (`/clear`, `/resume`), in
\* which case it leaves jobs and list alone.  A launch that has begun and
\* not yet queued its job meets the end.
ReadAtEnd ==
    /\ ending = "none" /\ ends < MaxEnds
    /\ ends' = ends + 1 /\ ending' = "sweep" /\ sweeping' = roots
    /\ met' = met \cup {l \in Launches : launch[l] \in {"lock", "write", "listed"}}
    /\ UNCHANGED <<roots, locked, launch, read, unlisted, unswept>>

ActiveIn(root) == {l \in Launches : RootOf[l] = root /\ launch[l] = "active"}

\* A root's active jobs are settled, as far as its state can be read and
\* written: the sweep goes on over those that are not.
SweepRoot ==
    /\ ending = "sweep"
    /\ \E root \in sweeping : \E failed \in SUBSET ActiveIn(root) :
          /\ sweeping' = sweeping \ {root}
          /\ launch' = [l \in Launches |-> IF l \in ActiveIn(root) \ failed THEN "over" ELSE launch[l]]
          /\ unswept' = unswept \cup failed
    /\ UNCHANGED <<roots, locked, read, ending, ends, met, unlisted>>

\* clearSessionWorkspaces, whatever the sweep achieved.
RemoveRoots ==
    /\ ending = "sweep" /\ sweeping = {}
    /\ roots' = {} /\ ending' = "none"
    /\ UNCHANGED <<locked, launch, read, sweeping, ends, met, unlisted, unswept>>

\* The process of the sweep is killed, or the list is not to be removed.
EndCut ==
    /\ ending = "sweep" /\ ending' = "none" /\ sweeping' = {}
    /\ UNCHANGED <<roots, locked, launch, read, ends, met, unlisted, unswept>>

RegNext ==
    \/ \E l \in Launches : \/ LookUp(l) \/ ReadRoots(l) \/ WriteRoots(l) \/ FailToRecord(l)
                           \/ QueueJob(l) \/ JobEnds(l)
    \/ ReadAtEnd \/ SweepRoot \/ RemoveRoots \/ EndCut

RegSpec == RegInit /\ [][RegNext]_regVars

(* A session's active job lies in a root that the next end of the session  *)
(* will sweep, unless its launch could not record the root or met an end   *)
(* that had read the list and not yet removed it (session-registry.ts:     *)
(* 44-72, 77-87), or an end tried to settle the job and could not: the     *)
(* list goes all the same (session-lifecycle.ts:129-146, 375-378).         *)
ActiveRootIsListed ==
    \A l \in Launches :
        launch[l] = "active" => \/ RootOf[l] \in roots
                                \/ l \in met \cup unlisted \cup unswept

=============================================================================
