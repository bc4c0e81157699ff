------------------------- MODULE ThreadReservation -------------------------
(***************************************************************************)
(* The reservation of one thread or session (runtime/reservations.ts,      *)
(* workspace/thread-lock-io.ts): a lock file naming the run that drives    *)
(* it, and beside it the cleanup claim that whoever removes a dead run's   *)
(* lock must hold.  A run acquires, drives, notes its Claude child on the  *)
(* lock and releases; a status or setup scan reaps what dead processes     *)
(* left.  Every read, create, compare and unlink is a step of its own.     *)
(*                                                                         *)
(* A file that is being written reads as one whose owner cannot be told    *)
(* dead; so does one whose owner's pid was reused by a process that cannot *)
(* be told from it (the set Unsure).                                       *)
(***************************************************************************)
EXTENDS Integers, FiniteSets

CONSTANTS
    Runs,       \* the companion runs that want the thread, one acquire each
    Scans,      \* the status and setup scans
    Claude,     \* the runs that drive it with a headless Claude child
    Unsure,     \* processes that count as alive once they are gone
    NoFile,     \* no file at the path
    Tries,      \* RESERVATION_CREATE_ATTEMPTS
    MaxFaults,  \* bound: writes and removals that fail
    MaxCrashes  \* bound: processes that are killed

Procs == Runs \cup Scans

ASSUME ProcsAssumption ==
    Runs \cap Scans = {} /\ Claude \subseteq Runs /\ Unsure \subseteq Procs
ASSUME BoundsAssumption == Tries \in Nat \ {0} /\ MaxFaults \in Nat /\ MaxCrashes \in Nat
ASSUME NoFileAssumption == NoFile \notin Procs

VARIABLES
    lock,     \* the lock: the run whose token it carries, or NoFile
    hint,     \* the lock names that run's Claude child
    claim,    \* the cleanup claim: the process it names, or NoFile
    pc,       \* where each process is
    back,     \* where its reap of a dead claim goes on
    seen,     \* the claim that reap read
    judged,   \* the lock's owner as the process read it ...
    hinted,   \* ... and whether that record named its Claude child
    tries,    \* its creates that found a lock that was gone by the read
    removed,  \* it removed the lock under its claim
    child,    \* each run's Claude child: "none", "live", "gone"
    faults, crashes,
    noted,    \* history: runs whose lock came to name their child
    early,    \* history: those whose lock somebody had read before that
    robbed,   \* history: runs that lost the lock while they drove the thread
    strays    \* history: processes that went and left their claim behind

files   == <<lock, hint, claim>>
reap    == <<back, seen>>
take    == <<judged, hinted, tries, removed>>
budget  == <<faults, crashes>>
history == <<noted, early, robbed, strays>>
vars    == <<files, pc, reap, take, child, budget, history>>

\* A run that has the thread, and a process that is no more.
Driving == {"held", "note", "noteWrite", "running", "release", "unlinkOwn"}
Gone    == {"end", "dead"}
Claiming == {"verify", "unlinkLock", "giveBack", "dropClaim"}

RunOnly  == {"enter", "create", "read", "judge", "createAfter"}

PcValues == Driving \cup Gone \cup Claiming \cup RunOnly \cup
    {"reapSame", "reapUnlink", "claim", "reapTake", "claimAgain", "scan", "scanClaim",
     "scanOwner"}

\* A slip the checked properties must notice, for ChildAllows below.
OwnerOnly(p) == TRUE

Driver(r)  == pc[r] \in Driving
MayRun(p)  == pc[p] \notin Gone \/ p \in Unsure   \* pidIsAlive, mayStillRun

TypeOK ==
    /\ lock \in Runs \cup {NoFile} /\ hint \in BOOLEAN
    /\ claim \in Procs \cup {NoFile}
    /\ pc \in [Procs -> PcValues]
    /\ \A s \in Scans : pc[s] \in PcValues \ (Driving \cup RunOnly)
    /\ back \in [Procs -> {"enter", "take", "scan"}]
    /\ seen \in [Procs -> Procs \cup {NoFile}]
    /\ judged \in [Procs -> Runs \cup {NoFile}]
    /\ tries \in [Procs -> 0..Tries]
    /\ hinted \in [Procs -> BOOLEAN] /\ removed \in [Procs -> BOOLEAN]
    /\ child \in [Runs -> {"none", "live", "gone"}]
    /\ faults \in 0..MaxFaults /\ crashes \in 0..MaxCrashes
    /\ early \subseteq noted /\ noted \subseteq Runs /\ robbed \subseteq Runs /\ strays \subseteq Procs

Init ==
    /\ lock = NoFile /\ hint = FALSE /\ claim = NoFile
    /\ pc = [p \in Procs |-> IF p \in Runs THEN "enter" ELSE "scan"]
    /\ back = [p \in Procs |-> "enter"]
    /\ seen = [p \in Procs |-> NoFile]
    /\ judged = [p \in Procs |-> NoFile]
    /\ tries = [p \in Procs |-> 0]
    /\ hinted = [p \in Procs |-> FALSE]
    /\ removed = [p \in Procs |-> FALSE]
    /\ child = [r \in Runs |-> "none"]
    /\ faults = 0 /\ crashes = 0
    /\ noted = {} /\ early = {} /\ robbed = {} /\ strays = {}

-----------------------------------------------------------------------------
(* Files.                                                                  *)

Go(p, at) == pc' = [pc EXCEPT ![p] = at]

Fault == faults < MaxFaults /\ faults' = faults + 1 /\ UNCHANGED crashes

LockFree == lock = NoFile

\* tryAcquire: an exclusive create.
CreateLock(r) == lock' = r /\ hint' = FALSE

\* An unlink of the lock: it goes, whoever's it is.
UnlinkLock(p) ==
    /\ lock' = NoFile /\ hint' = FALSE
    /\ robbed' = robbed \cup {r \in Runs \ {p} : r = lock /\ Driver(r)}

-----------------------------------------------------------------------------
(* reapDeadCleanupClaim: read the claim, judge its claimant, compare,      *)
(* unlink; three callers go on differently.                                *)

AfterReap == [enter |-> "create", take |-> "claimAgain", scan |-> "scanOwner"]
ReapFails == [enter |-> "end", take |-> "end", scan |-> "scanOwner"]

ReapClaim(p, from, caller) ==
    /\ pc[p] = from
    /\ back' = [back EXCEPT ![p] = caller]
    /\ \/ /\ claim = NoFile
          /\ Go(p, AfterReap[caller]) /\ UNCHANGED seen
       \/ /\ claim # NoFile /\ MayRun(claim)
          /\ Go(p, "end") /\ UNCHANGED seen
       \/ /\ claim # NoFile /\ ~MayRun(claim)
          /\ seen' = [seen EXCEPT ![p] = claim]
          /\ Go(p, "reapSame")
    /\ UNCHANGED <<files, take, child, budget, history>>

\* A slip: a dead claimant's file is taken for a live cleaner's (ReapUnlink).
LeavesClaim(p) ==
    /\ pc[p] = "reapUnlink"
    /\ Go(p, ReapFails[back[p]])
    /\ UNCHANGED <<files, reap, take, child, budget, history>>

ReapSame(p) ==
    /\ pc[p] = "reapSame"
    /\ Go(p, IF claim = NoFile THEN AfterReap[back[p]]
             ELSE IF claim = seen[p] THEN "reapUnlink" ELSE ReapFails[back[p]])
    /\ UNCHANGED <<files, reap, take, child, budget, history>>

ReapUnlink(p) ==
    /\ pc[p] = "reapUnlink"
    /\ \/ claim' = NoFile /\ Go(p, AfterReap[back[p]]) /\ UNCHANGED budget
       \/ Fault /\ Go(p, ReapFails[back[p]]) /\ UNCHANGED claim
    /\ UNCHANGED <<lock, hint, reap, take, child, history>>

-----------------------------------------------------------------------------
(* acquireThreadReservation.                                               *)

\* A claim beside the lock: reaped when its claimant is gone, busy otherwise.
Enter(r) == ReapClaim(r, "enter", "enter")

Create(r) ==
    /\ pc[r] = "create"
    /\ \/ LockFree /\ CreateLock(r) /\ Go(r, "held")
       \/ ~LockFree /\ Go(r, "read") /\ UNCHANGED <<lock, hint>>
    /\ UNCHANGED <<claim, reap, take, child, budget, history>>

CanRetry(r) == tries[r] + 1 < Tries

\* The lock is someone's: gone again, the create is retried.
ReadOwner(r) ==
    /\ pc[r] = "read"
    /\ \/ /\ lock = NoFile
          /\ tries' = [tries EXCEPT ![r] = @ + 1]
          /\ Go(r, IF CanRetry(r) THEN "create" ELSE "end")
          /\ UNCHANGED <<judged, hinted>>
       \/ /\ lock # NoFile
          /\ judged' = [judged EXCEPT ![r] = lock]
          /\ hinted' = [hinted EXCEPT ![r] = hint]
          /\ Go(r, "judge") /\ UNCHANGED tries
    /\ UNCHANGED <<files, reap, removed, child, budget, history>>

ChildAllows(p) == ~(hinted[p] /\ child[judged[p]] = "live")

\* An owner that may run keeps the lock, and so does a Claude child that the
\* record read names and that may run; a dead one's is taken over.
Judge(p) ==
    /\ pc[p] = IF p \in Runs THEN "judge" ELSE "scanOwner"
    /\ Go(p, IF judged[p] # NoFile /\ ~MayRun(judged[p]) /\ ChildAllows(p)
             THEN "claim" ELSE "end")
    /\ UNCHANGED <<files, reap, take, child, budget, history>>

\* The takeover's create, after the removal.
CreateAfter(r) ==
    /\ pc[r] = "createAfter"
    /\ \/ LockFree /\ CreateLock(r) /\ Go(r, "held")
       \/ ~LockFree /\ Go(r, "end") /\ UNCHANGED <<lock, hint>>
    /\ UNCHANGED <<claim, reap, take, child, budget, history>>

-----------------------------------------------------------------------------
(* reapDeadOwnerLock: the claim, the record again, the unlink, the claim   *)
(* given back (claimAndDeleteThreadLock).                                  *)

CreateClaim(p) ==
    /\ pc[p] \in {"claim", "claimAgain"}
    /\ \/ /\ claim = NoFile
          /\ claim' = p /\ Go(p, "verify")
       \/ /\ claim # NoFile
          /\ Go(p, IF pc[p] = "claim" THEN "reapTake" ELSE "end")
          /\ UNCHANGED claim
    /\ UNCHANGED <<lock, hint, reap, take, child, budget, history>>

ReapForTake(p) == ReapClaim(p, "reapTake", "take")

Verified(p)     == lock = judged[p]
AfterRefusal(p) == "giveBack"

Verify(p) ==
    /\ pc[p] = "verify"
    /\ Go(p, IF Verified(p) THEN "unlinkLock" ELSE AfterRefusal(p))
    /\ UNCHANGED <<files, reap, take, child, budget, history>>

UnlinkDead(p) ==
    /\ pc[p] = "unlinkLock"
    /\ \/ /\ UnlinkLock(p)
          /\ removed' = [removed EXCEPT ![p] = TRUE]
          /\ UNCHANGED budget
       \/ Fault /\ UNCHANGED <<lock, hint, robbed, removed>>
    /\ Go(p, "giveBack")
    /\ UNCHANGED <<claim, reap, judged, tries, hinted, child, noted, early, strays>>

AfterClaim(p) == IF p \in Runs /\ removed[p] THEN "createAfter" ELSE "end"

\* releaseCleanupClaim: the claim goes only while it is the process's own; a
\* release that keeps failing leaves it, and the error ends the call.
GiveBack(p) ==
    /\ pc[p] = "giveBack"
    /\ \/ claim = p /\ Go(p, "dropClaim") /\ UNCHANGED <<budget, strays>>
       \/ claim # p /\ Go(p, AfterClaim(p)) /\ UNCHANGED <<budget, strays>>
       \/ claim = p /\ Fault /\ Go(p, "end") /\ strays' = strays \cup {p}
    /\ UNCHANGED <<files, reap, take, child, noted, early, robbed>>

DropClaim(p) ==
    /\ pc[p] = "dropClaim"
    /\ claim' = NoFile /\ Go(p, AfterClaim(p))
    /\ UNCHANGED <<lock, hint, reap, take, child, budget, history>>

-----------------------------------------------------------------------------
(* A run that has the thread: runClaudeTurn, or a Codex turn.              *)

SpawnChild(r) ==
    /\ pc[r] = "held" /\ r \in Claude
    /\ child' = [child EXCEPT ![r] = "live"]
    /\ Go(r, "note")
    /\ UNCHANGED <<files, reap, take, budget, history>>

\* recordReservationChildPid: read, compare the token, replace by a rename.
NoteRead(r) ==
    /\ pc[r] = "note"
    /\ Go(r, IF lock = r THEN "noteWrite" ELSE "running")
    /\ UNCHANGED <<files, reap, take, child, budget, history>>

NoteWrite(r) ==
    /\ pc[r] = "noteWrite"
    /\ \/ /\ lock' = r /\ hint' = TRUE
          /\ noted' = noted \cup {r}
          /\ early' = IF \E p \in Procs : judged[p] = r THEN early \cup {r} ELSE early
          /\ robbed' = robbed \cup {q \in Runs \ {r} : q = lock /\ Driver(q)}
          /\ UNCHANGED budget
       \/ Fault /\ UNCHANGED <<lock, hint, noted, early, robbed>>
    /\ Go(r, "running")
    /\ UNCHANGED <<claim, reap, take, child, strays>>

\* The turn is over and its child gone (a signal's handler kills it first), or
\* there was none: a Codex turn, a spawn that failed, a stop before it.
TurnEnds(r) ==
    /\ pc[r] \in {"held", "running"}
    /\ child' = [child EXCEPT ![r] = IF @ = "live" THEN "gone" ELSE @]
    /\ Go(r, "release")
    /\ UNCHANGED <<files, reap, take, budget, history>>

\* releaseThreadReservation: read, compare the token, unlink.
Release(r) ==
    /\ pc[r] = "release"
    /\ Go(r, IF lock = r THEN "unlinkOwn" ELSE "end")
    /\ UNCHANGED <<files, reap, take, child, budget, history>>

UnlinkOwn(r) ==
    /\ pc[r] = "unlinkOwn"
    /\ \/ UnlinkLock(r) /\ UNCHANGED budget
       \/ Fault /\ UNCHANGED <<lock, hint, robbed>>
    /\ Go(r, "end")
    /\ UNCHANGED <<claim, reap, take, child, noted, early, strays>>

-----------------------------------------------------------------------------
(* listStrandedThreadReservations, for this thread's pair of files.        *)

ScanLock(s) ==
    /\ pc[s] = "scan"
    /\ judged' = [judged EXCEPT ![s] = lock]
    /\ hinted' = [hinted EXCEPT ![s] = hint]
    /\ Go(s, "scanClaim")
    /\ UNCHANGED <<files, reap, tries, removed, child, budget, history>>

ScanClaim(s) == ReapClaim(s, "scanClaim", "scan")

-----------------------------------------------------------------------------
\* A process is killed; its Claude child goes on for a while.
Crash(p) ==
    /\ crashes < MaxCrashes /\ crashes' = crashes + 1
    /\ pc[p] \notin Gone
    /\ Go(p, "dead")
    /\ strays' = IF claim = p THEN strays \cup {p} ELSE strays
    /\ UNCHANGED <<files, reap, take, child, faults, noted, early, robbed>>

ChildDies(r) ==
    /\ child[r] = "live" /\ pc[r] \in Gone
    /\ child' = [child EXCEPT ![r] = "gone"]
    /\ UNCHANGED <<files, pc, reap, take, budget, history>>

RunStep(r) ==
    \/ Enter(r) \/ Create(r) \/ ReadOwner(r) \/ Judge(r) \/ CreateAfter(r)
    \/ NoteRead(r) \/ NoteWrite(r) \/ Release(r) \/ UnlinkOwn(r)

\* How long a turn takes is not the reservation's to say.
TurnStep(r) == SpawnChild(r) \/ TurnEnds(r) \/ ChildDies(r)

ScanStep(s) == ScanLock(s) \/ ScanClaim(s) \/ Judge(s)

TakeStep(p) ==
    \/ ReapSame(p) \/ ReapUnlink(p) \/ ReapForTake(p) \/ CreateClaim(p)
    \/ Verify(p) \/ UnlinkDead(p) \/ GiveBack(p) \/ DropClaim(p)

Next ==
    \/ \E r \in Runs : RunStep(r) \/ TurnStep(r)
    \/ \E s \in Scans : ScanStep(s)
    \/ \E p \in Procs : TakeStep(p) \/ Crash(p)

Spec == Init /\ [][Next]_vars

\* The file work is synchronous: a process that is not killed gets through it.
\* No turn has to end.
FairSpec ==
    /\ Spec
    /\ \A r \in Runs : WF_vars(RunStep(r) \/ TakeStep(r))
    /\ \A s \in Scans : WF_vars(ScanStep(s) \/ TakeStep(s))

-----------------------------------------------------------------------------
(* Properties.                                                             *)

\* "A session is driven by one run at a time" (runClaudeTurn).
OneDriver == \A p, q \in Runs : Driver(p) /\ Driver(q) => p = q

\* A run that drives the thread has its lock: no takeover, scan, release or
\* note of another process replaces or removes it, but for a robbery.
DriverHasLock == \A r \in Runs : Driver(r) => lock = r \/ r \in robbed

\* A robbery takes a cleaner that went and left its claim behind: while every
\* cleaner gives its claim back, no process takes a live run's lock.
RobberyNeedsStrayClaim == robbed # {} => strays # {}

\* A session is not handed to a new run while the Claude child a dead run had
\* noted on the lock still runs: "such a lock stays" (reservations.ts).
ChildKeepsThread ==
    robbed = {} =>
        \A q \in noted, r \in Runs : child[q] = "live" /\ r # q => ~Driver(r)

\* The part of it that holds: nobody had read the lock before the note, and no
\* cleaner left its claim behind.
NotedChildKeepsThread ==
    strays = {} =>
        \A q \in noted \ early, r \in Runs : child[q] = "live" /\ r # q => ~Driver(r)

\* The runs whose thread it is: drivers, and the dead ones whose child still
\* runs and was noted before anybody had read the lock.
Holders == {r \in Runs : Driver(r) \/ (r \in noted \ early /\ child[r] = "live")}

Possession == INSTANCE ThreadPossession WITH holders <- Holders, weakened <- (strays # {})

\* Reservations give a thread to one run at a time, its noted child included:
\* no run comes to drive it beside another holder while cleaners give their
\* claims back (reservations.ts:392-543, thread-lock-io.ts:97-260).
PossessionKept == Possession!Spec

\* A claim left behind "blocks every later acquisition until it is reaped"
\* (releaseCleanupClaim): a cleaner gives its claim back, however its takeover
\* ends, unless it is killed or cannot.
ClaimComesFree == \A p \in Procs : claim = p ~> claim # p \/ pc[p] = "dead" \/ faults > 0

\* A dead run's lock does not keep the thread from the next run, whatever dead
\* claim is beside it: once a run starts while nobody else is at it, the lock
\* goes, by that run or by whoever comes in between, unless a file operation
\* fails or a process is killed from then on.
DeadLockGoes ==
    \A q \in Runs, n \in 0..(MaxFaults + MaxCrashes) : \A r \in Runs \ {q} :
        /\ lock = q /\ pc[q] \in Gone /\ q \notin Unsure /\ child[q] # "live"
        /\ pc[r] = "enter"
        /\ \A p \in Procs : pc[p] \in Gone \cup {"enter", "scan"}
        /\ claim # NoFile => ~MayRun(claim)
        /\ faults + crashes = n
        ~> lock # q \/ faults + crashes > n
=============================================================================
