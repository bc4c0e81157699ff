------------------------------ MODULE FileLock ------------------------------
(***************************************************************************)
(* The exclusive-create lock file of shared/fs.ts (withFileLock): every    *)
(* small JSON file that the companion's processes share is read, changed   *)
(* and written back under one.  The lock is a file: taking it is one       *)
(* atomic create, everything else (judging a held lock stale, removing it, *)
(* releasing one's own) is a read, a stat, a re-read and an unlink that    *)
(* other processes interleave with.                                        *)
(*                                                                         *)
(* A call of withFileLock is a ticket <<process, number>>; the ticket      *)
(* stands for the contents the call writes into the lock ("<pid> <uuid>"). *)
(* The protected work is a read-modify-write of a document, here the set   *)
(* of tickets whose update it holds.                                       *)
(***************************************************************************)
EXTENDS Integers, FiniteSets

CONSTANTS
    Procs,       \* the processes that use this lock
    NoLock,      \* no file at the lock path
    MaxCalls,    \* bound: calls of withFileLock per process
    Attempts,    \* options.attempts
    Fallback,    \* the processes whose calls set options.unlockedFallback
    Hurried,     \* the processes whose calls set options.deadline
    MaxFaults    \* bound: creates, reads, stats and unlinks of the lock that fail,
                 \* and holders that are suspended

ASSUME CallsAssumption == MaxCalls \in Nat /\ Attempts \in Nat \ {0}
ASSUME UsersAssumption == Fallback \subseteq Procs /\ Hurried \subseteq Procs
ASSUME FaultsAssumption == MaxFaults \in Nat

Tickets == Procs \X (1..MaxCalls)

ASSUME NoLockAssumption == NoLock \notin Tickets

VARIABLES
    lock,      \* the lock file: the ticket it holds, or NoLock
    stale,     \* its mtime is more than STALE_LOCK_MS ago
    pc,        \* where each process is in withFileLock
    call,      \* the number of its current (or last) call
    tries,     \* failed attempts of that call
    seen,      \* what takeOverStaleLock read from the lock
    doc,       \* the protected document
    snap,      \* the document as the work of each process read it
    faults,    \* failed file operations so far
    written,   \* history: tickets whose work wrote the document
    unlocked,  \* history: tickets that ran without the lock
    aged,      \* history: tickets whose lock went stale
    robbed     \* history: tickets that lost the lock file while they held it

fileVars == <<lock, stale>>
callVars == <<pc, call, tries, seen>>
docVars  == <<doc, snap>>
history  == <<written, unlocked, aged, robbed>>
vars     == <<fileVars, callVars, docVars, faults, history>>

PcValues == {"idle", "create", "read", "stat", "reread", "unlink", "work", "save",
             "release", "remove", "bareWork", "bareSave", "dead"}

\* The pcs of a call that created the lock and has not given it back.
Holding == {"work", "save", "release", "remove"}

Ticket(p)    == <<p, call[p]>>
Holds(p)     == pc[p] \in Holding
Holders      == {p \in Procs : Holds(p)}
HoldersOf(t) == {p \in Holders : Ticket(p) = t}

TypeOK ==
    /\ lock \in Tickets \cup {NoLock}
    /\ stale \in BOOLEAN
    /\ pc \in [Procs -> PcValues]
    /\ call \in [Procs -> 0..MaxCalls]
    /\ tries \in [Procs -> 0..Attempts]
    /\ seen \in [Procs -> Tickets \cup {NoLock}]
    /\ doc \in SUBSET Tickets
    /\ snap \in [Procs -> SUBSET Tickets]
    /\ faults \in 0..MaxFaults
    /\ written \in SUBSET Tickets
    /\ unlocked \in SUBSET Tickets
    /\ aged \in SUBSET Tickets
    /\ robbed \in SUBSET Tickets

Init ==
    /\ lock = NoLock /\ stale = FALSE
    /\ pc = [p \in Procs |-> "idle"]
    /\ call = [p \in Procs |-> 0]
    /\ tries = [p \in Procs |-> 0]
    /\ seen = [p \in Procs |-> NoLock]
    /\ doc = {} /\ snap = [p \in Procs |-> {}]
    /\ faults = 0
    /\ written = {} /\ unlocked = {} /\ aged = {} /\ robbed = {}

-----------------------------------------------------------------------------
(* Slips the checked properties must notice: each replaces the definition   *)
(* of the same arity named behind it.                                      *)

NotExclusive        == TRUE                      \* PathFree
AnyAge              == TRUE                      \* TooOld
OneAttemptMore(p)   == tries[p] + 1 <= Attempts  \* CanRetry
Uncounted(p)        == tries[p]                  \* CountAttempt
EveryoneFallsBack(p) == TRUE                     \* FallsBack
OwnContents(p)      == Ticket(p)                 \* JudgedContents

-----------------------------------------------------------------------------
(* Steps of one call.                                                      *)

PathFree          == lock = NoLock
TooOld            == stale
CanRetry(p)       == tries[p] + 1 < Attempts
CountAttempt(p)   == tries[p] + 1
FallsBack(p)      == p \in Fallback
JudgedContents(p) == seen[p]

Go(p, at) == pc' = [pc EXCEPT ![p] = at]

\* The attempt that found the lock held is over (`continue`, or the sleep):
\* another follows unless they are used up or the deadline has passed, and
\* then the work runs without the lock or the call throws.
EndAttempt(p) ==
    /\ seen' = [seen EXCEPT ![p] = NoLock]
    /\ tries' = [tries EXCEPT ![p] = CountAttempt(p)]
    /\ \/ CanRetry(p) /\ Go(p, "create")
       \/ /\ p \in Hurried \/ ~CanRetry(p)
          /\ Go(p, IF FallsBack(p) THEN "bareWork" ELSE "idle")

\* The file at the path goes, whoever's it is.
Unlink(p) ==
    /\ lock' = NoLock /\ stale' = FALSE
    /\ robbed' = robbed \cup {t \in {lock} : HoldersOf(t) \ {p} # {}}

\* A file operation that gives up: `found` says the file was not as expected,
\* otherwise the operation itself failed (EBUSY, EACCES, EMFILE ...).
FailsIf(found) ==
    \/ found /\ UNCHANGED faults
    \/ faults < MaxFaults /\ faults' = faults + 1

Begin(p) ==
    /\ pc[p] = "idle" /\ call[p] < MaxCalls
    /\ call' = [call EXCEPT ![p] = @ + 1]
    /\ tries' = [tries EXCEPT ![p] = 0]
    /\ Go(p, "create")
    /\ UNCHANGED <<fileVars, seen, docVars, faults, history>>

\* writeFileExclusive: one open with O_CREAT|O_EXCL.  An error other than the
\* file's being there leaves the call, whatever its fallback; one that came
\* with the write leaves the file, a part of the contents in it.
Create(p) ==
    /\ pc[p] = "create"
    /\ \/ /\ PathFree
          /\ lock' = Ticket(p) /\ stale' = FALSE
          /\ \/ Go(p, "work") /\ UNCHANGED faults
             \/ Go(p, "idle") /\ FailsIf(FALSE)
       \/ /\ ~PathFree
          /\ Go(p, "read")
          /\ UNCHANGED <<fileVars, faults>>
       \/ /\ Go(p, "idle") /\ FailsIf(FALSE)
          /\ UNCHANGED fileVars
    /\ UNCHANGED <<call, tries, seen, docVars, history>>

\* takeOverStaleLock reads the lock: gone is worth another attempt, a failed
\* read is waited out like a held lock.
ReadHeld(p) ==
    /\ pc[p] = "read"
    /\ \/ /\ lock # NoLock
          /\ seen' = [seen EXCEPT ![p] = lock]
          /\ Go(p, "stat")
          /\ UNCHANGED <<tries, faults>>
       \/ /\ FailsIf(lock = NoLock)
          /\ EndAttempt(p)
    /\ UNCHANGED <<fileVars, call, docVars, history>>

\* It stats the file that is at the path now.
StatHeld(p) ==
    /\ pc[p] = "stat"
    /\ \/ /\ lock # NoLock /\ TooOld
          /\ Go(p, "reread")
          /\ UNCHANGED <<tries, seen, faults>>
       \/ /\ FailsIf(lock = NoLock \/ ~TooOld)
          /\ EndAttempt(p)
    /\ UNCHANGED <<fileVars, call, docVars, history>>

\* removeFileHolding compares the contents again ...
RereadHeld(p) ==
    /\ pc[p] = "reread"
    /\ \/ /\ lock = JudgedContents(p)
          /\ Go(p, "unlink")
          /\ UNCHANGED <<tries, seen, faults>>
       \/ /\ FailsIf(lock # JudgedContents(p))
          /\ EndAttempt(p)
    /\ UNCHANGED <<fileVars, call, docVars, history>>

\* ... and unlinks the path in a later system call.
UnlinkHeld(p) ==
    /\ pc[p] = "unlink"
    /\ \/ Unlink(p) /\ UNCHANGED faults
       \/ FailsIf(FALSE) /\ UNCHANGED <<fileVars, robbed>>
    /\ EndAttempt(p)
    /\ UNCHANGED <<call, docVars, written, unlocked, aged>>

-----------------------------------------------------------------------------
(* The work, under the lock or through the fallback, and the release.      *)

ReadDoc(p) ==
    /\ pc[p] \in {"work", "bareWork"}
    /\ snap' = [snap EXCEPT ![p] = doc]
    /\ Go(p, IF pc[p] = "work" THEN "save" ELSE "bareSave")
    /\ unlocked' = IF pc[p] = "work" THEN unlocked ELSE unlocked \cup {Ticket(p)}
    /\ UNCHANGED <<fileVars, call, tries, seen, doc, faults, written, aged, robbed>>

\* The work writes the document, or throws before it does; the lock is
\* released either way.
SaveDoc(p) ==
    /\ pc[p] \in {"save", "bareSave"}
    /\ \/ /\ doc' = snap[p] \cup {Ticket(p)}
          /\ written' = written \cup {Ticket(p)}
       \/ UNCHANGED <<doc, written>>
    /\ snap' = [snap EXCEPT ![p] = {}]
    /\ Go(p, IF pc[p] = "save" THEN "release" ELSE "idle")
    /\ UNCHANGED <<fileVars, call, tries, seen, faults, unlocked, aged, robbed>>

\* releaseLockFile: the same compare and unlink, on the call's own contents.
\* A release that keeps failing leaves the lock to go stale.
CompareOwn(p) ==
    /\ pc[p] = "release"
    /\ \/ lock = Ticket(p) /\ Go(p, "remove") /\ UNCHANGED faults
       \/ FailsIf(lock # Ticket(p)) /\ Go(p, "idle")
    /\ UNCHANGED <<fileVars, call, tries, seen, docVars, history>>

RemoveOwn(p) ==
    /\ pc[p] = "remove"
    /\ \/ Unlink(p) /\ UNCHANGED faults
       \/ FailsIf(FALSE) /\ UNCHANGED <<fileVars, robbed>>
    /\ Go(p, "idle")
    /\ UNCHANGED <<call, tries, seen, docVars, written, unlocked, aged>>

-----------------------------------------------------------------------------
(* What happens around the calls.                                          *)

\* A process dies anywhere in a call.
Die(p) ==
    /\ pc[p] \notin {"idle", "dead"}
    /\ Go(p, "dead")
    /\ UNCHANGED <<fileVars, call, tries, seen, docVars, faults, history>>

\* "The work under a lock takes milliseconds", but a process may be stopped
\* in it: a lock grows older than STALE_LOCK_MS when the call that made it is
\* over, its process dead or suspended for that long.
Age ==
    /\ lock # NoLock /\ ~stale
    /\ FailsIf(HoldersOf(lock) = {})
    /\ stale' = TRUE
    /\ aged' = aged \cup {lock}
    /\ UNCHANGED <<lock, callVars, docVars, written, unlocked, robbed>>

Step(p) ==
    \/ Begin(p) \/ Create(p)
    \/ ReadHeld(p) \/ StatHeld(p) \/ RereadHeld(p) \/ UnlinkHeld(p)
    \/ ReadDoc(p) \/ SaveDoc(p)
    \/ CompareOwn(p) \/ RemoveOwn(p)

Next == Age \/ \E p \in Procs : Step(p) \/ Die(p)

Spec == Init /\ [][Next]_vars

\* A process that does not die keeps running: the calls are synchronous.
FairSpec == Spec /\ \A p \in Procs : WF_vars(Step(p))

-----------------------------------------------------------------------------
(* Properties.                                                             *)

\* "The one-holder guarantee is the lock's" (withFileLock): at most one
\* process is between its create and its release.
OneHolder == \A p, q \in Holders : p = q

\* A holder's file stays at the path until the holder removes it: the
\* exclusive create never replaces it, and another process's release compares
\* contents first.  The exception is a holder whose file was unlinked by a
\* process that had compared an older lock (the gap in removeFileHolding), or
\* that found the holder's own gone stale.
HolderHasFile == \A p \in Holders : lock = Ticket(p) \/ Ticket(p) \in robbed

\* Only the takeover of a stale lock opens that gap: while no lock
\* has gone stale no holder ever loses its file, whatever dies or fails.
RobberyNeedsStaleLock == robbed # {} => aged # {}

\* Every update that was written under the lock is in the document: no
\* read-modify-write overwrites another one, unless a holder lost its file or
\* a call went ahead without the lock (unlockedFallback).
NoLostUpdate == robbed = {} /\ unlocked = {} => doc = written

Entered  == {Ticket(p) : p \in Holders}
Weakened == robbed # {} \/ unlocked # {}

Serial ==
    INSTANCE SerialUpdates WITH Calls <- Tickets, holding <- Entered, weakened <- Weakened

\* Work under the lock is serial: a call enters only when no other is between
\* its create and its release, and its write keeps every earlier one, until a
\* takeover robs a holder or a call falls back to going without the lock.
UpdatesSerialize == Serial!Spec

\* A process reaches its work's write with the lock, or through the fallback
\* its call asked for and after its last attempt: options.attempts bounds the
\* wait, and nobody without the option ever writes unlocked.
UnlockedOnlyByFallback ==
    /\ \A t \in unlocked : t[1] \in Fallback
    /\ \A p \in Procs :
         pc[p] \in {"bareWork", "bareSave"} => tries[p] = Attempts \/ p \in Hurried

\* A call ends: every wait is bounded by its attempts, whatever the other
\* processes do with the lock.
CallEnds == \A p \in Procs : pc[p] \notin {"idle", "dead"} ~> pc[p] \in {"idle", "dead"}

\* A stale lock is not waited out: it is gone once a patient caller that
\* starts its attempts with it there has used them: the caller dies, or an
\* attempt's create fails and ends the call early, or the lock goes.
StaleLockGoes ==
    \A p \in Procs \ Hurried, t \in Tickets :
        lock = t /\ stale /\ pc[p] = "create" /\ tries[p] = 0
            ~> \/ lock # t \/ pc[p] = "dead"
               \/ pc[p] = "idle" /\ tries[p] < Attempts
=============================================================================
