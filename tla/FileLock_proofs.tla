-------------------------- MODULE FileLock_proofs --------------------------
(***************************************************************************)
(* What FileLock promises for any number of processes, calls, attempts and *)
(* failures.  TypeInv carries the types and the call bookkeeping they need;*)
(* Safe adds what a takeover, a release and the work rely on.              *)
(***************************************************************************)
EXTENDS FileLock, TLAPS

\* The pcs of an attempt, and of a call that runs its work without the lock.
Trying == {"create", "read", "stat", "reread", "unlink"}
Bare   == {"bareWork", "bareSave"}

\* A process that has left "idle" is in a call of its own ...
InCall == \A p \in Procs : pc[p] # "idle" => call[p] \in 1..MaxCalls

\* ... and one that is still trying has an attempt left.
AttemptLeft == \A p \in Procs : pc[p] \in Trying => tries[p] < Attempts

TypeInv == TypeOK /\ InCall /\ AttemptLeft

\* A takeover has seen a stale lock before it compares and unlinks.
StaleIsAged    == stale => aged # {}
TakeoverIsLate == \A p \in Procs : pc[p] \in {"reread", "unlink"} => aged # {}

\* Work without the lock is the fallback's, and is recorded once it has read.
BareIsFallback == \A p \in Procs : pc[p] \in Bare => p \in Fallback
BareIsRecorded == \A p \in Procs : pc[p] = "bareSave" => unlocked # {}

\* The document does not change between a holder's read and its write.
SnapIsCurrent ==
    robbed = {} /\ unlocked = {} =>
        \A p \in Procs : pc[p] = "save" => snap[p] = doc

Safe ==
    /\ HolderHasFile
    /\ StaleIsAged /\ TakeoverIsLate /\ RobberyNeedsStaleLock
    /\ BareIsFallback /\ BareIsRecorded /\ UnlockedOnlyByFallback
    /\ SnapIsCurrent /\ NoLostUpdate

-----------------------------------------------------------------------------
(* Tickets.                                                                *)

\* A process in a call has a ticket, which is not the absence of a file.
LEMMA TicketType ==
    ASSUME TypeInv, NEW p \in Procs, pc[p] # "idle"
    PROVE  Ticket(p) \in Tickets /\ Ticket(p) # NoLock
BY NoLockAssumption DEF TypeInv, InCall, Ticket, Tickets

\* No two processes share a ticket.
LEMMA TicketsDiffer ==
    ASSUME NEW p \in Procs, NEW q \in Procs, Ticket(p) = Ticket(q)
    PROVE  p = q
BY DEF Ticket

\* A file that has holders is a call's lock.
LEMMA HoldersHaveTickets ==
    ASSUME TypeInv, NEW p \in Procs, HoldersOf(lock) \ {p} # {}
    PROVE  lock \in Tickets
<1>1. PICK q \in Holders : Ticket(q) = lock
  BY DEF HoldersOf
<1>2. q \in Procs /\ pc[q] # "idle"
  BY DEF Holders, Holds, Holding
<1>3. QED
  BY <1>1, <1>2, TicketType

\* Two holders of one file are one process: HolderHasFile gives OneHolder
\* while nobody was robbed.
LEMMA FileGivesOneHolder ==
    ASSUME HolderHasFile, robbed = {}
    PROVE  OneHolder
<1>1. SUFFICES ASSUME NEW p \in Holders, NEW q \in Holders
               PROVE  p = q
  BY DEF OneHolder
<1>2. lock = Ticket(p) /\ lock = Ticket(q)
  BY DEF HolderHasFile
<1>3. p \in Procs /\ q \in Procs
  BY DEF Holders
<1>4. QED
  BY <1>2, <1>3, TicketsDiffer

-----------------------------------------------------------------------------
(* Type correctness.                                                       *)

\* What the end of an attempt leaves behind, whichever step ends it.
LEMMA EndAttemptType ==
    ASSUME TypeInv, NEW p \in Procs, pc[p] \in Trying, EndAttempt(p)
    PROVE  /\ pc' \in [Procs -> PcValues]
           /\ tries' \in [Procs -> 0..Attempts]
           /\ seen' \in [Procs -> Tickets \cup {NoLock}]
           /\ \A q \in Procs : q # p => pc'[q] = pc[q] /\ tries'[q] = tries[q]
           /\ pc'[p] \in {"create", "bareWork", "idle"}
           /\ pc'[p] \in Trying => tries'[p] < Attempts
           /\ pc'[p] \in Bare => p \in Fallback /\ (tries'[p] = Attempts \/ p \in Hurried)
BY CallsAssumption
   DEF TypeInv, TypeOK, AttemptLeft, EndAttempt, CountAttempt, CanRetry, FallsBack, Go,
       PcValues, Trying, Bare

\* An unlink leaves no file, and robs only a call that holds the lock.
LEMMA UnlinkType ==
    ASSUME TypeInv, NEW p \in Procs, Unlink(p)
    PROVE  /\ lock' \in Tickets \cup {NoLock} /\ stale' \in BOOLEAN
           /\ robbed' \in SUBSET Tickets
<1>1. lock' = NoLock /\ stale' = FALSE
  BY DEF Unlink
<1>2. {t \in {lock} : HoldersOf(t) \ {p} # {}} \subseteq Tickets
  BY HoldersHaveTickets
<1>3. QED
  BY <1>1, <1>2 DEF Unlink, TypeInv, TypeOK

LEMMA InitType == Init => TypeInv
<1> SUFFICES ASSUME Init PROVE TypeInv
  OBVIOUS
<1>1. lock \in Tickets \cup {NoLock} /\ faults \in 0..MaxFaults
  BY FaultsAssumption DEF Init
<1>2. stale \in BOOLEAN
  BY DEF Init
<1>3. /\ pc \in [Procs -> PcValues]
      /\ call \in [Procs -> 0..MaxCalls]
      /\ tries \in [Procs -> 0..Attempts]
      /\ seen \in [Procs -> Tickets \cup {NoLock}]
  BY CallsAssumption DEF Init, PcValues
<1>4. /\ doc \in SUBSET Tickets /\ snap \in [Procs -> SUBSET Tickets]
      /\ {written, unlocked, aged, robbed} \subseteq SUBSET Tickets
  BY DEF Init
<1>5. InCall /\ AttemptLeft
  BY DEF Init, InCall, AttemptLeft, Trying
<1>6. QED
  BY <1>1, <1>2, <1>3, <1>4, <1>5 DEF TypeInv, TypeOK

LEMMA StepType == TypeInv /\ [Next]_vars => TypeInv'
<1> USE CallsAssumption, FaultsAssumption DEF TypeInv, TypeOK, InCall, AttemptLeft
<1> SUFFICES ASSUME TypeInv, [Next]_vars PROVE TypeInv'
  OBVIOUS
<1>1. CASE UNCHANGED vars
  BY <1>1 DEF vars, fileVars, callVars, docVars, history
<1>2. CASE Age
  BY <1>2 DEF Age, FailsIf, callVars, docVars
<1>3. ASSUME NEW p \in Procs, Step(p) \/ Die(p) PROVE TypeInv'
  <2>1. CASE Begin(p)
    BY <2>1 DEF Begin, Go, fileVars, docVars, history, PcValues, Trying
  <2>2. CASE Create(p)
    <3>1. Ticket(p) \in Tickets
      BY <2>2, TicketType DEF Create
    <3>2. CASE lock' = Ticket(p) /\ stale' = FALSE
      <4>1. CASE Go(p, "work") /\ UNCHANGED faults
        BY <2>2, <3>1, <3>2, <4>1 DEF Create, Go, docVars, history, PcValues, Trying
      <4>2. CASE Go(p, "idle") /\ FailsIf(FALSE)
        <5>1. faults' \in 0..MaxFaults
          BY <4>2 DEF FailsIf
        <5>2. QED
          BY <2>2, <3>1, <3>2, <4>2, <5>1 DEF Create, Go, docVars, history, PcValues, Trying
      <4>3. CASE Go(p, "read") /\ UNCHANGED <<fileVars, faults>>
        BY <2>2, <3>1, <3>2, <4>3 DEF Create, Go, docVars, history, PcValues, Trying
      <4>4. QED
        BY <2>2, <3>2, <4>1, <4>2, <4>3 DEF Create
    <3>3. CASE UNCHANGED fileVars
      <4>1. CASE Go(p, "read") /\ UNCHANGED faults
        BY <2>2, <3>3, <4>1 DEF Create, Go, fileVars, docVars, history, PcValues, Trying
      <4>2. CASE Go(p, "idle") /\ FailsIf(FALSE)
        BY <2>2, <3>3, <4>2 DEF Create, FailsIf, Go, fileVars, docVars, history, PcValues, Trying
      <4>3. CASE Go(p, "work") /\ UNCHANGED faults
        BY <2>2, <3>3, <4>3 DEF Create, Go, fileVars, docVars, history, PcValues, Trying
      <4>4. QED
        BY <2>2, <3>3, <4>1, <4>2, <4>3 DEF Create
    <3>4. QED
      BY <2>2, <3>2, <3>3 DEF Create
  <2>3. CASE ReadHeld(p)
    <3>1. CASE lock # NoLock /\ seen' = [seen EXCEPT ![p] = lock] /\ Go(p, "stat")
                 /\ UNCHANGED <<tries, faults>>
      BY <2>3, <3>1 DEF ReadHeld, Go, fileVars, docVars, history, PcValues, Trying
    <3>2. CASE FailsIf(lock = NoLock) /\ EndAttempt(p)
      BY <2>3, <3>2, EndAttemptType
         DEF ReadHeld, FailsIf, fileVars, docVars, history, Trying
    <3>3. QED
      BY <2>3, <3>1, <3>2 DEF ReadHeld
  <2>4. CASE StatHeld(p)
    <3>1. CASE lock # NoLock /\ TooOld /\ Go(p, "reread") /\ UNCHANGED <<tries, seen, faults>>
      BY <2>4, <3>1 DEF StatHeld, Go, fileVars, docVars, history, PcValues, Trying
    <3>2. CASE FailsIf(lock = NoLock \/ ~TooOld) /\ EndAttempt(p)
      BY <2>4, <3>2, EndAttemptType
         DEF StatHeld, FailsIf, fileVars, docVars, history, Trying
    <3>3. QED
      BY <2>4, <3>1, <3>2 DEF StatHeld
  <2>5. CASE RereadHeld(p)
    <3>1. CASE lock = JudgedContents(p) /\ Go(p, "unlink") /\ UNCHANGED <<tries, seen, faults>>
      BY <2>5, <3>1 DEF RereadHeld, Go, fileVars, docVars, history, PcValues, Trying
    <3>2. CASE FailsIf(lock # JudgedContents(p)) /\ EndAttempt(p)
      BY <2>5, <3>2, EndAttemptType
         DEF RereadHeld, FailsIf, fileVars, docVars, history, Trying
    <3>3. QED
      BY <2>5, <3>1, <3>2 DEF RereadHeld
  <2>6. CASE UnlinkHeld(p)
    <3>1. pc[p] \in Trying /\ EndAttempt(p)
      BY <2>6 DEF UnlinkHeld, Trying
    <3>2. /\ lock' \in Tickets \cup {NoLock} /\ stale' \in BOOLEAN
          /\ faults' \in 0..MaxFaults /\ robbed' \in SUBSET Tickets
      <4>1. CASE Unlink(p) /\ UNCHANGED faults
        BY <4>1, UnlinkType
      <4>2. CASE FailsIf(FALSE) /\ UNCHANGED <<fileVars, robbed>>
        BY <4>2 DEF FailsIf, fileVars
      <4>3. QED
        BY <2>6, <4>1, <4>2 DEF UnlinkHeld
    <3>3. QED
      BY <2>6, <3>1, <3>2, EndAttemptType DEF UnlinkHeld, docVars, Trying
  <2>7. CASE ReadDoc(p)
    <3>1. Ticket(p) \in Tickets
      BY <2>7, TicketType DEF ReadDoc
    <3>2. QED
      BY <2>7, <3>1 DEF ReadDoc, Go, fileVars, PcValues, Trying
  <2>8. CASE SaveDoc(p)
    <3>1. Ticket(p) \in Tickets
      BY <2>8, TicketType DEF SaveDoc
    <3>2. QED
      BY <2>8, <3>1 DEF SaveDoc, Go, fileVars, PcValues, Trying
  <2>9. CASE CompareOwn(p)
    BY <2>9 DEF CompareOwn, FailsIf, Go, fileVars, docVars, history, PcValues, Trying
  <2>10. CASE RemoveOwn(p)
    <3>1. /\ lock' \in Tickets \cup {NoLock} /\ stale' \in BOOLEAN
          /\ faults' \in 0..MaxFaults /\ robbed' \in SUBSET Tickets
      <4>1. CASE Unlink(p) /\ UNCHANGED faults
        BY <4>1, UnlinkType
      <4>2. CASE FailsIf(FALSE) /\ UNCHANGED <<fileVars, robbed>>
        BY <4>2 DEF FailsIf, fileVars
      <4>3. QED
        BY <2>10, <4>1, <4>2 DEF RemoveOwn
    <3>2. QED
      BY <2>10, <3>1 DEF RemoveOwn, Go, docVars, PcValues, Trying
  <2>11. CASE Die(p)
    BY <2>11 DEF Die, Go, fileVars, docVars, history, PcValues, Trying
  <2>12. QED
    BY <1>3, <2>1, <2>2, <2>3, <2>4, <2>5, <2>6, <2>7, <2>8, <2>9, <2>10, <2>11 DEF Step
<1>4. QED
  BY <1>1, <1>2, <1>3 DEF Next

\* A value of every variable stays in its type: "the lock holds the contents of
\* a call of withFileLock or is not there, and no call outlives its attempts".
THEOREM TypeCorrect == Spec => []TypeOK
<1>1. TypeInv => TypeOK
  BY DEF TypeInv
<1>2. QED
  BY InitType, StepType, <1>1, PTL DEF Spec

-----------------------------------------------------------------------------
(* Holders and their file.                                                 *)

\* A step that leaves the lock alone and makes nobody a holder.
LEMMA QuietForHolders ==
    ASSUME HolderHasFile, lock' = lock, robbed' = robbed,
           \A q \in Procs : Holds(q)' => Holds(q) /\ call'[q] = call[q]
    PROVE  HolderHasFile'
BY DEF HolderHasFile, Holders, Ticket

\* After an attempt the process holds nothing, and nobody else has moved.
LEMMA EndAttemptHolders ==
    ASSUME TypeInv, NEW p \in Procs, pc[p] \in Trying, EndAttempt(p)
    PROVE  \A q \in Procs : Holds(q)' => q # p /\ Holds(q)
BY EndAttemptType DEF Holds, Holding

\* An unlink of a file another call holds makes that call a robbed one.
LEMMA UnlinkHolders ==
    ASSUME TypeInv, HolderHasFile, NEW p \in Procs, Unlink(p), call' = call,
           \A q \in Procs : Holds(q)' => q # p /\ Holds(q)
    PROVE  HolderHasFile'
<1>1. SUFFICES ASSUME NEW q \in Procs, Holds(q)' PROVE Ticket(q)' \in robbed'
  BY DEF HolderHasFile, Holders
<1>2. q # p /\ q \in Holders /\ Ticket(q)' = Ticket(q)
  BY <1>1 DEF Holders, Ticket
<1>3. CASE Ticket(q) \in robbed
  BY <1>2, <1>3 DEF Unlink
<1>4. CASE lock = Ticket(q)
  <2>1. q \in HoldersOf(lock) \ {p}
    BY <1>2, <1>4 DEF HoldersOf
  <2>2. QED
    BY <1>2, <1>4, <2>1 DEF Unlink
<1>5. QED
  BY <1>2, <1>3, <1>4 DEF HolderHasFile

LEMMA StepHolders == TypeInv /\ HolderHasFile /\ [Next]_vars => HolderHasFile'
<1> SUFFICES ASSUME TypeInv, HolderHasFile, [Next]_vars PROVE HolderHasFile'
  OBVIOUS
<1> USE DEF Holds, Holding
<1>1. CASE UNCHANGED vars
  BY <1>1, QuietForHolders DEF vars, fileVars, callVars, history
<1>2. CASE Age
  BY <1>2, QuietForHolders DEF Age, callVars
<1>3. ASSUME NEW p \in Procs, Step(p) \/ Die(p) PROVE HolderHasFile'
  <2> pc \in [Procs -> PcValues] /\ call \in [Procs -> 0..MaxCalls]
    BY DEF TypeInv, TypeOK
  <2>1. CASE Begin(p)
    BY <2>1, QuietForHolders DEF Begin, Go, fileVars, history
  <2>2. CASE Create(p)
    <3>1. CASE PathFree /\ lock' = Ticket(p) /\ Go(p, "work")
      <4>1. ASSUME NEW q \in Procs, q # p, Holds(q) PROVE Ticket(q) \in robbed
        <5>1. lock # Ticket(q)
          BY <3>1, <4>1, TicketType DEF PathFree
        <5>2. QED
          BY <4>1, <5>1 DEF HolderHasFile, Holders
      <4>2. QED
        BY <2>2, <3>1, <4>1 DEF Create, Go, HolderHasFile, Holders, Ticket, history
    <3>2. CASE (Go(p, "read") \/ Go(p, "idle")) /\ UNCHANGED fileVars
      BY <2>2, <3>2, QuietForHolders DEF Create, Go, fileVars, history
    <3>3. CASE PathFree /\ lock' = Ticket(p) /\ Go(p, "idle")
      <4>1. SUFFICES ASSUME NEW q \in Procs, Holds(q)' PROVE Ticket(q)' \in robbed'
        BY DEF HolderHasFile, Holders
      <4>2. q # p /\ Holds(q) /\ Ticket(q)' = Ticket(q)
        BY <2>2, <3>3, <4>1 DEF Create, Go, Ticket
      <4>3. lock # Ticket(q)
        BY <3>3, <4>2, TicketType DEF PathFree
      <4>4. QED
        BY <2>2, <4>2, <4>3 DEF Create, HolderHasFile, Holders, history
    <3>4. QED
      BY <2>2, <3>1, <3>2, <3>3 DEF Create
  <2>3. CASE ReadHeld(p)
    BY <2>3, QuietForHolders, EndAttemptHolders
       DEF ReadHeld, Go, fileVars, history, Trying
  <2>4. CASE StatHeld(p)
    BY <2>4, QuietForHolders, EndAttemptHolders
       DEF StatHeld, Go, fileVars, history, Trying
  <2>5. CASE RereadHeld(p)
    BY <2>5, QuietForHolders, EndAttemptHolders
       DEF RereadHeld, Go, fileVars, history, Trying
  <2>6. CASE UnlinkHeld(p)
    <3>1. \A q \in Procs : Holds(q)' => q # p /\ Holds(q)
      BY <2>6, EndAttemptHolders DEF UnlinkHeld, Trying
    <3>2. CASE Unlink(p)
      BY <2>6, <3>1, <3>2, UnlinkHolders DEF UnlinkHeld
    <3>3. CASE UNCHANGED <<fileVars, robbed>>
      BY <2>6, <3>1, <3>3, QuietForHolders DEF UnlinkHeld, fileVars
    <3>4. QED
      BY <2>6, <3>2, <3>3 DEF UnlinkHeld
  <2>7. CASE ReadDoc(p)
    BY <2>7, QuietForHolders DEF ReadDoc, Go, fileVars
  <2>8. CASE SaveDoc(p)
    BY <2>8, QuietForHolders DEF SaveDoc, Go, fileVars
  <2>9. CASE CompareOwn(p)
    BY <2>9, QuietForHolders DEF CompareOwn, Go, fileVars, history
  <2>10. CASE RemoveOwn(p)
    <3>1. \A q \in Procs : Holds(q)' => q # p /\ Holds(q)
      BY <2>10 DEF RemoveOwn, Go
    <3>2. CASE Unlink(p)
      BY <2>10, <3>1, <3>2, UnlinkHolders DEF RemoveOwn
    <3>3. CASE UNCHANGED <<fileVars, robbed>>
      BY <2>10, <3>1, <3>3, QuietForHolders DEF RemoveOwn, fileVars
    <3>4. QED
      BY <2>10, <3>2, <3>3 DEF RemoveOwn
  <2>11. CASE Die(p)
    BY <2>11, QuietForHolders DEF Die, Go, fileVars, history
  <2>12. QED
    BY <1>3, <2>1, <2>2, <2>3, <2>4, <2>5, <2>6, <2>7, <2>8, <2>9, <2>10, <2>11 DEF Step
<1>4. QED
  BY <1>1, <1>2, <1>3 DEF Next
-----------------------------------------------------------------------------
(* Robberies.                                                              *)

Aging == StaleIsAged /\ TakeoverIsLate /\ RobberyNeedsStaleLock

\* A step that takes nobody's lock and nobody into a removal.
LEMMA QuietForAging ==
    ASSUME Aging, aged' = aged, robbed' = robbed, stale' => stale,
           \A q \in Procs : pc'[q] \in {"reread", "unlink"}
                             => pc[q] \in {"reread", "unlink"} \/ stale
    PROVE  Aging'
BY DEF Aging, StaleIsAged, TakeoverIsLate, RobberyNeedsStaleLock

\* An unlink robs somebody only after a lock went stale: another process's
\* unlink comes after a stat that found one, and a holder that unlinks its own
\* lock robs nobody.
LEMMA UnlinkAging ==
    ASSUME TypeInv, HolderHasFile, Aging, NEW p \in Procs, Unlink(p), aged' = aged,
           pc[p] = "unlink" \/ pc[p] = "remove",
           \A q \in Procs : pc'[q] \in {"reread", "unlink"} => pc[q] \in {"reread", "unlink"}
    PROVE  Aging'
<1>1. CASE aged # {}
  BY <1>1 DEF Aging, StaleIsAged, TakeoverIsLate, RobberyNeedsStaleLock
<1>2. CASE aged = {}
  <2>1. pc[p] = "remove" /\ robbed = {}
    BY <1>2 DEF Aging, TakeoverIsLate, RobberyNeedsStaleLock
  <2>2. p \in Holders /\ lock = Ticket(p)
    BY <2>1 DEF HolderHasFile, Holders, Holds, Holding
  <2>3. HoldersOf(lock) \ {p} = {}
    <3>1. SUFFICES ASSUME NEW q \in HoldersOf(lock) PROVE q = p
      OBVIOUS
    <3>2. QED
      BY <2>2, TicketsDiffer DEF HoldersOf, Holders
  <2>4. robbed' = {} /\ ~stale'
    BY <2>1, <2>3 DEF Unlink
  <2>5. QED
    BY <1>2, <2>4 DEF Aging, StaleIsAged, TakeoverIsLate, RobberyNeedsStaleLock
<1>3. QED
  BY <1>1, <1>2

LEMMA StepAging == TypeInv /\ HolderHasFile /\ Aging /\ [Next]_vars => Aging'
<1> SUFFICES ASSUME TypeInv, HolderHasFile, Aging, [Next]_vars PROVE Aging'
  OBVIOUS
<1>1. CASE UNCHANGED vars
  BY <1>1, QuietForAging DEF vars, fileVars, callVars, history
<1>2. CASE Age
  BY <1>2 DEF Age, callVars, Aging, StaleIsAged, TakeoverIsLate, RobberyNeedsStaleLock
<1>3. ASSUME NEW p \in Procs, Step(p) \/ Die(p) PROVE Aging'
  <2> pc \in [Procs -> PcValues]
    BY DEF TypeInv, TypeOK
  <2>1. CASE Begin(p)
    BY <2>1, QuietForAging DEF Begin, Go, fileVars, history
  <2>2. CASE Create(p)
    <3>1. stale' => stale
      BY <2>2 DEF Create, fileVars
    <3>2. \/ Go(p, "work") \/ Go(p, "read") \/ Go(p, "idle")
      BY <2>2 DEF Create
    <3>3. \A q \in Procs : pc'[q] \in {"reread", "unlink"} => pc[q] \in {"reread", "unlink"}
      BY <3>2 DEF Go
    <3>4. QED
      BY <2>2, <3>1, <3>3, QuietForAging DEF Create, history
  <2>3. CASE ReadHeld(p)
    BY <2>3, QuietForAging, EndAttemptType DEF ReadHeld, Go, fileVars, history, Trying
  <2>4. CASE StatHeld(p)
    BY <2>4, QuietForAging, EndAttemptType DEF StatHeld, TooOld, Go, fileVars, history, Trying
  <2>5. CASE RereadHeld(p)
    BY <2>5, QuietForAging, EndAttemptType DEF RereadHeld, Go, fileVars, history, Trying
  <2>6. CASE UnlinkHeld(p)
    <3>1. \A q \in Procs : pc'[q] \in {"reread", "unlink"} => pc[q] \in {"reread", "unlink"}
      BY <2>6, EndAttemptType DEF UnlinkHeld, Trying
    <3>2. CASE Unlink(p)
      BY <2>6, <3>1, <3>2, UnlinkAging DEF UnlinkHeld
    <3>3. CASE UNCHANGED <<fileVars, robbed>>
      BY <2>6, <3>1, <3>3, QuietForAging DEF UnlinkHeld, fileVars
    <3>4. QED
      BY <2>6, <3>2, <3>3 DEF UnlinkHeld
  <2>7. CASE ReadDoc(p)
    BY <2>7, QuietForAging DEF ReadDoc, Go, fileVars
  <2>8. CASE SaveDoc(p)
    BY <2>8, QuietForAging DEF SaveDoc, Go, fileVars
  <2>9. CASE CompareOwn(p)
    BY <2>9, QuietForAging DEF CompareOwn, Go, fileVars, history
  <2>10. CASE RemoveOwn(p)
    <3>1. \A q \in Procs : pc'[q] \in {"reread", "unlink"} => pc[q] \in {"reread", "unlink"}
      BY <2>10 DEF RemoveOwn, Go
    <3>2. CASE Unlink(p)
      BY <2>10, <3>1, <3>2, UnlinkAging DEF RemoveOwn
    <3>3. CASE UNCHANGED <<fileVars, robbed>>
      BY <2>10, <3>1, <3>3, QuietForAging DEF RemoveOwn, fileVars
    <3>4. QED
      BY <2>10, <3>2, <3>3 DEF RemoveOwn
  <2>11. CASE Die(p)
    BY <2>11, QuietForAging DEF Die, Go, fileVars, history
  <2>12. QED
    BY <1>3, <2>1, <2>2, <2>3, <2>4, <2>5, <2>6, <2>7, <2>8, <2>9, <2>10, <2>11 DEF Step
<1>4. QED
  BY <1>1, <1>2, <1>3 DEF Next

-----------------------------------------------------------------------------
(* Work without the lock.                                                  *)

Unlocking == BareIsFallback /\ BareIsRecorded /\ UnlockedOnlyByFallback

\* A step that sends nobody to work without the lock.
LEMMA QuietForUnlocking ==
    ASSUME Unlocking, unlocked' = unlocked,
           \A q \in Procs : pc'[q] \in Bare => pc'[q] = pc[q] /\ tries'[q] = tries[q]
    PROVE  Unlocking'
BY DEF Unlocking, BareIsFallback, BareIsRecorded, UnlockedOnlyByFallback, Bare

\* The end of an attempt sends only a call with the option there, and only
\* after its last attempt or deadline.
LEMMA EndAttemptUnlocking ==
    ASSUME TypeInv, Unlocking, NEW p \in Procs, pc[p] \in Trying, EndAttempt(p),
           unlocked' = unlocked
    PROVE  Unlocking'
<1>1. \A q \in Procs : pc'[q] \in Bare => q \in Fallback /\ (tries'[q] = Attempts \/ q \in Hurried)
  BY EndAttemptType DEF Unlocking, BareIsFallback, UnlockedOnlyByFallback, Bare
<1>2. \A q \in Procs : pc'[q] = "bareSave" => pc[q] = "bareSave"
  BY EndAttemptType
<1>3. QED
  BY <1>1, <1>2 DEF Unlocking, BareIsFallback, BareIsRecorded, UnlockedOnlyByFallback, Bare

LEMMA StepUnlocking == TypeInv /\ Unlocking /\ [Next]_vars => Unlocking'
<1> SUFFICES ASSUME TypeInv, Unlocking, [Next]_vars PROVE Unlocking'
  OBVIOUS
<1>1. CASE UNCHANGED vars
  BY <1>1, QuietForUnlocking DEF vars, callVars, history
<1>2. CASE Age
  BY <1>2, QuietForUnlocking DEF Age, callVars
<1>3. ASSUME NEW p \in Procs, Step(p) \/ Die(p) PROVE Unlocking'
  <2> pc \in [Procs -> PcValues] /\ tries \in [Procs -> 0..Attempts]
    BY DEF TypeInv, TypeOK
  <2> USE DEF Bare
  <2>1. CASE Begin(p)
    BY <2>1, QuietForUnlocking DEF Begin, Go, history
  <2>2. CASE Create(p)
    BY <2>2, QuietForUnlocking DEF Create, Go, history
  <2>3. CASE ReadHeld(p)
    BY <2>3, QuietForUnlocking, EndAttemptUnlocking DEF ReadHeld, Go, history, Trying
  <2>4. CASE StatHeld(p)
    BY <2>4, QuietForUnlocking, EndAttemptUnlocking DEF StatHeld, Go, history, Trying
  <2>5. CASE RereadHeld(p)
    BY <2>5, QuietForUnlocking, EndAttemptUnlocking DEF RereadHeld, Go, history, Trying
  <2>6. CASE UnlinkHeld(p)
    BY <2>6, EndAttemptUnlocking DEF UnlinkHeld, Trying
  <2>7. CASE ReadDoc(p)
    <3>1. CASE pc[p] = "work"
      BY <2>7, <3>1, QuietForUnlocking DEF ReadDoc, Go
    <3>2. CASE pc[p] = "bareWork"
      <4>1. p \in Fallback /\ Ticket(p)[1] = p /\ unlocked' = unlocked \cup {Ticket(p)}
        BY <2>7, <3>2 DEF ReadDoc, Ticket, Unlocking, BareIsFallback
      <4>2. QED
        BY <2>7, <3>2, <4>1
           DEF ReadDoc, Go, Unlocking, BareIsFallback, BareIsRecorded, UnlockedOnlyByFallback
    <3>3. QED
      BY <2>7, <3>1, <3>2 DEF ReadDoc
  <2>8. CASE SaveDoc(p)
    BY <2>8, QuietForUnlocking DEF SaveDoc, Go
  <2>9. CASE CompareOwn(p)
    BY <2>9, QuietForUnlocking DEF CompareOwn, Go, history
  <2>10. CASE RemoveOwn(p)
    BY <2>10, QuietForUnlocking DEF RemoveOwn, Go
  <2>11. CASE Die(p)
    BY <2>11, QuietForUnlocking DEF Die, Go, history
  <2>12. QED
    BY <1>3, <2>1, <2>2, <2>3, <2>4, <2>5, <2>6, <2>7, <2>8, <2>9, <2>10, <2>11 DEF Step
<1>4. QED
  BY <1>1, <1>2, <1>3 DEF Next
-----------------------------------------------------------------------------
(* The document.                                                           *)

DocKept == SnapIsCurrent /\ NoLostUpdate

\* A step that writes no document, and sends nobody to write one.
LEMMA QuietForDoc ==
    ASSUME DocKept, doc' = doc, written' = written, robbed' = {} => robbed = {},
           unlocked' = {} => unlocked = {},
           \A q \in Procs : pc'[q] = "save" => pc[q] = "save" /\ snap'[q] = snap[q]
    PROVE  DocKept'
BY DEF DocKept, SnapIsCurrent, NoLostUpdate

LEMMA StepDoc ==
    TypeInv /\ HolderHasFile /\ BareIsRecorded /\ DocKept /\ [Next]_vars => DocKept'
<1> SUFFICES ASSUME TypeInv, HolderHasFile, BareIsRecorded, DocKept, [Next]_vars
             PROVE  DocKept'
  OBVIOUS
<1>1. CASE UNCHANGED vars
  BY <1>1, QuietForDoc DEF vars, callVars, docVars, history
<1>2. CASE Age
  BY <1>2, QuietForDoc DEF Age, callVars, docVars
<1>3. ASSUME NEW p \in Procs, Step(p) \/ Die(p) PROVE DocKept'
  <2> pc \in [Procs -> PcValues] /\ snap \in [Procs -> SUBSET Tickets]
    BY DEF TypeInv, TypeOK
  <2>1. CASE Begin(p)
    BY <2>1, QuietForDoc DEF Begin, Go, docVars, history
  <2>2. CASE Create(p)
    BY <2>2, QuietForDoc DEF Create, Go, docVars, history
  <2>3. CASE ReadHeld(p)
    BY <2>3, QuietForDoc, EndAttemptType DEF ReadHeld, Go, docVars, history, Trying
  <2>4. CASE StatHeld(p)
    BY <2>4, QuietForDoc, EndAttemptType DEF StatHeld, Go, docVars, history, Trying
  <2>5. CASE RereadHeld(p)
    BY <2>5, QuietForDoc, EndAttemptType DEF RereadHeld, Go, docVars, history, Trying
  <2>6. CASE UnlinkHeld(p)
    BY <2>6, QuietForDoc, EndAttemptType DEF UnlinkHeld, Unlink, docVars, Trying
  <2>7. CASE ReadDoc(p)
    <3>1. CASE pc[p] = "work"
      BY <2>7, <3>1 DEF ReadDoc, Go, DocKept, SnapIsCurrent, NoLostUpdate
    <3>2. CASE pc[p] = "bareWork"
      BY <2>7, <3>2 DEF ReadDoc, Go, DocKept, SnapIsCurrent, NoLostUpdate
    <3>3. QED
      BY <2>7, <3>1, <3>2 DEF ReadDoc
  <2>8. CASE SaveDoc(p)
    <3>1. CASE UNCHANGED <<doc, written>>
      BY <2>8, <3>1, QuietForDoc DEF SaveDoc, Go
    <3>2. CASE doc' = snap[p] \cup {Ticket(p)} /\ written' = written \cup {Ticket(p)}
      <4>1. SUFFICES ASSUME robbed = {}, unlocked = {}
                     PROVE  doc' = written' /\ \A q \in Procs : pc'[q] # "save"
        BY <2>8 DEF SaveDoc, DocKept, SnapIsCurrent, NoLostUpdate
      <4>2. pc[p] = "save"
        BY <2>8, <4>1 DEF SaveDoc, BareIsRecorded
      <4>3. snap[p] = doc /\ doc = written
        BY <4>1, <4>2 DEF DocKept, SnapIsCurrent, NoLostUpdate
      <4>4. \A q \in Procs : pc[q] = "save" => q = p
        BY <4>1, <4>2, FileGivesOneHolder DEF OneHolder, Holders, Holds, Holding
      <4>5. QED
        BY <2>8, <3>2, <4>2, <4>3, <4>4 DEF SaveDoc, Go
    <3>3. QED
      BY <2>8, <3>1, <3>2 DEF SaveDoc
  <2>9. CASE CompareOwn(p)
    BY <2>9, QuietForDoc DEF CompareOwn, Go, docVars, history
  <2>10. CASE RemoveOwn(p)
    BY <2>10, QuietForDoc DEF RemoveOwn, Unlink, Go, docVars
  <2>11. CASE Die(p)
    BY <2>11, QuietForDoc DEF Die, Go, docVars, history
  <2>12. QED
    BY <1>3, <2>1, <2>2, <2>3, <2>4, <2>5, <2>6, <2>7, <2>8, <2>9, <2>10, <2>11 DEF Step
<1>4. QED
  BY <1>1, <1>2, <1>3 DEF Next

-----------------------------------------------------------------------------
(* The safety of the lock.                                                 *)

IInv == TypeInv /\ Safe

LEMMA InitIInv == Init => IInv
<1> SUFFICES ASSUME Init PROVE IInv
  OBVIOUS
<1>1. TypeInv
  BY InitType
<1>2. HolderHasFile
  BY DEF Init, HolderHasFile, Holders, Holds, Holding
<1>3. StaleIsAged /\ TakeoverIsLate /\ RobberyNeedsStaleLock
  BY DEF Init, StaleIsAged, TakeoverIsLate, RobberyNeedsStaleLock
<1>4. BareIsFallback /\ BareIsRecorded /\ UnlockedOnlyByFallback
  BY DEF Init, BareIsFallback, BareIsRecorded, UnlockedOnlyByFallback, Bare
<1>5. SnapIsCurrent /\ NoLostUpdate
  BY DEF Init, SnapIsCurrent, NoLostUpdate
<1>6. QED
  BY <1>1, <1>2, <1>3, <1>4, <1>5 DEF IInv, Safe

LEMMA StepIInv == IInv /\ [Next]_vars => IInv'
BY StepType, StepHolders, StepAging, StepUnlocking, StepDoc
   DEF IInv, Safe, Aging, Unlocking, DocKept

\* A holder's lock file stays at the path until the holder gives it back,
\* unless a process that had compared an older lock unlinked it: for any
\* number of processes, calls, deaths and failures.
THEOREM HolderKeepsFile == Spec => []HolderHasFile
<1>1. IInv => HolderHasFile
  BY DEF IInv, Safe
<1>2. QED
  BY InitIInv, StepIInv, <1>1, PTL DEF Spec

\* Only the takeover of a stale lock can take a live holder's file.
THEOREM RobberyByTakeoverOnly == Spec => []RobberyNeedsStaleLock
<1>1. IInv => RobberyNeedsStaleLock
  BY DEF IInv, Safe
<1>2. QED
  BY InitIInv, StepIInv, <1>1, PTL DEF Spec

\* The one-holder guarantee of withFileLock, as far as it goes: it holds while
\* no lock has been left behind to go stale.
THEOREM OneHolderWhileFresh == Spec => [](aged = {} => OneHolder)
<1>1. IInv => (aged = {} => OneHolder)
  BY FileGivesOneHolder DEF IInv, Safe, RobberyNeedsStaleLock
<1>2. QED
  BY InitIInv, StepIInv, <1>1, PTL DEF Spec

\* No update written under the lock is overwritten, while no holder was robbed
\* and no call fell back to working without the lock.
THEOREM UpdatesKept == Spec => []NoLostUpdate
<1>1. IInv => NoLostUpdate
  BY DEF IInv, Safe
<1>2. QED
  BY InitIInv, StepIInv, <1>1, PTL DEF Spec

\* Nobody works without the lock but a call that asked for the fallback, and it
\* does so only after its attempts or its deadline.
THEOREM FallbackOnly == Spec => []UnlockedOnlyByFallback
<1>1. IInv => UnlockedOnlyByFallback
  BY DEF IInv, Safe
<1>2. QED
  BY InitIInv, StepIInv, <1>1, PTL DEF Spec

-----------------------------------------------------------------------------
(* The lock implements SerialUpdates.                                      *)

\* The calls that hold stay the ones that did.
LEMMA SameEntered ==
    ASSUME \A q \in Procs : Holds(q)' <=> Holds(q), call' = call
    PROVE  Entered' = Entered
BY DEF Entered, Holders, Ticket

\* A step that lets no call in or out, and writes nothing.
LEMMA QuietForSerial ==
    ASSUME \A q \in Procs : Holds(q)' <=> Holds(q), call' = call, doc' = doc,
           Weakened => Weakened'
    PROVE  [Serial!Next]_(Serial!serial)
<1>1. Entered' = Entered
  BY SameEntered
<1>2. QED
  BY <1>1 DEF Serial!Next, Serial!serial, Serial!Weaken, Weakened

\* A step that lets one call out.
LEMMA LeaveSerial ==
    ASSUME TypeInv, NEW p \in Procs, Holds(p), ~Holds(p)',
           \A q \in Procs : q # p => (Holds(q)' <=> Holds(q)),
           call' = call, doc' = doc, Weakened' = Weakened
    PROVE  [Serial!Next]_(Serial!serial)
<1>1. Entered' = Entered \ {Ticket(p)}
  <2>1. \A q \in Procs : Ticket(q)' = Ticket(q)
    BY DEF Ticket
  <2>2. \A q \in Procs : Ticket(q) = Ticket(p) => q = p
    BY TicketsDiffer
  <2>3. QED
    BY <2>1, <2>2 DEF Entered, Holders
<1>2. Ticket(p) \in Entered /\ Ticket(p) \in Tickets
  BY TicketType DEF Entered, Holders, Holds, Holding
<1>3. Serial!Leave(Ticket(p))
  BY <1>1, <1>2 DEF Serial!Leave
<1>4. QED
  BY <1>2, <1>3 DEF Serial!Next

\* The end of an attempt moves no holder.
LEMMA EndAttemptEntered ==
    ASSUME TypeInv, NEW p \in Procs, pc[p] \in Trying, EndAttempt(p)
    PROVE  \A q \in Procs : Holds(q)' <=> Holds(q)
BY EndAttemptType DEF Holds, Holding, Trying

\* Every step of a process is one of SerialUpdates or none.
LEMMA StepSerial ==
    ASSUME IInv, NEW p \in Procs, Step(p) \/ Die(p)
    PROVE  [Serial!Next]_(Serial!serial)
<1> USE DEF Holds, Holding
<1>0. TypeInv /\ HolderHasFile /\ BareIsRecorded /\ SnapIsCurrent
  BY DEF IInv, Safe
<1> pc \in [Procs -> PcValues] /\ call \in [Procs -> 0..MaxCalls]
  BY <1>0 DEF TypeInv, TypeOK
<1>1. CASE Begin(p)
  <2>1. Entered' = Entered
    BY <1>1 DEF Begin, Go, Entered, Holders, Ticket
  <2>2. QED
    BY <1>1, <2>1 DEF Begin, docVars, history, Weakened, Serial!serial
<1>2. CASE Create(p)
  <2>1. CASE PathFree /\ Go(p, "work")
    <3>1. Ticket(p) \in Tickets /\ call' = call /\ doc' = doc /\ Weakened' = Weakened
      BY <1>0, <1>2, TicketType DEF Create, docVars, history, Weakened
    <3>2. Entered' = Entered \cup {Ticket(p)}
      BY <1>2, <2>1 DEF Create, Go, Entered, Holders, Ticket
    <3>3. ~Weakened => Entered = {}
      <4>1. SUFFICES ASSUME ~Weakened, NEW q \in Holders PROVE FALSE
        BY DEF Entered
      <4>2. q \in Procs /\ pc[q] # "idle" /\ lock = Ticket(q)
        BY <1>0, <4>1 DEF HolderHasFile, Weakened, Holders
      <4>3. QED
        BY <1>0, <2>1, <4>2, TicketType DEF PathFree
    <3>4. Serial!Enter(Ticket(p))
      BY <3>1, <3>2, <3>3 DEF Serial!Enter
    <3>5. QED
      BY <3>1, <3>4 DEF Serial!Next
  <2>2. CASE Go(p, "read") \/ Go(p, "idle")
    BY <1>2, <2>2, QuietForSerial DEF Create, Go, docVars, history, Weakened
  <2>3. QED
    BY <1>2, <2>1, <2>2 DEF Create
<1>3. CASE ReadHeld(p)
  <2>1. \A q \in Procs : Holds(q)' <=> Holds(q)
    BY <1>0, <1>3, EndAttemptEntered DEF ReadHeld, Go, Trying
  <2>2. QED
    BY <1>3, <2>1, QuietForSerial DEF ReadHeld, docVars, history, Weakened
<1>4. CASE StatHeld(p)
  <2>1. \A q \in Procs : Holds(q)' <=> Holds(q)
    BY <1>0, <1>4, EndAttemptEntered DEF StatHeld, Go, Trying
  <2>2. QED
    BY <1>4, <2>1, QuietForSerial DEF StatHeld, docVars, history, Weakened
<1>5. CASE RereadHeld(p)
  <2>1. \A q \in Procs : Holds(q)' <=> Holds(q)
    BY <1>0, <1>5, EndAttemptEntered DEF RereadHeld, Go, Trying
  <2>2. QED
    BY <1>5, <2>1, QuietForSerial DEF RereadHeld, docVars, history, Weakened
<1>6. CASE UnlinkHeld(p)
  <2>1. \A q \in Procs : Holds(q)' <=> Holds(q)
    BY <1>0, <1>6, EndAttemptEntered DEF UnlinkHeld, Trying
  <2>2. Weakened => Weakened'
    BY <1>6 DEF UnlinkHeld, Unlink, Weakened
  <2>3. QED
    BY <1>6, <2>1, <2>2, QuietForSerial DEF UnlinkHeld, docVars
<1>7. CASE ReadDoc(p)
  <2>1. \A q \in Procs : Holds(q)' <=> Holds(q)
    BY <1>7 DEF ReadDoc, Go
  <2>2. Weakened => Weakened'
    BY <1>7 DEF ReadDoc, Weakened
  <2>3. QED
    BY <1>7, <2>1, <2>2, QuietForSerial DEF ReadDoc
<1>8. CASE SaveDoc(p)
  <2>1. /\ \A q \in Procs : Holds(q)' <=> Holds(q)
        /\ call' = call /\ Weakened' = Weakened
    BY <1>8 DEF SaveDoc, Go, Weakened
  <2>2. CASE UNCHANGED <<doc, written>>
    BY <2>1, <2>2, QuietForSerial
  <2>3. CASE doc' = snap[p] \cup {Ticket(p)}
    <3>1. Entered' = Entered
      BY <2>1, SameEntered
    <3>2. Ticket(p) \in Tickets /\ snap[p] \in SUBSET Tickets
      BY <1>0, <1>8, TicketType DEF SaveDoc, TypeInv, TypeOK
    <3>3. CASE Weakened
      <4>1. Serial!Overwrite
        BY <2>1, <2>3, <3>1, <3>2, <3>3 DEF Serial!Overwrite
      <4>2. QED
        BY <4>1 DEF Serial!Next
    <3>4. CASE ~Weakened
      <4>1. pc[p] = "save" /\ snap[p] = doc
        BY <1>0, <1>8, <3>4 DEF SaveDoc, BareIsRecorded, SnapIsCurrent, Weakened
      <4>2. Ticket(p) \in Entered
        BY <4>1 DEF Entered, Holders
      <4>3. Serial!Update(Ticket(p))
        BY <2>1, <2>3, <3>1, <4>1, <4>2 DEF Serial!Update
      <4>4. QED
        BY <3>2, <4>3 DEF Serial!Next
    <3>5. QED
      BY <3>3, <3>4
  <2>4. QED
    BY <1>8, <2>2, <2>3 DEF SaveDoc
<1>9. CASE CompareOwn(p)
  <2>1. CASE Go(p, "remove")
    BY <1>9, <2>1, QuietForSerial DEF CompareOwn, Go, docVars, history, Weakened
  <2>2. CASE Go(p, "idle")
    BY <1>0, <1>9, <2>2, LeaveSerial DEF CompareOwn, Go, docVars, history, Weakened
  <2>3. QED
    BY <1>9, <2>1, <2>2 DEF CompareOwn
<1>10. CASE RemoveOwn(p)
  <2>1. Weakened' = Weakened
    <3>1. CASE Weakened
      BY <1>10, <3>1 DEF RemoveOwn, Unlink, Weakened
    <3>2. CASE ~Weakened
      <4>1. lock = Ticket(p) /\ robbed = {}
        BY <1>0, <1>10, <3>2 DEF RemoveOwn, HolderHasFile, Holders, Weakened
      <4>2. HoldersOf(lock) \ {p} = {}
        BY <4>1, TicketsDiffer DEF HoldersOf, Holders
      <4>3. QED
        BY <1>10, <3>2, <4>1, <4>2 DEF RemoveOwn, Unlink, Weakened
    <3>3. QED
      BY <3>1, <3>2
  <2>2. QED
    BY <1>0, <1>10, <2>1, LeaveSerial DEF RemoveOwn, Go, docVars
<1>11. CASE Die(p)
  <2>1. CASE Holds(p)
    BY <1>0, <1>11, <2>1, LeaveSerial DEF Die, Go, docVars, history, Weakened
  <2>2. CASE ~Holds(p)
    BY <1>11, <2>2, QuietForSerial DEF Die, Go, docVars, history, Weakened
  <2>3. QED
    BY <2>1, <2>2
<1>12. QED
  BY <1>1, <1>2, <1>3, <1>4, <1>5, <1>6, <1>7, <1>8, <1>9, <1>10, <1>11 DEF Step

\* The lock makes the work it protects serial: for any number of processes,
\* calls, deaths and failures, every step of the files is one of SerialUpdates
\* or none, until a takeover robs a live holder or a call goes ahead unlocked.
THEOREM SerialRefined == Spec => UpdatesSerialize
<1>1. Init => Serial!Init
  BY DEF Init, Serial!Init, Entered, Weakened, Holders, Holds, Holding
<1>2. IInv /\ [Next]_vars => [Serial!Next]_(Serial!serial)
  <2> SUFFICES ASSUME IInv, [Next]_vars PROVE [Serial!Next]_(Serial!serial)
    OBVIOUS
  <2>1. CASE UNCHANGED vars
    BY <2>1, QuietForSerial DEF vars, callVars, docVars, history, Weakened, Holds
  <2>2. CASE Age
    BY <2>2, QuietForSerial DEF Age, callVars, docVars, Weakened, Holds
  <2>3. CASE \E p \in Procs : Step(p) \/ Die(p)
    BY <2>3, StepSerial
  <2>4. QED
    BY <2>1, <2>2, <2>3 DEF Next
<1>3. QED
  BY InitIInv, StepIInv, <1>1, <1>2, PTL DEF Spec, UpdatesSerialize, Serial!Spec
=============================================================================
