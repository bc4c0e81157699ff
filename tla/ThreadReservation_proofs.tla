---------------------- MODULE ThreadReservation_proofs ----------------------
(***************************************************************************)
(* What ThreadReservation promises for any number of runs, scans, tries,   *)
(* crashes and failures.  TypeInv is the types and the bookkeeping they    *)
(* need; JudgedIsGone and Claims say who may remove a lock, and Owned that *)
(* a driver has its lock unless it was robbed; Kept says what becomes of a *)
(* child that was noted.                                                   *)
(***************************************************************************)
EXTENDS ThreadReservation, TLAPS

Reaping == {"reapSame", "reapUnlink"}

\* A scan's reap never goes on to the create of an acquire.
ScanReaps == \A s \in Scans : pc[s] \in Reaping => back[s] # "enter"

\* A run that is still acquiring has a create left.
TryLeft ==
    \A p \in Procs :
        \/ pc[p] \in {"enter", "create", "read"}
        \/ pc[p] \in Reaping /\ back[p] = "enter"
        => tries[p] < Tries

\* Where a process is, and what it has when it is there ...
PlaceInv ==
    /\ pc \in [Procs -> PcValues]
    /\ \A s \in Scans : pc[s] \notin Driving \cup RunOnly
    /\ ScanReaps /\ TryLeft

\* ... and the types of the rest.
DataOK ==
    /\ lock \in Runs \cup {NoFile} /\ hint \in BOOLEAN
    /\ claim \in Procs \cup {NoFile}
    /\ back \in [Procs -> {"enter", "take", "scan"}]
    /\ seen \in [Procs -> Procs \cup {NoFile}]
    /\ judged \in [Procs -> Runs \cup {NoFile}]
    /\ tries \in [Procs -> 0..Tries]
    /\ hinted \in [Procs -> BOOLEAN] /\ removed \in [Procs -> BOOLEAN]
    /\ child \in [Runs -> {"none", "live", "gone"}]
    /\ faults \in 0..MaxFaults /\ crashes \in 0..MaxCrashes
    /\ early \subseteq noted /\ noted \subseteq Runs
    /\ robbed \subseteq Runs /\ strays \subseteq Procs

TypeInv == PlaceInv /\ DataOK

\* A step of one process.
ProcStep(p) ==
    \/ p \in Runs /\ (RunStep(p) \/ TurnStep(p))
    \/ p \in Scans /\ ScanStep(p)
    \/ TakeStep(p) \/ Crash(p)

\* A process on the way to remove the lock it judged.
Taking   == {"claim", "reapTake", "claimAgain", "verify", "unlinkLock"}
Taker(p) == pc[p] \in Taking \/ (pc[p] \in Reaping /\ back[p] = "take")

\* Whose lock it judged is gone for good.
JudgedIsGone == \A p \in Procs : Taker(p) => judged[p] \in Runs /\ pc[judged[p]] \in Gone

\* While every cleaner gave its claim back: the claim is that of a live cleaner,
\* which is the only one, and nobody reaps.
ClaimIsLive == claim # NoFile => pc[claim] \in Claiming \/ strays # {}
ReapIsLate  == \A p \in Procs : pc[p] \in Reaping => strays # {}
ClaimIsOwn  == strays = {} => \A p \in Procs : pc[p] \in Claiming => claim = p

Claims == ClaimIsLive /\ ReapIsLate /\ ClaimIsOwn

\* The lock it verified is still there when it unlinks.
VerifiedStays == strays = {} => \A p \in Procs : pc[p] = "unlinkLock" => lock = judged[p]

Owned == DriverHasLock /\ RobberyNeedsStrayClaim /\ VerifiedStays

\* A run that noted its child is past its note, and one that releases its lock
\* has no child.
NotedIsPast == \A q \in noted : pc[q] \in {"running", "release", "unlinkOwn"} \cup Gone
EndedIsOver == \A q \in Runs : pc[q] \in {"release", "unlinkOwn"} => child[q] # "live"

\* The runs whose note whoever judges their lock has read; while their child
\* lives the note is there, was read, and nobody takes the lock.
Known == noted \ early

NoteStays   == strays = {} => \A q \in Known : child[q] = "live" => lock = q /\ hint = TRUE
HintIsRead  == strays = {} => \A p \in Procs, q \in Known :
                                judged[p] = q /\ child[q] = "live" => hinted[p] = TRUE
TakenIsOver == strays = {} => \A p \in Procs :
                                Taker(p) /\ judged[p] \in Known => child[judged[p]] # "live"

Kept == NotedIsPast /\ EndedIsOver /\ NoteStays /\ HintIsRead /\ TakenIsOver

-----------------------------------------------------------------------------
(* Type correctness.                                                       *)

LEMMA InitType == Init => TypeInv
<1> SUFFICES ASSUME Init PROVE TypeInv
  OBVIOUS
<1> USE ProcsAssumption, BoundsAssumption DEF Procs
<1>1. pc = [p \in Procs |-> IF p \in Runs THEN "enter" ELSE "scan"]
  BY DEF Init
<1>2. pc \in [Procs -> PcValues]
  BY <1>1 DEF PcValues, RunOnly
<1>3. \A s \in Scans : pc[s] = "scan"
  BY <1>1
<1>4. \A s \in Scans : pc[s] \notin Driving \cup RunOnly \cup Reaping
  BY <1>3 DEF Driving, RunOnly, Reaping
<1>5. TryLeft
  BY DEF Init, TryLeft
<1>6. /\ lock \in Runs \cup {NoFile} /\ claim \in Procs \cup {NoFile}
      /\ back \in [Procs -> {"enter", "take", "scan"}]
      /\ seen \in [Procs -> Procs \cup {NoFile}]
      /\ judged \in [Procs -> Runs \cup {NoFile}]
      /\ tries \in [Procs -> 0..Tries]
      /\ child \in [Runs -> {"none", "live", "gone"}]
      /\ faults \in 0..MaxFaults /\ crashes \in 0..MaxCrashes
  BY DEF Init
<1>7. hint \in BOOLEAN /\ hinted \in [Procs -> BOOLEAN] /\ removed \in [Procs -> BOOLEAN]
  BY DEF Init
<1>8. early \subseteq noted /\ noted \subseteq Runs /\ robbed \subseteq Runs /\ strays \subseteq Procs
  BY DEF Init
<1>9. QED
  BY <1>2, <1>4, <1>5, <1>6, <1>7, <1>8 DEF TypeInv, PlaceInv, DataOK, ScanReaps

\* A process that goes somewhere brings what it needs there.
LEMMA GoKeepsPlaces ==
    ASSUME TypeInv, NEW p \in Procs, NEW at \in PcValues, Go(p, at),
           p \in Scans => at \notin Driving \cup RunOnly,
           p \in Scans /\ at \in Reaping => back'[p] # "enter",
           \A q \in Procs : q # p => tries'[q] = tries[q] /\ back'[q] = back[q],
           at \in {"enter", "create", "read"} \/ (at \in Reaping /\ back'[p] = "enter")
             => tries'[p] < Tries
    PROVE  PlaceInv'
<1>1. /\ pc' \in [Procs -> PcValues] /\ pc'[p] = at
      /\ \A q \in Procs : q # p => pc'[q] = pc[q]
  BY DEF Go, TypeInv, PlaceInv
<1>2. \A s \in Scans : s \in Procs
  BY DEF Procs
<1>3. (\A s \in Scans : pc[s] \notin Driving \cup RunOnly)'
  BY <1>1, <1>2 DEF TypeInv, PlaceInv
<1>4. ScanReaps'
  BY <1>1, <1>2 DEF TypeInv, PlaceInv, ScanReaps
<1>5. TryLeft'
  BY <1>1 DEF TypeInv, PlaceInv, TryLeft
<1>6. QED
  BY <1>1, <1>3, <1>4, <1>5 DEF PlaceInv

\* The places that matter to GoKeepsPlaces, told apart once.
LEMMA Places ==
    /\ Driving \cup RunOnly \cup Claiming \cup Gone \cup Reaping \subseteq PcValues
    /\ {"claim", "reapTake", "claimAgain", "scanClaim", "scanOwner"} \subseteq
         PcValues \ (Driving \cup RunOnly \cup Reaping)
    /\ (Claiming \cup Gone \cup Reaping) \cap (Driving \cup RunOnly) = {}
    /\ (Claiming \cup Gone \cup Driving) \cap Reaping = {}
    /\ (Claiming \cup Gone \cup Driving) \cap {"enter", "create", "read"} = {}
BY DEF PcValues, Driving, RunOnly, Claiming, Gone, Reaping

\* The reap of a dead claim, whoever calls it.
LEMMA ReapClaimType ==
    ASSUME TypeInv, NEW p \in Procs, NEW from, NEW caller, ReapClaim(p, from, caller),
           \/ p \in Runs /\ from = "enter" /\ caller = "enter"
           \/ from = "reapTake" /\ caller = "take"
           \/ from = "scanClaim" /\ caller = "scan"
    PROVE  TypeInv'
<1> USE ProcsAssumption
<1>1. DataOK'
  BY DEF ReapClaim, TypeInv, PlaceInv, DataOK, files, take, budget, history
<1>2. back'[p] = caller /\ (\A q \in Procs : q # p => back'[q] = back[q]) /\ tries' = tries
  BY DEF ReapClaim, TypeInv, DataOK, take
<1>3. caller = "enter" => p \notin Scans /\ tries[p] < Tries
  BY DEF ReapClaim, TypeInv, PlaceInv, TryLeft
<1>4. PlaceInv'
  <2>1. CASE Go(p, "end")
    BY <1>2, <2>1, Places, GoKeepsPlaces DEF Gone
  <2>2. CASE Go(p, "reapSame")
    BY <1>2, <1>3, <2>2, Places, GoKeepsPlaces DEF Reaping
  <2>3. CASE Go(p, AfterReap[caller])
    <3>1. CASE caller = "enter"
      BY <1>2, <1>3, <2>3, <3>1, Places, GoKeepsPlaces DEF AfterReap, RunOnly, Reaping
    <3>2. CASE caller = "take"
      BY <1>2, <2>3, <3>2, Places, GoKeepsPlaces DEF AfterReap
    <3>3. CASE caller = "scan"
      BY <1>2, <2>3, <3>3, Places, GoKeepsPlaces DEF AfterReap
    <3>4. QED
      BY <3>1, <3>2, <3>3
  <2>4. QED
    BY <2>1, <2>2, <2>3 DEF ReapClaim
<1>5. QED
  BY <1>1, <1>4 DEF TypeInv

\* An unlink leaves no lock, and robs runs only.
LEMMA UnlinkLockType ==
    ASSUME TypeInv, NEW p \in Procs, UnlinkLock(p)
    PROVE  /\ lock' \in Runs \cup {NoFile} /\ hint' \in BOOLEAN /\ robbed' \subseteq Runs
<1>1. lock' = NoFile /\ hint' \in BOOLEAN
  BY DEF UnlinkLock
<1>2. robbed' \subseteq Runs
  BY DEF UnlinkLock, TypeInv, DataOK
<1>3. QED
  BY <1>1, <1>2

LEMMA FaultType ==
    ASSUME TypeInv, Fault
    PROVE  faults' \in 0..MaxFaults /\ crashes' \in 0..MaxCrashes
BY BoundsAssumption DEF Fault, TypeInv, DataOK

\* A step of one process that moves it and keeps the types keeps TypeInv.
LEMMA StepOfProcType ==
    ASSUME TypeInv, NEW p \in Procs, ProcStep(p)
    PROVE  TypeInv'
<1> USE ProcsAssumption, BoundsAssumption
<1> DEFINE Quiet == UNCHANGED <<back, tries>>
<1>1. ASSUME NEW at \in PcValues, Go(p, at), Quiet, at \notin RunOnly \cup Reaping,
             at \in Driving => p \in Runs, DataOK'
      PROVE  TypeInv'
  <2>1. p \in Scans => at \notin Driving \cup RunOnly
    BY <1>1
  <2>2. at \notin {"enter", "create", "read"}
    BY <1>1 DEF RunOnly
  <2>3. QED
    BY <1>1, <2>1, <2>2, GoKeepsPlaces DEF TypeInv
<1> USE DEF files, reap, take, budget, history
<1>2. ASSUME p \in Runs PROVE RunStep(p) \/ TurnStep(p) => TypeInv'
  <2>1. CASE Enter(p)
    BY <1>2, <2>1, ReapClaimType DEF Enter
  <2>2. CASE Create(p)
    <3>1. DataOK'
      BY <1>2, <2>2 DEF Create, CreateLock, TypeInv, DataOK
    <3>2. CASE Go(p, "held")
      BY <1>1, <1>2, <2>2, <3>1, <3>2, Places DEF Create, Driving, RunOnly, Reaping
    <3>3. CASE Go(p, "read")
      <4>1. tries[p] < Tries
        BY <2>2 DEF Create, TypeInv, PlaceInv, TryLeft
      <4>2. QED
        BY <1>2, <2>2, <3>1, <3>3, <4>1, Places, GoKeepsPlaces
           DEF Create, TypeInv, RunOnly, Reaping
    <3>4. QED
      BY <2>2, <3>2, <3>3 DEF Create
  <2>3. CASE ReadOwner(p)
    <3>1. tries[p] < Tries
      BY <2>3 DEF ReadOwner, TypeInv, PlaceInv, TryLeft
    <3>2. CASE lock = NoFile
      <4>1. tries' = [tries EXCEPT ![p] = @ + 1] /\ tries \in [Procs -> 0..Tries]
        BY <2>3, <3>2 DEF ReadOwner, TypeInv, DataOK
      <4>2. tries'[p] = tries[p] + 1 /\ tries' \in [Procs -> 0..Tries]
            /\ \A q \in Procs : q # p => tries'[q] = tries[q]
        BY <3>1, <4>1
      <4>3. DataOK'
        BY <2>3, <3>2, <4>2 DEF ReadOwner, TypeInv, DataOK
      <4>4. CASE CanRetry(p)
        BY <1>2, <2>3, <3>2, <4>2, <4>3, <4>4, Places, GoKeepsPlaces
           DEF ReadOwner, CanRetry, TypeInv, RunOnly, Reaping
      <4>5. CASE ~CanRetry(p)
        BY <1>2, <2>3, <3>2, <4>2, <4>3, <4>5, Places, GoKeepsPlaces
           DEF ReadOwner, TypeInv, Gone
      <4>6. QED
        BY <4>4, <4>5
    <3>3. CASE lock # NoFile
      <4>1. DataOK'
        BY <2>3, <3>3 DEF ReadOwner, TypeInv, DataOK
      <4>2. QED
        BY <1>2, <2>3, <3>3, <4>1, Places, GoKeepsPlaces
           DEF ReadOwner, TypeInv, RunOnly, Reaping
    <3>4. QED
      BY <3>2, <3>3
  <2>4. CASE Judge(p)
    <3>1. DataOK' /\ Quiet
      BY <2>4 DEF Judge, TypeInv, DataOK
    <3>2. QED
      BY <1>1, <2>4, <3>1, Places DEF Judge, Gone, RunOnly, Driving, Reaping
  <2>5. CASE CreateAfter(p)
    <3>1. DataOK' /\ Quiet
      BY <1>2, <2>5 DEF CreateAfter, CreateLock, TypeInv, DataOK
    <3>2. QED
      BY <1>1, <1>2, <2>5, <3>1, Places DEF CreateAfter, Gone, RunOnly, Driving, Reaping
  <2>6. CASE NoteRead(p)
    <3>1. DataOK' /\ Quiet
      BY <2>6 DEF NoteRead, TypeInv, DataOK
    <3>2. QED
      BY <1>1, <1>2, <2>6, <3>1, Places DEF NoteRead, RunOnly, Driving, Reaping
  <2>7. CASE NoteWrite(p)
    <3>1. UNCHANGED <<claim, back, seen, judged, hinted, tries, removed, child, strays>>
      BY <2>7 DEF NoteWrite
    <3>2. /\ early' \subseteq noted' /\ noted' \subseteq Runs /\ robbed' \subseteq Runs
          /\ lock' \in Runs \cup {NoFile}
      BY <1>2, <2>7 DEF NoteWrite, TypeInv, DataOK
    <3>3. hint' \in BOOLEAN
      BY <2>7 DEF NoteWrite, TypeInv, DataOK
    <3>4. faults' \in 0..MaxFaults /\ crashes' \in 0..MaxCrashes
      BY <2>7, FaultType DEF NoteWrite, TypeInv, DataOK
    <3>5. DataOK' /\ Quiet
      BY <3>1, <3>2, <3>3, <3>4 DEF TypeInv, DataOK
    <3>6. QED
      BY <1>1, <1>2, <2>7, <3>5, Places DEF NoteWrite, RunOnly, Driving, Reaping
  <2>8. CASE Release(p)
    <3>1. DataOK' /\ Quiet
      BY <2>8 DEF Release, TypeInv, DataOK
    <3>2. QED
      BY <1>1, <1>2, <2>8, <3>1, Places DEF Release, Gone, RunOnly, Driving, Reaping
  <2>9. CASE UnlinkOwn(p)
    <3>1. /\ lock' \in Runs \cup {NoFile} /\ hint' \in BOOLEAN /\ robbed' \subseteq Runs
          /\ faults' \in 0..MaxFaults /\ crashes' \in 0..MaxCrashes
      BY <2>9, UnlinkLockType, FaultType DEF UnlinkOwn, TypeInv, DataOK
    <3>2. DataOK' /\ Quiet
      BY <2>9, <3>1 DEF UnlinkOwn, TypeInv, DataOK
    <3>3. QED
      BY <1>1, <2>9, <3>2, Places DEF UnlinkOwn, Gone, RunOnly, Driving, Reaping
  <2>10. CASE SpawnChild(p)
    <3>1. DataOK' /\ Quiet
      BY <1>2, <2>10 DEF SpawnChild, TypeInv, DataOK
    <3>2. QED
      BY <1>1, <1>2, <2>10, <3>1, Places DEF SpawnChild, RunOnly, Driving, Reaping
  <2>11. CASE TurnEnds(p)
    <3>1. DataOK' /\ Quiet
      BY <1>2, <2>11 DEF TurnEnds, TypeInv, DataOK
    <3>2. QED
      BY <1>1, <1>2, <2>11, <3>1, Places DEF TurnEnds, RunOnly, Driving, Reaping
  <2>12. CASE ChildDies(p)
    <3>1. DataOK'
      BY <1>2, <2>12 DEF ChildDies, TypeInv, DataOK
    <3>2. QED
      BY <2>12, <3>1 DEF ChildDies, TypeInv, PlaceInv, ScanReaps, TryLeft
  <2>13. QED
    BY <2>1, <2>2, <2>3, <2>4, <2>5, <2>6, <2>7, <2>8, <2>9, <2>10, <2>11, <2>12
       DEF RunStep, TurnStep
<1>3. ASSUME p \in Scans PROVE ScanStep(p) => TypeInv'
  <2>1. CASE ScanLock(p)
    <3>1. DataOK' /\ Quiet
      BY <2>1 DEF ScanLock, TypeInv, DataOK
    <3>2. QED
      BY <1>1, <2>1, <3>1, Places DEF ScanLock, RunOnly, Driving, Reaping
  <2>2. CASE ScanClaim(p)
    BY <2>2, ReapClaimType DEF ScanClaim
  <2>3. CASE Judge(p)
    <3>1. DataOK' /\ Quiet
      BY <2>3 DEF Judge, TypeInv, DataOK
    <3>2. QED
      BY <1>1, <2>3, <3>1, Places DEF Judge, Gone, RunOnly, Driving, Reaping
  <2>4. QED
    BY <2>1, <2>2, <2>3 DEF ScanStep
<1>4. TakeStep(p) \/ Crash(p) => TypeInv'
  <2>1. ASSUME pc[p] \in Reaping, UNCHANGED <<back, tries>>, DataOK',
               \/ Go(p, AfterReap[back[p]]) \/ Go(p, ReapFails[back[p]])
               \/ pc[p] = "reapSame" /\ Go(p, "reapUnlink")
        PROVE  TypeInv'
    <3>1. back[p] \in {"enter", "take", "scan"}
          /\ (back[p] = "enter" => p \notin Scans /\ tries[p] < Tries)
      BY <2>1 DEF TypeInv, PlaceInv, DataOK, TryLeft, ScanReaps
    <3>2. CASE Go(p, AfterReap[back[p]])
      BY <2>1, <3>1, <3>2, Places, GoKeepsPlaces DEF AfterReap, TypeInv, RunOnly, Reaping
    <3>3. CASE Go(p, ReapFails[back[p]])
      BY <2>1, <3>1, <3>3, Places, GoKeepsPlaces DEF ReapFails, TypeInv, Gone, Reaping
    <3>4. CASE Go(p, "reapUnlink")
      BY <2>1, <3>1, <3>4, Places, GoKeepsPlaces DEF TypeInv, Reaping
    <3>5. QED
      BY <2>1, <3>2, <3>3, <3>4
  <2>2. CASE ReapSame(p)
    <3>1. DataOK' /\ UNCHANGED <<back, tries>>
      BY <2>2 DEF ReapSame, TypeInv, DataOK
    <3>2. QED
      BY <2>1, <2>2, <3>1 DEF ReapSame, Reaping
  <2>3. CASE ReapUnlink(p)
    <3>1. DataOK' /\ UNCHANGED <<back, tries>>
      BY <2>3 DEF ReapUnlink, Fault, TypeInv, DataOK
    <3>2. QED
      BY <2>1, <2>3, <3>1 DEF ReapUnlink, Reaping
  <2>4. CASE ReapForTake(p)
    BY <2>4, ReapClaimType DEF ReapForTake
  <2>5. CASE CreateClaim(p)
    <3>1. DataOK' /\ Quiet
      BY <2>5 DEF CreateClaim, TypeInv, DataOK
    <3>2. QED
      BY <1>1, <2>5, <3>1, Places DEF CreateClaim, Claiming, Gone, RunOnly, Driving, Reaping
  <2>6. CASE Verify(p)
    <3>1. DataOK' /\ Quiet
      BY <2>6 DEF Verify, TypeInv, DataOK
    <3>2. QED
      BY <1>1, <2>6, <3>1, Places DEF Verify, AfterRefusal, Claiming, RunOnly, Driving, Reaping
  <2>7. CASE UnlinkDead(p)
    <3>1. /\ lock' \in Runs \cup {NoFile} /\ hint' \in BOOLEAN /\ robbed' \subseteq Runs
          /\ faults' \in 0..MaxFaults /\ crashes' \in 0..MaxCrashes
      BY <2>7, UnlinkLockType, FaultType DEF UnlinkDead, TypeInv, DataOK
    <3>2. DataOK' /\ Quiet
      BY <2>7, <3>1 DEF UnlinkDead, TypeInv, DataOK
    <3>3. QED
      BY <1>1, <2>7, <3>2, Places DEF UnlinkDead, Claiming, RunOnly, Driving, Reaping
  <2>8. ASSUME Go(p, AfterClaim(p)), Quiet, DataOK' PROVE TypeInv'
    <3>1. CASE p \in Runs /\ removed[p]
      BY <2>8, <3>1, Places, GoKeepsPlaces DEF AfterClaim, TypeInv, RunOnly, Reaping
    <3>2. CASE ~(p \in Runs /\ removed[p])
      BY <2>8, <3>2, Places, GoKeepsPlaces DEF AfterClaim, TypeInv, Gone
    <3>3. QED
      BY <3>1, <3>2
  <2>9. CASE GiveBack(p)
    <3>1. DataOK' /\ Quiet
      BY <2>9 DEF GiveBack, Fault, TypeInv, DataOK
    <3>2. QED
      BY <1>1, <2>8, <2>9, <3>1, Places
         DEF GiveBack, Claiming, Gone, RunOnly, Driving, Reaping
  <2>10. CASE DropClaim(p)
    <3>1. DataOK' /\ Quiet
      BY <2>10 DEF DropClaim, TypeInv, DataOK
    <3>2. QED
      BY <2>8, <2>10, <3>1 DEF DropClaim
  <2>11. CASE Crash(p)
    <3>1. DataOK' /\ Quiet
      BY <2>11 DEF Crash, TypeInv, DataOK
    <3>2. QED
      BY <1>1, <2>11, <3>1, Places DEF Crash, Gone, RunOnly, Driving, Reaping
  <2>12. QED
    BY <2>2, <2>3, <2>4, <2>5, <2>6, <2>7, <2>9, <2>10, <2>11 DEF TakeStep
<1>5. QED
  BY <1>2, <1>3, <1>4 DEF ProcStep

\* Every step is some process's.
LEMMA StepIsOfProc ==
    ASSUME Next PROVE \E p \in Procs : ProcStep(p)
BY DEF Next, ProcStep, Procs

LEMMA StepType == TypeInv /\ [Next]_vars => TypeInv'
<1> SUFFICES ASSUME TypeInv, [Next]_vars PROVE TypeInv'
  OBVIOUS
<1>1. CASE UNCHANGED vars
  BY <1>1 DEF vars, files, reap, take, budget, history, TypeInv, PlaceInv, DataOK,
              ScanReaps, TryLeft
<1>2. CASE Next
  BY <1>2, StepOfProcType, StepIsOfProc
<1>3. QED
  BY <1>1, <1>2

\* The files hold what a process wrote, no call outlives its creates, and a scan
\* never acquires.
THEOREM TypeCorrect == Spec => []TypeOK
<1>1. TypeInv => TypeOK
  <2> SUFFICES ASSUME TypeInv PROVE TypeOK
    OBVIOUS
  <2>1. \A s \in Scans : pc[s] \in PcValues \ (Driving \cup RunOnly)
    BY DEF TypeInv, PlaceInv, Procs
  <2>2. QED
    BY <2>1 DEF TypeInv, PlaceInv, DataOK, TypeOK
<1>2. QED
  BY InitType, StepType, <1>1, PTL DEF Spec

-----------------------------------------------------------------------------
(* What a step leaves alone.                                               *)

\* A process that takes no step stays where it is, with what it read.
LEMMA OthersStay ==
    ASSUME TypeInv, NEW p \in Procs, ProcStep(p), NEW q \in Procs, q # p
    PROVE  pc'[q] = pc[q] /\ judged'[q] = judged[q] /\ hinted'[q] = hinted[q] /\ back'[q] = back[q]
<1> USE DEF files, reap, take, budget, history, Go, TypeInv, PlaceInv, DataOK
<1>1. CASE RunStep(p)
  BY <1>1 DEF RunStep, Enter, ReapClaim, Create, ReadOwner, Judge, CreateAfter,
              NoteRead, NoteWrite, Release, UnlinkOwn
<1>2. CASE TurnStep(p)
  BY <1>2 DEF TurnStep, SpawnChild, TurnEnds, ChildDies
<1>3. CASE ScanStep(p)
  BY <1>3 DEF ScanStep, ScanLock, ScanClaim, ReapClaim, Judge
<1>4. CASE TakeStep(p)
  BY <1>4 DEF TakeStep, ReapSame, ReapUnlink, ReapForTake, ReapClaim, CreateClaim,
              Verify, UnlinkDead, GiveBack, DropClaim
<1>5. CASE Crash(p)
  BY <1>5 DEF Crash
<1>6. QED
  BY <1>1, <1>2, <1>3, <1>4, <1>5 DEF ProcStep

\* A process that is gone stays gone.
LEMMA GoneStays ==
    ASSUME TypeInv, NEW p \in Procs, ProcStep(p), NEW q \in Procs, pc[q] \in Gone
    PROVE  pc'[q] \in Gone
<1>1. CASE q # p
  BY <1>1, OthersStay
<1>2. CASE q = p
  <2>1. pc[p] \in Gone => pc' = pc
    <3>1. RunStep(p) => pc[p] \notin Gone
      BY ProcsAssumption DEF RunStep, Enter, ReapClaim, Create, ReadOwner, Judge, CreateAfter,
         NoteRead, NoteWrite, Release, UnlinkOwn, Gone
    <3>2. TurnStep(p) => pc[p] \notin Gone \/ pc' = pc
      BY DEF TurnStep, SpawnChild, TurnEnds, ChildDies, Gone
    <3>3. ScanStep(p) => pc[p] \notin Gone
      BY DEF ScanStep, ScanLock, ScanClaim, ReapClaim, Judge, Gone
    <3>4. TakeStep(p) => pc[p] \notin Gone
      BY DEF TakeStep, ReapSame, ReapUnlink, ReapForTake, ReapClaim, CreateClaim,
             Verify, UnlinkDead, GiveBack, DropClaim, Gone
    <3>5. Crash(p) => pc[p] \notin Gone
      BY DEF Crash
    <3>6. QED
      BY <3>1, <3>2, <3>3, <3>4, <3>5 DEF ProcStep
  <2>2. QED
    BY <1>2, <2>1
<1>3. QED
  BY <1>1, <1>2

-----------------------------------------------------------------------------
(* Takers.                                                                 *)

\* A process becomes a taker by judging a lock whose owner is gone.
LEMMA TakerComesFromJudge ==
    ASSUME TypeInv, NEW p \in Procs, ProcStep(p), Taker(p)'
    PROVE  /\ judged'[p] = judged[p]
           /\ Taker(p) \/ (Judge(p) /\ pc'[p] = "claim")
<1> USE DEF files, reap, take, budget, history, Go, TypeInv, PlaceInv, DataOK, Taker, Taking,
            Reaping
<1>1. CASE RunStep(p)
  BY <1>1 DEF RunStep, Enter, ReapClaim, AfterReap, Create, ReadOwner, Judge, CreateAfter,
              NoteRead, NoteWrite, Release, UnlinkOwn
<1>2. CASE TurnStep(p)
  BY <1>2 DEF TurnStep, SpawnChild, TurnEnds, ChildDies
<1>3. CASE ScanStep(p)
  BY <1>3 DEF ScanStep, ScanLock, ScanClaim, ReapClaim, AfterReap, Judge
<1>4. CASE TakeStep(p)
  BY <1>4 DEF TakeStep, ReapSame, ReapUnlink, ReapForTake, ReapClaim, CreateClaim,
              Verify, UnlinkDead, GiveBack, DropClaim, AfterReap, ReapFails, AfterRefusal,
              AfterClaim
<1>5. CASE Crash(p)
  BY <1>5 DEF Crash
<1>6. QED
  BY <1>1, <1>2, <1>3, <1>4, <1>5 DEF ProcStep

LEMMA StepJudged ==
    ASSUME TypeInv, JudgedIsGone, NEW p \in Procs, ProcStep(p)
    PROVE  JudgedIsGone'
<1>1. SUFFICES ASSUME NEW q \in Procs, Taker(q)'
               PROVE  judged'[q] \in Runs /\ pc'[judged'[q]] \in Gone
  BY DEF JudgedIsGone
<1>2. judged'[q] \in Runs /\ pc[judged'[q]] \in Gone
  <2>1. CASE q # p
    <3>1. Taker(q) /\ judged'[q] = judged[q]
      BY <1>1, <2>1, OthersStay DEF Taker
    <3>2. QED
      BY <3>1 DEF JudgedIsGone
  <2>2. CASE q = p /\ Taker(p)
    BY <1>1, <2>2, TakerComesFromJudge DEF JudgedIsGone
  <2>3. CASE q = p /\ Judge(p) /\ pc'[p] = "claim"
    <3>1. judged[p] # NoFile /\ ~MayRun(judged[p])
      BY <2>3 DEF Judge, Go, TypeInv, PlaceInv
    <3>2. judged'[p] = judged[p] /\ judged[p] \in Runs
      BY <3>1, <2>3 DEF Judge, take, TypeInv, DataOK
    <3>3. QED
      BY <2>3, <3>1, <3>2 DEF MayRun
  <2>4. QED
    BY <1>1, <2>1, <2>2, <2>3, TakerComesFromJudge
<1>3. QED
  BY <1>2, GoneStays DEF Procs

-----------------------------------------------------------------------------
(* Claims.                                                                 *)

\* What was left behind stays on record.
LEMMA StraysGrow ==
    ASSUME NEW p \in Procs, ProcStep(p)
    PROVE  strays \subseteq strays'
<1> USE DEF history
<1>1. RunStep(p) => strays \subseteq strays'
  BY DEF RunStep, Enter, ReapClaim, Create, ReadOwner, Judge, CreateAfter,
         NoteRead, NoteWrite, Release, UnlinkOwn
<1>2. TurnStep(p) => strays \subseteq strays'
  BY DEF TurnStep, SpawnChild, TurnEnds, ChildDies
<1>3. ScanStep(p) => strays \subseteq strays'
  BY DEF ScanStep, ScanLock, ScanClaim, ReapClaim, Judge
<1>4. TakeStep(p) => strays \subseteq strays'
  BY DEF TakeStep, ReapSame, ReapUnlink, ReapForTake, ReapClaim, CreateClaim,
         Verify, UnlinkDead, GiveBack, DropClaim
<1>5. Crash(p) => strays \subseteq strays'
  BY DEF Crash
<1>6. QED
  BY <1>1, <1>2, <1>3, <1>4, <1>5 DEF ProcStep

\* A step that leaves the claim, by a process that is no cleaner and becomes none.
LEMMA QuietForClaims ==
    ASSUME TypeInv, Claims, NEW p \in Procs, ProcStep(p), claim' = claim, strays' = {},
           pc[p] \notin Claiming, pc'[p] \notin Claiming \cup Reaping
    PROVE  Claims'
<1>1. strays = {} /\ \A q \in Procs : q # p => pc'[q] = pc[q]
  BY StraysGrow, OthersStay
<1>2. claim # NoFile => claim \in Procs /\ claim # p
  BY <1>1 DEF Claims, ClaimIsLive, TypeInv, DataOK
<1>3. QED
  BY <1>1, <1>2 DEF Claims, ClaimIsLive, ReapIsLate, ClaimIsOwn

\* While nothing was left behind, no reap finds a dead claim.
LEMMA ReapFindsNone ==
    ASSUME TypeInv, Claims, NEW p \in Procs, ProcStep(p), strays' = {},
           NEW from, NEW caller, ReapClaim(p, from, caller),
           from \in {"enter", "reapTake", "scanClaim"}, caller \in {"enter", "take", "scan"}
    PROVE  Claims'
<1>1. claim # NoFile => MayRun(claim)
  BY StraysGrow DEF Claims, ClaimIsLive, MayRun, Claiming, Gone
<1>2. pc'[p] \in {"create", "claimAgain", "scanOwner", "end"}
  BY <1>1 DEF ReapClaim, Go, AfterReap, TypeInv, PlaceInv
<1>3. claim' = claim /\ pc[p] = from
  BY DEF ReapClaim, files
<1>4. QED
  BY <1>2, <1>3, QuietForClaims DEF Claiming, Reaping

LEMMA StepClaims ==
    ASSUME TypeInv, Claims, NEW p \in Procs, ProcStep(p)
    PROVE  Claims'
<1>1. CASE strays' # {}
  BY <1>1 DEF Claims, ClaimIsLive, ReapIsLate, ClaimIsOwn
<1>2. CASE strays' = {}
  <2> USE DEF files, reap, take, budget, history, Go, TypeInv, PlaceInv
  <2>1. /\ strays = {} /\ pc[p] \notin Reaping
        /\ \A q \in Procs : q # p => pc'[q] = pc[q]
        /\ \A q \in Procs : pc[q] \in Claiming => claim = q
        /\ claim # NoFile => claim \in Procs /\ pc[claim] \in Claiming
    BY <1>2, StraysGrow, OthersStay DEF Claims, ClaimIsLive, ReapIsLate, ClaimIsOwn, DataOK
  <2>2. CASE RunStep(p)
    <3>1. CASE Enter(p)
      BY <1>2, <3>1, ReapFindsNone DEF Enter
    <3>2. CASE Create(p) \/ ReadOwner(p) \/ Judge(p) \/ CreateAfter(p) \/ NoteRead(p)
               \/ NoteWrite(p) \/ Release(p) \/ UnlinkOwn(p)
      <4>1. claim' = claim /\ pc[p] \notin Claiming /\ pc'[p] \notin Claiming \cup Reaping
        BY <3>2 DEF Create, ReadOwner, Judge, CreateAfter, NoteRead, NoteWrite, Release,
                    UnlinkOwn, Claiming, Reaping
      <4>2. QED
        BY <1>2, <4>1, QuietForClaims
    <3>3. QED
      BY <2>2, <3>1, <3>2 DEF RunStep
  <2>3. CASE TurnStep(p)
    <3>1. CASE SpawnChild(p) \/ TurnEnds(p)
      BY <1>2, <3>1, QuietForClaims DEF SpawnChild, TurnEnds, Claiming, Reaping
    <3>2. CASE ChildDies(p)
      BY <1>2, <3>2, QuietForClaims DEF ChildDies, Claiming, Reaping, Gone
    <3>3. QED
      BY <2>3, <3>1, <3>2 DEF TurnStep
  <2>4. CASE ScanStep(p)
    <3>1. CASE ScanClaim(p)
      BY <1>2, <3>1, ReapFindsNone DEF ScanClaim
    <3>2. CASE ScanLock(p) \/ Judge(p)
      BY <1>2, <3>2, QuietForClaims DEF ScanLock, Judge, Claiming, Reaping
    <3>3. QED
      BY <2>4, <3>1, <3>2 DEF ScanStep
  <2>5. CASE TakeStep(p)
    <3>1. ~ReapSame(p) /\ ~ReapUnlink(p)
      BY <2>1 DEF ReapSame, ReapUnlink, Reaping
    <3>2. CASE ReapForTake(p)
      BY <1>2, <3>2, ReapFindsNone DEF ReapForTake
    <3>3. CASE CreateClaim(p)
      <4>1. CASE claim = NoFile
        <5>1. pc'[p] = "verify" /\ claim' = p
          BY <3>3, <4>1 DEF CreateClaim
        <5>2. \A q \in Procs : pc[q] \notin Claiming
          BY <2>1, <4>1, NoFileAssumption
        <5>3. QED
          BY <2>1, <5>1, <5>2
             DEF Claims, ClaimIsLive, ReapIsLate, ClaimIsOwn, Claiming, Reaping
      <4>2. CASE claim # NoFile
        BY <1>2, <3>3, <4>2, QuietForClaims DEF CreateClaim, Claiming, Reaping
      <4>3. QED
        BY <4>1, <4>2
    <3>4. CASE Verify(p) \/ UnlinkDead(p)
      <4>1. pc[p] \in Claiming /\ pc'[p] \in Claiming /\ claim' = claim
        BY <3>4 DEF Verify, UnlinkDead, AfterRefusal, Claiming
      <4>2. QED
        BY <2>1, <4>1
           DEF Claims, ClaimIsLive, ReapIsLate, ClaimIsOwn, Claiming, Reaping
    <3>5. CASE GiveBack(p)
      <4>1. claim = p
        BY <2>1, <3>5 DEF GiveBack, Claiming
      <4>2. pc'[p] = "dropClaim" /\ claim' = claim
        BY <1>2, <3>5, <4>1 DEF GiveBack
      <4>3. QED
        BY <2>1, <4>1, <4>2
           DEF Claims, ClaimIsLive, ReapIsLate, ClaimIsOwn, Claiming, Reaping
    <3>6. CASE DropClaim(p)
      <4>1. claim = p /\ claim' = NoFile /\ pc'[p] \notin Claiming \cup Reaping
        BY <2>1, <3>6 DEF DropClaim, AfterClaim, Claiming, Reaping
      <4>2. QED
        BY <2>1, <4>1 DEF Claims, ClaimIsLive, ReapIsLate, ClaimIsOwn
    <3>7. QED
      BY <2>5, <3>1, <3>2, <3>3, <3>4, <3>5, <3>6 DEF TakeStep
  <2>6. CASE Crash(p)
    <3>1. claim # p /\ claim' = claim /\ pc'[p] = "dead"
      BY <1>2, <2>6 DEF Crash
    <3>2. QED
      BY <2>1, <3>1 DEF Claims, ClaimIsLive, ReapIsLate, ClaimIsOwn, Claiming, Reaping
  <2>7. QED
    BY <2>2, <2>3, <2>4, <2>5, <2>6 DEF ProcStep
<1>3. QED
  BY <1>1, <1>2

-----------------------------------------------------------------------------
(* Drivers and their lock.                                                 *)

Base == TypeInv /\ JudgedIsGone /\ Claims

\* A step that leaves the lock, makes nobody a driver and nobody a remover.
LEMMA QuietForOwned ==
    ASSUME TypeInv, Owned, NEW p \in Procs, ProcStep(p), lock' = lock, robbed' = robbed,
           pc'[p] \in Driving => pc[p] \in Driving, pc'[p] # "unlinkLock"
    PROVE  Owned'
<1>1. \A q \in Procs : q # p => pc'[q] = pc[q] /\ judged'[q] = judged[q]
  BY OthersStay
<1>2. DriverHasLock'
  BY <1>1 DEF Owned, DriverHasLock, Driver, Procs
<1>3. VerifiedStays'
  BY <1>1, StraysGrow DEF Owned, VerifiedStays
<1>4. QED
  BY <1>2, <1>3, StraysGrow DEF Owned, RobberyNeedsStrayClaim

\* The create of a lock where there is none.
LEMMA CreateForOwned ==
    ASSUME Base, Owned, NEW p \in Runs, ProcStep(p), LockFree, CreateLock(p),
           robbed' = robbed, pc'[p] = "held"
    PROVE  Owned'
<1>1. \A q \in Procs : q # p => pc'[q] = pc[q] /\ judged'[q] = judged[q]
  BY OthersStay DEF Base, Procs
<1>2. DriverHasLock'
  BY <1>1, NoFileAssumption
     DEF Owned, DriverHasLock, Driver, LockFree, CreateLock, Procs
<1>3. strays = {} => \A q \in Procs : pc[q] # "unlinkLock"
  BY NoFileAssumption
     DEF Base, Owned, VerifiedStays, JudgedIsGone, Taker, Taking, LockFree, Procs
<1>4. VerifiedStays'
  BY <1>1, <1>3, StraysGrow DEF VerifiedStays, Procs
<1>5. QED
  BY <1>2, <1>4, StraysGrow DEF Owned, RobberyNeedsStrayClaim, Procs

\* An unlink by a process that drives nothing afterwards robs whom it unlocks.
LEMMA UnlinkForDrivers ==
    ASSUME TypeInv, DriverHasLock, NEW p \in Procs, ProcStep(p), UnlinkLock(p),
           pc'[p] \notin Driving
    PROVE  DriverHasLock'
<1>1. \A q \in Procs : q # p => pc'[q] = pc[q]
  BY OthersStay
<1>2. SUFFICES ASSUME NEW r \in Runs, Driver(r)' PROVE r \in robbed'
  BY DEF DriverHasLock
<1>3. r # p /\ Driver(r)
  BY <1>1, <1>2 DEF Driver, Procs
<1>4. QED
  BY <1>3 DEF DriverHasLock, UnlinkLock

\* While nothing was left behind a driver has its lock, and nobody removes it.
LEMMA DriverIsSafe ==
    ASSUME Base, Owned, strays = {}, NEW r \in Runs, Driver(r)
    PROVE  lock = r /\ robbed = {} /\ \A q \in Procs : pc[q] # "unlinkLock"
<1>1. robbed = {} /\ lock = r
  BY DEF Owned, DriverHasLock, RobberyNeedsStrayClaim
<1>2. ASSUME NEW q \in Procs, pc[q] = "unlinkLock" PROVE FALSE
  <2>1. lock = judged[q] /\ pc[judged[q]] \in Gone
    BY <1>2 DEF Base, Owned, VerifiedStays, JudgedIsGone, Taker, Taking
  <2>2. QED
    BY <1>1, <2>1 DEF Driver, Driving, Gone
<1>3. QED
  BY <1>1, <1>2

LEMMA StepOwned ==
    ASSUME Base, Owned, NEW p \in Procs, ProcStep(p)
    PROVE  Owned'
<1> USE DEF files, reap, take, budget, history, Go, TypeInv, PlaceInv, Base
<1>1. /\ strays \subseteq strays'
      /\ \A q \in Procs : q # p => pc'[q] = pc[q] /\ judged'[q] = judged[q]
  BY StraysGrow, OthersStay
<1>2. CASE p \in Runs /\ RunStep(p)
  <2>1. CASE Enter(p) \/ ReadOwner(p) \/ Judge(p) \/ NoteRead(p) \/ Release(p)
    <3>1. /\ lock' = lock /\ robbed' = robbed /\ pc'[p] # "unlinkLock"
          /\ pc'[p] \in Driving => pc[p] \in Driving
      BY <2>1 DEF Enter, ReapClaim, AfterReap, ReadOwner, Judge, NoteRead, Release, Driving
    <3>2. QED
      BY <3>1, QuietForOwned
  <2>2. CASE Create(p)
    <3>1. CASE LockFree
      BY <1>2, <2>2, <3>1, CreateForOwned DEF Create
    <3>2. CASE ~LockFree
      BY <2>2, <3>2, QuietForOwned DEF Create, Driving
    <3>3. QED
      BY <3>1, <3>2
  <2>3. CASE CreateAfter(p)
    <3>1. CASE LockFree
      BY <1>2, <2>3, <3>1, CreateForOwned DEF CreateAfter
    <3>2. CASE ~LockFree
      BY <2>3, <3>2, QuietForOwned DEF CreateAfter, Driving
    <3>3. QED
      BY <3>1, <3>2
  <2>4. CASE NoteWrite(p)
    <3>1. Driver(p) /\ pc'[p] = "running" /\ strays' = strays
      BY <2>4 DEF NoteWrite, Driver, Driving
    <3>2. CASE UNCHANGED <<lock, hint, noted, early, robbed>>
      BY <3>1, <3>2, QuietForOwned DEF Driver
    <3>3. CASE lock' = p /\ robbed' = robbed \cup {q \in Runs \ {p} : q = lock /\ Driver(q)}
      <4>1. DriverHasLock'
        BY <1>1, <3>1, <3>3 DEF Owned, DriverHasLock, Driver, Procs
      <4>2. strays = {} => robbed' = {} /\ \A q \in Procs : pc[q] # "unlinkLock"
        BY <1>2, <3>1, <3>3, DriverIsSafe
      <4>3. QED
        BY <1>1, <3>1, <4>1, <4>2 DEF Owned, RobberyNeedsStrayClaim, VerifiedStays
    <3>4. QED
      BY <2>4, <3>2, <3>3 DEF NoteWrite
  <2>5. CASE UnlinkOwn(p)
    <3>1. Driver(p) /\ pc'[p] = "end" /\ strays' = strays
      BY <2>5 DEF UnlinkOwn, Driver, Driving
    <3>2. CASE UNCHANGED <<lock, hint, robbed>>
      BY <3>1, <3>2, QuietForOwned DEF Driving
    <3>3. CASE UnlinkLock(p)
      <4>1. DriverHasLock'
        BY <3>1, <3>3, UnlinkForDrivers DEF Owned, Driving
      <4>2. strays = {} => robbed' = {} /\ \A q \in Procs : pc[q] # "unlinkLock"
        BY <1>2, <3>1, <3>3, DriverIsSafe DEF UnlinkLock
      <4>3. QED
        BY <1>1, <3>1, <4>1, <4>2 DEF Owned, RobberyNeedsStrayClaim, VerifiedStays
    <3>4. QED
      BY <2>5, <3>2, <3>3 DEF UnlinkOwn
  <2>6. QED
    BY <1>2, <2>1, <2>2, <2>3, <2>4, <2>5 DEF RunStep
<1>3. CASE TurnStep(p)
  <2>1. /\ lock' = lock /\ robbed' = robbed /\ pc'[p] # "unlinkLock"
        /\ pc'[p] \in Driving => pc[p] \in Driving
    BY <1>3 DEF TurnStep, SpawnChild, TurnEnds, ChildDies, Driving, Gone
  <2>2. QED
    BY <2>1, QuietForOwned
<1>4. CASE ScanStep(p)
  <2>1. /\ lock' = lock /\ robbed' = robbed /\ pc'[p] # "unlinkLock"
        /\ pc'[p] \notin Driving
    BY <1>4 DEF ScanStep, ScanLock, ScanClaim, ReapClaim, AfterReap, Judge, Driving
  <2>2. QED
    BY <2>1, QuietForOwned
<1>5. CASE TakeStep(p)
  <2>1. CASE ReapSame(p) \/ ReapUnlink(p) \/ ReapForTake(p) \/ CreateClaim(p)
             \/ GiveBack(p) \/ DropClaim(p)
    <3>1. back[p] \in {"enter", "take", "scan"}
      BY DEF DataOK
    <3>2. /\ lock' = lock /\ robbed' = robbed /\ pc'[p] # "unlinkLock"
          /\ pc'[p] \notin Driving
      BY <2>1, <3>1
         DEF ReapSame, ReapUnlink, ReapForTake, ReapClaim, AfterReap, ReapFails,
             CreateClaim, GiveBack, DropClaim, AfterClaim, Driving
    <3>3. QED
      BY <3>2, QuietForOwned
  <2>2. CASE Verify(p)
    <3>1. CASE Verified(p)
      <4>1. pc'[p] = "unlinkLock" /\ lock' = judged'[p] /\ lock' = lock
            /\ robbed' = robbed /\ strays' = strays
        BY <2>2, <3>1 DEF Verify, Verified
      <4>2. DriverHasLock'
        BY <1>1, <4>1 DEF Owned, DriverHasLock, Driver, Driving, Procs
      <4>3. QED
        BY <1>1, <4>1, <4>2 DEF Owned, RobberyNeedsStrayClaim, VerifiedStays
    <3>2. CASE ~Verified(p)
      BY <2>2, <3>2, QuietForOwned DEF Verify, AfterRefusal, Driving
    <3>3. QED
      BY <3>1, <3>2
  <2>3. CASE UnlinkDead(p)
    <3>1. pc[p] = "unlinkLock" /\ pc'[p] = "giveBack" /\ strays' = strays
      BY <2>3 DEF UnlinkDead
    <3>2. CASE UNCHANGED <<lock, hint, robbed, removed>>
      BY <3>1, <3>2, QuietForOwned DEF Driving
    <3>3. CASE UnlinkLock(p)
      <4>1. DriverHasLock'
        BY <3>1, <3>3, UnlinkForDrivers DEF Owned, Driving
      <4>2. strays = {} => pc[lock] \in Gone /\ robbed = {}
        BY <3>1
           DEF Owned, VerifiedStays, JudgedIsGone, Taker, Taking, RobberyNeedsStrayClaim
      <4>3. strays = {} => robbed' = {}
        BY <3>3, <4>2 DEF UnlinkLock, Driver, Driving, Gone
      <4>4. strays = {} => \A q \in Procs : q # p => pc[q] # "unlinkLock"
        BY <3>1 DEF Claims, ClaimIsOwn, Claiming
      <4>5. QED
        BY <1>1, <3>1, <4>1, <4>3, <4>4 DEF Owned, RobberyNeedsStrayClaim, VerifiedStays
    <3>4. QED
      BY <2>3, <3>2, <3>3 DEF UnlinkDead
  <2>4. QED
    BY <1>5, <2>1, <2>2, <2>3 DEF TakeStep
<1>6. CASE Crash(p)
  BY <1>6, QuietForOwned DEF Crash, Driving
<1>7. QED
  BY <1>2, <1>3, <1>4, <1>5, <1>6 DEF ProcStep

-----------------------------------------------------------------------------
(* Children that were noted.                                               *)

\* Where a run is once it noted its child, and when its child is over.
LEMMA StepPast ==
    ASSUME TypeInv, NotedIsPast, EndedIsOver, NEW p \in Procs, ProcStep(p)
    PROVE  /\ NotedIsPast' /\ EndedIsOver'
           /\ \A q \in noted : child'[q] = "live" => child[q] = "live"
<1> USE ProcsAssumption
    DEF files, reap, take, budget, history, Go, TypeInv, PlaceInv, DataOK, Procs
<1>1. \A q \in Procs : q # p => pc'[q] = pc[q]
  BY OthersStay
<1>2. CASE p \in Runs /\ RunStep(p)
  <2>1. child' = child /\ noted' \subseteq Runs
    BY <1>2 DEF RunStep, Enter, ReapClaim, Create, ReadOwner, Judge, CreateAfter,
                NoteRead, NoteWrite, Release, UnlinkOwn
  <2>2. p \in noted' => pc'[p] \in {"running", "release", "unlinkOwn"} \cup Gone
    BY <1>2 DEF RunStep, Enter, ReapClaim, Create, ReadOwner, Judge, CreateAfter,
                NoteRead, NoteWrite, Release, UnlinkOwn, NotedIsPast, Gone
  <2>3. \A q \in noted' : q # p => q \in noted
    BY <1>2 DEF RunStep, Enter, ReapClaim, Create, ReadOwner, Judge, CreateAfter,
                NoteRead, NoteWrite, Release, UnlinkOwn
  <2>4. pc'[p] \in {"release", "unlinkOwn"} => pc[p] \in {"release", "unlinkOwn"}
    BY <1>2 DEF RunStep, Enter, ReapClaim, AfterReap, Create, ReadOwner, Judge, CreateAfter,
                NoteRead, NoteWrite, Release, UnlinkOwn
  <2>5. QED
    BY <1>1, <2>1, <2>2, <2>3, <2>4 DEF NotedIsPast, EndedIsOver
<1>3. CASE p \in Runs /\ TurnStep(p)
  <2>1. CASE SpawnChild(p)
    BY <1>1, <1>3, <2>1 DEF SpawnChild, NotedIsPast, EndedIsOver, Gone
  <2>2. CASE TurnEnds(p)
    BY <1>1, <1>3, <2>2 DEF TurnEnds, NotedIsPast, EndedIsOver, Gone
  <2>3. CASE ChildDies(p)
    BY <1>1, <1>3, <2>3 DEF ChildDies, NotedIsPast, EndedIsOver
  <2>4. QED
    BY <1>3, <2>1, <2>2, <2>3 DEF TurnStep
<1>4. CASE (p \in Scans /\ ScanStep(p)) \/ TakeStep(p) \/ Crash(p)
  <2>1. child' = child /\ noted' = noted
    BY <1>4 DEF ScanStep, ScanLock, ScanClaim, ReapClaim, Judge, TakeStep, ReapSame,
                ReapUnlink, ReapForTake, CreateClaim, Verify, UnlinkDead, GiveBack,
                DropClaim, Crash
  <2>2. CASE Crash(p)
    BY <1>1, <2>1, <2>2 DEF Crash, NotedIsPast, EndedIsOver, Gone
  <2>3. CASE ScanStep(p) \/ TakeStep(p)
    <3>1. back[p] \in {"enter", "take", "scan"}
      OBVIOUS
    <3>2. pc[p] \notin {"running", "release", "unlinkOwn"} \cup Gone
          /\ pc'[p] \notin {"release", "unlinkOwn"}
      BY <2>3, <3>1
         DEF ScanStep, ScanLock, ScanClaim, ReapClaim, Judge, TakeStep, ReapSame,
             ReapUnlink, ReapForTake, CreateClaim, Verify, UnlinkDead, GiveBack,
             DropClaim, AfterReap, ReapFails, AfterClaim, AfterRefusal, Gone
    <3>3. QED
      BY <1>1, <2>1, <3>2 DEF NotedIsPast, EndedIsOver
  <2>4. QED
    BY <1>4, <2>2, <2>3
<1>5. QED
  BY <1>2, <1>3, <1>4 DEF ProcStep

\* A run becomes one of Known by a note on a lock that nobody has judged.
LEMMA KnownGrows ==
    ASSUME TypeInv, NEW p \in Procs, ProcStep(p), NEW q \in Known', q \notin Known
    PROVE  /\ q = p /\ lock' = q /\ hint' = TRUE
           /\ judged' = judged /\ \A s \in Procs : judged[s] # q
<1> USE DEF history, Known
<1>1. CASE RunStep(p)
  <2>1. NoteWrite(p)
    BY <1>1 DEF RunStep, Enter, ReapClaim, Create, ReadOwner, Judge, CreateAfter,
                NoteRead, NoteWrite, Release, UnlinkOwn
  <2>2. QED
    BY <2>1 DEF NoteWrite, take
<1>2. ~TurnStep(p) /\ ~ScanStep(p)
  BY DEF TurnStep, SpawnChild, TurnEnds, ChildDies, ScanStep, ScanLock, ScanClaim,
         ReapClaim, Judge
<1>3. ~TakeStep(p) /\ ~Crash(p)
  BY DEF TakeStep, ReapSame, ReapUnlink, ReapForTake, ReapClaim, CreateClaim,
         Verify, UnlinkDead, GiveBack, DropClaim, Crash
<1>4. QED
  BY <1>1, <1>2, <1>3 DEF ProcStep

\* While the child of one of Known lives, its noted lock stays.
LEMMA StepNote ==
    ASSUME Base, Owned, Kept, NEW p \in Procs, ProcStep(p), strays = {},
           NEW q \in Known, child[q] = "live"
    PROVE  lock' = q /\ hint' = TRUE
<1>1. lock = q /\ hint = TRUE /\ q \in Runs /\ q # NoFile
  BY NoFileAssumption DEF Kept, NoteStays, Known, Base, TypeInv, DataOK, Procs
<1> USE DEF files
<1>2. CASE p \in Runs /\ RunStep(p)
  <2>1. CASE NoteWrite(p)
    <3>1. lock = p
      BY <1>2, <2>1, DriverIsSafe DEF NoteWrite, Driver, Driving
    <3>2. QED
      BY <1>1, <2>1, <3>1 DEF NoteWrite
  <2>2. CASE UnlinkOwn(p)
    <3>1. lock = p
      BY <1>2, <2>2, DriverIsSafe DEF UnlinkOwn, Driver, Driving
    <3>2. QED
      BY <1>1, <1>2, <2>2, <3>1 DEF UnlinkOwn, Kept, EndedIsOver
  <2>3. CASE Create(p) \/ CreateAfter(p)
    BY <1>1, <2>3 DEF Create, CreateAfter, LockFree
  <2>4. CASE Enter(p) \/ ReadOwner(p) \/ Judge(p) \/ NoteRead(p) \/ Release(p)
    BY <1>1, <2>4 DEF Enter, ReapClaim, ReadOwner, Judge, NoteRead, Release
  <2>5. QED
    BY <1>2, <2>1, <2>2, <2>3, <2>4 DEF RunStep
<1>3. CASE TurnStep(p)
  BY <1>1, <1>3 DEF TurnStep, SpawnChild, TurnEnds, ChildDies
<1>4. CASE ScanStep(p)
  BY <1>1, <1>4 DEF ScanStep, ScanLock, ScanClaim, ReapClaim, Judge
<1>5. CASE TakeStep(p)
  <2>1. CASE UnlinkDead(p)
    <3>1. pc[p] = "unlinkLock" /\ lock = judged[p] /\ Taker(p)
      BY <2>1 DEF UnlinkDead, Owned, VerifiedStays, Taker, Taking
    <3>2. QED
      BY <1>1, <3>1 DEF Kept, TakenIsOver
  <2>2. CASE ~UnlinkDead(p)
    BY <1>1, <1>5, <2>2
       DEF TakeStep, ReapSame, ReapUnlink, ReapForTake, ReapClaim, CreateClaim,
           Verify, GiveBack, DropClaim
  <2>3. QED
    BY <2>1, <2>2
<1>6. CASE Crash(p)
  BY <1>1, <1>6 DEF Crash
<1>7. QED
  BY <1>2, <1>3, <1>4, <1>5, <1>6 DEF ProcStep

\* A process reads the note with the lock.
LEMMA ReadsTheHint ==
    ASSUME TypeInv, NEW p \in Procs, ProcStep(p)
    PROVE  \/ judged'[p] = judged[p] /\ hinted'[p] = hinted[p]
           \/ judged'[p] = lock /\ hinted'[p] = hint
<1> USE DEF take, TypeInv, DataOK
<1>1. RunStep(p) => (judged' = judged /\ hinted' = hinted) \/ ReadOwner(p)
  BY DEF RunStep, Enter, ReapClaim, Create, Judge, CreateAfter, NoteRead, NoteWrite,
         Release, UnlinkOwn
<1>2. ReadOwner(p) => \/ judged' = judged /\ hinted' = hinted
                      \/ judged'[p] = lock /\ hinted'[p] = hint
  BY DEF ReadOwner
<1>3. TurnStep(p) => judged' = judged /\ hinted' = hinted
  BY DEF TurnStep, SpawnChild, TurnEnds, ChildDies
<1>4. ScanStep(p) => \/ judged' = judged /\ hinted' = hinted
                     \/ judged'[p] = lock /\ hinted'[p] = hint
  BY DEF ScanStep, ScanLock, ScanClaim, ReapClaim, Judge
<1>5. TakeStep(p) \/ Crash(p) => judged' = judged /\ hinted' = hinted
  BY DEF TakeStep, ReapSame, ReapUnlink, ReapForTake, ReapClaim, CreateClaim,
         Verify, UnlinkDead, GiveBack, DropClaim, Crash
<1>6. QED
  BY <1>1, <1>2, <1>3, <1>4, <1>5 DEF ProcStep

LEMMA StepKept ==
    ASSUME Base, Owned, Kept, NEW p \in Procs, ProcStep(p)
    PROVE  Kept'
<1>1. /\ NotedIsPast' /\ EndedIsOver'
      /\ \A q \in noted : child'[q] = "live" => child[q] = "live"
  BY StepPast DEF Base, Kept
<1>2. CASE strays' # {}
  BY <1>1, <1>2 DEF Kept, NoteStays, HintIsRead, TakenIsOver
<1>3. CASE strays' = {}
  <2>1. strays = {} /\ \A q \in Procs : q # p => /\ pc'[q] = pc[q] /\ judged'[q] = judged[q]
                                               /\ hinted'[q] = hinted[q] /\ back'[q] = back[q]
    BY <1>3, StraysGrow, OthersStay DEF Base
  <2>2. ASSUME NEW q \in Known, child'[q] = "live"
        PROVE  /\ lock = q /\ hint = TRUE /\ lock' = q /\ hint' = TRUE
               /\ child[q] = "live"
    <3>1. child[q] = "live"
      BY <1>1, <2>2 DEF Known
    <3>2. QED
      BY <2>1, <3>1, StepNote DEF Kept, NoteStays
  <2>3. NoteStays'
    BY <2>2, KnownGrows DEF NoteStays, Base
  <2>4. ASSUME NEW s \in Procs, NEW q \in Known', judged'[s] = q, child'[q] = "live"
        PROVE  hinted'[s] = TRUE
    <3>1. q \in Known
      BY <2>4, KnownGrows DEF Base
    <3>2. lock = q /\ hint = TRUE /\ child[q] = "live"
      BY <2>2, <2>4, <3>1
    <3>3. CASE judged'[s] = judged[s] /\ hinted'[s] = hinted[s]
      BY <2>1, <2>4, <3>1, <3>2, <3>3 DEF Kept, HintIsRead
    <3>4. CASE s = p /\ hinted'[p] = hint
      BY <3>2, <3>4
    <3>5. QED
      BY <2>1, <3>3, <3>4, ReadsTheHint DEF Base
  <2>5. ASSUME NEW s \in Procs, Taker(s)', judged'[s] \in Known', child'[judged'[s]] = "live"
        PROVE  FALSE
    <3> DEFINE q == judged'[s]
    <3>1. q \in Known
      BY <2>5, KnownGrows DEF Base
    <3>2. child[q] = "live"
      BY <2>2, <2>5, <3>1
    <3>3. CASE Taker(s) /\ judged'[s] = judged[s]
      BY <2>1, <3>1, <3>2, <3>3 DEF Kept, TakenIsOver
    <3>4. CASE s = p /\ judged'[p] = judged[p] /\ Judge(p) /\ pc'[p] = "claim"
      <4>1. ~hinted[p]
        BY <3>2, <3>4 DEF Judge, Go, ChildAllows, Base, TypeInv, PlaceInv
      <4>2. hinted[p] = TRUE
        BY <2>1, <3>1, <3>2, <3>4 DEF Kept, HintIsRead
      <4>3. QED
        BY <4>1, <4>2
    <3>5. s = p \/ (Taker(s) /\ judged'[s] = judged[s])
      BY <2>1, <2>5 DEF Taker
    <3>6. QED
      BY <2>5, <3>3, <3>4, <3>5, TakerComesFromJudge DEF Base
  <2>6. QED
    BY <1>1, <2>3, <2>4, <2>5 DEF Kept, HintIsRead, TakenIsOver
<1>4. QED
  BY <1>2, <1>3

-----------------------------------------------------------------------------
(* The theorems.                                                           *)

IInv == Base /\ Owned /\ Kept

LEMMA InitInv == Init => IInv
<1> SUFFICES ASSUME Init PROVE IInv
  OBVIOUS
<1>1. TypeInv
  BY InitType
<1>2. /\ \A p \in Procs : pc[p] \in {"enter", "scan"}
      /\ lock = NoFile /\ claim = NoFile /\ noted = {} /\ robbed = {} /\ strays = {}
  BY DEF Init
<1>3. JudgedIsGone /\ Claims
  BY <1>2 DEF JudgedIsGone, Taker, Taking, Reaping, Claims, ClaimIsLive, ReapIsLate,
              ClaimIsOwn, Claiming
<1>4. Owned
  BY <1>2 DEF Owned, DriverHasLock, Driver, Driving, RobberyNeedsStrayClaim, VerifiedStays,
              Procs
<1>5. Kept
  BY <1>2 DEF Kept, NotedIsPast, EndedIsOver, NoteStays, HintIsRead, TakenIsOver, Known,
              Taker, Taking, Reaping, Procs
<1>6. QED
  BY <1>1, <1>3, <1>4, <1>5 DEF IInv, Base

LEMMA StepInv == IInv /\ [Next]_vars => IInv'
<1> SUFFICES ASSUME IInv, [Next]_vars PROVE IInv'
  OBVIOUS
<1>1. CASE UNCHANGED vars
  <2>1. TypeInv'
    BY <1>1, StepType DEF IInv, Base
  <2>2. JudgedIsGone' /\ Claims' /\ Owned'
    BY <1>1 DEF vars, files, reap, take, budget, history, IInv, Base, JudgedIsGone, Taker,
                Claims, ClaimIsLive, ReapIsLate, ClaimIsOwn, Owned, DriverHasLock, Driver,
                RobberyNeedsStrayClaim, VerifiedStays
  <2>3. Kept'
    BY <1>1 DEF vars, files, reap, take, budget, history, IInv, Kept, NotedIsPast,
                EndedIsOver, NoteStays, HintIsRead, TakenIsOver, Known, Taker
  <2>4. QED
    BY <2>1, <2>2, <2>3 DEF IInv, Base
<1>2. CASE Next
  <2>1. PICK p \in Procs : ProcStep(p)
    BY <1>2, StepIsOfProc
  <2>2. TypeInv' /\ JudgedIsGone' /\ Claims'
    BY <2>1, StepOfProcType, StepJudged, StepClaims DEF IInv, Base
  <2>3. Owned' /\ Kept'
    BY <2>1, StepOwned, StepKept DEF IInv
  <2>4. QED
    BY <2>2, <2>3 DEF IInv, Base
<1>3. QED
  BY <1>1, <1>2

LEMMA InvHolds == Spec => []IInv
BY InitInv, StepInv, PTL DEF Spec

\* A run that drives the thread has its lock, but for a robbery: no release,
\* note, scan or takeover of another process touches it.
THEOREM DriverKeepsLock == Spec => []DriverHasLock
<1>1. IInv => DriverHasLock
  BY DEF IInv, Owned
<1>2. QED
  BY InvHolds, <1>1, PTL

\* Only a cleaner that went and left its claim behind lets a run be robbed.
THEOREM RobberyByStrayClaimOnly == Spec => []RobberyNeedsStrayClaim
<1>1. IInv => RobberyNeedsStrayClaim
  BY DEF IInv, Owned
<1>2. QED
  BY InvHolds, <1>1, PTL

\* "A session is driven by one run at a time" (runClaudeTurn), unconditional on
\* crashes and failures of the runs, while every cleaner gives its claim back.
THEOREM OneDriverWhileClaimsReturn == Spec => [](strays = {} => OneDriver)
<1>1. IInv => (strays = {} => OneDriver)
  BY DriverIsSafe DEF IInv, OneDriver
<1>2. QED
  BY InvHolds, <1>1, PTL

\* A dead run's noted child keeps the thread from the next run.
THEOREM NotedChildIsRespected == Spec => []NotedChildKeepsThread
<1>1. IInv => NotedChildKeepsThread
  <2> SUFFICES ASSUME IInv, strays = {}, NEW q \in noted \ early, NEW r \in Runs,
                      child[q] = "live", r # q, Driver(r)
               PROVE  FALSE
    BY DEF NotedChildKeepsThread
  <2>1. lock = q
    BY DEF IInv, Kept, NoteStays, Known
  <2>2. lock = r
    BY DriverIsSafe DEF IInv
  <2>3. QED
    BY <2>1, <2>2
<1>2. QED
  BY InvHolds, <1>1, PTL

-----------------------------------------------------------------------------
(* Reservations implement ThreadPossession.                                *)

\* A step is about the holding of one run, itself.
LEMMA OthersHold ==
    ASSUME TypeInv, NEW p \in Procs, ProcStep(p), NEW r \in Runs, r # p
    PROVE  r \in Holders' <=> r \in Holders
<1> USE DEF files, reap, take, budget, history
<1>1. pc'[r] = pc[r]
  BY OthersStay DEF Procs
<1>2. child'[r] = child[r]
  <2>1. RunStep(p) => child' = child
    BY DEF RunStep, Enter, ReapClaim, Create, ReadOwner, Judge, CreateAfter,
           NoteRead, NoteWrite, Release, UnlinkOwn
  <2>2. TurnStep(p) => child'[r] = child[r]
    BY DEF TurnStep, SpawnChild, TurnEnds, ChildDies, TypeInv, DataOK
  <2>3. ScanStep(p) \/ TakeStep(p) \/ Crash(p) => child' = child
    BY DEF ScanStep, ScanLock, ScanClaim, ReapClaim, Judge, TakeStep, ReapSame, ReapUnlink,
           ReapForTake, CreateClaim, Verify, UnlinkDead, GiveBack, DropClaim, Crash
  <2>4. QED
    BY <2>1, <2>2, <2>3 DEF ProcStep
<1>3. r \in noted' \ early' <=> r \in noted \ early
  <2>1. RunStep(p) => (r \in noted' \ early' <=> r \in noted \ early)
    BY DEF RunStep, Enter, ReapClaim, Create, ReadOwner, Judge, CreateAfter,
           NoteRead, NoteWrite, Release, UnlinkOwn
  <2>2. TurnStep(p) => noted' = noted /\ early' = early
    BY DEF TurnStep, SpawnChild, TurnEnds, ChildDies
  <2>3. ScanStep(p) \/ TakeStep(p) \/ Crash(p) => noted' = noted /\ early' = early
    BY DEF ScanStep, ScanLock, ScanClaim, ReapClaim, Judge, TakeStep, ReapSame, ReapUnlink,
           ReapForTake, CreateClaim, Verify, UnlinkDead, GiveBack, DropClaim, Crash
  <2>4. QED
    BY <2>1, <2>2, <2>3 DEF ProcStep
<1>4. QED
  BY <1>1, <1>2, <1>3 DEF Holders, Driver

\* Whoever comes to hold the thread drives it.
LEMMA HolderDrives ==
    ASSUME IInv, NEW p \in Runs, ProcStep(p), p \in Holders', p \notin Holders
    PROVE  Driver(p)'
<1> USE DEF files, reap, take, budget, history
<1>1. SUFFICES ASSUME ~Driver(p)', p \in noted' \ early', child'[p] = "live" PROVE FALSE
  BY DEF Holders, Driver
<1>2. ~Driver(p) /\ ~(p \in noted \ early /\ child[p] = "live")
  BY DEF Holders
<1>3. (p \in Runs /\ p \notin Scans) \/ p \in Scans
  OBVIOUS
<1>4. RunStep(p) => child' = child /\ noted' \ early' = noted \ early
  BY <1>2 DEF RunStep, Enter, ReapClaim, Create, ReadOwner, Judge, CreateAfter,
              NoteRead, NoteWrite, Release, UnlinkOwn, Driver, Driving
<1>5. TurnStep(p) => noted' = noted /\ early' = early /\ (child'[p] = "live" => child[p] = "live")
  BY <1>2 DEF TurnStep, SpawnChild, TurnEnds, ChildDies, Driver, Driving, IInv, Base, TypeInv, DataOK
<1>6. ScanStep(p) \/ TakeStep(p) \/ Crash(p) => noted' = noted /\ early' = early /\ child' = child
  BY DEF ScanStep, ScanLock, ScanClaim, ReapClaim, Judge, TakeStep, ReapSame, ReapUnlink,
         ReapForTake, CreateClaim, Verify, UnlinkDead, GiveBack, DropClaim, Crash
<1>7. QED
  BY <1>1, <1>2, <1>4, <1>5, <1>6 DEF ProcStep

\* After a step too: a driver is the only holder, while nothing was left behind.
LEMMA DriverHoldsAlone ==
    ASSUME IInv', strays' = {}, NEW p \in Runs, Driver(p)'
    PROVE  Holders' = {p}
<1>1. robbed' = {} /\ DriverHasLock' /\ NoteStays'
  BY DEF IInv, Kept, Owned, RobberyNeedsStrayClaim
<1>2. \A r \in Runs : Driver(r)' => lock' = r
  BY <1>1 DEF DriverHasLock
<1>3. \A r \in noted' \ early' : child'[r] = "live" => lock' = r
  BY <1>1 DEF NoteStays, Known
<1>4. QED
  BY <1>2, <1>3 DEF Holders

\* A claim is left behind by a process that does not hold the thread before or
\* after.
LEMMA LeaverHoldsNothing ==
    ASSUME IInv, NEW p \in Procs, ProcStep(p), strays = {}, strays' # {}
    PROVE  Holders' = Holders
<1> USE DEF files, reap, take, budget, history
<1>1. /\ pc[p] \in Claiming /\ pc'[p] \in Gone
      /\ noted' = noted /\ early' = early /\ child' = child
  <2>1. ~(p \in Runs /\ (RunStep(p) \/ TurnStep(p))) /\ ~(p \in Scans /\ ScanStep(p))
    BY DEF RunStep, Enter, ReapClaim, Create, ReadOwner, Judge, CreateAfter,
           NoteRead, NoteWrite, Release, UnlinkOwn, TurnStep, SpawnChild, TurnEnds, ChildDies,
           ScanStep, ScanLock, ScanClaim
  <2>2. CASE TakeStep(p)
    <3>1. GiveBack(p)
      BY <2>2 DEF TakeStep, ReapSame, ReapUnlink, ReapForTake, ReapClaim, CreateClaim,
                  Verify, UnlinkDead, GiveBack, DropClaim
    <3>2. pc'[p] = "end"
      BY <3>1 DEF GiveBack, Go, IInv, Base, TypeInv, PlaceInv
    <3>3. QED
      BY <3>1, <3>2 DEF GiveBack, Claiming, Gone
  <2>3. CASE Crash(p)
    <3>1. claim = p
      BY <2>3 DEF Crash
    <3>2. pc[p] \in Claiming
      BY <3>1, NoFileAssumption DEF IInv, Base, Claims, ClaimIsLive
    <3>3. pc'[p] = "dead"
      BY <2>3 DEF Crash, Go, IInv, Base, TypeInv, PlaceInv
    <3>4. QED
      BY <2>3, <3>2, <3>3 DEF Crash, Gone
  <2>4. QED
    BY <2>1, <2>2, <2>3 DEF ProcStep
<1>2. p \notin noted
  BY <1>1 DEF IInv, Kept, NotedIsPast, Claiming, Gone
<1>3. p \notin Holders /\ p \notin Holders'
  BY <1>1, <1>2 DEF Holders, Driver, Driving, Claiming, Gone
<1>4. QED
  BY <1>3, OthersHold DEF Holders, IInv, Base

LEMMA StepPossesses ==
    ASSUME IInv, IInv', NEW p \in Procs, ProcStep(p)
    PROVE  [Possession!Next]_(Possession!possession)
<1> USE DEF Possession!Next, Possession!possession
<1>1. \A r \in Runs : r # p => (r \in Holders' <=> r \in Holders)
  BY OthersHold DEF IInv, Base
<1>2. Holders \subseteq Runs /\ Holders' \subseteq Runs
  BY DEF Holders
<1>3. strays # {} => strays' # {}
  BY StraysGrow
<1>4. CASE p \in Holders' /\ p \notin Holders
  <2>1. p \in Runs /\ Driver(p)'
    BY <1>2, <1>4, HolderDrives
  <2>2. strays' = {} => Holders' = {p}
    BY <2>1, DriverHoldsAlone
  <2>3. Holders' = Holders \cup {p}
    BY <1>1, <1>2, <1>4
  <2>4. strays = {} => strays' = {}
    BY <1>4, LeaverHoldsNothing
  <2>5. Possession!Take(p)
    BY <1>3, <1>4, <2>2, <2>3, <2>4 DEF Possession!Take
  <2>6. QED
    BY <2>1, <2>5
<1>5. CASE p \in Holders /\ p \notin Holders'
  <2>1. Holders' = Holders \ {p}
    BY <1>1, <1>2, <1>5
  <2>2. (strays' # {}) = (strays # {})
    BY <1>3, <1>5, LeaverHoldsNothing
  <2>3. Possession!GiveUp(p)
    BY <1>5, <2>1, <2>2 DEF Possession!GiveUp
  <2>4. QED
    BY <1>2, <1>5, <2>3
<1>6. CASE p \in Holders <=> p \in Holders'
  <2>1. Holders' = Holders
    BY <1>1, <1>2, <1>6
  <2>2. QED
    BY <1>3, <2>1 DEF Possession!LeaveClaim
<1>7. QED
  BY <1>4, <1>5, <1>6

\* Reservations implement the exclusive possession of a thread: for any number
\* of runs and scans, whatever fails and whoever dies, a run comes to drive a
\* thread only when no other run and no noted child has it, until a claim is
\* left behind.
THEOREM PossessionRefined == Spec => PossessionKept
<1>1. Init => Possession!Init
  <2> SUFFICES ASSUME Init PROVE Possession!Init
    OBVIOUS
  <2>1. \A r \in Runs : ~Driver(r) /\ noted = {} /\ strays = {}
    BY DEF Init, Driver, Driving, Procs
  <2>2. QED
    BY <2>1 DEF Possession!Init, Holders, Init
<1>2. IInv /\ IInv' /\ [Next]_vars => [Possession!Next]_(Possession!possession)
  <2> SUFFICES ASSUME IInv, IInv', [Next]_vars PROVE [Possession!Next]_(Possession!possession)
    OBVIOUS
  <2>1. CASE UNCHANGED vars
    BY <2>1 DEF vars, files, reap, take, budget, history, Possession!possession, Holders, Driver
  <2>2. CASE Next
    BY <2>2, StepIsOfProc, StepPossesses
  <2>3. QED
    BY <2>1, <2>2
<1>3. QED
  BY InvHolds, <1>1, <1>2, PTL DEF Spec, PossessionKept, Possession!Spec
=============================================================================
