-------------------------- MODULE Workspace_proofs --------------------------
(***************************************************************************)
(* What the protocols over a workspace's own files promise, each for any   *)
(* number of the processes, files, failures and deaths that it has.  They  *)
(* share no state: every section is about one module and stands alone.     *)
(***************************************************************************)
EXTENDS SessionRegistry, LegacyMigration, Worktrees, Announcements, JobStatus,
        WorkRecords, TaskThreads, Launch, BrokerLifecycle,
        FiniteSetTheorems, WellFoundedInduction, TLAPS

-----------------------------------------------------------------------------
(* SessionRegistry.                                                        *)

Excused == met \cup unlisted \cup unswept

RegTypes ==
    /\ launch \in [Launches -> {"idle", "lock", "write", "listed", "active", "over"}]
    /\ DOMAIN read = Launches
    /\ ending \in {"none", "sweep"}
    /\ met \subseteq Launches /\ unlisted \subseteq Launches /\ unswept \subseteq Launches

\* One launch writes the list at a time, and what it read has all that the
\* list has: an end may have removed roots since, nobody has added any.
OneWriter == \A l \in Launches : launch[l] = "write" => locked = {l} /\ roots \subseteq read[l]

\* A launch that looked the list up, or wrote it, finds its root there.
Recorded ==
    \A l \in Launches :
        launch[l] \in {"listed", "active"} => RootOf[l] \in roots \/ l \in Excused

\* What an end finds active it has still to sweep, and a launch under way
\* has met it.
EndsAll ==
    ending = "sweep" =>
        \A l \in Launches :
            /\ launch[l] = "active" => RootOf[l] \in sweeping \/ l \in Excused
            /\ launch[l] \in {"lock", "write", "listed"} => l \in met

RegInv == RegTypes /\ OneWriter /\ Recorded /\ EndsAll

LEMMA RegInitInv == RegInit => RegInv
BY DEF RegInit, RegInv, RegTypes, OneWriter, Recorded, EndsAll, Excused

\* A launch's own steps.
LEMMA LaunchStep ==
    ASSUME RegInv, NEW l \in Launches,
           LookUp(l) \/ ReadRoots(l) \/ WriteRoots(l) \/ FailToRecord(l) \/ QueueJob(l)
               \/ JobEnds(l)
    PROVE  RegInv'
<1> USE DEF RegInv, RegTypes, OneWriter, Recorded, EndsAll, Excused, MeetsEnd
<1>1. CASE LookUp(l)
  BY <1>1 DEF LookUp
<1>2. CASE ReadRoots(l)
  BY <1>2 DEF ReadRoots, Locks
<1>3. CASE WriteRoots(l)
  <2>1. RegTypes' /\ OneWriter'
    BY <1>3 DEF WriteRoots
  <2>2. roots \subseteq roots' /\ RootOf[l] \in roots'
    BY <1>3 DEF WriteRoots
  <2>3. Recorded'
    BY <1>3, <2>2 DEF WriteRoots
  <2>4. EndsAll'
    BY <1>3 DEF WriteRoots
  <2>5. QED
    BY <2>1, <2>3, <2>4
<1>4. CASE FailToRecord(l)
  BY <1>4 DEF FailToRecord
<1>5. CASE QueueJob(l)
  BY <1>5 DEF QueueJob
<1>6. CASE JobEnds(l)
  BY <1>6 DEF JobEnds
<1>7. QED
  BY <1>1, <1>2, <1>3, <1>4, <1>5, <1>6

\* The steps of an end.
LEMMA EndStep ==
    ASSUME RegInv, ReadAtEnd \/ SweepRoot \/ RemoveRoots \/ EndCut
    PROVE  RegInv'
<1> USE DEF RegInv, RegTypes, OneWriter, Recorded, EndsAll, Excused
<1>1. CASE ReadAtEnd
  BY <1>1 DEF ReadAtEnd
<1>2. CASE SweepRoot
  <2>1. PICK root, failed :
           /\ root \in sweeping /\ failed \subseteq ActiveIn(root)
           /\ sweeping' = sweeping \ {root} /\ unswept' = unswept \cup failed
           /\ launch' = [l \in Launches |-> IF l \in ActiveIn(root) \ failed THEN "over" ELSE launch[l]]
    BY <1>2 DEF SweepRoot
  <2>2. /\ failed \subseteq Launches
        /\ \A l \in Launches :
              /\ launch'[l] = launch[l] \/ launch'[l] = "over"
              /\ launch[l] = "active" /\ RootOf[l] = root => launch'[l] = "over" \/ l \in failed
    BY <2>1 DEF ActiveIn
  <2>3. UNCHANGED <<roots, locked, read, ending, ends, met, unlisted>> /\ ending = "sweep"
    BY <1>2 DEF SweepRoot
  <2>4. RegTypes' /\ OneWriter'
    BY <2>1, <2>2, <2>3
  <2>5. Recorded'
    BY <2>1, <2>2, <2>3
  <2>6. EndsAll'
    BY <2>1, <2>2, <2>3
  <2>7. QED
    BY <2>4, <2>5, <2>6
<1>3. CASE RemoveRoots
  BY <1>3 DEF RemoveRoots
<1>4. CASE EndCut
  BY <1>4 DEF EndCut
<1>5. QED
  BY <1>1, <1>2, <1>3, <1>4

LEMMA RegStep == RegInv /\ [RegNext]_regVars => RegInv'
<1> SUFFICES ASSUME RegInv, [RegNext]_regVars PROVE RegInv'
  OBVIOUS
<1>1. CASE RegNext
  BY <1>1, LaunchStep, EndStep DEF RegNext
<1>2. CASE UNCHANGED regVars
  BY <1>2 DEF regVars, RegInv, RegTypes, OneWriter, Recorded, EndsAll, Excused
<1>3. QED
  BY <1>1, <1>2

\* Whatever launches and ends of one session overlap, the next end sweeps
\* every active job, but those whose launch met an end or could not record
\* its root, and those an end could not settle.
THEOREM ActiveRootsAreListed == RegSpec => []ActiveRootIsListed
<1>1. RegInv => ActiveRootIsListed
  BY DEF RegInv, Recorded, Excused, ActiveRootIsListed
<1>2. QED
  BY <1>1, RegInitInv, RegStep, PTL DEF RegSpec

-----------------------------------------------------------------------------
(* LegacyMigration.                                                        *)

MigTypes ==
    /\ durable \in [Copied -> {"absent", "empty", "legacy", "fresh"}]
    /\ migrator \in [Procs -> {"new", "copying", "use", "gone"}]
    /\ left \in [Procs -> SUBSET Copied] /\ filling \in [Procs -> SUBSET Copied]

\* A process fills one file at a time, which it created.
OneAtATime ==
    \A p \in Procs :
        /\ \A f, g \in filling[p] : f = g
        /\ \A f \in filling[p] : durable[f] # "absent" /\ migrator[p] = "copying"

\* What a migrating process has done with is there ...
DoneIsThere ==
    \A p \in Procs : migrator[p] = "copying" => \A f \in Copied \ left[p] : durable[f] # "absent"

\* ... and it comes to the marker last.
MarkerLast == \A p \in Procs : State \in filling[p] => left[p] = {}

\* An empty file is being filled, or whoever filled it is gone.
EmptyIsUnderWay ==
    \A f \in Copied : durable[f] = "empty" => f \in broken \/ \E p \in Procs : f \in filling[p]

MarkerIsLate == durable[State] = "legacy" => \A f \in Copied : durable[f] # "absent"

MigInv == MigTypes /\ OneAtATime /\ DoneIsThere /\ MarkerLast /\ EmptyIsUnderWay /\ MarkerIsLate

LEMMA MigInitInv == MigInit => MigInv
BY DEF MigInit, MigInv, MigTypes, OneAtATime, DoneIsThere, MarkerLast, EmptyIsUnderWay,
       MarkerIsLate, Copied

\* The marker is what is copied when nothing else is left.
LEMMA MarkerNext ==
    ASSUME NEW p \in Procs, left[p] \subseteq Copied, State \in NextFiles(p)
    PROVE  left[p] = {State}
<1>1. left[p] \cap JobFiles = {}
  BY JobFilesAssumption DEF NextFiles, PairPlan, State
<1>2. PairPlan \notin left[p]
  BY <1>1, JobFilesAssumption DEF NextFiles, PairPlan, State
<1>3. QED
  BY <1>1, <1>2, JobFilesAssumption DEF NextFiles, Copied, PairPlan, State

LEMMA NextIsLeft ==
    ASSUME NEW p \in Procs
    PROVE  NextFiles(p) \subseteq left[p]
<1>1. CASE left[p] \cap JobFiles # {}
  BY <1>1 DEF NextFiles
<1>2. CASE left[p] \cap JobFiles = {} /\ PairPlan \in left[p]
  BY <1>2 DEF NextFiles
<1>3. CASE left[p] \cap JobFiles = {} /\ PairPlan \notin left[p]
  BY <1>3 DEF NextFiles
<1>4. QED
  BY <1>1, <1>2, <1>3

LEMMA CreateCopyKeeps ==
    ASSUME MigInv, NEW p \in Procs, CreateCopy(p)
    PROVE  MigInv'
<1> USE DEF MigInv, MigTypes
<1>1. PICK f \in NextFiles(p) :
         /\ left' = [left EXCEPT ![p] = @ \ {f}]
         /\ IF MayCreate(f)
            THEN durable' = [durable EXCEPT ![f] = "empty"]
                /\ filling' = [filling EXCEPT ![p] = {f}]
            ELSE UNCHANGED <<durable, filling>>
  BY DEF CreateCopy
<1>2. f \in left[p] /\ f \in Copied
  BY <1>1, NextIsLeft
<1>3. migrator' = migrator /\ broken' = broken /\ filling[p] = {} /\ migrator[p] = "copying"
  BY DEF CreateCopy
<1>4. MigTypes'
  BY <1>1, <1>2, <1>3 DEF CreateCopy
<1>5. \A g \in Copied : durable[g] # "absent" => durable'[g] = durable[g]
  BY <1>1, <1>2 DEF MayCreate
<1>6. durable'[f] # "absent"
  BY <1>1, <1>2 DEF MayCreate
<1>7. OneAtATime'
  BY <1>1, <1>2, <1>3, <1>5 DEF OneAtATime, MayCreate
<1>8. DoneIsThere'
  BY <1>1, <1>2, <1>3, <1>5, <1>6 DEF DoneIsThere
<1>9. MarkerLast'
  <2>1. f = State => left'[p] = {}
    BY <1>1, MarkerNext
  <2>2. \A q \in Procs : left'[q] \subseteq left[q]
    BY <1>1
  <2>3. \A q \in Procs : State \in filling'[q] => State \in filling[q] \/ (q = p /\ f = State)
    BY <1>1, <1>2
  <2>4. QED
    BY <2>1, <2>2, <2>3 DEF MarkerLast
<1>10. EmptyIsUnderWay'
  <2>1. CASE ~MayCreate(f)
    BY <1>1, <1>3, <2>1 DEF EmptyIsUnderWay
  <2>2. CASE MayCreate(f)
    <3>1. filling'[p] = {f} /\ \A q \in Procs : filling[q] \subseteq filling'[q]
      BY <1>1, <1>3, <2>2
    <3>2. \A g \in Copied : durable'[g] = "empty" => durable[g] = "empty" \/ g = f
      BY <1>1, <2>2
    <3>3. QED
      BY <1>3, <3>1, <3>2 DEF EmptyIsUnderWay
  <2>3. QED
    BY <2>1, <2>2
<1>11. MarkerIsLate'
  <2>1. \A g \in Copied : g # f => durable'[g] = durable[g]
    BY <1>1, <1>2
  <2>2. durable'[State] = "legacy" => durable[State] = "legacy"
    BY <1>1, <1>2 DEF Copied
  <2>3. QED
    BY <1>6, <2>1, <2>2 DEF MarkerIsLate
<1>12. QED
  BY <1>4, <1>7, <1>8, <1>9, <1>10, <1>11

LEMMA FillCopyKeeps ==
    ASSUME MigInv, NEW p \in Procs, FillCopy(p)
    PROVE  MigInv'
<1> USE DEF MigInv, MigTypes
<1>1. PICK f \in filling[p] : durable' = [durable EXCEPT ![f] = "legacy"]
  BY DEF FillCopy
<1>2. f \in Copied /\ filling[p] = {f} /\ migrator[p] = "copying"
  BY <1>1 DEF OneAtATime
<1>3. /\ filling' = [filling EXCEPT ![p] = {}] /\ migrator' = migrator
      /\ left' = left /\ broken' = broken
  BY DEF FillCopy
<1>4. MigTypes'
  BY <1>1, <1>2, <1>3
<1>5. \A g \in Copied : durable[g] # "absent" => durable'[g] # "absent"
  BY <1>1
<1>6. OneAtATime' /\ DoneIsThere' /\ MarkerLast'
  BY <1>2, <1>3, <1>5 DEF OneAtATime, DoneIsThere, MarkerLast
<1>7. EmptyIsUnderWay'
  BY <1>1, <1>2, <1>3 DEF EmptyIsUnderWay
<1>8. MarkerIsLate'
  <2>1. CASE f = State
    BY <1>2, <1>5, <2>1 DEF DoneIsThere, MarkerLast, MarkerIsLate
  <2>2. CASE f # State
    BY <1>1, <1>5, <2>2 DEF MarkerIsLate, Copied
  <2>3. QED
    BY <2>1, <2>2
<1>9. QED
  BY <1>4, <1>6, <1>7, <1>8

LEMMA OtherStepKeeps ==
    ASSUME MigInv, NEW p \in Procs, CheckMarker(p) \/ Migrated(p) \/ Break(p) \/ Use(p)
    PROVE  MigInv'
<1> USE DEF MigInv, MigTypes, OneAtATime, DoneIsThere, MarkerLast, EmptyIsUnderWay, MarkerIsLate
<1>1. CASE CheckMarker(p)
  BY <1>1 DEF CheckMarker
<1>2. CASE Migrated(p)
  BY <1>2 DEF Migrated
<1>3. CASE Break(p)
  BY <1>3 DEF Break
<1>4. CASE Use(p)
  BY <1>4 DEF Use, Copied
<1>5. QED
  BY <1>1, <1>2, <1>3, <1>4

LEMMA MigStep == MigInv /\ [MigNext]_migVars => MigInv'
<1> SUFFICES ASSUME MigInv, [MigNext]_migVars PROVE MigInv'
  OBVIOUS
<1>1. CASE MigNext
  BY <1>1, CreateCopyKeeps, FillCopyKeeps, OtherStepKeeps DEF MigNext
<1>2. CASE UNCHANGED migVars
  BY <1>2 DEF migVars, MigInv, MigTypes, OneAtATime, DoneIsThere, MarkerLast, EmptyIsUnderWay,
              MarkerIsLate
<1>3. QED
  BY <1>1, <1>2

\* Whoever migrates at once, dies or fails, the migrated index is there only
\* when every other legacy file was copied, whole but for what is still being
\* written or was cut off.
THEOREM MigratedMeansAll == MigSpec => []MarkerMeansMigrated
<1>1. MigInv => MarkerMeansMigrated
  BY DEF MigInv, MarkerIsLate, EmptyIsUnderWay, MarkerMeansMigrated
<1>2. QED
  BY <1>1, MigInitInv, MigStep, PTL DEF MigSpec

-----------------------------------------------------------------------------
(* Worktrees.                                                              *)

Resting  == {"idle", "ok", "refused", "failed", "undone", "dead"}
Steps == Resting \cup {"add", "list", "link", "undo", "unlink", "delete", "undelete"}

WtTypes ==
    /\ cmd \in [Commands -> [op : {"none", "create", "remove"}, path : Paths \cup {"none"},
                             step : Steps, todo : SUBSET Deps, linked : SUBSET Deps]]
    /\ links \in [Paths -> SUBSET Deps] /\ own \in [Paths -> SUBSET Deps]
    /\ \A c \in Commands : Working(c) => cmd[c].path \in Paths

\* Two commands at work on one path have crossed.
Apart ==
    crossed = {} =>
        \A c, d \in Commands : Working(c) /\ Working(d) /\ cmd[c].path = cmd[d].path => c = d

\* A path that is about to be deleted has no link left.
Unlinked ==
    crossed \cup leftover = {} =>
        \A c \in Commands : cmd[c].step \in {"delete", "undelete"} => links[cmd[c].path] = {}

WtInv == WtTypes /\ Apart /\ Unlinked /\ MainDirsKept

LEMMA WtInitInv == WtInit => WtInv
BY DEF WtInit, WtInv, WtTypes, Apart, Unlinked, MainDirsKept, Working, Resting, Steps

\* A command that begins does nothing to the trees.
LEMMA CommandBegins ==
    ASSUME WtInv, NEW c \in Commands, NEW p \in Paths, cmd[c].step = "idle",
           NEW op \in {"create", "remove"}, NEW step \in {"add", "unlink", "refused"},
           NEW todo \in SUBSET Deps, BeginOn(c, p, op, step, todo),
           UNCHANGED <<emptied, links, own, leftover>>
    PROVE  WtInv'
<1> USE DEF WtInv, WtTypes, BeginOn, Steps, Resting
<1>1. /\ cmd'[c].path = p /\ cmd'[c].step = step
      /\ \A d \in Commands : d # c => cmd'[d] = cmd[d]
  OBVIOUS
<1>2. WtTypes'
  BY DEF Working
<1>3. crossed' = {} => crossed = {}
  OBVIOUS
<1>4. Apart'
  BY <1>1, <1>3 DEF Apart, Working
<1>5. Unlinked'
  BY <1>1, <1>3 DEF Unlinked
<1>6. MainDirsKept'
  BY <1>3 DEF MainDirsKept
<1>7. QED
  BY <1>2, <1>4, <1>5, <1>6

\* A command at work stays on its path, or is over.
LEMMA CommandGoesOn ==
    ASSUME WtInv, NEW c \in Commands, Working(c), crossed' = crossed,
           WtTypes', cmd'[c].path = cmd[c].path,
           \A d \in Commands : d # c => cmd'[d] = cmd[d]
    PROVE  Apart'
BY DEF WtInv, WtTypes, Apart, Working

LEMMA WtStepOf ==
    ASSUME WtInv, NEW c \in Commands,
           \/ CheckTarget(c) \/ AddWorktree(c) \/ ListEntries(c) \/ LinkNext(c) \/ ExcludeLinks(c)
           \/ FindRegistered(c) \/ Unlink(c) \/ DeleteTree(c) \/ CommandDies(c)
    PROVE  WtInv'
<1> USE DEF Steps, Resting
<1>1. CASE CheckTarget(c)
  BY <1>1, CommandBegins DEF CheckTarget, Candidates
<1>2. CASE FindRegistered(c)
  BY <1>2, CommandBegins DEF FindRegistered
<1>3. CASE AddWorktree(c)
  <2>1. WtTypes'
    BY <1>3 DEF AddWorktree, Step, WtInv, WtTypes, Working
  <2>2. /\ Working(c) /\ cmd'[c].path = cmd[c].path /\ cmd'[c].step \in {"list", "refused"}
        /\ \A d \in Commands : d # c => cmd'[d] = cmd[d]
    BY <1>3 DEF AddWorktree, Step, WtInv, WtTypes, Working
  <2>3. UNCHANGED <<emptied, links, crossed, leftover>>
    BY <1>3 DEF AddWorktree
  <2>4. Apart'
    BY <2>1, <2>2, <2>3, CommandGoesOn
  <2>5. QED
    BY <2>1, <2>2, <2>3, <2>4 DEF WtInv, Unlinked, MainDirsKept
<1>4. CASE LinkNext(c)
  <2>0. /\ Working(c) /\ cmd[c].path \in Paths
        /\ UNCHANGED own
        /\ \/ \E d \in cmd[c].todo :
                  /\ cmd' = [cmd EXCEPT ![c].todo = @ \ {d}]
                  /\ UNCHANGED links
           \/ \E d \in cmd[c].todo :
                  /\ cmd' = [cmd EXCEPT ![c].todo = @ \ {d}, ![c].linked = @ \cup {d}]
                  /\ links' = [links EXCEPT ![cmd[c].path] = @ \cup {d}]
           \/ cmd' = [cmd EXCEPT ![c].step = "undo"] /\ UNCHANGED links
    BY <1>4 DEF LinkNext, Step, WtInv, WtTypes, Working
  <2>a. cmd[c].step = "link"
    BY <1>4 DEF LinkNext
  <2>1. WtTypes'
    <3>1. CASE \E d \in cmd[c].todo :
                  cmd' = [cmd EXCEPT ![c].todo = @ \ {d}] /\ UNCHANGED links
      <4>1. PICK d \in cmd[c].todo : cmd' = [cmd EXCEPT ![c].todo = @ \ {d}]
        BY <3>1
      <4>2. cmd' \in [Commands -> [op : {"none", "create", "remove"}, path : Paths \cup {"none"},
                                   step : Steps, todo : SUBSET Deps, linked : SUBSET Deps]]
        <5> DEFINE rest == cmd[c].todo \ {d}
        <5>1. rest \in SUBSET Deps
          BY DEF WtInv, WtTypes
        <5>2. cmd' = [cmd EXCEPT ![c].todo = rest]
          BY <4>1
        <5> HIDE DEF rest
        <5>3. QED
          BY <5>1, <5>2 DEF WtInv, WtTypes
      <4>3. \A e \in Commands : cmd'[e].step = cmd[e].step /\ cmd'[e].path = cmd[e].path
        BY <4>1 DEF WtInv, WtTypes
      <4>4. links' = links
        BY <3>1
      <4>5. QED
        BY <2>0, <4>2, <4>3, <4>4 DEF WtInv, WtTypes, Working
    <3>2. CASE \E d \in cmd[c].todo :
                  /\ cmd' = [cmd EXCEPT ![c].todo = @ \ {d}, ![c].linked = @ \cup {d}]
                  /\ links' = [links EXCEPT ![cmd[c].path] = @ \cup {d}]
      <4>1. PICK d \in cmd[c].todo :
               /\ cmd' = [cmd EXCEPT ![c].todo = @ \ {d}, ![c].linked = @ \cup {d}]
               /\ links' = [links EXCEPT ![cmd[c].path] = @ \cup {d}]
        BY <3>2
      <4>2. d \in Deps
        BY DEF WtInv, WtTypes
      <4>3. links' \in [Paths -> SUBSET Deps]
        BY <2>0, <4>1, <4>2 DEF WtInv, WtTypes
      <4>4. cmd' \in [Commands -> [op : {"none", "create", "remove"}, path : Paths \cup {"none"},
                                   step : Steps, todo : SUBSET Deps, linked : SUBSET Deps]]
        <5> DEFINE rest == cmd[c].todo \ {d}
                   made == cmd[c].linked \cup {d}
                   between == [cmd EXCEPT ![c].todo = rest]
                   Calls == [Commands -> [op : {"none", "create", "remove"}, path : Paths
                       \cup {"none"},
                                          step : Steps, todo : SUBSET Deps, linked : SUBSET Deps]]
        <5>1. rest \in SUBSET Deps /\ made \in SUBSET Deps /\ cmd \in Calls
          BY <4>2 DEF WtInv, WtTypes
        <5>2. between[c].linked = cmd[c].linked
          BY <5>1
        <5>3. cmd' = [between EXCEPT ![c].linked = made]
          BY <4>1, <5>2
        <5> HIDE DEF rest, made
        <5>4. between \in Calls
          BY <5>1
        <5> HIDE DEF between
        <5>5. cmd' \in Calls
          BY <5>1, <5>3, <5>4
        <5>6. QED
          BY <5>5
      <4>5. \A e \in Commands : cmd'[e].step = cmd[e].step /\ cmd'[e].path = cmd[e].path
        BY <4>1 DEF WtInv, WtTypes
      <4>6. QED
        BY <2>0, <4>3, <4>4, <4>5 DEF WtInv, WtTypes, Working
    <3>3. CASE cmd' = [cmd EXCEPT ![c].step = "undo"] /\ UNCHANGED links
      BY <2>0, <3>3 DEF WtInv, WtTypes, Working
    <3>4. QED
      BY <2>0, <3>1, <3>2, <3>3
  <2>2. /\ Working(c) /\ cmd'[c].path = cmd[c].path /\ cmd'[c].step \in {"link", "undo"}
        /\ \A d \in Commands : d # c => cmd'[d] = cmd[d]
    <3>1. CASE \E d \in cmd[c].todo : cmd' = [cmd EXCEPT ![c].todo = @ \ {d}]
      <4>1. PICK d \in cmd[c].todo : cmd' = [cmd EXCEPT ![c].todo = @ \ {d}]
        BY <3>1
      <4>2. QED
        BY <2>0, <2>a, <4>1 DEF WtInv, WtTypes
    <3>2. CASE \E d \in cmd[c].todo :
                  cmd' = [cmd EXCEPT ![c].todo = @ \ {d}, ![c].linked = @ \cup {d}]
      <4>1. PICK d \in cmd[c].todo :
                  cmd' = [cmd EXCEPT ![c].todo = @ \ {d}, ![c].linked = @ \cup {d}]
        BY <3>2
      <4>2. QED
        BY <2>0, <2>a, <4>1 DEF WtInv, WtTypes
    <3>3. CASE cmd' = [cmd EXCEPT ![c].step = "undo"]
      BY <2>0, <3>3 DEF WtInv, WtTypes
    <3>4. QED
      BY <2>0, <3>1, <3>2, <3>3
  <2>3. /\ UNCHANGED <<emptied, crossed, leftover>>
        /\ \A p \in Paths : p # cmd[c].path => links'[p] = links[p]
    BY <1>4 DEF LinkNext, WtInv, WtTypes
  <2>4. Apart'
    BY <2>1, <2>2, <2>3, CommandGoesOn
  <2>5. Unlinked'
    <3> SUFFICES ASSUME crossed = {}, leftover = {}, NEW d \in Commands,
                        cmd'[d].step \in {"delete", "undelete"}
                 PROVE  links'[cmd'[d].path] = {}
      BY <2>3 DEF Unlinked
    <3>1. d # c /\ cmd'[d] = cmd[d]
      BY <2>2
    <3>2. Working(d) /\ cmd[d].path \in Paths /\ links[cmd[d].path] = {}
      BY <3>1 DEF WtInv, WtTypes, Unlinked, Working
    <3>3. cmd[d].path # cmd[c].path
      BY <2>2, <3>1, <3>2 DEF WtInv, Apart
    <3>4. QED
      BY <2>3, <3>1, <3>2, <3>3
  <2>6. QED
    BY <2>1, <2>3, <2>4, <2>5 DEF WtInv, MainDirsKept
<1>5. CASE ListEntries(c) \/ ExcludeLinks(c) \/ CommandDies(c)
  <2>1. WtTypes'
    BY <1>5 DEF ListEntries, ExcludeLinks, CommandDies, Step, Slip, WtInv, WtTypes, Working
  <2>2. /\ Working(c) /\ cmd'[c].path = cmd[c].path /\ cmd'[c].step \in {"link", "ok", "undo", "dead"}
        /\ \A d \in Commands : d # c => cmd'[d] = cmd[d]
    BY <1>5 DEF ListEntries, ExcludeLinks, CommandDies, Step, WtInv, WtTypes, Working
  <2>3. UNCHANGED <<emptied, links, crossed, leftover>>
    BY <1>5 DEF ListEntries, ExcludeLinks, CommandDies
  <2>4. Apart'
    BY <2>1, <2>2, <2>3, CommandGoesOn
  <2>5. QED
    BY <2>1, <2>2, <2>3, <2>4 DEF WtInv, Unlinked, MainDirsKept
<1>6. CASE Unlink(c)
  <2>1. WtTypes'
    BY <1>6 DEF Unlink, LinksLeft, Step, Slip, WtInv, WtTypes, Working
  <2>2. /\ Working(c) /\ cmd[c].path \in Paths /\ cmd'[c].path = cmd[c].path
        /\ \A d \in Commands : d # c => cmd'[d] = cmd[d]
    BY <1>6 DEF Unlink, Step, WtInv, WtTypes, Working
  <2>3. /\ UNCHANGED <<emptied, crossed>> /\ leftover \subseteq leftover'
        /\ \A p \in Paths : p # cmd[c].path => links'[p] = links[p]
    BY <1>6 DEF Unlink, WtInv, WtTypes
  <2>4. leftover' = {} => links'[cmd[c].path] = {}
    BY <1>6, <2>2 DEF Unlink, LinksLeft, WtInv, WtTypes
  <2>5. Apart'
    BY <2>1, <2>2, <2>3, CommandGoesOn
  <2>6. Unlinked'
    <3> SUFFICES ASSUME crossed' = {}, leftover' = {}, NEW d \in Commands,
                        cmd'[d].step \in {"delete", "undelete"}
                 PROVE  links'[cmd'[d].path] = {}
      BY DEF Unlinked
    <3>1. CASE d = c
      BY <2>2, <2>4, <3>1
    <3>2. CASE d # c
      <4>1. cmd'[d] = cmd[d] /\ cmd[d].path \in Paths /\ links[cmd[d].path] = {}
        BY <2>2, <2>3, <3>2 DEF WtInv, WtTypes, Unlinked, Working
      <4>2. QED
        BY <2>3, <2>4, <4>1
    <3>3. QED
      BY <3>1, <3>2
  <2>7. QED
    BY <2>1, <2>3, <2>5, <2>6 DEF WtInv, MainDirsKept
<1>7. CASE DeleteTree(c)
  <2>1. WtTypes'
    BY <1>7 DEF DeleteTree, Step, Slip, WtInv, WtTypes, Working
  <2>2. /\ Working(c) /\ cmd'[c].path = cmd[c].path /\ cmd'[c].step \in {"ok", "undone", "failed"}
        /\ \A d \in Commands : d # c => cmd'[d] = cmd[d]
    BY <1>7 DEF DeleteTree, Step, WtInv, WtTypes, Working
  <2>3. UNCHANGED <<crossed, leftover>> /\ (links' = links
        \/ links' = [links EXCEPT ![cmd[c].path] = {}])
    BY <1>7 DEF DeleteTree
  <2>4. Apart'
    BY <2>1, <2>2, <2>3, CommandGoesOn
  <2>5. Unlinked'
    <3> SUFFICES ASSUME crossed = {}, leftover = {}, NEW d \in Commands,
                        cmd'[d].step \in {"delete", "undelete"}
                 PROVE  links'[cmd'[d].path] = {}
      BY <2>3 DEF Unlinked
    <3>1. d # c /\ cmd'[d] = cmd[d]
      BY <2>2
    <3>2. cmd[d].path \in Paths /\ links[cmd[d].path] = {}
      BY <3>1 DEF WtInv, WtTypes, Unlinked, Working
    <3>3. QED
      BY <2>3, <3>1, <3>2 DEF WtInv, WtTypes
  <2>6. MainDirsKept'
    BY <1>7, <2>3 DEF DeleteTree, WtInv, WtTypes, Unlinked, MainDirsKept
  <2>7. QED
    BY <2>1, <2>4, <2>5, <2>6 DEF WtInv
<1>8. QED
  BY <1>1, <1>2, <1>3, <1>4, <1>5, <1>6, <1>7

LEMMA WtStep == WtInv /\ [WtNext]_wtVars => WtInv'
<1> SUFFICES ASSUME WtInv, [WtNext]_wtVars PROVE WtInv'
  OBVIOUS
<1>1. CASE WtNext
  BY <1>1, WtStepOf DEF WtNext
<1>2. CASE UNCHANGED wtVars
  BY <1>2 DEF wtVars, WtInv, WtTypes, Apart, Unlinked, MainDirsKept, Working
<1>3. QED
  BY <1>1, <1>2

-----------------------------------------------------------------------------
(* What create reports *)

Waits(d) == cmd[d].step \in {"idle", "add", "refused"}

\* Only what the main tree ignores is ever linked or excluded.
Ignored ==
    /\ exclude \subseteq Candidates
    /\ \A c \in Commands : cmd[c].todo \subseteq Candidates /\ cmd[c].linked \subseteq Candidates

\* A path nobody has got to yet has no link.
Fresh ==
    \A p \in Paths : (\A d \in Commands : cmd[d].path = p => Waits(d)) => links[p] = {}

\* The only command that got to its path knows every link there.
Owned ==
    \A c \in Commands :
        /\ cmd[c].path \in Paths
        /\ \A d \in Commands \ {c} : cmd[d].path = cmd[c].path => Waits(d)
        => /\ cmd[c].op = "create" /\ cmd[c].step \in {"list", "link"}
            => links[cmd[c].path] \subseteq cmd[c].linked
           /\ cmd[c].op = "create" /\ cmd[c].step = "ok" => links[cmd[c].path] \subseteq exclude
           /\ cmd[c].step = "undone" => tree[cmd[c].path] = "none"

Placed == \A c \in Commands : cmd[c].op = "create" \/ cmd[c].step = "undone"
    => cmd[c].path \in Paths

CreateInv == WtInv /\ tree \in [Paths -> {"none", "added"}] /\ Ignored /\ Fresh /\ Owned /\ Placed

LEMMA CreateInitInv == WtInit => CreateInv
BY WtInitInv DEF WtInit, CreateInv, Ignored, Fresh, Owned, Placed, Waits

\* A step of one command on its own path, told by what it does there, leaves
\* the other commands' promises alone.
LEMMA OthersKeep ==
    ASSUME CreateInv, WtInv', NEW c \in Commands, NEW p \in Paths,
           cmd'[c].path = p, ~Waits(c) => cmd[c].path = p,
           cmd[c].path = p \/ cmd[c].step = "idle",
           \A d \in Commands : d # c => cmd'[d] = cmd[d],
           Waits(c)' => Waits(c) /\ UNCHANGED <<links, tree>>,
           \A q \in Paths : q # p => links'[q] = links[q] /\ tree'[q] = tree[q],
           exclude \subseteq exclude',
           /\ \A d \in Commands \ {c} : cmd[d].path = p => Waits(d)
           => /\ cmd'[c].op = "create" /\ cmd'[c].step \in {"list", "link"}
               => links'[p] \subseteq cmd'[c].linked
              /\ cmd'[c].op = "create" /\ cmd'[c].step = "ok" => links'[p] \subseteq exclude'
              /\ cmd'[c].step = "undone" => tree'[p] = "none"
    PROVE  Fresh' /\ Owned' /\ Placed'
<1>1. Fresh'
  <2> SUFFICES ASSUME NEW q \in Paths, \A d \in Commands : cmd'[d].path = q => Waits(d)'
               PROVE  links'[q] = {}
    BY DEF Fresh
  <2>1. \A d \in Commands : cmd[d].path = q => Waits(d)
    BY DEF Waits
  <2>2. links[q] = {}
    BY <2>1 DEF CreateInv, Fresh
  <2>3. QED
    BY <2>2
<1>2. Owned'
  <2> SUFFICES ASSUME NEW e \in Commands, cmd'[e].path \in Paths,
                      \A d \in Commands \ {e} : cmd'[d].path = cmd'[e].path => Waits(d)'
               PROVE  /\ cmd'[e].op = "create" /\ cmd'[e].step \in {"list", "link"}
                           => links'[cmd'[e].path] \subseteq cmd'[e].linked
                      /\ cmd'[e].op = "create" /\ cmd'[e].step = "ok"
                           => links'[cmd'[e].path] \subseteq exclude'
                      /\ cmd'[e].step = "undone" => tree'[cmd'[e].path] = "none"
    BY DEF Owned
  <2>1. CASE e = c
    <3>1. \A d \in Commands \ {c} : cmd[d].path = p => Waits(d)
      BY <2>1 DEF Waits
    <3>2. QED
      BY <2>1, <3>1
  <2>2. CASE e # c
    <3>1. cmd'[e] = cmd[e] /\ cmd[e].path \in Paths
      BY <2>2
    <3>2. \A d \in Commands \ {e} : cmd[d].path = cmd[e].path => Waits(d)
      BY <3>1, <2>2 DEF Waits
    <3>3. links'[cmd[e].path] = links[cmd[e].path] /\ tree'[cmd[e].path] = tree[cmd[e].path]
      BY <3>1, <2>2
    <3>4. /\ cmd[e].op = "create" /\ cmd[e].step \in {"list", "link"}
             => links[cmd[e].path] \subseteq cmd[e].linked
          /\ cmd[e].op = "create" /\ cmd[e].step = "ok" => links[cmd[e].path] \subseteq exclude
          /\ cmd[e].step = "undone" => tree[cmd[e].path] = "none"
      BY <3>1, <3>2 DEF CreateInv, Owned
    <3>5. QED
      BY <3>1, <3>3, <3>4
  <2>3. QED
    BY <2>1, <2>2
<1>3. Placed'
  BY DEF CreateInv, Placed
<1>4. QED
  BY <1>1, <1>2, <1>3

LEMMA CreateStepOf ==
    ASSUME CreateInv, NEW c \in Commands,
           \/ CheckTarget(c) \/ AddWorktree(c) \/ ListEntries(c) \/ LinkNext(c) \/ ExcludeLinks(c)
           \/ FindRegistered(c) \/ Unlink(c) \/ DeleteTree(c) \/ CommandDies(c)
    PROVE  CreateInv'
<1>1. WtInv'
  BY WtStepOf DEF CreateInv
<1>2. tree' \in [Paths -> {"none", "added"}]
  BY DEF CreateInv, CheckTarget, AddWorktree, ListEntries, LinkNext, ExcludeLinks, FindRegistered,
         Unlink, DeleteTree, CommandDies
<1>3. Fresh' /\ Owned' /\ Placed'
  <2> USE <1>1
  <2>0. cmd[c] \in [op : {"none", "create", "remove"}, path : Paths \cup {"none"},
                    step : Steps, todo : SUBSET Deps, linked : SUBSET Deps]
    BY DEF CreateInv, WtInv, WtTypes
  <2>1. CASE CheckTarget(c) \/ FindRegistered(c)
    <3>1. PICK p \in Paths : \E op \in {"create", "remove"}, step \in {"add", "unlink", "refused"},
                                todo \in SUBSET Deps : BeginOn(c, p, op, step, todo)
      BY <2>1 DEF CheckTarget, FindRegistered, Candidates
    <3>2. /\ cmd'[c].path = p /\ cmd'[c].step \in {"add", "unlink", "refused"}
          /\ \A d \in Commands : d # c => cmd'[d] = cmd[d]
      BY <3>1 DEF BeginOn, CreateInv, WtInv, WtTypes
    <3>3. cmd[c].step = "idle" /\ UNCHANGED <<exclude, tree, links>>
      BY <2>1 DEF CheckTarget, FindRegistered
    <3>4. QED
      BY <3>2, <3>3, OthersKeep DEF Waits
  <2>2. CASE AddWorktree(c)
    <3>1. /\ cmd[c].step = "add" /\ cmd[c].path \in Paths
          /\ cmd'[c].path = cmd[c].path /\ \A d \in Commands : d # c => cmd'[d] = cmd[d]
          /\ cmd'[c].step \in {"list", "refused"}
      BY <2>2, <2>0 DEF AddWorktree, Step, CreateInv, WtInv, WtTypes, Working
    <3>2. /\ cmd'[c].step = "refused" => UNCHANGED tree
          /\ \A q \in Paths : q # cmd[c].path => tree'[q] = tree[q]
          /\ UNCHANGED <<exclude, links>>
      BY <2>2, <2>0 DEF AddWorktree, Step, CreateInv, WtInv, WtTypes
    <3>3. (\A d \in Commands \ {c} : cmd[d].path = cmd[c].path => Waits(d))
          => links[cmd[c].path] = {}
      BY <3>1 DEF CreateInv, Fresh, Waits
    <3>4. QED
      BY <3>1, <3>2, <3>3, OthersKeep DEF Waits
  <2>3. CASE LinkNext(c)
    <3>1. /\ cmd[c].step = "link" /\ cmd[c].path \in Paths /\ UNCHANGED <<exclude, tree>>
          /\ \/ \E d \in cmd[c].todo : cmd' = [cmd EXCEPT ![c].todo = @ \ {d}] /\ UNCHANGED links
             \/ \E d \in cmd[c].todo :
                    /\ cmd' = [cmd EXCEPT ![c].todo = @ \ {d}, ![c].linked = @ \cup {d}]
                    /\ links' = [links EXCEPT ![cmd[c].path] = @ \cup {d}]
             \/ cmd' = [cmd EXCEPT ![c].step = "undo"] /\ UNCHANGED links
      BY <2>3 DEF LinkNext, Step, CreateInv, WtInv, WtTypes, Working
    <3>2. CASE \E d \in cmd[c].todo : cmd' = [cmd EXCEPT ![c].todo = @ \ {d}] /\ UNCHANGED links
      <4>1. PICK d \in cmd[c].todo : cmd' = [cmd EXCEPT ![c].todo = @ \ {d}]
        BY <3>2
      <4>2. /\ cmd'[c].path = cmd[c].path /\ cmd'[c].step = "link" /\ cmd'[c].linked = cmd[c].linked
            /\ cmd'[c].op = cmd[c].op /\ \A e \in Commands : e # c => cmd'[e] = cmd[e]
        BY <2>0, <3>1, <4>1 DEF CreateInv, WtInv, WtTypes
      <4>3. QED
        BY <3>1, <3>2, <4>2, OthersKeep DEF Waits, CreateInv, Owned
    <3>3. CASE \E d \in cmd[c].todo :
                    /\ cmd' = [cmd EXCEPT ![c].todo = @ \ {d}, ![c].linked = @ \cup {d}]
                    /\ links' = [links EXCEPT ![cmd[c].path] = @ \cup {d}]
      <4>1. PICK d \in cmd[c].todo :
                /\ cmd' = [cmd EXCEPT ![c].todo = @ \ {d}, ![c].linked = @ \cup {d}]
                /\ links' = [links EXCEPT ![cmd[c].path] = @ \cup {d}]
        BY <3>3
      <4>2. /\ cmd'[c].path = cmd[c].path /\ cmd'[c].step = "link"
            /\ cmd'[c].linked = cmd[c].linked \cup {d}
            /\ cmd'[c].op = cmd[c].op /\ \A e \in Commands : e # c => cmd'[e] = cmd[e]
        BY <2>0, <3>1, <4>1 DEF CreateInv, WtInv, WtTypes
      <4>3. /\ links'[cmd[c].path] = links[cmd[c].path] \cup {d}
            /\ \A q \in Paths : q # cmd[c].path => links'[q] = links[q]
        BY <3>1, <4>1 DEF CreateInv, WtInv, WtTypes
      <4>4. QED
        BY <3>1, <4>2, <4>3, OthersKeep DEF Waits, CreateInv, Owned
    <3>4. CASE cmd' = [cmd EXCEPT ![c].step = "undo"] /\ UNCHANGED links
      <4>1. /\ cmd'[c].path = cmd[c].path /\ cmd'[c].step = "undo"
            /\ \A e \in Commands : e # c => cmd'[e] = cmd[e]
        BY <2>0, <3>4 DEF CreateInv, WtInv, WtTypes
      <4>2. QED
        BY <3>1, <3>4, <4>1, OthersKeep DEF Waits
    <3>5. QED
      BY <3>1, <3>2, <3>3, <3>4
  <2>4. CASE ExcludeLinks(c)
    <3>1. /\ cmd[c].step = "link" /\ cmd[c].path \in Paths /\ UNCHANGED <<links, tree>>
          /\ exclude \subseteq exclude'
          /\ cmd'[c].path = cmd[c].path /\ cmd'[c].op = cmd[c].op
          /\ cmd'[c].step \in {"ok", "undo"}
             /\ (cmd'[c].step = "ok" => cmd[c].linked \subseteq exclude')
          /\ \A e \in Commands : e # c => cmd'[e] = cmd[e]
      BY <2>0, <2>4 DEF ExcludeLinks, Step, CreateInv, WtInv, WtTypes, Working
    <3>2. QED
      BY <3>1, OthersKeep DEF Waits, CreateInv, Owned
  <2>5. CASE Unlink(c)
    <3>1. /\ cmd[c].step \in {"unlink", "undo"} /\ cmd[c].path \in Paths /\ UNCHANGED <<exclude,
             tree>>
          /\ cmd'[c].path = cmd[c].path /\ cmd'[c].step \in {"delete", "undelete", "failed"}
          /\ \A e \in Commands : e # c => cmd'[e] = cmd[e]
      BY <2>0, <2>5 DEF Unlink, Step, CreateInv, WtInv, WtTypes, Working
    <3>2. \A q \in Paths : q # cmd[c].path => links'[q] = links[q]
      BY <2>5 DEF Unlink, CreateInv, WtInv, WtTypes
    <3>3. QED
      BY <3>1, <3>2, OthersKeep DEF Waits
  <2>6. CASE DeleteTree(c)
    <3>1. /\ cmd[c].step \in {"delete", "undelete"} /\ cmd[c].path \in Paths /\ UNCHANGED exclude
          /\ cmd'[c].path = cmd[c].path /\ cmd'[c].step \in {"ok", "undone", "failed"}
          /\ \A e \in Commands : e # c => cmd'[e] = cmd[e]
      BY <2>0, <2>6 DEF DeleteTree, Step, CreateInv, WtInv, WtTypes, Working
    <3>2. /\ \A q \in Paths : q # cmd[c].path => links'[q] = links[q] /\ tree'[q] = tree[q]
          /\ cmd'[c].step \in {"ok", "undone"} => links'[cmd[c].path] = {}
             /\ tree'[cmd[c].path] = "none"
      BY <2>0, <2>6, <3>1 DEF DeleteTree, Step, CreateInv, WtInv, WtTypes
    <3>3. QED
      BY <3>1, <3>2, OthersKeep DEF Waits
  <2>7. CASE CommandDies(c)
    <3>1. /\ Working(c) /\ cmd[c].path \in Paths /\ UNCHANGED <<exclude, links, tree>>
          /\ cmd'[c].path = cmd[c].path /\ cmd'[c].step = "dead"
          /\ \A e \in Commands : e # c => cmd'[e] = cmd[e]
      BY <2>0, <2>7 DEF CommandDies, Step, CreateInv, WtInv, WtTypes
    <3>2. QED
      BY <3>1, OthersKeep DEF Waits
  <2>8. CASE ListEntries(c)
    <3>1. /\ cmd[c].step = "list" /\ cmd[c].path \in Paths /\ UNCHANGED <<exclude, links, tree>>
          /\ cmd'[c].path = cmd[c].path /\ cmd'[c].op = cmd[c].op
          /\ cmd'[c].linked = cmd[c].linked /\ cmd'[c].step \in {"link", "undo"}
          /\ \A e \in Commands : e # c => cmd'[e] = cmd[e]
      BY <2>0, <2>8 DEF ListEntries, Step, CreateInv, WtInv, WtTypes, Working
    <3>2. QED
      BY <3>1, OthersKeep DEF Waits, CreateInv, Owned
  <2>9. QED
    BY <2>1, <2>2, <2>3, <2>4, <2>5, <2>6, <2>7, <2>8
<1>4. Ignored'
  <2>1. CASE CheckTarget(c) \/ FindRegistered(c)
    BY <2>1 DEF CheckTarget, FindRegistered, BeginOn, CreateInv, WtInv, WtTypes, Ignored, Candidates
  <2>2. CASE AddWorktree(c) \/ ListEntries(c) \/ Unlink(c) \/ DeleteTree(c) \/ CommandDies(c)
    <3>1. UNCHANGED exclude
      BY <2>2 DEF AddWorktree, ListEntries, Unlink, DeleteTree, CommandDies
    <3>2. PICK step : cmd' = [cmd EXCEPT ![c].step = step]
      BY <2>2 DEF AddWorktree, ListEntries, Unlink, DeleteTree, CommandDies, Step
    <3>3. \A e \in Commands : cmd'[e].todo = cmd[e].todo /\ cmd'[e].linked = cmd[e].linked
      BY <3>2 DEF CreateInv, WtInv, WtTypes
    <3>4. QED
      BY <3>1, <3>3 DEF CreateInv, Ignored, Candidates
  <2>3. CASE LinkNext(c)
    <3>1. PICK d \in Deps :
             /\ d \in cmd[c].todo
             /\ \/ cmd' = [cmd EXCEPT ![c].todo = @ \ {d}]
                \/ cmd' = [cmd EXCEPT ![c].todo = @ \ {d}, ![c].linked = @ \cup {d}]
                \/ cmd' = [cmd EXCEPT ![c].step = "undo"]
      <4>1. PICK e \in cmd[c].todo : TRUE
        BY <2>3 DEF LinkNext
      <4>2. cmd[c].todo \subseteq Deps
        BY DEF CreateInv, WtInv, WtTypes
      <4>3. QED
        BY <2>3, <4>1, <4>2 DEF LinkNext, Step
    <3>2. UNCHANGED exclude
      BY <2>3 DEF LinkNext
    <3>3. d \in cmd[c].todo => d \in Candidates
      BY DEF CreateInv, Ignored
    <3>4. \A e \in Commands : /\ cmd'[e].todo \subseteq cmd[e].todo
                              /\ \/ cmd'[e].linked = cmd[e].linked
                                 \/ d \in cmd[c].todo /\ cmd'[e].linked = cmd[e].linked \cup {d}
      <4>1. CASE cmd' = [cmd EXCEPT ![c].todo = @ \ {d}]
        BY <4>1 DEF CreateInv, WtInv, WtTypes
      <4>2. CASE d \in cmd[c].todo /\ cmd' = [cmd EXCEPT ![c].todo = @ \ {d}, ![c].linked = @
            \cup {d}]
        BY <4>2 DEF CreateInv, WtInv, WtTypes
      <4>3. CASE cmd' = [cmd EXCEPT ![c].step = "undo"]
        BY <4>3 DEF CreateInv, WtInv, WtTypes
      <4>4. QED
        BY <3>1, <4>1, <4>2, <4>3
    <3>5. Candidates' = Candidates
      BY DEF Candidates
    <3>6. QED
      BY <3>2, <3>3, <3>4, <3>5 DEF CreateInv, Ignored
  <2>4. CASE ExcludeLinks(c)
    BY <2>4 DEF ExcludeLinks, Step, CreateInv, WtInv, WtTypes, Ignored, Candidates
  <2>5. QED
    BY <2>1, <2>2, <2>3, <2>4
<1>5. QED
  BY <1>1, <1>2, <1>3, <1>4 DEF CreateInv

LEMMA CreateStep == CreateInv /\ [WtNext]_wtVars => CreateInv'
<1> SUFFICES ASSUME CreateInv, [WtNext]_wtVars PROVE CreateInv'
  OBVIOUS
<1>1. CASE WtNext
  BY <1>1, CreateStepOf DEF WtNext
<1>2. CASE UNCHANGED wtVars
  <2>1. WtInv'
    BY <1>2, WtStep DEF CreateInv
  <2>2. QED
    BY <1>2, <2>1 DEF wtVars, CreateInv, Ignored, Fresh, Owned, Placed, Waits, Candidates
<1>3. QED
  BY <1>1, <1>2

LEMMA CreateInvWhole == CreateInv => CreateIsWhole
<1> SUFFICES ASSUME CreateInv PROVE CreateIsWhole
  OBVIOUS
<1>1. \A d \in exclude : MainHolds[d] = "ignored"
  BY DEF CreateInv, Ignored, Candidates
<1>2. ASSUME NEW c \in Commands,
             \A d \in Commands \ {c} : cmd[d].path = cmd[c].path => cmd[d].step = "refused"
      PROVE  /\ cmd[c].op = "create" /\ cmd[c].step = "ok" => links[cmd[c].path] \subseteq exclude
             /\ cmd[c].step = "undone" => tree[cmd[c].path] = "none"
  BY <1>2 DEF CreateInv, Owned, Placed, Waits
<1>3. QED
  BY <1>1, <1>2 DEF CreateIsWhole

\* Whatever commands overlap, fail or die: no removal of a worktree reaches
\* the main tree's directories, unless a link could not be removed or two
\* commands worked on one path; a create that reports its worktree leaves no
\* link of it untracked, and none that says it is gone.
THEOREM WorktreesStayWhole == WtSpec => []WorktreesAreWhole
<1>1. CreateInv => WorktreesAreWhole
  BY CreateInvWhole DEF CreateInv, WtInv, WorktreesAreWhole
<1>2. QED
  BY <1>1, CreateInitInv, CreateStep, PTL DEF WtSpec

-----------------------------------------------------------------------------
(* Announcements.                                                          *)

\* A set of naturals that has a bound has a largest element.
LEMMA BoundedMax ==
    ASSUME NEW S, S \subseteq Nat, S # {}, NEW b \in Nat, \A x \in S : x <= b
    PROVE  Max(S) \in S /\ \A x \in S : x <= Max(S)
<1> DEFINE Gaps == {b - x : x \in S}
<1>1. Gaps \subseteq Nat /\ Gaps # {}
  <2>1. \A x \in S : b - x \in Nat
    OBVIOUS
  <2>2. QED
    BY <2>1 DEF Gaps
<1>2. PICK g \in Gaps : \A y \in Gaps : ~(<<y, g>> \in OpToRel(<, Nat))
  BY <1>1, NatLessThanWellFounded, WFMin
<1>3. \A y \in Gaps : g <= y
  <2>1. TAKE y \in Gaps
  <2>2. g \in Nat /\ y \in Nat
    BY <1>1
  <2>3. ~(<<y, g>> \in OpToRel(<, Nat))
    BY <1>2
  <2>4. ~(y < g)
    BY <2>2, <2>3 DEF OpToRel
  <2>5. QED
    BY <2>2, <2>4
<1>4. PICK m \in S : g = b - m
  BY DEF Gaps
<1>5. \A x \in S : m >= x
  <2>1. TAKE x \in S
  <2>2. g <= b - x
    BY <1>3 DEF Gaps
  <2>3. QED
    BY <1>4, <2>2
<1>6. Max(S) \in S /\ \A x \in S : Max(S) >= x
  BY <1>5 DEF Max
<1>7. QED
  BY <1>6

-----------------------------------------------------------------------------
AnnTypes ==
    /\ clock \in Nat
    /\ rowAt \in [JobIds -> Int] /\ \A j \in JobIds : rowAt[j] <= clock
    /\ stamp \in [JobIds -> Nat] /\ \A j \in JobIds : stamp[j] <= clock
    /\ watermark \in Nat
    /\ DOMAIN hook = Hooks /\ mark \in [Hooks -> Nat]
    /\ toldEnd \in Nat /\ toldEnd <= clock

\* No watermark, written or about to be, is beyond what was told of.
MarksFollow == watermark <= toldEnd /\ \A h \in Hooks : mark[h] <= toldEnd

\* Every finished job up to the latest end told of is accounted for, though
\* a slower hook may have put the watermark back before it.
Accounted == \A j \in JobIds : rowAt[j] > 0 /\ rowAt[j] <= toldEnd => j \in told \cup overtaken

AnnInv == AnnTypes /\ MarksFollow /\ Accounted

LEMMA AnnInitInv == AnnInit => AnnInv
BY DEF AnnInit, AnnInv, AnnTypes, MarksFollow, Accounted

\* A job's own steps.
LEMMA JobStep ==
    ASSUME AnnInv, NEW j \in JobIds, Launch(j) \/ StampEnd(j) \/ WriteEnd(j)
    PROVE  AnnInv'
<1> USE DEF AnnInv, AnnTypes, MarksFollow, Accounted
<1>1. CASE Launch(j)
  BY <1>1 DEF Launch
<1>2. CASE StampEnd(j)
  BY <1>2 DEF StampEnd
<1>3. CASE WriteEnd(j)
  BY <1>3 DEF WriteEnd
<1>4. QED
  BY <1>1, <1>2, <1>3

\* The latest end told of is the largest of three kinds of times, all of
\* them past.
LEMMA AnnounceStep ==
    ASSUME AnnInv, NEW h \in Hooks, Announce(h)
    PROVE  AnnInv'
<1> DEFINE finishes  == {rowAt[j] : j \in Finished}
           times == {toldEnd} \cup finishes \cup IF watermark = 0 THEN {clock} ELSE {}
<1>1. Finished \subseteq JobIds /\ \A j \in Finished : watermark # 0 /\ rowAt[j] > watermark
  BY DEF Finished
<1>2. finishes \subseteq Nat /\ \A x \in finishes : x <= clock
  BY <1>1 DEF AnnInv, AnnTypes
<1>3. times \subseteq Nat /\ toldEnd \in times /\ \A x \in times : x <= clock
  BY <1>2 DEF AnnInv, AnnTypes
<1>4. toldEnd' = Max(times)
  BY DEF Announce
<1>5. toldEnd' \in times /\ \A x \in times : x <= toldEnd'
  <2>1. clock \in Nat /\ times # {}
    BY <1>3 DEF AnnInv, AnnTypes
  <2>2. QED
    BY <1>3, <1>4, <2>1, BoundedMax
<1>6. NextMark(finishes) \in Nat /\ NextMark(finishes) <= toldEnd'
  <2>1. CASE watermark = 0
    BY <1>3, <1>5, <2>1 DEF NextMark
  <2>2. CASE watermark # 0
    <3>1. /\ finishes \cup {0} \subseteq Nat /\ finishes \cup {0} # {}
          /\ clock \in Nat /\ \A x \in finishes \cup {0} : x <= clock
      BY <1>2 DEF AnnInv, AnnTypes
    <3>2. Max(finishes \cup {0}) \in finishes \cup {0}
      BY <3>1, BoundedMax
    <3>3. \A x \in finishes \cup {0} : x <= toldEnd'
      BY <1>3, <1>5
    <3>4. QED
      BY <2>2, <3>1, <3>2, <3>3 DEF NextMark
  <2>3. QED
    BY <2>1, <2>2
<1>7. /\ UNCHANGED <<clock, rowAt, stamp, watermark>>
      /\ \/ mark' = [mark EXCEPT ![h] = NextMark(finishes)]
         \/ mark' = mark
      /\ DOMAIN hook' = Hooks
  BY DEF Announce, AnnInv, AnnTypes
<1>8. toldEnd' \in Nat /\ toldEnd <= toldEnd' /\ toldEnd' <= clock
  BY <1>3, <1>5
<1>9. AnnTypes'
  BY <1>6, <1>7, <1>8 DEF AnnInv, AnnTypes
<1>10. MarksFollow'
  BY <1>6, <1>7, <1>8 DEF AnnInv, AnnTypes, MarksFollow
<1>11. Accounted'
  <2>1. told' = told \cup Finished
    BY DEF Announce
  <2>2. CASE watermark = 0
    BY <1>7, <2>1, <2>2 DEF Announce, Accounted
  <2>3. CASE watermark # 0
    <3>1. overtaken' = overtaken
      BY <2>3 DEF Announce
    <3>2. \A j \in JobIds : rowAt[j] <= watermark \/ j \in Finished
      BY <2>3 DEF Finished, AnnInv, AnnTypes
    <3>3. QED
      BY <1>7, <2>1, <3>1, <3>2 DEF AnnInv, AnnTypes, MarksFollow, Accounted
  <2>4. QED
    BY <2>2, <2>3
<1>12. QED
  BY <1>9, <1>10, <1>11 DEF AnnInv

LEMMA AnnNextInv == AnnInv /\ [AnnNext]_annVars => AnnInv'
<1> SUFFICES ASSUME AnnInv, [AnnNext]_annVars PROVE AnnInv'
  OBVIOUS
<1>1. CASE \E j \in JobIds : Launch(j) \/ StampEnd(j) \/ WriteEnd(j)
  BY <1>1, JobStep
<1>2. CASE \E h \in Hooks : Announce(h)
  BY <1>2, AnnounceStep
<1>3. CASE \E h \in Hooks : SaveMark(h)
  BY <1>3 DEF SaveMark, AnnInv, AnnTypes, MarksFollow, Accounted
<1>4. CASE ResetMark
  BY <1>4 DEF ResetMark, AnnInv, AnnTypes, MarksFollow, Accounted
<1>5. CASE Millisecond
  BY <1>5 DEF Millisecond, AnnInv, AnnTypes, MarksFollow, Accounted
<1>6. CASE UNCHANGED annVars
  BY <1>6 DEF annVars, AnnInv, AnnTypes, MarksFollow, Accounted
<1>7. QED
  BY <1>1, <1>2, <1>3, <1>4, <1>5, <1>6 DEF AnnNext

\* However hooks of several sessions, settles and resets of the watermark
\* interleave, a finished job that no session will be told of was told of, or
\* its row came when a later end had been told of (job-announcements.ts:60-76,
\* session-lifecycle.ts).
THEOREM EveryEndIsToldOf == AnnSpec => []EndIsToldOf
<1>1. AnnInv => EndIsToldOf
  BY DEF AnnInv, AnnTypes, MarksFollow, Accounted, EndIsToldOf
<1>2. QED
  BY <1>1, AnnInitInv, AnnNextInv, PTL DEF AnnSpec

-----------------------------------------------------------------------------
(* JobStatus.                                                              *)

ByWorker == {"completed", "failed"}
Records  == [status : Terminal \cup {"running"}, phase : Nat, child : {0, 1}]
Writes   == [by : Readers \cup {"worker", "cancel", "nobody"},
    kind : {"none", "progress", "settle"},
             step : {"none", "file", "row"}, status : Terminal \cup {"running", "none"},
             failed : BOOLEAN]

StsTypes ==
    /\ file \in Records /\ row \in Records
    /\ worker \in {"run", "busy", "settle", "gone"}
    /\ last \in Nat /\ pending \in [phase : Nat, child : {0, 1}] /\ reported \in {0, 1}
    /\ write \in Writes
    /\ DOMAIN reader = Readers /\ DOMAIN kind = Readers /\ listed \in [Readers -> Records]
    /\ said \subseteq Terminal

\* Progress is the worker's own, and a worker that is gone writes nothing.
WritesAreOwned ==
    /\ write.kind = "progress" => write.by = "worker"
    /\ write.by = "worker" => worker # "gone"

\* A settle never goes back on an outcome: it writes a row that has none, as
\* the job file says if that has one; only the worker brings in an outcome of
\* its run that the job file does not hold.
SettlesAgree ==
    write.kind = "settle" =>
        /\ write.status \in Terminal
        /\ write.step = "row" => ~Ended(row) /\ (Ended(file) => file.status = write.status)
        /\ write.by # "worker" /\ write.status \in ByWorker => Ended(file)

\* Whatever says how the job ended says the same.
OutcomesAgree ==
    /\ Ended(row) /\ Ended(file) => row.status = file.status
    /\ said # {} => Ended(row) \/ Ended(file)
    /\ \A s \in said : (Ended(row) => row.status = s) /\ (Ended(file) => file.status = s)
    /\ \A r \in Readers : Ended(listed[r]) => Ended(row) /\ row.status = listed[r].status

\* Once the worker is gone, its outcome reaches the row from the job file.
SettledShows ==
    \A r \in Readers : reader[r] = "again" =>
        /\ worker = "gone"
        /\ ~Ended(listed[r]) /\ row.status \in ByWorker => Ended(file)

\* The child's pid is on both, or goes out with the next write; one under
\* way has put it into the job file.
ChildKept ==
    /\ reported = 1 /\ ~Ended(row) /\ ~Ended(file) => pending.child = 1
       \/ (row.child = 1 /\ file.child = 1)
    /\ write.kind = "progress" /\ write.step = "row" /\ ~write.failed /\ pending.child = 1
       => file.child = 1

StsInv ==
    /\ StsTypes /\ WritesAreOwned /\ SettlesAgree /\ OutcomesAgree /\ SettledShows /\ ChildKept
    /\ stalledOn = {}

LEMMA StsInitInv == StsInit => StsInv
BY DEF StsInit, StsInv, StsTypes, WritesAreOwned, SettlesAgree, OutcomesAgree, SettledShows,
       ChildKept, Started, NoWrite, Nobody, Records, Writes, Ended, Terminal, ByWorker

\* What the records a step builds hold.
LEMMA PatchFacts ==
    ASSUME NEW r \in Records, pending \in [phase : Nat, child : {0, 1}]
    PROVE  /\ Patch(r) \in Records /\ Patch(r).status = r.status
           /\ pending.child = 1 => Patch(r).child = 1
           /\ pending.child # 1 => Patch(r).child = r.child
BY DEF Patch, Records

LEMMA SettledFacts ==
    ASSUME NEW r \in Records, NEW status \in Terminal
    PROVE  Settled(r, status) \in Records /\ Settled(r, status).status = status
BY DEF Settled, Records

LEMMA BeginFacts ==
    ASSUME NEW by \in Readers \cup {"worker", "cancel"}, NEW what \in {"progress", "settle"},
           NEW status \in Terminal \cup {"running"}, Begin(by, what, status)
    PROVE  /\ write = NoWrite /\ write' \in Writes
           /\ write'.by = by /\ write'.kind = what /\ write'.step = "file" /\ write'.status = status
BY DEF Begin, Locked, Writes

LEMMA NoWriteFacts ==
    NoWrite \in Writes /\ NoWrite.by = "nobody" /\ NoWrite.kind = "none" /\ NoWrite.step = "none"
BY DEF NoWrite, Nobody, Writes

\* A step that leaves both records, the readers and what was said alone
\* leaves what was said of the outcome alone.
LEMMA OutcomesStay ==
    ASSUME StsInv, StsTypes', file'.status = file.status, row'.status = row.status,
           UNCHANGED <<listed, said>>
    PROVE  OutcomesAgree'
BY DEF StsInv, OutcomesAgree, Ended

\* The updater's steps.
LEMMA ProgressEventStep ==
    ASSUME StsInv, ProgressEvent
    PROVE  StsInv'
<1>1. PICK ph \in 0..MaxPhase, child \in {0, 1 - reported} :
        /\ reported' = IF child = 1 THEN 1 ELSE reported
        /\ pending' = [phase |-> Track(ph), child |-> IF child = 1 THEN 1 ELSE pending.child]
        /\ \/ /\ pending' = [phase |-> 0, child |-> 0] /\ UNCHANGED <<write, worker>>
           \/ Begin("worker", "progress", "running") /\ worker' = "busy"
  BY DEF ProgressEvent
<1>2. /\ worker = "run" /\ write = NoWrite
      /\ UNCHANGED <<file, row, last, fails, cancel, reader, kind, listed, stalledOn, said>>
  BY DEF ProgressEvent, Locked, readVars
<1>3. pending' \in [phase : Nat, child : {0, 1}] /\ reported' \in {0, 1}
  BY <1>1 DEF StsInv, StsTypes, Track
<1>4. /\ write' \in Writes /\ worker' \in {"run", "busy"}
      /\ write'.kind # "settle" /\ write'.step # "row"
      /\ write'.kind = "progress" => write'.by = "worker"
  BY <1>1, <1>2, BeginFacts, NoWriteFacts
<1>5. StsTypes'
  BY <1>2, <1>3, <1>4 DEF StsInv, StsTypes
<1>6. WritesAreOwned' /\ SettlesAgree'
  BY <1>4 DEF WritesAreOwned, SettlesAgree
<1>7. OutcomesAgree'
  BY <1>2, <1>5, OutcomesStay
<1>8. SettledShows'
  BY <1>2 DEF StsInv, SettledShows
<1>9. ChildKept'
  <2>1. reported' = 1 => reported = 1 \/ pending'.child = 1
    BY <1>1
  <2>2. pending.child = 1 => pending'.child = 1
    BY <1>1, <1>3
  <2>3. QED
    BY <1>2, <1>4, <2>1, <2>2 DEF StsInv, ChildKept, Ended
<1>10. QED
  BY <1>2, <1>5, <1>6, <1>7, <1>8, <1>9 DEF StsInv

\* The return of an update, that wrote both records or found the job settled,
\* or that failed.
LEMMA EndProgressStep ==
    ASSUME StsInv, NEW ok \in BOOLEAN, EndProgress(ok), write.kind = "progress",
           file' \in Records, row' \in Records,
           file'.status = file.status, row'.status = row.status,
           \/ Ended(file) \/ Ended(row)
           \/ /\ file'.child = file.child \/ file'.child = 1
              /\ row'.child = row.child \/ row'.child = 1
              /\ ok /\ pending.child = 1 => row'.child = 1 /\ file'.child = 1,
           UNCHANGED <<cancel, readVars, said>>
    PROVE  StsInv'
<1>1. /\ write' = NoWrite /\ worker' = "run" /\ reported' = reported
      /\ pending' = pending \/ (ok /\ pending' = [phase |-> 0, child |-> 0])
      /\ last' \in Nat /\ pending' \in [phase : Nat, child : {0, 1}]
  BY DEF EndProgress, AfterProgress, StsInv, StsTypes
<1>2. UNCHANGED <<reader, kind, listed, stalledOn, said>>
  BY DEF readVars
<1>3. StsTypes'
  BY <1>1, <1>2, NoWriteFacts DEF StsInv, StsTypes
<1>4. WritesAreOwned' /\ SettlesAgree'
  BY <1>1, NoWriteFacts DEF WritesAreOwned, SettlesAgree
<1>5. OutcomesAgree'
  BY <1>2, <1>3, OutcomesStay
<1>6. worker # "gone"
  BY DEF StsInv, WritesAreOwned
<1>7. SettledShows'
  BY <1>2, <1>6 DEF StsInv, SettledShows
<1>8. ChildKept'
  BY <1>1, NoWriteFacts DEF StsInv, ChildKept, StsTypes, Records, Ended
<1>9. QED
  BY <1>2, <1>3, <1>4, <1>5, <1>7, <1>8 DEF StsInv

LEMMA ProgressFileStep ==
    ASSUME StsInv, ProgressFile
    PROVE  StsInv'
<1>1. CASE Ended(file) \/ Ended(row)
  <2>1. EndProgress(TRUE) /\ write.kind = "progress" /\ UNCHANGED <<file, row, cancel, readVars,
        said>>
    BY <1>1 DEF ProgressFile
  <2>2. QED
    BY <1>1, <2>1, EndProgressStep DEF StsInv, StsTypes
<1>2. CASE ~Ended(file) /\ ~Ended(row)
  <2>1. /\ write.kind = "progress" /\ write.step = "file"
        /\ UNCHANGED <<row, worker, last, pending, reported, cancel, reader, kind, listed,
           stalledOn, said>>
        /\ \/ file' = Patch(file) /\ write' = [write EXCEPT !.step = "row"]
           \/ write' = [write EXCEPT !.step = "row", !.failed = TRUE] /\ UNCHANGED file
    BY <1>2 DEF ProgressFile, workVars, readVars
  <2>2. /\ write' \in Writes /\ write'.kind = "progress" /\ write'.by = write.by
        /\ ~write'.failed => file' = Patch(file)
    BY <2>1 DEF StsInv, StsTypes, Writes
  <2>3. /\ file' \in Records /\ file'.status = file.status
        /\ file'.child = 1 \/ file'.child = file.child
        /\ ~write'.failed /\ pending.child = 1 => file'.child = 1
    BY <2>1, <2>2, PatchFacts DEF StsInv, StsTypes
  <2>4. StsTypes'
    BY <2>1, <2>2, <2>3 DEF StsInv, StsTypes
  <2>5. WritesAreOwned' /\ SettlesAgree'
    BY <2>1, <2>2 DEF StsInv, WritesAreOwned, SettlesAgree
  <2>6. OutcomesAgree'
    BY <2>1, <2>3, <2>4, OutcomesStay
  <2>7. SettledShows'
    BY <2>1, <2>3 DEF StsInv, SettledShows, Ended
  <2>8. ChildKept'
    BY <2>1, <2>3 DEF StsInv, StsTypes, ChildKept, Ended
  <2>9. QED
    BY <2>1, <2>4, <2>5, <2>6, <2>7, <2>8 DEF StsInv
<1>3. QED
  BY <1>1, <1>2

LEMMA ProgressRowStep ==
    ASSUME StsInv, ProgressRow
    PROVE  StsInv'
<1>1. /\ write.kind = "progress" /\ write.step = "row" /\ UNCHANGED <<file, cancel, readVars, said>>
      /\ \/ row' = Patch(row) /\ EndProgress(~write.failed)
         \/ EndProgress(FALSE) /\ UNCHANGED row
  BY DEF ProgressRow
<1>2. file' = file /\ file \in Records /\ row \in Records /\ write.failed \in BOOLEAN
      /\ pending \in [phase : Nat, child : {0, 1}]
  BY <1>1 DEF StsInv, StsTypes, Writes
<1>3. CASE row' = Patch(row) /\ EndProgress(~write.failed)
  <2>1. /\ row' \in Records /\ row'.status = row.status
        /\ row'.child = 1 \/ row'.child = row.child
        /\ pending.child = 1 => row'.child = 1
    BY <1>2, <1>3, PatchFacts
  <2>2. ~write.failed /\ pending.child = 1 => file.child = 1
    BY <1>1 DEF StsInv, ChildKept
  <2>3. QED
    BY <1>1, <1>2, <1>3, <2>1, <2>2, EndProgressStep
<1>4. CASE EndProgress(FALSE) /\ UNCHANGED row
  BY <1>1, <1>2, <1>4, EndProgressStep
<1>5. QED
  BY <1>1, <1>3, <1>4

-----------------------------------------------------------------------------
\* The steps of a settle, from its beginning.
LEMMA BeginSettleStep ==
    ASSUME StsInv, NEW by \in Readers \cup {"worker", "cancel"}, NEW status \in Terminal,
           Begin(by, "settle", status),
           worker' \in {"run", "busy", "settle", "gone"}, worker = "gone" => worker' = "gone",
           by = "worker" => worker' # "gone",
           by # "worker" /\ status \in ByWorker => Ended(file),
           DOMAIN reader' = Readers, \A r \in Readers : reader'[r] = "again" => reader[r] = "again",
           UNCHANGED <<file, row, last, pending, reported, kind, listed, stalledOn, said>>
    PROVE  StsInv'
<1>1. /\ write = NoWrite /\ write' \in Writes /\ write'.by = by /\ write'.kind = "settle"
      /\ write'.step = "file" /\ write'.status = status
  BY BeginFacts DEF Terminal
<1>2. StsTypes'
  BY <1>1 DEF StsInv, StsTypes
<1>3. WritesAreOwned' /\ SettlesAgree'
  BY <1>1 DEF WritesAreOwned, SettlesAgree, Ended
<1>4. OutcomesAgree'
  BY <1>2, OutcomesStay
<1>5. SettledShows'
  BY DEF StsInv, SettledShows, Ended
<1>6. ChildKept'
  BY <1>1 DEF StsInv, ChildKept, Ended
<1>7. QED
  BY <1>2, <1>3, <1>4, <1>5, <1>6 DEF StsInv

\* The end of a settle: what it reports is what the records hold now, which
\* is what they held if they did.
LEMMA ThroughStep ==
    ASSUME StsInv, NEW outcomes \in SUBSET Terminal, Through(write.by, outcomes),
           write.kind = "settle", file' \in Records, row' \in Records,
           Ended(file) => file'.status = file.status, Ended(row) => row'.status = row.status,
           Ended(file') /\ Ended(row') => file'.status = row'.status,
           outcomes # {} => Ended(file') \/ Ended(row'),
           \A s \in outcomes : /\ Ended(file') => file'.status = s
                               /\ Ended(row') => row'.status = s,
           row' = row \/ (Ended(row') /\ (row'.status \in ByWorker => write.by = "worker"
               \/ Ended(file))),
           file' = file \/ Ended(file')
    PROVE  StsInv'
<1>1. /\ write' = NoWrite /\ UNCHANGED <<last, pending, reported, kind, listed, stalledOn>>
      /\ worker' = IF write.by = "worker" THEN "gone" ELSE worker
      /\ reader' = [r \in Readers |-> IF r = write.by THEN "done" ELSE reader[r]]
      /\ said \subseteq said' /\ said' \subseteq said \cup outcomes
  BY DEF Through
<1>2. Ended(file) => Ended(file')
  BY DEF Ended
<1>3. Ended(row) => Ended(row')
  BY DEF Ended
<1>4. StsTypes'
  BY <1>1, NoWriteFacts DEF StsInv, StsTypes
<1>5. WritesAreOwned' /\ SettlesAgree'
  BY <1>1, NoWriteFacts DEF WritesAreOwned, SettlesAgree
<1>6. OutcomesAgree'
  <2>1. (Ended(row) /\ Ended(file) => row.status = file.status)'
    OBVIOUS
  <2>2. (said # {} => Ended(row) \/ Ended(file))'
    BY <1>1, <1>2, <1>3 DEF StsInv, OutcomesAgree
  <2>3. ASSUME NEW s \in said'
        PROVE  (Ended(row') => row'.status = s) /\ (Ended(file') => file'.status = s)
    <3>1. CASE s \in outcomes
      BY <3>1
    <3>2. CASE s \in said
      <4>1. \/ Ended(row) /\ row'.status = s
            \/ Ended(file) /\ file'.status = s
        BY <3>2 DEF StsInv, OutcomesAgree
      <4>2. QED
        BY <1>2, <1>3, <4>1
    <3>3. QED
      BY <1>1, <3>1, <3>2
  <2>4. (\A s \in said : (Ended(row) => row.status = s) /\ (Ended(file) => file.status = s))'
    BY <2>3 DEF Ended
  <2>5. (\A r \in Readers : Ended(listed[r]) => Ended(row) /\ row.status = listed[r].status)'
    BY <1>1, <1>3 DEF StsInv, OutcomesAgree, Ended
  <2>6. QED
    BY <2>1, <2>2, <2>4, <2>5 DEF OutcomesAgree
<1>7. SettledShows'
  <2>1. SUFFICES ASSUME NEW r \in Readers, reader'[r] = "again"
                 PROVE  /\ worker' = "gone"
                        /\ ~Ended(listed[r]) /\ row'.status \in ByWorker => Ended(file')
    BY <1>1 DEF SettledShows, Ended
  <2>2. reader[r] = "again" /\ worker = "gone"
    BY <1>1, <2>1 DEF StsInv, SettledShows
  <2>3. write.by # "worker"
    BY <2>2 DEF StsInv, WritesAreOwned
  <2>4. QED
    BY <1>1, <1>2, <2>2, <2>3 DEF StsInv, SettledShows
<1>8. ChildKept'
  BY <1>1, <1>2, <1>3, NoWriteFacts DEF StsInv, ChildKept
<1>9. QED
  BY <1>1, <1>4, <1>5, <1>6, <1>7, <1>8 DEF StsInv

\* The job file's half: it holds an outcome, or takes the row's or the
\* settle's.
LEMMA SettleFileStep ==
    ASSUME StsInv, SettleFile
    PROVE  StsInv'
<1>1. /\ write.kind = "settle" /\ write.step = "file" /\ row' = row
      /\ write \in Writes /\ file \in Records /\ row \in Records /\ write.status \in Terminal
  BY DEF SettleFile, StsInv, StsTypes, SettlesAgree
<1>2. FileOutcome = {} <=> ~Ended(file)
  BY DEF FileOutcome
<1>3. CASE /\ Ended(file) /\ Ended(row)
           /\ Through(write.by, FileOutcome) /\ UNCHANGED file
  <2>1. FileOutcome = {file.status} /\ file.status = row.status /\ file.status \in Terminal
    BY <1>3 DEF FileOutcome, StsInv, OutcomesAgree, Ended
  <2>2. FileOutcome \in SUBSET Terminal
    BY <2>1
  <2>3. Ended(file') /\ Ended(row') /\ file'.status = file.status /\ row'.status = row.status
    BY <1>1, <1>3 DEF Ended
  <2>4. QED
    BY <1>1, <1>3, <2>1, <2>2, <2>3, ThroughStep
<1>4. CASE /\ ~Ended(file) /\ Ended(row) /\ Through(write.by, {row.status})
           /\ file' = Settled(file, row.status) \/ file' = file
  <2>1. row.status \in Terminal /\ {row.status} \in SUBSET Terminal
    BY <1>4 DEF Ended
  <2>2. /\ file' \in Records /\ Ended(row')
        /\ file' = file \/ (Ended(file') /\ file'.status = row.status)
    BY <1>1, <1>4, <2>1, SettledFacts DEF Ended
  <2>3. Ended(file') => file'.status = row.status
    BY <1>4, <2>2 DEF Ended
  <2>4. QED
    BY <1>1, <1>4, <2>1, <2>2, <2>3, ThroughStep
<1>5. CASE /\ ~Ended(row) /\ UNCHANGED <<workVars, cancel, readVars, said>>
           /\ \/ /\ Ended(file) /\ file' = file
                 /\ write' = [write EXCEPT !.step = "row", !.status = file.status]
              \/ /\ ~Ended(file) /\ file' = Settled(file, write.status)
                 /\ write' = [write EXCEPT !.step = "row"]
              \/ /\ ~Ended(file) /\ file' = file
                 /\ write' = [write EXCEPT !.step = "row", !.failed = TRUE]
  <2>1. UNCHANGED <<worker, last, pending, reported, reader, kind, listed, stalledOn, said>>
    BY <1>5 DEF workVars, readVars
  <2>2. /\ write' \in Writes /\ write'.kind = "settle" /\ write'.by = write.by
        /\ write'.status \in Terminal
        /\ write'.status = IF Ended(file) THEN file.status ELSE write.status
    BY <1>1, <1>5 DEF Writes, Records, Ended
  <2>3. /\ file' \in Records
        /\ Ended(file) => file' = file
        /\ file' = file \/ (Ended(file') /\ file'.status = write'.status)
    BY <1>1, <1>5, <2>2, SettledFacts DEF Ended
  <2>4. StsTypes'
    BY <1>1, <2>1, <2>2, <2>3 DEF StsInv, StsTypes
  <2>5. WritesAreOwned'
    BY <2>1, <2>2 DEF StsInv, WritesAreOwned
  <2>6. SettlesAgree'
    <3>1. ~Ended(row')
      BY <1>1, <1>5 DEF Ended
    <3>2. Ended(file') => file'.status = write'.status
      BY <2>2, <2>3 DEF Ended
    <3>3. write.by # "worker" /\ write'.status \in ByWorker => Ended(file')
      BY <1>1, <2>2, <2>3 DEF StsInv, SettlesAgree, Ended
    <3>4. QED
      BY <2>2, <3>1, <3>2, <3>3 DEF SettlesAgree
  <2>7. OutcomesAgree'
    <3>1. CASE file' = file
      BY <1>1, <2>1, <2>4, <3>1, OutcomesStay
    <3>2. CASE ~Ended(file)
      <4>1. said = {} /\ \A r \in Readers : ~Ended(listed[r])
        BY <1>5, <3>2 DEF StsInv, OutcomesAgree
      <4>2. QED
        BY <1>1, <1>5, <2>1, <4>1 DEF OutcomesAgree, Ended
    <3>3. QED
      BY <2>3, <3>1, <3>2
  <2>8. SettledShows'
    BY <1>1, <2>1, <2>3 DEF StsInv, SettledShows, Ended
  <2>9. ChildKept'
    BY <1>1, <2>1, <2>2, <2>3 DEF StsInv, ChildKept, Ended
  <2>10. QED
    BY <2>1, <2>4, <2>5, <2>6, <2>7, <2>8, <2>9 DEF StsInv
<1>6. QED
  BY <1>2, <1>3, <1>4, <1>5 DEF SettleFile

LEMMA SettleRowStep ==
    ASSUME StsInv, SettleRow
    PROVE  StsInv'
<1>1. /\ write.kind = "settle" /\ write.step = "row" /\ file' = file
      /\ file \in Records /\ row \in Records /\ write.status \in Terminal /\ ~Ended(row)
      /\ Ended(file) => file.status = write.status
      /\ write.by # "worker" /\ write.status \in ByWorker => Ended(file)
  BY DEF SettleRow, StsInv, StsTypes, SettlesAgree
<1>2. CASE /\ row' = Settled(row, write.status)
           /\ Through(write.by, IF write.failed THEN {} ELSE {write.status})
  <2>1. (IF write.failed THEN {} ELSE {write.status}) \in SUBSET Terminal
    BY <1>1
  <2>2. row' \in Records /\ row'.status = write.status /\ Ended(row')
    BY <1>1, <1>2, SettledFacts DEF Ended
  <2>3. Ended(file') => file'.status = write.status
    BY <1>1 DEF Ended
  <2>4. \A s \in (IF write.failed THEN {} ELSE {write.status}) : s = write.status
    OBVIOUS
  <2>5. QED
    BY <1>1, <1>2, <2>1, <2>2, <2>3, <2>4, ThroughStep
<1>3. CASE Through(write.by, {}) /\ UNCHANGED row
  <2>1. ~Ended(row') /\ {} \in SUBSET Terminal
    BY <1>1, <1>3 DEF Ended
  <2>2. QED
    BY <1>1, <1>3, <2>1, ThroughStep
<1>4. QED
  BY <1>2, <1>3 DEF SettleRow

LEMMA WorkerDiesStep ==
    ASSUME StsInv, WorkerDies
    PROVE  StsInv'
<1>1. /\ worker' = "gone" /\ UNCHANGED <<file, row, last, pending, reported, reader, kind, listed,
         stalledOn, said>>
      /\ IF write.by = "worker" THEN write' = NoWrite ELSE write' = write
  BY DEF WorkerDies, readVars
<1>2. StsTypes'
  BY <1>1, NoWriteFacts DEF StsInv, StsTypes
<1>3. WritesAreOwned'
  BY <1>1, NoWriteFacts DEF StsInv, WritesAreOwned
<1>4. SettlesAgree'
  BY <1>1, NoWriteFacts DEF StsInv, SettlesAgree, Ended
<1>5. OutcomesAgree'
  BY <1>1, <1>2, OutcomesStay
<1>6. SettledShows'
  BY <1>1 DEF StsInv, SettledShows, Ended
<1>7. ChildKept'
  BY <1>1, NoWriteFacts DEF StsInv, ChildKept, Ended
<1>8. QED
  BY <1>1, <1>2, <1>3, <1>4, <1>5, <1>6, <1>7 DEF StsInv

-----------------------------------------------------------------------------
\* A reader's report of outcomes that the records hold.
LEMMA ReportStep ==
    ASSUME StsInv, NEW r \in Readers, NEW outcomes \in SUBSET Terminal, NEW stalled \in BOOLEAN,
           Report(r, outcomes, stalled),
           outcomes # {} => Ended(file) \/ Ended(row),
           \A s \in outcomes : /\ Ended(file) => file.status = s
                               /\ Ended(row) => row.status = s,
           stalled => {row.status, file.status} \cap ByWorker = {}
    PROVE  StsInv'
<1>1. /\ UNCHANGED <<file, row, worker, last, pending, reported, write, kind, listed, stalledOn>>
      /\ reader' = [reader EXCEPT ![r] = "done"] /\ said' = said \cup outcomes
  BY DEF Report, workVars, ByWorker
<1>2. StsTypes'
  BY <1>1 DEF StsInv, StsTypes
<1>3. WritesAreOwned' /\ SettlesAgree'
  BY <1>1 DEF StsInv, WritesAreOwned, SettlesAgree, Ended
<1>4. OutcomesAgree'
  BY <1>1 DEF StsInv, OutcomesAgree, Ended
<1>5. SettledShows'
  BY <1>1 DEF StsInv, StsTypes, SettledShows, Ended
<1>6. ChildKept'
  BY <1>1 DEF StsInv, ChildKept, Ended
<1>7. QED
  BY <1>1, <1>2, <1>3, <1>4, <1>5, <1>6 DEF StsInv

\* A reader's step that only reads the row, or goes on to read again.
LEMMA LookStep ==
    ASSUME StsInv, NEW r \in Readers,
           UNCHANGED <<file, row, workVars, write, cancel, said, stalledOn>>,
           NEW to, reader' = [reader EXCEPT ![r] = to],
           DOMAIN kind' = Readers,
           listed' = listed \/ listed' = [listed EXCEPT ![r] = row],
           to = "again" => worker = "gone" /\ listed' = [listed EXCEPT ![r] = row]
    PROVE  StsInv'
<1>1. UNCHANGED <<worker, last, pending, reported>>
  BY DEF workVars
<1>2. StsTypes'
  BY <1>1 DEF StsInv, StsTypes
<1>3. WritesAreOwned' /\ SettlesAgree'
  BY <1>1 DEF StsInv, WritesAreOwned, SettlesAgree, Ended
<1>4. OutcomesAgree'
  BY <1>1 DEF StsInv, StsTypes, OutcomesAgree, Ended
<1>5. SettledShows'
  <2>1. SUFFICES ASSUME NEW q \in Readers, reader'[q] = "again"
                 PROVE  /\ worker = "gone"
                        /\ ~Ended(listed'[q]) /\ row.status \in ByWorker => Ended(file)
    BY <1>1 DEF SettledShows, Ended
  <2>2. CASE q = r
    BY <2>1, <2>2 DEF StsInv, StsTypes, Ended, ByWorker, Terminal
  <2>3. CASE q # r
    BY <2>1, <2>3 DEF StsInv, StsTypes, SettledShows
  <2>4. QED
    BY <2>2, <2>3
<1>6. ChildKept'
  BY <1>1 DEF StsInv, ChildKept, Ended
<1>7. QED
  BY <1>1, <1>2, <1>3, <1>4, <1>5, <1>6 DEF StsInv

LEMMA ReaderStep ==
    ASSUME StsInv, NEW r \in Readers,
           \/ ReadRow(r) \/ PollAgain(r) \/ EnrichRow(r) \/ ReadRowAgain(r) \/ ReadFileAgain(r)
           \/ ResultOfRow(r) \/ ResultOfFile(r)
    PROVE  StsInv'
<1>1. CASE ReadRow(r)
  <2>1. DOMAIN kind' = Readers
    BY <1>1 DEF ReadRow, StsInv, StsTypes
  <2>2. PICK to \in {"open", "listed"} : reader' = [reader EXCEPT ![r] = to]
    BY <1>1 DEF ReadRow
  <2>3. QED
    BY <1>1, <2>1, <2>2, LookStep DEF ReadRow
<1>2. CASE PollAgain(r)
  BY <1>2, LookStep DEF PollAgain, StsInv, StsTypes
<1>3. CASE EnrichRow(r) \/ ResultOfRow(r)
  <2>1. \/ Ended(listed[r]) /\ Report(r, {listed[r].status}, FALSE)
        \/ Report(r, {}, FALSE)
    BY <1>3 DEF EnrichRow, ResultOfRow, Active
  <2>2. CASE Ended(listed[r]) /\ Report(r, {listed[r].status}, FALSE)
    <3>1. Ended(row) /\ row.status = listed[r].status
      BY <2>2 DEF StsInv, OutcomesAgree
    <3>2. Ended(file) => file.status = listed[r].status
      BY <3>1 DEF StsInv, OutcomesAgree
    <3>3. {listed[r].status} \in SUBSET Terminal
      BY <2>2 DEF Ended
    <3>4. QED
      BY <2>2, <3>1, <3>2, <3>3, ReportStep
  <2>3. CASE Report(r, {}, FALSE)
    <3>1. {} \in SUBSET Terminal
      OBVIOUS
    <3>2. QED
      BY <2>3, <3>1, ReportStep
  <2>4. QED
    BY <2>1, <2>2, <2>3
<1>4. CASE ReadRowAgain(r)
  BY <1>4, LookStep DEF ReadRowAgain, GoneNow, StsInv, StsTypes
<1>5. CASE ReadFileAgain(r)
  <2>1. reader[r] = "again" /\ Report(r, SettledSinceRead(listed[r]),
        SettledSinceRead(listed[r]) = {})
    BY <1>5 DEF ReadFileAgain
  <2>2. /\ SettledSinceRead(listed[r]) \in SUBSET Terminal
        /\ SettledSinceRead(listed[r]) # {} => Ended(file) \/ Ended(row)
    BY DEF SettledSinceRead, StsInv, OutcomesAgree, Ended
  <2>3. \A s \in SettledSinceRead(listed[r]) : /\ Ended(file) => file.status = s
                                               /\ Ended(row) => row.status = s
    BY DEF SettledSinceRead, StsInv, OutcomesAgree
  <2>4. SettledSinceRead(listed[r]) = {} => {row.status, file.status} \cap ByWorker = {}
    <3>1. SUFFICES ASSUME SettledSinceRead(listed[r]) = {}
                   PROVE  row.status \notin ByWorker /\ file.status \notin ByWorker
      OBVIOUS
    <3>2. ~Ended(listed[r]) /\ ~Ended(file)
      BY <3>1 DEF SettledSinceRead
    <3>3. QED
      BY <2>1, <3>2 DEF StsInv, SettledShows, Ended, ByWorker, Terminal
  <2>5. QED
    BY <2>1, <2>2, <2>3, <2>4, ReportStep
<1>6. CASE ResultOfFile(r)
  <2>1. CASE Ended(file)
    <3>1. Begin(r, "settle", file.status) /\ reader' = [reader EXCEPT ![r] = "busy"]
          /\ UNCHANGED <<file, row, worker, last, pending, reported, kind, listed, stalledOn, said>>
      BY <1>6, <2>1 DEF ResultOfFile, workVars
    <3>2. r # "worker" /\ file.status \in Terminal
      BY <2>1, ReadersAssumption DEF Ended
    <3>3. DOMAIN reader' = Readers /\ \A q \in Readers : reader'[q] = "again" => reader[q] = "again"
      BY <3>1 DEF StsInv, StsTypes
    <3>4. QED
      BY <2>1, <3>1, <3>2, <3>3, BeginSettleStep DEF StsInv, StsTypes
  <2>2. CASE ~Ended(file)
    <3>1. Report(r, {}, FALSE) /\ {} \in SUBSET Terminal
      BY <1>6, <2>2 DEF ResultOfFile
    <3>2. QED
      BY <3>1, ReportStep
  <2>3. QED
    BY <2>1, <2>2
<1>7. QED
  BY <1>1, <1>2, <1>3, <1>4, <1>5, <1>6

-----------------------------------------------------------------------------
LEMMA StsNextInv == StsInv /\ [StsNext]_stsVars => StsInv'
<1> SUFFICES ASSUME StsInv, [StsNext]_stsVars PROVE StsInv'
  OBVIOUS
<1>1. CASE ProgressEvent \/ ProgressFile \/ ProgressRow
  BY <1>1, ProgressEventStep, ProgressFileStep, ProgressRowStep
<1>2. CASE RunEnds
  <2>1. PICK status \in {"completed", "failed"} : Begin("worker", "settle", status)
    BY <1>2 DEF RunEnds
  <2>2. /\ worker = "run" /\ worker' = "settle"
        /\ UNCHANGED <<file, row, last, pending, reported, reader, kind, listed, stalledOn, said>>
    BY <1>2 DEF RunEnds, readVars
  <2>3. DOMAIN reader' = Readers /\ status \in Terminal
    BY <2>2 DEF StsInv, StsTypes, Terminal
  <2>4. QED
    BY <2>1, <2>2, <2>3, BeginSettleStep
<1>3. CASE Cancel
  <2>1. /\ Begin("cancel", "settle", "cancelled")
        /\ UNCHANGED <<file, row, worker, last, pending, reported, reader, kind, listed, stalledOn,
           said>>
    BY <1>3 DEF Cancel, readVars, workVars
  <2>2. "cancelled" \in Terminal /\ "cancelled" \notin ByWorker
    BY DEF Terminal, ByWorker
  <2>3. QED
    BY <2>1, <2>2, BeginSettleStep DEF StsInv, StsTypes
<1>4. CASE SettleFile \/ SettleRow \/ WorkerDies
  BY <1>4, SettleFileStep, SettleRowStep, WorkerDiesStep
<1>5. CASE \E r \in Readers : \/ ReadRow(r) \/ PollAgain(r) \/ EnrichRow(r)
                              \/ ReadRowAgain(r) \/ ReadFileAgain(r)
                              \/ ResultOfRow(r) \/ ResultOfFile(r)
  BY <1>5, ReaderStep
<1>6. CASE UNCHANGED stsVars
  BY <1>6 DEF stsVars, StsInv, StsTypes, WritesAreOwned, SettlesAgree, OutcomesAgree, SettledShows,
              ChildKept, Ended
<1>7. QED
  BY <1>1, <1>2, <1>3, <1>4, <1>5, <1>6 DEF StsNext

LEMMA StsAlways == StsSpec => []StsInv
BY StsInitInv, StsNextInv, PTL DEF StsSpec

\* Whatever writes fail and wherever the worker dies, what status, result and
\* cancel say of a job's outcome is the one that stands, and `stalled` is not
\* said of a job that its worker settled (job-control.ts:436-452, 690-735).
THEOREM ReportsAreTrue == StsSpec => []StatusIsTrue
<1>1. StsInv => StatusIsTrue
  <2> SUFFICES ASSUME StsInv PROVE StatusIsTrue
    OBVIOUS
  <2>1. PICK s : said \subseteq {s}
    <3>1. \A s, t \in said : s = t
      BY DEF StsInv, OutcomesAgree
    <3>2. QED
      BY <3>1
  <2>2. said = {} \/ said = {s}
    BY <2>1
  <2>3. Cardinality(said) <= 1
    <3>1. Cardinality({}) = 0 /\ Cardinality({s}) = 1
      BY FS_EmptySet, FS_Singleton
    <3>2. QED
      BY <2>2, <3>1
  <2>4. QED
    BY <2>3 DEF StatusIsTrue, ReportStands, StalledIsUnsettled, StsInv, OutcomesAgree
<1>2. QED
  BY <1>1, StsAlways, PTL

\* The child's pid, reported once, is on the row and in the job file of a job
\* that runs, or a later write takes it there (tracked-jobs.ts:145-215).
THEOREM ChildPidIsKept == StsSpec => []ChildPidGoesOut
<1>1. StsInv => ChildPidGoesOut
  BY DEF StsInv, ChildKept, ChildPidGoesOut
<1>2. QED
  BY <1>1, StsAlways, PTL

-----------------------------------------------------------------------------
(* WorkRecords.                                                            *)

\* What the files hold.
PlanFiles == [text : Texts, implemented : BOOLEAN]
PlanRefs == [slot : Slots, text : Texts \cup {None}]
Entries == [Keys -> [by : Callers] \cup {None}]
WorkFiles ==
    [run : Callers, slot : Slots, text : Texts \cup {None}, entries : Entries, complete : BOOLEAN]

Calls ==
    [op : {"none", "store", "review", "mark", "clearPlan", "record", "update", "complete", "clear"},
     on : Slots \cup Kinds \cup {"none"},
     seen : PlanFiles \cup WorkFiles \cup PlanRefs \cup [text : Texts] \cup {None},
     patch : SUBSET (Slots \cup Keys), step : {"idle", "read", "done"}]

RecTypes ==
    /\ plan \in [Slots -> PlanFiles \cup {None}]
    /\ work \in [Kinds -> WorkFiles \cup {None}]
    /\ merged \in [Kinds -> Entries]
    /\ given \in [Callers -> PlanRefs \cup {None}]
    /\ call \in [Callers -> Calls]

\* What a command that is under way has read, by its operation.
Reading(c, ops) == call[c].step = "read" /\ call[c].op \in ops
ReadsFit ==
    \A c \in Callers :
        /\ Reading(c, {"review", "mark"}) => call[c].on \in Slots
        /\ Reading(c, {"review"}) => call[c].seen \in [text : Texts]
        /\ Reading(c, {"mark"}) => call[c].seen \in PlanFiles
        /\ Reading(c, {"record", "update", "complete"}) => call[c].on \in Kinds
           /\ call[c].patch \subseteq Keys
        /\ Reading(c, {"record"}) => call[c].seen = given[c] /\ call[c].seen \in PlanRefs
        /\ Reading(c, {"update", "complete"}) => call[c].seen \in WorkFiles
        /\ Reading(c, {"clearPlan"}) => call[c].on = "implement" /\ call[c].seen \in WorkFiles
           \cup {None}

\* A record of work names the plan that its --record read, and that command
\* is past its read for good.
Named(r, g, cs) == g[r.run] = [slot |-> r.slot, text |-> r.text] /\ cs[r.run].step # "idle"
Marked(s, p, m) == p.implemented => <<s, p.text>> \in m

\* The files name what was given and marked, and so does what a command is
\* about to write back over them.
RecordsNamed ==
    /\ \A w \in Kinds : work[w] # None => Named(work[w], given, call)
    /\ \A c \in Callers : Reading(c, {"update", "complete"}) => Named(call[c].seen, given, call)
PlansMarked ==
    /\ \A s \in Slots : plan[s] # None => Marked(s, plan[s], marked)
    /\ \A c \in Callers : Reading(c, {"mark"}) => <<call[c].on, call[c].seen.text>> \in marked

\* A record that nobody wrote behind a reader's back is what its readers saw.
ReadsAreFresh ==
    \A c \in Callers :
        Reading(c, {"update", "complete", "clearPlan"}) /\ call[c].on \notin raced =>
            call[c].seen = work[call[c].on]

RecInv ==
    RecTypes /\ ReadsFit /\ RecordsNamed /\ PlansMarked /\ ReadsAreFresh /\ EntriesKept

LEMMA NoneIsNoFile ==
    /\ None \notin PlanFiles /\ None \notin WorkFiles /\ \A c \in Callers : [by |-> c] # None
BY DEF None, PlanFiles, WorkFiles

LEMMA EntriesBy ==
    ASSUME NEW c \in Callers, NEW keys \in SUBSET Keys PROVE By(c, keys) \in Entries
BY DEF By, Entries

LEMMA RecInitInv == RecInit => RecInv
<1> SUFFICES ASSUME RecInit PROVE RecInv
  OBVIOUS
<1>1. \A c \in Callers : call[c].step = "idle"
  BY DEF RecInit
<1>2. call \in [Callers -> Calls]
  <2>1. [op |-> "none", on |-> "none", seen |-> None, patch |-> {}, step |-> "idle"] \in Calls
    BY DEF Calls
  <2> QED
    BY <2>1 DEF RecInit
<1>3. RecTypes
  BY <1>2 DEF RecInit, RecTypes, NoEntries, Entries
<1>4. ReadsFit /\ ReadsAreFresh
  BY <1>1 DEF ReadsFit, ReadsAreFresh, Reading
<1>5. RecordsNamed /\ PlansMarked
  BY <1>1 DEF RecInit, RecordsNamed, PlansMarked, Reading
<1>6. EntriesKept
  BY DEF RecInit, EntriesKept
<1> QED
  BY <1>3, <1>4, <1>5, <1>6 DEF RecInv

\* A command's own step leaves the other commands alone.
OnlyMoves(c, step) ==
    /\ call' \in [Callers -> Calls]
    /\ call'[c].step = step
    /\ \A d \in Callers \ {c} : call'[d] = call[d]

LEMMA EndFacts == ASSUME RecTypes, NEW c \in Callers, Ends(c) PROVE OnlyMoves(c, "done")
BY DEF RecTypes, Calls, Ends, OnlyMoves

LEMMA AtOnceFacts ==
    ASSUME RecTypes, NEW c \in Callers, NEW op \in {"store", "clear"},
           call' = [call EXCEPT ![c].step = "done", ![c].op = op]
    PROVE  OnlyMoves(c, "done")
<1>1. [call[c] EXCEPT !.step = "done", !.op = op] \in Calls
  BY DEF RecTypes, Calls
<1>2. call' = [call EXCEPT ![c] = [call[c] EXCEPT !.step = "done", !.op = op]]
  BY DEF RecTypes
<1> QED
  BY <1>1, <1>2 DEF RecTypes, OnlyMoves

LEMMA ReadFacts ==
    ASSUME RecTypes, NEW c \in Callers, NEW r \in Calls, r.step = "read",
           call' = [call EXCEPT ![c] = r]
    PROVE  OnlyMoves(c, "read") /\ call'[c] = r
BY DEF RecTypes, OnlyMoves

\* Who reads what stands over a step that ends a command.
LEMMA EndKeeps ==
    ASSUME RecInv, NEW c \in Callers, OnlyMoves(c, "done"), UNCHANGED given,
           marked \subseteq marked'
    PROVE  /\ ReadsFit'
           /\ \A r \in WorkFiles : Named(r, given, call) => Named(r, given', call')
           /\ \A d \in Callers : Reading(d, {"update", "complete"})'
              => Named(call'[d].seen, given', call')
           /\ \A d \in Callers : Reading(d, {"mark"})' => <<call'[d].on,
              call'[d].seen.text>> \in marked'
<1>1. \A d \in Callers : call'[d] = call[d] \/ call'[d].step = "done"
  BY DEF OnlyMoves
<1>2. ReadsFit'
  BY <1>1 DEF RecInv, ReadsFit, Reading
<1>3. \A r \in WorkFiles : Named(r, given, call) => Named(r, given', call')
  BY <1>1 DEF Named, WorkFiles
<1>4. \A d \in Callers : Reading(d, {"update", "complete"})' => Named(call'[d].seen, given', call')
  BY <1>1, <1>3 DEF RecInv, ReadsFit, RecordsNamed, Reading
<1>5. \A d \in Callers : Reading(d, {"mark"})' => <<call'[d].on, call'[d].seen.text>> \in marked'
  BY <1>1 DEF RecInv, PlansMarked, Marked, Reading
<1> QED
  BY <1>2, <1>3, <1>4, <1>5

\* A file that is written is marked as raced if anyone else has read it.
LEMMA WriteKeeps ==
    ASSUME RecInv, NEW c \in Callers, OnlyMoves(c, "done"), NEW f, Wrote(c, f),
           \A w \in Kinds \ {f} : work'[w] = work[w]
    PROVE  ReadsAreFresh' /\ raced \subseteq raced'
<1>1. raced \subseteq raced'
  BY DEF Wrote
<1>2. ASSUME NEW d \in Callers, Reading(d, {"update", "complete", "clearPlan"})',
             call'[d].on \notin raced'
      PROVE  call'[d].seen = work'[call'[d].on]
  <2>1. d # c /\ call'[d] = call[d] /\ Reading(d, {"update", "complete", "clearPlan"})
    BY <1>2 DEF OnlyMoves, Reading
  <2>2. call[d].on # f
    BY <1>2, <2>1 DEF Wrote, Reading
  <2>3. call[d].on \in Kinds
    BY <2>1, KindsAssumption DEF RecInv, ReadsFit, Reading
  <2> QED
    BY <1>1, <1>2, <2>1, <2>2, <2>3 DEF RecInv, ReadsAreFresh
<1> QED
  BY <1>1, <1>2 DEF ReadsAreFresh

\* A command that reads changes no file.
LEMMA ReadKeeps ==
    ASSUME RecInv, NEW c \in Callers, call[c].step = "idle", NEW r \in Calls, r.step = "read",
           call' = [call EXCEPT ![c] = r],
           UNCHANGED <<plan, work, merged, strange, raced>>,
           given' \in [Callers -> PlanRefs \cup {None}],
           \A d \in Callers \ {c} : given'[d] = given[d], marked \subseteq marked',
           r.op \in {"review", "mark"} => r.on \in Slots,
           r.op = "review" => r.seen \in [text : Texts],
           r.op = "mark" => r.seen \in PlanFiles /\ <<r.on, r.seen.text>> \in marked',
           r.op \in {"record", "update", "complete"} => r.on \in Kinds /\ r.patch \subseteq Keys,
           r.op = "record" => r.seen = given'[c] /\ r.seen \in PlanRefs,
           r.op \in {"update", "complete"} => r.seen = work[r.on] /\ r.seen # None,
           r.op # "clearPlan"
    PROVE  RecInv'
<1>1. OnlyMoves(c, "read") /\ call'[c] = r
  BY ReadFacts DEF RecInv
<1>2. RecTypes'
  BY <1>1 DEF RecInv, RecTypes, OnlyMoves
<1>3. \A d \in Callers : d = c \/ call'[d] = call[d]
  BY <1>1 DEF OnlyMoves
<1>4. \A w \in Kinds : work[w] = None \/ work[w] \in WorkFiles
  BY DEF RecInv, RecTypes
<1>5. ReadsFit'
  BY <1>1, <1>3, <1>4 DEF RecInv, ReadsFit, Reading
<1>6. \A q \in WorkFiles : Named(q, given, call) => Named(q, given', call')
  BY <1>1, <1>3 DEF Named, WorkFiles
<1>7. RecordsNamed'
  <2>1. \A w \in Kinds : work[w] # None => Named(work[w], given', call')
    BY <1>4, <1>6 DEF RecInv, RecordsNamed
  <2>2. r.op \in {"update", "complete"} => Named(r.seen, given', call')
    BY <2>1
  <2>3. \A d \in Callers \ {c} : Reading(d, {"update", "complete"})
        => Named(call[d].seen, given', call')
    BY <1>6 DEF RecInv, ReadsFit, RecordsNamed, Reading
  <2> QED
    BY <1>1, <1>3, <2>1, <2>2, <2>3 DEF RecordsNamed, Reading
<1>8. PlansMarked'
  BY <1>1, <1>3 DEF RecInv, PlansMarked, Marked, Reading
<1>9. ReadsAreFresh'
  BY <1>1, <1>3 DEF RecInv, ReadsAreFresh, Reading
<1>10. EntriesKept'
  BY DEF RecInv, EntriesKept
<1> QED
  BY <1>2, <1>5, <1>7, <1>8, <1>9, <1>10 DEF RecInv

\* A command that ends without a write, and one that writes a plan.
LEMMA PlanKeeps ==
    ASSUME RecInv, NEW c \in Callers, OnlyMoves(c, "done"), UNCHANGED <<work, given, merged, marked,
           strange>>,
           \/ UNCHANGED <<plan, raced>>
           \/ \E s \in Slots, p \in PlanFiles :
                 plan' = [plan EXCEPT ![s] = p] /\ Marked(s, p, marked) /\ Wrote(c, s)
    PROVE  RecInv'
<1>1. RecTypes'
  BY DEF RecInv, RecTypes, OnlyMoves
<1>2. ReadsAreFresh' /\ raced \subseteq raced'
  <2>1. CASE UNCHANGED <<plan, raced>>
    BY <2>1 DEF RecInv, ReadsAreFresh, Reading, OnlyMoves
  <2> QED
    BY <2>1, WriteKeeps
<1>3. ReadsFit' /\ RecordsNamed'
  BY EndKeeps DEF RecInv, RecTypes, RecordsNamed
<1>4. PlansMarked'
  <2>1. \A s \in Slots : plan'[s] = plan[s] \/ Marked(s, plan'[s], marked)
    BY DEF RecInv, RecTypes
  <2> QED
    BY <2>1, EndKeeps DEF RecInv, PlansMarked, Marked
<1>5. EntriesKept'
  BY <1>2 DEF RecInv, EntriesKept
<1> QED
  BY <1>1, <1>2, <1>3, <1>4, <1>5 DEF RecInv

\* A command that writes a record of work.
LEMMA WorkKeeps ==
    ASSUME RecInv, NEW c \in Callers, OnlyMoves(c, "done"), NEW w \in Kinds, Wrote(c, w),
           NEW r \in WorkFiles \cup {None}, work' = [work EXCEPT ![w] = r], r # None
               => Named(r, given', call'),
           merged' \in [Kinds -> Entries], \A v \in Kinds \ {w} : merged'[v] = merged[v],
           r # None /\ w \notin raced => r.entries = merged'[w],
           strange' \subseteq strange \cup raced', UNCHANGED <<plan, given, marked>>
    PROVE  RecInv'
<1>1. RecTypes'
  BY DEF RecInv, RecTypes, OnlyMoves
<1>2. ReadsAreFresh' /\ raced \subseteq raced'
  BY WriteKeeps DEF RecInv, RecTypes
<1>3. ReadsFit' /\ PlansMarked'
  BY EndKeeps DEF RecInv, PlansMarked, Marked
<1>4. RecordsNamed'
  <2>1. \A v \in Kinds : work'[v] # None => v = w
        \/ (work'[v] = work[v] /\ Named(work[v], given, call))
    BY DEF RecInv, RecTypes, RecordsNamed
  <2>2. \A v \in Kinds : work'[v] # None => Named(work'[v], given', call')
    <3>1. \A v \in Kinds : work[v] = None \/ work[v] \in WorkFiles
      BY DEF RecInv, RecTypes
    <3>2. work'[w] = r
      BY DEF RecInv, RecTypes
    <3> QED
      BY <2>1, <3>1, <3>2, EndKeeps
  <2> QED
    BY <2>2, EndKeeps DEF RecordsNamed
<1>5. EntriesKept'
  BY <1>2 DEF RecInv, RecTypes, EntriesKept
<1> QED
  BY <1>1, <1>2, <1>3, <1>4, <1>5 DEF RecInv

LEMMA PlanStep ==
    ASSUME RecInv, NEW c \in Callers, PlanStore(c) \/ PlanReviewEnds(c) \/ MarkWrites(c)
    PROVE  RecInv'
<1>1. CASE PlanStore(c)
  <2>1. PICK s \in Slots, t \in Texts :
           /\ plan' = [plan EXCEPT ![s] = Stored(s, t)] /\ Wrote(c, s)
           /\ call' = [call EXCEPT ![c].step = "done", ![c].op = "store"]
    BY <1>1 DEF PlanStore
  <2>2. OnlyMoves(c, "done")
    BY <2>1, AtOnceFacts DEF RecInv
  <2>3. Stored(s, t) \in PlanFiles /\ Marked(s, Stored(s, t), marked)
    BY DEF Stored, PlanFiles, Marked
  <2> QED
    BY <1>1, <2>1, <2>2, <2>3, PlanKeeps DEF PlanStore
<1>2. CASE PlanReviewEnds(c)
  <2> DEFINE s == call[c].on
             p == Stored(s, call[c].seen.text)
  <2>1. OnlyMoves(c, "done")
    BY <1>2, EndFacts DEF RecInv, PlanReviewEnds
  <2>2. s \in Slots /\ p \in PlanFiles /\ Marked(s, p, marked)
    BY <1>2 DEF RecInv, ReadsFit, Reading, PlanReviewEnds, Stored, PlanFiles, Marked
  <2>3. UNCHANGED <<plan, raced>> \/ (plan' = [plan EXCEPT ![s] = p] /\ Wrote(c, s))
    BY <1>2 DEF PlanReviewEnds
  <2>4. UNCHANGED <<work, given, merged, marked, strange>>
    BY <1>2 DEF PlanReviewEnds
  <2> HIDE DEF s, p
  <2> QED
    BY <2>1, <2>2, <2>3, <2>4, PlanKeeps
<1>3. CASE MarkWrites(c)
  <2> DEFINE s == call[c].on
             p == [call[c].seen EXCEPT !.implemented = TRUE]
  <2>1. OnlyMoves(c, "done")
    BY <1>3, EndFacts DEF RecInv, MarkWrites
  <2>2. s \in Slots /\ call[c].seen \in PlanFiles
    BY <1>3 DEF RecInv, ReadsFit, Reading, MarkWrites
  <2>3. p \in PlanFiles /\ Marked(s, p, marked)
    <3>1. p.text = call[c].seen.text /\ p.implemented /\ p \in PlanFiles
      BY <2>2 DEF PlanFiles
    <3>2. <<s, call[c].seen.text>> \in marked
      BY <1>3 DEF RecInv, PlansMarked, Marked, Reading, MarkWrites
    <3> QED
      BY <3>1, <3>2 DEF Marked
  <2>4. plan' = [plan EXCEPT ![s] = p] /\ Wrote(c, s) /\ UNCHANGED <<work, given, merged, marked,
        strange>>
    BY <1>3 DEF MarkWrites
  <2> HIDE DEF s, p
  <2> QED
    BY <2>1, <2>2, <2>3, <2>4, PlanKeeps
<1> QED
  BY <1>1, <1>2, <1>3

LEMMA ReadStep ==
    ASSUME RecInv, NEW c \in Callers,
           PlanReviewBegins(c) \/ MarkReads(c) \/ RecordReads(c) \/ UpdateReads(c)
    PROVE  RecInv'
<1>1. CASE PlanReviewBegins(c)
  <2>1. PICK s \in Slots, t \in Texts : Reads(c, "review", s, [text |-> t], {})
    BY <1>1 DEF PlanReviewBegins
  <2> DEFINE r == [op |-> "review", on |-> s, seen |-> [text |-> t], patch |-> {}, step |-> "read"]
  <2>2. r \in Calls /\ call' = [call EXCEPT ![c] = r]
    BY <2>1 DEF Reads, Calls
  <2>3. r.op = "review" /\ r.on \in Slots /\ r.seen \in [text : Texts] /\ r.step = "read"
    OBVIOUS
  <2> HIDE DEF r
  <2> QED
    BY <1>1, <2>2, <2>3, ReadKeeps DEF PlanReviewBegins, RecInv, RecTypes
<1>2. CASE MarkReads(c)
  <2>1. PICK s \in Slots : plan[s] # None /\ Reads(c, "mark", s, plan[s], {})
                           /\ marked' = marked \cup {<<s, plan[s].text>>}
    BY <1>2 DEF MarkReads
  <2> DEFINE r == [op |-> "mark", on |-> s, seen |-> plan[s], patch |-> {}, step |-> "read"]
  <2>2. plan[s] \in PlanFiles
    BY <2>1 DEF RecInv, RecTypes
  <2>3. r \in Calls /\ call' = [call EXCEPT ![c] = r]
    BY <2>1, <2>2 DEF Reads, Calls
  <2>4. /\ r.op = "mark" /\ r.on \in Slots /\ r.seen \in PlanFiles /\ r.step = "read"
        /\ <<r.on, r.seen.text>> \in marked'
    BY <2>1, <2>2
  <2> HIDE DEF r
  <2> QED
    BY <1>2, <2>1, <2>3, <2>4, ReadKeeps DEF MarkReads, RecInv, RecTypes
<1>3. CASE RecordReads(c)
  <2>1. PICK w \in Kinds, s \in Slots, keys \in SUBSET Keys, t \in Texts \cup {None} :
           /\ call' = [call EXCEPT ![c] = [op |-> "record", on |-> w, patch |-> keys,
              step |-> "read",
                                           seen |-> [slot |-> s, text |-> t]]]
           /\ given' = [given EXCEPT ![c] = [slot |-> s, text |-> t]]
    <3>1. PICK w \in Kinds, s \in Slots, keys \in SUBSET Keys :
             /\ call' = [call EXCEPT ![c] = [op |-> "record", on |-> w, patch |-> keys,
                step |-> "read",
                     seen |-> [slot |-> s, text |-> IF plan[s] = None THEN None ELSE plan[s].text]]]
             /\ given' = [given EXCEPT ![c] = [slot |-> s, text |-> IF plan[s] = None THEN None
                ELSE plan[s].text]]
      BY <1>3 DEF RecordReads
    <3>2. (IF plan[s] = None THEN None ELSE plan[s].text) \in Texts \cup {None}
      BY DEF RecInv, RecTypes, PlanFiles
    <3> QED
      BY <3>1, <3>2
  <2> DEFINE r == [op |-> "record", on |-> w, seen |-> [slot |-> s, text |-> t], patch |-> keys,
             step |-> "read"]
  <2>2. r \in Calls /\ call' = [call EXCEPT ![c] = r]
    BY <2>1 DEF Calls, PlanRefs
  <2>3. r.op = "record" /\ r.on \in Kinds /\ r.patch \subseteq Keys /\ r.seen \in PlanRefs
        /\ r.step = "read"
    BY DEF PlanRefs
  <2>4. /\ given' \in [Callers -> PlanRefs \cup {None}] /\ r.seen = given'[c]
        /\ \A d \in Callers \ {c} : given'[d] = given[d]
    BY <2>1 DEF RecInv, RecTypes, PlanRefs
  <2> HIDE DEF r
  <2> QED
    BY <1>3, <2>2, <2>3, <2>4, ReadKeeps DEF RecordReads
<1>4. CASE UpdateReads(c)
  <2>1. PICK w \in Kinds, op \in {"update", "complete"}, keys \in SUBSET Keys :
           work[w] # None /\ Reads(c, op, w, work[w], keys)
    BY <1>4 DEF UpdateReads
  <2> DEFINE r == [op |-> op, on |-> w, seen |-> work[w], patch |-> keys, step |-> "read"]
  <2>2. work[w] \in WorkFiles
    BY <2>1 DEF RecInv, RecTypes
  <2>3. r \in Calls /\ call' = [call EXCEPT ![c] = r]
    BY <2>1, <2>2 DEF Reads, Calls
  <2>4. /\ r.op \in {"update", "complete"} /\ r.on \in Kinds /\ r.patch \subseteq Keys
        /\ r.seen = work[r.on] /\ r.seen # None /\ r.step = "read"
    BY <2>1
  <2> HIDE DEF r
  <2> QED
    BY <1>4, <2>3, <2>4, ReadKeeps DEF UpdateReads, RecInv, RecTypes
<1> QED
  BY <1>1, <1>2, <1>3, <1>4

\* The plan goes at once, and the record is read with it.
LEMMA ClearPlanStep == ASSUME RecInv, NEW c \in Callers, ClearPlan(c) PROVE RecInv'
<1>1. PICK s \in Slots :
         /\ plan' = [plan EXCEPT ![s] = None] /\ Wrote(c, s)
         /\ call' = [call EXCEPT ![c] = [op |-> "clearPlan", on |-> "implement",
            seen |-> work["implement"],
                                         patch |-> {s}, step |-> "read"]]
  BY DEF ClearPlan
<1> DEFINE r == [op |-> "clearPlan", on |-> "implement", seen |-> work["implement"], patch |-> {s},
           step |-> "read"]
<1>2. work["implement"] \in WorkFiles \cup {None}
  BY KindsAssumption DEF RecInv, RecTypes
<1>3. r \in Calls /\ call' = [call EXCEPT ![c] = r]
  BY <1>1, <1>2, KindsAssumption DEF Calls
<1>4. OnlyMoves(c, "read") /\ call'[c] = r
  BY <1>3, ReadFacts DEF RecInv
<1>5. r.op = "clearPlan" /\ r.on = "implement" /\ r.seen = work["implement"]
  OBVIOUS
<1> HIDE DEF r
<1>6. raced \subseteq raced' /\ UNCHANGED <<work, given, merged, marked, strange>>
  BY <1>1 DEF ClearPlan, Wrote
<1>7. \A d \in Callers : d = c \/ call'[d] = call[d]
  BY <1>4 DEF OnlyMoves
<1>8. RecTypes'
  BY <1>1, <1>4, <1>6 DEF RecInv, RecTypes, OnlyMoves
<1>9. ReadsFit'
  BY <1>2, <1>4, <1>5, <1>6, <1>7 DEF RecInv, ReadsFit, Reading
<1>10. \A q \in WorkFiles : Named(q, given, call) => Named(q, given', call')
  BY <1>4, <1>6, <1>7 DEF Named, WorkFiles, OnlyMoves
<1>11. RecordsNamed'
  BY <1>4, <1>5, <1>6, <1>7, <1>10 DEF RecInv, RecTypes, ReadsFit, RecordsNamed, Reading
<1>12. PlansMarked'
  <2>1. \A q \in Slots : plan'[q] = plan[q] \/ plan'[q] = None
    BY <1>1 DEF RecInv, RecTypes
  <2> QED
    BY <1>4, <1>5, <1>6, <1>7, <2>1 DEF RecInv, PlansMarked, Marked, Reading
<1>13. ReadsAreFresh'
  BY <1>4, <1>5, <1>6, <1>7 DEF RecInv, ReadsAreFresh, Reading
<1>14. EntriesKept'
  BY <1>6 DEF RecInv, EntriesKept
<1> QED
  BY <1>8, <1>9, <1>11, <1>12, <1>13, <1>14 DEF RecInv

\* What it read decides whether the record goes: if nobody wrote it since,
\* it is the record of the slot.
LEMMA ClearItsWorkStep == ASSUME RecInv, NEW c \in Callers, ClearItsWork(c) PROVE RecInv'
<1>1. OnlyMoves(c, "done") /\ UNCHANGED <<plan, given, merged, marked>>
  BY EndFacts DEF RecInv, ClearItsWork
<1>2. CASE \E s \in call[c].patch : Belongs(call[c].seen, s)
  <2>1. PICK s \in call[c].patch : Belongs(call[c].seen, s)
    BY <1>2
  <2>2. Wrote(c, "implement") /\ work' = [work EXCEPT !["implement"] = None]
    BY <1>2 DEF ClearItsWork
  <2>3. strange' \subseteq strange \cup raced'
    <3>1. CASE "implement" \in raced
      BY <2>2, <3>1, <1>2 DEF ClearItsWork, Wrote
    <3>2. CASE "implement" \notin raced
      <4>1. call[c].seen = work["implement"]
        BY <3>2 DEF RecInv, ReadsFit, ReadsAreFresh, Reading, ClearItsWork
      <4> QED
        BY <1>2, <2>1, <4>1 DEF ClearItsWork, Belongs
    <3> QED
      BY <3>1, <3>2
  <2>4. merged \in [Kinds -> Entries]
    BY DEF RecInv, RecTypes
  <2> QED
    BY <1>1, <2>2, <2>3, <2>4, KindsAssumption, WorkKeeps
<1>3. CASE ~\E s \in call[c].patch : Belongs(call[c].seen, s)
  BY <1>1, <1>3, PlanKeeps DEF ClearItsWork
<1> QED
  BY <1>2, <1>3

LEMMA WorkStep ==
    ASSUME RecInv, NEW c \in Callers, RecordWrites(c) \/ UpdateWrites(c) \/ ClearWork(c)
    PROVE  RecInv'
<1>1. merged \in [Kinds -> Entries]
  BY DEF RecInv, RecTypes
<1>2. CASE RecordWrites(c)
  <2> DEFINE w == call[c].on
             r == [run |-> c, slot |-> call[c].seen.slot, text |-> call[c].seen.text,
                   entries |-> By(c, call[c].patch), complete |-> FALSE]
  <2>1. OnlyMoves(c, "done")
    BY <1>2, EndFacts DEF RecInv, RecordWrites
  <2>2. w \in Kinds /\ call[c].patch \subseteq Keys /\ call[c].seen = given[c]
        /\ call[c].seen \in PlanRefs
    BY <1>2 DEF RecInv, ReadsFit, Reading, RecordWrites
  <2>3. By(c, call[c].patch) \in Entries
    BY <2>2, EntriesBy
  <2>4. r \in WorkFiles /\ r.run = c /\ r.entries = By(c, call[c].patch)
    BY <2>2, <2>3 DEF WorkFiles, PlanRefs
  <2>5. UNCHANGED <<plan, given, marked, strange>>
    BY <1>2 DEF RecordWrites
  <2>6. Named(r, given', call')
    BY <2>1, <2>2, <2>5 DEF Named, PlanRefs, OnlyMoves
  <2>7. /\ merged' \in [Kinds -> Entries] /\ merged'[w] = r.entries
        /\ \A v \in Kinds \ {w} : merged'[v] = merged[v]
    BY <1>1, <1>2, <2>2, <2>3 DEF RecordWrites
  <2>8. Wrote(c, w) /\ work' = [work EXCEPT ![w] = r]
    BY <1>2 DEF RecordWrites
  <2> HIDE DEF w, r
  <2> QED
    BY <2>1, <2>2, <2>4, <2>5, <2>6, <2>7, <2>8, WorkKeeps
<1>3. CASE UpdateWrites(c)
  <2> DEFINE w == call[c].on
             was == call[c].seen
             new == Merge(was.entries, By(c, call[c].patch))
             r == [was EXCEPT !.entries = new, !.complete = @ \/ call[c].op = "complete"]
  <2>1. OnlyMoves(c, "done")
    BY <1>3, EndFacts DEF RecInv, UpdateWrites
  <2>2. w \in Kinds /\ call[c].patch \in SUBSET Keys /\ was \in WorkFiles /\ Named(was, given, call)
    BY <1>3 DEF RecInv, ReadsFit, RecordsNamed, Reading, UpdateWrites
  <2>3. By(c, call[c].patch) \in Entries /\ was.entries \in Entries
    BY <2>2, EntriesBy DEF WorkFiles
  <2>4. new \in Entries
    BY <2>3 DEF Merge, Entries
  <2>5. /\ r \in WorkFiles /\ r.run = was.run /\ r.slot = was.slot /\ r.text = was.text
        /\ r.entries = new
    BY <2>2, <2>4 DEF WorkFiles
  <2>6. UNCHANGED <<plan, given, marked, strange>>
    BY <1>3 DEF UpdateWrites
  <2>7. Named(r, given', call')
    <3>1. Named(r, given, call)
      BY <2>2, <2>5 DEF Named
    <3> QED
      BY <2>1, <2>5, <2>6, <3>1, EndKeeps
  <2>8. merged' = [merged EXCEPT ![w] = [k \in Keys |-> IF k \in call[c].patch THEN [by |-> c]
        ELSE @[k]]]
    BY <1>3 DEF UpdateWrites
  <2>9. /\ merged' \in [Kinds -> Entries] /\ \A v \in Kinds \ {w} : merged'[v] = merged[v]
        /\ merged'[w] = [k \in Keys |-> IF k \in call[c].patch THEN [by |-> c] ELSE merged[w][k]]
    <3>1. [k \in Keys |-> IF k \in call[c].patch THEN [by |-> c] ELSE merged[w][k]] \in Entries
      BY <1>1, <2>2 DEF Entries
    <3> QED
      BY <1>1, <2>2, <2>8, <3>1
  <2>10. ASSUME w \notin raced PROVE r.entries = merged'[w]
    <3>1. was = work[w] /\ work[w] # None
      BY <1>3, <2>2, <2>10, NoneIsNoFile DEF RecInv, ReadsAreFresh, Reading, UpdateWrites
    <3>2. was.entries = merged[w]
      BY <2>2, <2>10, <3>1 DEF RecInv, EntriesKept
    <3>3. \A k \in Keys : By(c, call[c].patch)[k] = IF k \in call[c].patch THEN [by |-> c] ELSE None
      BY DEF By
    <3>4. new = [k \in Keys |-> IF k \in call[c].patch THEN [by |-> c] ELSE merged[w][k]]
      BY <3>2, <3>3, NoneIsNoFile DEF Merge
    <3> QED
      BY <2>5, <2>9, <3>4
  <2>11. Wrote(c, w) /\ work' = [work EXCEPT ![w] = r]
    BY <1>3 DEF UpdateWrites
  <2> HIDE DEF w, r
  <2> QED
    BY <2>1, <2>2, <2>5, <2>6, <2>7, <2>9, <2>10, <2>11, WorkKeeps
<1>4. CASE ClearWork(c)
  <2>1. PICK w \in Kinds : work' = [work EXCEPT ![w] = None] /\ Wrote(c, w)
    BY <1>4 DEF ClearWork
  <2>2. OnlyMoves(c, "done")
    BY <1>4, AtOnceFacts DEF RecInv, ClearWork
  <2> QED
    BY <1>1, <1>4, <2>1, <2>2, WorkKeeps DEF ClearWork
<1> QED
  BY <1>2, <1>3, <1>4

LEMMA RecStep == RecInv /\ [RecNext]_recVars => RecInv'
<1> SUFFICES ASSUME RecInv, [RecNext]_recVars PROVE RecInv'
  OBVIOUS
<1>1. CASE RecNext
  BY <1>1, PlanStep, ReadStep, ClearPlanStep, ClearItsWorkStep, WorkStep DEF RecNext
<1>2. CASE UNCHANGED recVars
  BY <1>2
     DEF recVars, RecInv, RecTypes, ReadsFit, RecordsNamed, Named, PlansMarked, Marked,
         ReadsAreFresh,
         EntriesKept, Reading
<1> QED
  BY <1>1, <1>2

\* What the records say of plans and of work is what was given.
THEOREM RecordsAlwaysStand == RecSpec => []RecordsStand
<1>1. RecInv => RecordsStand
  BY DEF RecInv, RecTypes, WorkFiles, RecordsStand, PlansStand, RecordsNamed, Named, PlansMarked,
      Marked
<1> QED
  BY <1>1, RecInitInv, RecStep, PTL DEF RecSpec
-----------------------------------------------------------------------------
(* BrokerLifecycle.                                                        *)

Places == {"idle", "probe", "teardown", "exists", "unlink", "spawn", "wait", "save", "connect",
           "initialize", "using", "drain", "sweep", "ask", "done", "failed", "late"} \cup Answers

LifeTypes ==
    /\ record \in Brokers \cup {NoBroker}
    /\ phase \in [Brokers -> {"none", "starting", "up", "gone"}] /\ files \subseteq Brokers
    /\ looks \in [Brokers -> {0, 1}] /\ orphan \subseteq Brokers
    /\ pc \in [Actors -> Places] /\ seen \in [Actors -> Brokers \cup {NoBroker}]
    /\ heard \subseteq Users /\ killed \subseteq SessionEnds /\ alone \subseteq Users
    /\ retries \in [SessionEnds -> Nat] /\ slow \in Nat

\* Whoever deals with a broker has one to deal with.
Found ==
    /\ \A c \in Users :
          pc[c] \in {"probe", "teardown", "connect", "initialize", "using", "drain"}
              => seen[c] # NoBroker
    /\ \A e \in SessionEnds : pc[e] \in Answers => seen[e] # NoBroker

\* A broker that anyone but its spawner goes by was saved, and its spawner is
\* past the wait that could stop it.
Saved(b) ==
    /\ phase[b] \in {"up", "gone"}
    /\ b \in Users => pc[b] \in {"connect", "initialize", "using", "drain", "done", "failed", "late"}

Looking == {"probe", "teardown", "exists", "unlink"}

SavedBeforeSeen ==
    /\ record # NoBroker => Saved(record)
    /\ \A a \in Actors :
          seen[a] # NoBroker /\ (a \in SessionEnds \/ seen[a] # a \/ pc[a] \in Looking)
              => Saved(seen[a])

\* A command goes by the broker it spawned until it has saved it.
OwnIsSpawned ==
    \A c \in Users :
        /\ pc[c] \in {"wait", "save"} => seen[c] = c
        /\ pc[c] = "save" => phase[c] \in {"up", "gone"}

\* A broker that has heard a command is up until the command is through.
HeardIsServed ==
    \A c \in Users :
        /\ c \in heard <=> pc[c] = "using"
        /\ pc[c] = "using" => phase[seen[c]] = "up"

\* What a command that nobody came between may count on.
AloneFinds ==
    \A c \in alone :
        /\ pc[c] \notin {"done", "failed"}
        /\ pc[c] \in Looking => record # NoBroker
        /\ pc[c] \in {"probe", "connect", "initialize"} => record = seen[c]
        /\ pc[c] = "save" => Reachable(c)
        /\ pc[c] \in {"connect", "initialize"} => Reachable(seen[c])

\* As long as no answer was late, only a broker that is gone is torn down.
Refusals == {"refused", "accepted", "teardown", "exists", "unlink"}

PunctualIsTrue ==
    slow = 0 =>
        /\ \A b \in Brokers : phase[b] = "up" => b \in files
        /\ \A a \in Actors : pc[a] \in Refusals /\ seen[a] # NoBroker => phase[seen[a]] = "gone"

\* The inductive invariant.
LifeInv ==
    LifeTypes /\ Found /\ SavedBeforeSeen /\ OwnIsSpawned /\ HeardIsServed /\ AloneFinds
        /\ PunctualIsTrue

\* The states to begin with.
LEMMA LifeInitInv == LifeInit => LifeInv
<1> SUFFICES ASSUME LifeInit PROVE LifeInv
  OBVIOUS
<1> USE LifecycleAssumption DEF LifeInit, Brokers, Actors
<1>1. LifeTypes
  BY DEF LifeTypes, Places
<1>2. Found /\ OwnIsSpawned /\ HeardIsServed
  BY DEF Found, OwnIsSpawned, HeardIsServed, Answers
<1>3. SavedBeforeSeen /\ AloneFinds
  BY DEF SavedBeforeSeen, Saved, AloneFinds, Looking
<1>4. PunctualIsTrue
  BY DEF PunctualIsTrue, Refusals
<1>5. QED
  BY <1>1, <1>2, <1>3, <1>4 DEF LifeInv

\* A command's own steps.
LEMMA CommandStep ==
    ASSUME LifeInv, NEW c \in Users, Command(c)
    PROVE  LifeInv'
<1> USE LifecycleAssumption DEF LifeInv, Command, Brokers, Actors, brokerVars, Goes
<1>0. alone' \subseteq alone
  BY DEF Disturbs
<1>1. CASE Load(c)
  <2>1. LifeTypes'
    BY <1>0, <1>1 DEF Load, LifeTypes, Places
  <2>2. Found'
    BY <1>1 DEF Load, Found, LifeTypes
  <2>3. SavedBeforeSeen'
    BY <1>1 DEF Load, SavedBeforeSeen, Saved, LifeTypes
  <2>4. OwnIsSpawned'
    BY <1>1 DEF Load, OwnIsSpawned
  <2>5. HeardIsServed'
    BY <1>1 DEF Load, HeardIsServed
  <2>6. AloneFinds'
    BY <1>1 DEF Load, AloneFinds, LifeTypes, Looking, Disturbs, Running, Over
  <2>7. PunctualIsTrue'
    BY <1>1 DEF Load, PunctualIsTrue, Refusals
  <2> QED
    BY <2>1, <2>2, <2>3, <2>4, <2>5, <2>6, <2>7
<1>2. CASE Probe(c)
  <2>1. LifeTypes'
    BY <1>0, <1>2 DEF Probe, Slowly, LifeTypes, Places
  <2>2. Found'
    BY <1>2 DEF Probe, Found, LifeTypes
  <2>3. SavedBeforeSeen'
    BY <1>2 DEF Probe, SavedBeforeSeen, Saved, Looking, LifeTypes
  <2>4. OwnIsSpawned'
    BY <1>2 DEF Probe, OwnIsSpawned, LifeTypes
  <2>5. HeardIsServed'
    BY <1>2 DEF Probe, HeardIsServed, LifeTypes
  <2>6. AloneFinds'
    BY <1>2 DEF Probe, Ready, AloneFinds, LifeTypes, Looking, Reachable, Disturbs
  <2>7. PunctualIsTrue'
    BY <1>2
       DEF Probe, Ready, Slowly, PunctualIsTrue, Refusals, SavedBeforeSeen, Saved, Looking,
           LifeTypes, Reachable
  <2> QED
    BY <2>1, <2>2, <2>3, <2>4, <2>5, <2>6, <2>7
<1>3. CASE Teardown(c)
  <2>1. LifeTypes'
    BY <1>0, <1>3 DEF Teardown, LifeTypes, Places
  <2>2. Found'
    BY <1>3 DEF Teardown, Found
  <2>3. SavedBeforeSeen'
    BY <1>3 DEF Teardown, SavedBeforeSeen, Saved, Looking
  <2>4. OwnIsSpawned'
    BY <1>3 DEF Teardown, OwnIsSpawned
  <2>5. HeardIsServed'
    BY <1>3 DEF Teardown, HeardIsServed
  <2>6. AloneFinds'
    BY <1>3 DEF Teardown, AloneFinds, Looking, Disturbs, Running, Over
  <2>7. PunctualIsTrue'
    BY <1>3 DEF Teardown, PunctualIsTrue, Refusals
  <2> QED
    BY <2>1, <2>2, <2>3, <2>4, <2>5, <2>6, <2>7
<1>4. CASE Exists(c)
  <2>1. LifeTypes'
    BY <1>0, <1>4 DEF Exists, Cleared, LifeTypes, Places
  <2>2. Found'
    BY <1>4 DEF Exists, Cleared, Found
  <2>3. SavedBeforeSeen'
    BY <1>4 DEF Exists, SavedBeforeSeen, Saved, Looking
  <2>4. OwnIsSpawned'
    BY <1>4 DEF Exists, Cleared, OwnIsSpawned
  <2>5. HeardIsServed'
    BY <1>4 DEF Exists, Cleared, HeardIsServed
  <2>6. AloneFinds'
    BY <1>4 DEF Exists, AloneFinds, Looking, Disturbs, Running, Over
  <2>7. PunctualIsTrue'
    BY <1>4 DEF Exists, PunctualIsTrue, Refusals
  <2> QED
    BY <2>1, <2>2, <2>3, <2>4, <2>5, <2>6, <2>7
<1>5. CASE Clear(c)
  <2>1. LifeTypes'
    BY <1>0, <1>5 DEF Clear, Cleared, LifeTypes, Places
  <2>2. Found'
    BY <1>5 DEF Clear, Cleared, Found
  <2>3. SavedBeforeSeen'
    BY <1>5 DEF Clear, SavedBeforeSeen, Saved, Looking
  <2>4. OwnIsSpawned'
    BY <1>5 DEF Clear, Cleared, OwnIsSpawned
  <2>5. HeardIsServed'
    BY <1>5 DEF Clear, Cleared, HeardIsServed
  <2>6. AloneFinds'
    BY <1>5 DEF Clear, Cleared, AloneFinds, LifeTypes, Looking, Disturbs, Running, Over
  <2>7. PunctualIsTrue'
    BY <1>5 DEF Clear, PunctualIsTrue, Refusals
  <2> QED
    BY <2>1, <2>2, <2>3, <2>4, <2>5, <2>6, <2>7
<1>6. CASE Spawn(c)
  <2>1. LifeTypes'
    BY <1>0, <1>6 DEF Spawn, LifeTypes, Places
  <2>2. Found'
    BY <1>6 DEF Spawn, Found
  <2>3. SavedBeforeSeen'
    BY <1>6 DEF Spawn, SavedBeforeSeen, Saved, Looking
  <2>4. OwnIsSpawned'
    BY <1>6 DEF Spawn, OwnIsSpawned, LifeTypes
  <2>5. HeardIsServed'
    BY <1>6 DEF Spawn, HeardIsServed, SavedBeforeSeen, Saved
  <2>6. AloneFinds'
    BY <1>6 DEF Spawn, AloneFinds, Looking, Disturbs, Running, Over
  <2>7. PunctualIsTrue'
    BY <1>6 DEF Spawn, PunctualIsTrue, Refusals, SavedBeforeSeen, Saved
  <2> QED
    BY <2>1, <2>2, <2>3, <2>4, <2>5, <2>6, <2>7
<1>7. CASE Wait(c)
  <2>1. LifeTypes'
    BY <1>0, <1>7 DEF Wait, Slowly, LifeTypes, Places
  <2>2. Found'
    BY <1>7 DEF Wait, Found, LifeTypes
  <2>3. SavedBeforeSeen'
    BY <1>7 DEF Wait, SavedBeforeSeen, Saved, Looking, LifeTypes
  <2>4. OwnIsSpawned'
    BY <1>7 DEF Wait, Reachable, OwnIsSpawned, LifeTypes
  <2>5. HeardIsServed'
    BY <1>7 DEF Wait, HeardIsServed, SavedBeforeSeen, Saved, LifeTypes, Found
  <2>6. AloneFinds'
    BY <1>7 DEF Wait, AloneFinds, LifeTypes, Looking, Reachable, Disturbs, Running, Over
  <2>7. PunctualIsTrue'
    BY <1>7 DEF Wait, Slowly, PunctualIsTrue, Refusals, LifeTypes
  <2> QED
    BY <2>1, <2>2, <2>3, <2>4, <2>5, <2>6, <2>7
<1>8. CASE Save(c)
  <2>1. LifeTypes'
    BY <1>0, <1>8 DEF Save, LifeTypes, Places
  <2>2. Found'
    BY <1>8 DEF Save, Found, OwnIsSpawned
  <2>3. SavedBeforeSeen'
    BY <1>8 DEF Save, SavedBeforeSeen, Saved, OwnIsSpawned, LifeTypes
  <2>4. OwnIsSpawned'
    BY <1>8 DEF Save, OwnIsSpawned
  <2>5. HeardIsServed'
    BY <1>8 DEF Save, HeardIsServed
  <2>6. AloneFinds'
    BY <1>8 DEF Save, AloneFinds, OwnIsSpawned, Reachable, Disturbs, Running, Over
  <2>7. PunctualIsTrue'
    BY <1>8 DEF Save, PunctualIsTrue, Refusals
  <2> QED
    BY <2>1, <2>2, <2>3, <2>4, <2>5, <2>6, <2>7
<1>9. CASE Connect(c)
  <2>1. LifeTypes'
    BY <1>0, <1>9 DEF Connect, Slowly, LifeTypes, Places
  <2>2. Found'
    BY <1>9 DEF Connect, Found, LifeTypes
  <2>3. SavedBeforeSeen'
    BY <1>9 DEF Connect, SavedBeforeSeen, Saved, Looking, LifeTypes
  <2>4. OwnIsSpawned'
    BY <1>9 DEF Connect, OwnIsSpawned, LifeTypes
  <2>5. HeardIsServed'
    BY <1>9 DEF Connect, HeardIsServed, LifeTypes
  <2>6. AloneFinds'
    BY <1>9 DEF Connect, AloneFinds, Looking, LifeTypes, Reachable, Disturbs
  <2>7. PunctualIsTrue'
    BY <1>9 DEF Connect, Slowly, PunctualIsTrue, Refusals, LifeTypes
  <2> QED
    BY <2>1, <2>2, <2>3, <2>4, <2>5, <2>6, <2>7
<1>10. CASE Initialize(c)
  <2>1. LifeTypes'
    BY <1>0, <1>10 DEF Initialize, Slowly, LifeTypes, Places
  <2>2. Found'
    BY <1>10 DEF Initialize, Found, LifeTypes
  <2>3. SavedBeforeSeen'
    BY <1>10 DEF Initialize, SavedBeforeSeen, Saved, Looking, LifeTypes
  <2>4. OwnIsSpawned'
    BY <1>10 DEF Initialize, OwnIsSpawned, LifeTypes
  <2>5. HeardIsServed'
    BY <1>10 DEF Initialize, HeardIsServed, LifeTypes
  <2>6. AloneFinds'
    BY <1>10 DEF Initialize, AloneFinds, LifeTypes, Reachable, Disturbs
  <2>7. PunctualIsTrue'
    BY <1>10 DEF Initialize, Slowly, PunctualIsTrue, Refusals, LifeTypes
  <2> QED
    BY <2>1, <2>2, <2>3, <2>4, <2>5, <2>6, <2>7
<1>11. CASE Close(c)
  <2>1. LifeTypes'
    BY <1>0, <1>11 DEF Close, LifeTypes, Places
  <2>2. Found'
    BY <1>11 DEF Close, Found
  <2>3. SavedBeforeSeen'
    BY <1>11 DEF Close, SavedBeforeSeen, Saved, Looking
  <2>4. OwnIsSpawned'
    BY <1>11 DEF Close, OwnIsSpawned
  <2>5. HeardIsServed'
    BY <1>11 DEF Close, HeardIsServed, LifeTypes
  <2>6. AloneFinds'
    BY <1>11 DEF Close, AloneFinds, Looking, Disturbs, Running, Over
  <2>7. PunctualIsTrue'
    BY <1>11 DEF Close, PunctualIsTrue, Refusals
  <2> QED
    BY <2>1, <2>2, <2>3, <2>4, <2>5, <2>6, <2>7
<1>12. CASE Drain(c)
  <2>1. LifeTypes'
    BY <1>0, <1>12 DEF Drain, Answer, StopListening, Slowly, LifeTypes, Places
  <2>2. Found'
    BY <1>12 DEF Drain, Found
  <2>3. SavedBeforeSeen'
    BY <1>12 DEF Drain, Answer, StopListening, SavedBeforeSeen, Saved, Looking, LifeTypes
  <2>4. OwnIsSpawned'
    BY <1>12 DEF Drain, Answer, StopListening, OwnIsSpawned, LifeTypes
  <2>5. HeardIsServed'
    BY <1>12
       DEF Drain, Answer, StopListening, Idle, InUse, Clients, Connected, HeardIsServed, LifeTypes,
           Found
  <2>6. AloneFinds'
    BY <1>12 DEF Drain, AloneFinds, Disturbs, Running, Over
  <2>7. PunctualIsTrue'
    BY <1>12 DEF Drain, Answer, StopListening, Slowly, PunctualIsTrue, Refusals, LifeTypes
  <2> QED
    BY <2>1, <2>2, <2>3, <2>4, <2>5, <2>6, <2>7
<1>13. CASE Die(c)
  <2>1. LifeTypes'
    BY <1>0, <1>13 DEF Die, Lost, Connected, Found, LifeTypes, Places
  <2>2. Found'
    BY <1>13 DEF Die, Found
  <2>3. SavedBeforeSeen'
    BY <1>13 DEF Die, SavedBeforeSeen, Saved, Looking
  <2>4. OwnIsSpawned'
    BY <1>13 DEF Die, OwnIsSpawned
  <2>5. HeardIsServed'
    BY <1>13 DEF Die, HeardIsServed, LifeTypes
  <2>6. AloneFinds'
    BY <1>13 DEF Die, AloneFinds, Reachable, Disturbs
  <2>7. PunctualIsTrue'
    BY <1>13 DEF Die, PunctualIsTrue, Refusals
  <2> QED
    BY <2>1, <2>2, <2>3, <2>4, <2>5, <2>6, <2>7
<1>14. QED
  BY <1>1, <1>2, <1>3, <1>4, <1>5, <1>6, <1>7, <1>8, <1>9, <1>10, <1>11, <1>12, <1>13 DEF Command

\* A session end's.
LEMMA SessionEndStep ==
    ASSUME LifeInv, NEW e \in SessionEnds, End(e)
    PROVE  LifeInv'
<1> USE LifecycleAssumption DEF LifeInv, End, Brokers, Actors, brokerVars, Goes
<1>0. alone' \subseteq alone
  BY DEF Disturbs
<1>1. CASE LoadAtEnd(e)
  <2>1. LifeTypes'
    BY <1>0, <1>1 DEF LoadAtEnd, LifeTypes, Places
  <2>2. Found'
    BY <1>1 DEF LoadAtEnd, Found, Answers
  <2>3. SavedBeforeSeen'
    BY <1>1 DEF LoadAtEnd, SavedBeforeSeen, Saved
  <2>4. OwnIsSpawned'
    BY <1>1 DEF LoadAtEnd, OwnIsSpawned
  <2>5. HeardIsServed'
    BY <1>1 DEF LoadAtEnd, HeardIsServed
  <2>6. AloneFinds'
    BY <1>1 DEF LoadAtEnd, AloneFinds, Looking, Disturbs, Running, Over
  <2>7. PunctualIsTrue'
    BY <1>1 DEF LoadAtEnd, PunctualIsTrue, Refusals
  <2> QED
    BY <2>1, <2>2, <2>3, <2>4, <2>5, <2>6, <2>7
<1>2. CASE Sweep(e)
  <2>1. LifeTypes'
    BY <1>0, <1>2 DEF Sweep, Lost, Connected, Found, LifeTypes, Places
  <2>2. Found'
    BY <1>2 DEF Sweep, Found, Answers
  <2>3. SavedBeforeSeen'
    BY <1>2 DEF Sweep, SavedBeforeSeen, Saved, Looking
  <2>4. OwnIsSpawned'
    BY <1>2 DEF Sweep, OwnIsSpawned
  <2>5. HeardIsServed'
    BY <1>2 DEF Sweep, HeardIsServed
  <2>6. AloneFinds'
    BY <1>2 DEF Sweep, Victims, AloneFinds, LifeTypes, Reachable, Disturbs
  <2>7. PunctualIsTrue'
    BY <1>2 DEF Sweep, PunctualIsTrue, Refusals
  <2> QED
    BY <2>1, <2>2, <2>3, <2>4, <2>5, <2>6, <2>7
<1>3. CASE Ask(e)
  <2>1. LifeTypes'
    BY <1>0, <1>3 DEF Ask, Answer, StopListening, Slowly, LifeTypes, Places
  <2>2. Found'
    BY <1>3 DEF Ask, Answers, Found, LifeTypes
  <2>3. SavedBeforeSeen'
    BY <1>3 DEF Ask, Answer, StopListening, SavedBeforeSeen, Saved, LifeTypes
  <2>4. OwnIsSpawned'
    BY <1>3 DEF Ask, Answer, StopListening, OwnIsSpawned, LifeTypes
  <2>5. HeardIsServed'
    BY <1>3
       DEF Ask, Answer, StopListening, Idle, InUse, Clients, Connected, HeardIsServed, LifeTypes,
           Found
  <2>6. AloneFinds'
    BY <1>3 DEF Ask, AloneFinds, LifeTypes, Disturbs, Running, Over
  <2>7. PunctualIsTrue'
    BY <1>3
       DEF Ask, Answer, StopListening, Slowly, PunctualIsTrue, Refusals, SavedBeforeSeen, Saved,
           LifeTypes, Reachable
  <2> QED
    BY <2>1, <2>2, <2>3, <2>4, <2>5, <2>6, <2>7
<1>4. CASE Answered(e)
  <2>1. LifeTypes'
    BY <1>0, <1>4 DEF Answered, LifeTypes, Places
  <2>2. Found'
    BY <1>4 DEF Answered, Found, LifeTypes
  <2>3. SavedBeforeSeen'
    BY <1>4 DEF Answered, SavedBeforeSeen, Saved, LifeTypes
  <2>4. OwnIsSpawned'
    BY <1>4 DEF Answered, OwnIsSpawned, LifeTypes
  <2>5. HeardIsServed'
    BY <1>4 DEF Answered, HeardIsServed, LifeTypes
  <2>6. AloneFinds'
    BY <1>4 DEF Answered, AloneFinds, LifeTypes, Disturbs, Running, Over
  <2>7. PunctualIsTrue'
    BY <1>4 DEF Answered, Answers, Stays, PunctualIsTrue, Refusals, LifeTypes
  <2> QED
    BY <2>1, <2>2, <2>3, <2>4, <2>5, <2>6, <2>7
<1>5. CASE Teardown(e) /\ UNCHANGED <<killed, retries>>
  <2>1. LifeTypes'
    BY <1>0, <1>5 DEF Teardown, LifeTypes, Places
  <2>2. Found'
    BY <1>5 DEF Teardown, Found, Answers
  <2>3. SavedBeforeSeen'
    BY <1>5 DEF Teardown, SavedBeforeSeen, Saved
  <2>4. OwnIsSpawned'
    BY <1>5 DEF Teardown, OwnIsSpawned
  <2>5. HeardIsServed'
    BY <1>5 DEF Teardown, HeardIsServed
  <2>6. AloneFinds'
    BY <1>5 DEF Teardown, AloneFinds, Looking, Disturbs, Running, Over
  <2>7. PunctualIsTrue'
    BY <1>5 DEF Teardown, PunctualIsTrue, Refusals
  <2> QED
    BY <2>1, <2>2, <2>3, <2>4, <2>5, <2>6, <2>7
<1>6. CASE Exists(e) /\ UNCHANGED <<killed, retries>>
  <2>1. LifeTypes'
    BY <1>0, <1>6 DEF Exists, Cleared, LifeTypes, Places
  <2>2. Found'
    BY <1>6 DEF Exists, Cleared, Found, Answers
  <2>3. SavedBeforeSeen'
    BY <1>6 DEF Exists, SavedBeforeSeen, Saved
  <2>4. OwnIsSpawned'
    BY <1>6 DEF Exists, OwnIsSpawned
  <2>5. HeardIsServed'
    BY <1>6 DEF Exists, HeardIsServed
  <2>6. AloneFinds'
    BY <1>6 DEF Exists, AloneFinds, Looking, Disturbs, Running, Over
  <2>7. PunctualIsTrue'
    BY <1>6 DEF Exists, PunctualIsTrue, Refusals
  <2> QED
    BY <2>1, <2>2, <2>3, <2>4, <2>5, <2>6, <2>7
<1>7. CASE Clear(e) /\ UNCHANGED <<killed, retries>>
  <2>1. LifeTypes'
    BY <1>0, <1>7 DEF Clear, Cleared, LifeTypes, Places
  <2>2. Found'
    BY <1>7 DEF Clear, Cleared, Found, Answers
  <2>3. SavedBeforeSeen'
    BY <1>7 DEF Clear, SavedBeforeSeen, Saved
  <2>4. OwnIsSpawned'
    BY <1>7 DEF Clear, OwnIsSpawned
  <2>5. HeardIsServed'
    BY <1>7 DEF Clear, HeardIsServed
  <2>6. AloneFinds'
    BY <1>7 DEF Clear, AloneFinds, LifeTypes, Looking, Disturbs, Running, Over
  <2>7. PunctualIsTrue'
    BY <1>7 DEF Clear, PunctualIsTrue, Refusals
  <2> QED
    BY <2>1, <2>2, <2>3, <2>4, <2>5, <2>6, <2>7
<1>8. QED
  BY <1>1, <1>2, <1>3, <1>4, <1>5, <1>6, <1>7 DEF End

\* A broker's: it listens, looks at the record, ends an abandoned turn.
LEMMA BrokerStep ==
    ASSUME LifeInv, NEW b \in Brokers, Broker(b)
    PROVE  LifeInv'
<1> USE LifecycleAssumption DEF LifeInv, Brokers, Actors, brokerVars, Goes
<1>1. CASE Listen(b)
  <2>1. LifeTypes'
    BY <1>1 DEF Listen, LifeTypes
  <2>2. Found'
    BY <1>1 DEF Listen, Found
  <2>3. SavedBeforeSeen'
    BY <1>1 DEF Listen, SavedBeforeSeen, Saved, LifeTypes
  <2>4. OwnIsSpawned'
    BY <1>1 DEF Listen, OwnIsSpawned, LifeTypes
  <2>5. HeardIsServed'
    BY <1>1 DEF Listen, HeardIsServed, LifeTypes, Found
  <2>6. AloneFinds'
    BY <1>1 DEF Listen, AloneFinds, LifeTypes, Reachable
  <2>7. PunctualIsTrue'
    BY <1>1 DEF Listen, PunctualIsTrue, LifeTypes
  <2> QED
    BY <2>1, <2>2, <2>3, <2>4, <2>5, <2>6, <2>7
<1>2. CASE SelfCheck(b)
  <2>1. LifeTypes'
    BY <1>2 DEF SelfCheck, StopListening, LifeTypes
  <2>2. Found'
    BY <1>2 DEF SelfCheck, Found
  <2>3. SavedBeforeSeen'
    BY <1>2 DEF SelfCheck, StopListening, SavedBeforeSeen, Saved, LifeTypes
  <2>4. OwnIsSpawned'
    BY <1>2 DEF SelfCheck, StopListening, OwnIsSpawned, LifeTypes
  <2>5. HeardIsServed'
    BY <1>2 DEF SelfCheck, StopListening, InUse, Clients, Connected, HeardIsServed, LifeTypes, Found
  <2>6. AloneFinds'
    BY <1>2 DEF SelfCheck, StopListening, RecordIs, AloneFinds, LifeTypes, Reachable
  <2>7. PunctualIsTrue'
    BY <1>2 DEF SelfCheck, StopListening, PunctualIsTrue, LifeTypes
  <2> QED
    BY <2>1, <2>2, <2>3, <2>4, <2>5, <2>6, <2>7
<1>3. CASE TurnEnds(b)
  <2>1. LifeTypes'
    BY <1>3 DEF TurnEnds, LifeTypes
  <2>2. Found'
    BY <1>3 DEF TurnEnds, Found
  <2>3. SavedBeforeSeen'
    BY <1>3 DEF TurnEnds, SavedBeforeSeen, Saved
  <2>4. OwnIsSpawned'
    BY <1>3 DEF TurnEnds, OwnIsSpawned
  <2>5. HeardIsServed'
    BY <1>3 DEF TurnEnds, HeardIsServed
  <2>6. AloneFinds'
    BY <1>3 DEF TurnEnds, AloneFinds, Reachable
  <2>7. PunctualIsTrue'
    BY <1>3 DEF TurnEnds, PunctualIsTrue
  <2> QED
    BY <2>1, <2>2, <2>3, <2>4, <2>5, <2>6, <2>7
<1>4. QED
  BY <1>1, <1>2, <1>3 DEF Broker

\* The invariant is inductive.
LEMMA LifeNextInv ==
    ASSUME LifeInv, [LifeNext]_lifeVars PROVE LifeInv'
<1>1. CASE UNCHANGED lifeVars
  BY <1>1
     DEF lifeVars, brokerVars, LifeInv, LifeTypes, Found, Saved, SavedBeforeSeen, OwnIsSpawned,
         HeardIsServed, AloneFinds, PunctualIsTrue, Reachable
<1>2. CASE LifeNext
  BY <1>2, CommandStep, SessionEndStep, BrokerStep DEF LifeNext
<1>3. QED
  BY <1>1, <1>2

(* Every reachable state is well typed and agrees on who is up and saved. *)
THEOREM LifeIsInductive == LifeSpec => []LifeInv
BY LifeInitInv, LifeNextInv, PTL DEF LifeSpec

(* No idle stop, self-check or clean-up takes a broker from the command it *)
(* serves, and a command fails only through another's step, for any number *)
(* of commands, session ends and late answers (lifecycle.ts, server.ts).   *)
THEOREM CommandsAreAlwaysServed == LifeSpec => []CommandsAreServed
<1>1. LifeInv => CommandsAreServed
  BY DEF LifeInv, HeardIsServed, AloneFinds, CommandsAreServed, ServedClientKept, AloneNeverFails
<1>2. QED
  BY <1>1, LifeIsInductive, PTL

\* A client that a broker serves shows that it is up.
LEMMA InUseIsUp ==
    ASSUME LifeInv, NEW b \in Brokers, InUse(b) PROVE phase[b] = "up"
BY DEF LifeInv, HeardIsServed, InUse, Clients

\* With no late answer, whoever removes a busy broker's record goes by another.
LEMMA BusyStep ==
    ASSUME LifeInv, LifeNext, NEW b \in Brokers, record = b, InUse(b), record' = NoBroker, slow = 0
    PROVE  \E a \in Actors : pc[a] = "unlink" /\ pc'[a] # "unlink" /\ seen[a] # b
<1>1. b # NoBroker
  BY LifecycleAssumption DEF Brokers
<1>2. PICK a \in Actors : Clear(a)
  <2>1. CASE \E c \in Users : Command(c)
    BY <1>1, <2>1, LifecycleAssumption
       DEF Command, Load, Probe, Teardown, Exists, Spawn, Wait, Save, Connect, Initialize, Close,
           Drain, Die, Actors
  <2>2. CASE \E e \in SessionEnds : End(e)
    BY <1>1, <2>2 DEF End, LoadAtEnd, Sweep, Ask, Answered, Teardown, Exists, Actors
  <2>3. CASE \E d \in Brokers : Broker(d)
    BY <1>1, <2>3 DEF Broker, Listen, SelfCheck, TurnEnds
  <2>4. QED
    BY <2>1, <2>2, <2>3 DEF LifeNext
<1>3. pc[a] = "unlink" /\ pc'[a] # "unlink"
  BY <1>2 DEF Clear, Goes, Cleared, LifeInv, LifeTypes
<1>4. seen[a] # b
  BY <1>1, <1>3, InUseIsUp DEF LifeInv, PunctualIsTrue, Refusals
<1>5. QED
  BY <1>3, <1>4

(* The record of a broker that serves a client is cleared only by one that *)
(* had read another record, or after a late answer                         *)
(* (session-lifecycle.ts:325-339).                                         *)
THEOREM BusyRecordAlwaysStays == LifeSpec => BusyRecordStays
<1> DEFINE A == \A b \in Brokers :
                   record = b /\ InUse(b) /\ record' = NoBroker
                     => slow > 0 \/ \E a \in Actors : pc[a] = "unlink" /\ pc'[a] # "unlink"
                         /\ seen[a] # b
<1>1. LifeInv /\ [LifeNext]_lifeVars => [A]_lifeVars
  <2> SUFFICES ASSUME LifeInv, LifeNext, NEW b \in Brokers, record = b, InUse(b),
      record' = NoBroker,
                      ~(slow > 0)
               PROVE  \E a \in Actors : pc[a] = "unlink" /\ pc'[a] # "unlink" /\ seen[a] # b
    OBVIOUS
  <2>1. slow = 0
    BY DEF LifeInv, LifeTypes
  <2>2. QED
    BY <2>1, BusyStep
<1>2. QED
  BY <1>1, LifeIsInductive, PTL DEF LifeSpec, BusyRecordStays

-----------------------------------------------------------------------------
(* TaskThreads.                                                            *)

\* A set of numbers that is not empty has a least one.
LEMMA LeastOne ==
    ASSUME NEW S \in SUBSET Nat, S # {}
    PROVE  \E n \in S : \A m \in S : n <= m
<1>1. PICK n \in S : \A m \in S : ~(<<m, n>> \in OpToRel(<, Nat))
  BY NatLessThanWellFounded, WFMin
<1>2. ASSUME NEW m \in S PROVE n <= m
  <2>1. ~(<<m, n>> \in OpToRel(<, Nat)) /\ m \in Nat /\ n \in Nat
    BY <1>1
  <2>2. QED
    BY <2>1 DEF OpToRel
<1>3. QED
  BY <1>2

\* What is kept of the first n elements of s, and of fewer.
Filters(k, s, S, n) ==
    k = [i \in 0..n |-> IF i = 0 THEN <<>>
                        ELSE IF s[i] \in S THEN Append(k[i - 1], s[i]) ELSE k[i - 1]]

LEMMA FilterExists ==
    ASSUME NEW s, NEW S, NEW n \in Nat
    PROVE  \E k : Filters(k, s, S, n)
<1> DEFINE Bad == {m \in Nat : ~ \E k : Filters(k, s, S, m)}
<1>1. SUFFICES ASSUME Bad # {} PROVE FALSE
  OBVIOUS
<1>2. PICK m \in Bad : \A l \in Bad : m <= l
  <2>1. Bad \in SUBSET Nat
    OBVIOUS
  <2> HIDE DEF Bad
  <2>2. QED
    BY <1>1, <2>1, LeastOne
<1>3. m \in Nat /\ ~ \E k : Filters(k, s, S, m)
  OBVIOUS
<1>4. CASE m = 0
  <2> DEFINE k == [i \in 0..0 |-> <<>>]
  <2>1. k = [i \in 0..0 |-> IF i = 0 THEN <<>>
                            ELSE IF s[i] \in S THEN Append(k[i - 1], s[i]) ELSE k[i - 1]]
    OBVIOUS
  <2>2. QED
    BY <1>3, <1>4, <2>1 DEF Filters
<1>5. CASE m > 0
  <2>1. m - 1 \in Nat /\ m - 1 \notin Bad
    BY <1>2, <1>3, <1>5
  <2>2. PICK k : Filters(k, s, S, m - 1)
    BY <2>1
  <2> DEFINE g == [i \in 0..m |-> IF i # m THEN k[i]
                                  ELSE IF s[m] \in S THEN Append(k[m - 1], s[m])
                                  ELSE k[m - 1]]
             Next1(i) == IF i = 0 THEN <<>>
                         ELSE IF s[i] \in S THEN Append(g[i - 1], s[i]) ELSE g[i - 1]
  <2>3. ASSUME NEW i \in 0..m PROVE g[i] = Next1(i)
    <3>1. CASE i = m
      <4>1. g[m - 1] = k[m - 1] /\ i # 0
        BY <1>3, <1>5, <3>1
      <4>2. QED
        BY <3>1, <4>1
    <3>2. CASE i # m
      <4>1. i \in 0..(m - 1) /\ g[i] = k[i] /\ (i # 0 => g[i - 1] = k[i - 1])
        BY <1>3, <3>2
      <4>2. k[i] = IF i = 0 THEN <<>>
                   ELSE IF s[i] \in S THEN Append(k[i - 1], s[i]) ELSE k[i - 1]
        BY <2>2, <4>1 DEF Filters
      <4>3. QED
        BY <4>1, <4>2
    <3>3. QED
      BY <3>1, <3>2
  <2>4. g = [i \in 0..m |-> Next1(i)]
    <3>1. g = [i \in 0..m |-> g[i]]
      OBVIOUS
    <3> HIDE DEF g, Next1
    <3>2. QED
      BY <2>3, <3>1
  <2>5. Filters(g, s, S, m)
    BY <2>4 DEF Filters
  <2>6. QED
    BY <1>3, <2>5
<1>6. QED
  BY <1>3, <1>4, <1>5

\* The elements of the sequences that rows are put on and taken from.
LEMMA AppendSet ==
    ASSUME NEW T, NEW s \in Seq(T), NEW x \in T
    PROVE  ToSet(Append(s, x)) = ToSet(s) \cup {x}
<1>1. /\ DOMAIN Append(s, x) = 1..(Len(s) + 1) /\ Append(s, x)[Len(s) + 1] = x
      /\ DOMAIN s = 1..Len(s) /\ Len(s) \in Nat /\ \A i \in 1..Len(s) : Append(s, x)[i] = s[i]
  OBVIOUS
<1> DEFINE t == Append(s, x)
<1>2. \A y : (\E i \in DOMAIN t : y = t[i]) <=> y = x \/ \E i \in DOMAIN s : y = s[i]
  <2> HIDE DEF t
  <2>1. /\ DOMAIN t = 1..(Len(s) + 1) /\ t[Len(s) + 1] = x
        /\ DOMAIN s = 1..Len(s) /\ Len(s) \in Nat /\ \A i \in 1..Len(s) : t[i] = s[i]
    BY <1>1 DEF t
  <2> QED
    BY <2>1
<1> QED
  BY <1>2 DEF ToSet

\* Only keeps the elements that are in the set.
LEMMA OnlyFacts ==
    ASSUME NEW T, NEW s \in Seq(T), NEW S
    PROVE  Only(s, S) \in Seq(T) /\ ToSet(Only(s, S)) = ToSet(s) \cap S
<1> DEFINE K == CHOOSE k : Filters(k, s, S, Len(s))
<1>1. Only(s, S) = K[Len(s)]
  BY DEF Only, Filters
<1>2. Filters(K, s, S, Len(s))
  BY FilterExists
<1> HIDE DEF K
<1> DEFINE Kept(i) == K[i] \in Seq(T) /\ ToSet(K[i]) = {s[j] : j \in 1..i} \cap S
           Bad == {i \in 0..Len(s) : ~Kept(i)}
<1>3. ASSUME NEW i \in 1..Len(s), Kept(i - 1) PROVE Kept(i)
  <2>1. K[i] = IF s[i] \in S THEN Append(K[i - 1], s[i]) ELSE K[i - 1]
    <3>1. i \in 0..Len(s) /\ i # 0
      OBVIOUS
    <3> QED
      BY <1>2, <3>1 DEF Filters
  <2>2. {s[j] : j \in 1..i} = {s[j] : j \in 1..(i - 1)} \cup {s[i]}
    OBVIOUS
  <2>3. s[i] \in T
    OBVIOUS
  <2>4. CASE s[i] \in S
    <3>1. K[i] = Append(K[i - 1], s[i])
      BY <2>1, <2>4
    <3>2. K[i] \in Seq(T)
      BY <1>3, <2>3, <3>1
    <3>3. ToSet(K[i]) = ToSet(K[i - 1]) \cup {s[i]}
      BY <1>3, <2>3, <3>1, AppendSet
    <3> QED
      BY <1>3, <2>2, <2>4, <3>2, <3>3
  <2>5. CASE s[i] \notin S
    BY <1>3, <2>1, <2>2, <2>5
  <2> QED
    BY <2>4, <2>5
<1>4. Kept(0)
  <2>1. K[0] = <<>>
    BY <1>2 DEF Filters
  <2> QED
    BY <2>1 DEF ToSet
<1>5. Bad = {}
  <2>1. SUFFICES ASSUME Bad # {} PROVE FALSE
    OBVIOUS
  <2>2. PICK i \in Bad : \A l \in Bad : i <= l
    <3>1. Bad \in SUBSET Nat
      OBVIOUS
    <3> HIDE DEF Bad
    <3> QED
      BY <2>1, <3>1, LeastOne
  <2>3. i \in 0..Len(s) /\ ~Kept(i) /\ i # 0
    <3> HIDE DEF Kept
    <3> QED
      BY <1>4
  <2>4. i - 1 \notin Bad
    <3> HIDE DEF Bad
    <3> QED
      BY <2>2, <2>3
  <2>5. Kept(i - 1) /\ i \in 1..Len(s)
    <3> HIDE DEF Kept
    <3> QED
      BY <2>3, <2>4
  <2> QED
    <3> HIDE DEF Kept
    <3> QED
      BY <1>3, <2>3, <2>5
<1>6. Kept(Len(s))
  <2> HIDE DEF Kept
  <2> QED
    BY <1>5
<1> QED
  <2>1. ToSet(s) = {s[j] : j \in 1..Len(s)}
    BY DEF ToSet
  <2> QED
    BY <1>1, <1>6, <2>1

\* What runs on an id, and how a task gets there.
TaskRun == [task : Tasks, role : {p.role : p \in Profiles}, cwd : {p.cwd : p \in Profiles},
            how : {"fresh", "last", "thread"}]
JobRecords == [by : Profiles, status : {"none", "queued", "running", "settled"},
               id : Ids \cup {"none"}]
Listings == [id : Ids, cwd : {p.cwd : p \in Profiles}]

ThrTypes ==
    /\ job \in [Tasks -> JobRecords]
    /\ index \in Seq(Tasks)
    /\ asked \in [Tasks -> Ids \cup {"fresh", "last"}]
    /\ codexList \in Seq(Listings)
    /\ runs \in [Ids -> Seq(TaskRun)]

\* A task gets its id when its turn starts, and the index has a row of the id
\* until it drops the last one.
OnRecord ==
    /\ \A t \in Tasks : job[t].status \in {"none", "queued"} => job[t].id = "none"
    /\ \A t \in Tasks : job[t].id \in Ids \ forgotten => \E u \in ToSet(index) : job[u].id = job[t].id

\* The runs of an id are those of the tasks that have it.
RunsAreTheirs ==
    /\ \A id \in Ids : \A i \in DOMAIN runs[id] :
          LET r == runs[id][i] IN
          job[r.task].id = id /\ r.role = job[r.task].by.role /\ r.cwd = job[r.task].by.cwd
    /\ \A t \in Tasks : job[t].id \in Ids =>
          \E i \in DOMAIN runs[job[t].id] : runs[job[t].id][i].task = t

\* An id that the index remembers is run by its own runtime, and so is one
\* that a task means to resume; only a role goes to Claude.
OnItsRuntime ==
    /\ \A t \in Tasks : job[t].id \in Ids \ forgotten => job[t].by.runtime = RuntimeOf(job[t].id)
    /\ \A t \in Tasks : job[t].status # "none" /\ job[t].by.runtime = "claude" =>
          job[t].by.role # "none"
    /\ \A i \in DOMAIN codexList : codexList[i].id \in Codexes \cup forgotten

\* A task that waits to resume was judged against the id's last owner, which
\* stands for all of them.
Alike(p, q) == p.role = q.role /\ p.cwd = q.cwd
WaitsToRun(t) == job[t].status = "queued"
ResumesAlike ==
    /\ \A t, u \in Tasks :
          job[t].id \in Claudes \ forgotten /\ job[u].id = job[t].id => Alike(job[t].by, job[u].by)
    /\ \A t \in Tasks : WaitsToRun(t) /\ asked[t] \in Ids => runs[asked[t]] # <<>>
    /\ \A t, u \in Tasks :
          WaitsToRun(t) /\ asked[t] \in Claudes \ forgotten /\ job[u].id = asked[t] =>
             Alike(job[t].by, job[u].by)
    /\ \A t \in Tasks : WaitsToRun(t) /\ asked[t] = "last" => job[t].by.runtime = "codex"
    /\ \A t \in Tasks : WaitsToRun(t) /\ asked[t] \in Ids \ forgotten =>
          job[t].by.runtime = RuntimeOf(asked[t])

ThrInv == ThrTypes /\ OnRecord /\ RunsAreTheirs /\ OnItsRuntime /\ ResumesAlike /\ LastIsOwnRescue

\* What is put on top of a sequence is one of it.
LEMMA OnTop ==
    ASSUME NEW T, NEW s \in Seq(T), NEW x \in T
    PROVE  <<x>> \o s \in Seq(T) /\ ToSet(<<x>> \o s) = ToSet(s) \cup {x}
<1> DEFINE t == <<x>> \o s
<1>1. /\ t \in Seq(T) /\ DOMAIN t = 1..(Len(s) + 1) /\ t[1] = x
      /\ DOMAIN s = 1..Len(s) /\ Len(s) \in Nat /\ \A i \in 1..Len(s) : t[i + 1] = s[i]
  OBVIOUS
<1>2. \A y : (\E i \in DOMAIN t : y = t[i]) <=> y = x \/ \E i \in DOMAIN s : y = s[i]
  <2> HIDE DEF t
  <2>1. ASSUME NEW i \in DOMAIN t, i # 1 PROVE i - 1 \in DOMAIN s /\ t[i] = s[i - 1]
    BY <1>1, <2>1
  <2>2. ASSUME NEW i \in DOMAIN s PROVE i + 1 \in DOMAIN t /\ t[i + 1] = s[i]
    BY <1>1
  <2>3. 1 \in DOMAIN t /\ t[1] = x
    BY <1>1
  <2> QED
    BY <2>1, <2>2, <2>3
<1> QED
  BY <1>1, <1>2 DEF ToSet

\* The first of a sequence is one of it.
LEMMA HeadIsIn ==
    ASSUME NEW T, NEW s \in Seq(T), s # <<>>
    PROVE  Head(s) \in ToSet(s)
BY DEF ToSet

\* A row that is written is there, and what is dropped is forgotten.
LEMMA UpsertFacts ==
    ASSUME ThrTypes, NEW t \in Tasks, NEW now \in JobRecords, Upsert(t, now)
    PROVE  /\ job' \in [Tasks -> JobRecords] /\ job'[t] = now
           /\ \A u \in Tasks : u # t => job'[u] = job[u]
           /\ index' \in Seq(Tasks) /\ t \in ToSet(index') /\ forgotten \subseteq forgotten'
           /\ \A u \in ToSet(index) \ {t} :
                 (\E v \in ToSet(index') : job'[v].id = job[u].id) \/ job[u].id \in forgotten'
<1> DEFINE rest == Only(index, Tasks \ {t})
           order == <<t>> \o rest
           drops(u) == \E i \in DOMAIN order : i > MaxRows /\ order[i] = u /\ u # t /\ ~IsActive(u)
           gone == {u \in ToSet(order) : drops(u)}
<1>1. /\ job' = [u \in Tasks |-> IF u = t THEN now ELSE job[u]]
      /\ index' = Only(order, Tasks \ gone)
      /\ forgotten' = forgotten \cup ({job[u].id : u \in gone} \ {job'[u].id : u \in ToSet(index')})
  BY DEF Upsert
<1>2. index \in Seq(Tasks) /\ job \in [Tasks -> JobRecords]
  BY DEF ThrTypes
<1> HIDE DEF rest
<1>3. rest \in Seq(Tasks) /\ ToSet(rest) = ToSet(index) \cap (Tasks \ {t})
  BY <1>2, OnlyFacts DEF rest
<1> HIDE DEF order
<1>4. order \in Seq(Tasks) /\ ToSet(order) = ToSet(rest) \cup {t}
  BY <1>3, OnTop DEF order
<1>5. t \notin gone /\ gone \subseteq ToSet(order)
  OBVIOUS
<1> HIDE DEF gone
<1>6. index' \in Seq(Tasks) /\ ToSet(index') = ToSet(order) \cap (Tasks \ gone)
  BY <1>1, <1>4, OnlyFacts
<1>7. ToSet(index) \subseteq Tasks
  BY <1>2 DEF ToSet
<1>8. t \in ToSet(index')
  BY <1>4, <1>5, <1>6
<1>9. ASSUME NEW u \in ToSet(index) \ {t}
      PROVE  (\E v \in ToSet(index') : job'[v].id = job[u].id) \/ job[u].id \in forgotten'
  <2>1. u \in Tasks /\ job'[u].id = job[u].id
    BY <1>1, <1>7
  <2>2. CASE u \in gone
    BY <1>1, <2>2
  <2>3. CASE u \notin gone
    BY <1>3, <1>4, <1>6, <2>1, <2>3
  <2> QED
    BY <2>2, <2>3
<1> QED
  BY <1>1, <1>2, <1>6, <1>8, <1>9

\* Nothing has run and nothing waits.
LEMMA ThrInvInit == ThrInit => ThrInv
<1> SUFFICES ASSUME ThrInit PROVE ThrInv
  OBVIOUS
<1> DEFINE p0 == CHOOSE p \in Profiles : TRUE
<1>1. p0 \in Profiles
  BY ProfilesAssumption
<1> HIDE DEF p0
<1>2. /\ job = [t \in Tasks |-> [by |-> p0, status |-> "none", id |-> "none"]]
      /\ index = <<>> /\ asked = [t \in Tasks |-> "fresh"]
      /\ codexList = <<>> /\ runs = [id \in Ids |-> <<>>]
  BY DEF ThrInit, Row, p0
<1>3. "none" \notin Ids /\ "fresh" \notin Ids
  BY IdsAssumption DEF Ids
<1>4. ThrTypes
  <2>1. job \in [Tasks -> JobRecords]
    BY <1>1, <1>2 DEF JobRecords
  <2>2. asked \in [Tasks -> Ids \cup {"fresh", "last"}]
    BY <1>2
  <2>3. index \in Seq(Tasks) /\ codexList \in Seq(Listings) /\ runs \in [Ids -> Seq(TaskRun)]
    BY <1>2
  <2> QED
    BY <2>1, <2>2, <2>3 DEF ThrTypes
<1>5. OnRecord
  BY <1>2, <1>3 DEF OnRecord
<1>6. RunsAreTheirs
  BY <1>2, <1>3 DEF RunsAreTheirs
<1>7. OnItsRuntime
  BY <1>2, <1>3 DEF OnItsRuntime
<1>8. ResumesAlike
  BY <1>2, <1>3 DEF ResumesAlike, WaitsToRun, Ids
<1>9. LastIsOwnRescue
  BY <1>2 DEF LastIsOwnRescue
<1> QED
  BY <1>4, <1>5, <1>6, <1>7, <1>8, <1>9 DEF ThrInv

\* A step that gives no task an id leaves the history as it was.
LEMMA HistoryStands ==
    ASSUME ThrInv, job' \in [Tasks -> JobRecords], runs' = runs, codexList' = codexList,
           forgotten \subseteq forgotten',
           \A u \in Tasks : job'[u].id = job[u].id,
           \A u \in Tasks : job[u].id \in Ids => job'[u].by = job[u].by,
           \A u \in ToSet(index) : job[u].id \in Ids =>
              (\E v \in ToSet(index') : job'[v].id = job[u].id) \/ job[u].id \in forgotten'
    PROVE  /\ \A t \in Tasks : job'[t].id \in Ids \ forgotten' =>
                 \E u \in ToSet(index') : job'[u].id = job'[t].id
           /\ RunsAreTheirs' /\ LastIsOwnRescue'
           /\ \A t \in Tasks : job'[t].id \in Ids \ forgotten' =>
                 job'[t].by.runtime = RuntimeOf(job'[t].id)
           /\ \A i \in DOMAIN codexList' : codexList'[i].id \in Codexes \cup forgotten'
           /\ \A t, u \in Tasks :
                 job'[t].id \in Claudes \ forgotten' /\ job'[u].id = job'[t].id =>
                    Alike(job'[t].by, job'[u].by)
<1>1. \A t \in Tasks : job'[t].id \in Ids \ forgotten' =>
         \E u \in ToSet(index') : job'[u].id = job'[t].id
  BY DEF ThrInv, OnRecord
<1>2. ASSUME NEW id \in Ids, NEW i \in DOMAIN runs[id]
      PROVE  /\ runs[id][i] \in TaskRun /\ runs[id][i].task \in Tasks
             /\ job[runs[id][i].task].id = id
             /\ job'[runs[id][i].task].by = job[runs[id][i].task].by
  <2>1. runs[id] \in Seq(TaskRun)
    BY DEF ThrInv, ThrTypes
  <2>2. runs[id][i] \in TaskRun
    BY <2>1
  <2>3. runs[id][i].task \in Tasks
    BY <2>2 DEF TaskRun
  <2>4. job[runs[id][i].task].id = id
    BY DEF ThrInv, RunsAreTheirs
  <2> QED
    BY <2>2, <2>3, <2>4
<1>3. RunsAreTheirs'
  <2>1. ASSUME NEW id \in Ids, NEW i \in DOMAIN runs[id]
        PROVE  LET r == runs[id][i] IN
               job'[r.task].id = id /\ r.role = job'[r.task].by.role /\ r.cwd = job'[r.task].by.cwd
    BY <1>2 DEF ThrInv, RunsAreTheirs
  <2>2. ASSUME NEW t \in Tasks, job'[t].id \in Ids
        PROVE  \E i \in DOMAIN runs[job'[t].id] : runs[job'[t].id][i].task = t
    BY <2>2 DEF ThrInv, RunsAreTheirs
  <2> QED
    BY <2>1, <2>2 DEF RunsAreTheirs
<1>4. LastIsOwnRescue'
  <2> SUFFICES ASSUME NEW id \in Ids, NEW i \in DOMAIN runs[id], runs[id][i].how = "last",
                      job'[runs[id][i].task].by.session # "none"
               PROVE  \E j \in 1..(i - 1) :
                         LET u == runs[id][j].task IN
                         /\ job'[u].by.role = "none"
                         /\ job'[u].by.session = job'[runs[id][i].task].by.session
                         /\ ~job'[u].by.gate
    BY DEF LastIsOwnRescue
  <2>1. job'[runs[id][i].task].by = job[runs[id][i].task].by
    BY <1>2
  <2>2. PICK j \in 1..(i - 1) :
           LET u == runs[id][j].task IN
           /\ job[u].by.role = "none" /\ ~job[u].by.gate
           /\ job[u].by.session = job[runs[id][i].task].by.session
    BY <2>1 DEF ThrInv, LastIsOwnRescue
  <2>3. j \in DOMAIN runs[id]
    <3>1. runs[id] \in Seq(TaskRun)
      BY DEF ThrInv, ThrTypes
    <3> QED
      BY <3>1
  <2>4. job'[runs[id][j].task].by = job[runs[id][j].task].by
    BY <1>2, <2>3
  <2> QED
    BY <2>1, <2>2, <2>4
<1>5. \A t \in Tasks : job'[t].id \in Ids \ forgotten' => job'[t].by.runtime = RuntimeOf(job'[t].id)
  BY DEF ThrInv, OnItsRuntime
<1>6. \A i \in DOMAIN codexList' : codexList'[i].id \in Codexes \cup forgotten'
  BY DEF ThrInv, OnItsRuntime
<1>7. ASSUME NEW t \in Tasks, NEW u \in Tasks,
             job'[t].id \in Claudes \ forgotten', job'[u].id = job'[t].id
      PROVE  Alike(job'[t].by, job'[u].by)
  <2>1. job[t].id \in Claudes \ forgotten /\ job[u].id = job[t].id
    BY <1>7
  <2>2. job'[t].by = job[t].by /\ job'[u].by = job[u].by
    BY <2>1 DEF Ids
  <2> QED
    BY <2>1, <2>2 DEF ThrInv, ResumesAlike
<1> QED
  BY <1>1, <1>3, <1>4, <1>5, <1>6, <1>7

\* A task that settles keeps its launch and its id.
LEMMA SettleStep ==
    ASSUME ThrInv, NEW t \in Tasks, job[t].status # "none",
           Upsert(t, [job[t] EXCEPT !.status = "settled"]),
           UNCHANGED <<asked, codexList, runs>>
    PROVE  ThrInv'
<1> DEFINE now == [job[t] EXCEPT !.status = "settled"]
<1>1. ThrTypes
  BY DEF ThrInv
<1>2. /\ now \in JobRecords
      /\ now.id = job[t].id /\ now.by = job[t].by /\ now.status = "settled"
  <2>1. job[t] \in JobRecords
    BY <1>1 DEF ThrTypes
  <2> QED
    BY <2>1 DEF JobRecords
<1>3. /\ job' \in [Tasks -> JobRecords] /\ job'[t] = now
      /\ \A u \in Tasks : u # t => job'[u] = job[u]
      /\ index' \in Seq(Tasks) /\ t \in ToSet(index') /\ forgotten \subseteq forgotten'
      /\ \A u \in ToSet(index) \ {t} :
            (\E v \in ToSet(index') : job'[v].id = job[u].id) \/ job[u].id \in forgotten'
  <2> HIDE DEF now
  <2>1. Upsert(t, now)
    BY DEF now
  <2> QED
    BY <1>1, <1>2, <2>1, UpsertFacts
<1> HIDE DEF now
<1>4. \A u \in Tasks : /\ job'[u].id = job[u].id /\ job'[u].by = job[u].by
                       /\ WaitsToRun(u)' => WaitsToRun(u)
                       /\ job'[u].status \in {"none", "queued"} =>
                             job[u].status \in {"none", "queued"}
                       /\ job'[u].status # "none" => job[u].status # "none"
  BY <1>2, <1>3 DEF WaitsToRun
<1>5. /\ \A u \in Tasks : job'[u].id \in Ids \ forgotten' =>
            \E v \in ToSet(index') : job'[v].id = job'[u].id
      /\ RunsAreTheirs' /\ LastIsOwnRescue'
      /\ \A u \in Tasks : job'[u].id \in Ids \ forgotten' =>
            job'[u].by.runtime = RuntimeOf(job'[u].id)
      /\ \A i \in DOMAIN codexList' : codexList'[i].id \in Codexes \cup forgotten'
      /\ \A v, u \in Tasks :
            job'[v].id \in Claudes \ forgotten' /\ job'[u].id = job'[v].id =>
               Alike(job'[v].by, job'[u].by)
  <2>1. \A u \in ToSet(index) : job[u].id \in Ids =>
           (\E v \in ToSet(index') : job'[v].id = job[u].id) \/ job[u].id \in forgotten'
    BY <1>3, <1>4
  <2> QED
    BY <1>3, <1>4, <2>1, HistoryStands
<1>6. ThrTypes'
  BY <1>1, <1>3 DEF ThrTypes
<1>7. OnRecord'
  <2>1. \A u \in Tasks : job'[u].status \in {"none", "queued"} => job'[u].id = "none"
    BY <1>4 DEF ThrInv, OnRecord
  <2> QED
    BY <1>5, <2>1 DEF OnRecord
<1>8. OnItsRuntime'
  <2>1. \A u \in Tasks : job'[u].status # "none" /\ job'[u].by.runtime = "claude" =>
           job'[u].by.role # "none"
    BY <1>4 DEF ThrInv, OnItsRuntime
  <2> QED
    BY <1>5, <2>1 DEF OnItsRuntime
<1>9. ResumesAlike'
  <2>1. /\ \A u \in Tasks : WaitsToRun(u)' /\ asked'[u] \in Ids => runs'[asked'[u]] # <<>>
        /\ \A u \in Tasks : WaitsToRun(u)' /\ asked'[u] = "last" => job'[u].by.runtime = "codex"
        /\ \A u \in Tasks : WaitsToRun(u)' /\ asked'[u] \in Ids \ forgotten' =>
              job'[u].by.runtime = RuntimeOf(asked'[u])
    BY <1>3, <1>4 DEF ThrInv, ResumesAlike
  <2>2. \A v, u \in Tasks :
           WaitsToRun(v)' /\ asked'[v] \in Claudes \ forgotten' /\ job'[u].id = asked'[v] =>
              Alike(job'[v].by, job'[u].by)
    BY <1>3, <1>4 DEF ThrInv, ResumesAlike
  <2> QED
    BY <1>5, <2>1, <2>2 DEF ResumesAlike
<1> QED
  BY <1>5, <1>6, <1>7, <1>8, <1>9 DEF ThrInv

\* The job a resume is judged against: the newest that has the id.
LEMMA OwnerFacts ==
    ASSUME ThrInv, NEW id \in Ids, id \notin forgotten, runs[id] # <<>>
    PROVE  /\ OwnerOf(id) # <<>> /\ Head(OwnerOf(id)) \in Tasks
           /\ job[Head(OwnerOf(id))].id = id
<1>1. runs[id] \in Seq(TaskRun) /\ index \in Seq(Tasks)
  BY DEF ThrInv, ThrTypes
<1>2. 1 \in DOMAIN runs[id] /\ runs[id][1] \in TaskRun
  BY <1>1
<1> DEFINE owners == {t \in Tasks : job[t].id = id}
<1>3. runs[id][1].task \in Tasks /\ job[runs[id][1].task].id = id
  BY <1>2 DEF TaskRun, ThrInv, RunsAreTheirs
<1>4. PICK w \in ToSet(index) : w \in Tasks /\ job[w].id = id
  BY <1>1, <1>3 DEF ThrInv, OnRecord, ToSet
<1>5. OwnerOf(id) \in Seq(Tasks) /\ ToSet(OwnerOf(id)) = ToSet(index) \cap owners
  <2> HIDE DEF owners
  <2>1. OwnerOf(id) = Only(index, owners)
    BY DEF OwnerOf, owners
  <2> QED
    BY <1>1, <2>1, OnlyFacts
<1>6. OwnerOf(id) # <<>>
  <2>1. w \in ToSet(OwnerOf(id))
    BY <1>4, <1>5
  <2> QED
    BY <2>1 DEF ToSet
<1>7. Head(OwnerOf(id)) \in ToSet(OwnerOf(id))
  BY <1>5, <1>6, HeadIsIn
<1> QED
  BY <1>5, <1>6, <1>7

\* A launch that is accepted resumes what it may.
LEMMA ResumeLaunchStep ==
    ASSUME ThrInv, NEW t \in Tasks, LaunchTask(t)
    PROVE  ThrInv'
<1>1. PICK by \in Profiles, resume \in {"fresh", "last"} \cup {id \in Ids : runs[id] # <<>>} :
        /\ by.runtime = "claude" => by.role # "none"
        /\ resume = "last" => by.role = "none" /\ by.runtime = "codex"
        /\ resume \in Ids => ResumeFits(resume, by.role, by.runtime, by.cwd)
        /\ by.gate => resume = "fresh"
        /\ Upsert(t, Row(by, "queued", "none"))
        /\ asked' = [asked EXCEPT ![t] = resume]
  BY DEF LaunchTask
<1>2. job[t].status = "none" /\ codexList' = codexList /\ runs' = runs
  BY DEF LaunchTask
<1>3. ThrTypes
  BY DEF ThrInv
<1>4. "none" \notin Ids /\ "fresh" \notin Ids /\ "last" \notin Ids
  BY IdsAssumption DEF Ids
<1> DEFINE now == Row(by, "queued", "none")
<1>5. now \in JobRecords /\ now.by = by /\ now.status = "queued" /\ now.id = "none"
  BY DEF JobRecords, Row
<1>6. /\ job' \in [Tasks -> JobRecords] /\ job'[t] = now
      /\ \A u \in Tasks : u # t => job'[u] = job[u]
      /\ index' \in Seq(Tasks) /\ t \in ToSet(index') /\ forgotten \subseteq forgotten'
      /\ \A u \in ToSet(index) \ {t} :
            (\E v \in ToSet(index') : job'[v].id = job[u].id) \/ job[u].id \in forgotten'
  <2> HIDE DEF now
  <2>1. Upsert(t, now)
    BY <1>1 DEF now
  <2> QED
    BY <1>3, <1>5, <2>1, UpsertFacts
<1> HIDE DEF now
<1>7. job[t].id = "none"
  BY <1>2 DEF ThrInv, OnRecord
<1>8. /\ \A u \in Tasks : job'[u].id = job[u].id
      /\ \A u \in Tasks : job[u].id \in Ids => u # t /\ job'[u].by = job[u].by
  BY <1>4, <1>5, <1>6, <1>7
<1>9. /\ \A u \in Tasks : job'[u].id \in Ids \ forgotten' =>
            \E v \in ToSet(index') : job'[v].id = job'[u].id
      /\ RunsAreTheirs' /\ LastIsOwnRescue'
      /\ \A u \in Tasks : job'[u].id \in Ids \ forgotten' =>
            job'[u].by.runtime = RuntimeOf(job'[u].id)
      /\ \A i \in DOMAIN codexList' : codexList'[i].id \in Codexes \cup forgotten'
      /\ \A v, u \in Tasks :
            job'[v].id \in Claudes \ forgotten' /\ job'[u].id = job'[v].id =>
               Alike(job'[v].by, job'[u].by)
  <2>1. \A u \in ToSet(index) : job[u].id \in Ids =>
           (\E v \in ToSet(index') : job'[v].id = job[u].id) \/ job[u].id \in forgotten'
    BY <1>4, <1>6, <1>7
  <2> QED
    BY <1>2, <1>6, <1>8, <2>1, HistoryStands
<1>10. asked \in [Tasks -> Ids \cup {"fresh", "last"}]
  BY <1>3 DEF ThrTypes
<1>11. asked'[t] = resume /\ \A u \in Tasks : u # t => asked'[u] = asked[u]
  BY <1>1, <1>10
<1>12. ThrTypes'
  <2>1. asked' \in [Tasks -> Ids \cup {"fresh", "last"}]
    BY <1>1, <1>10
  <2> QED
    BY <1>2, <1>3, <1>6, <2>1 DEF ThrTypes
<1>13. OnRecord'
  <2>1. \A u \in Tasks : job'[u].status \in {"none", "queued"} => job'[u].id = "none"
    BY <1>5, <1>6 DEF ThrInv, OnRecord
  <2> QED
    BY <1>9, <2>1 DEF OnRecord
<1>14. OnItsRuntime'
  <2>1. \A u \in Tasks : job'[u].status # "none" /\ job'[u].by.runtime = "claude" =>
           job'[u].by.role # "none"
    BY <1>1, <1>5, <1>6 DEF ThrInv, OnItsRuntime
  <2> QED
    BY <1>9, <2>1 DEF OnItsRuntime
<1>15. ASSUME resume \in Ids
       PROVE  /\ runs[resume] # <<>>
              /\ resume \notin forgotten => by.runtime = RuntimeOf(resume)
              /\ resume \in Claudes \ forgotten =>
                    \A u \in Tasks : job[u].id = resume => Alike(by, job[u].by)
  <2>1. runs[resume] # <<>>
    BY <1>1, <1>4, <1>15
  <2>2. ASSUME resume \notin forgotten
        PROVE  /\ by.runtime = RuntimeOf(resume)
               /\ resume \in Claudes =>
                     \A u \in Tasks : job[u].id = resume => Alike(by, job[u].by)
    <3> DEFINE owner == Head(OwnerOf(resume))
    <3>1. OwnerOf(resume) # <<>> /\ owner \in Tasks /\ job[owner].id = resume
      BY <1>15, <2>1, <2>2, OwnerFacts
    <3>2. SameRole(owner, by.role) /\ job[owner].by.runtime = by.runtime
          /\ (by.runtime = "claude" => job[owner].by.cwd = by.cwd)
      BY <1>1, <1>15, <3>1 DEF ResumeFits
    <3> HIDE DEF owner
    <3>3. by.runtime = RuntimeOf(resume)
      BY <1>15, <2>2, <3>1, <3>2 DEF ThrInv, OnItsRuntime
    <3>4. ASSUME resume \in Claudes, NEW u \in Tasks, job[u].id = resume
          PROVE  Alike(by, job[u].by)
      <4>1. by.runtime = "claude" /\ job[owner].by.runtime = "claude" /\ job[owner].by.cwd = by.cwd
        BY <3>2, <3>3, <3>4 DEF RuntimeOf
      <4>2. job[owner].status # "none"
        BY <1>4, <1>15, <3>1 DEF ThrInv, OnRecord
      <4>3. job[owner].by.role = by.role
        BY <3>1, <3>2, <4>1, <4>2 DEF SameRole, ThrInv, OnItsRuntime
      <4>4. Alike(job[owner].by, job[u].by)
        BY <2>2, <3>1, <3>4 DEF ThrInv, ResumesAlike
      <4> QED
        BY <4>1, <4>3, <4>4 DEF Alike
    <3> QED
      BY <3>3, <3>4
  <2> QED
    BY <2>1, <2>2
<1>16. ResumesAlike'
  <2>1. ASSUME NEW u \in Tasks, WaitsToRun(u)'
        PROVE  /\ asked'[u] \in Ids => runs'[asked'[u]] # <<>>
               /\ asked'[u] = "last" => job'[u].by.runtime = "codex"
               /\ asked'[u] \in Ids \ forgotten' => job'[u].by.runtime = RuntimeOf(asked'[u])
    <3>1. CASE u = t
      BY <1>1, <1>2, <1>4, <1>5, <1>6, <1>11, <1>15, <3>1
    <3>2. CASE u # t
      BY <1>2, <1>6, <1>11, <2>1, <3>2 DEF ThrInv, ResumesAlike, WaitsToRun
    <3> QED
      BY <3>1, <3>2
  <2>2. ASSUME NEW v \in Tasks, NEW u \in Tasks,
               WaitsToRun(v)', asked'[v] \in Claudes \ forgotten', job'[u].id = asked'[v]
        PROVE  Alike(job'[v].by, job'[u].by)
    <3>1. /\ asked'[v] \in Ids /\ asked'[v] \notin forgotten
          /\ job[u].id = asked'[v] /\ job'[u].by = job[u].by
      BY <1>6, <1>8, <2>2 DEF Ids
    <3>2. CASE v = t
      BY <1>5, <1>6, <1>11, <1>15, <2>2, <3>1, <3>2
    <3>3. CASE v # t
      BY <1>6, <1>11, <2>2, <3>1, <3>3 DEF ThrInv, ResumesAlike, WaitsToRun
    <3> QED
      BY <3>2, <3>3
  <2> QED
    BY <1>9, <2>1, <2>2 DEF ResumesAlike
<1> QED
  BY <1>9, <1>12, <1>13, <1>14, <1>16 DEF ThrInv

\* A turn that starts on an id it may run on.
LEMMA RunsOnStep ==
    ASSUME ThrInv, NEW t \in Tasks, WaitsToRun(t), NEW id \in Ids,
           NEW how \in {"fresh", "last", "thread"},
           RunsOn(t, id, how),
           id \notin forgotten => job[t].by.runtime = RuntimeOf(id),
           id \in Claudes \ forgotten =>
              \A u \in Tasks : job[u].id = id => Alike(job[u].by, job[t].by),
           how = "last" /\ job[t].by.session # "none" =>
              \E j \in DOMAIN runs[id] : LET u == runs[id][j].task IN
                 job[u].by.role = "none" /\ job[u].by.session = job[t].by.session /\ ~job[u].by.gate
    PROVE  ThrInv'
<1> DEFINE now == [job[t] EXCEPT !.status = "running", !.id = id]
           run == [task |-> t, role |-> job[t].by.role, cwd |-> job[t].by.cwd, how |-> how]
<1>1. ThrTypes
  BY DEF ThrInv
<1>2. job[t] \in JobRecords /\ job[t].status = "queued" /\ job[t].id = "none"
  BY <1>1 DEF ThrTypes, WaitsToRun, ThrInv, OnRecord
<1>3. now \in JobRecords /\ now.id = id /\ now.by = job[t].by /\ now.status = "running"
  BY <1>2 DEF JobRecords
<1>4. /\ job' \in [Tasks -> JobRecords] /\ job'[t] = now
      /\ \A u \in Tasks : u # t => job'[u] = job[u]
      /\ index' \in Seq(Tasks) /\ t \in ToSet(index') /\ forgotten \subseteq forgotten'
      /\ \A u \in ToSet(index) \ {t} :
            (\E v \in ToSet(index') : job'[v].id = job[u].id) \/ job[u].id \in forgotten'
  <2>1. Upsert(t, now)
    BY DEF RunsOn
  <2> HIDE DEF now
  <2> QED
    BY <1>1, <1>3, <2>1, UpsertFacts
<1>5. asked' = asked /\ runs' = [runs EXCEPT ![id] = Append(@, run)]
  BY DEF RunsOn
<1>6. run \in TaskRun /\ run.task = t /\ run.role = job[t].by.role /\ run.cwd = job[t].by.cwd
      /\ run.how = how
  BY <1>2 DEF TaskRun, JobRecords
<1> HIDE DEF now, run
<1>7. "none" \notin Ids
  BY IdsAssumption DEF Ids
<1>8. \A u \in Tasks : /\ job'[u].by = job[u].by
                       /\ u # t => job'[u].id = job[u].id /\ job'[u].status = job[u].status
                       /\ WaitsToRun(u)' => u # t /\ WaitsToRun(u)
                       /\ job'[u].status # "none" => job[u].status # "none"
  BY <1>2, <1>3, <1>4 DEF WaitsToRun
<1>9. runs \in [Ids -> Seq(TaskRun)]
  BY <1>1 DEF ThrTypes
<1> DEFINE latest == Len(runs[id]) + 1
<1>10. /\ runs[id] \in Seq(TaskRun) /\ runs'[id] = Append(runs[id], run)
       /\ \A x \in Ids : x # id => runs'[x] = runs[x]
  BY <1>5, <1>9
<1>11. /\ DOMAIN runs'[id] = 1..latest /\ runs'[id][latest] = run /\ latest \in Nat
       /\ DOMAIN runs[id] = 1..(latest - 1) /\ \A i \in 1..(latest - 1) : runs'[id][i] = runs[id][i]
       /\ runs'[id] # <<>>
  BY <1>6, <1>10
<1> HIDE DEF latest
\* A run that was there before is the run of a task that has the id.
<1>12. ASSUME NEW x \in Ids, NEW i \in DOMAIN runs[x]
       PROVE  /\ i \in DOMAIN runs'[x] /\ runs'[x][i] = runs[x][i]
              /\ runs[x][i].task \in Tasks /\ job[runs[x][i].task].id = x
              /\ runs[x][i].task # t
  <2>1. runs[x] \in Seq(TaskRun)
    BY <1>9
  <2>2. runs[x][i].task \in Tasks
    <3>1. runs[x][i] \in TaskRun
      BY <2>1
    <3> QED
      BY <3>1 DEF TaskRun
  <2>3. job[runs[x][i].task].id = x
    BY DEF ThrInv, RunsAreTheirs
  <2>4. i \in DOMAIN runs'[x] /\ runs'[x][i] = runs[x][i]
    <3>1. CASE x = id
      <4>1. i \in 1..(latest - 1) /\ i \in 1..latest
        BY <1>11, <3>1
      <4> QED
        BY <1>11, <3>1, <4>1
    <3>2. CASE x # id
      BY <1>10, <3>2
    <3> QED
      BY <3>1, <3>2
  <2> QED
    BY <1>2, <1>7, <2>2, <2>3, <2>4
<1>13. ASSUME NEW x \in Ids, NEW i \in DOMAIN runs'[x]
       PROVE  i \in DOMAIN runs[x] \/ (x = id /\ i = latest)
  BY <1>10, <1>11
<1>14. codexList' \in Seq(Listings) /\ \A l \in ToSet(codexList') : l.id \in Codexes \cup forgotten'
  <2> DEFINE known == Only(codexList, {l \in ToSet(codexList) : l.id = id})
             others == Only(codexList, {l \in ToSet(codexList) : l.id # id})
             entry == IF known = <<>> THEN [id |-> id, cwd |-> job[t].by.cwd] ELSE Head(known)
  <2>1. codexList' = IF job[t].by.runtime = "claude" \/ (job[t].by.gate /\ known = <<>>)
                     THEN codexList ELSE <<entry>> \o others
    BY DEF RunsOn
  <2>2. codexList \in Seq(Listings) /\ \A l \in ToSet(codexList) : l.id \in Codexes \cup forgotten
    BY <1>1 DEF ThrTypes, ThrInv, OnItsRuntime, ToSet
  <2>3. /\ known \in Seq(Listings) /\ ToSet(known) = {l \in ToSet(codexList) : l.id = id}
        /\ others \in Seq(Listings) /\ ToSet(others) \subseteq ToSet(codexList)
    <3> DEFINE its == {l \in ToSet(codexList) : l.id = id}
               rest == {l \in ToSet(codexList) : l.id # id}
    <3>1. its \subseteq ToSet(codexList)
      OBVIOUS
    <3> HIDE DEF its, rest
    <3>2. /\ Only(codexList, its) \in Seq(Listings) /\ ToSet(Only(codexList, its)) = its
          /\ Only(codexList, rest) \in Seq(Listings)
          /\ ToSet(Only(codexList, rest)) \subseteq ToSet(codexList)
      <4>1. \A S : /\ Only(codexList, S) \in Seq(Listings)
                   /\ ToSet(Only(codexList, S)) = ToSet(codexList) \cap S
        BY <2>2, OnlyFacts
      <4> QED
        BY <3>1, <4>1
    <3> QED
      BY <3>2 DEF its, rest
  <2> HIDE DEF known, others
  <2>4. entry \in Listings /\ entry.id = id
    <3>1. CASE known = <<>>
      <4>1. job[t].by.cwd \in {p.cwd : p \in Profiles}
        BY <1>2 DEF JobRecords
      <4> QED
        BY <3>1, <4>1 DEF Listings
    <3>2. CASE known # <<>>
      <4>1. Head(known) \in ToSet(known) /\ Head(known) \in Listings
        BY <2>3, <3>2, HeadIsIn
      <4> QED
        BY <2>3, <3>2, <4>1
    <3> QED
      BY <3>1, <3>2
  <2> HIDE DEF entry
  <2>5. CASE job[t].by.runtime = "claude" \/ (job[t].by.gate /\ known = <<>>)
    BY <1>4, <2>1, <2>2, <2>5
  <2>6. CASE job[t].by.runtime # "claude" /\ codexList' = <<entry>> \o others
    <3>1. codexList' \in Seq(Listings) /\ ToSet(codexList') = ToSet(others) \cup {entry}
      BY <2>3, <2>4, <2>6, OnTop
    <3>2. id \in Codexes \cup forgotten
      BY <2>6 DEF RuntimeOf, Ids
    <3> QED
      BY <1>4, <2>2, <2>3, <2>4, <3>1, <3>2
  <2> QED
    BY <2>1, <2>5, <2>6
<1>15. ThrTypes'
  <2>1. runs' \in [Ids -> Seq(TaskRun)]
    <3>1. Append(runs[id], run) \in Seq(TaskRun)
      BY <1>6, <1>10
    <3> QED
      BY <1>5, <1>9, <3>1
  <2> QED
    BY <1>1, <1>4, <1>5, <1>14, <2>1 DEF ThrTypes
<1>16. OnRecord'
  <2>1. \A u \in Tasks : job'[u].status \in {"none", "queued"} => job'[u].id = "none"
    BY <1>3, <1>4, <1>8 DEF ThrInv, OnRecord
  <2>2. ASSUME NEW u \in Tasks, job'[u].id \in Ids \ forgotten'
        PROVE  \E v \in ToSet(index') : job'[v].id = job'[u].id
    <3>1. CASE u = t
      BY <1>4, <3>1
    <3>2. CASE u # t
      <4>1. job'[u].id = job[u].id /\ job[u].id \in Ids \ forgotten
        BY <1>4, <1>8, <2>2, <3>2
      <4>2. PICK w \in ToSet(index) : job[w].id = job[u].id
        BY <4>1 DEF ThrInv, OnRecord
      <4>3. w # t
        BY <1>2, <1>7, <4>1, <4>2
      <4> QED
        BY <1>4, <2>2, <4>1, <4>2, <4>3
    <3> QED
      BY <3>1, <3>2
  <2> QED
    BY <2>1, <2>2 DEF OnRecord
<1>17. RunsAreTheirs'
  <2>1. ASSUME NEW x \in Ids, NEW i \in DOMAIN runs'[x]
        PROVE  LET r == runs'[x][i] IN
               job'[r.task].id = x /\ r.role = job'[r.task].by.role /\ r.cwd = job'[r.task].by.cwd
    <3>1. CASE i \in DOMAIN runs[x]
      BY <1>8, <1>12, <3>1 DEF ThrInv, RunsAreTheirs
    <3>2. CASE x = id /\ i = latest
      BY <1>3, <1>4, <1>6, <1>11, <3>2
    <3> QED
      BY <1>13, <3>1, <3>2
  <2>2. ASSUME NEW u \in Tasks, job'[u].id \in Ids
        PROVE  \E i \in DOMAIN runs'[job'[u].id] : runs'[job'[u].id][i].task = u
    <3>1. CASE u = t
      <4>1. job'[u].id = id /\ latest \in DOMAIN runs'[id] /\ runs'[id][latest].task = t
        BY <1>3, <1>4, <1>6, <1>11, <3>1
      <4> QED
        BY <3>1, <4>1
    <3>2. CASE u # t
      <4>1. PICK i \in DOMAIN runs[job[u].id] : runs[job[u].id][i].task = u
        BY <1>8, <2>2, <3>2 DEF ThrInv, RunsAreTheirs
      <4> QED
        BY <1>8, <1>12, <2>2, <3>2, <4>1
    <3> QED
      BY <3>1, <3>2
  <2> QED
    BY <2>1, <2>2 DEF RunsAreTheirs
<1>18. OnItsRuntime'
  <2>1. \A u \in Tasks : job'[u].id \in Ids \ forgotten' =>
           job'[u].by.runtime = RuntimeOf(job'[u].id)
    BY <1>3, <1>4, <1>8 DEF ThrInv, OnItsRuntime
  <2>2. \A u \in Tasks : job'[u].status # "none" /\ job'[u].by.runtime = "claude" =>
           job'[u].by.role # "none"
    BY <1>8 DEF ThrInv, OnItsRuntime
  <2>3. \A i \in DOMAIN codexList' : codexList'[i].id \in Codexes \cup forgotten'
    BY <1>14 DEF ToSet
  <2> QED
    BY <2>1, <2>2, <2>3 DEF OnItsRuntime
<1>19. ResumesAlike'
  <2>1. ASSUME NEW v \in Tasks, NEW u \in Tasks,
               job'[v].id \in Claudes \ forgotten', job'[u].id = job'[v].id
        PROVE  Alike(job'[v].by, job'[u].by)
    <3>1. CASE v # t /\ u # t
      BY <1>4, <1>8, <2>1, <3>1 DEF ThrInv, ResumesAlike
    <3>2. CASE v = t /\ u = t
      BY <3>2 DEF Alike
    <3>3. CASE v # t /\ u = t
      BY <1>3, <1>4, <1>8, <2>1, <3>3
    <3>4. CASE v = t /\ u # t
      <4>1. Alike(job[u].by, job[t].by)
        BY <1>3, <1>4, <1>8, <2>1, <3>4
      <4> QED
        BY <1>8, <3>4, <4>1 DEF Alike
    <3> QED
      BY <3>1, <3>2, <3>3, <3>4
  <2>2. ASSUME NEW u \in Tasks, WaitsToRun(u)'
        PROVE  /\ asked'[u] \in Ids => runs'[asked'[u]] # <<>>
               /\ asked'[u] = "last" => job'[u].by.runtime = "codex"
               /\ asked'[u] \in Ids \ forgotten' => job'[u].by.runtime = RuntimeOf(asked'[u])
    <3>1. WaitsToRun(u) /\ job'[u].by = job[u].by
      BY <1>8, <2>2
    <3>2. asked'[u] \in Ids => runs'[asked'[u]] # <<>>
      BY <1>5, <1>10, <1>11, <3>1 DEF ThrInv, ResumesAlike
    <3> QED
      BY <1>4, <1>5, <3>1, <3>2 DEF ThrInv, ResumesAlike
  <2>3. ASSUME NEW v \in Tasks, NEW u \in Tasks,
               WaitsToRun(v)', asked'[v] \in Claudes \ forgotten', job'[u].id = asked'[v]
        PROVE  Alike(job'[v].by, job'[u].by)
    <3>1. WaitsToRun(v) /\ asked[v] \in Claudes \ forgotten /\ asked'[v] = asked[v]
      BY <1>4, <1>5, <1>8, <2>3
    <3>2. CASE u # t
      BY <1>8, <2>3, <3>1, <3>2 DEF ThrInv, ResumesAlike
    <3>3. CASE u = t
      <4>1. id = asked[v] /\ id \in Claudes \ forgotten
        BY <1>3, <1>4, <2>3, <3>1, <3>3
      <4>2. runs[id] # <<>>
        BY <3>1, <4>1 DEF ThrInv, ResumesAlike, Ids
      <4>3. 1 \in DOMAIN runs[id]
        BY <1>10, <4>2
      <4> DEFINE w == runs[id][1].task
      <4>4. w \in Tasks /\ job[w].id = id
        BY <1>12, <4>3
      <4> HIDE DEF w
      <4>5. Alike(job[v].by, job[w].by)
        BY <3>1, <4>1, <4>4 DEF ThrInv, ResumesAlike
      <4>6. Alike(job[w].by, job[t].by)
        BY <4>1, <4>4
      <4> QED
        BY <1>8, <3>3, <4>5, <4>6 DEF Alike
    <3> QED
      BY <3>2, <3>3
  <2> QED
    BY <2>1, <2>2, <2>3 DEF ResumesAlike
<1>20. LastIsOwnRescue'
  <2> DEFINE Rescue(u, session) ==
               job[u].by.role = "none" /\ job[u].by.session = session /\ ~job[u].by.gate
  <2> SUFFICES ASSUME NEW x \in Ids, NEW i \in DOMAIN runs'[x], runs'[x][i].how = "last",
                      job'[runs'[x][i].task].by.session # "none"
               PROVE  \E j \in 1..(i - 1) :
                         LET u == runs'[x][j].task IN
                         /\ job'[u].by.role = "none" /\ ~job'[u].by.gate
                         /\ job'[u].by.session = job'[runs'[x][i].task].by.session
    BY DEF LastIsOwnRescue
  <2>1. \E j \in 1..(i - 1) :
           j \in DOMAIN runs[x] /\ Rescue(runs[x][j].task, job'[runs'[x][i].task].by.session)
    <3>1. CASE i \in DOMAIN runs[x]
      <4>1. runs'[x][i] = runs[x][i] /\ job'[runs[x][i].task].by = job[runs[x][i].task].by
        BY <1>8, <1>12, <3>1
      <4>2. PICK j \in 1..(i - 1) : Rescue(runs[x][j].task, job[runs[x][i].task].by.session)
        <5>1. runs[x][i].how = "last" /\ job[runs[x][i].task].by.session # "none"
          BY <4>1
        <5>2. \E j \in 1..(i - 1) : LET u == runs[x][j].task IN
                 /\ job[u].by.role = "none" /\ ~job[u].by.gate
                 /\ job[u].by.session = job[runs[x][i].task].by.session
          BY <3>1, <5>1 DEF ThrInv, LastIsOwnRescue
        <5> QED
          BY <5>2
      <4>3. runs[x] \in Seq(TaskRun)
        BY <1>9
      <4>4. j \in DOMAIN runs[x]
        BY <3>1, <4>3
      <4> HIDE DEF Rescue
      <4> QED
        BY <4>1, <4>2, <4>4
    <3>2. CASE x = id /\ i = latest
      <4>1. how = "last" /\ job'[runs'[x][i].task].by = job[t].by
        BY <1>6, <1>8, <1>11, <3>2
      <4>2. PICK j \in DOMAIN runs[id] : Rescue(runs[id][j].task, job[t].by.session)
        BY <4>1
      <4>3. j \in 1..(i - 1)
        BY <1>11, <3>2
      <4> HIDE DEF Rescue
      <4> QED
        BY <3>2, <4>1, <4>2, <4>3
    <3> QED
      BY <1>13, <3>1, <3>2
  <2>2. PICK j \in 1..(i - 1) :
           j \in DOMAIN runs[x] /\ Rescue(runs[x][j].task, job'[runs'[x][i].task].by.session)
    BY <2>1
  <2>3. runs'[x][j] = runs[x][j] /\ job'[runs[x][j].task].by = job[runs[x][j].task].by
    BY <1>8, <1>12, <2>2
  <2> QED
    BY <2>2, <2>3
<1> QED
  BY <1>15, <1>16, <1>17, <1>18, <1>19, <1>20 DEF ThrInv

\* The thread that --resume-latest finds.
LEMMA LastThreadFacts ==
    ASSUME ThrInv, NEW t \in Tasks, NEW id \in LastThread(t)
    PROVE  /\ id \in Ids /\ (id \notin forgotten => RuntimeOf(id) = "codex")
           /\ job[t].by.session # "none" =>
                 \E j \in DOMAIN runs[id] : LET u == runs[id][j].task IN
                    /\ job[u].by.role = "none" /\ ~job[u].by.gate
                    /\ job[u].by.session = job[t].by.session
<1> DEFINE visible == Visible(job[t].by.session, t)
           rescues == Only(visible, {u \in Tasks : Resumable(u)})
           here == ListedIn(job[t].by.cwd)
<1>1. \/ rescues # <<>> /\ id = job[Head(rescues)].id
      \/ job[t].by.session = "none" /\ here # <<>> /\ id = Head(here).id
  BY DEF LastThread
<1>2. index \in Seq(Tasks) /\ codexList \in Seq(Listings) /\ job \in [Tasks -> JobRecords]
  BY DEF ThrInv, ThrTypes
<1>3. CASE rescues # <<>> /\ id = job[Head(rescues)].id
  <2> DEFINE shown == {u \in Tasks \ {t} :
                         job[t].by.session = "none" \/ job[u].by.session = job[t].by.session}
             can == {u \in Tasks : Resumable(u)}
             u == Head(rescues)
  <2>1. visible = Only(index, shown) /\ rescues = Only(visible, can)
    BY DEF Visible
  <2>2. u \in shown /\ u \in can
    <3> HIDE DEF shown, can, rescues, visible, u
    <3>1. visible \in Seq(Tasks) /\ ToSet(visible) \subseteq shown
      BY <1>2, <2>1, OnlyFacts
    <3>2. rescues \in Seq(Tasks) /\ ToSet(rescues) = ToSet(visible) \cap can
      BY <2>1, <3>1, OnlyFacts
    <3>3. Head(rescues) \in ToSet(rescues)
      BY <1>3, <3>2, HeadIsIn
    <3> QED
      BY <3>1, <3>2, <3>3 DEF u
  <2> HIDE DEF visible, rescues, here, u
  <2>3. /\ u \in Tasks /\ Resumable(u) /\ id = job[u].id
        /\ job[t].by.session # "none" => job[u].by.session = job[t].by.session
    BY <1>3, <2>2 DEF u
  <2>4. id \in Ids
    BY <1>2, <2>3 DEF JobRecords, Resumable
  <2>5. id \notin forgotten => RuntimeOf(id) = "codex"
    BY <2>3, <2>4 DEF Resumable, ThrInv, OnItsRuntime
  <2>6. PICK j \in DOMAIN runs[id] : runs[id][j].task = u
    BY <2>3, <2>4 DEF ThrInv, RunsAreTheirs
  <2> QED
    BY <2>3, <2>4, <2>5, <2>6 DEF Resumable
<1>4. CASE job[t].by.session = "none" /\ here # <<>> /\ id = Head(here).id
  <2> DEFINE inDir == {l \in ToSet(codexList) : l.cwd = job[t].by.cwd}
  <2>1. here = Only(codexList, inDir)
    BY DEF ListedIn
  <2> HIDE DEF inDir, here
  <2>2. here \in Seq(Listings) /\ ToSet(here) \subseteq ToSet(codexList)
    BY <1>2, <2>1, OnlyFacts
  <2>3. Head(here) \in ToSet(codexList) /\ Head(here) \in Listings
    BY <1>4, <2>2, HeadIsIn
  <2>4. id \in Ids /\ id \in Codexes \cup forgotten
    BY <1>4, <2>3 DEF Listings, ToSet, ThrInv, OnItsRuntime
  <2> QED
    BY <1>4, <2>4, IdsAssumption DEF RuntimeOf
<1> QED
  BY <1>1, <1>3, <1>4

\* A worker that begins runs on a new id, on the last thread, or on the id
\* it was launched for; or it fails.
LEMMA BeginStep ==
    ASSUME ThrInv, NEW t \in Tasks, Begins(t)
    PROVE  ThrInv'
<1> DEFINE ids == CASE asked[t] = "fresh" -> Made(job[t].by.runtime)
                    [] asked[t] = "last"  -> LastThread(t)
                    [] OTHER              -> {asked[t]}
           how == IF asked[t] \in Ids THEN "thread" ELSE asked[t]
<1>1. job[t].status = "queued" /\ WaitsToRun(t)
  BY DEF Begins, WaitsToRun
<1>2. \/ \E id \in ids : RunsOn(t, id, how)
      \/ /\ Upsert(t, [job[t] EXCEPT !.status = "settled"])
         /\ UNCHANGED <<asked, codexList, runs>>
  BY DEF Begins
<1>3. asked[t] \in Ids \cup {"fresh", "last"}
  BY DEF ThrInv, ThrTypes
<1>4. "fresh" \notin Ids /\ "last" \notin Ids
  BY IdsAssumption DEF Ids
<1>5. CASE Upsert(t, [job[t] EXCEPT !.status = "settled"]) /\ UNCHANGED <<asked, codexList, runs>>
  BY <1>1, <1>5, SettleStep
<1>6. ASSUME NEW id \in ids, RunsOn(t, id, how) PROVE ThrInv'
  <2>1. CASE asked[t] = "fresh"
    <3>1. id \in Made(job[t].by.runtime) /\ how = "fresh"
      BY <1>4, <2>1
    <3>2. id \in Ids /\ RuntimeOf(id) = job[t].by.runtime /\ runs[id] = <<>>
      <4> DEFINE unused == {x \in Ids : RuntimeOf(x) = job[t].by.runtime /\ runs[x] = <<>>}
      <4>1. unused # {} /\ id = CHOOSE x \in unused : TRUE
        BY <3>1 DEF Made
      <4> HIDE DEF unused
      <4>2. id \in unused
        BY <4>1
      <4> QED
        BY <4>2 DEF unused
    <3>3. \A u \in Tasks : job[u].id # id
      BY <3>2 DEF ThrInv, RunsAreTheirs
    <3> HIDE DEF ids, how
    <3> QED
      BY <1>1, <1>6, <3>1, <3>2, <3>3, RunsOnStep
  <2>2. CASE asked[t] = "last"
    <3>1. id \in LastThread(t) /\ how = "last"
      BY <1>4, <2>2
    <3>2. job[t].by.runtime = "codex"
      BY <1>1, <2>2 DEF ThrInv, ResumesAlike
    <3>3. /\ id \in Ids /\ (id \notin forgotten => RuntimeOf(id) = "codex")
          /\ job[t].by.session # "none" =>
                \E j \in DOMAIN runs[id] : LET u == runs[id][j].task IN
                   job[u].by.role = "none" /\ job[u].by.session = job[t].by.session
                   /\ ~job[u].by.gate
      BY <3>1, LastThreadFacts
    <3>4. ~(id \in Claudes \ forgotten)
      BY <3>3 DEF RuntimeOf
    <3> HIDE DEF ids, how
    <3> QED
      BY <1>1, <1>6, <3>1, <3>2, <3>3, <3>4, RunsOnStep
  <2>3. CASE asked[t] \in Ids
    <3>1. id = asked[t] /\ id \in Ids /\ how = "thread"
      BY <1>4, <2>3
    <3>2. /\ id \notin forgotten => job[t].by.runtime = RuntimeOf(id)
          /\ id \in Claudes \ forgotten =>
                \A u \in Tasks : job[u].id = id => Alike(job[u].by, job[t].by)
      BY <1>1, <3>1 DEF ThrInv, ResumesAlike, Alike
    <3> HIDE DEF ids, how
    <3> QED
      BY <1>1, <1>6, <3>1, <3>2, RunsOnStep
  <2> QED
    BY <1>3, <2>1, <2>2, <2>3
<1> QED
  BY <1>2, <1>5, <1>6

\* Every step keeps it.
LEMMA ThrInvNext == ThrInv /\ [ThrNext]_thrVars => ThrInv'
<1> SUFFICES ASSUME ThrInv, [ThrNext]_thrVars PROVE ThrInv'
  OBVIOUS
<1>1. ASSUME NEW t \in Tasks, LaunchTask(t) PROVE ThrInv'
  BY <1>1, ResumeLaunchStep
<1>2. ASSUME NEW t \in Tasks, Begins(t) PROVE ThrInv'
  BY <1>2, BeginStep
<1>3. ASSUME NEW t \in Tasks, Settles(t) PROVE ThrInv'
  BY <1>3, SettleStep DEF Settles
<1>4. ASSUME NEW s \in Sessions, Cancels(s) PROVE ThrInv'
  <2>1. PICK named \in Tasks \cup {"none"} : \E t \in Cancelable(s, named) :
           Upsert(t, [job[t] EXCEPT !.status = "settled"])
    BY <1>4 DEF Cancels
  <2>2. PICK t \in Cancelable(s, named) : Upsert(t, [job[t] EXCEPT !.status = "settled"])
    BY <2>1
  <2>3. IsActive(t) /\ t \in Tasks
    <3>1. index \in Seq(Tasks)
      BY DEF ThrInv, ThrTypes
    <3>2. ToSet(index) \subseteq Tasks
      BY <3>1 DEF ToSet
    <3>3. ToSet(Visible(s, "none")) \subseteq Tasks
      BY <3>1, OnlyFacts DEF Visible
    <3> QED
      BY <3>2, <3>3 DEF Cancelable
  <2> QED
    BY <1>4, <2>2, <2>3, SettleStep DEF Cancels, IsActive
<1>5. ASSUME UNCHANGED thrVars PROVE ThrInv'
  BY <1>5 DEF thrVars, ThrInv, ThrTypes, OnRecord, RunsAreTheirs, OnItsRuntime, ResumesAlike,
              WaitsToRun, Alike, LastIsOwnRescue
<1> QED
  BY <1>1, <1>2, <1>3, <1>4, <1>5 DEF ThrNext

\* The tasks of a session's runs are alike, so the runs are.
LEMMA ResumesFitHolds == ThrInv => ResumesFit
<1> SUFFICES ASSUME ThrInv PROVE SessionKeepsItsRole
  BY DEF ThrInv, ResumesFit
<1>1. ASSUME NEW id \in Claudes \ forgotten, NEW i \in DOMAIN runs[id], NEW j \in DOMAIN runs[id]
      PROVE  runs[id][i].role = runs[id][j].role /\ runs[id][i].cwd = runs[id][j].cwd
  <2>1. id \in Ids /\ runs[id] \in Seq(TaskRun)
    BY DEF ThrInv, ThrTypes, Ids
  <2>2. runs[id][i].task \in Tasks /\ runs[id][j].task \in Tasks
    <3>1. runs[id][i] \in TaskRun /\ runs[id][j] \in TaskRun
      BY <2>1
    <3> QED
      BY <3>1 DEF TaskRun
  <2> DEFINE a == runs[id][i].task
             b == runs[id][j].task
  <2>3. /\ job[a].id = id /\ runs[id][i].role = job[a].by.role /\ runs[id][i].cwd = job[a].by.cwd
        /\ job[b].id = id /\ runs[id][j].role = job[b].by.role /\ runs[id][j].cwd = job[b].by.cwd
    BY <2>1 DEF ThrInv, RunsAreTheirs
  <2>4. Alike(job[a].by, job[b].by)
    BY <2>2, <2>3 DEF ThrInv, ResumesAlike
  <2> QED
    BY <2>3, <2>4 DEF Alike
<1> QED
  BY <1>1 DEF SessionKeepsItsRole

(* A role's Claude session goes on as that role and from its directory, and *)
(* --resume-last continues a rescue thread of its own session, for any      *)
(* number of tasks, sessions, threads and rows of the index                 *)
(* (task.ts:185-320).                                                       *)
THEOREM ResumesAlwaysFit == ThrSpec => []ResumesFit
<1>1. ThrSpec => []ThrInv
  BY ThrInvInit, ThrInvNext, PTL DEF ThrSpec
<1> QED
  BY <1>1, ResumesFitHolds, PTL

-----------------------------------------------------------------------------
(* Launch, with Models.                                                    *)


\* What config is about to write is valid beside what is stored, unless
\* another call wrote while it was judged.
JudgedIsSound ==
    \A c \in ConfigCalls : ~overlapped /\ config[c].step = "judged" =>
        LET change == config[c].change
        IN \/ "roles" \in change.clears
           \/ EntryIsValid(change.role, Changed(stored[change.role], change))

\* What a replay is given names the launch that was pinned, against every
\* catalog, and whatever the defaults are by then.
PinStands ==
    pin.launch.ok =>
        LET l == pin.launch
            f == pin.replay
        IN /\ l.side \in {"claude", "codex"} /\ l.sandbox \in BOOLEAN
           /\ f.role = l.role /\ f.allow = l.allow /\ f.effort = l.effort
           /\ f.model = PinnedSelection(f, l) /\ f.sandbox = IF l.sandbox THEN "on" ELSE "off"
           /\ l.model = NoModel =>
                 l.side = "codex" /\ (f.thread \/ DefaultRole(f.role) \notin Roles)
           /\ l.model # NoModel /\ l.side = "claude" => ClaudeModel(l.model.key) = l.model
           /\ l.model # NoModel /\ l.side = "codex" /\ ~PassedOn(l.model) =>
                 \A d \in Catalogs : CodexModel(l.model.key, l.model.provider, d) = l.model

\* All of it; a replay follows its dry run.
LchInv ==
    /\ sandboxed \in BOOLEAN /\ catalog \in Catalogs
    /\ stored = [r \in Roles |-> stored[r]] /\ config = [c \in ConfigCalls |-> config[c]]
    /\ StoredIsValid /\ JudgedIsSound
    /\ PinStands /\ (ran = NotYet \/ pin.launch.ok)
    /\ ReplayRunsThePin /\ EffortIsTaken

\* A row is found again by its own name, and it is the only one.
LEMMA RowIsNamed ==
    ASSUME NEW r \in ClaudeRows
    PROVE  LET m == Model(Key("claude", r.family, r.version), "")
           IN ClaudeModel(m.key) = m /\ RowsOf(m) = {r}
<1> DEFINE v == r.version
           named == {s \in ClaudeRows : s.family = r.family}
           fitting == {x \in named : v = <<>> \/ SameVersion(x.version, v)}
<1>1. SameVersion(v, v)
  BY DEF SameVersion
<1>2. fitting = {r}
  BY <1>1, ClaudeRowsAssumption
<1>3. ~Newer(v, v)
  <2>1. v \in Seq(Nat)
    BY ClaudeRowsAssumption
  <2>2. \A i : Segment(v, i) \in Nat
    BY <2>1 DEF Segment
  <2>3. \A i : ~(Segment(v, i) > Segment(v, i))
    BY <2>2
  <2> QED
    BY <2>3 DEF Newer
<1>4. Picked(named, v) = {x \in fitting : \A y \in fitting : ~Newer(y.version, x.version)}
  BY DEF Picked
<1> HIDE DEF fitting
<1>5. Picked(named, v) = {r}
  BY <1>2, <1>3, <1>4
<1>6. (CHOOSE x \in Picked(named, v) : TRUE) = r
  BY <1>5
<1> DEFINE key == Key("claude", r.family, r.version)
<1>7. key.form = "claude" /\ key.word = r.family /\ key.version = v
  BY DEF Key
<1>8. ClaudeModel(key) = Model(key, "")
  <2> DEFINE its == {s \in ClaudeRows : s.family = key.word}
  <2> HIDE DEF key
  <2>1. ClaudeModel(key) =
           IF key.form \notin {"family", "claude"} \/ Picked(its, key.version) = {} THEN NoModel
           ELSE Model(Key("claude", key.word,
                          (CHOOSE x \in Picked(its, key.version) : TRUE).version), "")
    BY DEF ClaudeModel
  <2>2. its = named
    BY <1>7
  <2> HIDE DEF named, its
  <2>3. Picked(its, key.version) = {r} /\ key.form = "claude" /\ key.word = r.family
    BY <1>5, <1>7, <2>2
  <2>4. (CHOOSE x \in {r} : TRUE) = r
    OBVIOUS
  <2>5. ClaudeModel(key) = Model(Key("claude", r.family, r.version), "")
    BY <2>1, <2>3, <2>4
  <2> QED
    BY <2>5 DEF key
<1>9. RowsOf(Model(key, "")) = {r}
  <2>1. Model(key, "").key = key
    BY DEF Model
  <2> QED
    BY <1>1, <1>7, <2>1, ClaudeRowsAssumption DEF RowsOf
<1> QED
  BY <1>8, <1>9 DEF Model

\* What a selection of Claude names is a row.
LEMMA ClaudeModelIsARow ==
    ASSUME NEW key, ClaudeModel(key) # NoModel
    PROVE  \E r \in ClaudeRows : ClaudeModel(key) = Model(Key("claude", r.family, r.version), "")
<1> DEFINE rows == Picked({r \in ClaudeRows : r.family = key.word}, key.version)
           r == CHOOSE x \in rows : TRUE
<1>1. rows # {} /\ ClaudeModel(key) = Model(Key("claude", key.word, r.version), "")
  BY DEF ClaudeModel
<1>2. r \in rows
  BY <1>1
<1>3. r \in ClaudeRows /\ r.family = key.word
  BY <1>2 DEF Picked
<1> QED
  BY <1>1, <1>3

\* An id that a selection of Codex resolved to is found again as it is,
\* whatever catalog there is, unless it has the form of a family.
LEMMA CodexModelIsStable ==
    ASSUME NEW key, NEW provider, NEW c, NEW d, NEW m, m = CodexModel(key, provider, c),
           m # NoModel, ~PassedOn(m)
    PROVE  CodexModel(m.key, m.provider, d) = m
<1> DEFINE versions == FamilyVersions(c, key.word)
           picked == Picked(versions, key.version)
<1>1. CASE RegistryRows(key) # {}
  <2> DEFINE r == CHOOSE x \in RegistryRows(key) : TRUE
  <2>1. r \in Registry /\ m = Model(r.model, provider)
    BY <1>1 DEF CodexModel, RegistryRows
  <2> HIDE DEF r
  <2>2. m.key = r.model /\ m.provider = provider
    BY <2>1 DEF Model
  <2>3. RegistryRows(m.key) = {r}
    BY <2>1, <2>2, RegistryAssumption DEF RegistryRows
  <2> QED
    BY <2>1, <2>2, <2>3 DEF CodexModel
<1>2. CASE RegistryRows(key) = {} /\ m = Model(key, provider)
  <2>1. m.key = key /\ m.provider = provider
    BY <1>2 DEF Model
  <2>2. key.form # "family"
    BY <1>2, <2>1 DEF PassedOn
  <2> QED
    BY <1>2, <2>1, <2>2 DEF CodexModel
<1>3. CASE RegistryRows(key) = {} /\ picked # {} /\ m = Model(CHOOSE id \in picked : TRUE, provider)
  <2> DEFINE id == CHOOSE x \in picked : TRUE
  <2>1. id \in picked
    BY <1>3
  <2>2. id.form = "gpt"
    BY <2>1 DEF Picked, FamilyVersions
  <2> HIDE DEF id
  <2>3. m.key = id /\ m.provider = provider /\ m = Model(id, provider)
    BY <1>3 DEF Model, id
  <2>4. RegistryRows(id) = {}
    BY <2>2, RegistryAssumption DEF RegistryRows
  <2> QED
    BY <2>2, <2>3, <2>4 DEF CodexModel
<1> QED
  BY <1>1, <1>2, <1>3 DEF CodexModel

\* The tier that the plugin picks is one that the catalog lists.
LEMMA CatalogEffortIsTaken ==
    ASSUME NEW c \in Catalogs, NEW model
    PROVE  CodexTakes(model, CatalogEffort(model.key, c), c)
<1> DEFINE key == model.key
           offered == IF key \in DOMAIN c THEN c[key] ELSE {}
           below == {e \in offered : Rank(e) < Rank(Fallback)}
<1>1. CASE offered = {}
  BY <1>1 DEF CodexTakes
<1>2. CASE offered # {} /\ Fallback \in offered
  <2>1. CatalogEffort(key, c) = Fallback
    BY <1>2 DEF CatalogEffort
  <2> QED
    BY <1>2, <2>1 DEF CodexTakes
<1>3. CASE offered # {} /\ Fallback \notin offered /\ below = {}
  <2>1. CatalogEffort(key, c) = NoEffort
    BY <1>3 DEF CatalogEffort
  <2> QED
    BY <2>1 DEF CodexTakes
<1>4. CASE offered # {} /\ Fallback \notin offered /\ below # {}
  <2>1. \A e \in offered : Rank(e) \in Nat
    <3>1. offered \subseteq Range(Ladder)
      BY CatalogsAssumption
    <3>2. \A e \in Range(Ladder) : Rank(e) \in Nat
      BY LadderAssumption DEF Range, Rank
    <3> QED
      BY <3>1, <3>2
  <2>2. Rank(Fallback) \in Nat
    BY LadderAssumption DEF Range, Rank
  <2> DEFINE ranks == {Rank(e) : e \in below}
  <2>3. ranks \subseteq Nat /\ ranks # {} /\ \A x \in ranks : x <= Rank(Fallback)
    BY <1>4, <2>1, <2>2
  <2>4. Max(ranks) \in ranks /\ \A x \in ranks : x <= Max(ranks)
    <3> HIDE DEF ranks
    <3> QED
      BY <2>2, <2>3, BoundedMax
  <2>5. \E e \in below : \A d \in below : Rank(d) <= Rank(e)
    BY <2>4
  <2>6. CatalogEffort(key, c) = CHOOSE e \in below : \A d \in below : Rank(d) <= Rank(e)
    BY <1>4 DEF CatalogEffort
  <2>7. CatalogEffort(key, c) \in below
    <3> HIDE DEF below
    <3> QED
      BY <2>5, <2>6
  <2> QED
    BY <2>7 DEF CodexTakes
<1> QED
  BY <1>1, <1>2, <1>3, <1>4

\* A version's own default is one that it takes.
LEMMA ModelEffortIsTaken ==
    ASSUME NEW c \in Catalogs, NEW model, NEW side,
           side = "claude" => \E r \in ClaudeRows : RowsOf(model) = {r}
    PROVE  Takes(side, model, ModelEffort(side, model, c), c)
<1>1. CASE side = "claude"
  <2>1. PICK r \in ClaudeRows : RowsOf(model) = {r}
    BY <1>1
  <2>2. ModelEffort(side, model, c) = r.effort
    BY <1>1, <2>1 DEF ModelEffort
  <2> QED
    BY <1>1, <2>1, <2>2, ClaudeRowsAssumption DEF Takes, ClaudeTakes
<1>2. CASE side # "claude"
  BY <1>2, CatalogEffortIsTaken DEF Takes, ModelEffort, CodexTakes
<1> QED
  BY <1>1, <1>2

\* What a launch that passed its checks is made of.
LEMMA LaunchFacts ==
    ASSUME NEW flags, NEW selection, NEW default, NEW c \in Catalogs, NEW l,
           l = LaunchOf(flags, selection, default, c), l.ok
    PROVE  /\ l.side = (IF selection.side = "claude" THEN "claude" ELSE "codex")
           /\ l.model = (IF selection = NoSelection THEN NoModel ELSE SelectedModel(selection, c))
           /\ l.role = flags.role /\ l.allow = flags.allow /\ l.sandbox = Sandbox(flags, l.side)
           /\ selection # NoSelection => l.model # NoModel
           /\ flags.effort # NoEffort => l.effort = flags.effort
           /\ l.model # NoModel => Takes(l.side, l.model, l.effort, c)
<1> DEFINE side == IF selection.side = "claude" THEN "claude" ELSE "codex"
           model == IF selection = NoSelection THEN NoModel ELSE SelectedModel(selection, c)
           held == AskedEffort(model, flags.effort, default, c)
           effort == IF selection = NoSelection THEN flags.effort
                     ELSE LaunchEffort(side, model, flags.effort, default, c)
<1>1. /\ selection # NoSelection => model # NoModel /\ Takes(side, model, held, c)
      /\ l = [ok |-> TRUE, side |-> side, model |-> model, effort |-> effort, role |-> flags.role,
              sandbox |-> Sandbox(flags, side), allow |-> flags.allow]
  <2>1. ~Refused.ok
    BY DEF Refused
  <2>2. l # Refused
    BY <2>1
  <2> QED
    BY <2>2 DEF LaunchOf
<1>2. flags.effort # NoEffort => effort = flags.effort
  BY DEF LaunchEffort, AskedEffort
<1>3. ASSUME model # NoModel PROVE Takes(side, model, effort, c)
  <2>1. selection # NoSelection /\ Takes(side, model, held, c)
    BY <1>1, <1>3
  <2>2. CASE held # NoEffort \/ default = NoDefault
    BY <2>1, <2>2 DEF LaunchEffort
  <2>3. CASE ~(held # NoEffort \/ default = NoDefault)
    <3>1. effort = ModelEffort(side, model, c)
      BY <2>1, <2>3 DEF LaunchEffort
    <3>2. ASSUME side = "claude" PROVE \E r \in ClaudeRows : RowsOf(model) = {r}
      <4>1. model = ClaudeModel(selection.key)
        BY <2>1, <3>2 DEF SelectedModel
      <4>2. PICK r \in ClaudeRows : model = Model(Key("claude", r.family, r.version), "")
        BY <1>3, <4>1, ClaudeModelIsARow
      <4>3. RowsOf(Model(Key("claude", r.family, r.version), "")) = {r}
        BY RowIsNamed
      <4> QED
        BY <4>2, <4>3
    <3> HIDE DEF side, model, effort
    <3>3. Takes(side, model, ModelEffort(side, model, c), c)
      BY <3>2, ModelEffortIsTaken
    <3> QED
      BY <3>1, <3>3
  <2> QED
    BY <2>2, <2>3
<1> HIDE DEF side, model, effort, held
<1>4. /\ l.side = side /\ l.model = model /\ l.effort = effort /\ l.role = flags.role
      /\ l.allow = flags.allow /\ l.sandbox = Sandbox(flags, side)
  BY <1>1
<1> QED
  BY <1>1, <1>2, <1>3, <1>4 DEF side, model

\* The side that nothing and a session are on.
LEMMA Sides == NoSelection.side = "none" /\ Session.side = "session"
BY DEF NoSelection, Session, Selection

\* An entry that stores nothing is valid.
LEMMA NoEntryIsValid == \A r \in Roles : EntryIsValid(r, NoEntry)
<1>1. NoEntry.model = NoSelection /\ NoEntry.effort = NoEffort
  BY DEF NoEntry
<1> QED
  BY <1>1, Sides DEF EntryIsValid, RoleTakes, OnLadder

\* Nothing is stored, and nothing is pinned.
LEMMA LchInvInit == LchInit => LchInv
<1> SUFFICES ASSUME LchInit PROVE LchInv
  OBVIOUS
<1>1. StoredIsValid
  BY NoEntryIsValid DEF StoredIsValid, LchInit
<1>3. ~pin.launch.ok /\ ~ran.launch.ok /\ ran = NotYet
  BY DEF LchInit, NotYet
<1>4. PinStands /\ ReplayRunsThePin /\ EffortIsTaken
  BY <1>3 DEF PinStands, ReplayRunsThePin, EffortIsTaken
<1>5. JudgedIsSound
  BY DEF JudgedIsSound, LchInit
<1>6. /\ sandboxed \in BOOLEAN /\ catalog \in Catalogs
      /\ stored = [r \in Roles |-> stored[r]] /\ config = [c \in ConfigCalls |-> config[c]]
  BY DEF LchInit
<1> QED
  BY <1>1, <1>3, <1>4, <1>5, <1>6 DEF LchInv

\* A change that config accepts is valid beside what is stored.
LEMMA AcceptedIsSound ==
    ASSUME NEW change \in Changes, Accepts(change), \A r \in Roles : EntryIsValid(r, stored[r])
    PROVE  LET next == AsJudged(change)
           IN "roles" \in next.clears \/ EntryIsValid(next.role, Changed(stored[next.role], next))
<1> DEFINE next == AsJudged(change)
<1>1. change.role \in Roles /\ next.role = change.role /\ change.clears \subseteq next.clears
  BY ChangesAssumption DEF AsJudged
<1>2. CASE Touches(change)
  BY <1>1, <1>2 DEF Accepts
<1>3. CASE ~Touches(change)
  <2>1. change.model = NoSelection /\ change.effort = NoEffort /\ change.clears = {}
    BY <1>3 DEF Touches
  <2>2. change.model # Session
    BY <2>1, Sides
  <2>3. next = change
    BY <2>2 DEF AsJudged
  <2> DEFINE entry == stored[change.role]
  <2>4. Changed(entry, change) = [model |-> entry.model, effort |-> entry.effort]
    BY <2>1 DEF Changed
  <2>5. EntryIsValid(change.role, entry)
    BY <1>1
  <2> HIDE DEF entry
  <2>6. EntryIsValid(change.role, [model |-> entry.model, effort |-> entry.effort])
    BY <2>5 DEF EntryIsValid
  <2> QED
    BY <2>3, <2>4, <2>6 DEF entry
<1> QED
  BY <1>2, <1>3

\* A call of config judges beside what is stored, and writes what it judged.
LEMMA ConfigStep ==
    ASSUME LchInv, NEW c \in ConfigCalls, ConfigJudges(c) \/ ConfigWrites(c)
    PROVE  LchInv'
<1>1. /\ UNCHANGED <<catalog, pin, ran>>
      /\ sandboxed' \in BOOLEAN
  BY DEF LchInv, ConfigJudges, ConfigWrites
<1>2. PinStands' /\ (ran' = NotYet \/ pin'.launch.ok) /\ ReplayRunsThePin' /\ EffortIsTaken'
  BY <1>1 DEF LchInv, PinStands, ReplayRunsThePin, PinnedModelRuns, EffortIsTaken
<1>3. config = [d \in ConfigCalls |-> config[d]] /\ stored = [r \in Roles |-> stored[r]]
  BY DEF LchInv
<1>4. CASE ConfigJudges(c)
  <2>1. PICK change \in Changes :
           config' = [config EXCEPT ![c] =
               IF Accepts(change) THEN [step |-> "judged", change |-> AsJudged(change)]
               ELSE [step |-> "done", change |-> {}]]
    BY <1>4 DEF ConfigJudges
  <2>2. stored' = stored /\ overlapped' = overlapped
    BY <1>4 DEF ConfigJudges
  <2>3. StoredIsValid'
    BY <2>2 DEF LchInv, StoredIsValid
  <2>4. JudgedIsSound'
    <3> SUFFICES ASSUME NEW d \in ConfigCalls, ~overlapped, config'[d].step = "judged"
                 PROVE  LET next == config'[d].change
                        IN "roles" \in next.clears
                              \/ EntryIsValid(next.role, Changed(stored[next.role], next))
      BY <2>2 DEF JudgedIsSound
    <3>1. CASE d = c
      <4>1. config'[c] = IF Accepts(change) THEN [step |-> "judged", change |-> AsJudged(change)]
                         ELSE [step |-> "done", change |-> {}]
        BY <1>3, <2>1
      <4>2. Accepts(change) /\ config'[c].change = AsJudged(change)
        BY <3>1, <4>1
      <4>3. \A r \in Roles : EntryIsValid(r, stored[r])
        BY DEF LchInv, StoredIsValid
      <4> QED
        BY <3>1, <4>2, <4>3, AcceptedIsSound
    <3>2. CASE d # c
      <4>1. config'[d] = config[d]
        BY <1>3, <2>1, <3>2
      <4> QED
        BY <4>1 DEF LchInv, JudgedIsSound
    <3> QED
      BY <3>1, <3>2
  <2>5. config' = [d \in ConfigCalls |-> config'[d]] /\ stored' = [r \in Roles |-> stored'[r]]
    BY <1>3, <2>1, <2>2
  <2> QED
    BY <1>1, <1>2, <2>3, <2>4, <2>5 DEF LchInv
<1>5. CASE ConfigWrites(c)
  <2> DEFINE change == config[c].change
  <2>1. /\ config[c].step = "judged"
        /\ stored' = IF "roles" \in change.clears THEN [r \in Roles |-> NoEntry]
                     ELSE [stored EXCEPT ![change.role] = Changed(@, change)]
        /\ config' = [config EXCEPT ![c] = [step |-> "done", change |-> {}]]
        /\ overlapped' = (overlapped \/ \E d \in ConfigCalls \ {c} : config[d].step = "judged")
    BY <1>5 DEF ConfigWrites
  <2>2. StoredIsValid'
    <3> SUFFICES ASSUME ~overlapped', NEW r \in Roles PROVE EntryIsValid(r, stored'[r])
      BY DEF StoredIsValid
    <3>1. /\ \A x \in Roles : EntryIsValid(x, stored[x])
          /\ \/ "roles" \in change.clears
             \/ EntryIsValid(change.role, Changed(stored[change.role], change))
      BY <2>1 DEF LchInv, StoredIsValid, JudgedIsSound
    <3> HIDE DEF change
    <3>2. CASE "roles" \in change.clears
      <4>1. stored'[r] = NoEntry
        BY <2>1, <3>2
      <4> QED
        BY <4>1, NoEntryIsValid
    <3>3. CASE "roles" \notin change.clears
      <4>1. stored'[r] = IF r = change.role THEN Changed(stored[r], change) ELSE stored[r]
        BY <1>3, <2>1, <3>3
      <4> QED
        BY <3>1, <3>3, <4>1
    <3> QED
      BY <3>2, <3>3
  <2>3. JudgedIsSound'
    <3> SUFFICES ASSUME NEW d \in ConfigCalls, config'[d].step = "judged" PROVE overlapped'
      BY DEF JudgedIsSound
    <3>1. d # c /\ config'[d] = config[d]
      BY <1>3, <2>1
    <3> QED
      BY <2>1, <3>1
  <2>4. config' = [d \in ConfigCalls |-> config'[d]] /\ stored' = [r \in Roles |-> stored'[r]]
    BY <1>3, <2>1
  <2> QED
    BY <1>1, <1>2, <2>2, <2>3, <2>4 DEF LchInv
<1> QED
  BY <1>4, <1>5

\* The role of a launch without a model has no default.
LEMMA NoModelChosen ==
    ASSUME NEW flags, Chosen(flags, LaunchDefault(DefaultRole(flags.role))) = NoSelection
    PROVE  flags.thread \/ DefaultRole(flags.role) \notin Roles
<1> DEFINE role == DefaultRole(flags.role)
<1>1. SUFFICES ASSUME role \in Roles, ~flags.thread PROVE FALSE
  OBVIOUS
<1>2. LaunchDefault(role).selection = NoSelection
  BY <1>1 DEF Chosen
<1>3. RoleDefault(role, stored[role]).selection # NoSelection
  BY <1>1, BuiltInAssumption DEF RoleDefault
<1> QED
  BY <1>1, <1>2, <1>3 DEF LaunchDefault

\* What a dry run pins is found again.
LEMMA PinStep ==
    ASSUME LchInv, DryRun
    PROVE  LchInv'
<1>1. PICK flags \in FlagSets :
        LET l == TaskLaunch(flags, catalog, FALSE)
        IN /\ l.ok
           /\ pin' = [launch |-> l, catalog |-> catalog, replay |-> Replayed(flags, l)]
  BY DEF DryRun
<1> DEFINE l == TaskLaunch(flags, catalog, FALSE)
           default == LaunchDefault(DefaultRole(flags.role))
           chosen == Chosen(flags, default)
<1>2. l = LaunchOf(flags, chosen, default, catalog) /\ catalog \in Catalogs /\ sandboxed \in BOOLEAN
  BY DEF TaskLaunch, LaunchBy, LchInv
<1>3. l.ok /\ pin'.launch = l /\ pin'.catalog = catalog /\ pin'.replay = Replayed(flags, l)
  BY <1>1
<1>4. ran = NotYet /\ UNCHANGED <<stored, sandboxed, catalog, config, ran, overlapped>>
  <2>1. ~pin.launch.ok
    BY DEF DryRun, NotYet
  <2> QED
    BY <2>1 DEF LchInv, DryRun
<1> HIDE DEF l
<1>5. /\ l.side = (IF chosen.side = "claude" THEN "claude" ELSE "codex")
      /\ l.model = (IF chosen = NoSelection THEN NoModel ELSE SelectedModel(chosen, catalog))
      /\ l.role = flags.role /\ l.allow = flags.allow /\ l.sandbox = Sandbox(flags, l.side)
      /\ chosen # NoSelection => l.model # NoModel
      /\ flags.effort # NoEffort => l.effort = flags.effort
      /\ l.model # NoModel => Takes(l.side, l.model, l.effort, catalog)
  <2> HIDE DEF chosen, default
  <2> QED
    BY <1>2, <1>3, LaunchFacts
<1> DEFINE f == Replayed(flags, l)
<1>6. /\ f.role = l.role /\ f.allow = l.allow /\ f.effort = l.effort /\ f.thread = flags.thread
      /\ f.model = PinnedSelection(flags, l) /\ f.sandbox = IF l.sandbox THEN "on" ELSE "off"
  BY FlagSetsAssumption DEF Replayed
<1>7. l.side \in {"claude", "codex"} /\ l.sandbox \in BOOLEAN
  BY <1>2, <1>5 DEF Sandbox
<1> HIDE DEF f
<1>8. PinnedSelection(flags, l) = PinnedSelection(f, l)
  BY DEF PinnedSelection
<1>9. ASSUME l.model = NoModel
      PROVE  l.side = "codex" /\ (f.thread \/ DefaultRole(f.role) \notin Roles)
  <2>1. chosen = NoSelection
    BY <1>5, <1>9
  <2>2. l.side = "codex"
    BY <1>5, <2>1, Sides
  <2>3. flags.thread \/ DefaultRole(flags.role) \notin Roles
    BY <2>1, NoModelChosen
  <2> QED
    BY <1>5, <1>6, <2>2, <2>3
<1>10. ASSUME l.model # NoModel, l.side = "claude" PROVE ClaudeModel(l.model.key) = l.model
  <2>1. l.model = ClaudeModel(chosen.key)
    BY <1>5, <1>10 DEF SelectedModel
  <2>2. PICK r \in ClaudeRows : l.model = Model(Key("claude", r.family, r.version), "")
    BY <1>10, <2>1, ClaudeModelIsARow
  <2> QED
    BY <2>2, RowIsNamed
<1>11. ASSUME l.model # NoModel, l.side = "codex", ~PassedOn(l.model), NEW d \in Catalogs
       PROVE  CodexModel(l.model.key, l.model.provider, d) = l.model
  <2>1. l.model = CodexModel(chosen.key, chosen.provider, catalog)
    BY <1>5, <1>11 DEF SelectedModel
  <2> HIDE DEF chosen
  <2> QED
    BY <1>11, <2>1, CodexModelIsStable
<1>12. PinStands'
  <2>1. pin'.replay = f
    BY <1>3 DEF f
  <2> QED
    BY <1>3, <1>6, <1>7, <1>8, <1>9, <1>10, <1>11, <2>1 DEF PinStands
<1>13. ~ran'.launch.ok
  BY <1>4 DEF NotYet
<1>14. EffortIsTaken'
  BY <1>3, <1>5, <1>13 DEF EffortIsTaken
<1>15. ReplayRunsThePin'
  BY <1>13 DEF ReplayRunsThePin
<1>16. StoredIsValid' /\ JudgedIsSound'
  BY <1>4 DEF LchInv, StoredIsValid, JudgedIsSound
<1> QED
  BY <1>4, <1>12, <1>14, <1>15, <1>16 DEF LchInv

\* A replay resolves what was pinned.
LEMMA ReplayStep ==
    ASSUME LchInv, Replay
    PROVE  LchInv'
<1>1. PICK offered \in Catalogs :
        /\ catalog' = offered
        /\ ran' = [launch |-> TaskLaunch(pin.replay, offered, TRUE), catalog |-> offered]
  BY DEF Replay
<1>2. pin.launch.ok /\ UNCHANGED <<stored, sandboxed, config, pin, overlapped>>
  BY DEF Replay
<1> DEFINE f == pin.replay
           p == pin.launch
           l == TaskLaunch(f, offered, TRUE)
           default == LaunchDefault(DefaultRole(f.role))
           chosen == Chosen(f, default)
<1>3. /\ p.side \in {"claude", "codex"} /\ p.sandbox \in BOOLEAN
      /\ f.role = p.role /\ f.allow = p.allow /\ f.effort = p.effort
      /\ f.model = PinnedSelection(f, p) /\ f.sandbox = IF p.sandbox THEN "on" ELSE "off"
      /\ p.model = NoModel => p.side = "codex" /\ (f.thread \/ DefaultRole(f.role) \notin Roles)
      /\ p.model # NoModel /\ p.side = "claude" => ClaudeModel(p.model.key) = p.model
      /\ p.model # NoModel /\ p.side = "codex" /\ ~PassedOn(p.model) =>
            CodexModel(p.model.key, p.model.provider, offered) = p.model
  BY <1>2 DEF LchInv, PinStands
<1>4. ran'.launch = l /\ ran'.catalog = offered
  BY <1>1
<1>5. ASSUME l.ok
      PROVE  /\ \A field \in {"side", "role", "sandbox", "allow"} : l[field] = p[field]
             /\ l.model = p.model \/ PassedOn(p.model)
             /\ p.effort # NoEffort => l.effort = p.effort
             /\ l.model # NoModel => Takes(l.side, l.model, l.effort, offered)
  <2>1. l = LaunchOf(f, chosen, default, offered)
    <3>1. ~Refused.ok
      BY DEF Refused
    <3>2. l # Refused
      <4> HIDE DEF l
      <4> QED
        BY <1>5, <3>1
    <3> QED
      BY <3>2 DEF TaskLaunch, LaunchBy
  <2> HIDE DEF l, p, f
  <2>2. /\ l.side = (IF chosen.side = "claude" THEN "claude" ELSE "codex")
        /\ l.model = (IF chosen = NoSelection THEN NoModel ELSE SelectedModel(chosen, offered))
        /\ l.role = f.role /\ l.allow = f.allow /\ l.sandbox = Sandbox(f, l.side)
        /\ chosen # NoSelection => l.model # NoModel
        /\ f.effort # NoEffort => l.effort = f.effort
        /\ l.model # NoModel => Takes(l.side, l.model, l.effort, offered)
    <3> HIDE DEF chosen, default
    <3> QED
      BY <1>5, <2>1, LaunchFacts
  <2>3. l.role = p.role /\ l.allow = p.allow /\ (p.effort # NoEffort => l.effort = p.effort)
    BY <1>3, <2>2
  <2>4. l.sandbox = p.sandbox
    BY <1>3, <2>2 DEF Sandbox
  <2>5. l.side = p.side /\ (l.model = p.model \/ PassedOn(p.model))
    <3>1. CASE p.model = NoModel
      <4>1. f.model = NoSelection
        BY <1>3, <3>1 DEF PinnedSelection
      <4>2. chosen = NoSelection
        BY <1>3, <3>1, <4>1 DEF Chosen, LaunchDefault, NoDefault
      <4>3. chosen.side # "claude"
        BY <4>2, Sides
      <4> QED
        BY <1>3, <2>2, <3>1, <4>2, <4>3
    <3>2. CASE p.model # NoModel
      <4>1. f.model = Selection(p.side, p.model.key, p.model.provider)
        BY <1>3, <3>2 DEF PinnedSelection
      <4>2. /\ f.model.side = p.side /\ f.model.key = p.model.key
            /\ f.model.provider = p.model.provider
        BY <4>1 DEF Selection
      <4>3. f.model # NoSelection
        BY <1>3, <4>2, Sides
      <4>4. chosen = f.model
        BY <4>3 DEF Chosen
      <4> HIDE DEF chosen
      <4>5. l.side = p.side /\ l.model = SelectedModel(f.model, offered)
        BY <1>3, <2>2, <4>2, <4>3, <4>4
      <4>6. SelectedModel(f.model, offered) = p.model \/ PassedOn(p.model)
        BY <1>3, <3>2, <4>2 DEF SelectedModel
      <4> QED
        BY <4>5, <4>6
    <3> QED
      BY <3>1, <3>2
  <2> QED
    BY <2>2, <2>3, <2>4, <2>5
<1> HIDE DEF l
<1>6. ReplayRunsThePin'
  BY <1>2, <1>4, <1>5 DEF ReplayRunsThePin, PinnedModelRuns
<1>7. EffortIsTaken'
  BY <1>2, <1>4, <1>5 DEF EffortIsTaken, LchInv
<1>8. PinStands' /\ StoredIsValid' /\ JudgedIsSound'
  BY <1>2 DEF LchInv, PinStands, StoredIsValid, JudgedIsSound
<1>9. /\ sandboxed' \in BOOLEAN /\ catalog' \in Catalogs /\ pin'.launch.ok
      /\ stored' = [r \in Roles |-> stored'[r]] /\ config' = [c \in ConfigCalls |-> config'[c]]
  BY <1>1, <1>2 DEF LchInv
<1> QED
  BY <1>6, <1>7, <1>8, <1>9 DEF LchInv

\* Every step keeps it.
LEMMA LchInvNext == LchInv /\ [LchNext]_lchVars => LchInv'
<1> SUFFICES ASSUME LchInv, [LchNext]_lchVars PROVE LchInv'
  OBVIOUS
<1>1. ASSUME UNCHANGED lchVars PROVE LchInv'
  BY <1>1 DEF lchVars, LchInv, StoredIsValid, JudgedIsSound, PinStands, ReplayRunsThePin,
              PinnedModelRuns, EffortIsTaken
<1> QED
  BY <1>1, ConfigStep, PinStep, ReplayStep DEF LchNext

(* Config stores nothing a launch would ignore unless two calls overlap, no *)
(* launch has an effort its model does not take, and a replay runs what its *)
(* dry run pinned, for any tables, catalogs, defaults and command lines     *)
(* (launch.ts, config.ts:67-173, role-defaults.ts:328-364).                 *)
THEOREM LaunchesAlwaysStand == LchSpec => []LaunchesStand
<1>1. LchSpec => []LchInv
  BY LchInvInit, LchInvNext, PTL DEF LchSpec
<1>2. LchInv => LaunchesStand
  BY DEF LchInv, LaunchesStand
<1> QED
  BY <1>1, <1>2, PTL
=============================================================================
