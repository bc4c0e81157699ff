--------------------------- MODULE LegacyMigration ---------------------------
(***************************************************************************)
(* The first access to a workspace's durable state copies what an older    *)
(* release left (workspace/state.ts, migrateLegacyState): the job files,   *)
(* then the pair plan, then state.json, whose existence says that the      *)
(* migration is through.  Every copy is an exclusive create followed by a  *)
(* write.  Several processes may do it at once, die in it or fail; they    *)
(* then go on with fresh state.                                            *)
(***************************************************************************)
EXTENDS Naturals, FiniteSets

CONSTANTS
    Procs,       \* the processes that access the workspace
    JobFiles,    \* the legacy job files
    MaxBreaks    \* bound: processes that die, and writes that fail

PairPlan == "pairPlan"
State    == "state"
Copied   == JobFiles \cup {PairPlan, State}

ASSUME JobFilesAssumption == JobFiles \cap {PairPlan, State} = {}

VARIABLES
    durable,     \* each durable file: absent, empty (created, not written), legacy, fresh
    migrator,    \* where each process is: new, copying, use, gone
    left,        \* the files it has still to copy
    filling,     \* the file it has created and not yet written
    breaks,      \* deaths and failures so far
    broken       \* history: files left empty by a death or a failure

migVars == <<durable, migrator, left, filling, breaks, broken>>

MigInit ==
    /\ durable = [f \in Copied |-> "absent"]
    /\ migrator = [p \in Procs |-> "new"] /\ left = [p \in Procs |-> {}]
    /\ filling = [p \in Procs |-> {}] /\ breaks = 0 /\ broken = {}

\* The slips NextFiles and MayCreate must not make.
AnyOrder(p)     == left[p]
Overwrites(f)   == TRUE

\* The order of the copies: readdir gives the job files in any order.
NextFiles(p) ==
    CASE left[p] \cap JobFiles # {} -> left[p] \cap JobFiles
      [] left[p] \cap JobFiles = {} /\ PairPlan \in left[p] -> {PairPlan}
      [] OTHER -> left[p] \cap {State}

\* writeFileExclusive and COPYFILE_EXCL leave a file that exists alone.
MayCreate(f) == durable[f] = "absent"

\* existsSync(state.json).
CheckMarker(p) ==
    /\ migrator[p] = "new"
    /\ IF durable[State] # "absent"
       THEN migrator' = [migrator EXCEPT ![p] = "use"] /\ UNCHANGED left
       ELSE migrator' = [migrator EXCEPT ![p] = "copying"] /\ left' = [left EXCEPT ![p] = Copied]
    /\ UNCHANGED <<durable, filling, breaks, broken>>

CreateCopy(p) ==
    /\ migrator[p] = "copying" /\ filling[p] = {}
    /\ \E f \in NextFiles(p) :
          /\ left' = [left EXCEPT ![p] = @ \ {f}]
          /\ IF MayCreate(f)
             THEN durable' = [durable EXCEPT ![f] = "empty"] /\ filling' = [filling EXCEPT ![p] = {f}]
             ELSE UNCHANGED <<durable, filling>>
    /\ UNCHANGED <<migrator, breaks, broken>>

FillCopy(p) ==
    /\ \E f \in filling[p] : durable' = [durable EXCEPT ![f] = "legacy"]
    /\ filling' = [filling EXCEPT ![p] = {}]
    /\ UNCHANGED <<migrator, left, breaks, broken>>

Migrated(p) ==
    /\ migrator[p] = "copying" /\ left[p] = {} /\ filling[p] = {}
    /\ migrator' = [migrator EXCEPT ![p] = "use"]
    /\ UNCHANGED <<durable, left, filling, breaks, broken>>

\* A copy that fails (a legacy file that does not parse, a full disk) ends
\* the migration; the process goes on with what is there.
Break(p) ==
    /\ migrator[p] = "copying" /\ breaks < MaxBreaks /\ breaks' = breaks + 1
    /\ \E to \in {"use", "gone"} : migrator' = [migrator EXCEPT ![p] = to]
    /\ broken' = broken \cup filling[p]
    /\ filling' = [filling EXCEPT ![p] = {}] /\ left' = [left EXCEPT ![p] = {}]
    /\ UNCHANGED durable

\* The process's own writes, which replace a file whole: a job file or the
\* index, and that one by its merge with what it reads there.
Use(p) ==
    /\ migrator[p] = "use"
    /\ \E f \in Copied :
          durable' = [durable EXCEPT ![f] = "fresh"]
    /\ migrator' = [migrator EXCEPT ![p] = "gone"]
    /\ UNCHANGED <<left, filling, breaks, broken>>

MigNext ==
    \E p \in Procs : \/ CheckMarker(p) \/ CreateCopy(p) \/ FillCopy(p) \/ Migrated(p)
                     \/ Break(p) \/ Use(p)

MigSpec == MigInit /\ [][MigNext]_migVars

(* Once the marker is the migrated index, every legacy file is there, whole *)
(* but for those a death or a failed write left empty or another process   *)
(* is writing (state.ts:311-361).                                          *)
MarkerMeansMigrated ==
    durable[State] = "legacy" =>
        \A f \in Copied :
            /\ durable[f] # "absent"
            /\ durable[f] = "empty" => f \in broken \/ \E p \in Procs : f \in filling[p]

(* What a command has written is not replaced by an older release's file,  *)
(* unless that copy had begun before (state.ts:230-243).                   *)
FreshIsKept ==
    [][\A f \in Copied : durable[f] = "fresh" /\ durable'[f] # "fresh"
          => \E p \in Procs : f \in filling[p]]_migVars

=============================================================================
