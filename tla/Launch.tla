-------------------------------- MODULE Launch --------------------------------
(***************************************************************************)
(* A workspace's defaults and the launches that read them: cli/launch.ts,  *)
(* handleTask, and config.  A dry run pins a launch, which is replayed     *)
(* later (--launch-args-file), when the defaults and the catalog of Codex  *)
(* models may have changed.  What --thread resumes is TaskThreads' part.   *)
(***************************************************************************)
EXTENDS Models

CONSTANTS
    ConfigCalls,    \* calls of config, each run once
    Changes,        \* what one asks for: [role, model, effort, clears, sandbox]
    Catalogs,       \* the lists Codex may serve: ids to the tiers they list
    FlagSets        \* command lines of task

\* A catalog lists tiers of the ladder; changes and command lines are records.
ASSUME CatalogsAssumption == \A c \in Catalogs : \A id \in DOMAIN c : c[id] \subseteq Range(Ladder)
ASSUME ChangesAssumption ==
    \A c \in Changes :
        /\ c.role \in Roles
        /\ c = [role |-> c.role, model |-> c.model, effort |-> c.effort, clears |-> c.clears,
                sandbox |-> c.sandbox]
ASSUME FlagSetsAssumption ==
    \A f \in FlagSets : f = [model |-> f.model, effort |-> f.effort, role |-> f.role,
                             sandbox |-> f.sandbox, allow |-> f.allow, write |-> f.write,
                             thread |-> f.thread, ready |-> f.ready]

VARIABLES
    stored,         \* config.roleDefaults: each role's entry
    sandboxed,      \* config.claudeSandbox
    catalog,        \* the cached catalog
    config,         \* each config call: [step, change]
    pin,            \* the dry run: [launch, catalog, replay], or NotYet
    ran,            \* its replay: [launch, catalog], or NotYet
    overlapped      \* history: a config call wrote while another was judging

lchVars == <<stored, sandboxed, catalog, config, pin, ran, overlapped>>

NotYet == [launch |-> [ok |-> FALSE]]
Refused == [ok |-> FALSE]

LchInit ==
    /\ stored = [r \in Roles |-> NoEntry] /\ sandboxed \in BOOLEAN
    /\ catalog \in Catalogs
    /\ config = [c \in ConfigCalls |-> [step |-> "idle", change |-> {}]]
    /\ pin = NotYet /\ ran = NotYet /\ overlapped = FALSE

-----------------------------------------------------------------------------
(* config *)

Touches(change) == change.model # NoSelection \/ change.effort # NoEffort \/ change.clears # {}

\* claude:session takes no effort: one that is stored goes with it.
AsJudged(change) ==
    IF change.model = Session /\ change.effort = NoEffort /\ stored[change.role].effort # NoEffort
    THEN [change EXCEPT !.clears = @ \cup {"effort"}] ELSE change

\* The slip Accepts must not make: each value is judged alone.
EachAlone(change) ==
    RoleTakes(change.role, change.model) /\ OnLadder("codex", change.effort)

\* Each value is parsed by itself; then what would be stored is judged.
Accepts(change) ==
    LET next == Changed(stored[change.role], AsJudged(change))
    IN /\ RoleTakes(change.role, change.model)
       /\ OnLadder("codex", change.effort)
       /\ change.model # NoSelection => change.clears \cap {"model", "roles"} = {}
       /\ change.effort # NoEffort => change.clears \cap {"effort", "roles"} = {}
       /\ Touches(change) =>
            /\ "roles" \in change.clears \/ EntryIsValid(change.role, next)
            /\ ~(change.effort # NoEffort /\ next.model = Session)

\* What is stored is read and judged without the lock.
ConfigJudges(c) ==
    /\ config[c].step = "idle"
    /\ \E change \in Changes :
        config' = [config EXCEPT ![c] =
            IF Accepts(change) THEN [step |-> "judged", change |-> AsJudged(change)]
            ELSE [step |-> "done", change |-> {}]]
    /\ UNCHANGED <<stored, sandboxed, catalog, pin, ran, overlapped>>

\* The same change is applied to what is stored by then (updateState).
ConfigWrites(c) ==
    LET change == config[c].change
    IN /\ config[c].step = "judged"
       /\ stored' = IF "roles" \in change.clears THEN [r \in Roles |-> NoEntry]
                    ELSE [stored EXCEPT ![change.role] = Changed(@, change)]
       /\ sandboxed' = IF change.sandbox = "unset" THEN sandboxed ELSE change.sandbox = "on"
       /\ config' = [config EXCEPT ![c] = [step |-> "done", change |-> {}]]
       /\ overlapped' = (overlapped \/ \E d \in ConfigCalls \ {c} : config[d].step = "judged")
       /\ UNCHANGED <<catalog, pin, ran>>

-----------------------------------------------------------------------------
(* task: a command line is [model, effort, role, sandbox, allow, write,    *)
(* thread, ready], its flags and whether the runtime answers the probes.   *)

\* The reviewers of no pair take the implementation reviewer's default.
DefaultRole(role) ==
    IF role \in {"reviewer", "adversarial-reviewer"} THEN "implementation-reviewer" ELSE role

LaunchDefault(role) == IF role \in Roles THEN RoleDefault(role, stored[role]) ELSE NoDefault

\* chooseLaunchSelection.
Chosen(flags, default) ==
    IF flags.model # NoSelection \/ flags.thread THEN flags.model ELSE default.selection

RoleWrites(role) == role = "implementer"

\* assertAllowRule, by the shape of a rule: only a writer's has a wildcard.
AllowRuleOk(rule, role) == rule = "plain" \/ (rule = "wildcard" /\ RoleWrites(role))

\* resolveSandbox.
SandboxOk(flags, side) == flags.sandbox # "both" /\ (flags.sandbox = "on" => side = "claude")
Sandbox(flags, side) ==
    IF flags.sandbox \in {"on", "off"} THEN flags.sandbox = "on"
    ELSE side = "claude" /\ RoleWrites(flags.role) /\ sandboxed

\* The checks of handleTask that come before any model is looked up.
FlagsFit(flags, side) ==
    /\ side = "claude" => flags.role # "none"
    /\ flags.allow # {} => side = "claude"
    /\ \A rule \in flags.allow : AllowRuleOk(rule, flags.role)
    /\ flags.role # "none" => (flags.write <=> RoleWrites(flags.role))
    /\ SandboxOk(flags, side)
    /\ OnLadder(side, flags.effort)

\* resolveLaunch, and the launch that is made of it.
LaunchOf(flags, selection, default, listed) ==
    LET side == IF selection.side = "claude" THEN "claude" ELSE "codex"
        model == IF selection = NoSelection THEN NoModel ELSE SelectedModel(selection, listed)
        asked == AskedEffort(model, flags.effort, default, listed)
        effort == IF selection = NoSelection THEN flags.effort
                  ELSE LaunchEffort(side, model, flags.effort, default, listed)
    IN IF \/ ~FlagsFit(flags, side)
          \/ selection # NoSelection /\ (model = NoModel \/ ~Takes(side, model, asked, listed))
       THEN Refused
       ELSE [ok |-> TRUE, side |-> side, model |-> model, effort |-> effort, role |-> flags.role,
             sandbox |-> Sandbox(flags, side), allow |-> flags.allow]

\* handleTask, to the launch it would make against a catalog.
LaunchBy(flags, default, listed) == LaunchOf(flags, Chosen(flags, default), default, listed)
TaskLaunch(flags, listed, probes) ==
    IF probes /\ ~flags.ready THEN Refused
    ELSE LaunchBy(flags, LaunchDefault(DefaultRole(flags.role)), listed)

\* The slip PinnedSelection must not make: the selection as it was written.
PinnedAsChosen(flags, launch) == Chosen(flags, LaunchDefault(DefaultRole(flags.role)))

\* pinnedSelection: the id, under its runtime's prefix.
PinnedSelection(flags, launch) ==
    IF launch.model = NoModel THEN NoSelection
    ELSE Selection(launch.side, launch.model.key, launch.model.provider)

\* applyLaunchArgs on a command line that gives none of these itself.
Replayed(flags, launch) ==
    [flags EXCEPT !.model = PinnedSelection(flags, launch), !.effort = launch.effort, !.role = launch.role,
                  !.allow = launch.allow, !.sandbox = IF launch.sandbox THEN "on" ELSE "off"]

DryRun ==
    /\ pin = NotYet
    /\ \E flags \in FlagSets :
        LET launch == TaskLaunch(flags, catalog, FALSE)
        IN /\ launch.ok
           /\ pin' = [launch |-> launch, catalog |-> catalog, replay |-> Replayed(flags, launch)]
    /\ UNCHANGED <<stored, sandboxed, catalog, config, ran, overlapped>>

\* The launch-ready check of a Codex run fetches the catalog, when it is old.
Replay ==
    /\ pin.launch.ok /\ ran = NotYet
    /\ \E listed \in Catalogs :
        /\ pin.launch.side = "claude" => listed = catalog
        /\ catalog' = listed
        /\ ran' = [launch |-> TaskLaunch(pin.replay, listed, TRUE), catalog |-> listed]
    /\ UNCHANGED <<stored, sandboxed, config, pin, overlapped>>

LchNext == \/ \E c \in ConfigCalls : ConfigJudges(c) \/ ConfigWrites(c)
           \/ DryRun \/ Replay

LchSpec == LchInit /\ [][LchNext]_lchVars

-----------------------------------------------------------------------------
\* A dry run pins the id it resolved, so that a replay runs the same model
\* (launch.ts:174-176).
PinnedModelRuns == ran.launch.ok => ran.launch.model = pin.launch.model

\* A replay runs what its dry run printed, or is refused: the same model on
\* the same side, in the same role and sandbox, whatever config and the Codex
\* catalog say by then, and at the same effort, unless the dry run resolved
\* none (launch.ts:174-179, task.ts:74-78, 359-371).  A name in the form of
\* a family that no catalog listed yet may be one by then.
PassedOn(model) == model.key.form = "family" /\ RegistryRows(model.key) = {}
ReplayRunsThePin ==
    ran.launch.ok =>
        /\ \A field \in {"side", "role", "sandbox", "allow"} : ran.launch[field] = pin.launch[field]
        /\ PinnedModelRuns \/ PassedOn(pin.launch.model)
        /\ pin.launch.effort # NoEffort => ran.launch.effort = pin.launch.effort

\* No launch gets past its checks with an effort its model does not take, one
\* that the plugin picked by itself included (role-defaults.ts:328-364,
\* catalog.ts:288-340).
EffortIsTaken ==
    \A l \in {pin, ran} : l.launch.ok /\ l.launch.model # NoModel =>
        Takes(l.launch.side, l.launch.model, l.launch.effort, l.catalog)

\* Config stores no entry that a launch would ignore as invalid, so long as
\* no two calls overlap (config.ts:95-125, 160-173).
StoredIsValid == ~overlapped => \A r \in Roles : EntryIsValid(r, stored[r])

\* All three: what config stores and what a launch runs can be run as it is.
LaunchesStand == ReplayRunsThePin /\ EffortIsTaken /\ StoredIsValid
==============================================================================
