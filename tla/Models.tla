-------------------------------- MODULE Models --------------------------------
(***************************************************************************)
(* Which model a selection names, and which reasoning effort a launch of   *)
(* it runs at: models/registry.ts, catalog.ts, claude-models.ts,           *)
(* model-table.ts and role-defaults.ts.  Nothing here has a state.         *)
(*                                                                         *)
(* A model's name is a key: what its text parses to.  A "family" key is    *)
(* `astra` or `astra-6`, a "gpt" key `gpt-6-astra` (a plain `gpt-5.5` has  *)
(* no word), a "claude" key `claude-opus-5-5`, and a "raw" key any other   *)
(* text.  A version is its segments.  Letter case is left out.             *)
(***************************************************************************)
EXTENDS Naturals, Sequences, SequencesExt

CONSTANTS
    ClaudeRows,     \* the version table: [family, version, effort, efforts]
    Registry,       \* third-party models: [alias, model], both keys
    AlphaWords,     \* the family words made of letters only
    Ladder,         \* the tiers of effort, lowest first
    ClaudeLadder,   \* those that Claude Code accepts
    Fallback,       \* the tier a Codex version without a row defaults to
    Roles,          \* the roles with a default
    InlineRoles,    \* those that claude:session may fill
    BuiltIn         \* each role's built-in selection

Key(form, word, version) == [form |-> form, word |-> word, version |-> version]
NoKey == Key("none", "", <<>>)
NoEffort == "default"

\* A selection: the side that runs it, its key, and the provider after its @.
Selection(side, key, provider) == [side |-> side, key |-> key, provider |-> provider]
NoSelection == Selection("none", NoKey, "")
Session == Selection("session", NoKey, "")

\* What a launch passes to its runtime.
Model(key, provider) == [key |-> key, provider |-> provider]
NoModel == Model(NoKey, "")

ASSUME LadderAssumption == Ladder \in Seq(Range(Ladder)) /\ Fallback \in Range(Ladder)
ASSUME BuiltInAssumption == \A r \in Roles : BuiltIn[r] # NoSelection

\* No name is in two rows of the registry, and none is an OpenAI id.
ASSUME RegistryAssumption ==
    \A r \in Registry :
        /\ r.alias.form # "gpt" /\ r.model.form # "gpt"
        /\ \A s \in Registry : {r.alias, r.model} \cap {s.alias, s.model} # {} => s = r

-----------------------------------------------------------------------------
(* Versions *)

Segment(v, i) == IF i \in DOMAIN v THEN v[i] ELSE 0
Newer(v, w) == \E i \in DOMAIN v \cup DOMAIN w :
    /\ Segment(v, i) > Segment(w, i)
    /\ \A j \in 1..(i - 1) : Segment(v, j) = Segment(w, j)
SameVersion(v, w) == \A i \in DOMAIN v \cup DOMAIN w : Segment(v, i) = Segment(w, i)

\* The table has a version once, and each takes its own default.
ASSUME ClaudeRowsAssumption ==
    \A r \in ClaudeRows :
        /\ r.version \in Seq(Nat) /\ r.version # <<>>
        /\ r.effort = NoEffort \/ r.effort \in r.efforts
        /\ \A s \in ClaudeRows : s.family = r.family /\ SameVersion(s.version, r.version) => s = r

\* Of records or keys with a version, the newest; a version given picks it.
Picked(some, v) ==
    LET fitting == {x \in some : v = <<>> \/ SameVersion(x.version, v)}
    IN {x \in fitting : \A y \in fitting : ~Newer(y.version, x.version)}

-----------------------------------------------------------------------------
(* Selections to models *)

\* parseClaudeSelection: a family's newest row, or the one that is named.
ClaudeModel(key) ==
    LET rows == Picked({r \in ClaudeRows : r.family = key.word}, key.version)
    IN IF key.form \notin {"family", "claude"} \/ rows = {} THEN NoModel
       ELSE Model(Key("claude", key.word, (CHOOSE r \in rows : TRUE).version), "")

\* A family's versions in a catalog, which maps ids to the efforts they list.
FamilyVersions(catalog, word) == {id \in DOMAIN catalog : id.form = "gpt" /\ id.word = word}

RegistryRows(key) == {r \in Registry : key \in {r.alias, r.model}}

\* resolveCodexSelection: a third-party model, then a family's version, then
\* the id itself, unless it looks like a family nobody lists.
CodexModel(key, provider, catalog) ==
    LET versions == FamilyVersions(catalog, key.word)
        picked == Picked(versions, key.version)
        familyLike == versions # {} \/ key.word \in AlphaWords
    IN IF RegistryRows(key) # {} THEN Model((CHOOSE r \in RegistryRows(key) : TRUE).model, provider)
       ELSE IF key.form # "family" THEN Model(key, provider)
       ELSE IF picked # {} THEN Model(CHOOSE id \in picked : TRUE, provider)
       ELSE IF familyLike /\ provider = "" /\ key \notin DOMAIN catalog THEN NoModel
       ELSE Model(key, provider)

SelectedModel(selection, catalog) ==
    IF selection.side = "claude" THEN ClaudeModel(selection.key)
    ELSE CodexModel(selection.key, selection.provider, catalog)

-----------------------------------------------------------------------------
(* Efforts *)

Rank(effort) == CHOOSE i \in DOMAIN Ladder : Ladder[i] = effort

\* The slip CatalogEffort must not make: the fallback is not looked up.
AlwaysFallback(key, catalog) == IF key.form = "gpt" THEN Fallback ELSE NoEffort

\* defaultCatalogEffort: the fallback, or the highest tier listed below it.
CatalogEffort(key, catalog) ==
    LET listed == IF key \in DOMAIN catalog THEN catalog[key] ELSE {}
        below == {e \in listed : Rank(e) < Rank(Fallback)}
    IN IF listed = {} THEN (IF key.form = "gpt" THEN Fallback ELSE NoEffort)
       ELSE IF Fallback \in listed THEN Fallback
       ELSE IF below = {} THEN NoEffort
       ELSE CHOOSE e \in below : \A d \in below : Rank(d) <= Rank(e)

RowsOf(model) == {r \in ClaudeRows : r.family = model.key.word /\ SameVersion(r.version, model.key.version)}

\* defaultModelEffort, with defaultClaudeEffort.  No Codex row ships, and no
\* third-party row names an effort.
ModelEffort(side, model, catalog) ==
    IF side = "claude" THEN (CHOOSE r \in RowsOf(model) : TRUE).effort
    ELSE IF \E r \in Registry : r.model = model.key THEN NoEffort
    ELSE CatalogEffort(model.key, catalog)

\* assertClaudeEffortAllowed.
ClaudeTakes(model, effort) ==
    \A r \in RowsOf(model) : effort = NoEffort \/ (r.effort # NoEffort /\ effort \in r.efforts)

\* assertCodexEffortListed: a model that lists no tier cannot be checked, and
\* a provider's runs outside the catalog.
CodexTakes(model, effort, catalog) ==
    \/ effort \in {NoEffort, "none"} \/ model.provider # "" \/ model.key \notin DOMAIN catalog
    \/ catalog[model.key] = {} \/ effort \in catalog[model.key]

Takes(side, model, effort, catalog) ==
    IF side = "claude" THEN ClaudeTakes(model, effort) ELSE CodexTakes(model, effort, catalog)

\* normalizeReasoningEffort: the tiers a runtime has at all.
OnLadder(side, effort) ==
    effort = NoEffort \/ effort \in (IF side = "claude" THEN ClaudeLadder ELSE Range(Ladder))

-----------------------------------------------------------------------------
(* The defaults of roles: an entry is [model, effort] as it is stored. *)

NoEntry == [model |-> NoSelection, effort |-> NoEffort]

\* parseRoleSelection: what config takes and a launch of the default can use.
RoleTakes(role, selection) ==
    CASE selection.side = "session" -> role \in InlineRoles
      [] selection.side = "claude"  -> ClaudeModel(selection.key) # NoModel
      [] OTHER                      -> TRUE

\* resolveRoleDefault's judgement: an effort is held to the ladder of the
\* model it stands beside, the built-in one when it stands alone.
EntryIsValid(role, entry) ==
    LET side == IF entry.model = NoSelection THEN BuiltIn[role].side ELSE entry.model.side
    IN /\ RoleTakes(role, entry.model)
       /\ OnLadder(side, entry.effort)
       /\ side = "claude" /\ entry.model # NoSelection => ClaudeTakes(ClaudeModel(entry.model.key), entry.effort)

\* What a launch without a model runs: the stored entry when it is valid and
\* the companion runs it, else the built-in.
RoleDefault(role, entry) ==
    IF ~EntryIsValid(role, entry) \/ entry.model.side = "session"
    THEN [selection |-> BuiltIn[role], effort |-> NoEffort]
    ELSE [selection |-> IF entry.model = NoSelection THEN BuiltIn[role] ELSE entry.model,
          effort |-> entry.effort]

NoDefault == [selection |-> NoSelection, effort |-> NoEffort]

\* resolveLaunchEffort: what is held against the model is the flag, else the
\* role default's effort if this is its model.
AskedEffort(model, requested, roleDefault, catalog) ==
    IF requested # NoEffort \/ roleDefault.effort = NoEffort THEN requested
    ELSE IF SelectedModel(roleDefault.selection, catalog) = model THEN roleDefault.effort
    ELSE NoEffort

\* Where neither speaks, a role run takes the version's own.
LaunchEffort(side, model, requested, roleDefault, catalog) ==
    LET asked == AskedEffort(model, requested, roleDefault, catalog)
    IN IF asked # NoEffort \/ roleDefault = NoDefault THEN asked
       ELSE ModelEffort(side, model, catalog)

\* applyRoleDefaultChanges for a role: a clear, then what is given.
Changed(entry, change) ==
    [model  |-> IF change.model # NoSelection THEN change.model
                ELSE IF "model" \in change.clears THEN NoSelection ELSE entry.model,
     effort |-> IF change.effort # NoEffort THEN change.effort
                ELSE IF "effort" \in change.clears THEN NoEffort ELSE entry.effort]
==============================================================================
