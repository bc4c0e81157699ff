----------------------------- MODULE WorkRecords -----------------------------
(***************************************************************************)
(* The plan slots and the implement and tournament records of a workspace: *)
(* plan-store, plan-review, plan-state, implement-state, tournament-state. *)
(* Each file is replaced whole, but a command that changes one reads it    *)
(* first, and no lock keeps two commands apart.                            *)
(***************************************************************************)
EXTENDS Naturals

CONSTANTS
    Callers,     \* the commands, each run once
    Slots,       \* plan slots, "default" among them
    Texts,
    Kinds,       \* the records of work: "implement", "tournament"
    Keys         \* round numbers, or contestants' labels

ASSUME KindsAssumption == "implement" \in Kinds

None == [none |-> TRUE]

VARIABLES
    plan,        \* each slot: None or [text, implemented]
    work,        \* each record: None or [run, slot, text, entries, complete]
    call,        \* each command: [op, on, seen, patch, step]
    given,       \* history: the plan each --record read
    merged,      \* history: the entries the commands on each record gave
    marked,      \* history: what the marks read, <<slot, text>>
    strange,     \* history: records that a clear of another slot removed
    raced        \* history: files written while another command had read them

recVars == <<plan, work, call, given, merged, marked, strange, raced>>

NoEntries == [k \in Keys |-> None]

RecInit ==
    /\ plan = [s \in Slots |-> None]
    /\ work = [k \in Kinds |-> None]
    /\ call = [c \in Callers |-> [op |-> "none", on |-> "none", seen |-> None, patch |-> {}, step |-> "idle"]]
    /\ given = [c \in Callers |-> None]
    /\ merged = [k \in Kinds |-> NoEntries]
    /\ marked = {} /\ strange = {} /\ raced = {}

Reads(c, op, on, seen, patch) ==
    call' = [call EXCEPT ![c] = [op |-> op, on |-> on, seen |-> seen, patch |-> patch, step |-> "read"]]

Ends(c) == call' = [call EXCEPT ![c].step = "done"]

\* The file is written: commands that have read it hold something older.
Wrote(c, file) ==
    raced' = IF \E d \in Callers \ {c} : call[d].step = "read" /\ call[d].on = file
             THEN raced \cup {file} ELSE raced

-----------------------------------------------------------------------------
(* Plans *)

\* The slip Stored must not make: the mark of the plan before stays.
KeepsMark(s, text) == [text |-> text, implemented |-> plan[s] # None /\ plan[s].implemented]

\* What plan-store and plan-review write: a fresh record.
Stored(s, text) == [text |-> text, implemented |-> FALSE]

\* plan-store reads no file; a review saves what it was given when it ends,
\* or nothing when the answer has no verdict.
PlanStore(c) ==
    /\ call[c].step = "idle"
    /\ \E s \in Slots, t \in Texts :
          /\ plan' = [plan EXCEPT ![s] = Stored(s, t)]
          /\ Wrote(c, s)
          /\ call' = [call EXCEPT ![c].step = "done", ![c].op = "store"]
    /\ UNCHANGED <<work, given, merged, marked, strange>>

PlanReviewBegins(c) ==
    /\ call[c].step = "idle"
    /\ \E s \in Slots, t \in Texts : Reads(c, "review", s, [text |-> t], {})
    /\ UNCHANGED <<plan, work, given, merged, marked, strange, raced>>

PlanReviewEnds(c) ==
    LET s == call[c].on IN
    /\ call[c].step = "read" /\ call[c].op = "review"
    /\ \/ plan' = [plan EXCEPT ![s] = Stored(s, call[c].seen.text)] /\ Wrote(c, s)
       \/ UNCHANGED <<plan, raced>>
    /\ Ends(c)
    /\ UNCHANGED <<work, given, merged, marked, strange>>

MarkReads(c) ==
    /\ call[c].step = "idle"
    /\ \E s \in Slots :
          /\ plan[s] # None
          /\ Reads(c, "mark", s, plan[s], {})
          /\ marked' = marked \cup {<<s, plan[s].text>>}
    /\ UNCHANGED <<plan, work, given, merged, strange, raced>>

MarkWrites(c) ==
    LET s == call[c].on IN
    /\ call[c].step = "read" /\ call[c].op = "mark"
    /\ plan' = [plan EXCEPT ![s] = [call[c].seen EXCEPT !.implemented = TRUE]]
    /\ Wrote(c, s) /\ Ends(c)
    /\ UNCHANGED <<work, given, merged, marked, strange>>

\* --clear unlinks the plan and reads the implement record ...
ClearPlan(c) ==
    /\ call[c].step = "idle"
    /\ \E s \in Slots :
          /\ plan' = [plan EXCEPT ![s] = None]
          /\ Wrote(c, s)
          /\ call' = [call EXCEPT ![c] = [op |-> "clearPlan", on |-> "implement", seen |-> work["implement"],
                                          patch |-> {s}, step |-> "read"]]
    /\ UNCHANGED <<work, given, merged, marked, strange>>

\* The slip Belongs must not make: any implementation goes with the plan.
AnySlot(record, s) == TRUE

\* A record that is missing counts as the default slot's.
Belongs(record, s) == IF record = None THEN s = "default" ELSE record.slot = s

\* ... and unlinks it if it was recorded for the slot.
ClearItsWork(c) ==
    LET now == work["implement"] IN
    /\ call[c].step = "read" /\ call[c].op = "clearPlan"
    /\ IF \E s \in call[c].patch : Belongs(call[c].seen, s)
       THEN /\ work' = [work EXCEPT !["implement"] = None]
            /\ strange' = IF now # None /\ now.slot \notin call[c].patch
                          THEN strange \cup {"implement"} ELSE strange
            /\ Wrote(c, "implement")
       ELSE UNCHANGED <<work, strange, raced>>
    /\ Ends(c)
    /\ UNCHANGED <<plan, given, merged, marked>>

-----------------------------------------------------------------------------
(* Records of work *)

\* Entries by a command, at some keys.
By(c, keys) == [k \in Keys |-> IF k \in keys THEN [by |-> c] ELSE None]

\* --record takes the slot's plan as it is (currentPlanSummary).
RecordReads(c) ==
    /\ call[c].step = "idle"
    /\ \E w \in Kinds, s \in Slots, keys \in SUBSET Keys :
          /\ w = "tournament" => keys # {}
          /\ call' = [call EXCEPT ![c] = [op |-> "record", on |-> w, patch |-> keys, step |-> "read",
                                          seen |-> [slot |-> s, text |-> IF plan[s] = None THEN None ELSE plan[s].text]]]
          /\ given' = [given EXCEPT ![c] = [slot |-> s, text |-> IF plan[s] = None THEN None ELSE plan[s].text]]
    /\ UNCHANGED <<plan, work, merged, marked, strange, raced>>

RecordWrites(c) ==
    LET w == call[c].on IN
    /\ call[c].step = "read" /\ call[c].op = "record"
    /\ work' = [work EXCEPT ![w] = [run |-> c, slot |-> call[c].seen.slot, text |-> call[c].seen.text,
                                    entries |-> By(c, call[c].patch), complete |-> FALSE]]
    /\ merged' = [merged EXCEPT ![w] = By(c, call[c].patch)]
    /\ Wrote(c, w) /\ Ends(c)
    /\ UNCHANGED <<plan, given, marked, strange>>

\* The slip Merge must not make: the patch's list replaces the record's.
PatchOnly(entries, patch) == patch

\* mergeRounds, mergeContestants: an entry of the patch replaces the one of
\* its round or label; the others stay.
Merge(entries, patch) == [k \in Keys |-> IF patch[k] # None THEN patch[k] ELSE entries[k]]

\* --update and --complete need a record, and keep its plan and createdAt
\* whatever the patch says.
UpdateReads(c) ==
    /\ call[c].step = "idle"
    /\ \E w \in Kinds, op \in {"update", "complete"}, keys \in SUBSET Keys :
          work[w] # None /\ Reads(c, op, w, work[w], keys)
    /\ UNCHANGED <<plan, work, given, merged, marked, strange, raced>>

UpdateWrites(c) ==
    LET w == call[c].on IN
    /\ call[c].step = "read" /\ call[c].op \in {"update", "complete"}
    /\ work' = [work EXCEPT ![w] = [call[c].seen EXCEPT !.entries = Merge(@, By(c, call[c].patch)),
                                                        !.complete = @ \/ call[c].op = "complete"]]
    /\ merged' = [merged EXCEPT ![w] = [k \in Keys |-> IF k \in call[c].patch THEN [by |-> c] ELSE @[k]]]
    /\ Wrote(c, w) /\ Ends(c)
    /\ UNCHANGED <<plan, given, marked, strange>>

ClearWork(c) ==
    /\ call[c].step = "idle"
    /\ \E w \in Kinds :
          /\ work' = [work EXCEPT ![w] = None]
          /\ Wrote(c, w)
    /\ call' = [call EXCEPT ![c].step = "done", ![c].op = "clear"]
    /\ UNCHANGED <<plan, given, merged, marked, strange>>

RecNext ==
    \E c \in Callers :
        \/ PlanStore(c) \/ PlanReviewBegins(c) \/ PlanReviewEnds(c) \/ MarkReads(c) \/ MarkWrites(c)
        \/ ClearPlan(c) \/ ClearItsWork(c) \/ RecordReads(c) \/ RecordWrites(c)
        \/ UpdateReads(c) \/ UpdateWrites(c) \/ ClearWork(c)

RecSpec == RecInit /\ [][RecNext]_recVars

-----------------------------------------------------------------------------

(* A record of work names the plan its --record read, whatever updates     *)
(* follow and however they overlap (implement.ts:75-118, 223-228); a plan  *)
(* that is marked implemented has a text that a mark read                  *)
(* (plan.ts:444-451).                                                      *)
PlansStand ==
    /\ \A w \in Kinds :
          work[w] # None => given[work[w].run] = [slot |-> work[w].slot, text |-> work[w].text]
    /\ \A s \in Slots :
          plan[s] # None /\ plan[s].implemented => <<s, plan[s].text>> \in marked

(* No round and no contestant that a command gave is lost, and no record   *)
(* goes with the plan of another slot, unless two commands overlapped on   *)
(* the record (implement.ts:75-118, tournament.ts:67-103,                  *)
(* plan.ts:397-402).                                                       *)
EntriesKept ==
    /\ \A w \in Kinds \ raced : work[w] # None => work[w].entries = merged[w]
    /\ strange \subseteq raced

(* Both: what the records say of plans and of work is what was given.       *)
RecordsStand == PlansStand /\ EntriesKept

=============================================================================
