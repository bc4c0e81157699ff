----------------------------- MODULE TaskThreads -----------------------------
(***************************************************************************)
(* Which Codex thread or Claude session a task continues: handleTask's     *)
(* resume checks, executeTaskRun's lookup of the last one, and the job     *)
(* index they both read (workflows/task.ts, cli/commands/task.ts,          *)
(* jobs/job-control.ts).  A launch is checked when it is asked for; a      *)
(* background task looks its thread up later, when its worker runs.        *)
(***************************************************************************)
EXTENDS Naturals, SequencesExt

CONSTANTS
    Tasks,       \* the tasks, each launched once
    Claudes,     \* the ids Claude sessions get
    Codexes,     \* the ids Codex threads get
    Profiles,    \* the launches there are: [role, runtime, cwd, session, gate],
                 \* where a rescue task has no role and a shell no session
    MaxRows      \* the rows the index keeps

ASSUME IdsAssumption ==
    Claudes \cap Codexes = {} /\ {"none", "fresh", "last"} \cap (Claudes \cup Codexes) = {}
ASSUME ProfilesAssumption ==
    Profiles # {} /\ \A p \in Profiles : p.runtime \in {"claude", "codex"}

VARIABLES
    job,         \* each task's job: [by, status, id], `by` its profile
    index,       \* the job index: tasks with a row, the newest update first
    asked,       \* what each task resumes: "fresh", "last", or an id
    codexList,      \* Codex's own list of task threads, newest first: [id, cwd]
    runs,        \* history: the runs of each id: [task, role, cwd, how]
    forgotten    \* history: ids whose last row the index dropped

thrVars == <<job, index, asked, codexList, runs, forgotten>>

Ids == Claudes \cup Codexes
RuntimeOf(id) == IF id \in Claudes THEN "claude" ELSE "codex"
Sessions == {p.session : p \in Profiles}

\* A job's row: what launched it, the id it runs on, and where it stands.
Row(profile, status, id) == [by |-> profile, status |-> status, id |-> id]

ThrInit ==
    /\ job = [t \in Tasks |-> Row(CHOOSE p \in Profiles : TRUE, "none", "none")] /\ index = <<>>
    /\ asked = [t \in Tasks |-> "fresh"]
    /\ codexList = <<>> /\ runs = [id \in Ids |-> <<>>] /\ forgotten = {}

\* The elements of a sequence that are in S, in their order.
Only(s, S) ==
    LET kept[i \in 0..Len(s)] ==
            IF i = 0 THEN <<>>
            ELSE IF s[i] \in S THEN Append(kept[i - 1], s[i]) ELSE kept[i - 1]
    IN kept[Len(s)]

IsActive(t) == job[t].status \in {"queued", "running"}

\* upsertJob: the row moves to the front, and the index drops the settled
\* rows past its cap.
Upsert(t, now) ==
    LET order == <<t>> \o Only(index, Tasks \ {t})
        drops(u) == \E i \in DOMAIN order : i > MaxRows /\ order[i] = u /\ u # t /\ ~IsActive(u)
        gone == {u \in ToSet(order) : drops(u)}
    IN /\ job' = [u \in Tasks |-> IF u = t THEN now ELSE job[u]]
       /\ index' = Only(order, Tasks \ gone)
       /\ forgotten' = forgotten \cup ({job[u].id : u \in gone} \ {job'[u].id : u \in ToSet(index')})

\* findTrackedJobByThread, and filterJobsForCurrentSession: a shell sees all.
OwnerOf(id) == Only(index, {t \in Tasks : job[t].id = id})
Visible(session, but) ==
    Only(index, {t \in Tasks \ {but} : session = "none" \/ job[t].by.session = session})

\* The slip SameRole must not make: a role may continue another's.
AnyRole(owner, role) == TRUE

\* assertSameRoleResume: an owner without a role is not judged.
SameRole(owner, role) == job[owner].by.role \in {"none", role}

\* assertResumeFits, on the newest job that has the id; an id that no row
\* knows is not judged.
ResumeFits(id, role, runtime, cwd) ==
    OwnerOf(id) # <<>> =>
        LET owner == Head(OwnerOf(id))
        IN /\ SameRole(owner, role)
           /\ job[owner].by.runtime = runtime
           /\ runtime = "claude" => job[owner].by.cwd = cwd

\* handleTask: the checks of a launch, and its job record.
LaunchTask(t) ==
    /\ job[t].status = "none"
    /\ \E by \in Profiles, resume \in {"fresh", "last"} \cup {id \in Ids : runs[id] # <<>>} :
        /\ by.runtime = "claude" => by.role # "none"
        /\ resume = "last" => by.role = "none" /\ by.runtime = "codex"
        /\ resume \in Ids => ResumeFits(resume, by.role, by.runtime, by.cwd)
        /\ by.gate => resume = "fresh"
        /\ Upsert(t, Row(by, "queued", "none"))
        /\ asked' = [asked EXCEPT ![t] = resume]
    /\ UNCHANGED <<codexList, runs>>

\* The slip Resumable must not make: a role's task is continued as well.
AnyCodexTask(t) == job[t].id # "none" /\ job[t].by.runtime = "codex" /\ ~job[t].by.gate /\ ~IsActive(t)

\* findLatestResumableTaskJob: the last rescue run.
Resumable(t) ==
    /\ job[t].id # "none" /\ job[t].by.runtime = "codex" /\ job[t].by.role = "none"
    /\ ~job[t].by.gate /\ ~IsActive(t)

\* findLatestTaskThread: what Codex lists for a directory.
ListedIn(cwd) == Only(codexList, {l \in ToSet(codexList) : l.cwd = cwd})

\* resolveLatestTrackedTaskThread, as the set of at most one id: refused while
\* a visible task is active; a shell falls back on Codex's own list.
LastThread(t) ==
    LET visible == Visible(job[t].by.session, t)
        rescues == Only(visible, {u \in Tasks : Resumable(u)})
        here == ListedIn(job[t].by.cwd)
    IN IF \E u \in ToSet(visible) : IsActive(u) THEN {}
       ELSE IF rescues # <<>> THEN {job[Head(rescues)].id}
       ELSE IF job[t].by.session = "none" /\ here # <<>> THEN {Head(here).id}
       ELSE {}

\* The thread that the runtime makes, as the set of at most one id.
Made(runtime) ==
    LET unused == {id \in Ids : RuntimeOf(id) = runtime /\ runs[id] = <<>>}
    IN IF unused = {} THEN {} ELSE {CHOOSE id \in unused : TRUE}

\* The turn starts on the id, the job's record names it, and Codex lists the
\* thread, the hook's own excepted, as the last one used.
RunsOn(t, id, how) ==
    /\ Upsert(t, [job[t] EXCEPT !.status = "running", !.id = id])
    /\ runs' = [runs EXCEPT ![id] =
           Append(@, [task |-> t, role |-> job[t].by.role, cwd |-> job[t].by.cwd, how |-> how])]
    /\ LET known == Only(codexList, {l \in ToSet(codexList) : l.id = id})
           entry == IF known = <<>> THEN [id |-> id, cwd |-> job[t].by.cwd] ELSE Head(known)
       IN codexList' = IF job[t].by.runtime = "claude" \/ (job[t].by.gate /\ known = <<>>) THEN codexList
                    ELSE <<entry>> \o Only(codexList, {l \in ToSet(codexList) : l.id # id})
    /\ UNCHANGED asked

\* executeTaskRun; a thread another run drives is refused (ThreadReservation).
Begins(t) ==
    LET ids == CASE asked[t] = "fresh" -> Made(job[t].by.runtime)
                 [] asked[t] = "last"  -> LastThread(t)
                 [] OTHER              -> {asked[t]}
        busy(id) == \E u \in Tasks : job[u].status = "running" /\ job[u].id = id
    IN /\ job[t].status = "queued"
       /\ \/ \E id \in ids : ~busy(id) /\ RunsOn(t, id, IF asked[t] \in Ids THEN "thread" ELSE asked[t])
          \/ /\ asked[t] # "fresh" /\ \A id \in ids : busy(id)
             /\ Upsert(t, [job[t] EXCEPT !.status = "settled"])
             /\ UNCHANGED <<asked, codexList, runs>>

Settles(t) ==
    /\ job[t].status = "running"
    /\ Upsert(t, [job[t] EXCEPT !.status = "settled"])
    /\ UNCHANGED <<asked, codexList, runs>>

\* resolveCancelableJob: the one that is named, or a session's only one.
Cancelable(session, named) ==
    LET active == {u \in ToSet(Visible(session, "none")) : IsActive(u)}
    IN IF named # "none" THEN {u \in ToSet(index) : u = named /\ IsActive(u)}
       ELSE IF \E u \in active : active = {u} THEN active ELSE {}

\* handleCancel's record; the stop itself is StopProcesses' part.
Cancels(session) ==
    /\ \E named \in Tasks \cup {"none"} : \E t \in Cancelable(session, named) :
        Upsert(t, [job[t] EXCEPT !.status = "settled"])
    /\ UNCHANGED <<asked, codexList, runs>>

ThrNext == \/ \E t \in Tasks : LaunchTask(t) \/ Begins(t) \/ Settles(t)
           \/ \E s \in Sessions : Cancels(s)

ThrSpec == ThrInit /\ [][ThrNext]_thrVars

-----------------------------------------------------------------------------
\* A Claude session that a role ran is continued only as that role and from
\* the directory it ran in, whatever runs in between, for as long as the job
\* index remembers it (task.ts:185-251).
SessionKeepsItsRole ==
    \A id \in Claudes \ forgotten : \A i, j \in DOMAIN runs[id] :
        runs[id][i].role = runs[id][j].role /\ runs[id][i].cwd = runs[id][j].cwd

\* Inside a Claude Code session, --resume-last continues a thread that a
\* rescue task of that session ran before, never the hook's review
\* (task.ts:266-320).
LastIsOwnRescue ==
    \A id \in Ids : \A i \in DOMAIN runs[id] :
        LET t == runs[id][i].task IN
        runs[id][i].how = "last" /\ job[t].by.session # "none" =>
            \E j \in 1..(i - 1) : LET u == runs[id][j].task IN
                job[u].by.role = "none" /\ job[u].by.session = job[t].by.session /\ ~job[u].by.gate

\* Both: a run continues what it may continue.
ResumesFit == SessionKeepsItsRole /\ LastIsOwnRescue
==============================================================================
