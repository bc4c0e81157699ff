------------------------------ MODULE JobOutcomes ------------------------------
(* What the ledger tells of its jobs, whoever writes it and in whatever order *)
(* the writes come: a job is queued, runs, and gets one outcome from one      *)
(* settler, which it keeps until the ledger forgets the job; no work starts   *)
(* on a job that somebody has settled.  It promises this until a file         *)
(* operation fails or an actor dies.                                          *)
EXTENDS Naturals

CONSTANTS Jobs, Settlers

VARIABLES
    status,     \* what each job's row says, "absent" without one
    settlers,   \* who was told it settled the job
    working,    \* the jobs whose work is under way
    forgotten,  \* the jobs whose outcome the ledger has dropped
    disturbed   \* something failed or died: nothing is promised any more

outcomes == <<status, settlers, working, forgotten, disturbed>>

Outcome == {"completed", "failed", "cancelled"}

Unsettled(j) == settlers[j] = {} \/ j \in forgotten

Init ==
    /\ status = [j \in Jobs |-> "absent"]
    /\ settlers = [j \in Jobs |-> {}]
    /\ working = {} /\ forgotten = {} /\ disturbed = FALSE

\* What a step leaves as it is of one job.
SameStatus(j)   == status'[j] = status[j]
SameSettlers(j) == settlers'[j] = settlers[j]
SameWork(j)     == j \in working' <=> j \in working
SameMemory(j)   == j \in forgotten' <=> j \in forgotten

Enqueue(j) ==
    /\ status[j] = "absent" /\ settlers[j] = {} /\ j \notin forgotten
    /\ status'[j] = "queued"
    /\ SameSettlers(j) /\ SameWork(j) /\ SameMemory(j)

Start(j) ==
    /\ status[j] \in {"absent", "queued"} /\ Unsettled(j) /\ j \notin working
    /\ status'[j] = "running" /\ j \in working'
    /\ SameSettlers(j) /\ SameMemory(j)

StopWork(j) ==
    /\ j \in working /\ j \notin working'
    /\ SameStatus(j) /\ SameSettlers(j) /\ SameMemory(j)

\* Only a forgotten job gets an outcome that nobody is told is his.
Settle(j) ==
    /\ status[j] \notin Outcome /\ Unsettled(j)
    /\ status'[j] \in Outcome
    /\ \/ \E a \in Settlers : settlers'[j] = settlers[j] \cup {a}
       \/ j \in forgotten /\ SameSettlers(j)
    /\ SameWork(j) /\ SameMemory(j)

\* A job that comes back after it was forgotten may go again at any time.
Forget(j) ==
    /\ status[j] \in Outcome \/ j \in forgotten
    /\ status'[j] = "absent" /\ j \in forgotten'
    /\ SameSettlers(j) /\ SameWork(j)

Stay(j) == SameStatus(j) /\ SameSettlers(j) /\ SameWork(j) /\ SameMemory(j)

Move(j) == Enqueue(j) \/ Start(j) \/ StopWork(j) \/ Settle(j) \/ Forget(j) \/ Stay(j)

\* One index write can move several jobs: its own, and those it prunes.
Next == disturbed' \/ \A j \in Jobs : Move(j)

Spec == Init /\ [][Next]_outcomes
================================================================================
