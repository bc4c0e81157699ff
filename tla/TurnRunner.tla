------------------------------ MODULE TurnRunner ------------------------------
(***************************************************************************)
(* A Codex run (runtime/turn-runner.ts) over its connections               *)
(* (runtime/threads.ts, transport/app-server-client.ts): it takes the      *)
(* thread's reservation, opens the thread and starts one turn through the  *)
(* shared broker; when the broker is busy, cannot be reached or holds the  *)
(* thread read-only, the whole attempt is repeated on a private            *)
(* app-server.  Several runs share the broker, and a run may be killed     *)
(* anywhere: what it left in the broker goes on.                           *)
(*                                                                         *)
(* The broker is its gate only (BrokerServer has the rest); a reservation  *)
(* is free once its owner is dead (ThreadReservation).                     *)
(***************************************************************************)
EXTENDS Integers, FiniteSets

CONSTANTS
    Runs,      \* the runs of the workspace
    Resumes,   \* the runs that resume the one shared thread
    Pinned,    \* the runs whose environment names the broker's endpoint
    None,
    MaxFaults  \* bound: runs killed, exits of the broker, requests not answered in time

ASSUME RunsAssumption ==
    /\ Resumes \subseteq Runs /\ Pinned \subseteq Runs
    /\ None \notin Runs \cup {"broker", "direct"} /\ "shared" \notin Runs
    /\ MaxFaults \in Nat

VARIABLES
    pc,         \* where each run is
    link,       \* the app-server its attempt talks to: "broker", "direct", None
    only,       \* the attempt was asked to go without the broker
    sent,       \* the requests of the attempt's client after initialize, two for more
    waited,     \* the run's wait for an abandoned turn is over
    error,      \* what its last attempt threw
    reserved,   \* the owner of each thread's reservation
    up,         \* the broker: it listens
    slot,       \* its in-flight or active turn
    orphan,     \* its abandoned turn
    asking,     \* the run whose other request it works on
    leaving,    \* runs whose closed socket the broker has not seen
    running,    \* the runs whose turn runs on the broker's app-server
    faults,     \* how many of these there were
    starts,     \* history: how many turns of a live run an app-server accepted
    twice       \* history: why a private turn began next to an abandoned one

runVars    == <<pc, link, only, sent, waited, error>>
brokerVars == <<up, slot, orphan, asking, leaving>>
turnVars   == <<running, starts, twice>>
vars       == <<runVars, reserved, brokerVars, turnVars, faults>>

Thread(r)  == IF r \in Resumes THEN "shared" ELSE r
Threads    == {Thread(r) : r \in Runs}
Ended(r)   == pc[r] \in {"ended", "dead"}

Init ==
    /\ pc = [r \in Runs |-> "idle"] /\ link = [r \in Runs |-> None]
    /\ only = [r \in Runs |-> FALSE] /\ sent = [r \in Runs |-> 0]
    /\ waited = [r \in Runs |-> FALSE] /\ error = [r \in Runs |-> "none"]
    /\ reserved = [t \in Threads |-> None]
    /\ up \in BOOLEAN /\ slot = None /\ orphan = None /\ asking = None /\ leaving = {}
    /\ running = {} /\ starts = [r \in Runs |-> 0] /\ twice = {} /\ faults = 0

-----------------------------------------------------------------------------
(* Slips the checked properties must notice: each replaces the definition   *)
(* of the same arity named behind it.                                      *)

AnyErrorReplays(r)  == ~only[r] /\ link[r] = "broker"            \* ReplaysFirst
BusyIsBusy(r)       == FALSE                                     \* WaitsOut
ReleaseForRetry(r)  == reserved' = [reserved EXCEPT ![Thread(r)] = None]  \* GiveBackFresh
NotTheTurn(r)       == link[r] = "broker"                        \* Linked
                       /\ pc[r] \in {"open", "opening", "name", "turn"}

-----------------------------------------------------------------------------
Fault == faults < MaxFaults /\ faults' = faults + 1

\* What the exit of the broker's connection ends: every request and the wait
\* for the turn.
Linked(r) == link[r] = "broker" /\ pc[r] \in {"open", "opening", "name", "turn", "started"}

\* The broker's gate for a request, and for one that starts a turn.
Occupied(r) == (slot # None /\ ~slot.disc /\ slot.run # r) \/ asking \notin {None, r}
Held        == orphan # None /\ ~orphan.old

-----------------------------------------------------------------------------
(* Reservations.                                                            *)

Free(t)    == reserved[t] = None \/ pc[reserved[t]] = "dead"
Take(r)    == reserved' = [reserved EXCEPT ![Thread(r)] = r]
GiveBack(r) ==
    reserved' = [reserved EXCEPT ![Thread(r)] = IF @ = r THEN None ELSE @]

\* The attempt's catch: only what the attempt itself acquired.
GiveBackFresh(r) == IF r \in Resumes THEN UNCHANGED reserved ELSE GiveBack(r)

Begin(r) ==
    /\ pc[r] = "idle"
    /\ IF r \notin Resumes THEN pc' = [pc EXCEPT ![r] = "connect"] /\ UNCHANGED reserved
       ELSE IF Free(Thread(r)) THEN pc' = [pc EXCEPT ![r] = "connect"] /\ Take(r)
       ELSE pc' = [pc EXCEPT ![r] = "ended"] /\ UNCHANGED reserved
    /\ UNCHANGED <<link, only, sent, waited, error, brokerVars, turnVars, faults>>

-----------------------------------------------------------------------------
(* Connections.                                                             *)

OpenOn(r, server) ==
    /\ pc' = [pc EXCEPT ![r] = "open"]
    /\ link' = [link EXCEPT ![r] = server]
    /\ sent' = [sent EXCEPT ![r] = 0]

\* An attempt that throws: the client is closed, which the broker sees later.
Throw(r, what) ==
    /\ pc' = [pc EXCEPT ![r] = "threw"]
    /\ error' = [error EXCEPT ![r] = what]
    /\ leaving' = IF link[r] = "broker" /\ up THEN leaving \cup {r} ELSE leaving
    /\ GiveBackFresh(r)

\* CodexAppServerClient.connect: the broker, a private app-server when none
\* can be started, or a broker that went away since it was found.
Connect(r) ==
    /\ pc[r] = "connect" /\ r \notin leaving
    /\ \/ /\ up /\ OpenOn(r, "broker")
          /\ UNCHANGED <<only, error, reserved, leaving>>
       \/ /\ ~up /\ r \notin Pinned /\ OpenOn(r, "direct")
          /\ UNCHANGED <<only, error, reserved, leaving>>
       \/ /\ ~up /\ link' = [link EXCEPT ![r] = None] /\ Throw(r, "unreachable")
          /\ UNCHANGED <<only, sent>>
    /\ UNCHANGED <<waited, up, slot, orphan, asking, turnVars, faults>>

\* A dead endpoint of the environment, or a busy answer to the first request.
ReplaysFirst(r) ==
    /\ ~only[r]
    /\ \/ link[r] = "broker" /\ error[r] \in {"busy", "abandoned"} /\ sent[r] <= 1
       \/ r \in Pinned /\ error[r] = "unreachable"

\* The one busy a resume waits out.
WaitsOut(r) == r \in Resumes /\ error[r] = "abandoned" /\ ~waited[r]

\* A run that is over keeps nothing of its attempts (a bound of the model).
Forget(r) ==
    /\ link' = [link EXCEPT ![r] = None] /\ only' = [only EXCEPT ![r] = FALSE]
    /\ sent' = [sent EXCEPT ![r] = 0] /\ waited' = [waited EXCEPT ![r] = FALSE]
    /\ error' = [error EXCEPT ![r] = "none"] /\ starts' = [starts EXCEPT ![r] = 0]

\* withAppServer's direct retry, the wait, the private attempt, or the end.
Decide(r) ==
    /\ pc[r] = "threw"
    /\ \/ ReplaysFirst(r) /\ OpenOn(r, "direct")
          /\ UNCHANGED <<only, waited, error, starts, reserved>>
       \/ /\ ~ReplaysFirst(r) /\ ~only[r] /\ WaitsOut(r)
          /\ pc' = [pc EXCEPT ![r] = "connect"]
          /\ UNCHANGED <<link, only, sent, waited, error, starts, reserved>>
       \/ /\ ~ReplaysFirst(r) /\ ~only[r] /\ ~WaitsOut(r)
          /\ error[r] \in {"busy", "abandoned", "readonly"}
          /\ OpenOn(r, "direct") /\ only' = [only EXCEPT ![r] = TRUE]
          /\ UNCHANGED <<waited, error, starts, reserved>>
       \/ /\ ~ReplaysFirst(r) /\ (only[r] \/ error[r] \in {"unreachable", "lost", "other"})
          /\ pc' = [pc EXCEPT ![r] = "ended"] /\ GiveBack(r) /\ Forget(r)
    /\ UNCHANGED <<brokerVars, running, twice, faults>>

\* BROKER_ABANDONED_TURN_GRACE_MS and two seconds since the run began: later
\* than the grace of a turn that was abandoned before.  Only a run that was
\* told of one looks at the clock.
WaitOver(r) ==
    /\ ~waited[r] /\ error[r] = "abandoned" /\ ~Ended(r) /\ r \in Resumes
    /\ Held => r \in orphan.late
    /\ waited' = [waited EXCEPT ![r] = TRUE]
    /\ UNCHANGED <<pc, link, only, sent, error, reserved, brokerVars, turnVars, faults>>

-----------------------------------------------------------------------------
(* The attempt's requests.                                                  *)

Sends(r) == sent' = [sent EXCEPT ![r] = IF @ < 2 THEN @ + 1 ELSE @]
Goes(r, to) == pc' = [pc EXCEPT ![r] = to]

\* thread/start or thread/resume.
SendOpen(r) ==
    /\ pc[r] = "open" /\ Sends(r)
    /\ \/ /\ link[r] = "direct" /\ Goes(r, "opening") /\ asking' = asking
          /\ UNCHANGED <<error, leaving, reserved>>
       \/ /\ link[r] = "broker" /\ up /\ Occupied(r) /\ Throw(r, "busy") /\ asking' = asking
       \/ /\ link[r] = "broker" /\ up /\ ~Occupied(r) /\ Goes(r, "opening") /\ asking' = r
          /\ UNCHANGED <<error, leaving, reserved>>
    /\ UNCHANGED <<link, only, waited, up, slot, orphan, turnVars, faults>>

\* Its response: the thread (a fresh one is reserved), a thread read-only
\* that was to be written, or an error; or none in time, and the broker is
\* still at it.
Opened(r) ==
    /\ pc[r] = "opening" /\ (link[r] = "broker" => up)
    /\ \/ r \in Resumes /\ Goes(r, "turn") /\ UNCHANGED <<error, leaving, reserved>>
       \/ r \notin Resumes /\ Goes(r, "name") /\ Take(r) /\ UNCHANGED <<error, leaving>>
       \/ r \in Resumes /\ Throw(r, IF link[r] = "broker" THEN "readonly" ELSE "other")
       \/ Throw(r, "other")
    /\ \/ asking' = (IF asking = r THEN None ELSE asking) /\ UNCHANGED faults
       \/ Fault /\ asking' = asking /\ pc'[r] = "threw" /\ error'[r] = "other"
    /\ UNCHANGED <<link, only, sent, waited, up, slot, orphan, turnVars>>

\* thread/name/set, of a fresh thread.
SendName(r) ==
    /\ pc[r] = "name" /\ (link[r] = "broker" => up) /\ Sends(r)
    /\ IF link[r] = "broker" /\ Occupied(r) THEN Throw(r, "busy")
       ELSE \/ Goes(r, "turn") /\ UNCHANGED <<error, leaving, reserved>>
            \/ Throw(r, "other")
    /\ UNCHANGED <<link, only, waited, up, slot, orphan, asking, turnVars, faults>>

Accepted(r) == starts' = [starts EXCEPT ![r] = @ + 1]

\* turn/start through the broker.
SendTurn(r) ==
    /\ pc[r] = "turn" /\ link[r] = "broker" /\ up /\ Sends(r)
    /\ orphan' = IF ~Occupied(r) /\ ~Held THEN None ELSE orphan
    /\ \/ /\ Occupied(r) \/ slot # None
          /\ Throw(r, "busy") /\ UNCHANGED <<slot, running, starts>>
       \/ /\ ~Occupied(r) /\ slot = None /\ Held
          /\ Throw(r, "abandoned") /\ UNCHANGED <<slot, running, starts>>
       \/ /\ ~Occupied(r) /\ slot = None /\ ~Held
          /\ Goes(r, "started") /\ Accepted(r)
          /\ slot' = [run |-> r, phase |-> "inFlight", disc |-> FALSE]
          /\ running' = running \cup {r}
          /\ UNCHANGED <<error, leaving, reserved>>
    /\ UNCHANGED <<link, only, waited, up, asking, twice, faults>>

\* The turns of others that still run on the run's thread.
LeftBehind(r) == {q \in Runs \ {r} : Thread(q) = Thread(r) /\ q \in running}

\* turn/start on the private app-server.
SendPrivateTurn(r) ==
    /\ pc[r] = "turn" /\ link[r] = "direct" /\ Sends(r) /\ Accepted(r)
    /\ Goes(r, "started")
    /\ twice' = IF LeftBehind(r) = {} THEN twice
                ELSE twice \cup {IF waited[r] THEN "waited" ELSE error[r]}
    /\ UNCHANGED <<link, only, waited, error, reserved, brokerVars, running, faults>>

-----------------------------------------------------------------------------
(* The end of a turn: the run has its result, closes its client (the broker *)
(* sees that later) and gives the thread back.                              *)

Result(r) ==
    /\ Goes(r, "ended") /\ GiveBack(r) /\ Forget(r)
    /\ leaving' = IF link[r] = "broker" THEN leaving \cup {r} ELSE leaving

PrivateDone(r) ==
    /\ pc[r] = "started" /\ link[r] = "direct"
    /\ Result(r)
    /\ UNCHANGED <<up, slot, orphan, asking, running, twice, faults>>

\* The response of turn/start: the turn is its socket's, or abandoned; or an
\* error, of the app-server that refused the turn or of the broker's timer,
\* with the turn under way.
Abandon(r) ==
    orphan' = [run |-> r, old |-> FALSE,
               late |-> {q \in Resumes : ~Ended(q) /\ pc[q] # "idle" /\ ~waited[q]}]

Respond ==
    /\ slot # None /\ slot.phase = "inFlight"
    /\ \/ /\ ~slot.disc /\ slot' = [slot EXCEPT !.phase = "active"]
          /\ UNCHANGED <<orphan, running, pc, error, leaving, reserved, faults>>
       \/ /\ slot.disc /\ slot' = None /\ Abandon(slot.run)
          /\ UNCHANGED <<running, pc, error, leaving, reserved, faults>>
       \/ /\ slot' = None
          /\ \/ running' = running \ {slot.run} /\ UNCHANGED faults
             \/ Fault /\ UNCHANGED running
          /\ IF slot.disc \/ pc[slot.run] # "started" THEN UNCHANGED <<pc, error, leaving, reserved>>
                                             ELSE Throw(slot.run, "other")
          /\ orphan' = orphan
    /\ UNCHANGED <<link, only, sent, waited, up, asking, starts, twice>>

\* The run's own timer of turn/start is first.
TimesOut(r) ==
    /\ Fault /\ pc[r] = "started" /\ link[r] = "broker" /\ slot # None
    /\ slot.run = r /\ slot.phase = "inFlight"
    /\ Throw(r, "other")
    /\ UNCHANGED <<link, only, sent, waited, up, slot, orphan, asking, turnVars>>

\* turn/completed, for the run or for nobody.
Complete(r) ==
    /\ r \in running
    /\ slot # None => (slot.run = r => slot.phase = "active")
    /\ running' = running \ {r}
    /\ slot' = IF slot # None THEN (IF slot.run = r THEN None ELSE slot) ELSE None
    /\ orphan' = IF orphan # None THEN (IF orphan.run = r THEN None ELSE orphan) ELSE None
    /\ IF pc[r] = "started" THEN Result(r) ELSE UNCHANGED <<runVars, starts, leaving, reserved>>
    /\ UNCHANGED <<up, asking, twice, faults>>

-----------------------------------------------------------------------------
(* The broker and the faults.                                               *)

\* A closed socket: its request or turn stays without an owner.
SeesClose(r) ==
    /\ r \in leaving
    /\ leaving' = leaving \ {r}
    /\ asking' = IF asking = r THEN None ELSE asking
    /\ IF slot = None THEN UNCHANGED <<slot, orphan>>
       ELSE IF slot.run # r THEN UNCHANGED <<slot, orphan>>
       ELSE IF slot.phase = "active" THEN slot' = None /\ Abandon(r)
       ELSE slot' = [slot EXCEPT !.disc = TRUE] /\ UNCHANGED orphan
    /\ UNCHANGED <<runVars, reserved, up, turnVars, faults>>

GraceOver ==
    /\ Held
    /\ orphan' = [orphan EXCEPT !.old = TRUE]
    /\ UNCHANGED <<runVars, reserved, up, slot, asking, leaving, turnVars, faults>>

\* The broker exits, its app-server with it, and every client's socket closes.
Down ==
    /\ up /\ Fault
    /\ up' = FALSE /\ slot' = None /\ orphan' = None /\ asking' = None /\ leaving' = {}
    /\ running' = {}
    /\ pc' = [r \in Runs |-> IF Linked(r) THEN "threw" ELSE pc[r]]
    /\ error' = [r \in Runs |-> IF Linked(r) THEN "lost" ELSE error[r]]
    /\ reserved' = [t \in Threads |-> IF reserved[t] # None
                      THEN (IF Linked(reserved[t]) /\ reserved[t] \notin Resumes THEN None
                            ELSE reserved[t])
                      ELSE None]
    /\ UNCHANGED <<link, only, sent, waited, starts, twice>>

\* The run is killed; its private app-server ends with it.
Cut(r) ==
    /\ Fault /\ ~Ended(r) /\ pc[r] # "idle"
    /\ pc' = [pc EXCEPT ![r] = "dead"] /\ Forget(r)
    /\ leaving' = IF Linked(r) THEN leaving \cup {r} ELSE leaving
    /\ UNCHANGED <<reserved, up, slot, orphan, asking, running, twice>>

-----------------------------------------------------------------------------
Run(r) == \/ Begin(r) \/ Connect(r) \/ Decide(r) \/ SendOpen(r) \/ Opened(r) \/ SendName(r)
          \/ SendTurn(r) \/ SendPrivateTurn(r) \/ PrivateDone(r)

Next ==
    \/ \E r \in Runs : Run(r) \/ WaitOver(r) \/ TimesOut(r) \/ Complete(r) \/ SeesClose(r) \/ Cut(r)
    \/ Respond \/ GraceOver \/ Down

Spec == Init /\ [][Next]_vars

\* A run goes on, the broker reads its sockets and answers, timers fire, and
\* a turn that has a client comes to its end; an abandoned one need not.
Fairness ==
    /\ \A r \in Runs : /\ WF_vars(Run(r)) /\ WF_vars(WaitOver(r)) /\ WF_vars(SeesClose(r))
                       /\ WF_vars(pc[r] = "started" /\ Complete(r))
    /\ WF_vars(Respond) /\ WF_vars(GraceOver)

FairSpec == Spec /\ Fairness

-----------------------------------------------------------------------------
(* Properties.                                                              *)

(* However often the attempt is repeated (first busy answer, abandoned     *)
(* turn, read-only thread, dead endpoint), one turn of the run at most is  *)
(* accepted by an app-server (turn-runner.ts:407-413, threads.ts:168-180). *)
TurnStartsOnce == \A r \in Runs : starts[r] <= 1

(* A run that lives drives its turn only while it owns the thread's        *)
(* reservation, through every retry, and a run that ended owns none        *)
(* (turn-runner.ts:380-386, 445-449).                                      *)
OwnerDrives ==
    \A r \in Runs :
        /\ pc[r] \in {"turn", "started"} => reserved[Thread(r)] = r
        /\ pc[r] = "ended" => \A t \in Threads : reserved[t] # r

(* A turn starts on a private app-server next to one that the broker still *)
(* runs on the same thread only after the wait for an abandoned turn, or   *)
(* when the last the run heard was a plain busy or a read-only thread, even *)
(* if it had been told of the abandoned turn before (threads.ts:181-200):  *)
(* never on the answer that tells of the abandoned turn, and never when    *)
(* the broker was only out of reach (turn-runner.ts:399-443).              *)
AbandonedAnswerIsWaitedOut == twice \subseteq {"waited", "busy", "readonly"}

(* Both: a thread is driven by its owner alone, as far as a run can see to *)
(* it.                                                                     *)
ThreadIsItsOwners == OwnerDrives /\ AbandonedAnswerIsWaitedOut

(* A thread whose turn a dead run left in the broker is not driven from a  *)
(* second app-server before that wait is over: what the comment at         *)
(* turn-runner.ts:418-421 asks.  It does not hold: the broker answers      *)
(* plain busy until it has seen the dead run's connection close, or while  *)
(* it works for another client when a resume that was told of the turn     *)
(* asks again, and that is retried privately at once.                      *)
NoSecondDriver == twice \subseteq {"waited"}

(* Every run ends, whatever the broker answers and whoever is killed       *)
(* (turn-runner.ts:399-443).                                               *)
RunEnds == \A r \in Runs : pc[r] # "idle" ~> Ended(r)

=============================================================================
