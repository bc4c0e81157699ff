-------------------------- MODULE CodexTurn_proofs --------------------------
(***************************************************************************)
(* A Codex turn from its start to its end: the inductive invariants behind *)
(* what TurnRunner promises of the app-server it runs on, and TurnCapture  *)
(* of what is captured of it, for any number of runs, threads, subagents,  *)
(* lines, time-outs and lost connections.  The two share no state.         *)
(***************************************************************************)
EXTENDS TurnRunner, TurnCapture, WellFoundedInduction, TLAPS

-----------------------------------------------------------------------------
(* TurnRunner: a run against the shared broker or an app-server of its own. *)

\* The steps of an attempt that has an app-server and no turn yet.
Attempt == {"open", "opening", "name", "turn"}

RunTypes ==
    /\ pc \in [Runs -> {"idle", "connect", "started", "threw", "ended", "dead"} \cup Attempt]
    /\ link \in [Runs -> {"broker", "direct", None}]
    /\ only \in [Runs -> BOOLEAN] /\ sent \in [Runs -> 0 .. 2] /\ waited \in [Runs -> BOOLEAN]
    /\ error \in [Runs -> {"none", "busy", "abandoned", "readonly", "unreachable", "lost", "other"}]
    /\ reserved \in [Threads -> Runs \cup {None}]
    /\ up \in BOOLEAN
    /\ slot \in [run : Runs, phase : {"inFlight", "active"}, disc : BOOLEAN] \cup {None}
    /\ orphan \in [run : Runs, old : BOOLEAN, late : SUBSET Runs] \cup {None}
    /\ asking \in Runs \cup {None} /\ leaving \subseteq Runs /\ running \subseteq Runs
    /\ starts \in [Runs -> Nat] /\ faults \in Nat

\* A turn that was accepted is under way, or has failed for good.
StartedOnce ==
    \A r \in Runs :
        /\ starts[r] \in {0, 1}
        /\ starts[r] = 1 => pc[r] = "started" \/ (pc[r] = "threw" /\ error[r] \in {"other", "lost"})

\* What the broker still has of a run is a turn the run waits for, or that of
\* a run that was killed or had no answer in time.
Waiting(r) == pc[r] = "started" /\ link[r] = "broker"
GaveUp(r)  == pc[r] \in {"ended", "dead"} \/ (pc[r] = "threw" /\ error[r] = "other")
BrokersTurns ==
    /\ slot # None => (Waiting(slot.run) /\ ~slot.disc) \/ GaveUp(slot.run)
    /\ \A r \in running : Waiting(r) \/ GaveUp(r)
    /\ \A r \in leaving : ~Linked(r)
    /\ ~up => running = {}

\* A run holds the reservation of its thread from before it asks for the
\* thread until it is over, so that two runs are never at one thread.
Owns(r) == reserved[Thread(r)] = r
Owners ==
    /\ \A t \in Threads : reserved[t] # None => Thread(reserved[t]) = t
    /\ \A r \in Runs :
          /\ r \in Resumes /\ pc[r] \notin {"idle", "ended", "dead"} => Owns(r)
          /\ pc[r] \in {"name", "turn", "started"} => Owns(r)
          /\ pc[r] \in {"idle", "ended"} => ~Owns(r)

\* A resume goes private only on a plain busy or a read-only thread, when its
\* wait is over, or when the broker is gone with all its turns.
Waits ==
    /\ \A r \in Runs :
          /\ pc[r] \in {"opening", "name", "turn"} => sent[r] # 0
          /\ pc[r] = "threw" /\ error[r] = "abandoned" => sent[r] = 2
          /\ error[r] = "unreachable" => ~up
          /\ r \in Resumes /\ link[r] = "direct" /\ pc[r] \in Attempt =>
                waited[r] \/ ~up \/ error[r] \in {"busy", "readonly"}
    /\ AbandonedAnswerIsWaitedOut

RunInv == RunTypes /\ StartedOnce /\ BrokersTurns /\ Owners /\ Waits

-----------------------------------------------------------------------------

\* Runs share a thread only if both resume it.
LEMMA ThreadFacts ==
    /\ \A r \in Runs : Thread(r) \in Threads /\ (r \notin Resumes => Thread(r) = r)
    /\ \A q, r \in Runs : Thread(q) = Thread(r) => q = r \/ {q, r} \subseteq Resumes
    /\ \A q, r \in Resumes : Thread(q) = Thread(r)
BY RunsAssumption DEF Thread, Threads

\* Nothing is reserved, started or owed at first.
LEMMA InitInv == Init => RunInv
BY ThreadFacts, RunsAssumption
   DEF Init, RunInv, RunTypes, StartedOnce, BrokersTurns, Owners, Owns, Waits,
       AbandonedAnswerIsWaitedOut

\* The turn that the broker abandons is one of a run.
LEMMA AbandonType ==
    ASSUME NEW r \in Runs, Abandon(r)
    PROVE  orphan' \in [run : Runs, old : BOOLEAN, late : SUBSET Runs]
<1> DEFINE late == {q \in Resumes : ~Ended(q) /\ pc[q] # "idle" /\ ~waited[q]}
<1>1. late \in SUBSET Runs
  BY RunsAssumption
<1>2. orphan' = [run |-> r, old |-> FALSE, late |-> late]
  BY DEF Abandon
<1> HIDE DEF late
<1> QED
  BY <1>1, <1>2

\* A run takes its thread, or waits for it.
LEMMA BeginStep ==
    ASSUME RunInv, NEW r \in Runs, Begin(r)
    PROVE  RunInv'
<1>1. RunTypes'
  BY DEF RunInv, RunTypes, Begin, Take, brokerVars, turnVars
<1>2. StartedOnce'
  BY DEF RunInv, RunTypes, StartedOnce, Begin, turnVars
<1>3. BrokersTurns'
  BY DEF RunInv, RunTypes, BrokersTurns, Waiting, GaveUp, Linked, Begin, brokerVars, turnVars
<1>4. Owners'
  BY ThreadFacts, RunsAssumption DEF RunInv, RunTypes, Owners, Owns, Begin, Take, Free, Ended,
      runVars
<1>5. Waits'
  BY DEF RunInv, RunTypes, Waits, AbandonedAnswerIsWaitedOut, Attempt, Begin, brokerVars, turnVars
<1> QED
  BY <1>1, <1>2, <1>3, <1>4, <1>5 DEF RunInv

\* The broker answers, or a private app-server is started.
LEMMA ConnectStep ==
    ASSUME RunInv, NEW r \in Runs, Connect(r)
    PROVE  RunInv'
<1>1. RunTypes'
  BY DEF RunInv, RunTypes, Connect, OpenOn, Throw, GiveBackFresh, GiveBack, runVars, brokerVars,
         turnVars, Attempt, Linked
<1>2. StartedOnce'
  BY DEF RunInv, RunTypes, StartedOnce, Connect, OpenOn, Throw, turnVars
<1>3. BrokersTurns'
  BY DEF RunInv, RunTypes, BrokersTurns, Waiting, GaveUp, Linked, Connect, OpenOn, Throw, turnVars
<1>4. Owners'
  BY ThreadFacts
     DEF RunInv, RunTypes, Owners, Owns, Connect, OpenOn, Throw, GiveBackFresh, GiveBack, runVars,
         brokerVars
<1>5. Waits'
  BY DEF RunInv, RunTypes, Waits, AbandonedAnswerIsWaitedOut, Connect, OpenOn, Throw, turnVars
<1> QED
  BY <1>1, <1>2, <1>3, <1>4, <1>5 DEF RunInv

\* After a failed attempt: repeat it privately, wait for an abandoned turn,
\* or give up.
LEMMA DecideStep ==
    ASSUME RunInv, NEW r \in Runs, Decide(r)
    PROVE  RunInv'
<1>1. RunTypes'
  <2>1. pc' \in [Runs -> {"idle", "connect", "started", "threw", "ended", "dead"} \cup Attempt]
    BY DEF RunInv, RunTypes, Decide, OpenOn, Attempt
  <2>2. /\ link' \in [Runs -> {"broker", "direct", None}]
        /\ only' \in [Runs -> BOOLEAN] /\ sent' \in [Runs -> 0 .. 2]
           /\ waited' \in [Runs -> BOOLEAN]
    <3>1. link' \in [Runs -> {"broker", "direct", None}]
      BY DEF RunInv, RunTypes, Decide, OpenOn, Forget
    <3>2. only' \in [Runs -> BOOLEAN]
      BY DEF RunInv, RunTypes, Decide, OpenOn, Forget
    <3>3. sent' \in [Runs -> 0 .. 2]
      BY DEF RunInv, RunTypes, Decide, OpenOn, Forget
    <3>4. waited' \in [Runs -> BOOLEAN]
      BY DEF RunInv, RunTypes, Decide, OpenOn, Forget
    <3> QED
      BY <3>1, <3>2, <3>3, <3>4
  <2>3. /\ error' \in [Runs -> {"none", "busy", "abandoned", "readonly", "unreachable", "lost",
           "other"}]
        /\ starts' \in [Runs -> Nat]
    BY DEF RunInv, RunTypes, Decide, OpenOn, Forget
  <2>4. reserved' \in [Threads -> Runs \cup {None}]
    BY DEF RunInv, RunTypes, Decide, GiveBack
  <2> QED
    BY <2>1, <2>2, <2>3, <2>4 DEF RunInv, RunTypes, Decide, brokerVars
<1>2. StartedOnce'
  BY DEF RunInv, RunTypes, StartedOnce, Decide, ReplaysFirst, OpenOn, WaitsOut, Forget
<1>3. BrokersTurns'
  BY DEF RunInv, RunTypes, BrokersTurns, Waiting, GaveUp, Linked, Decide, ReplaysFirst, WaitsOut, OpenOn,
         Forget, brokerVars
<1>4. Owners'
  BY ThreadFacts, RunsAssumption DEF RunInv, RunTypes, Owners, Owns, Decide, OpenOn, GiveBack
<1>5. Waits'
  BY DEF RunInv, RunTypes, Waits, AbandonedAnswerIsWaitedOut, Attempt, Decide, ReplaysFirst, OpenOn,
         WaitsOut, Forget, brokerVars
<1> QED
  BY <1>1, <1>2, <1>3, <1>4, <1>5 DEF RunInv

\* The wait for an abandoned turn is over.
LEMMA WaitOverStep ==
    ASSUME RunInv, NEW r \in Runs, WaitOver(r)
    PROVE  RunInv'
<1>1. RunTypes'
  BY DEF RunInv, RunTypes, WaitOver, brokerVars, turnVars
<1>2. StartedOnce'
  BY DEF RunInv, StartedOnce, WaitOver, turnVars
<1>3. BrokersTurns'
  BY DEF RunInv, BrokersTurns, Waiting, GaveUp, Linked, WaitOver, brokerVars, turnVars
<1>4. Owners'
  BY DEF RunInv, Owners, Owns, WaitOver
<1>5. Waits'
  BY DEF RunInv, Waits, AbandonedAnswerIsWaitedOut, WaitOver, brokerVars, turnVars
<1> QED
  BY <1>1, <1>2, <1>3, <1>4, <1>5 DEF RunInv

\* thread/start or thread/resume goes out.
LEMMA SendOpenStep ==
    ASSUME RunInv, NEW r \in Runs, SendOpen(r)
    PROVE  RunInv'
<1>1. RunTypes'
  BY DEF RunInv, RunTypes, SendOpen, Sends, Goes, Throw, GiveBackFresh, GiveBack, runVars,
      brokerVars,
         turnVars, Attempt, Linked
<1>2. StartedOnce'
  BY DEF RunInv, RunTypes, StartedOnce, SendOpen, Goes, Throw, turnVars
<1>3. BrokersTurns'
  BY DEF RunInv, RunTypes, BrokersTurns, Waiting, GaveUp, Linked, SendOpen, Goes, Throw, turnVars
<1>4. Owners'
  BY ThreadFacts DEF RunInv, RunTypes, Owners, Owns, SendOpen, Goes, Throw, GiveBackFresh, GiveBack
<1>5. Waits'
  BY DEF RunInv, RunTypes, Waits, AbandonedAnswerIsWaitedOut, SendOpen, Sends, Goes, Throw, turnVars
<1> QED
  BY <1>1, <1>2, <1>3, <1>4, <1>5 DEF RunInv

\* Its answer arrives: the run owns the thread now.
LEMMA OpenedStep ==
    ASSUME RunInv, NEW r \in Runs, Opened(r)
    PROVE  RunInv'
<1>1. RunTypes'
  BY DEF RunInv, RunTypes, Opened, Fault, Goes, Take, Throw, GiveBackFresh, GiveBack, runVars, brokerVars,
         turnVars, Attempt, Linked
<1>2. StartedOnce'
  BY DEF RunInv, RunTypes, StartedOnce, Opened, Goes, Throw, turnVars
<1>3. BrokersTurns'
  BY DEF RunInv, RunTypes, BrokersTurns, Waiting, GaveUp, Linked, Opened, Goes, Throw, turnVars
<1>4. Owners'
  BY ThreadFacts
     DEF RunInv, RunTypes, Owners, Owns, Opened, Goes, Take, Throw, GiveBackFresh, GiveBack,
         runVars,
         brokerVars
<1>5. Waits'
  BY DEF RunInv, RunTypes, Waits, AbandonedAnswerIsWaitedOut, Attempt, Opened, Goes, Throw, turnVars
<1> QED
  BY <1>1, <1>2, <1>3, <1>4, <1>5 DEF RunInv

\* The name of the thread goes out.
LEMMA SendNameStep ==
    ASSUME RunInv, NEW r \in Runs, SendName(r)
    PROVE  RunInv'
<1>1. RunTypes'
  BY DEF RunInv, RunTypes, SendName, Sends, Goes, Throw, GiveBackFresh, GiveBack, runVars,
      brokerVars,
         turnVars, Attempt, Linked
<1>2. StartedOnce'
  BY DEF RunInv, RunTypes, StartedOnce, SendName, Goes, Throw, turnVars
<1>3. BrokersTurns'
  BY DEF RunInv, RunTypes, BrokersTurns, Waiting, GaveUp, Linked, SendName, Goes, Throw, turnVars
<1>4. Owners'
  BY ThreadFacts DEF RunInv, RunTypes, Owners, Owns, SendName, Goes, Throw, GiveBackFresh, GiveBack
<1>5. Waits'
  BY DEF RunInv, RunTypes, Waits, AbandonedAnswerIsWaitedOut, Attempt, SendName, Sends, Goes, Throw, turnVars
<1> QED
  BY <1>1, <1>2, <1>3, <1>4, <1>5 DEF RunInv

\* turn/start goes to the broker, which takes it or turns it down.
LEMMA SendTurnStep ==
    ASSUME RunInv, NEW r \in Runs, SendTurn(r)
    PROVE  RunInv'
<1>1. RunTypes'
  <2>1. pc' \in [Runs -> {"idle", "connect", "started", "threw", "ended", "dead"} \cup Attempt]
    BY DEF RunInv, RunTypes, SendTurn, Throw, Goes
  <2>2. sent' \in [Runs -> 0 .. 2] /\ leaving' \subseteq Runs /\ running' \subseteq Runs
    BY DEF RunInv, RunTypes, SendTurn, Sends, Throw
  <2>3. /\ error' \in [Runs -> {"none", "busy", "abandoned", "readonly", "unreachable", "lost",
           "other"}]
        /\ starts' \in [Runs -> Nat]
    BY DEF RunInv, RunTypes, SendTurn, Throw, Accepted
  <2>4. reserved' \in [Threads -> Runs \cup {None}]
    BY DEF RunInv, RunTypes, SendTurn, Throw, GiveBackFresh, GiveBack
  <2>5. /\ slot' \in [run : Runs, phase : {"inFlight", "active"}, disc : BOOLEAN] \cup {None}
        /\ orphan' \in {orphan, None}
    <3>1. slot' = slot \/ slot' = [run |-> r, phase |-> "inFlight", disc |-> FALSE]
      BY DEF SendTurn
    <3>2. orphan' \in {orphan, None}
      BY DEF SendTurn
    <3>3. [run |-> r, phase |-> "inFlight", disc |-> FALSE] \in [run : Runs,
          phase : {"inFlight", "active"}, disc : BOOLEAN]
      OBVIOUS
    <3>4. slot \in [run : Runs, phase : {"inFlight", "active"}, disc : BOOLEAN] \cup {None}
      BY DEF RunInv, RunTypes
    <3> QED
      BY <3>1, <3>2, <3>3, <3>4
  <2> QED
    BY <2>1, <2>2, <2>3, <2>4, <2>5 DEF RunInv, RunTypes, SendTurn
<1>2. StartedOnce'
  BY DEF RunInv, RunTypes, StartedOnce, SendTurn, Goes, Throw, Accepted
<1>3. BrokersTurns'
  BY DEF RunInv, RunTypes, BrokersTurns, Waiting, GaveUp, Linked, SendTurn, Goes, Throw
<1>4. Owners'
  BY ThreadFacts DEF RunInv, RunTypes, Owners, Owns, SendTurn, Goes, Throw, GiveBackFresh, GiveBack
<1>5. Waits'
  BY DEF RunInv, RunTypes, Waits, AbandonedAnswerIsWaitedOut, SendTurn, Sends, Goes, Throw
<1> QED
  BY <1>1, <1>2, <1>3, <1>4, <1>5 DEF RunInv

\* turn/start goes to the app-server of the run's own; an abandoned turn of
\* the thread is over by then.
LEMMA SendPrivateTurnStep ==
    ASSUME RunInv, NEW r \in Runs, SendPrivateTurn(r)
    PROVE  RunInv'
<1>1. RunTypes'
  BY DEF RunInv, RunTypes, SendPrivateTurn, Sends, Goes, Accepted, brokerVars
<1>2. StartedOnce'
  BY DEF RunInv, RunTypes, StartedOnce, SendPrivateTurn, Goes, Accepted
<1>3. BrokersTurns'
  BY DEF RunInv, BrokersTurns, Waiting, GaveUp, Linked, SendPrivateTurn, Goes, brokerVars
<1>4. Owners'
  BY DEF RunInv, Owners, Owns, SendPrivateTurn, Goes
<1>5. Waits'
  <2>1. LeftBehind(r) # {} => waited[r] \/ error[r] \in {"busy", "readonly"}
    <3> SUFFICES ASSUME NEW q \in LeftBehind(r) PROVE waited[r] \/ error[r] \in {"busy", "readonly"}
      OBVIOUS
    <3>1. r \in Resumes /\ q \in running
      BY ThreadFacts DEF LeftBehind
    <3>2. up
      BY <3>1 DEF RunInv, BrokersTurns
    <3> QED
      BY <3>1, <3>2 DEF RunInv, Waits, Attempt, SendPrivateTurn
  <2>2. AbandonedAnswerIsWaitedOut'
    BY <2>1 DEF RunInv, Waits, AbandonedAnswerIsWaitedOut, SendPrivateTurn
  <2> QED
    BY <2>2 DEF RunInv, RunTypes, Waits, Attempt, SendPrivateTurn, Sends, Goes, brokerVars
<1> QED
  BY <1>1, <1>2, <1>3, <1>4, <1>5 DEF RunInv

\* The turn on the run's own app-server ends.
LEMMA PrivateDoneStep ==
    ASSUME RunInv, NEW r \in Runs, PrivateDone(r)
    PROVE  RunInv'
<1>1. RunTypes'
  BY ThreadFacts
     DEF RunInv, RunTypes, PrivateDone, Result, Goes, GiveBack, Forget, runVars, brokerVars,
         turnVars
<1>2. StartedOnce'
  BY DEF RunInv, RunTypes, StartedOnce, PrivateDone, Result, Goes, Forget
<1>3. BrokersTurns'
  BY RunsAssumption DEF RunInv, BrokersTurns, Waiting, GaveUp, Linked, PrivateDone, Result, Goes, Forget
<1>4. Owners'
  BY ThreadFacts, RunsAssumption DEF RunInv, RunTypes, Owners, Owns, PrivateDone, Result, Goes,
      GiveBack
<1>5. Waits'
  BY DEF RunInv, Waits, AbandonedAnswerIsWaitedOut, Attempt, PrivateDone, Result, Goes, Forget
<1> QED
  BY <1>1, <1>2, <1>3, <1>4, <1>5 DEF RunInv

\* The broker's app-server answers turn/start.
LEMMA RespondStep ==
    ASSUME RunInv, Respond
    PROVE  RunInv'
<1>1. RunTypes'
  <2>5. slot # None => slot.run \in Runs /\ slot.phase \in {"inFlight", "active"}
        /\ slot.disc \in BOOLEAN
    BY DEF RunInv, RunTypes
  <2>1. pc' \in [Runs -> {"idle", "connect", "started", "threw", "ended", "dead"} \cup Attempt]
    BY DEF RunInv, RunTypes, Respond, Throw
  <2>2. leaving' \subseteq Runs /\ running' \subseteq Runs
    BY <2>5 DEF RunInv, RunTypes, Respond, Throw
  <2>3. error' \in [Runs -> {"none", "busy", "abandoned", "readonly", "unreachable", "lost",
        "other"}]
    BY DEF RunInv, RunTypes, Respond, Throw
  <2>4. reserved' \in [Threads -> Runs \cup {None}]
    BY DEF RunInv, RunTypes, Respond, Throw, GiveBackFresh, GiveBack
  <2>6. slot' \in [run : Runs, phase : {"inFlight", "active"}, disc : BOOLEAN] \cup {None}
    BY DEF RunInv, RunTypes, Respond
  <2>7. orphan' \in [run : Runs, old : BOOLEAN, late : SUBSET Runs] \cup {None}
    <3>1. UNCHANGED orphan \/ (slot # None /\ Abandon(slot.run))
      BY DEF Respond
    <3> QED
      BY <2>5, <3>1, AbandonType DEF RunInv, RunTypes
  <2> QED
    BY <2>1, <2>2, <2>3, <2>4, <2>6, <2>7 DEF RunInv, RunTypes, Respond, Fault
<1>2. StartedOnce'
  BY DEF RunInv, RunTypes, StartedOnce, Respond, Throw
<1>3. BrokersTurns'
  BY DEF RunInv, RunTypes, BrokersTurns, Waiting, GaveUp, Linked, Respond, Throw
<1>4. Owners'
  <2>1. CASE UNCHANGED <<pc, reserved>>
    BY <2>1 DEF RunInv, Owners, Owns
  <2>2. CASE slot # None /\ ~slot.disc /\ pc[slot.run] = "started" /\ Throw(slot.run, "other")
    <3> DEFINE r == slot.run
    <3>1. r \in Runs
      BY <2>2 DEF RunInv, RunTypes
    <3>2. pc[r] = "started"
      BY <2>2
    <3> HIDE DEF r
    <3>3. /\ pc' = [pc EXCEPT ![r] = "threw"]
          /\ reserved' = IF r \in Resumes THEN reserved
                         ELSE [reserved EXCEPT ![Thread(r)] = IF @ = r THEN None ELSE @]
      BY <2>2 DEF Throw, GiveBackFresh, GiveBack, r
    <3> QED
      BY <3>2, <3>3, RunsAssumption DEF RunInv, RunTypes, Owners, Owns
  <2> QED
    BY <2>1, <2>2 DEF Respond
<1>5. Waits'
  BY DEF RunInv, RunTypes, Waits, AbandonedAnswerIsWaitedOut, Attempt, Respond, Throw
<1> QED
  BY <1>1, <1>2, <1>3, <1>4, <1>5 DEF RunInv

\* The answer to turn/start comes too late for the run.
LEMMA TimesOutStep ==
    ASSUME RunInv, NEW r \in Runs, TimesOut(r)
    PROVE  RunInv'
<1>1. RunTypes'
  BY DEF RunInv, RunTypes, TimesOut, Fault, Throw, GiveBackFresh, GiveBack, turnVars
<1>2. StartedOnce'
  BY DEF RunInv, RunTypes, StartedOnce, TimesOut, Throw, turnVars
<1>3. BrokersTurns'
  BY DEF RunInv, RunTypes, BrokersTurns, Waiting, GaveUp, Linked, TimesOut, Throw, turnVars
<1>4. Owners'
  BY ThreadFacts, RunsAssumption
     DEF RunInv, RunTypes, Owners, Owns, TimesOut, Throw, GiveBackFresh, GiveBack
<1>5. Waits'
  BY DEF RunInv, RunTypes, Waits, AbandonedAnswerIsWaitedOut, Attempt, TimesOut, Throw, turnVars
<1> QED
  BY <1>1, <1>2, <1>3, <1>4, <1>5 DEF RunInv

\* The broker's app-server completes a turn.
LEMMA CompleteStep ==
    ASSUME RunInv, NEW r \in Runs, Complete(r)
    PROVE  RunInv'
<1>1. RunTypes'
  <2>1. pc' \in [Runs -> {"idle", "connect", "started", "threw", "ended", "dead"} \cup Attempt]
    BY DEF RunInv, RunTypes, Complete, Result, Goes, runVars
  <2>2. /\ link' \in [Runs -> {"broker", "direct", None}]
        /\ only' \in [Runs -> BOOLEAN] /\ sent' \in [Runs -> 0 .. 2]
           /\ waited' \in [Runs -> BOOLEAN]
    <3>1. link' \in [Runs -> {"broker", "direct", None}]
      BY DEF RunInv, RunTypes, Complete, Result, Forget, runVars
    <3>2. only' \in [Runs -> BOOLEAN]
      BY DEF RunInv, RunTypes, Complete, Result, Forget, runVars
    <3>3. sent' \in [Runs -> 0 .. 2]
      BY DEF RunInv, RunTypes, Complete, Result, Forget, runVars
    <3>4. waited' \in [Runs -> BOOLEAN]
      BY DEF RunInv, RunTypes, Complete, Result, Forget, runVars
    <3> QED
      BY <3>1, <3>2, <3>3, <3>4
  <2>3. /\ error' \in [Runs -> {"none", "busy", "abandoned", "readonly", "unreachable", "lost",
           "other"}]
        /\ starts' \in [Runs -> Nat]
    BY DEF RunInv, RunTypes, Complete, Result, Forget, runVars
  <2>4. reserved' \in [Threads -> Runs \cup {None}]
    BY DEF RunInv, RunTypes, Complete, Result, GiveBack
  <2>5. /\ slot' \in {slot, None} /\ orphan' \in {orphan, None}
        /\ leaving' \subseteq Runs /\ running' \subseteq Runs
    BY DEF RunInv, RunTypes, Complete, Result
  <2> QED
    BY <2>1, <2>2, <2>3, <2>4, <2>5 DEF RunInv, RunTypes, Complete
<1>2. StartedOnce'
  BY DEF RunInv, RunTypes, StartedOnce, Complete, Result, Goes, Forget, runVars
<1>3. BrokersTurns'
  BY DEF RunInv, RunTypes, BrokersTurns, Waiting, GaveUp, Linked, Complete, Result, Goes, Forget, runVars
<1>4. Owners'
  BY ThreadFacts, RunsAssumption
     DEF RunInv, RunTypes, Owners, Owns, Complete, Result, Goes, GiveBack, runVars
<1>5. Waits'
  BY DEF RunInv, RunTypes, Waits, AbandonedAnswerIsWaitedOut, Attempt, Complete, Result, Goes, Forget,
         runVars
<1> QED
  BY <1>1, <1>2, <1>3, <1>4, <1>5 DEF RunInv

\* The broker notices that a client has gone.
LEMMA SeesCloseStep ==
    ASSUME RunInv, NEW r \in Runs, SeesClose(r)
    PROVE  RunInv'
<1>1. RunTypes'
  <2>1. slot' \in [run : Runs, phase : {"inFlight", "active"}, disc : BOOLEAN] \cup {None}
    BY DEF RunInv, RunTypes, SeesClose
  <2>2. orphan' \in [run : Runs, old : BOOLEAN, late : SUBSET Runs] \cup {None}
    <3>1. r \in Runs /\ (UNCHANGED orphan \/ Abandon(r))
      BY DEF SeesClose, RunInv, RunTypes
    <3> QED
      BY <3>1, AbandonType DEF RunInv, RunTypes
  <2> QED
    BY <2>1, <2>2 DEF RunInv, RunTypes, SeesClose, runVars, turnVars
<1>2. StartedOnce'
  BY DEF RunInv, StartedOnce, SeesClose, runVars, turnVars
<1>3. BrokersTurns'
  BY DEF RunInv, RunTypes, BrokersTurns, Waiting, GaveUp, Linked, SeesClose, runVars, turnVars
<1>4. Owners'
  BY DEF RunInv, Owners, Owns, SeesClose, runVars
<1>5. Waits'
  BY DEF RunInv, Waits, AbandonedAnswerIsWaitedOut, SeesClose, runVars, turnVars
<1> QED
  BY <1>1, <1>2, <1>3, <1>4, <1>5 DEF RunInv

\* The broker's wait for an abandoned turn is over.
LEMMA GraceOverStep ==
    ASSUME RunInv, GraceOver
    PROVE  RunInv'
<1>1. RunTypes'
  BY ThreadFacts, RunsAssumption
     DEF RunInv, RunTypes, GraceOver, Held, runVars, brokerVars, turnVars, Attempt, Linked
<1>2. StartedOnce'
  BY DEF RunInv, StartedOnce, GraceOver, runVars, turnVars
<1>3. BrokersTurns'
  BY DEF RunInv, BrokersTurns, Waiting, GaveUp, Linked, GraceOver, runVars, turnVars
<1>4. Owners'
  BY DEF RunInv, Owners, Owns, GraceOver, runVars
<1>5. Waits'
  BY DEF RunInv, Waits, AbandonedAnswerIsWaitedOut, GraceOver, runVars, turnVars
<1> QED
  BY <1>1, <1>2, <1>3, <1>4, <1>5 DEF RunInv

\* The broker goes down with every turn it has.
LEMMA DownStep ==
    ASSUME RunInv, Down
    PROVE  RunInv'
<1>1. RunTypes'
  <2>1. pc' \in [Runs -> {"idle", "connect", "started", "threw", "ended", "dead"} \cup Attempt]
    BY DEF RunInv, RunTypes, Down
  <2>2. error' \in [Runs -> {"none", "busy", "abandoned", "readonly", "unreachable", "lost",
        "other"}]
    BY DEF RunInv, RunTypes, Down
  <2>3. reserved' \in [Threads -> Runs \cup {None}]
    BY DEF RunInv, RunTypes, Down
  <2>4. faults' \in Nat
    <3>1. faults \in Nat /\ faults' = faults + 1
      BY DEF RunInv, RunTypes, Down, Fault
    <3> QED
      BY <3>1
  <2>5. /\ up' = FALSE /\ slot' = None /\ orphan' = None /\ asking' = None /\ leaving' = {}
           /\ running' = {}
        /\ UNCHANGED <<link, only, sent, waited, starts>>
    BY DEF Down
  <2> QED
    BY <2>1, <2>2, <2>3, <2>4, <2>5 DEF RunInv, RunTypes
<1>2. StartedOnce'
  BY DEF RunInv, StartedOnce, Down
<1>3. BrokersTurns'
  BY DEF BrokersTurns, Down
<1>4. Owners'
  BY ThreadFacts, RunsAssumption DEF RunInv, Owners, Owns, Down, Linked
<1>5. Waits'
  BY DEF RunInv, Waits, AbandonedAnswerIsWaitedOut, Down
<1> QED
  BY <1>1, <1>2, <1>3, <1>4, <1>5 DEF RunInv

\* A run is killed, or its connection breaks.
LEMMA CutStep ==
    ASSUME RunInv, NEW r \in Runs, Cut(r)
    PROVE  RunInv'
<1>1. RunTypes'
  BY DEF RunInv, RunTypes, Cut, Fault, Forget
<1>2. StartedOnce'
  BY DEF RunInv, RunTypes, StartedOnce, Cut, Forget
<1>3. BrokersTurns'
  BY DEF RunInv, RunTypes, BrokersTurns, Waiting, GaveUp, Linked, Cut, Forget
<1>4. Owners'
  BY DEF RunInv, Owners, Owns, Cut
<1>5. Waits'
  BY DEF RunInv, RunTypes, Waits, AbandonedAnswerIsWaitedOut, Attempt, Cut, Forget
<1> QED
  BY <1>1, <1>2, <1>3, <1>4, <1>5 DEF RunInv

\* No step breaks the invariant.
LEMMA NextInv == RunInv /\ [Next]_vars => RunInv'
<1> SUFFICES ASSUME RunInv, [Next]_vars PROVE RunInv'
  OBVIOUS
<1>1. ASSUME NEW r \in Runs, Run(r) \/ WaitOver(r) \/ TimesOut(r) \/ Complete(r) \/ SeesClose(r) \/ Cut(r)
      PROVE  RunInv'
  BY <1>1, BeginStep, ConnectStep, DecideStep, SendOpenStep, OpenedStep, SendNameStep, SendTurnStep,
     SendPrivateTurnStep, PrivateDoneStep, WaitOverStep, TimesOutStep, CompleteStep, SeesCloseStep, CutStep
     DEF Run
<1>2. CASE Respond \/ GraceOver \/ Down
  BY <1>2, RespondStep, GraceOverStep, DownStep
<1>3. CASE UNCHANGED vars
  BY <1>3
     DEF vars, runVars, brokerVars, turnVars, RunInv, RunTypes, StartedOnce, BrokersTurns, Waiting, GaveUp,
         Linked, Owners, Owns, Waits, AbandonedAnswerIsWaitedOut
<1> QED
  BY <1>1, <1>2, <1>3 DEF Next

\* Every reachable state satisfies the inductive invariant.
THEOREM RunIsInductive == Spec => []RunInv
BY InitInv, NextInv, PTL DEF Spec

\* One turn of a run at most is accepted by an app-server, however often the
\* attempt is repeated (runAppServerTurn, withAppServer).
THEOREM TurnStartsOnceHolds == Spec => []TurnStartsOnce
<1>1. RunInv => TurnStartsOnce
  BY DEF RunInv, StartedOnce, TurnStartsOnce
<1> QED
  BY <1>1, RunIsInductive, PTL

\* A run that drives its turn owns its thread, a run that ended owns none, and
\* the answer that tells of an abandoned turn is waited out before the thread
\* is driven privately; a plain busy or a read-only thread is not.
THEOREM ThreadIsItsOwnersHolds == Spec => []ThreadIsItsOwners
<1>1. RunInv => OwnerDrives
  <2> SUFFICES ASSUME RunInv, NEW r \in Runs
               PROVE  /\ pc[r] \in {"turn", "started"} => reserved[Thread(r)] = r
                      /\ pc[r] = "ended" => \A t \in Threads : reserved[t] # r
    BY DEF OwnerDrives
  <2>1. ASSUME NEW t \in Threads, pc[r] = "ended", reserved[t] = r
        PROVE  FALSE
    <3>1. Thread(r) = t
      BY <2>1, RunsAssumption DEF RunInv, Owners
    <3> QED
      BY <2>1, <3>1 DEF RunInv, Owners, Owns
  <2> QED
    BY <2>1 DEF RunInv, Owners, Owns
<1>2. RunInv => AbandonedAnswerIsWaitedOut
  BY DEF RunInv, Waits
<1> QED
  BY <1>1, <1>2, RunIsInductive, PTL DEF ThreadIsItsOwners

-----------------------------------------------------------------------------
(* TurnCapture: what the client makes of the lines it receives.             *)

\* A set of numbers that is not empty has a least one.
LEMMA LeastOne ==
    ASSUME NEW S \in SUBSET Nat, S # {}
    PROVE  \E n \in S : \A m \in S : n <= m
<1>1. PICK n \in S : \A m \in S : ~(<<m, n>> \in OpToRel(<, Nat))
  BY NatLessThanWellFounded, WFMin
<1>2. ASSUME NEW m \in S PROVE n <= m
  <2>1. ~(<<m, n>> \in OpToRel(<, Nat)) /\ m \in Nat /\ n \in Nat
    BY <1>1
  <2>2. QED
    BY <2>1 DEF OpToRel
<1>3. QED
  BY <1>2

\* And a greatest, if it is bounded.
LEMMA GreatestOne ==
    ASSUME NEW n \in Nat, NEW T \in SUBSET (1..n), T # {}
    PROVE  Max(T) \in T /\ \A y \in T : Max(T) >= y
<1> DEFINE Under == {n - y : y \in T}
<1>1. Under \in SUBSET Nat /\ Under # {}
  <2>1. \A y \in T : n - y \in Nat
    OBVIOUS
  <2>2. QED
    BY <2>1
<1>2. PICK u \in Under : \A v \in Under : u <= v
  BY <1>1, LeastOne
<1>3. PICK x \in T : u = n - x
  OBVIOUS
<1>4. \A y \in T : x >= y
  <2> TAKE y \in T
  <2>1. n - x <= n - y
    BY <1>2, <1>3
  <2>2. QED
    BY <2>1
<1>5. QED
  BY <1>3, <1>4 DEF Max

\* What a fold over the first n lines of s makes of each set of them.
Folded(g, c, s, n) ==
    g = [T \in SUBSET (1..n) |-> IF T = {} THEN c ELSE Dispatch(g[T \ {Max(T)}], s[Max(T)])]

LEMMA FoldGrows ==
    ASSUME NEW c, NEW s, NEW n \in Nat, NEW h, Folded(h, c, s, n)
    PROVE  \E g : Folded(g, c, s, n + 1) /\ g[1..(n + 1)] = Dispatch(h[1..n], s[n + 1])
<1> DEFINE g == [T \in SUBSET (1..(n + 1)) |-> IF n + 1 \in T THEN Dispatch(h[T \ {n + 1}],
           s[n + 1]) ELSE h[T]]
           NextIs(T) == IF T = {} THEN c ELSE Dispatch(g[T \ {Max(T)}], s[Max(T)])
<1>1. ASSUME NEW T \in SUBSET (1..(n + 1)) PROVE g[T] = NextIs(T)
  <2>1. CASE n + 1 \in T
    <3>1. Max(T) \in T /\ \A y \in T : Max(T) >= y
      <4>1. n + 1 \in Nat /\ T # {}
        BY <2>1
      <4>2. QED
        BY <4>1, GreatestOne
    <3> DEFINE x == Max(T)
    <3> HIDE DEF x
    <3>2. x = n + 1
      <4>1. x \in T /\ \A y \in T : x >= y
        BY <3>1 DEF x
      <4>2. QED
        BY <2>1, <4>1
    <3>3. T \ {n + 1} \in SUBSET (1..(n + 1)) /\ n + 1 \notin T \ {n + 1}
      OBVIOUS
    <3>4. g[T \ {n + 1}] = h[T \ {n + 1}]
      BY <3>3
    <3>5. QED
      BY <2>1, <3>2, <3>4 DEF x
  <2>2. CASE n + 1 \notin T
    <3>1. T \in SUBSET (1..n)
      BY <2>2
    <3>2. CASE T = {}
      BY <2>2, <3>1, <3>2 DEF Folded
    <3>3. CASE T # {}
      <4>1. Max(T) \in T /\ \A y \in T : Max(T) >= y
        BY <3>1, <3>3, GreatestOne
      <4>2. T \ {Max(T)} \in SUBSET (1..n)
        BY <3>1
      <4>3. g[T \ {Max(T)}] = h[T \ {Max(T)}]
        BY <2>2, <4>2
      <4>4. h[T] = Dispatch(h[T \ {Max(T)}], s[Max(T)])
        BY <3>1, <3>3 DEF Folded
      <4>5. QED
        BY <2>2, <3>3, <4>3, <4>4
    <3>4. QED
      BY <3>2, <3>3
  <2>3. QED
    BY <2>1, <2>2
<1>2. Folded(g, c, s, n + 1)
  BY <1>1 DEF Folded
<1>3. g[1..(n + 1)] = Dispatch(h[1..n], s[n + 1])
  <2>1. (1..(n + 1)) \ {n + 1} = 1..n /\ n + 1 \in 1..(n + 1)
    OBVIOUS
  <2>2. 1..(n + 1) \in SUBSET (1..(n + 1))
    OBVIOUS
  <2>3. QED
    BY <2>1, <2>2
<1>4. QED
  BY <1>2, <1>3

LEMMA FoldExists ==
    ASSUME NEW c, NEW s, NEW n \in Nat
    PROVE  \E g : Folded(g, c, s, n)
<1> DEFINE Bad == {m \in Nat : ~ \E g : Folded(g, c, s, m)}
<1> SUFFICES ASSUME Bad # {} PROVE FALSE
  OBVIOUS
<1>1. PICK m \in Bad : \A k \in Bad : m <= k
  BY LeastOne
<1>2. m # 0
  <2>1. Folded([T \in SUBSET (1..0) |-> c], c, s, 0)
    BY DEF Folded
  <2>2. QED
    BY <2>1
<1>3. m - 1 \in Nat /\ m - 1 \notin Bad
  BY <1>1, <1>2
<1>4. PICK h : Folded(h, c, s, m - 1)
  BY <1>3
<1>5. \E g : Folded(g, c, s, (m - 1) + 1)
  BY <1>3, <1>4, FoldGrows
<1>6. QED
  BY <1>5

LEMMA FoldIsOne ==
    ASSUME NEW c, NEW s, NEW n \in Nat, NEW g, NEW h, Folded(g, c, s, n), Folded(h, c, s, n)
    PROVE  g = h
<1> DEFINE Bad == {m \in 0..n : \E T \in SUBSET (1..m) : g[T] # h[T]}
<1>1. ASSUME Bad # {} PROVE FALSE
  <2>1. PICK m \in Bad : \A k \in Bad : m <= k
    <3>1. Bad \in SUBSET Nat
      OBVIOUS
    <3>2. QED
      BY <1>1, <3>1, LeastOne
  <2>2. PICK T \in SUBSET (1..m) : g[T] # h[T]
    OBVIOUS
  <2>3. T \in SUBSET (1..n)
    OBVIOUS
  <2>4. T # {}
    BY <2>2, <2>3 DEF Folded
  <2>5. Max(T) \in T /\ \A y \in T : Max(T) >= y
    BY <2>3, <2>4, GreatestOne
  <2>6. m - 1 \in 0..n /\ m - 1 \notin Bad /\ T \ {Max(T)} \in SUBSET (1..(m - 1))
    <3>1. PICK x : x = Max(T)
      OBVIOUS
    <3>2. x \in T /\ (\A y \in T : x >= y) /\ x \in 1..m
      BY <2>5, <3>1
    <3>3. m - 1 \in 0..n /\ ~(m <= m - 1)
      BY <3>2
    <3>4. m - 1 \notin Bad
      BY <2>1, <3>3
    <3>5. T \ {x} \in SUBSET (1..(m - 1))
      BY <3>2
    <3>6. QED
      BY <3>1, <3>3, <3>4, <3>5
  <2>7. g[T \ {Max(T)}] = h[T \ {Max(T)}]
    BY <2>6
  <2>8. g[T] = Dispatch(g[T \ {Max(T)}], s[Max(T)]) /\ h[T] = Dispatch(h[T \ {Max(T)}], s[Max(T)])
    BY <2>3, <2>4 DEF Folded
  <2>9. QED
    BY <2>2, <2>7, <2>8
<1>2. n \notin Bad
  BY <1>1
<1>3. \A T \in SUBSET (1..n) : g[T] = h[T]
  BY <1>2
<1>4. /\ g = [T \in SUBSET (1..n) |-> g[T]]
      /\ h = [T \in SUBSET (1..n) |-> h[T]]
  BY DEF Folded
<1>5. QED
  BY <1>3, <1>4

\* The fold of the community modules is such a function's value for all lines.
LEMMA FoldIs ==
    ASSUME NEW c, NEW s, NEW n \in Nat, DOMAIN s = 1..n, NEW h, Folded(h, c, s, n)
    PROVE  FoldLeft(Dispatch, c, s) = h[1..n]
<1> DEFINE k == CHOOSE g : Folded(g, c, s, n)
<1>1. Folded(k, c, s, n)
  OBVIOUS
<1>2. k = h
  BY <1>1, FoldIsOne
<1>3. FoldLeft(Dispatch, c, s) = k[1..n]
  BY DEF FoldLeft, MapThenFoldSet, Folded
<1>4. QED
  BY <1>2, <1>3

\* No line leaves the capture as it is; one line more is one dispatch more.
LEMMA FoldEmpty ==
    ASSUME NEW c PROVE FoldLeft(Dispatch, c, <<>>) = c
<1> DEFINE h == [T \in SUBSET (1..0) |-> c]
<1>1. Folded(h, c, <<>>, 0)
  BY DEF Folded
<1>2. h[1..0] = c
  OBVIOUS
<1>3. DOMAIN <<>> = 1..0
  OBVIOUS
<1>4. FoldLeft(Dispatch, c, <<>>) = h[1..0]
  BY <1>1, <1>3, FoldIs
<1>5. QED
  BY <1>2, <1>4

LEMMA FoldAppend ==
    ASSUME NEW c, NEW S, NEW s \in Seq(S), NEW m \in S
    PROVE  FoldLeft(Dispatch, c, Append(s, m)) = Dispatch(FoldLeft(Dispatch, c, s), m)
<1> DEFINE n == Len(s)
           t == Append(s, m)
<1>1. n \in Nat /\ DOMAIN s = 1..n /\ DOMAIN t = 1..(n + 1) /\ t[n + 1] = m
      /\ \A i \in 1..n : t[i] = s[i]
  OBVIOUS
<1> HIDE DEF t, n
<1>2. PICK h : Folded(h, c, s, n)
  BY <1>1, FoldExists
<1>3. Folded(h, c, t, n)
  <2>1. ASSUME NEW T \in SUBSET (1..n), T # {} PROVE t[Max(T)] = s[Max(T)]
    BY <1>1, <2>1, GreatestOne
  <2>2. QED
    BY <1>2, <2>1 DEF Folded
<1>4. PICK g : Folded(g, c, t, n + 1) /\ g[1..(n + 1)] = Dispatch(h[1..n], t[n + 1])
  <2>1. n \in Nat
    BY <1>1
  <2>2. \E g : Folded(g, c, t, n + 1) /\ g[1..(n + 1)] = Dispatch(h[1..n], t[n + 1])
    BY <1>3, <2>1, FoldGrows
  <2>3. QED
    BY <2>2
<1>5. FoldLeft(Dispatch, c, s) = h[1..n] /\ FoldLeft(Dispatch, c, t) = g[1..(n + 1)]
  <2>1. n + 1 \in Nat
    BY <1>1
  <2>2. FoldLeft(Dispatch, c, s) = h[1..n]
    BY <1>1, <1>2, FoldIs
  <2>3. FoldLeft(Dispatch, c, t) = g[1..(n + 1)]
    BY <1>1, <1>4, <2>1, FoldIs
  <2>4. QED
    BY <2>2, <2>3
<1>6. QED
  BY <1>1, <1>4, <1>5 DEF t

Kinds == {"threadStarted", "turnStarted", "turnCompleted", "callStarted", "callEnded", "message",
          "answer", "usage"}
Lines == [kind : Kinds, thread : TurnThreads, turn : Nat \cup {Absent},
          about : Subs \cup Nat \cup EndStates \cup {Absent}]

Captures ==
    [known : SUBSET TurnThreads, turnOf : [TurnThreads -> 0..(Own + MaxTurns) \cup {Absent}],
     calls : SUBSET Subs, active : SUBSET Subs, answered : BOOLEAN, timer : BOOLEAN, idle : BOOLEAN,
     last : 0..MaxSaid, used : Nat, outcome : EndStates \cup {Absent},
     took : SUBSET (TurnThreads \X (Nat \cup {Absent}))]

Early == phase \in {"starting", "answered"}

\* What the capture knows once the response is processed: the replay of the
\* lines so far, as long as they are only kept, and what it has applied since.
Begun   == [NewCapture EXCEPT !.turnOf[Main] = IF named THEN Own ELSE Absent]
Capture == IF Early THEN FoldLeft(Dispatch, Begun, buffer) ELSE cap

CapTypes ==
    /\ phase \in {"starting", "answered", "capturing", "over"}
    /\ result \in Results \cup {Absent} /\ (result # Absent <=> phase = "over")
    /\ reply \in EndStates \cup {"inProgress", Absent}
    /\ buffer \in Seq(Lines) /\ (phase = "capturing" => buffer = <<>>)
    /\ Early => cap = NewCapture
    /\ cap \in Captures /\ Capture \in Captures /\ Main \in cap.known
    /\ gone \in BOOLEAN /\ named \in BOOLEAN
    /\ mine \in EndStates \cup {"idle", "running"}
    /\ subs \in [Subs -> [known: BOOLEAN, turns: 0..MaxTurns, up: BOOLEAN]]
    /\ calls \in [Subs -> {"none", "open", "done"}]
    /\ said \in 0..MaxSaid /\ spent \in 0..MaxSaid /\ stale \in 0..MaxStale

\* Main's turn is the response's, or the first that starts there; none of an
\* older turn is taken once the response has named the turn.
OwnTaken ==
    /\ Main \in Capture.known
    /\ Capture.turnOf[Main] \in {Absent, Own}
    /\ Capture.used <= spent /\ cap.used <= spent
    /\ named => /\ phase # "over" => Capture.turnOf[Main] = Own
                /\ <<Main, Older>> \notin Capture.took /\ <<Main, Older>> \notin cap.took

\* Whatever the app-server has sent of the named turn is in the capture.
AllTaken ==
    named /\ phase # "over" =>
        /\ Capture.last = said /\ Capture.used = spent
        /\ Capture.outcome # Absent => Capture.outcome = mine

ReplyIsTrue == reply \in EndStates => reply = mine

EndIsWhole ==
    named /\ result \in EndStates => mine = result /\ cap.last = said /\ cap.used = spent

CapInv == CapTypes /\ OwnTaken /\ AllTaken /\ ReplyIsTrue /\ EndIsWhole

\* What the properties look at is the same in two captures.
Agree(c, d) ==
    /\ d.known = c.known /\ d.turnOf = c.turnOf /\ d.last = c.last /\ d.used = c.used
    /\ d.outcome = c.outcome /\ d.took = c.took

LEMMA ArmAgrees ==
    ASSUME NEW c \in Captures PROVE Arm(c) \in Captures /\ Agree(c, Arm(c))
BY DEF Captures, Arm, Agree

LEMMA ScheduleAgrees ==
    ASSUME NEW c \in Captures PROVE Schedule(c) \in Captures /\ Agree(c, Schedule(c))
BY DEF Captures, Schedule, Agree

LEMMA CompleteDoes ==
    ASSUME NEW c \in Captures, NEW status \in EndStates
    PROVE  /\ CompleteTurn(c, status) \in Captures
           /\ Agree([c EXCEPT !.outcome = IF @ = Absent THEN status ELSE @],
              CompleteTurn(c, status))
BY DEF Captures, CompleteTurn, Agree

\* A line that the capture takes is noted with its thread and turn.
Noted(c, m) == [c EXCEPT !.took = @ \cup {<<m.thread, m.turn>>}]

LEMMA NotedDoes ==
    ASSUME NEW c \in Captures, NEW m \in Lines
    PROVE  /\ Noted(c, m) \in Captures
           /\ Noted(c, m).took = c.took \cup {<<m.thread, m.turn>>}
           /\ Noted(c, m).known = c.known /\ Noted(c, m).turnOf = c.turnOf
              /\ Noted(c, m).last = c.last
           /\ Noted(c, m).used = c.used /\ Noted(c, m).outcome = c.outcome
           /\ Noted(c, m).calls = c.calls /\ Noted(c, m).active = c.active
BY DEF Captures, Lines, Noted

\* The rest of the capture stands: a line of a subagent, a call, a thread.
Stands(c, d) ==
    /\ d \in Captures /\ c.known \subseteq d.known /\ d.turnOf[Main] = c.turnOf[Main]
    /\ d.last = c.last /\ d.used = c.used /\ d.outcome = c.outcome
    /\ <<Main, Older>> \in d.took => <<Main, Older>> \in c.took

LEMMA ThreadLine ==
    ASSUME NEW c \in Captures, NEW s \in Subs
    PROVE  Stands(c, Dispatch(c, Line("threadStarted", s, Absent, Absent)))
<1> DEFINE d == [c EXCEPT !.known = @ \cup {s}]
<1>1. d \in Captures /\ d.known = c.known \cup {s} /\ d.turnOf = c.turnOf /\ d.last = c.last
      /\ d.used = c.used /\ d.outcome = c.outcome /\ d.took = c.took
  BY DEF Captures, TurnThreads
<1>2. Dispatch(c, Line("threadStarted", s, Absent, Absent)) = Arm(d)
  BY DEF Dispatch, Line
<1> HIDE DEF d
<1>3. QED
  BY <1>1, <1>2, ArmAgrees DEF Agree, Stands

\* A line that the capture takes: what its kind does to the capture decides.
LEMMA TakenLine ==
    ASSUME NEW c \in Captures, NEW m \in Lines, m.kind # "threadStarted", Belongs(c, m),
           NEW d \in Captures, Apply(Noted(c, m), m) = d
    PROVE  Dispatch(c, m) \in Captures /\ Agree(d, Dispatch(c, m))
<1>1. Dispatch(c, m) = Arm(d)
  BY DEF Dispatch, Noted
<1>2. QED
  BY <1>1, ArmAgrees

LEMMA OtherLine ==
    ASSUME NEW c, NEW m, m.kind # "threadStarted", ~Belongs(c, m)
    PROVE  Dispatch(c, m) = c
BY DEF Dispatch

LEMMA SubLine ==
    ASSUME NEW c \in Captures, NEW s \in Subs, NEW turn \in 0..(Own + MaxTurns),
           NEW about \in EndStates \cup {Absent},
           NEW kind \in {"turnStarted", "turnCompleted", "message", "answer"},
           kind = "turnCompleted" => about \in EndStates
    PROVE  Stands(c, Dispatch(c, Line(kind, s, turn, about)))
<1> USE ThreadsAssumption, BoundsAssumption
<1> DEFINE m == Line(kind, s, turn, about)
           b == Noted(c, m)
<1>1. /\ m \in Lines /\ m.kind = kind /\ m.thread = s /\ m.turn = turn /\ m.about = about
      /\ s # Main /\ s \in TurnThreads /\ kind # "threadStarted"
  BY DEF Line, Lines, Kinds, TurnThreads, Own
<1>2. /\ b \in Captures /\ b.took = c.took \cup {<<s, turn>>} /\ b.known = c.known
         /\ b.turnOf = c.turnOf
      /\ b.last = c.last /\ b.used = c.used /\ b.outcome = c.outcome
  BY <1>1, NotedDoes
<1>3. <<Main, Older>> \in b.took => <<Main, Older>> \in c.took
  BY <1>1, <1>2
<1> HIDE DEF m, b
<1>4. CASE ~Belongs(c, m)
  BY <1>1, <1>4, OtherLine DEF Stands, m
<1>5. CASE Belongs(c, m)
  <2>1. PICK d : d = Apply(b, m)
    OBVIOUS
  <2>2. Stands(c, d)
    <3>1. CASE kind = "turnStarted"
      <4>1. d = [b EXCEPT !.known = @ \cup {s}, !.turnOf[s] = turn, !.active = @ \cup {s}]
        BY <1>1, <2>1, <3>1 DEF Apply, TurnStarted
      <4>2. QED
        BY <1>1, <1>2, <1>3, <4>1 DEF Stands, Captures, TurnThreads
    <3>2. CASE kind = "turnCompleted"
      <4> DEFINE e == [b EXCEPT !.active = @ \ {s}]
      <4>1. e \in Captures /\ Agree(b, e)
        BY <1>2 DEF Captures, Agree
      <4>2. d = Schedule(e)
        BY <1>1, <2>1, <3>2 DEF Apply, TurnCompleted
      <4> HIDE DEF e
      <4>3. QED
        BY <1>2, <1>3, <4>1, <4>2, ScheduleAgrees DEF Stands, Agree
    <3>3. CASE kind \in {"message", "answer"}
      <4>1. d = b
        BY <1>1, <2>1, <3>3 DEF Apply, Message, Answer
      <4>2. QED
        BY <1>2, <1>3, <4>1 DEF Stands
    <3>4. QED
      BY <3>1, <3>2, <3>3
  <2>3. Dispatch(c, m) \in Captures /\ Agree(d, Dispatch(c, m))
    BY <1>1, <1>5, <2>1, <2>2, TakenLine DEF Stands, b
  <2>4. QED
    BY <2>2, <2>3 DEF Stands, Agree, m
<1>6. QED
  BY <1>4, <1>5

\* The main thread's own turn: the line is taken.
LEMMA OwnLine ==
    ASSUME NEW c \in Captures, Main \in c.known, c.turnOf[Main] \in {Absent, Own},
           NEW kind \in Kinds \ {"threadStarted"}, NEW about \in Subs \cup Nat \cup EndStates
               \cup {Absent}
    PROVE  LET m == Line(kind, Main, Own, about) IN
           /\ m \in Lines /\ m.kind = kind /\ m.thread = Main /\ m.turn = Own /\ m.about = about
           /\ Belongs(c, m)
           /\ Noted(c, m) \in Captures /\ Noted(c, m).took = c.took \cup {<<Main, Own>>}
           /\ Noted(c, m).known = c.known /\ Noted(c, m).turnOf = c.turnOf
              /\ Noted(c, m).last = c.last
           /\ Noted(c, m).used = c.used /\ Noted(c, m).outcome = c.outcome
           /\ Noted(c, m).calls = c.calls
           /\ <<Main, Older>> \in Noted(c, m).took => <<Main, Older>> \in c.took
<1> DEFINE m == Line(kind, Main, Own, about)
<1>1. m \in Lines /\ m.kind = kind /\ m.thread = Main /\ m.turn = Own /\ m.about = about
  BY DEF Line, Lines, Own, TurnThreads
<1>2. Belongs(c, m)
  BY <1>1 DEF Belongs
<1>3. <<Main, Own>> # <<Main, Older>>
  BY DEF Own, Older
<1> HIDE DEF m
<1>4. QED
  BY <1>1, <1>2, <1>3, NotedDoes DEF m

LEMMA StartLine ==
    ASSUME NEW c \in Captures, Main \in c.known, c.turnOf[Main] \in {Absent, Own}
    PROVE  LET d == Dispatch(c, Line("turnStarted", Main, Own, Absent)) IN
           /\ d \in Captures /\ c.known \subseteq d.known /\ d.turnOf[Main] = Own
           /\ d.last = c.last /\ d.used = c.used /\ d.outcome = c.outcome
           /\ <<Main, Older>> \in d.took => <<Main, Older>> \in c.took
<1> USE BoundsAssumption
<1> DEFINE m == Line("turnStarted", Main, Own, Absent)
           b == Noted(c, m)
<1>1. /\ m \in Lines /\ m.kind = "turnStarted" /\ m.thread = Main /\ m.turn = Own /\ Belongs(c, m)
      /\ b \in Captures /\ b.known = c.known /\ b.turnOf = c.turnOf /\ b.last = c.last
         /\ b.used = c.used
      /\ b.outcome = c.outcome /\ (<<Main, Older>> \in b.took => <<Main, Older>> \in c.took)
  BY OwnLine DEF Kinds
<1> HIDE DEF m, b
<1>2. PICK d : d = [b EXCEPT !.known = @ \cup {Main}, !.turnOf[Main] = Own, !.active = @]
  OBVIOUS
<1>3. d = Apply(b, m)
  BY <1>1, <1>2 DEF Apply, TurnStarted
<1>4. /\ d \in Captures /\ c.known \subseteq d.known /\ d.turnOf[Main] = Own /\ d.took = b.took
      /\ d.last = b.last /\ d.used = b.used /\ d.outcome = b.outcome
  <2>1. Own \in 0..(Own + MaxTurns) \cup {Absent} /\ Main \in TurnThreads
    BY DEF Own, TurnThreads
  <2>2. d.turnOf = [b.turnOf EXCEPT ![Main] = Own] /\ d.known = b.known \cup {Main}
        /\ d.calls = b.calls /\ d.active = b.active /\ d.answered = b.answered /\ d.timer = b.timer
        /\ d.idle = b.idle /\ d.took = b.took /\ d.last = b.last /\ d.used = b.used
        /\ d.outcome = b.outcome
    BY <1>1, <1>2 DEF Captures
  <2>3. d.turnOf \in [TurnThreads -> 0..(Own + MaxTurns) \cup {Absent}] /\ d.turnOf[Main] = Own
    BY <1>1, <2>1, <2>2 DEF Captures
  <2>4. d \in Captures
    BY <1>1, <1>2, <2>1, <2>2, <2>3 DEF Captures
  <2>5. QED
    BY <1>1, <2>2, <2>3, <2>4
<1>5. Dispatch(c, m) \in Captures /\ Agree(d, Dispatch(c, m))
  BY <1>1, <1>3, <1>4, TakenLine DEF b
<1>6. QED
  BY <1>1, <1>4, <1>5 DEF Agree, m

LEMMA EndLine ==
    ASSUME NEW c \in Captures, Main \in c.known, c.turnOf[Main] \in {Absent, Own},
           NEW status \in EndStates
    PROVE  LET d == Dispatch(c, Line("turnCompleted", Main, Own, status)) IN
           /\ d \in Captures /\ d.known = c.known /\ d.turnOf = c.turnOf
           /\ d.last = c.last /\ d.used = c.used
           /\ d.outcome = IF c.outcome = Absent THEN status ELSE c.outcome
           /\ <<Main, Older>> \in d.took => <<Main, Older>> \in c.took
<1> DEFINE m == Line("turnCompleted", Main, Own, status)
           b == Noted(c, m)
<1>1. /\ m \in Lines /\ m.kind = "turnCompleted" /\ m.thread = Main /\ m.about = status
         /\ Belongs(c, m)
      /\ b \in Captures /\ b.known = c.known /\ b.turnOf = c.turnOf /\ b.last = c.last
         /\ b.used = c.used
      /\ b.outcome = c.outcome /\ (<<Main, Older>> \in b.took => <<Main, Older>> \in c.took)
  BY OwnLine DEF Kinds
<1> HIDE DEF m, b
<1>2. Apply(b, m) = CompleteTurn(b, status)
  BY <1>1 DEF Apply, TurnCompleted
<1>3. /\ CompleteTurn(b, status) \in Captures
      /\ Agree([b EXCEPT !.outcome = IF @ = Absent THEN status ELSE @], CompleteTurn(b, status))
  BY <1>1, CompleteDoes
<1>4. Dispatch(c, m) \in Captures /\ Agree(CompleteTurn(b, status), Dispatch(c, m))
  BY <1>1, <1>2, <1>3, TakenLine DEF b
<1>5. QED
  BY <1>1, <1>3, <1>4 DEF Agree, Captures, m

LEMMA CallLine ==
    ASSUME NEW c \in Captures, Main \in c.known, c.turnOf[Main] \in {Absent, Own},
           NEW s \in Subs, NEW kind \in {"callStarted", "callEnded"}
    PROVE  Stands(c, Dispatch(c, Line(kind, Main, Own, s)))
<1> DEFINE m == Line(kind, Main, Own, s)
           b == Noted(c, m)
<1>1. /\ m \in Lines /\ m.kind = kind /\ m.thread = Main /\ m.about = s /\ Belongs(c, m)
      /\ b \in Captures /\ b.known = c.known /\ b.turnOf = c.turnOf /\ b.last = c.last
         /\ b.used = c.used
      /\ b.outcome = c.outcome /\ (<<Main, Older>> \in b.took => <<Main, Older>> \in c.took)
  BY OwnLine DEF Kinds
<1> HIDE DEF m, b
<1>2. PICK d : d = Apply(b, m)
  OBVIOUS
<1>3. Stands(b, d)
  <2>1. CASE kind = "callStarted"
    <3>1. d = [b EXCEPT !.calls = @ \cup {s}, !.known = @ \cup {s}]
      BY <1>1, <1>2, <2>1 DEF Apply, CallStarted
    <3>2. QED
      BY <1>1, <3>1 DEF Stands, Captures, TurnThreads
  <2>2. CASE kind = "callEnded"
    <3> DEFINE e == [b EXCEPT !.calls = @ \ {s}]
    <3>1. e \in Captures /\ Agree(b, e)
      BY <1>1 DEF Captures, Agree
    <3>2. d = [Schedule(e) EXCEPT !.known = @ \cup {s}]
      BY <1>1, <1>2, <2>2 DEF Apply, CallEnded
    <3> HIDE DEF e
    <3>3. PICK f : f = Schedule(e)
      OBVIOUS
    <3>4. f \in Captures /\ Agree(b, f)
      BY <3>1, <3>3, ScheduleAgrees DEF Agree
    <3>5. QED
      BY <3>2, <3>3, <3>4 DEF Stands, Agree, Captures, TurnThreads
  <2>3. QED
    BY <2>1, <2>2
<1>4. Dispatch(c, m) \in Captures /\ Agree(d, Dispatch(c, m))
  BY <1>1, <1>2, <1>3, TakenLine DEF b, Stands
<1>5. QED
  BY <1>1, <1>3, <1>4 DEF Agree, Stands, m

LEMMA SayLine ==
    ASSUME NEW c \in Captures, Main \in c.known, c.turnOf[Main] \in {Absent, Own},
           NEW n \in 0..MaxSaid, NEW kind \in {"message", "answer"}
    PROVE  LET d == Dispatch(c, Line(kind, Main, Own, n)) IN
           /\ d \in Captures /\ d.known = c.known /\ d.turnOf = c.turnOf
           /\ d.last = n /\ d.used = c.used /\ d.outcome = c.outcome
           /\ <<Main, Older>> \in d.took => <<Main, Older>> \in c.took
<1> USE BoundsAssumption
<1> DEFINE m == Line(kind, Main, Own, n)
           b == Noted(c, m)
<1>1. /\ m \in Lines /\ m.kind = kind /\ m.thread = Main /\ m.about = n /\ Belongs(c, m)
      /\ b \in Captures /\ b.known = c.known /\ b.turnOf = c.turnOf /\ b.last = c.last
         /\ b.used = c.used
      /\ b.outcome = c.outcome /\ (<<Main, Older>> \in b.took => <<Main, Older>> \in c.took)
  BY OwnLine DEF Kinds
<1> HIDE DEF m, b
<1> DEFINE said1 == [b EXCEPT !.last = n]
           said2 == [b EXCEPT !.last = n, !.answered = TRUE]
           Told(e) == /\ e \in Captures /\ e.known = b.known /\ e.turnOf = b.turnOf /\ e.last = n
                      /\ e.used = b.used /\ e.outcome = b.outcome /\ e.took = b.took
<1>2. Told(said1) /\ Told(said2)
  BY <1>1 DEF Captures
<1>3. Apply(b, m) = IF kind = "message" THEN said1 ELSE Schedule(said2)
  BY <1>1 DEF Apply, Message, Answer
<1> HIDE DEF said1, said2
<1>4. PICK d : d = Apply(b, m) /\ Told(d)
  BY <1>2, <1>3, ScheduleAgrees DEF Agree
<1>5. Dispatch(c, m) \in Captures /\ Agree(d, Dispatch(c, m))
  BY <1>1, <1>4, TakenLine DEF b
<1>6. QED
  BY <1>1, <1>4, <1>5 DEF Agree, m

LEMMA SpendLine ==
    ASSUME NEW c \in Captures, Main \in c.known, c.turnOf[Main] \in {Absent, Own}
    PROVE  LET d == Dispatch(c, Line("usage", Main, Own, Absent)) IN
           /\ d \in Captures /\ d.known = c.known /\ d.turnOf = c.turnOf
           /\ d.last = c.last /\ d.outcome = c.outcome
           /\ d.used = IF c.turnOf[Main] = Own THEN c.used + 1 ELSE c.used
           /\ <<Main, Older>> \in d.took => <<Main, Older>> \in c.took
<1> DEFINE m == Line("usage", Main, Own, Absent)
           b == Noted(c, m)
<1>1. /\ m \in Lines /\ m.kind = "usage" /\ m.thread = Main /\ m.turn = Own /\ Belongs(c, m)
      /\ b \in Captures /\ b.known = c.known /\ b.turnOf = c.turnOf /\ b.last = c.last
         /\ b.used = c.used
      /\ b.outcome = c.outcome /\ (<<Main, Older>> \in b.took => <<Main, Older>> \in c.took)
  BY OwnLine DEF Kinds
<1> HIDE DEF m, b
<1>2. PICK d : d = Apply(b, m)
  OBVIOUS
<1>3. d = IF c.turnOf[Main] = Own THEN [b EXCEPT !.used = @ + 1] ELSE b
  BY <1>1, <1>2 DEF Apply, Usage
<1>4. /\ d \in Captures /\ d.known = b.known /\ d.turnOf = b.turnOf /\ d.last = b.last
      /\ d.outcome = b.outcome /\ d.took = b.took
      /\ d.used = IF c.turnOf[Main] = Own THEN c.used + 1 ELSE c.used
  BY <1>1, <1>3 DEF Captures
<1>5. Dispatch(c, m) \in Captures /\ Agree(d, Dispatch(c, m))
  BY <1>1, <1>2, <1>4, TakenLine DEF b
<1>6. QED
  BY <1>1, <1>4, <1>5 DEF Agree, m

\* A line of the older turn: not the capture's, once its turn is known.
LEMMA OlderLine ==
    ASSUME NEW c \in Captures, Main \in c.known, c.turnOf[Main] \in {Absent, Own},
           NEW kind \in {"turnCompleted", "usage", "answer"}, NEW about,
           about = IF kind = "turnCompleted" THEN "completed" ELSE IF kind = "answer" THEN 0
               ELSE Absent
    PROVE  LET d == Dispatch(c, Line(kind, Main, Older, about)) IN
           /\ d \in Captures /\ d.known = c.known /\ d.turnOf = c.turnOf /\ d.used = c.used
           /\ c.turnOf[Main] = Own => d = c
<1> USE ThreadsAssumption, BoundsAssumption
<1> DEFINE m == Line(kind, Main, Older, about)
           b == Noted(c, m)
<1>1. /\ m \in Lines /\ m.kind = kind /\ m.thread = Main /\ m.turn = Older /\ m.about = about
      /\ kind # "threadStarted" /\ Own # Older /\ Absent # Older /\ Absent # Own
  BY DEF Line, Lines, Kinds, TurnThreads, Own, Older, EndStates
<1>2. /\ b \in Captures /\ b.known = c.known /\ b.turnOf = c.turnOf /\ b.used = c.used
  BY <1>1, NotedDoes
<1> HIDE DEF m, b
<1>3. CASE ~Belongs(c, m)
  BY <1>1, <1>3, OtherLine DEF m
<1>4. CASE Belongs(c, m)
  <2>1. c.turnOf[Main] = Absent
    BY <1>1, <1>4 DEF Belongs
  <2>2. PICK d : d = Apply(b, m)
    OBVIOUS
  <2>3. d \in Captures /\ d.known = b.known /\ d.turnOf = b.turnOf /\ d.used = b.used
    <3>1. CASE kind = "turnCompleted"
      <4>1. d = CompleteTurn(b, "completed")
        BY <1>1, <2>2, <3>1 DEF Apply, TurnCompleted
      <4>2. d \in Captures /\ Agree([b EXCEPT !.outcome = IF @ = Absent THEN "completed" ELSE @], d)
        BY <1>2, <4>1, CompleteDoes DEF EndStates
      <4>3. QED
        BY <1>2, <4>2 DEF Agree, Captures
    <3>2. CASE kind = "usage"
      BY <1>1, <1>2, <2>1, <2>2, <3>2 DEF Apply, Usage
    <3>3. CASE kind = "answer"
      <4> DEFINE e == [b EXCEPT !.last = 0, !.answered = TRUE]
      <4>1. e \in Captures /\ e.known = b.known /\ e.turnOf = b.turnOf /\ e.used = b.used
        <5>1. 0 \in 0..MaxSaid
          OBVIOUS
        <5>2. QED
          BY <1>2, <5>1 DEF Captures
      <4>2. d = Schedule(e)
        BY <1>1, <2>2, <3>3 DEF Apply, Answer
      <4> HIDE DEF e
      <4>3. QED
        BY <4>1, <4>2, ScheduleAgrees DEF Agree
    <3>4. QED
      BY <3>1, <3>2, <3>3
  <2>4. Dispatch(c, m) \in Captures /\ Agree(d, Dispatch(c, m))
    BY <1>1, <1>4, <2>2, <2>3, TakenLine DEF b
  <2>5. QED
    BY <1>1, <1>2, <2>1, <2>3, <2>4 DEF Agree, m
<1>5. QED
  BY <1>3, <1>4

-----------------------------------------------------------------------------
(* The steps.                                                              *)

LEMMA NewIsCapture ==
    /\ NewCapture \in Captures /\ Begun \in Captures
    /\ NewCapture.known = {Main} /\ NewCapture.used = 0 /\ NewCapture.took = {}
    /\ Begun.known = {Main} /\ Begun.used = 0 /\ Begun.took = {} /\ Begun.last = 0
       /\ Begun.outcome = Absent
    /\ Begun.turnOf[Main] = IF named THEN Own ELSE Absent
<1> USE BoundsAssumption
<1>1. /\ Own \in 0..(Own + MaxTurns) /\ 0 \in 0..MaxSaid /\ Main \in TurnThreads
  BY DEF Own, TurnThreads
<1>2. NewCapture \in Captures
  BY <1>1 DEF NewCapture, Captures
<1>3. /\ NewCapture.known = {Main} /\ NewCapture.used = 0 /\ NewCapture.took = {}
      /\ NewCapture.last = 0 /\ NewCapture.outcome = Absent
  BY DEF NewCapture
<1>4. Begun \in Captures /\ Begun.turnOf[Main] = IF named THEN Own ELSE Absent
  BY <1>1, <1>2 DEF Begun, Captures
<1>5. /\ Begun.known = {Main} /\ Begun.used = 0 /\ Begun.took = {} /\ Begun.last = 0
      /\ Begun.outcome = Absent
  BY <1>2, <1>3 DEF Begun, Captures
<1>6. QED
  BY <1>2, <1>3, <1>4, <1>5

LEMMA CapInitInv == CapInit => CapInv
<1> SUFFICES ASSUME CapInit PROVE CapInv
  OBVIOUS
<1> USE ThreadsAssumption, BoundsAssumption DEF CapInit
<1>1. Capture = Begun
  BY FoldEmpty DEF Capture, Early
<1>2. CapTypes
  <2>1. Capture \in Captures /\ cap \in Captures /\ Main \in cap.known
    BY <1>1, NewIsCapture
  <2>2. 0 \in 0..MaxTurns /\ 0 \in 0..MaxSaid /\ 0 \in 0..MaxStale
    OBVIOUS
  <2>3. <<>> \in Seq(Lines)
    OBVIOUS
  <2>4. QED
    BY <2>1, <2>2, <2>3 DEF CapTypes, Early, Results, EndStates
<1>3. OwnTaken /\ AllTaken
  BY <1>1, NewIsCapture DEF OwnTaken, AllTaken
<1>4. ReplyIsTrue /\ EndIsWhole
  BY DEF ReplyIsTrue, EndIsWhole
<1>5. QED
  BY <1>2, <1>3, <1>4 DEF CapInv

\* A line received is one dispatch more, whether it is kept or applied.
LEMMA Receives ==
    ASSUME CapInv, NEW m \in Lines, Receive(m)
    PROVE  /\ UNCHANGED <<phase, result, reply, gone, named>>
           /\ buffer' \in Seq(Lines) /\ (phase = "capturing" => buffer' = <<>>)
           /\ Capture' = IF phase = "over" THEN Capture ELSE Dispatch(Capture, m)
           /\ cap' = IF phase = "capturing" THEN Capture' ELSE cap
<1>1. UNCHANGED <<phase, result, reply, gone, named>>
  BY DEF Receive
<1>2. buffer' \in Seq(Lines) /\ (phase = "capturing" => buffer' = <<>>)
  BY DEF Receive, CapInv, CapTypes
<1>3. CASE Early
  <2>1. buffer' = Append(buffer, m) /\ cap' = cap /\ phase # "over" /\ phase # "capturing"
    BY <1>3 DEF Receive, Early
  <2>2. Begun' = Begun /\ Early'
    BY <1>1, <1>3 DEF Begun, Early, NewCapture
  <2>3. Capture' = FoldLeft(Dispatch, Begun, Append(buffer, m))
    BY <2>1, <2>2 DEF Capture
  <2>4. Capture' = Dispatch(Capture, m)
    <3>1. buffer \in Seq(Lines)
      BY DEF CapInv, CapTypes
    <3>2. FoldLeft(Dispatch, Begun, Append(buffer, m)) = Dispatch(FoldLeft(Dispatch, Begun, buffer),
          m)
      BY <3>1, FoldAppend
    <3>3. QED
      BY <1>3, <2>3, <3>2 DEF Capture
  <2>5. QED
    BY <1>1, <1>2, <2>1, <2>4
<1>4. CASE ~Early
  BY <1>1, <1>2, <1>4 DEF Receive, Early, Capture, CapInv, CapTypes
<1>5. QED
  BY <1>3, <1>4

\* A line of the app-server keeps the invariant, if the dispatch does.
LEMMA ServerKeeps ==
    ASSUME CapInv, NEW m \in Lines, Receive(m),
           mine' \in EndStates \cup {"idle", "running"},
           subs' \in [Subs -> [known: BOOLEAN, turns: 0..MaxTurns, up: BOOLEAN]],
           calls' \in [Subs -> {"none", "open", "done"}],
           said' \in 0..MaxSaid, spent' \in 0..MaxSaid, stale' \in 0..MaxStale, spent <= spent',
           mine \in EndStates => mine' = mine /\ said' = said /\ spent' = spent,
           LET d == Dispatch(Capture, m) IN
             /\ d \in Captures /\ Main \in d.known /\ d.turnOf[Main] \in {Absent, Own}
                /\ d.used <= spent'
             /\ named /\ phase # "over" =>
                  /\ d.turnOf[Main] = Own /\ <<Main, Older>> \notin d.took
                  /\ d.last = said' /\ d.used = spent' /\ (d.outcome # Absent => d.outcome = mine')
    PROVE  CapInv'
<1> DEFINE d == Dispatch(Capture, m)
<1>1. /\ phase' = phase /\ result' = result /\ reply' = reply /\ gone' = gone /\ named' = named
      /\ buffer' \in Seq(Lines) /\ (phase = "capturing" => buffer' = <<>>)
      /\ Capture' = IF phase = "over" THEN Capture ELSE d
      /\ cap' = IF phase = "capturing" THEN Capture' ELSE cap
  BY Receives
<1> HIDE DEF d
<1>2. CapTypes'
  <2>1. /\ Capture' \in Captures /\ cap' \in Captures /\ Main \in cap'.known
           /\ (Early' => cap' = NewCapture')
    BY <1>1 DEF d, CapInv, CapTypes, Early, NewCapture
  <2>2. QED
    BY <1>1, <2>1 DEF CapInv, CapTypes
<1>3. OwnTaken'
  <2>1. /\ spent \in Nat /\ spent' \in Nat /\ Capture.used \in Nat /\ cap.used \in Nat
    BY BoundsAssumption DEF CapInv, CapTypes, Captures
  <2>2. /\ Main \in Capture'.known /\ Capture'.turnOf[Main] \in {Absent, Own}
    BY <1>1 DEF d, CapInv, OwnTaken
  <2>3. Capture'.used <= spent' /\ cap'.used <= spent'
    BY <1>1, <2>1 DEF d, CapInv, OwnTaken
  <2>4. QED
    BY <1>1, <2>2, <2>3 DEF d, CapInv, OwnTaken
<1>4. AllTaken' /\ ReplyIsTrue' /\ EndIsWhole'
  BY <1>1 DEF d, CapInv, AllTaken, ReplyIsTrue, EndIsWhole
<1>5. QED
  BY <1>2, <1>3, <1>4 DEF CapInv

LEMMA ServerStep == ASSUME CapInv, Server PROVE CapInv'
<1> USE ThreadsAssumption, BoundsAssumption
<1>0. /\ Capture \in Captures /\ Main \in Capture.known /\ Capture.turnOf[Main] \in {Absent, Own}
      /\ Capture.used <= spent /\ Capture.used \in Nat /\ said \in 0..MaxSaid
         /\ spent \in 0..MaxSaid
      /\ stale \in 0..MaxStale /\ Main \in TurnThreads /\ Main \notin Subs
      /\ "running" \notin EndStates /\ "idle" \notin EndStates
      /\ EndStates \subseteq EndStates \cup {"idle", "running"}
      /\ (named => (phase # "over" => Capture.turnOf[Main] = Own) /\ <<Main,
         Older>> \notin Capture.took)
      /\ (named /\ phase # "over" => Capture.last = said /\ Capture.used = spent
            /\ (Capture.outcome # Absent => Capture.outcome = mine))
      /\ Capture.outcome \in EndStates \cup {Absent}
  BY DEF CapInv, CapTypes, OwnTaken, AllTaken, Captures, TurnThreads, EndStates
<1>00. /\ mine \in EndStates \cup {"idle", "running"}
       /\ subs \in [Subs -> [known: BOOLEAN, turns: 0..MaxTurns, up: BOOLEAN]]
       /\ calls \in [Subs -> {"none", "open", "done"}]
  BY DEF CapInv, CapTypes
<1>1. CASE MainStarts
  <2>1. Line("turnStarted", Main, Own, Absent) \in Lines
    BY <1>0 DEF Line, Lines, Kinds, Own
  <2>2. QED
    BY <1>0, <1>00, <1>1, <2>1, StartLine, ServerKeeps DEF MainStarts
<1>2. CASE MainEnds
  <2>1. Line("turnCompleted", Main, Own, mine') \in Lines
    BY <1>0, <1>2 DEF Line, Lines, Kinds, Own, MainEnds
  <2>2. QED
    BY <1>0, <1>00, <1>2, <2>1, EndLine, ServerKeeps DEF MainEnds, Running
<1>3. CASE Say
  <2>1. PICK kind \in {"message", "answer"} : Receive(Line(kind, Main, Own, said'))
    BY <1>3 DEF Say
  <2>2. said' \in 0..MaxSaid
    BY <1>0, <1>3 DEF Say
  <2>3. Line(kind, Main, Own, said') \in Lines
    BY <1>0, <2>2 DEF Line, Lines, Kinds, Own
  <2>4. QED
    <3>1. PICK m \in Lines : m = Line(kind, Main, Own, said')
      BY <2>3
    <3>2. PICK d : d = Dispatch(Capture, m)
      OBVIOUS
    <3>3. /\ d \in Captures /\ d.known = Capture.known /\ d.turnOf = Capture.turnOf
          /\ d.last = said' /\ d.used = Capture.used /\ d.outcome = Capture.outcome
          /\ (<<Main, Older>> \in d.took => <<Main, Older>> \in Capture.took)
      <4>1. PICK n \in 0..MaxSaid : n = said'
        BY <2>2
      <4>2. LET e == Dispatch(Capture, Line(kind, Main, Own, n)) IN
            /\ e \in Captures /\ e.known = Capture.known /\ e.turnOf = Capture.turnOf
            /\ e.last = n /\ e.used = Capture.used /\ e.outcome = Capture.outcome
            /\ <<Main, Older>> \in e.took => <<Main, Older>> \in Capture.took
        BY <1>0, <2>1, SayLine
      <4>3. QED
        BY <3>1, <3>2, <4>1, <4>2
    <3>4. UNCHANGED <<mine, subs, calls, spent, stale>> /\ mine \notin EndStates /\ Receive(m)
      BY <1>0, <1>3, <2>1, <3>1 DEF Say, Running
    <3>5. QED
      BY <1>0, <1>00, <2>2, <3>2, <3>3, <3>4, ServerKeeps
<1>4. CASE Spend
  <2>1. Line("usage", Main, Own, Absent) \in Lines
    BY <1>0 DEF Line, Lines, Kinds, Own
  <2>2. spent' = spent + 1 /\ spent' \in 0..MaxSaid
    BY <1>0, <1>4 DEF Spend
  <2>3. LET d == Dispatch(Capture, Line("usage", Main, Own, Absent)) IN
          d.used = IF Capture.turnOf[Main] = Own THEN Capture.used + 1 ELSE Capture.used
    BY <1>0, SpendLine
  <2>4. QED
    BY <1>0, <1>00, <1>4, <2>1, <2>2, <2>3, SpendLine, ServerKeeps DEF Spend, Running
<1>5. CASE StaleLine
  <2>1. PICK kind \in {"turnCompleted", "usage", "answer"} :
          Receive(Line(kind, Main, Older, IF kind = "turnCompleted" THEN "completed"
                                          ELSE IF kind = "answer" THEN 0 ELSE Absent))
    BY <1>5 DEF StaleLine
  <2>2. PICK about : about = IF kind = "turnCompleted" THEN "completed"
                             ELSE IF kind = "answer" THEN 0 ELSE Absent
    OBVIOUS
  <2>3. Line(kind, Main, Older, about) \in Lines
    BY <1>0, <2>2 DEF Line, Lines, Kinds, Older, EndStates
  <2>4. stale' \in 0..MaxStale
    BY <1>0, <1>5 DEF StaleLine
  <2>5. LET d == Dispatch(Capture, Line(kind, Main, Older, about)) IN
        /\ d \in Captures /\ d.known = Capture.known /\ d.turnOf = Capture.turnOf
           /\ d.used = Capture.used
        /\ Capture.turnOf[Main] = Own => d = Capture
    BY <1>0, <2>2, OlderLine
  <2>6. QED
    <3>1. PICK m \in Lines : m = Line(kind, Main, Older, about)
      BY <2>3
    <3>2. Receive(m) /\ UNCHANGED <<mine, subs, calls, said, spent>>
      BY <1>5, <2>1, <2>2, <3>1 DEF StaleLine
    <3>3. PICK d : d = Dispatch(Capture, m)
      OBVIOUS
    <3>4. /\ d \in Captures /\ Main \in d.known /\ d.turnOf[Main] \in {Absent, Own}
             /\ d.used <= spent
          /\ named /\ phase # "over" => d = Capture
      BY <1>0, <2>5, <3>1, <3>3
    <3>5. QED
      BY <1>0, <1>00, <2>4, <3>2, <3>3, <3>4, ServerKeeps
<1>6. ASSUME NEW s \in Subs, Announce(s) PROVE CapInv'
  <2>1. Line("threadStarted", s, Absent, Absent) \in Lines
    BY DEF Line, Lines, Kinds, TurnThreads
  <2>2. subs' \in [Subs -> [known: BOOLEAN, turns: 0..MaxTurns, up: BOOLEAN]]
    BY <1>00, <1>6 DEF Announce
  <2>3. QED
    <3>1. Stands(Capture, Dispatch(Capture, Line("threadStarted", s, Absent, Absent)))
      BY <1>0, ThreadLine
    <3>2. PICK m \in Lines : m = Line("threadStarted", s, Absent, Absent)
      BY <2>1
    <3>3. QED
      <4>1. PICK d : d = Dispatch(Capture, m)
        OBVIOUS
      <4>2. Stands(Capture, d)
        BY <3>1, <3>2, <4>1
      <4>3. Receive(m) /\ UNCHANGED <<mine, calls, said, spent, stale>>
        BY <1>6, <3>2 DEF Announce
      <4>4. QED
        BY <1>0, <1>00, <2>2, <4>1, <4>2, <4>3, ServerKeeps DEF Stands
<1>7. ASSUME NEW s \in Subs, CallStarts(s) \/ CallEnds(s) PROVE CapInv'
  <2>1. \A kind \in {"callStarted", "callEnded"} : Line(kind, Main, Own, s) \in Lines
    BY <1>0 DEF Line, Lines, Kinds, Own
  <2>2. PICK kind \in {"callStarted", "callEnded"} :
          Receive(Line(kind, Main, Own, s)) /\ UNCHANGED <<mine, subs, said, spent, stale>>
    BY <1>7 DEF CallStarts, CallEnds
  <2>3. calls' \in [Subs -> {"none", "open", "done"}]
    BY <1>00, <1>7 DEF CallStarts, CallEnds
  <2>4. QED
    <3>1. Stands(Capture, Dispatch(Capture, Line(kind, Main, Own, s)))
      BY <1>0, CallLine
    <3>2. PICK m \in Lines : m = Line(kind, Main, Own, s)
      BY <2>1
    <3>3. QED
      BY <1>0, <1>00, <2>2, <2>3, <3>1, <3>2, ServerKeeps DEF Stands
<1>8. ASSUME NEW s \in Subs, SubStarts(s) \/ SubSays(s) \/ SubEnds(s) PROVE CapInv'
  <2>1. PICK kind \in {"turnStarted", "turnCompleted", "message", "answer"},
             turn \in 0..(Own + MaxTurns),
             about \in EndStates \cup {Absent} :
          /\ kind = "turnCompleted" => about \in EndStates
          /\ Receive(Line(kind, s, turn, about)) /\ UNCHANGED <<mine, calls, said, spent, stale>>
    <3>0. subs[s].turns \in 0..MaxTurns
      BY <1>00
    <3>1. CASE SubStarts(s)
      <4>1. subs[s].turns + 1 \in 0..(Own + MaxTurns)
        BY <3>0 DEF Own
      <4>2. QED
        BY <3>1, <4>1 DEF SubStarts
    <3>2. CASE SubSays(s)
      <4>1. subs[s].turns \in 0..(Own + MaxTurns)
        BY <3>0 DEF Own
      <4>2. QED
        BY <3>2, <4>1 DEF SubSays, serverVars
    <3>3. CASE SubEnds(s)
      <4>1. subs[s].turns \in 0..(Own + MaxTurns)
        BY <3>0 DEF Own
      <4>2. QED
        BY <3>3, <4>1 DEF SubEnds
    <3>4. QED
      BY <1>8, <3>1, <3>2, <3>3
  <2>2. Line(kind, s, turn, about) \in Lines
    BY DEF Line, Lines, Kinds, TurnThreads, Own
  <2>3. subs' \in [Subs -> [known: BOOLEAN, turns: 0..MaxTurns, up: BOOLEAN]]
    <3>1. CASE SubStarts(s)
      <4>1. subs[s].turns + 1 \in 0..MaxTurns
        BY <1>00, <3>1 DEF SubStarts
      <4>2. QED
        BY <1>00, <3>1, <4>1 DEF SubStarts
    <3>2. CASE SubSays(s) \/ SubEnds(s)
      <4>1. CASE SubSays(s)
        BY <1>00, <4>1 DEF SubSays, serverVars
      <4>2. CASE SubEnds(s)
        BY <1>00, <4>2 DEF SubEnds
      <4>3. QED
        BY <3>2, <4>1, <4>2
    <3>3. QED
      BY <1>8, <3>1, <3>2
  <2>4. Stands(Capture, Dispatch(Capture, Line(kind, s, turn, about)))
    BY <1>0, <2>1, SubLine
  <2>5. QED
    BY <1>0, <1>00, <2>1, <2>2, <2>3, <2>4, ServerKeeps DEF Stands
<1>9. QED
  BY <1>1, <1>2, <1>3, <1>4, <1>5, <1>6, <1>7, <1>8 DEF Server

\* Outside the lines, the capture changes only where captureTurn goes on.
LEMMA ClientKeeps ==
    ASSUME CapInv, UNCHANGED <<buffer, cap, named, serverVars>>,
           phase' \in {"starting", "answered", "capturing", "over"}, Early' => Early,
           phase' = "capturing" => phase = "capturing",
           gone' \in BOOLEAN, reply' \in EndStates \cup {"inProgress", Absent}, reply' \in EndStates
               => reply' = mine,
           result' \in Results \cup {Absent}, result' # Absent <=> phase' = "over",
           result' \in EndStates => result' = result
               \/ (phase = "capturing" /\ result' = cap.outcome)
    PROVE  CapInv'
<1>1. Capture' = IF Early' THEN Capture ELSE cap
  <2>1. Begun' = Begun
    BY DEF Begun, NewCapture
  <2>2. FoldLeft(Dispatch, Begun, buffer)' = FoldLeft(Dispatch, Begun, buffer)
    BY <2>1
  <2>3. QED
    BY <2>2 DEF Capture
<1>2. CapTypes'
  BY <1>1 DEF CapInv, CapTypes, Early, NewCapture, serverVars
<1>3. OwnTaken'
  <2>1. (Early => cap = NewCapture) /\ (~Early => Capture = cap)
        /\ (phase # "over" /\ Early' => Early)
    BY DEF CapInv, CapTypes, Early, Capture
  <2>2. /\ Main \in cap.known /\ cap.used <= spent /\ (named => <<Main, Older>> \notin cap.took)
    BY DEF CapInv, CapTypes, OwnTaken
  <2>3. cap.turnOf[Main] \in {Absent, Own}
    <3>1. NewCapture.turnOf[Main] = Absent
      BY DEF NewCapture, TurnThreads
    <3>2. QED
      BY <2>1, <3>1 DEF CapInv, OwnTaken
  <2>4. ~Early' /\ phase' # "over" => phase = "capturing"
    BY DEF Early
  <2>5. phase = "capturing" => ~Early /\ phase # "over"
    BY DEF Early
  <2>6. Early' => phase # "over"
    BY DEF Early
  <2>7. QED
    BY <1>1, <2>1, <2>2, <2>3, <2>4, <2>5, <2>6 DEF CapInv, OwnTaken, serverVars
<1>4. AllTaken' /\ ReplyIsTrue' /\ EndIsWhole'
  BY <1>1, ThreadsAssumption DEF CapInv, CapTypes, AllTaken, ReplyIsTrue, EndIsWhole, Early,
      Capture, Captures, serverVars
<1>5. QED
  BY <1>2, <1>3, <1>4 DEF CapInv

LEMMA ContinueStep == ASSUME CapInv, Continue PROVE CapInv'
<1> USE ThreadsAssumption, BoundsAssumption
<1>1. CASE gone /\ Over("closed") /\ UNCHANGED <<cap, buffer>>
  BY <1>1, ClientKeeps DEF Continue, Over, Early, CapInv, CapTypes, ReplyIsTrue, Results, EndStates
<1>2. CASE phase' = "capturing" /\ buffer' = <<>>
  <2>1. /\ cap' = IF reply \in EndStates THEN CompleteTurn(Arm(Capture), reply) ELSE Arm(Capture)
        /\ phase = "answered" /\ result' = result /\ UNCHANGED <<reply, gone, named, serverVars>>
    BY <1>2 DEF Continue, Capture, Begun, Early, Replayed, Over, CapInv, CapTypes, Emptied
  <2>2. Capture \in Captures /\ Arm(Capture) \in Captures /\ Agree(Capture, Arm(Capture))
    BY ArmAgrees DEF CapInv, CapTypes
  <2>3. PICK a : a = Arm(Capture)
    OBVIOUS
  <2>4. /\ cap' \in Captures /\ cap'.known = Capture.known /\ cap'.turnOf = Capture.turnOf
        /\ cap'.last = Capture.last /\ cap'.used = Capture.used /\ cap'.took = Capture.took
        /\ cap'.outcome = IF reply \in EndStates /\ Capture.outcome = Absent THEN reply
           ELSE Capture.outcome
    <3>1. CASE reply \in EndStates
      <4>1. cap' \in Captures /\ Agree([a EXCEPT !.outcome = IF @ = Absent THEN reply ELSE @], cap')
        BY <2>1, <2>2, <2>3, <3>1, CompleteDoes
      <4>2. QED
        BY <2>2, <2>3, <3>1, <4>1 DEF Agree, Captures
    <3>2. CASE reply \notin EndStates
      BY <2>1, <2>2, <3>2 DEF Agree
    <3>3. QED
      BY <3>1, <3>2
  <2>5. Capture' = cap' /\ ~Early'
    BY <1>2 DEF Capture, Early
  <2>6. CapTypes'
    BY <1>2, <2>1, <2>4, <2>5 DEF CapInv, CapTypes, OwnTaken, serverVars, Early
  <2>7. OwnTaken'
    BY <1>2, <2>1, <2>4, <2>5 DEF CapInv, OwnTaken, serverVars
  <2>8. AllTaken' /\ ReplyIsTrue' /\ EndIsWhole'
    BY <1>2, <2>1, <2>4, <2>5 DEF CapInv, CapTypes, AllTaken, ReplyIsTrue, EndIsWhole, serverVars,
        EndStates
  <2>9. QED
    BY <2>6, <2>7, <2>8 DEF CapInv
<1>3. QED
  BY <1>1, <1>2 DEF Continue, Emptied

LEMMA CapNextInv == ASSUME CapInv, [CapNext]_capVars PROVE CapInv'
<1> USE ThreadsAssumption
<1>1. CASE Server
  BY <1>1, ServerStep
<1>2. CASE Continue
  BY <1>2, ContinueStep
<1>3. CASE ResponseComes
  <2>1. /\ UNCHANGED <<buffer, cap, named, serverVars>> /\ phase' = "answered" /\ Early /\ Early'
        /\ phase' # "capturing" /\ result' = result /\ gone' = gone /\ phase # "over"
    BY <1>3 DEF ResponseComes, Early
  <2>2. reply' \in EndStates \cup {"inProgress"} /\ (reply' \in EndStates => reply' = mine)
    BY <1>3 DEF ResponseComes, EndStates
  <2>3. result = Absent
    BY <2>1 DEF CapInv, CapTypes
  <2>4. QED
    BY <2>1, <2>2, <2>3, ClientKeeps DEF CapInv, CapTypes
<1>4. CASE Refuse \/ RequestTimesOut
  BY <1>4, ClientKeeps DEF Refuse, RequestTimesOut, Over, Early, CapInv, CapTypes, ReplyIsTrue,
      Results, EndStates
<1>5. CASE HandleExit
  BY <1>5, ClientKeeps DEF HandleExit, Over, Early, CapInv, CapTypes, ReplyIsTrue, Results,
      EndStates
<1>6. CASE Finish
  BY <1>6, ClientKeeps DEF Finish, Over, Early, CapInv, CapTypes, Captures, ReplyIsTrue, Results,
      EndStates
<1>7. CASE GoesInactive
  BY <1>7, ClientKeeps DEF GoesInactive, Over, Early, CapInv, CapTypes, ReplyIsTrue, Results,
      EndStates
<1>8. CASE InferCompletion
  <2>1. PICK c : c = [cap EXCEPT !.timer = FALSE]
    OBVIOUS
  <2>2. c \in Captures /\ Agree(cap, c)
    BY <2>1 DEF CapInv, CapTypes, Captures, Agree
  <2>3. /\ cap' = c /\ phase = "capturing" /\ Capture = cap /\ Capture' = c /\ ~Early'
        /\ UNCHANGED <<reply, buffer, gone, named, serverVars>>
        /\ \/ phase' = "over" /\ result' = "inferred"
           \/ phase' = phase /\ result' = result
    BY <1>8, <2>1 DEF InferCompletion, Over, Capture, Early
  <2>4. CapTypes'
    BY <2>2, <2>3 DEF CapInv, CapTypes, Agree, serverVars, Results, EndStates
  <2>5. OwnTaken'
    BY <2>2, <2>3 DEF CapInv, OwnTaken, Agree, serverVars
  <2>6. AllTaken' /\ ReplyIsTrue' /\ EndIsWhole'
    BY <2>2, <2>3 DEF CapInv, CapTypes, AllTaken, ReplyIsTrue, EndIsWhole, Agree, serverVars,
        EndStates
  <2>7. QED
    BY <2>4, <2>5, <2>6 DEF CapInv
<1>9. CASE UNCHANGED capVars
  BY <1>9, ClientKeeps DEF capVars, clientVars, Early, CapInv, CapTypes, ReplyIsTrue
<1>10. QED
  BY <1>1, <1>2, <1>3, <1>4, <1>5, <1>6, <1>7, <1>8, <1>9 DEF CapNext

(* The records of the capture are well typed, the replayed ones included. *)
THEOREM CaptureIsInductive == CapSpec => []CapInv
BY CapInitInv, CapNextInv, PTL DEF CapSpec

\* The capture, its buffer and the app-server's side keep their types.
THEOREM CapTypeCorrect == CapSpec => []CapTypeOK
<1>1. CapInv => CapTypeOK
  BY DEF CapInv, CapTypes, Captures, CapTypeOK
<1> QED
  BY <1>1, CaptureIsInductive, PTL

\* Whatever lines of an older turn come, before the response or after it, none
\* ends the named turn's capture nor adds to it (turn-capture.ts:507-541).
THEOREM OwnTurnOnlyHolds == CapSpec => []OwnTurnOnly
<1>1. CapInv => OwnTurnOnly
  BY DEF CapInv, OwnTaken, EndIsWhole, OwnTurnOnly
<1>2. QED
  BY <1>1, CaptureIsInductive, PTL

\* What an ended turn said and used is in its result, whichever of its lines
\* were buffered and replayed (turn-capture.ts:736-790).
THEOREM NothingLostHolds == CapSpec => []NothingLost
<1>1. CapInv => NothingLost
  BY DEF CapInv, EndIsWhole, NothingLost
<1>2. QED
  BY <1>1, CaptureIsInductive, PTL
=============================================================================
