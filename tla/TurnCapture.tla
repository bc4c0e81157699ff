---------------------------- MODULE TurnCapture ----------------------------
(***************************************************************************)
(* The capture of one Codex turn (runtime/turn-capture.ts) on an           *)
(* app-server connection (transport/app-server-client.ts): the start       *)
(* request, the notifications that come before and after its response, the *)
(* subagents' turns, the inferred completion, the inactivity timeout and   *)
(* the end of the connection.                                              *)
(*                                                                         *)
(* A line the app-server sends and the client's handling of it are one     *)
(* step: while a turn runs the client tells the app-server nothing, so a   *)
(* delay on the way looks like a later line.  What a line's handler only   *)
(* queued (the continuation of an await) is a step of its own that other   *)
(* lines may come before.  The app-server's side is external.              *)
(***************************************************************************)
EXTENDS Integers, SequencesExt

CONSTANTS
    Main,      \* the thread of the captured turn
    Subs,      \* the threads of its subagents
    Absent,    \* no turn, no status, no result
    MaxTurns,  \* bound: turns of a subagent
    MaxSaid,   \* bound: messages, and usage samples, of the main turn
    MaxStale,  \* bound: lines of an older turn that still runs on Main
    MaxEarly   \* bound: lines before the response is processed

TurnThreads == {Main} \cup Subs
Own     == 1           \* the captured turn
Older   == 0           \* the one before it on Main
EndStates   == {"completed", "failed"}

ASSUME ThreadsAssumption ==
    Main \notin Subs /\ Absent \notin TurnThreads \cup Nat \cup EndStates
        \cup {"inferred", "closed", "refused", "inactive"}
ASSUME BoundsAssumption  == MaxTurns \in Nat /\ MaxSaid \in Nat
                            /\ MaxStale \in Nat /\ MaxEarly \in Nat

VARIABLES
    phase,    \* captureTurn: "starting", "answered" (its response is there),
              \* "capturing" (startProcessed) or "over"
    result,   \* what it returned or threw
    reply,    \* the turn's status in the response
    buffer,   \* bufferedNotifications
    cap,      \* TurnCaptureState
    gone,     \* exitResolved: the connection has ended
    named,    \* the response names the turn
    mine,     \* the app-server: the captured turn
    subs,     \* the app-server: the subagent threads
    calls,    \* the app-server: the collaboration call to each subagent
    said,     \* the app-server: messages, ...
    spent,    \* ... usage samples of the captured turn
    stale     \* the app-server: lines of the older turn

clientVars == <<phase, result, reply, buffer, cap, gone>>
serverVars == <<mine, subs, calls, said, spent, stale>>
capVars    == <<clientVars, named, serverVars>>

Results == EndStates \cup {"inferred", "closed", "refused", "inactive"}

CapTypeOK ==
    /\ phase \in {"starting", "answered", "capturing", "over"}
    /\ result \in Results \cup {Absent} /\ (result # Absent <=> phase = "over")
    /\ reply \in EndStates \cup {"inProgress", Absent}
    /\ phase = "capturing" => buffer = <<>>
    /\ cap.known \subseteq TurnThreads /\ Main \in cap.known
    /\ cap.turnOf \in [TurnThreads -> 0..(Own + MaxTurns) \cup {Absent}]
    /\ cap.calls \subseteq Subs /\ cap.active \subseteq Subs
    /\ cap.outcome \in EndStates \cup {Absent}
    /\ cap.last \in 0..MaxSaid /\ cap.used \in Nat
    /\ {cap.answered, cap.timer, cap.idle, gone, named} \subseteq BOOLEAN
    /\ mine \in EndStates \cup {"idle", "running"}
    /\ subs \in [Subs -> [known: BOOLEAN, turns: 0..MaxTurns, up: BOOLEAN]]
    /\ calls \in [Subs -> {"none", "open", "done"}]
    /\ said \in 0..MaxSaid /\ spent \in 0..MaxSaid /\ stale \in 0..MaxStale

\* createTurnCaptureState; `took` is history: whose lines were applied.
NewCapture ==
    [known |-> {Main}, turnOf |-> [t \in TurnThreads |-> Absent],
     calls |-> {}, active |-> {}, answered |-> FALSE, timer |-> FALSE, idle |-> FALSE,
     last |-> 0, used |-> 0, outcome |-> Absent, took |-> {}]

CapInit ==
    /\ phase = "starting" /\ result = Absent /\ reply = Absent
    /\ buffer = <<>> /\ cap = NewCapture
    /\ gone = FALSE /\ named \in BOOLEAN
    /\ mine = "idle"
    /\ subs = [s \in Subs |-> [known |-> FALSE, turns |-> 0, up |-> FALSE]]
    /\ calls = [s \in Subs |-> "none"]
    /\ said = 0 /\ spent = 0 /\ stale = 0

-----------------------------------------------------------------------------
(* Slips the checked properties must notice: each replaces the definition   *)
(* of the same arity named behind it.                                      *)

KeptBuffer        == buffer                                  \* Emptied
ThreadOnly(c, m)  == m.thread \in c.known                    \* Belongs
CallsOnly(c)      == c.calls = {}                            \* Drained
NotReplayed(c)    == c                                       \* Replayed
NeverArmed(c)     == c                                       \* Arm
NotScheduled(c)   == c                                       \* Schedule

-----------------------------------------------------------------------------
(* What a notification does to the capture.  A line is a record: its kind,  *)
(* its thread and turn, and what it is about (a subagent, a number, a      *)
(* status).                                                                *)

Line(kind, thread, turn, about) ==
    [kind |-> kind, thread |-> thread, turn |-> turn, about |-> about]

Drained(c) == c.calls = {} /\ c.active = {}

\* scheduleInferredCompletion: the debounce starts over.
Schedule(c) ==
    IF c.outcome = Absent /\ c.answered /\ Drained(c) THEN [c EXCEPT !.timer = TRUE] ELSE c

CompleteTurn(c, status) ==
    IF c.outcome = Absent THEN [c EXCEPT !.outcome = status, !.timer = FALSE] ELSE c

\* armInactivityTimer: restarted, or only cleared when the turn is over.
Arm(c) == [c EXCEPT !.idle = c.outcome = Absent]

TurnStarted(c, m) ==
    [c EXCEPT !.known = @ \cup {m.thread}, !.turnOf[m.thread] = m.turn,
              !.active = IF m.thread = Main THEN @ ELSE @ \cup {m.thread}]

TurnCompleted(c, m) ==
    IF m.thread = Main THEN CompleteTurn(c, m.about)
    ELSE Schedule([c EXCEPT !.active = @ \ {m.thread}])

\* A collaboration call of the main thread; its receivers are registered.
CallStarted(c, m) == [c EXCEPT !.calls = @ \cup {m.about}, !.known = @ \cup {m.about}]
CallEnded(c, m)   == [Schedule([c EXCEPT !.calls = @ \ {m.about}])
                        EXCEPT !.known = @ \cup {m.about}]

\* An agent message counts on the main thread, where one may be the final
\* answer.
Message(c, m)  == IF m.thread = Main THEN [c EXCEPT !.last = m.about] ELSE c
Answer(c, m)   == IF m.thread = Main
                  THEN Schedule([c EXCEPT !.last = m.about, !.answered = TRUE]) ELSE c

\* recordTokenUsage: only of a turn that is known to be the thread's.
Usage(c, m) == IF c.turnOf[m.thread] = m.turn THEN [c EXCEPT !.used = @ + 1] ELSE c

\* applyTurnNotification
Apply(c, m) ==
    CASE m.kind = "turnStarted"   -> TurnStarted(c, m)
      [] m.kind = "turnCompleted" -> TurnCompleted(c, m)
      [] m.kind = "callStarted"   -> CallStarted(c, m)
      [] m.kind = "callEnded"     -> CallEnded(c, m)
      [] m.kind = "message"       -> Message(c, m)
      [] m.kind = "answer"        -> Answer(c, m)
      [] m.kind = "usage"         -> Usage(c, m)

Belongs(c, m) == m.thread \in c.known /\ c.turnOf[m.thread] \in {Absent, m.turn}

\* dispatchNotification: a thread/started is registered whoever's it is; a
\* line that does not belong goes to the previous handler.
Dispatch(c, m) ==
    IF m.kind = "threadStarted" THEN Arm([c EXCEPT !.known = @ \cup {m.thread}])
    ELSE IF Belongs(c, m)
         THEN Arm(Apply([c EXCEPT !.took = @ \cup {<<m.thread, m.turn>>}], m))
         ELSE c

\* The handler buffers until the response is processed; the `finally` takes
\* it away.
Receive(m) ==
    /\ Len(buffer) < MaxEarly
    /\ buffer' = IF phase \in {"starting", "answered"} THEN Append(buffer, m) ELSE buffer
    /\ cap' = IF phase = "capturing" THEN Dispatch(cap, m) ELSE cap
    /\ UNCHANGED <<phase, result, reply, gone, named>>

-----------------------------------------------------------------------------
(* The app-server (external).  It announces a thread before it runs a turn  *)
(* on it, and reports one thread's work in order.                          *)

Running == mine = "running" /\ ~gone

MainStarts ==
    /\ mine = "idle" /\ ~gone /\ result # "refused" /\ mine' = "running"
    /\ Receive(Line("turnStarted", Main, Own, Absent))
    /\ UNCHANGED <<subs, calls, said, spent, stale>>

MainEnds ==
    /\ Running /\ mine' \in EndStates
    /\ Receive(Line("turnCompleted", Main, Own, mine'))
    /\ UNCHANGED <<subs, calls, said, spent, stale>>

Announce(s) ==
    /\ Running /\ ~subs[s].known
    /\ subs' = [subs EXCEPT ![s].known = TRUE]
    /\ Receive(Line("threadStarted", s, Absent, Absent))
    /\ UNCHANGED <<mine, calls, said, spent, stale>>

CallStarts(s) ==
    /\ Running /\ calls[s] = "none"
    /\ calls' = [calls EXCEPT ![s] = "open"]
    /\ Receive(Line("callStarted", Main, Own, s))
    /\ UNCHANGED <<mine, subs, said, spent, stale>>

CallEnds(s) ==
    /\ Running /\ calls[s] = "open"
    /\ calls' = [calls EXCEPT ![s] = "done"]
    /\ Receive(Line("callEnded", Main, Own, s))
    /\ UNCHANGED <<mine, subs, said, spent, stale>>

SubStarts(s) ==
    /\ Running /\ subs[s].known /\ ~subs[s].up /\ subs[s].turns < MaxTurns
    /\ subs' = [subs EXCEPT ![s].up = TRUE, ![s].turns = @ + 1]
    /\ Receive(Line("turnStarted", s, subs[s].turns + 1, Absent))
    /\ UNCHANGED <<mine, calls, said, spent, stale>>

SubSays(s) ==
    /\ subs[s].up /\ ~gone
    /\ \E kind \in {"message", "answer"} : Receive(Line(kind, s, subs[s].turns, Absent))
    /\ UNCHANGED serverVars

SubEnds(s) ==
    /\ subs[s].up /\ ~gone
    /\ subs' = [subs EXCEPT ![s].up = FALSE]
    /\ \E status \in EndStates : Receive(Line("turnCompleted", s, subs[s].turns, status))
    /\ UNCHANGED <<mine, calls, said, spent, stale>>

Say ==
    /\ Running /\ said < MaxSaid /\ said' = said + 1
    /\ \E kind \in {"message", "answer"} : Receive(Line(kind, Main, Own, said'))
    /\ UNCHANGED <<mine, subs, calls, spent, stale>>

Spend ==
    /\ Running /\ spent < MaxSaid /\ spent' = spent + 1
    /\ Receive(Line("usage", Main, Own, Absent))
    /\ UNCHANGED <<mine, subs, calls, said, stale>>

\* The turn an earlier run left on the thread is still there.
StaleLine ==
    /\ stale < MaxStale /\ ~gone /\ stale' = stale + 1
    /\ \E kind \in {"turnCompleted", "usage", "answer"} :
         Receive(Line(kind, Main, Older, IF kind = "turnCompleted" THEN "completed"
                                         ELSE IF kind = "answer" THEN 0 ELSE Absent))
    /\ UNCHANGED <<mine, subs, calls, said, spent>>

-----------------------------------------------------------------------------
(* The connection: the start request and its end.                          *)

Over(how) == phase' = "over" /\ result' = how

\* The response resolves the request; captureTurn goes on later.
ResponseComes ==
    /\ phase = "starting" /\ ~gone
    /\ phase' = "answered"
    /\ \/ reply' = "inProgress"
       \/ mine \in EndStates /\ reply' = mine
    /\ UNCHANGED <<result, buffer, cap, gone, named, serverVars>>

\* An error response, or the request's timeout.
Refuse ==
    /\ phase = "starting" /\ mine = "idle" /\ Over("refused")
    /\ UNCHANGED <<reply, buffer, cap, gone, named, serverVars>>

RequestTimesOut ==
    /\ phase = "starting" /\ Over("refused")
    /\ UNCHANGED <<reply, buffer, cap, gone, named, serverVars>>

\* handleExit: the process or the socket is gone, or a line is no JSON; a
\* pending request is rejected with it.
HandleExit ==
    /\ ~gone /\ gone' = TRUE
    /\ \/ phase = "starting" /\ Over("closed")
       \/ phase # "starting" /\ UNCHANGED <<phase, result>>
    /\ UNCHANGED <<reply, buffer, cap, named, serverVars>>

-----------------------------------------------------------------------------
(* captureTurn.                                                            *)

Replayed(c) == FoldLeft(Dispatch, c, buffer)
Emptied     == <<>>

\* The response is processed: the turn's id, the buffered lines, the
\* inactivity timer, and a turn that has ended already.  When the connection
\* ended meanwhile either of the two may be seen first.
Continue ==
    /\ phase = "answered"
    /\ \/ /\ phase' = "capturing"
          /\ LET start == [cap EXCEPT !.turnOf[Main] = IF named THEN Own ELSE Absent]
                 armed == Arm(Replayed(start))
             IN cap' = IF reply \in EndStates THEN CompleteTurn(armed, reply) ELSE armed
          /\ buffer' = Emptied
          /\ UNCHANGED result
       \/ gone /\ Over("closed") /\ UNCHANGED <<cap, buffer>>
    /\ UNCHANGED <<reply, gone, named, serverVars>>

\* The race has the completion in front: the end of the connection counts only
\* when there is none.
Finish ==
    /\ phase = "capturing"
    /\ \/ cap.outcome # Absent /\ Over(cap.outcome)
       \/ cap.outcome = Absent /\ gone /\ Over("closed")
    /\ UNCHANGED <<reply, buffer, cap, gone, named, serverVars>>

Settled == cap.outcome # Absent \/ gone

\* The debounce is over; the turn has ended unless there is work again.
InferCompletion ==
    /\ phase = "capturing" /\ cap.timer /\ ~Settled
    /\ cap' = [cap EXCEPT !.timer = FALSE]
    /\ \/ Drained(cap) /\ Over("inferred")
       \/ ~Drained(cap) /\ UNCHANGED <<phase, result>>
    /\ UNCHANGED <<reply, buffer, gone, named, serverVars>>

\* The inactivity timeout (30 minutes) never overtakes the debounce (250 ms).
GoesInactive ==
    /\ phase = "capturing" /\ cap.idle /\ ~cap.timer /\ ~Settled
    /\ Over("inactive")
    /\ UNCHANGED <<reply, buffer, cap, gone, named, serverVars>>

Server ==
    \/ MainStarts \/ MainEnds \/ Say \/ Spend \/ StaleLine
    \/ \E s \in Subs : Announce(s) \/ CallStarts(s) \/ CallEnds(s)
                       \/ SubStarts(s) \/ SubSays(s) \/ SubEnds(s)

CapNext ==
    \/ Server
    \/ ResponseComes \/ Refuse \/ RequestTimesOut \/ HandleExit
    \/ Continue \/ Finish \/ InferCompletion \/ GoesInactive

CapSpec == CapInit /\ [][CapNext]_capVars

\* The client's own continuations and timers run; the app-server owes nothing.
CapFairness ==
    /\ WF_capVars(RequestTimesOut) /\ WF_capVars(Continue) /\ WF_capVars(Finish)
    /\ WF_capVars(InferCompletion) /\ WF_capVars(GoesInactive)

FairCapSpec == CapSpec /\ CapFairness

-----------------------------------------------------------------------------
(* Properties.                                                             *)

\* An older turn on the same thread never ends the capture nor adds to it,
\* whenever its lines come, once the response has named the turn; its usage
\* is never counted.
OwnTurnOnly ==
    /\ cap.used <= spent
    /\ named => /\ <<Main, Older>> \notin cap.took
                /\ result \in EndStates => mine = result

\* A turn that ended is captured whole: its last message and its usage are
\* there, whether they came before the response (buffered, replayed in order) or
\* after it.
NothingLost ==
    named /\ result \in EndStates => cap.last = said /\ cap.used = spent

\* "Turn completion inferred after the main thread finished and subagent work
\* drained" (completeTurn): nothing runs any more when it is inferred.
InferredWhenDrained ==
    [][result' = "inferred" /\ result # "inferred"
         => \A s \in Subs : ~subs[s].up /\ calls[s] # "open"]_capVars

\* The part of it that holds: no call of the turn is open and no subagent is in
\* its first turn when the end of the turn is inferred, and the answer it is
\* inferred from is the turn's own if the response named the turn.
FirstTurnsDrained ==
    [][result' = "inferred" /\ result # "inferred"
         => /\ named => said > 0
            /\ \A s \in Subs : (subs[s].up => subs[s].turns > 1) /\ calls[s] # "open"]_capVars

\* A capture ends, whatever the app-server stops doing.
CaptureEnds == <>(phase = "over")

\* A final answer is not thrown away when the app-server never reports the end
\* of the turn: once no call or subagent is left the capture returns it, rather
\* than wait for the inactivity timeout, which fails the job.
AnswerIsKept ==
    phase = "capturing" /\ cap.answered /\ Drained(cap)
        ~> ~Drained(cap) \/ gone \/ result \in EndStates \cup {"inferred"}
=============================================================================
