---------------------------- MODULE BrokerServer ----------------------------
(***************************************************************************)
(* The shared broker (broker/server.ts): one process per workspace that    *)
(* gives every client of the workspace one app-server.  Each client is a   *)
(* socket; at most one of them may have a turn (turn/start, review/start,  *)
(* thread/compact/start) under way, and the app-server's notifications go  *)
(* to the client they belong to.  The broker runs on one event loop: an    *)
(* action is what runs between two awaits (a line up to its app-server     *)
(* request, the continuation of that request, a notification, an event of  *)
(* a socket, a timer).                                                     *)
(*                                                                         *)
(* A client sends each kind of line in its script at most once, so a       *)
(* client has one turn, and its socket stands for the request record.      *)
(* A turn runs on the thread its request names; a review runs on a thread  *)
(* of its own that only the response names.                                *)
(***************************************************************************)
EXTENDS Integers, FiniteSets

CONSTANTS
    Clients,     \* the sockets
    Reviews,     \* the clients whose turn is a review/start
    Script,      \* [Clients -> SUBSET Kinds]: the lines each client sends
    None,        \* no socket, line, request, record or ownership
    MaxFloods    \* bound: clients found with MAX_CLIENT_BUFFER_BYTES unread

Kinds == {"turn", "rpc", "cut", "stop"}

\* The thread a client's request names, the one its turn runs on, and the
\* ones that route to it once the response is there.
ParamsThread(c)  == <<c, "main">>
TurnThread(c)    == IF c \in Reviews THEN <<c, "review">> ELSE <<c, "main">>
StreamThreads(c) == {ParamsThread(c), TurnThread(c)}
Threads          == Clients \X {"main", "review"}

\* What the broker keeps of a request in flight, of a stream and of a turn
\* whose client is gone.
Requests      == [sock : Clients, disc : BOOLEAN, seen : SUBSET Threads]
StreamRecords == [sock : Clients, threads : SUBSET Threads, expected : SUBSET Threads]
Orphans       == [threads : SUBSET Threads, expected : SUBSET Threads, old : BOOLEAN]

ASSUME ScriptAssumption == Script \in [Clients -> SUBSET Kinds] /\ Reviews \subseteq Clients
ASSUME NoneAssumption   == None \notin Clients \cup Kinds \cup Requests \cup StreamRecords \cup Orphans
ASSUME FloodsAssumption == MaxFloods \in Nat

VARIABLES
    conn,       \* each socket: "destroyed" until its close handler has run
    todo,       \* the lines each client may still send
    line,       \* lineQueue: the line that arrived during a request
    req,        \* the app-server request each client's line waits for
    activeReq,  \* activeRequestSocket
    inFlight,   \* inFlightStream: its socket, disconnected, observedCompletions
    pending,    \* pendingStreamCompletions
    stream,     \* activeStream: its socket, routing and expected threads
    orphan,     \* orphanedTurn: routing and expected threads, its grace over
    running,    \* runningTurns: the threads whose turn id the broker knows
    spoke,      \* activeClientSockets
    up,         \* "up", "closing" once shuttingDown, "down" once it exited
    turn,       \* the app-server: what became of each client's turn
    asked,      \* the app-server: threads the broker asked it to interrupt
    floods,     \* clients dropped for not reading
    told,       \* history: <<client, thread>> of each completion that was sent
    loose,      \* history: threads whose turn the broker gave up waiting for
    reason      \* history: what closed the broker

clientVars == <<conn, todo, line, req>>
ownerVars  == <<activeReq, inFlight, pending, stream, orphan>>
appVars    == <<turn, asked, running>>
downVars   == <<up, reason>>
history    == <<told, loose>>
vars       == <<clientVars, ownerVars, appVars, downVars, history, spoke, floods>>

Destroyed(c) == conn[c] \in {"destroyed", "closed"}

Underway(c) == turn[c] \in {"begun", "started"}

TypeOK ==
    /\ conn \in [Clients -> {"open", "destroyed", "closed"}]
    /\ todo \in [Clients -> SUBSET Kinds]
    /\ line \in [Clients -> Kinds \cup {None}]
    /\ req \in [Clients -> {"turn", "rpc", "cut", None}]
    /\ activeReq \in Clients \cup {None}
    /\ inFlight \in Requests \cup {None}
    /\ pending \in SUBSET Threads
    /\ stream \in StreamRecords \cup {None} /\ orphan \in Orphans \cup {None}
    /\ running \in SUBSET Threads
    /\ spoke \in SUBSET Clients
    /\ up \in {"up", "closing", "down"}
    /\ turn \in [Clients -> {"none", "begun", "started", "done", "failed"}]
    /\ asked \in SUBSET Threads
    /\ floods \in 0..MaxFloods
    /\ told \in SUBSET (Clients \X Threads)
    /\ loose \in SUBSET Threads
    /\ reason \in {None, "idle", "unused", "stopped"}
    /\ inFlight = None \/ stream = None

Init ==
    /\ conn = [c \in Clients |-> "open"]
    /\ todo = Script
    /\ line = [c \in Clients |-> None]
    /\ req = [c \in Clients |-> None]
    /\ activeReq = None /\ inFlight = None /\ pending = {}
    /\ stream = None /\ orphan = None
    /\ running = {} /\ spoke = {}
    /\ up = "up" /\ reason = None
    /\ turn = [c \in Clients |-> "none"] /\ asked = {}
    /\ floods = 0 /\ told = {} /\ loose = {}

-----------------------------------------------------------------------------
(* Slips the checked properties must notice: each replaces the definition   *)
(* of the same arity named behind it.                                      *)

AnyRecord(c)       == inFlight # None                     \* StillOwn
NoOrphanGate       == inFlight = None /\ stream = None    \* GateOpen
StillConnected(c)  == FALSE                               \* GoneAlready
NothingObserved(t) == FALSE                               \* Observed
NoLateInterrupt(t) == FALSE                               \* LateInterrupt
OwnershipOnly(c)   == FALSE                               \* OtherClientActive
NotDiscarded       == inFlight                            \* Discarded

-----------------------------------------------------------------------------
(* What the handlers share.                                                *)

StillOwn(c) == inFlight # None /\ inFlight.sock = c
Streams(c)  == stream # None /\ stream.sock = c

\* The client that holds the broker; a stream request whose client is gone
\* holds back only streaming work.
Occupied ==
    CASE inFlight # None /\ ~inFlight.disc -> inFlight.sock
      [] (inFlight = None \/ inFlight.disc) /\ activeReq # None -> activeReq
      [] OTHER -> IF stream # None THEN stream.sock ELSE None

\* turn/interrupt passes while another client's stream is all there is.
AllowsCut(c, k) ==
    /\ k = "cut" /\ stream # None /\ stream.sock # c
    /\ activeReq = None /\ inFlight = None

Refused(c, k) ==
    \/ up = "closing"
    \/ Occupied \notin {None, c} /\ ~AllowsCut(c, k)

Expired  == orphan # None /\ orphan.old
GateOpen == inFlight = None /\ stream = None /\ (orphan # None => orphan.old)

Discarded       == None
GoneAlready(c)  == Destroyed(c)
Observed(t)     == t \in pending \/ t \in inFlight.seen
LateInterrupt(t) == orphan # None /\ t \in orphan.threads
OtherClientActive(c) == \E d \in spoke \ {c} : ~Destroyed(d)

\* armOrphanedTurn: the turn is remembered, and interrupted if its id is known.
Arm(threads, expected) ==
    /\ orphan' = [threads |-> threads, expected |-> expected, old |-> FALSE]
    /\ asked' = asked \cup (threads \cap running)

\* handleLine, up to the first decision on the kind of the line: one that
\* arrives, or the one that waited (its client may be gone by now).
Take(c, k) ==
    /\ up # "down" /\ req[c] = None
    /\ \/ line[c] = k /\ line' = [line EXCEPT ![c] = None] /\ UNCHANGED todo
       \/ /\ line[c] = None /\ conn[c] = "open" /\ k \in todo[c]
          /\ todo' = [todo EXCEPT ![c] = @ \ {k}] /\ UNCHANGED line
    /\ spoke' = IF k = "stop" THEN spoke ELSE spoke \cup {c}

\* shutdown: what the broker held is forgotten; pending is cleared with the
\* stream request it belongs to.
ShutDown(why) ==
    /\ up = "up" /\ up' = "closing" /\ reason' = why
    /\ inFlight' = None /\ stream' = None /\ orphan' = None
    /\ pending' = IF inFlight = None THEN pending ELSE {}
    /\ loose' = loose \cup {TurnThread(c) : c \in {d \in Clients : Underway(d)}}

-----------------------------------------------------------------------------
(* Clients and their sockets.                                              *)

\* A line that arrives while one is being handled waits for it; any other is
\* handled at once (Take).
QueueLine(c) ==
    /\ up # "down" /\ conn[c] = "open" /\ req[c] # None /\ line[c] = None
    /\ \E k \in todo[c] :
         /\ line' = [line EXCEPT ![c] = k]
         /\ todo' = [todo EXCEPT ![c] = @ \ {k}]
    /\ UNCHANGED <<conn, req, ownerVars, appVars, downVars, history, spoke, floods>>

Disconnect(c) ==
    /\ up # "down" /\ conn[c] = "open"
    /\ conn' = [conn EXCEPT ![c] = "destroyed"]
    /\ UNCHANGED <<todo, line, req, ownerVars, appVars, downVars, history, spoke, floods>>

\* The close handler: clearSocketOwnership.
Close(c) ==
    /\ up # "down" /\ conn[c] = "destroyed"
    /\ conn' = [conn EXCEPT ![c] = "closed"]
    /\ spoke' = spoke \ {c}
    /\ activeReq' = IF activeReq = c THEN None ELSE activeReq
    /\ inFlight' = IF StillOwn(c) THEN [inFlight EXCEPT !.disc = TRUE] ELSE inFlight
    /\ \/ /\ Streams(c)
          /\ stream' = None
          /\ Arm(stream.threads, stream.expected)
       \/ /\ ~Streams(c)
          /\ UNCHANGED <<stream, orphan, asked>>
    /\ UNCHANGED <<todo, line, req, pending, running, turn, downVars, history, floods>>

-----------------------------------------------------------------------------
(* Lines.                                                                  *)

\* A busy answer.  An orphan whose grace is over goes on the way to the
\* streaming gate.  (initialize, answered at once, changes no more than this.)
Refuse(c) ==
    /\ \E k \in {"turn", "rpc", "cut"} :
         /\ Take(c, k)
         /\ \/ Refused(c, k) /\ UNCHANGED <<orphan, loose>>
            \/ /\ ~Refused(c, k) /\ k = "turn" /\ ~GateOpen
               /\ orphan' = IF Expired THEN None ELSE orphan
               /\ loose' = IF Expired THEN loose \cup orphan.threads ELSE loose
    /\ UNCHANGED <<conn, req, activeReq, inFlight, pending, stream,
                   appVars, downVars, told, floods>>

\* A streaming request takes the slot and goes to the app-server.
StartTurn(c) ==
    /\ Take(c, "turn") /\ ~Refused(c, "turn") /\ GateOpen
    /\ orphan' = None
    /\ loose' = IF Expired THEN loose \cup orphan.threads ELSE loose
    /\ inFlight' = [sock |-> c, disc |-> GoneAlready(c), seen |-> {}]
    /\ pending' = {}
    /\ req' = [req EXCEPT ![c] = "turn"]
    /\ turn' = [turn EXCEPT ![c] = "begun"]
    /\ UNCHANGED <<conn, activeReq, stream, asked, running, downVars, told, floods>>

\* Any other request holds the broker while it lasts; an interrupt of another
\* client's turn does not.
StartRpc(c) ==
    /\ \E k \in {"rpc", "cut"} :
         /\ Take(c, k) /\ ~Refused(c, k)
         /\ req' = [req EXCEPT ![c] = IF AllowsCut(c, k) THEN "cut" ELSE "rpc"]
         /\ \/ AllowsCut(c, k) /\ UNCHANGED <<activeReq, orphan, loose>>
            \/ /\ ~AllowsCut(c, k)
               /\ activeReq' = c
               /\ orphan' = IF Expired THEN None ELSE orphan
               /\ loose' = IF Expired THEN loose \cup orphan.threads ELSE loose
    /\ UNCHANGED <<conn, inFlight, pending, stream, appVars, downVars, told, floods>>

\* broker/shutdown with ifIdle: refused while the broker is in use, or while
\* another client that has spoken is connected.
IdleStop(c) ==
    /\ Take(c, "stop")
    /\ \/ /\ \/ OtherClientActive(c) \/ activeReq # None
             \/ inFlight # None \/ stream # None \/ up = "closing"
          /\ UNCHANGED <<inFlight, stream, orphan, pending, up, reason, loose>>
       \/ /\ ~OtherClientActive(c)
          /\ activeReq = None /\ inFlight = None /\ stream = None
          /\ ShutDown("idle")
    /\ UNCHANGED <<conn, req, activeReq, appVars, told, floods>>

-----------------------------------------------------------------------------
(* The app-server's answers: the continuations of handleLine.              *)

\* The request record may have been retired by the watchdog or a shutdown,
\* and the slot may hold a successor: then only the answer is passed on.
TurnReply(c) ==
    /\ up # "down" /\ req[c] = "turn"
    /\ turn[c] \in {"begun", "started", "done"}
    /\ req' = [req EXCEPT ![c] = None]
    /\ \/ ~StillOwn(c) /\ UNCHANGED <<inFlight, pending, stream, orphan, asked>>
       \/ /\ StillOwn(c)
          /\ inFlight' = Discarded /\ pending' = {}
          /\ LET completed == Observed(TurnThread(c))
                 gone      == inFlight.disc \/ Destroyed(c)
             IN /\ stream' = IF gone \/ completed THEN stream
                             ELSE [sock |-> c, threads |-> StreamThreads(c),
                                   expected |-> {TurnThread(c)}]
                /\ IF gone /\ ~completed
                   THEN Arm(StreamThreads(c), {TurnThread(c)})
                   ELSE UNCHANGED <<orphan, asked>>
    /\ UNCHANGED <<conn, todo, line, activeReq, running, turn, downVars, history, spoke, floods>>

\* The app-server refuses the turn.
TurnFails(c) ==
    /\ up # "down" /\ req[c] = "turn" /\ turn[c] = "begun"
    /\ req' = [req EXCEPT ![c] = None]
    /\ turn' = [turn EXCEPT ![c] = "failed"]
    /\ inFlight' = IF StillOwn(c) THEN Discarded ELSE inFlight
    /\ pending' = IF StillOwn(c) THEN {} ELSE pending
    /\ UNCHANGED <<conn, todo, line, activeReq, stream, orphan, asked, running,
                   downVars, history, spoke, floods>>

\* The broker's own turn/start is not answered in time (the request's timer in
\* the app-server client): the broker takes it for a failed one and gives the
\* slot up, with the turn under way.
TurnTimesOut(c) ==
    /\ up # "down" /\ req[c] = "turn"
    /\ turn[c] \in {"begun", "started", "done"}
    /\ req' = [req EXCEPT ![c] = None]
    /\ \/ ~StillOwn(c) /\ UNCHANGED <<inFlight, pending, loose>>
       \/ /\ StillOwn(c)
          /\ inFlight' = Discarded /\ pending' = {}
          /\ loose' = IF Underway(c) THEN loose \cup {TurnThread(c)} ELSE loose
    /\ UNCHANGED <<conn, todo, line, activeReq, stream, orphan, appVars, downVars,
                   told, spoke, floods>>

\* The answer to another request, or its timer; one that fails also drops the
\* ownership of the stream its socket has.
RpcReply(c) ==
    /\ up # "down" /\ req[c] \in {"rpc", "cut"}
    /\ req' = [req EXCEPT ![c] = None]
    /\ activeReq' = IF req[c] = "rpc" /\ activeReq = c THEN None ELSE activeReq
    /\ \/ UNCHANGED <<stream, loose>>
       \/ /\ req[c] = "rpc" /\ Streams(c)
          /\ stream' = None
          /\ loose' = loose \cup stream.threads
    /\ UNCHANGED <<conn, todo, line, inFlight, pending, orphan, appVars, downVars,
                   told, spoke, floods>>

-----------------------------------------------------------------------------
(* Notifications: routeNotification.  (Closing, the broker has closed the   *)
(* app-server and holds no turn.)                                          *)

Target ==
    IF inFlight # None THEN inFlight.sock
    ELSE IF activeReq # None THEN activeReq
    ELSE IF stream # None THEN stream.sock ELSE None

\* The target has stopped reading: it is destroyed instead of written to.
Drop ==
    /\ floods < MaxFloods /\ Target # None
    /\ floods' = floods + 1
    /\ conn' = IF conn[Target] = "open" THEN [conn EXCEPT ![Target] = "destroyed"] ELSE conn

TurnStarted(c) ==
    /\ up = "up" /\ turn[c] = "begun"
    /\ turn' = [turn EXCEPT ![c] = "started"]
    /\ running' = running \cup {TurnThread(c)}
    /\ asked' = IF LateInterrupt(TurnThread(c)) THEN asked \cup {TurnThread(c)} ELSE asked
    /\ Drop \/ UNCHANGED <<floods, conn>>
    /\ UNCHANGED <<todo, line, req, ownerVars, downVars, history, spoke>>

\* The completion of the orphan is for the broker alone; any other one goes to
\* the target and frees the stream it completes, or is kept for the response
\* that has not come yet.
EndsOrphan(t) == orphan # None /\ t \in orphan.expected

Deliver(t) ==
    /\ told' = IF Target = None \/ Destroyed(Target) THEN told ELSE told \cup {<<Target, t>>}
    /\ IF Target # None /\ Streams(Target)
       THEN /\ stream' = IF t \in stream.expected THEN None ELSE stream
            /\ activeReq' = IF t \in stream.expected /\ activeReq = Target
                            THEN None ELSE activeReq
            /\ UNCHANGED pending
       ELSE /\ pending' = IF Target # None /\ StillOwn(Target) THEN pending \cup {t} ELSE pending
            /\ UNCHANGED <<stream, activeReq>>

TurnCompleted(c) ==
    LET t == TurnThread(c)
    IN /\ up = "up" /\ turn[c] = "started"
       /\ turn' = [turn EXCEPT ![c] = "done"]
       /\ running' = running \ {t}
       /\ inFlight' = IF inFlight = None THEN None
                      ELSE [inFlight EXCEPT !.seen = @ \cup {t}]
       /\ \/ /\ EndsOrphan(t)
             /\ orphan' = None
             /\ UNCHANGED <<told, stream, activeReq, pending, floods, conn>>
          \/ /\ ~EndsOrphan(t)
             /\ UNCHANGED orphan
             /\ \/ Deliver(t) /\ UNCHANGED <<floods, conn>>
                \/ Drop /\ UNCHANGED <<told, stream, activeReq, pending>>
       /\ UNCHANGED <<todo, line, req, asked, downVars, loose, spoke>>

-----------------------------------------------------------------------------
(* Timers and the end of the broker.                                       *)

\* A request whose client is gone is answered within the grace window or
\* given up; until its response came the broker knows only the thread that it
\* named.
Watchdog ==
    /\ up # "down" /\ inFlight # None /\ inFlight.disc
    /\ LET c == inFlight.sock
           p == ParamsThread(c)
       IN /\ IF Observed(p) THEN UNCHANGED <<orphan, asked>> ELSE Arm({p}, {p})
          /\ loose' = loose \cup ({TurnThread(c)} \ {p})
    /\ inFlight' = Discarded /\ pending' = {}
    /\ UNCHANGED <<clientVars, activeReq, stream, running, turn, downVars, told, spoke, floods>>

\* BROKER_ABANDONED_TURN_GRACE_MS pass.
Lapse ==
    /\ orphan # None /\ ~orphan.old
    /\ orphan' = [orphan EXCEPT !.old = TRUE]
    /\ UNCHANGED <<clientVars, activeReq, inFlight, pending, stream, appVars,
                   downVars, history, spoke, floods>>

\* The self-check finds the broker unused, and broker.json naming another
\* endpoint for the second time in a row.
SelfCheck ==
    /\ \A c \in Clients : conn[c] = "closed"
    /\ activeReq = None /\ inFlight = None /\ stream = None /\ orphan = None
    /\ ShutDown("unused")
    /\ UNCHANGED <<clientVars, activeReq, appVars, told, spoke, floods>>

\* SIGTERM, SIGINT and an unconditional broker/shutdown; or the app-server is
\* gone, and the sockets are destroyed with it.
Stopped ==
    /\ ShutDown("stopped")
    /\ \/ UNCHANGED conn
       \/ conn' = [c \in Clients |-> IF conn[c] = "open" THEN "destroyed" ELSE conn[c]]
    /\ UNCHANGED <<todo, line, req, activeReq, appVars, told, spoke, floods>>

\* The app-server is closed and the process exits: what it held is gone.
Exit ==
    /\ up = "closing" /\ up' = "down"
    /\ conn' = [c \in Clients |-> "closed"]
    /\ line' = [c \in Clients |-> None] /\ req' = line'
    /\ activeReq' = None /\ pending' = {}
    /\ running' = {} /\ spoke' = {} /\ asked' = {}
    /\ todo' = [c \in Clients |-> {}]
    /\ turn' = [c \in Clients |-> IF Underway(c) THEN "failed" ELSE turn[c]]
    /\ UNCHANGED <<inFlight, stream, orphan, reason, history, floods>>

Next ==
    \/ \E c \in Clients :
         \/ QueueLine(c) \/ Disconnect(c) \/ Close(c)
         \/ Refuse(c) \/ StartTurn(c) \/ StartRpc(c) \/ IdleStop(c)
         \/ TurnReply(c) \/ TurnFails(c) \/ TurnTimesOut(c) \/ RpcReply(c)
         \/ TurnStarted(c) \/ TurnCompleted(c)
    \/ Watchdog \/ Lapse \/ SelfCheck \/ Stopped \/ Exit

Spec == Init /\ [][Next]_vars

\* Events and timers of the broker's own loop happen; clients and the
\* app-server owe it nothing.
FairSpec ==
    /\ Spec
    /\ \A c \in Clients : WF_vars(Close(c))
    /\ WF_vars(Watchdog) /\ WF_vars(Lapse)

-----------------------------------------------------------------------------
(* Properties.                                                             *)

\* The app-server never works on two turns for the broker's clients, however
\* they disconnect, except next to one the broker had given up: its grace was
\* over, its owner's failed request dropped it, its own turn/start was not
\* answered in time, or (a review) the broker never learned its thread.
OneTurnAtATime ==
    up = "up" => Cardinality({c \in Clients : Underway(c) /\ TurnThread(c) \notin loose}) <= 1

\* The completion of a turn that the broker has not given up (the four ways
\* OneTurnAtATime names) is never sent to another client ("any current request
\* socket belongs to an unrelated client"), and its owner has it if it is still
\* connected.
CompletionGoesToOwner ==
    \A c \in Clients :
        TurnThread(c) \notin loose =>
            /\ \A d \in Clients : <<d, TurnThread(c)>> \in told => d = c
            /\ turn[c] = "done" /\ conn[c] = "open" /\ up = "up"
                 => <<c, TurnThread(c)>> \in told

\* A finished turn holds nobody back: ownership installed after the fact
\* "would wedge the broker".  Only a socket that is on its way out still has it.
NoWedge ==
    stream # None => turn[stream.sock] # "done" \/ Destroyed(stream.sock)

\* The turn of a client that vanished is interrupted: codex does not keep
\* running "work nobody will read", whichever comes first, the turn id or the
\* end of the client.
AbandonedTurnIsInterrupted ==
    orphan # None =>
        \A c \in Clients :
            turn[c] = "started" /\ TurnThread(c) \in orphan.threads => TurnThread(c) \in asked

\* A broker that closes because it is idle or unused takes no turn of a
\* connected client with it, other than the one that asked: not even one the
\* broker no longer holds ownership for.
IdleStopStrandsNone ==
    [][up = "up" /\ up' = "closing" /\ reason' \in {"idle", "unused"}
         => \A c \in Clients :
              conn[c] = "open" /\ Underway(c) => <<todo[c], line[c]>> # <<todo'[c], line'[c]>>]_vars

\* A client that is gone does not keep the next turn out for good, even when
\* the app-server never answers its request nor completes its turn.
GateOpens ==
    \A c \in Clients :
        Destroyed(c) ~>
            \/ up # "up"
            \/ /\ ~StillOwn(c) /\ ~Streams(c)
               /\ orphan = None \/ orphan.old \/ orphan.threads \cap StreamThreads(c) = {}
=============================================================================
