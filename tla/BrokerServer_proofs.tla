-------------------------- MODULE BrokerServer_proofs --------------------------
(***************************************************************************)
(* What BrokerServer promises for any number of clients and any script:    *)
(* who owns a turn.                                                        *)
(***************************************************************************)
EXTENDS BrokerServer, FiniteSetTheorems, TLAPS

\* A client asks for one turn.
OneRequest ==
    \A c \in Clients :
        /\ turn[c] # "none" => "turn" \notin todo[c] /\ line[c] # "turn"
        /\ line[c] = "turn" => "turn" \notin todo[c]

\* The broker keeps one turn at a time: a request in flight, a stream, or the
\* turn of a client that is gone; none once it closes.
OneRecord ==
    /\ inFlight = None \/ (stream = None /\ orphan = None)
    /\ stream = None \/ orphan = None
    /\ up # "up" => inFlight = None /\ stream = None /\ orphan = None

\* A record's turn is its client's.
RecordsFit ==
    /\ inFlight # None /\ inFlight.disc => Destroyed(inFlight.sock)
    /\ stream # None => \A c \in Clients : TurnThread(c) \in stream.expected <=> c = stream.sock
    /\ stream # None => stream.expected \subseteq stream.threads
    /\ orphan # None =>
         /\ \E d \in Clients : Destroyed(d) /\ \A c \in Clients : TurnThread(c) \in orphan.expected => c = d
         /\ orphan.expected \subseteq orphan.threads

\* No other client's request routes what belongs to a connected owner.
OwnerRoutes ==
    /\ inFlight # None /\ ~inFlight.disc => activeReq \in {None, inFlight.sock}
    /\ stream # None => activeReq \in {None, stream.sock}

\* What was observed is over.
ObservedIsDone ==
    /\ \A c \in Clients : TurnThread(c) \in pending => turn[c] = "done"
    /\ inFlight # None => \A c \in Clients : TurnThread(c) \in inFlight.seen => turn[c] = "done"

\* A turn that runs and was not given up is on record.
Kept(c) ==
    \/ inFlight # None /\ inFlight.sock = c
    \/ stream # None /\ stream.sock = c
    \/ orphan # None /\ TurnThread(c) \in orphan.expected
TurnsAreKept == up = "up" => \A c \in Clients : Underway(c) /\ TurnThread(c) \notin loose => Kept(c)

\* The broker knows the id of every turn that has started.
StartedIsKnown == up = "up" => \A c \in Clients : turn[c] = "started" => TurnThread(c) \in running

BrokerInv ==
    /\ TypeOK /\ OneRequest /\ OneRecord /\ RecordsFit /\ OwnerRoutes /\ ObservedIsDone
    /\ TurnsAreKept /\ StartedIsKnown /\ CompletionGoesToOwner /\ AbandonedTurnIsInterrupted

LEMMA ThreadFacts ==
    /\ \A c \in Clients : TurnThread(c) \in Threads /\ ParamsThread(c) \in Threads
                          /\ TurnThread(c) \in StreamThreads(c) /\ StreamThreads(c) \in SUBSET Threads
    /\ \A c, d \in Clients : TurnThread(c) \in StreamThreads(d) => c = d
    /\ \A c, d \in Clients : TurnThread(c) = ParamsThread(d) => c = d
    /\ \A c, d \in Clients : TurnThread(c) = TurnThread(d) => c = d
BY DEF TurnThread, ParamsThread, StreamThreads, Threads

LEMMA BrokerInitInv == Init => BrokerInv
<1> SUFFICES ASSUME Init PROVE BrokerInv
  OBVIOUS
<1>1. TypeOK
  BY ScriptAssumption, FloodsAssumption DEF Init, TypeOK, Kinds
<1>2. OneRequest /\ OneRecord /\ RecordsFit /\ OwnerRoutes /\ ObservedIsDone
  BY ScriptAssumption, NoneAssumption DEF Init, OneRequest, OneRecord, RecordsFit, OwnerRoutes,
     ObservedIsDone, Kinds
<1>3. TurnsAreKept /\ StartedIsKnown /\ CompletionGoesToOwner /\ AbandonedTurnIsInterrupted
  BY DEF Init, TurnsAreKept, StartedIsKnown, CompletionGoesToOwner, AbandonedTurnIsInterrupted,
     Underway
<1>4. QED
  BY <1>1, <1>2, <1>3 DEF BrokerInv
-----------------------------------------------------------------------------

\* What the pieces that several handlers share do.
LEMMA NotNone == \A x \in Requests \cup StreamRecords \cup Orphans : x # None
BY NoneAssumption

LEMMA ArmFacts ==
    ASSUME TypeOK, NEW threads \in SUBSET Threads, NEW expected \in SUBSET Threads,
           Arm(threads, expected)
    PROVE  /\ orphan' \in Orphans /\ orphan' # None
           /\ orphan'.threads = threads /\ orphan'.expected = expected
           /\ asked' \in SUBSET Threads /\ asked \subseteq asked'
           /\ \A t \in threads : t \in running => t \in asked'
<1>1. orphan' \in Orphans /\ orphan'.threads = threads /\ orphan'.expected = expected
  BY DEF Arm, Orphans
<1>2. asked' \in SUBSET Threads /\ asked \subseteq asked' /\ \A t \in threads : t \in running => t \in asked'
  BY DEF Arm, TypeOK
<1>3. QED
  BY <1>1, <1>2, NotNone

LEMMA TakeFacts ==
    ASSUME TypeOK, OneRequest, NEW c \in Clients, NEW k \in Kinds, Take(c, k)
    PROVE  /\ todo' \in [Clients -> SUBSET Kinds] /\ line' \in [Clients -> Kinds \cup {None}]
           /\ spoke' \in SUBSET Clients
           /\ \A d \in Clients : /\ todo'[d] \subseteq todo[d] /\ line'[d] \in {line[d], None}
                                 /\ d # c => todo'[d] = todo[d]
           /\ k = "turn" => turn[c] = "none" /\ "turn" \notin todo'[c] /\ line'[c] = None
<1>1. CASE line[c] = k /\ line' = [line EXCEPT ![c] = None] /\ UNCHANGED todo
  BY <1>1 DEF Take, TypeOK, OneRequest
<1>2. CASE line[c] = None /\ k \in todo[c] /\ todo' = [todo EXCEPT ![c] = @ \ {k}] /\ UNCHANGED line
  BY <1>2 DEF Take, TypeOK, OneRequest
<1>3. QED
  BY <1>1, <1>2 DEF Take

\* A line that is taken and starts no turn.
LEMMA TakeStays ==
    ASSUME TypeOK, OneRequest, NEW c \in Clients, NEW k \in Kinds, Take(c, k), UNCHANGED turn
    PROVE  OneRequest'
<1>1. \A d \in Clients : todo'[d] \subseteq todo[d] /\ line'[d] \in {line[d], None}
  BY TakeFacts
<1>2. None # "turn"
  BY NoneAssumption DEF Kinds
<1>3. QED
  BY <1>1, <1>2 DEF OneRequest

\* A turn whose grace is over is given up on the way.
LEMMA GivenUp ==
    ASSUME BrokerInv, UNCHANGED <<up, turn, inFlight, stream>>,
           \/ UNCHANGED <<orphan, loose>>
           \/ orphan # None /\ loose' = loose \cup orphan.threads
    PROVE  TurnsAreKept'
BY DEF BrokerInv, TurnsAreKept, RecordsFit, Kept, Underway

\* Whom a notification goes to, and what a flood does to it.
LEMMA TargetFacts == TypeOK => Target \in Clients \cup {None}
BY DEF TypeOK, Target, Requests, StreamRecords

LEMMA DropFacts ==
    ASSUME TypeOK, Drop
    PROVE  /\ Target \in Clients /\ floods' \in 0..MaxFloods
           /\ conn' \in [Clients -> {"open", "destroyed", "closed"}] /\ conn'[Target] # "open"
           /\ \A d \in Clients : conn'[d] # "open" \/ conn'[d] = conn[d]
<1>1. Target \in Clients
  BY TargetFacts DEF Drop
<1>2. floods' \in 0..MaxFloods
  BY FloodsAssumption DEF Drop, TypeOK
<1>3. QED
  BY <1>1, <1>2 DEF Drop, TypeOK

\* What the response to a stream request leaves: the stream, the turn of a
\* client that is gone, or nothing if the completion came first.
LEMMA ReplyFacts ==
    ASSUME BrokerInv, NEW c \in Clients, TurnReply(c), StillOwn(c)
    PROVE  /\ up = "up" /\ stream = None /\ orphan = None
           /\ inFlight' = None /\ pending' = {}
           /\ Observed(TurnThread(c)) => turn[c] = "done"
           /\ \/ Observed(TurnThread(c)) /\ UNCHANGED <<stream, orphan, asked>>
              \/ /\ stream' \in StreamRecords /\ stream'.sock = c
                 /\ UNCHANGED <<orphan, asked>>
              \/ /\ Arm(StreamThreads(c), {TurnThread(c)})
                 /\ stream' = None
<1>1. up = "up" /\ stream = None /\ orphan = None
  BY DEF StillOwn, BrokerInv, OneRecord
<1>2. inFlight' = None /\ pending' = {}
  BY DEF TurnReply, Discarded
<1>3. Observed(TurnThread(c)) => turn[c] = "done"
  BY DEF StillOwn, Observed, BrokerInv, ObservedIsDone
<1>4. [sock |-> c, threads |-> StreamThreads(c), expected |-> {TurnThread(c)}] \in StreamRecords
  BY ThreadFacts DEF StreamRecords
<1>5. QED
  BY <1>1, <1>2, <1>3, <1>4 DEF TurnReply

\* Each handler keeps the invariant.
LEMMA QueueLineStep ==
    ASSUME BrokerInv, NEW c \in Clients, QueueLine(c)
    PROVE  BrokerInv'
<1>1. TypeOK'
  BY DEF BrokerInv, TypeOK, QueueLine, ownerVars, appVars, downVars, history
<1>2. OneRequest'
  BY DEF BrokerInv, TypeOK, OneRequest, QueueLine, appVars
<1>3. OneRecord'
  BY DEF BrokerInv, OneRecord, QueueLine, ownerVars, downVars
<1>4. RecordsFit'
  BY DEF BrokerInv, RecordsFit, QueueLine, ownerVars, Destroyed
<1>5. OwnerRoutes'
  BY DEF BrokerInv, OwnerRoutes, QueueLine, ownerVars
<1>6. ObservedIsDone'
  BY DEF BrokerInv, ObservedIsDone, QueueLine, ownerVars, appVars
<1>7. TurnsAreKept'
  BY DEF BrokerInv, TurnsAreKept, Kept, Underway, QueueLine, ownerVars, appVars, downVars, history
<1>8. StartedIsKnown'
  BY DEF BrokerInv, StartedIsKnown, QueueLine, appVars, downVars
<1>9. CompletionGoesToOwner'
  BY DEF BrokerInv, CompletionGoesToOwner, QueueLine, appVars, downVars, history
<1>10. AbandonedTurnIsInterrupted'
  BY DEF BrokerInv, AbandonedTurnIsInterrupted, QueueLine, ownerVars, appVars
<1>11. QED
  BY <1>1, <1>2, <1>3, <1>4, <1>5, <1>6, <1>7, <1>8, <1>9, <1>10 DEF BrokerInv

LEMMA DisconnectStep ==
    ASSUME BrokerInv, NEW c \in Clients, Disconnect(c)
    PROVE  BrokerInv'
<1>1. TypeOK'
  BY DEF BrokerInv, TypeOK, Disconnect, ownerVars, appVars, downVars, history
<1>2. OneRequest'
  BY DEF BrokerInv, OneRequest, Disconnect, appVars
<1>3. OneRecord'
  BY DEF BrokerInv, OneRecord, Disconnect, ownerVars, downVars
<1>4. RecordsFit'
  BY DEF BrokerInv, RecordsFit, Disconnect, ownerVars, Destroyed
<1>5. OwnerRoutes'
  BY DEF BrokerInv, OwnerRoutes, Disconnect, ownerVars
<1>6. ObservedIsDone'
  BY DEF BrokerInv, ObservedIsDone, Disconnect, ownerVars, appVars
<1>7. TurnsAreKept'
  BY DEF BrokerInv, TurnsAreKept, Kept, Underway, Disconnect, ownerVars, appVars, downVars, history
<1>8. StartedIsKnown'
  BY DEF BrokerInv, StartedIsKnown, Disconnect, appVars, downVars
<1>9. CompletionGoesToOwner'
  BY DEF BrokerInv, CompletionGoesToOwner, Disconnect, appVars, downVars, history
<1>10. AbandonedTurnIsInterrupted'
  BY DEF BrokerInv, AbandonedTurnIsInterrupted, Disconnect, ownerVars, appVars
<1>11. QED
  BY <1>1, <1>2, <1>3, <1>4, <1>5, <1>6, <1>7, <1>8, <1>9, <1>10 DEF BrokerInv

LEMMA CloseStep ==
    ASSUME BrokerInv, NEW c \in Clients, Close(c)
    PROVE  BrokerInv'
<1>1. TypeOK'
  <2>1. stream' \in StreamRecords \cup {None} /\ orphan' \in Orphans \cup {None} /\ asked' \in SUBSET Threads
        /\ (inFlight = None \/ stream = None) /\ (stream' = stream \/ stream' = None)
    <3>1. CASE Streams(c)
      <4>1. stream' = None /\ Arm(stream.threads, stream.expected)
        BY <3>1 DEF Close
      <4>2. stream.threads \in SUBSET Threads /\ stream.expected \in SUBSET Threads
        BY <3>1 DEF Streams, BrokerInv, TypeOK, StreamRecords
      <4>3. QED
        BY <4>1, <4>2, ArmFacts DEF BrokerInv, TypeOK
    <3>2. CASE ~Streams(c)
      BY <3>2 DEF Close, BrokerInv, TypeOK
    <3>3. QED
      BY <3>1, <3>2
  <2>2. inFlight' \in Requests \cup {None} /\ (inFlight = None => inFlight' = None)
    BY DEF Close, StillOwn, BrokerInv, TypeOK, Requests
  <2>3. QED
    BY <2>1, <2>2 DEF Close, BrokerInv, TypeOK, downVars, history
<1>2. OneRequest'
  BY DEF BrokerInv, OneRequest, Close
<1>3. OneRecord'
  BY DEF BrokerInv, OneRecord, Close, StillOwn, Streams, downVars
<1>4. RecordsFit'
  BY DEF BrokerInv, RecordsFit, Close, StillOwn, Streams, Arm, Destroyed
<1>5. OwnerRoutes'
  BY DEF BrokerInv, OwnerRoutes, Close
<1>6. ObservedIsDone'
  BY DEF BrokerInv, ObservedIsDone, Close, StillOwn
<1>7. TurnsAreKept'
  <2>1. /\ UNCHANGED <<up, turn, loose>>
        /\ inFlight # None => inFlight' # None /\ inFlight'.sock = inFlight.sock
    <3>1. inFlight # None => inFlight \in Requests /\ [inFlight EXCEPT !.disc = TRUE] \in Requests
      BY DEF BrokerInv, TypeOK, Requests
    <3>2. inFlight # None => inFlight' \in Requests /\ inFlight'.sock = inFlight.sock
      BY <3>1 DEF Close, StillOwn, Requests
    <3>3. QED
      BY <3>2, NotNone DEF Close, downVars, history
  <2>2. CASE Streams(c)
    <3>1. Arm(stream.threads, stream.expected)
      BY <2>2 DEF Close
    <3>2. stream.threads \in SUBSET Threads /\ stream.expected \in SUBSET Threads
      BY <2>2 DEF Streams, BrokerInv, TypeOK, StreamRecords
    <3>3. orphan' # None /\ TurnThread(c) \in orphan'.expected
      BY <2>2, <3>1, <3>2, ArmFacts DEF Streams, BrokerInv, RecordsFit
    <3>4. \A d \in Clients : Kept(d) => d = c
      BY <2>2 DEF Streams, BrokerInv, OneRecord, Kept
    <3>5. QED
      BY <2>1, <3>3, <3>4 DEF BrokerInv, TurnsAreKept, Kept, Underway
  <2>3. CASE ~Streams(c)
    <3>1. UNCHANGED <<stream, orphan>>
      BY <2>3 DEF Close
    <3>2. QED
      BY <2>1, <3>1 DEF BrokerInv, TurnsAreKept, Kept, Underway
  <2>4. QED
    BY <2>2, <2>3
<1>8. StartedIsKnown'
  BY DEF BrokerInv, StartedIsKnown, Close, downVars
<1>9. CompletionGoesToOwner'
  BY DEF BrokerInv, CompletionGoesToOwner, Close, downVars, history
<1>10. AbandonedTurnIsInterrupted'
  <2>1. CASE Streams(c)
    <3>1. Arm(stream.threads, stream.expected) /\ UNCHANGED <<up, turn>>
      BY <2>1 DEF Close, downVars
    <3>2. stream.threads \in SUBSET Threads /\ stream.expected \in SUBSET Threads
      BY <2>1 DEF Streams, BrokerInv, TypeOK, StreamRecords
    <3>3. up = "up"
      BY <2>1 DEF Streams, BrokerInv, OneRecord
    <3>4. QED
      BY <3>1, <3>2, <3>3, ArmFacts DEF BrokerInv, StartedIsKnown, AbandonedTurnIsInterrupted
  <2>2. CASE ~Streams(c)
    BY <2>2 DEF Close, BrokerInv, AbandonedTurnIsInterrupted
  <2>3. QED
    BY <2>1, <2>2
<1>11. QED
  BY <1>1, <1>2, <1>3, <1>4, <1>5, <1>6, <1>7, <1>8, <1>9, <1>10 DEF BrokerInv

LEMMA RefuseStep ==
    ASSUME BrokerInv, NEW c \in Clients, Refuse(c)
    PROVE  BrokerInv'
<1>1. TypeOK'
  BY DEF BrokerInv, TypeOK, Refuse, Take, Expired, appVars, downVars, Orphans
<1>2. OneRequest'
  <2>1. PICK k \in {"turn", "rpc", "cut"} : Take(c, k)
    BY DEF Refuse
  <2>2. k \in Kinds /\ UNCHANGED turn
    BY DEF Refuse, appVars, Kinds
  <2>3. QED
    BY <2>1, <2>2, TakeStays DEF BrokerInv
<1>3. OneRecord'
  BY DEF BrokerInv, OneRecord, Refuse, downVars
<1>4. RecordsFit'
  BY DEF BrokerInv, RecordsFit, Refuse, Destroyed
<1>5. OwnerRoutes'
  BY DEF BrokerInv, OwnerRoutes, Refuse
<1>6. ObservedIsDone'
  BY DEF BrokerInv, ObservedIsDone, Refuse, appVars
<1>7. TurnsAreKept'
  <2>1. /\ UNCHANGED <<up, turn, inFlight, stream>>
        /\ UNCHANGED <<orphan, loose>> \/ (orphan # None /\ loose' = loose \cup orphan.threads)
    BY DEF Refuse, Expired, appVars, downVars
  <2>2. QED
    BY <2>1, GivenUp
<1>8. StartedIsKnown'
  BY DEF BrokerInv, StartedIsKnown, Refuse, appVars, downVars
<1>9. CompletionGoesToOwner'
  BY DEF BrokerInv, CompletionGoesToOwner, Refuse, appVars, downVars
<1>10. AbandonedTurnIsInterrupted'
  BY DEF BrokerInv, AbandonedTurnIsInterrupted, Refuse, appVars
<1>11. QED
  BY <1>1, <1>2, <1>3, <1>4, <1>5, <1>6, <1>7, <1>8, <1>9, <1>10 DEF BrokerInv

LEMMA StartTurnStep ==
    ASSUME BrokerInv, NEW c \in Clients, StartTurn(c)
    PROVE  BrokerInv'
<1>1. TypeOK'
  <2>1. Take(c, "turn") /\ "turn" \in Kinds
    BY DEF StartTurn, Kinds
  <2>2. todo' \in [Clients -> SUBSET Kinds] /\ line' \in [Clients -> Kinds \cup {None}] /\ spoke' \in SUBSET Clients
    BY <2>1, TakeFacts DEF BrokerInv
  <2>3. inFlight' \in Requests
    BY DEF StartTurn, GoneAlready, Destroyed, Requests
  <2>4. loose' \in SUBSET Threads
    BY DEF StartTurn, Expired, BrokerInv, TypeOK, Orphans
  <2>5. stream' = None
    BY DEF StartTurn, GateOpen
  <2>6. QED
    BY <2>2, <2>3, <2>4, <2>5 DEF StartTurn, BrokerInv, TypeOK, downVars
<1>2. OneRequest'
  <2>1. Take(c, "turn") /\ "turn" \in Kinds /\ turn' = [turn EXCEPT ![c] = "begun"]
    BY DEF StartTurn, Kinds
  <2>2. None # "turn"
    BY NoneAssumption DEF Kinds
  <2>3. QED
    BY <2>1, <2>2, TakeFacts DEF BrokerInv, TypeOK, OneRequest
<1>3. OneRecord'
  BY DEF BrokerInv, TypeOK, OneRecord, StartTurn, Take, GateOpen, Refused, downVars
<1>4. RecordsFit'
  BY DEF BrokerInv, RecordsFit, StartTurn, GoneAlready, Destroyed
<1>5. OwnerRoutes'
  BY DEF BrokerInv, OwnerRoutes, StartTurn, Refused, Occupied, AllowsCut
<1>6. ObservedIsDone'
  BY DEF BrokerInv, ObservedIsDone, StartTurn
<1>7. TurnsAreKept'
  <2>1. /\ inFlight = None /\ stream = None
        /\ orphan # None => Expired
        /\ turn' = [turn EXCEPT ![c] = "begun"] /\ up' = up
        /\ loose' = IF Expired THEN loose \cup orphan.threads ELSE loose
    BY DEF StartTurn, GateOpen, Expired, downVars
  <2>2. inFlight' \in Requests /\ inFlight'.sock = c
    BY DEF StartTurn, GoneAlready, Destroyed, Requests
  <2>3. Kept(c)'
    BY <2>2, NotNone DEF Kept
  <2>4. ASSUME NEW d \in Clients, d # c, up = "up", Underway(d), TurnThread(d) \notin loose
        PROVE  TurnThread(d) \in loose'
    BY <2>1, <2>4 DEF BrokerInv, TurnsAreKept, Kept, RecordsFit
  <2>5. \A d \in Clients \ {c} : Underway(d)' => Underway(d)
    BY <2>1 DEF Underway, BrokerInv, TypeOK
  <2>6. loose \subseteq loose'
    BY <2>1
  <2>7. QED
    BY <2>1, <2>3, <2>4, <2>5, <2>6 DEF TurnsAreKept
<1>8. StartedIsKnown'
  BY DEF BrokerInv, StartedIsKnown, StartTurn, downVars
<1>9. CompletionGoesToOwner'
  BY DEF BrokerInv, CompletionGoesToOwner, StartTurn, downVars
<1>10. AbandonedTurnIsInterrupted'
  BY DEF BrokerInv, AbandonedTurnIsInterrupted, StartTurn
<1>11. QED
  BY <1>1, <1>2, <1>3, <1>4, <1>5, <1>6, <1>7, <1>8, <1>9, <1>10 DEF BrokerInv

LEMMA StartRpcStep ==
    ASSUME BrokerInv, NEW c \in Clients, StartRpc(c)
    PROVE  BrokerInv'
<1>1. TypeOK'
  BY DEF BrokerInv, TypeOK, StartRpc, Take, Expired, appVars, downVars, Orphans
<1>2. OneRequest'
  <2>1. PICK k \in {"rpc", "cut"} : Take(c, k)
    BY DEF StartRpc
  <2>2. k \in Kinds /\ UNCHANGED turn
    BY DEF StartRpc, appVars, Kinds
  <2>3. QED
    BY <2>1, <2>2, TakeStays DEF BrokerInv
<1>3. OneRecord'
  BY DEF BrokerInv, OneRecord, StartRpc, downVars
<1>4. RecordsFit'
  BY DEF BrokerInv, RecordsFit, StartRpc, Destroyed
<1>5. OwnerRoutes'
  BY NoneAssumption DEF BrokerInv, TypeOK, OwnerRoutes, StartRpc, Refused, Occupied, Requests,
     StreamRecords
<1>6. ObservedIsDone'
  BY DEF BrokerInv, ObservedIsDone, StartRpc, appVars
<1>7. TurnsAreKept'
  <2>1. /\ UNCHANGED <<up, turn, inFlight, stream>>
        /\ UNCHANGED <<orphan, loose>> \/ (orphan # None /\ loose' = loose \cup orphan.threads)
    BY DEF StartRpc, Expired, appVars, downVars
  <2>2. QED
    BY <2>1, GivenUp
<1>8. StartedIsKnown'
  BY DEF BrokerInv, StartedIsKnown, StartRpc, appVars, downVars
<1>9. CompletionGoesToOwner'
  BY DEF BrokerInv, CompletionGoesToOwner, StartRpc, appVars, downVars
<1>10. AbandonedTurnIsInterrupted'
  BY DEF BrokerInv, AbandonedTurnIsInterrupted, StartRpc, appVars
<1>11. QED
  BY <1>1, <1>2, <1>3, <1>4, <1>5, <1>6, <1>7, <1>8, <1>9, <1>10 DEF BrokerInv

LEMMA IdleStopStep ==
    ASSUME BrokerInv, NEW c \in Clients, IdleStop(c)
    PROVE  BrokerInv'
<1>1. TypeOK'
  BY ThreadFacts DEF BrokerInv, TypeOK, IdleStop, Take, ShutDown, appVars
<1>2. OneRequest'
  <2>1. Take(c, "stop") /\ "stop" \in Kinds /\ UNCHANGED turn
    BY DEF IdleStop, appVars, Kinds
  <2>2. QED
    BY <2>1, TakeStays DEF BrokerInv
<1>3. OneRecord'
  BY DEF BrokerInv, OneRecord, IdleStop, ShutDown
<1>4. RecordsFit'
  BY DEF BrokerInv, RecordsFit, IdleStop, ShutDown, Destroyed
<1>5. OwnerRoutes'
  BY DEF BrokerInv, OwnerRoutes, IdleStop
<1>6. ObservedIsDone'
  BY DEF BrokerInv, ObservedIsDone, IdleStop, ShutDown, appVars
<1>7. TurnsAreKept'
  BY DEF BrokerInv, TurnsAreKept, Kept, Underway, IdleStop, ShutDown, appVars
<1>8. StartedIsKnown'
  BY DEF BrokerInv, StartedIsKnown, IdleStop, ShutDown, appVars
<1>9. CompletionGoesToOwner'
  BY DEF BrokerInv, CompletionGoesToOwner, IdleStop, ShutDown, appVars
<1>10. AbandonedTurnIsInterrupted'
  BY DEF BrokerInv, AbandonedTurnIsInterrupted, IdleStop, ShutDown, appVars
<1>11. QED
  BY <1>1, <1>2, <1>3, <1>4, <1>5, <1>6, <1>7, <1>8, <1>9, <1>10 DEF BrokerInv

LEMMA TurnReplyStep ==
    ASSUME BrokerInv, NEW c \in Clients, TurnReply(c)
    PROVE  BrokerInv'
<1>1. TypeOK'
  <2>1. CASE StillOwn(c)
    <3>1. {TurnThread(c)} \in SUBSET Threads /\ StreamThreads(c) \in SUBSET Threads
      BY ThreadFacts
    <3>2. /\ stream' \in StreamRecords \cup {None} /\ orphan' \in Orphans \cup {None}
          /\ asked' \in SUBSET Threads /\ inFlight' = None /\ pending' = {}
      BY <2>1, <3>1, ReplyFacts, ArmFacts DEF BrokerInv, TypeOK
    <3>3. QED
      BY <3>2 DEF TurnReply, BrokerInv, TypeOK, downVars, history
  <2>2. CASE ~StillOwn(c)
    BY <2>2 DEF TurnReply, BrokerInv, TypeOK, downVars, history
  <2>3. QED
    BY <2>1, <2>2
<1>2. OneRequest'
  BY DEF BrokerInv, OneRequest, TurnReply
<1>3. OneRecord'
  BY DEF BrokerInv, OneRecord, TurnReply, StillOwn, Discarded, downVars
<1>4. RecordsFit'
  BY ThreadFacts DEF BrokerInv, RecordsFit, TurnReply, StillOwn, Discarded, Arm, Destroyed
<1>5. OwnerRoutes'
  BY DEF BrokerInv, OwnerRoutes, TurnReply, StillOwn, Discarded
<1>6. ObservedIsDone'
  BY DEF BrokerInv, ObservedIsDone, TurnReply, Discarded
<1>7. TurnsAreKept'
  <2>1. UNCHANGED <<up, turn, loose>>
    BY DEF TurnReply, downVars, history
  <2>2. CASE StillOwn(c)
    <3>1. {TurnThread(c)} \in SUBSET Threads /\ StreamThreads(c) \in SUBSET Threads
      BY ThreadFacts
    <3>2. Underway(c) => Kept(c)'
      <4>1. CASE Observed(TurnThread(c))
        BY <2>2, <4>1, ReplyFacts DEF Underway
      <4>2. CASE stream' \in StreamRecords /\ stream'.sock = c
        BY <4>2, NotNone DEF Kept
      <4>3. CASE Arm(StreamThreads(c), {TurnThread(c)})
        BY <3>1, <4>3, ArmFacts DEF BrokerInv, Kept
      <4>4. QED
        BY <2>2, <4>1, <4>2, <4>3, ReplyFacts
    <3>3. \A d \in Clients : Kept(d) => d = c
      BY <2>2, ReplyFacts DEF StillOwn, Kept
    <3>4. QED
      BY <2>1, <3>2, <3>3 DEF BrokerInv, TurnsAreKept, Underway
  <2>3. CASE ~StillOwn(c)
    BY <2>1, <2>3 DEF TurnReply, BrokerInv, TurnsAreKept, Kept, Underway
  <2>4. QED
    BY <2>2, <2>3
<1>8. StartedIsKnown'
  BY DEF BrokerInv, StartedIsKnown, TurnReply, downVars
<1>9. CompletionGoesToOwner'
  BY DEF BrokerInv, CompletionGoesToOwner, TurnReply, downVars, history
<1>10. AbandonedTurnIsInterrupted'
  <2>1. UNCHANGED <<up, turn>>
    BY DEF TurnReply, downVars
  <2>2. CASE StillOwn(c)
    <3>1. {TurnThread(c)} \in SUBSET Threads /\ StreamThreads(c) \in SUBSET Threads
      BY ThreadFacts
    <3>2. QED
      BY <2>1, <2>2, <3>1, ReplyFacts, ArmFacts DEF BrokerInv, StartedIsKnown,
         AbandonedTurnIsInterrupted
  <2>3. CASE ~StillOwn(c)
    BY <2>1, <2>3 DEF TurnReply, BrokerInv, AbandonedTurnIsInterrupted
  <2>4. QED
    BY <2>2, <2>3
<1>11. QED
  BY <1>1, <1>2, <1>3, <1>4, <1>5, <1>6, <1>7, <1>8, <1>9, <1>10 DEF BrokerInv

LEMMA TurnFailsStep ==
    ASSUME BrokerInv, NEW c \in Clients, TurnFails(c)
    PROVE  BrokerInv'
<1>1. TypeOK'
  BY DEF BrokerInv, TypeOK, TurnFails, Discarded, downVars, history
<1>2. OneRequest'
  BY DEF BrokerInv, OneRequest, TurnFails
<1>3. OneRecord'
  BY DEF BrokerInv, OneRecord, TurnFails, Discarded, downVars
<1>4. RecordsFit'
  BY DEF BrokerInv, RecordsFit, TurnFails, Discarded, Destroyed
<1>5. OwnerRoutes'
  BY DEF BrokerInv, OwnerRoutes, TurnFails, Discarded
<1>6. ObservedIsDone'
  BY DEF BrokerInv, ObservedIsDone, TurnFails, Discarded
<1>7. TurnsAreKept'
  BY DEF BrokerInv, TypeOK, TurnsAreKept, Kept, Underway, TurnFails, StillOwn, downVars, history
<1>8. StartedIsKnown'
  BY DEF BrokerInv, StartedIsKnown, TurnFails, downVars
<1>9. CompletionGoesToOwner'
  BY DEF BrokerInv, CompletionGoesToOwner, TurnFails, downVars, history
<1>10. AbandonedTurnIsInterrupted'
  BY DEF BrokerInv, AbandonedTurnIsInterrupted, TurnFails
<1>11. QED
  BY <1>1, <1>2, <1>3, <1>4, <1>5, <1>6, <1>7, <1>8, <1>9, <1>10 DEF BrokerInv

LEMMA TurnTimesOutStep ==
    ASSUME BrokerInv, NEW c \in Clients, TurnTimesOut(c)
    PROVE  BrokerInv'
<1>1. TypeOK'
  BY ThreadFacts DEF BrokerInv, TypeOK, TurnTimesOut, Discarded, downVars, appVars
<1>2. OneRequest'
  BY DEF BrokerInv, OneRequest, TurnTimesOut, appVars
<1>3. OneRecord'
  BY DEF BrokerInv, OneRecord, TurnTimesOut, Discarded, downVars
<1>4. RecordsFit'
  BY DEF BrokerInv, RecordsFit, TurnTimesOut, Discarded, Destroyed
<1>5. OwnerRoutes'
  BY DEF BrokerInv, OwnerRoutes, TurnTimesOut, Discarded
<1>6. ObservedIsDone'
  BY DEF BrokerInv, ObservedIsDone, TurnTimesOut, Discarded, appVars
<1>7. TurnsAreKept'
  BY DEF BrokerInv, TypeOK, TurnsAreKept, Kept, Underway, TurnTimesOut, StillOwn, downVars, appVars
<1>8. StartedIsKnown'
  BY DEF BrokerInv, StartedIsKnown, TurnTimesOut, downVars, appVars
<1>9. CompletionGoesToOwner'
  BY DEF BrokerInv, CompletionGoesToOwner, TurnTimesOut, downVars, appVars
<1>10. AbandonedTurnIsInterrupted'
  BY DEF BrokerInv, AbandonedTurnIsInterrupted, TurnTimesOut, appVars
<1>11. QED
  BY <1>1, <1>2, <1>3, <1>4, <1>5, <1>6, <1>7, <1>8, <1>9, <1>10 DEF BrokerInv

LEMMA RpcReplyStep ==
    ASSUME BrokerInv, NEW c \in Clients, RpcReply(c)
    PROVE  BrokerInv'
<1>1. TypeOK'
  BY DEF BrokerInv, TypeOK, RpcReply, Streams, appVars, downVars, StreamRecords
<1>2. OneRequest'
  BY DEF BrokerInv, OneRequest, RpcReply, appVars
<1>3. OneRecord'
  BY DEF BrokerInv, OneRecord, RpcReply, downVars
<1>4. RecordsFit'
  BY DEF BrokerInv, RecordsFit, RpcReply, Destroyed
<1>5. OwnerRoutes'
  BY DEF BrokerInv, OwnerRoutes, RpcReply
<1>6. ObservedIsDone'
  BY DEF BrokerInv, ObservedIsDone, RpcReply, appVars
<1>7. TurnsAreKept'
  <2>1. /\ UNCHANGED <<up, turn, inFlight, orphan>>
        /\ \/ UNCHANGED <<stream, loose>>
           \/ stream # None /\ loose' = loose \cup stream.threads
    BY DEF RpcReply, Streams, appVars, downVars
  <2>2. \A d \in Clients : stream # None /\ stream.sock = d => TurnThread(d) \in stream.threads
    BY DEF BrokerInv, RecordsFit
  <2>3. QED
    BY <2>1, <2>2 DEF BrokerInv, TurnsAreKept, Kept, Underway
<1>8. StartedIsKnown'
  BY DEF BrokerInv, StartedIsKnown, RpcReply, appVars, downVars
<1>9. CompletionGoesToOwner'
  BY DEF BrokerInv, CompletionGoesToOwner, RpcReply, appVars, downVars
<1>10. AbandonedTurnIsInterrupted'
  BY DEF BrokerInv, AbandonedTurnIsInterrupted, RpcReply, appVars
<1>11. QED
  BY <1>1, <1>2, <1>3, <1>4, <1>5, <1>6, <1>7, <1>8, <1>9, <1>10 DEF BrokerInv

LEMMA TurnStartedStep ==
    ASSUME BrokerInv, NEW c \in Clients, TurnStarted(c)
    PROVE  BrokerInv'
<1>1. TypeOK'
  <2>1. floods' \in 0..MaxFloods /\ conn' \in [Clients -> {"open", "destroyed", "closed"}]
    BY DropFacts DEF TurnStarted, BrokerInv, TypeOK
  <2>2. running' \in SUBSET Threads /\ asked' \in SUBSET Threads
    BY ThreadFacts DEF TurnStarted, BrokerInv, TypeOK
  <2>3. QED
    BY <2>1, <2>2 DEF TurnStarted, BrokerInv, TypeOK, ownerVars, downVars, history
<1>2. OneRequest'
  BY DEF BrokerInv, OneRequest, TurnStarted
<1>3. OneRecord'
  BY DEF BrokerInv, OneRecord, TurnStarted, ownerVars, downVars
<1>4. RecordsFit'
  BY DEF BrokerInv, TypeOK, RecordsFit, TurnStarted, Drop, Target, ownerVars, Destroyed
<1>5. OwnerRoutes'
  BY DEF BrokerInv, OwnerRoutes, TurnStarted, ownerVars
<1>6. ObservedIsDone'
  BY DEF BrokerInv, ObservedIsDone, TurnStarted, ownerVars
<1>7. TurnsAreKept'
  BY DEF BrokerInv, TurnsAreKept, Kept, Underway, TurnStarted, ownerVars, history
<1>8. StartedIsKnown'
  BY DEF BrokerInv, StartedIsKnown, TurnStarted
<1>9. CompletionGoesToOwner'
  BY DEF BrokerInv, TypeOK, CompletionGoesToOwner, TurnStarted, Drop, history
<1>10. AbandonedTurnIsInterrupted'
  BY DEF BrokerInv, AbandonedTurnIsInterrupted, TurnStarted, LateInterrupt, ownerVars
<1>11. QED
  BY <1>1, <1>2, <1>3, <1>4, <1>5, <1>6, <1>7, <1>8, <1>9, <1>10 DEF BrokerInv

LEMMA TurnCompletedStep ==
    ASSUME BrokerInv, NEW c \in Clients, TurnCompleted(c)
    PROVE  BrokerInv'
<1>1. TypeOK'
  <2>1. TurnThread(c) \in Threads
    BY ThreadFacts
  <2>2. /\ inFlight' \in Requests \cup {None} /\ (inFlight = None => inFlight' = None)
        /\ orphan' \in Orphans \cup {None}
    BY <2>1 DEF TurnCompleted, BrokerInv, TypeOK, Requests
  <2>3. floods' \in 0..MaxFloods /\ conn' \in [Clients -> {"open", "destroyed", "closed"}]
    BY DropFacts DEF TurnCompleted, BrokerInv, TypeOK
  <2>4. /\ told' \in SUBSET (Clients \X Threads) /\ pending' \in SUBSET Threads
        /\ stream' \in {stream, None} /\ activeReq' \in {activeReq, None}
    BY <2>1, TargetFacts DEF TurnCompleted, Deliver, BrokerInv, TypeOK
  <2>5. QED
    BY <2>2, <2>3, <2>4 DEF TurnCompleted, BrokerInv, TypeOK, downVars
<1>2. OneRequest'
  BY DEF BrokerInv, OneRequest, TurnCompleted
<1>3. OneRecord'
  BY DEF BrokerInv, OneRecord, TurnCompleted, Deliver, downVars
<1>4. RecordsFit'
  BY DEF BrokerInv, TypeOK, RecordsFit, TurnCompleted, Deliver, Drop, Target, Destroyed
<1>5. OwnerRoutes'
  BY DEF BrokerInv, OwnerRoutes, TurnCompleted, Deliver
<1>6. ObservedIsDone'
  BY ThreadFacts DEF BrokerInv, TypeOK, ObservedIsDone, TurnCompleted, Deliver
<1>7. TurnsAreKept'
  <2>1. /\ up' = up /\ loose' = loose /\ ~Underway(c)'
        /\ \A d \in Clients : Underway(d)' => Underway(d)
    BY DEF TurnCompleted, BrokerInv, TypeOK, Underway, downVars
  <2>2. inFlight # None => inFlight' # None /\ inFlight'.sock = inFlight.sock
    <3>1. inFlight # None => inFlight' \in Requests /\ inFlight'.sock = inFlight.sock
      BY ThreadFacts DEF TurnCompleted, BrokerInv, TypeOK, Requests
    <3>2. QED
      BY <3>1, NotNone
  <2>3. /\ stream' = stream \/ (stream # None /\ TurnThread(c) \in stream.expected)
        /\ orphan' = orphan \/ (orphan # None /\ TurnThread(c) \in orphan.expected)
    BY DEF TurnCompleted, Deliver, Streams, EndsOrphan
  <2>4. ASSUME NEW d \in Clients, d # c, Kept(d) PROVE Kept(d)'
    BY <2>2, <2>3, <2>4 DEF BrokerInv, RecordsFit, Kept
  <2>5. QED
    BY <2>1, <2>4 DEF BrokerInv, TurnsAreKept
<1>8. StartedIsKnown'
  BY ThreadFacts DEF BrokerInv, TypeOK, StartedIsKnown, TurnCompleted
<1>9. CompletionGoesToOwner'
  <2>1. /\ up = "up" /\ turn[c] = "started" /\ turn' = [turn EXCEPT ![c] = "done"]
        /\ loose' = loose /\ up' = up
        /\ \A d \in Clients : conn'[d] # "open" \/ conn'[d] = conn[d]
    BY DropFacts DEF TurnCompleted, BrokerInv, downVars
  <2>2. CASE TurnThread(c) \in loose
    <3>1. told' \subseteq told \cup (Clients \X {TurnThread(c)})
      BY TargetFacts DEF TurnCompleted, Deliver, BrokerInv
    <3>2. told \subseteq told'
      BY DEF TurnCompleted, Deliver
    <3>3. QED
      BY <2>1, <2>2, <3>1, <3>2, ThreadFacts DEF BrokerInv, TypeOK, CompletionGoesToOwner
  <2>3. CASE TurnThread(c) \notin loose
    <3>1. Kept(c)
      BY <2>1, <2>3 DEF BrokerInv, TurnsAreKept, Underway
    <3>2. CASE EndsOrphan(TurnThread(c))
      <4>1. conn[c] # "open" /\ told' = told
        BY <3>2 DEF TurnCompleted, EndsOrphan, BrokerInv, RecordsFit, Destroyed
      <4>2. QED
        BY <2>1, <4>1 DEF BrokerInv, TypeOK, CompletionGoesToOwner
    <3>3. CASE ~EndsOrphan(TurnThread(c))
      <4>1. Target = c
        <5>1. \/ inFlight # None /\ inFlight.sock = c
              \/ stream # None /\ stream.sock = c /\ inFlight = None
          BY <3>1, <3>3 DEF Kept, EndsOrphan, BrokerInv, OneRecord
        <5>2. stream # None => activeReq \in {None, stream.sock}
          BY DEF BrokerInv, OwnerRoutes
        <5>3. QED
          BY <5>1, <5>2 DEF Target
      <4>2. \/ told' = told \cup {<<c, TurnThread(c)>>}
            \/ told' = told /\ conn'[c] # "open"
        BY <2>1, <3>3, <4>1, NoneAssumption, DropFacts DEF TurnCompleted, Deliver, Destroyed,
           BrokerInv
      <4>3. told' \subseteq told \cup {<<c, TurnThread(c)>>} /\ told \subseteq told'
            /\ (conn'[c] = "open" => <<c, TurnThread(c)>> \in told')
        BY <4>2
      <4>4. QED
        BY <2>1, <4>3, ThreadFacts DEF BrokerInv, TypeOK, CompletionGoesToOwner
    <3>4. QED
      BY <3>2, <3>3
  <2>4. QED
    BY <2>2, <2>3
<1>10. AbandonedTurnIsInterrupted'
  BY DEF BrokerInv, AbandonedTurnIsInterrupted, TurnCompleted
<1>11. QED
  BY <1>1, <1>2, <1>3, <1>4, <1>5, <1>6, <1>7, <1>8, <1>9, <1>10 DEF BrokerInv

LEMMA WatchdogStep ==
    ASSUME BrokerInv, Watchdog
    PROVE  BrokerInv'
<1>1. TypeOK'
  <2>1. inFlight \in Requests /\ inFlight.sock \in Clients
    BY DEF Watchdog, BrokerInv, TypeOK, Requests
  <2>2. TurnThread(inFlight.sock) \in Threads /\ {ParamsThread(inFlight.sock)} \in SUBSET Threads
    BY <2>1, ThreadFacts
  <2>3. orphan' \in Orphans \cup {None} /\ asked' \in SUBSET Threads
    BY <2>2, ArmFacts DEF Watchdog, BrokerInv, TypeOK
  <2>4. loose' \in SUBSET Threads
    BY <2>2 DEF Watchdog, BrokerInv, TypeOK
  <2>5. inFlight' = None /\ pending' = {}
    BY DEF Watchdog, Discarded
  <2>6. QED
    BY <2>3, <2>4, <2>5 DEF Watchdog, BrokerInv, TypeOK, clientVars, downVars
<1>2. OneRequest'
  BY DEF BrokerInv, OneRequest, Watchdog, clientVars
<1>3. OneRecord'
  BY DEF BrokerInv, OneRecord, Watchdog, Discarded, downVars
<1>4. RecordsFit'
  BY ThreadFacts DEF BrokerInv, TypeOK, RecordsFit, Watchdog, Discarded, Arm, clientVars, Destroyed,
     Requests
<1>5. OwnerRoutes'
  BY DEF BrokerInv, OwnerRoutes, Watchdog, Discarded
<1>6. ObservedIsDone'
  BY DEF BrokerInv, ObservedIsDone, Watchdog, Discarded
<1>7. TurnsAreKept'
  <2>1. PICK d \in Clients : inFlight # None /\ d = inFlight.sock
    BY DEF Watchdog, BrokerInv, TypeOK, Requests
  <2> DEFINE p == ParamsThread(d)
  <2>2. /\ UNCHANGED <<turn, up>>
        /\ loose' = loose \cup ({TurnThread(d)} \ {p})
        /\ \/ Observed(p)
           \/ Arm({p}, {p})
    BY <2>1 DEF Watchdog, downVars
  <2>3. \A e \in Clients : Kept(e) => e = d
    BY <2>1 DEF BrokerInv, OneRecord, Kept
  <2>4. Underway(d) /\ TurnThread(d) \notin loose' => Kept(d)'
    <3>1. SUFFICES ASSUME Underway(d), TurnThread(d) = p PROVE Kept(d)'
      BY <2>2
    <3>2. ~Observed(p)
      BY <2>1, <3>1 DEF Observed, Underway, BrokerInv, ObservedIsDone
    <3>3. {p} \in SUBSET Threads
      BY ThreadFacts
    <3>4. orphan' # None /\ orphan'.expected = {p}
      BY <2>2, <3>2, <3>3, ArmFacts DEF BrokerInv
    <3>5. QED
      BY <3>1, <3>4 DEF Kept
  <2>5. QED
    BY <2>2, <2>3, <2>4 DEF BrokerInv, TurnsAreKept, Underway
<1>8. StartedIsKnown'
  BY DEF BrokerInv, StartedIsKnown, Watchdog, downVars
<1>9. CompletionGoesToOwner'
  BY DEF BrokerInv, CompletionGoesToOwner, Watchdog, clientVars, downVars
<1>10. AbandonedTurnIsInterrupted'
  <2>1. inFlight.sock \in Clients /\ inFlight # None /\ UNCHANGED <<turn, up>>
    BY DEF Watchdog, BrokerInv, TypeOK, Requests, downVars
  <2>2. up = "up" /\ orphan = None
    BY <2>1 DEF BrokerInv, OneRecord
  <2>3. {ParamsThread(inFlight.sock)} \in SUBSET Threads
    BY <2>1, ThreadFacts
  <2>4. \/ UNCHANGED orphan
        \/ Arm({ParamsThread(inFlight.sock)}, {ParamsThread(inFlight.sock)})
    BY DEF Watchdog
  <2>5. QED
    BY <2>1, <2>2, <2>3, <2>4, ArmFacts DEF BrokerInv, StartedIsKnown, AbandonedTurnIsInterrupted
<1>11. QED
  BY <1>1, <1>2, <1>3, <1>4, <1>5, <1>6, <1>7, <1>8, <1>9, <1>10 DEF BrokerInv

LEMMA LapseStep ==
    ASSUME BrokerInv, Lapse
    PROVE  BrokerInv'
<1>1. TypeOK'
  BY DEF BrokerInv, TypeOK, Lapse, clientVars, appVars, downVars, history, Orphans
<1>2. OneRequest'
  BY DEF BrokerInv, OneRequest, Lapse, clientVars, appVars
<1>3. OneRecord'
  BY DEF BrokerInv, OneRecord, Lapse, downVars
<1>4. RecordsFit'
  BY DEF BrokerInv, RecordsFit, Lapse, clientVars, Destroyed
<1>5. OwnerRoutes'
  BY DEF BrokerInv, OwnerRoutes, Lapse
<1>6. ObservedIsDone'
  BY DEF BrokerInv, ObservedIsDone, Lapse, appVars
<1>7. TurnsAreKept'
  <2>1. orphan \in Orphans /\ orphan' = [orphan EXCEPT !.old = TRUE]
    BY DEF Lapse, BrokerInv, TypeOK
  <2>2. orphan' \in Orphans /\ orphan'.expected = orphan.expected
    BY <2>1 DEF Orphans
  <2>3. QED
    BY <2>2, NotNone DEF Lapse, BrokerInv, TurnsAreKept, Kept, Underway, appVars, downVars, history
<1>8. StartedIsKnown'
  BY DEF BrokerInv, StartedIsKnown, Lapse, appVars, downVars
<1>9. CompletionGoesToOwner'
  BY DEF BrokerInv, CompletionGoesToOwner, Lapse, clientVars, appVars, downVars, history
<1>10. AbandonedTurnIsInterrupted'
  BY DEF BrokerInv, AbandonedTurnIsInterrupted, Lapse, appVars
<1>11. QED
  BY <1>1, <1>2, <1>3, <1>4, <1>5, <1>6, <1>7, <1>8, <1>9, <1>10 DEF BrokerInv

LEMMA SelfCheckStep ==
    ASSUME BrokerInv, SelfCheck
    PROVE  BrokerInv'
<1>1. TypeOK'
  BY ThreadFacts DEF BrokerInv, TypeOK, SelfCheck, ShutDown, clientVars, appVars
<1>2. OneRequest'
  BY DEF BrokerInv, OneRequest, SelfCheck, clientVars, appVars
<1>3. OneRecord'
  BY DEF BrokerInv, OneRecord, SelfCheck, ShutDown
<1>4. RecordsFit'
  BY DEF BrokerInv, RecordsFit, SelfCheck, ShutDown
<1>5. OwnerRoutes'
  BY DEF BrokerInv, OwnerRoutes, SelfCheck
<1>6. ObservedIsDone'
  BY DEF BrokerInv, ObservedIsDone, SelfCheck, ShutDown, appVars
<1>7. TurnsAreKept'
  BY DEF BrokerInv, TurnsAreKept, Kept, SelfCheck, ShutDown
<1>8. StartedIsKnown'
  BY DEF BrokerInv, StartedIsKnown, SelfCheck, ShutDown
<1>9. CompletionGoesToOwner'
  BY DEF BrokerInv, CompletionGoesToOwner, SelfCheck, ShutDown
<1>10. AbandonedTurnIsInterrupted'
  BY DEF BrokerInv, AbandonedTurnIsInterrupted, SelfCheck, ShutDown
<1>11. QED
  BY <1>1, <1>2, <1>3, <1>4, <1>5, <1>6, <1>7, <1>8, <1>9, <1>10 DEF BrokerInv

LEMMA StoppedStep ==
    ASSUME BrokerInv, Stopped
    PROVE  BrokerInv'
<1>1. TypeOK'
  BY ThreadFacts DEF BrokerInv, TypeOK, Stopped, ShutDown, appVars
<1>2. OneRequest'
  BY DEF BrokerInv, OneRequest, Stopped, appVars
<1>3. OneRecord'
  BY DEF BrokerInv, OneRecord, Stopped, ShutDown
<1>4. RecordsFit'
  BY DEF BrokerInv, RecordsFit, Stopped, ShutDown
<1>5. OwnerRoutes'
  BY DEF BrokerInv, OwnerRoutes, Stopped, ShutDown
<1>6. ObservedIsDone'
  BY DEF BrokerInv, ObservedIsDone, Stopped, ShutDown, appVars
<1>7. TurnsAreKept'
  BY DEF BrokerInv, TurnsAreKept, Kept, Stopped, ShutDown
<1>8. StartedIsKnown'
  BY DEF BrokerInv, StartedIsKnown, Stopped, ShutDown
<1>9. CompletionGoesToOwner'
  BY DEF BrokerInv, CompletionGoesToOwner, Stopped, ShutDown
<1>10. AbandonedTurnIsInterrupted'
  BY DEF BrokerInv, AbandonedTurnIsInterrupted, Stopped, ShutDown
<1>11. QED
  BY <1>1, <1>2, <1>3, <1>4, <1>5, <1>6, <1>7, <1>8, <1>9, <1>10 DEF BrokerInv

LEMMA ExitStep ==
    ASSUME BrokerInv, Exit
    PROVE  BrokerInv'
<1>1. TypeOK'
  BY DEF BrokerInv, TypeOK, Exit, history
<1>2. OneRequest'
  <2>1. \A d \in Clients : todo'[d] = {} /\ line'[d] = None
    BY DEF Exit
  <2>2. QED
    BY <2>1, NoneAssumption DEF OneRequest, Kinds
<1>3. OneRecord'
  BY DEF BrokerInv, OneRecord, Exit
<1>4. RecordsFit'
  BY DEF BrokerInv, TypeOK, RecordsFit, Exit, Destroyed, Requests
<1>5. OwnerRoutes'
  BY DEF BrokerInv, OwnerRoutes, Exit
<1>6. ObservedIsDone'
  <2>1. inFlight' = None /\ pending' = {}
    BY DEF Exit, BrokerInv, OneRecord
  <2>2. QED
    BY <2>1 DEF ObservedIsDone
<1>7. TurnsAreKept'
  BY DEF BrokerInv, TurnsAreKept, Kept, Exit
<1>8. StartedIsKnown'
  BY DEF BrokerInv, StartedIsKnown, Exit
<1>9. CompletionGoesToOwner'
  BY DEF BrokerInv, CompletionGoesToOwner, Exit, history
<1>10. AbandonedTurnIsInterrupted'
  <2>1. orphan' = None
    BY DEF Exit, BrokerInv, OneRecord
  <2>2. QED
    BY <2>1 DEF AbandonedTurnIsInterrupted
<1>11. QED
  BY <1>1, <1>2, <1>3, <1>4, <1>5, <1>6, <1>7, <1>8, <1>9, <1>10 DEF BrokerInv
-----------------------------------------------------------------------------
LEMMA BrokerNextInv == BrokerInv /\ [Next]_vars => BrokerInv'
<1> SUFFICES ASSUME BrokerInv, [Next]_vars PROVE BrokerInv'
  OBVIOUS
<1>1. ASSUME NEW c \in Clients,
             \/ QueueLine(c) \/ Disconnect(c) \/ Close(c)
             \/ Refuse(c) \/ StartTurn(c) \/ StartRpc(c) \/ IdleStop(c)
             \/ TurnReply(c) \/ TurnFails(c) \/ TurnTimesOut(c) \/ RpcReply(c)
             \/ TurnStarted(c) \/ TurnCompleted(c)
      PROVE  BrokerInv'
  BY <1>1, QueueLineStep, DisconnectStep, CloseStep, RefuseStep, StartTurnStep, StartRpcStep,
     IdleStopStep, TurnReplyStep, TurnFailsStep, TurnTimesOutStep, RpcReplyStep, TurnStartedStep,
     TurnCompletedStep
<1>2. CASE Watchdog \/ Lapse \/ SelfCheck \/ Stopped \/ Exit
  BY <1>2, WatchdogStep, LapseStep, SelfCheckStep, StoppedStep, ExitStep
<1>3. CASE UNCHANGED vars
  <2>1. UNCHANGED <<conn, todo, line, req, activeReq, inFlight, pending, stream, orphan, running,
                    spoke, up, turn, asked, floods, told, loose, reason>>
    BY <1>3 DEF vars, clientVars, ownerVars, appVars, downVars, history
  <2>2. TypeOK' /\ OneRequest' /\ OneRecord' /\ ObservedIsDone' /\ StartedIsKnown'
    BY <2>1 DEF BrokerInv, TypeOK, OneRequest, OneRecord, ObservedIsDone, StartedIsKnown, Underway
  <2>3. RecordsFit' /\ OwnerRoutes' /\ TurnsAreKept'
    BY <2>1 DEF BrokerInv, RecordsFit, OwnerRoutes, TurnsAreKept, Kept, Underway, Destroyed
  <2>4. CompletionGoesToOwner' /\ AbandonedTurnIsInterrupted'
    BY <2>1 DEF BrokerInv, CompletionGoesToOwner, AbandonedTurnIsInterrupted
  <2>5. QED
    BY <2>2, <2>3, <2>4 DEF BrokerInv
<1>4. QED
  BY <1>1, <1>2, <1>3 DEF Next

LEMMA BrokerAlways == Spec => []BrokerInv
BY BrokerInitInv, BrokerNextInv, PTL DEF Spec

\* The broker's records, queues and counters are well typed, and it never has
\* a request in flight and a stream together (server.ts).
THEOREM TypeCorrect == Spec => []TypeOK
<1>1. BrokerInv => TypeOK
  BY DEF BrokerInv
<1>2. QED
  BY <1>1, BrokerAlways, PTL

\* However clients disconnect, are refused and send while others wait, the
\* app-server works on one turn at a time, next to those the broker had given
\* up (server.ts:451-729).
THEOREM OneTurnIsUnderway == Spec => []OneTurnAtATime
<1>1. BrokerInv => OneTurnAtATime
  <2> SUFFICES ASSUME BrokerInv, up = "up"
               PROVE  Cardinality({c \in Clients : Underway(c) /\ TurnThread(c) \notin loose}) <= 1
    BY DEF OneTurnAtATime
  <2> DEFINE Now == {c \in Clients : Underway(c) /\ TurnThread(c) \notin loose}
  <2>1. \A c, d \in Now : c = d
    <3>1. \A c \in Now : Kept(c)
      BY DEF BrokerInv, TurnsAreKept
    <3>2. QED
      BY <3>1 DEF BrokerInv, OneRecord, RecordsFit, Kept
  <2>2. Now = {} \/ \E c \in Clients : Now = {c}
    BY <2>1
  <2>3. Cardinality({}) = 0 /\ \A c \in Clients : Cardinality({c}) = 1
    BY FS_EmptySet, FS_Singleton
  <2>4. QED
    BY <2>2, <2>3
<1>2. QED
  BY <1>1, BrokerAlways, PTL

\* The completion of a turn the broker still counts goes to the client that
\* asked for it and to no other, whoever sends requests meanwhile
\* (server.ts: routeNotification).
THEOREM CompletionIsTheOwners == Spec => []CompletionGoesToOwner
<1>1. BrokerInv => CompletionGoesToOwner
  BY DEF BrokerInv
<1>2. QED
  BY <1>1, BrokerAlways, PTL

\* The turn of a client that is gone is interrupted, whichever the broker
\* learns first, the turn's id or the client's end (server.ts:
\* clearSocketOwnership, routeNotification).
THEOREM AbandonedTurnsAreInterrupted == Spec => []AbandonedTurnIsInterrupted
<1>1. BrokerInv => AbandonedTurnIsInterrupted
  BY DEF BrokerInv
<1>2. QED
  BY <1>1, BrokerAlways, PTL
=============================================================================
