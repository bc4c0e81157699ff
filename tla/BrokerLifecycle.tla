--------------------------- MODULE BrokerLifecycle ---------------------------
(***************************************************************************)
(* Who starts, finds and ends a workspace's shared broker                  *)
(* (broker/lifecycle.ts): commands that look for a recorded broker, probe  *)
(* it, tear down what does not answer and spawn their own; session ends    *)
(* that ask it to stop when idle (hooks/session-lifecycle.ts); the         *)
(* broker's own check of the record (broker/server.ts).  The record        *)
(* broker.json is read, written and removed without a lock.                *)
(*                                                                         *)
(* A broker is named for the command that spawned it; its socket lies in   *)
(* a directory of its own.                                                 *)
(***************************************************************************)
EXTENDS Integers, FiniteSets

CONSTANTS
    Users,        \* the commands that want an app-server
    SessionEnds,  \* the session ends
    Mine,         \* the commands whose jobs a session end stops
    Old,          \* the broker an earlier command left
    NoBroker,
    MaxSlow,      \* bound: probes, connects and requests that time out at a broker that runs
    MaxRetries    \* bound: the session end's second requests to a busy broker

ASSUME LifecycleAssumption ==
    /\ Mine \subseteq Users /\ Old \notin Users
    /\ NoBroker \notin Users \cup {Old} /\ Users \cap SessionEnds = {}
    /\ MaxSlow \in Nat /\ MaxRetries \in Nat

Brokers == Users \cup {Old}
Actors  == Users \cup SessionEnds

VARIABLES
    record,    \* the broker broker.json names
    phase,     \* each broker: none, starting, up, gone (it listens no more)
    files,     \* the brokers whose socket is on the disk
    looks,     \* the self-checks in a row that found another record
    orphan,    \* the brokers with a turn whose client died
    pc,        \* where each command and session end is
    seen,      \* the broker it goes by
    heard,     \* the commands whose first line their broker has read
    killed,    \* the session ends that stopped a Codex job
    retries,   \* each session end's second requests
    slow,      \* time-outs so far
    alone      \* history: the commands nobody's step has come between yet

brokerVars == <<phase, files, looks, orphan>>
lifeVars   == <<record, brokerVars, pc, seen, heard, killed, retries, slow, alone>>

Connected(c) == pc[c] \in {"initialize", "using"}
Clients(b)   == {c \in Users : Connected(c) /\ seen[c] = b}
InUse(b)     == Clients(b) \cap heard # {}
Reachable(b) == phase[b] = "up" /\ b \in files

LifeInit ==
    /\ record \in {NoBroker, Old}
    /\ \E p \in {"up", "gone"} : phase = [b \in Brokers |-> IF b = Old THEN p ELSE "none"]
    /\ files \in IF phase[Old] = "up" THEN {{Old}} ELSE {{}, {Old}}
    /\ looks = [b \in Brokers |-> 0] /\ orphan = {}
    /\ pc = [a \in Actors |-> "idle"] /\ seen = [a \in Actors |-> NoBroker]
    /\ heard = {} /\ killed = {} /\ retries = [e \in SessionEnds |-> 0] /\ slow = 0
    /\ alone = Users

Over           == {"done", "failed", "late"}
Running(a)     == pc[a] \notin {"idle"} \cup Over
Goes(a, to)    == pc' = [pc EXCEPT ![a] = to]
Slowly         == slow < MaxSlow /\ slow' = slow + 1
\* A command is disturbed by the steps of others between its first and last.
Disturbs(a)    == alone' = {c \in alone : IF c = a THEN pc'[c] # "done" ELSE ~Running(c)}

-----------------------------------------------------------------------------
(* Slips the checked properties must notice: each replaces the definition   *)
(* of the same arity named behind it.                                      *)

TrustRecord(b)    == TRUE                                     \* Ready
InFlightOnly(b)   == b \notin orphan                          \* Idle
NoRecordIsMine(b) == record \in {b, NoBroker}                 \* RecordIs
ClearsAnyway(e)   == FALSE                                    \* Stays

-----------------------------------------------------------------------------
(* ensureBrokerSession.                                                     *)

\* isBrokerEndpointReady.
Ready(b) == Reachable(b)

Load(c) ==
    /\ pc[c] = "idle"
    /\ seen' = [seen EXCEPT ![c] = record]
    /\ Goes(c, IF record = NoBroker THEN "spawn" ELSE "probe")
    /\ UNCHANGED <<record, brokerVars, heard, slow>>

Probe(c) ==
    /\ pc[c] = "probe"
    /\ \/ Ready(seen[c]) /\ Goes(c, "connect") /\ slow' = slow
       \/ ~Ready(seen[c]) /\ Goes(c, "teardown") /\ slow' = slow
       \/ Reachable(seen[c]) /\ Slowly /\ Goes(c, "teardown")
    /\ UNCHANGED <<record, brokerVars, seen, heard>>

\* teardownBrokerSession without a kill: the files of the session directory.
Teardown(a) ==
    /\ pc[a] = "teardown"
    /\ files' = files \ {seen[a]}
    /\ Goes(a, "exists")
    /\ UNCHANGED <<record, phase, looks, orphan, seen, heard, slow>>

Cleared(a) == IF a \in Users THEN "spawn" ELSE "done"

\* clearBrokerSession: existsSync, then unlinkSync, which throws ENOENT when
\* another has removed the file.
Exists(a) ==
    /\ pc[a] = "exists"
    /\ Goes(a, IF record = NoBroker THEN Cleared(a) ELSE "unlink")
    /\ UNCHANGED <<record, brokerVars, seen, heard, slow>>

Clear(a) ==
    /\ pc[a] = "unlink"
    /\ Goes(a, IF record = NoBroker THEN "failed" ELSE Cleared(a))
    /\ record' = NoBroker
    /\ UNCHANGED <<brokerVars, seen, heard, slow>>

Spawn(c) ==
    /\ pc[c] = "spawn"
    /\ phase' = [phase EXCEPT ![c] = "starting"]
    /\ seen' = [seen EXCEPT ![c] = c]
    /\ Goes(c, "wait")
    /\ UNCHANGED <<record, files, looks, orphan, heard, slow>>

\* waitForBrokerEndpoint: ready; or not, and its own child is stopped while
\* it runs and its files are removed: the command takes a private app-server.
Wait(c) ==
    /\ pc[c] = "wait"
    /\ \/ Reachable(c) /\ Goes(c, "save") /\ UNCHANGED <<phase, files, slow>>
       \/ /\ IF phase[c] = "gone" THEN slow' = slow ELSE Slowly
          /\ Goes(c, "done")
          /\ phase' = [phase EXCEPT ![c] = "gone"] /\ files' = files \ {c}
    /\ UNCHANGED <<record, looks, orphan, seen, heard>>

Save(c) ==
    /\ pc[c] = "save"
    /\ record' = c
    /\ Goes(c, "connect")
    /\ UNCHANGED <<brokerVars, seen, heard, slow>>

-----------------------------------------------------------------------------
(* The broker's client.                                                     *)

\* A broker that went away since it was found is an error of the command, and
\* so is one that is late.
Connect(c) ==
    /\ pc[c] = "connect"
    /\ \/ Goes(c, IF Reachable(seen[c]) THEN "initialize" ELSE "failed") /\ slow' = slow
       \/ Reachable(seen[c]) /\ Slowly /\ Goes(c, "late")
    /\ UNCHANGED <<record, brokerVars, seen, heard>>

\* The broker reads initialize and answers, or closes without reading it, or
\* does not answer in time: the client closes.
Initialize(c) ==
    /\ pc[c] = "initialize"
    /\ \/ phase[seen[c]] = "up" /\ heard' = heard \cup {c} /\ Goes(c, "using") /\ slow' = slow
       \/ phase[seen[c]] # "up" /\ heard' = heard /\ Goes(c, "failed") /\ slow' = slow
       \/ phase[seen[c]] = "up" /\ Slowly /\ heard' = heard /\ Goes(c, "late")
    /\ UNCHANGED <<record, brokerVars, seen>>

\* The command is through, or goes on privately and then drains the broker.
Close(c) ==
    /\ pc[c] = "using"
    /\ heard' = heard \ {c}
    /\ \E to \in {"done", "drain"} : Goes(c, to)
    /\ UNCHANGED <<record, brokerVars, seen, slow>>

\* The command is killed: the broker's turn of it goes on without an owner.
Lost(C) == {c \in C : Connected(c) /\ c \in heard}
Die(c) ==
    /\ Running(c)
    /\ Goes(c, "done")
    /\ orphan' = orphan \cup {seen[d] : d \in Lost({c})} /\ heard' = heard \ {c}
    /\ UNCHANGED <<record, phase, files, looks, seen, slow>>

-----------------------------------------------------------------------------
(* The broker.                                                              *)

Listen(b) ==
    /\ phase[b] = "starting"
    /\ \/ phase' = [phase EXCEPT ![b] = "up"] /\ files' = files \cup {b}
       \/ phase' = [phase EXCEPT ![b] = "gone"] /\ files' = files
    /\ UNCHANGED <<record, looks, orphan, pc, seen, heard, killed, retries, slow, alone>>

\* shutdown: the listener and its socket go first.
StopListening(b) ==
    /\ phase' = [phase EXCEPT ![b] = "gone"]
    /\ files' = files \ {b} /\ orphan' = orphan \ {b}

\* No other client has spoken: an abandoned turn does not count.
Idle(b) == ~InUse(b)

RecordIs(b) == record = b

\* The self-check: twice in a row the record is not this broker's.  Its
\* interval (60 s) is longer than its spawner's wait and save (2 s).
SelfCheck(b) ==
    /\ phase[b] = "up" /\ ~InUse(b) /\ b \notin orphan
    /\ b \in Users => pc[b] \notin {"wait", "save"}
    /\ IF RecordIs(b) THEN looks' = [looks EXCEPT ![b] = 0] /\ UNCHANGED <<phase, files, orphan>>
       ELSE IF looks[b] = 0 THEN looks' = [looks EXCEPT ![b] = 1] /\ UNCHANGED <<phase, files, orphan>>
       ELSE StopListening(b) /\ looks' = [looks EXCEPT ![b] = 0]
    /\ UNCHANGED <<record, pc, seen, heard, killed, retries, slow, alone>>

\* An abandoned turn completes.
TurnEnds(b) ==
    /\ b \in orphan
    /\ orphan' = orphan \ {b}
    /\ UNCHANGED <<record, phase, files, looks, pc, seen, heard, killed, retries, slow, alone>>

-----------------------------------------------------------------------------
(* sendBrokerShutdownIfIdle: what the asker learns.                         *)

Answer(b, said) ==
    \/ ~Reachable(b) /\ said = "refused" /\ UNCHANGED <<phase, files, orphan, slow>>
    \/ Reachable(b) /\ ~Idle(b) /\ said = "busy" /\ UNCHANGED <<phase, files, orphan, slow>>
    \/ Reachable(b) /\ Idle(b) /\ said = "accepted" /\ StopListening(b) /\ slow' = slow
    \/ Reachable(b) /\ Slowly /\ said = "timedOut" /\ UNCHANGED <<phase, files, orphan>>

Answers == {"refused", "busy", "accepted", "timedOut"}

\* drainMismatchingBroker asks and leaves everything else alone.
Drain(c) ==
    /\ pc[c] = "drain"
    /\ \E said \in Answers : Answer(seen[c], said)
    /\ Goes(c, "done")
    /\ UNCHANGED <<record, looks, seen, heard>>

Command(c) ==
    /\ \/ Load(c) \/ Probe(c) \/ Teardown(c) \/ Exists(c) \/ Clear(c) \/ Spawn(c) \/ Wait(c)
       \/ Save(c) \/ Connect(c) \/ Initialize(c) \/ Close(c) \/ Drain(c)
       \/ Die(c)
    /\ Disturbs(c)
    /\ UNCHANGED <<killed, retries>>

-----------------------------------------------------------------------------
(* handleSessionEnd: the record is read before the jobs are stopped.        *)

LoadAtEnd(e) ==
    /\ pc[e] = "idle"
    /\ seen' = [seen EXCEPT ![e] = record]
    /\ Goes(e, "sweep")
    /\ UNCHANGED <<record, brokerVars, heard, killed, retries, slow>>

\* sweepSessionJobs, unless the session goes on under another name.
Victims == {c \in Mine : Running(c)}
Sweep(e) ==
    /\ pc[e] = "sweep"
    /\ \E C \in {{}, Victims} :
          /\ pc' = [a \in Actors |-> IF a = e THEN "ask" ELSE IF a \in C THEN "done" ELSE pc[a]]
          /\ orphan' = orphan \cup {seen[c] : c \in Lost(C)} /\ heard' = heard \ C
          /\ killed' = IF C = {} THEN killed ELSE killed \cup {e}
    /\ UNCHANGED <<record, phase, files, looks, seen, retries, slow>>

Ask(e) ==
    /\ pc[e] = "ask"
    /\ IF seen[e] = NoBroker THEN Goes(e, "teardown") /\ UNCHANGED <<brokerVars, slow>>
       ELSE /\ \E said \in Answers : Answer(seen[e], said) /\ Goes(e, said)
            /\ looks' = looks
    /\ UNCHANGED <<record, seen, heard, killed, retries>>

\* A busy broker, and one that does not answer, stay with their record.
Stays(e) == pc[e] \in {"busy", "timedOut"}

Answered(e) ==
    /\ pc[e] \in Answers
    /\ \/ /\ pc[e] = "busy" /\ e \in killed /\ retries[e] < MaxRetries
          /\ retries' = [retries EXCEPT ![e] = @ + 1] /\ Goes(e, "ask")
       \/ /\ pc[e] = "busy" => (e \notin killed \/ retries[e] = MaxRetries)
          /\ Goes(e, IF Stays(e) THEN "done" ELSE "teardown") /\ retries' = retries
    /\ UNCHANGED <<record, brokerVars, seen, heard, killed, slow>>

End(e) ==
    /\ \/ LoadAtEnd(e) \/ Sweep(e) \/ Ask(e) \/ Answered(e)
       \/ (Teardown(e) \/ Exists(e) \/ Clear(e)) /\ UNCHANGED <<killed, retries>>
    /\ Disturbs(e)

-----------------------------------------------------------------------------
Broker(b) == Listen(b) \/ SelfCheck(b) \/ TurnEnds(b)

LifeNext ==
    \/ \E c \in Users : Command(c)
    \/ \E e \in SessionEnds : End(e)
    \/ \E b \in Brokers : Broker(b)

LifeSpec == LifeInit /\ [][LifeNext]_lifeVars

\* Commands and session ends go on, a broker's timer fires, and an abandoned
\* turn, which the broker interrupts, comes to its end.
FairSpec ==
    /\ LifeSpec
    /\ \A c \in Users : WF_lifeVars(Command(c))
    /\ \A e \in SessionEnds : WF_lifeVars(End(e))
    /\ \A b \in Brokers : WF_lifeVars(Listen(b)) /\ WF_lifeVars(SelfCheck(b)) /\ WF_lifeVars(TurnEnds(b))

-----------------------------------------------------------------------------
(* Properties.                                                              *)

(* A command whose initialize was answered keeps its broker until it       *)
(* closes: no idle stop, no self-check and no other command's clean-up     *)
(* takes it away (server.ts:488-500, 787-823).                             *)
ServedClientKept == \A c \in Users : pc[c] = "using" => phase[seen[c]] = "up"

(* Whatever a command finds recorded, it fails only when another command   *)
(* or a session end stepped in between: a broker that left after its probe, *)
(* a record cleared twice (lifecycle.ts:408-425, 388-394); or, and that is *)
(* `late` and not `failed`, because its broker did not answer in time.     *)
AloneNeverFails == \A c \in Users : pc[c] = "failed" => c \notin alone

(* Both: a command is served while it uses its broker, and fails only      *)
(* through another's step.                                                 *)
CommandsAreServed == ServedClientKept /\ AloneNeverFails

(* The record of a broker that serves a client is cleared only by one that *)
(* had read another record, or whose probe of it timed out                 *)
(* (session-lifecycle.ts:325-339).                                         *)
BusyRecordStays ==
    [][\A b \in Brokers :
          record = b /\ InUse(b) /\ record' = NoBroker
            => slow > 0 \/ \E a \in Actors : pc[a] = "unlink" /\ pc'[a] # "unlink" /\ seen[a] # b]_lifeVars

(* A broker the record does not name exits, once its clients are through   *)
(* (server.ts:787-823).                                                    *)
StrayExits ==
    \A b \in Brokers :
        phase[b] = "up" /\ record # b ~> phase[b] # "up" \/ record = b

=============================================================================
