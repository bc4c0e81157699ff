------------------------------ MODULE ClaudeTurn ------------------------------
(***************************************************************************)
(* One headless Claude turn (runtime/claude-runner.ts over                 *)
(* transport/claude-cli.ts): the companion reserves the session, starts    *)
(* `claude -p` in a process group of its own, reads the events the child   *)
(* writes to its pipe, stops it when it falls silent or outstays its       *)
(* result, and gives the session back when the child has ended.  POSIX.    *)
(* The turn is a writing role's: a denied edit makes it a failure.         *)
(***************************************************************************)
EXTENDS Naturals, Sequences

CONSTANTS
    Edits,           \* the edits the child may ask for
    MaxPipe,         \* bound: events written and not yet read
    MaxNoise,        \* bound: lines before the result that are no event
    MaxThrows        \* bound: progress callbacks that throw

VARIABLES
    turn,       \* new, prepare, spawn, note, run, over, threw, dead (the companion is gone)
    resumes,    \* the turn resumes a known session
    session,    \* the session the turn has learnt of is reserved: no, held, unguarded
    noted,      \* the reservation names the child
    agentsDir,  \* the run's temporary directory exists
    child,      \* none, runs, exited
    stubborn,   \* the child ignores the polite signal
    helpers,    \* what it started: "group", and "outside" a group of its own; both hold its pipes
    pipe,       \* the events it has written
    call,       \* each edit, for the child: new, asked, made, failed, denied, and then told so
    ending,     \* what it has said of itself: nothing, its name (init), success, error
    noise,
    exitSeen,   \* the exit event has come
    timer,      \* inactivity, postResult, drain, hardKill: off, set, due
    seen,       \* what the stream said of each call: nothing, asked, made, failed, denied
    result,     \* the result event read
    threw,      \* a callback has thrown
    throws,
    report,     \* none, ok, failed
    lost        \* history: the child's pid ("note") or events, in what is best effort only

vars == <<turn, resumes, session, noted, agentsDir, child, stubborn, helpers, pipe, call, ending,
          noise, exitSeen, timer, seen, result, threw, throws, report, lost>>

childVars  == <<child, stubborn, helpers, pipe, call, ending, noise>>
streamVars == <<seen, result>>
reserveVars == <<session, noted, agentsDir>>

Timers == {"inactivity", "postResult", "drain", "hardKill"}
AllOff == [t \in Timers |-> "off"]

Init ==
    /\ turn = "new" /\ resumes \in BOOLEAN /\ session = "no" /\ noted = FALSE /\ agentsDir = FALSE
    /\ child = "none" /\ stubborn \in BOOLEAN /\ helpers = {} /\ pipe = <<>>
    /\ call = [c \in Edits |-> "new"] /\ ending = "nothing" /\ noise = 0 /\ exitSeen = FALSE
    /\ timer = AllOff /\ seen = [c \in Edits |-> "nothing"] /\ result = "none"
    /\ threw = FALSE /\ throws = 0 /\ report = "none" /\ lost = {}

-----------------------------------------------------------------------------
(* The child, and what it starts *)

Emit(event) == Len(pipe) < MaxPipe /\ pipe' = Append(pipe, event)

childOnly == <<turn, resumes, reserveVars, exitSeen, timer, streamVars, threw, throws, report, lost>>

\* The init event, which names the session, comes first.
ChildInit ==
    /\ child = "runs" /\ ending = "nothing" /\ ending' = "init"
    /\ Emit([type |-> "init"])
    /\ UNCHANGED <<child, stubborn, helpers, call, noise, childOnly>>

ChildAsks(c) ==
    /\ child = "runs" /\ ending = "init" /\ call[c] = "new"
    /\ call' = [call EXCEPT ![c] = "asked"]
    /\ Emit([type |-> "use", call |-> c])
    /\ UNCHANGED <<child, stubborn, helpers, ending, noise, childOnly>>

\* The tool runs, and fails or not, or the permission is refused.
ChildActs(c) ==
    /\ child = "runs" /\ call[c] = "asked"
    /\ \E how \in {"made", "failed", "denied"} : call' = [call EXCEPT ![c] = how]
    /\ UNCHANGED <<child, stubborn, helpers, pipe, ending, noise, childOnly>>

Told == [made |-> "toldMade", failed |-> "toldFailed", denied |-> "toldDenied"]

ChildTells(c) ==
    /\ child = "runs" /\ call[c] \in {"made", "failed", "denied"}
    /\ Emit([type |-> "told", call |-> c, how |-> call[c]])
    /\ call' = [call EXCEPT ![c] = Told[@]]
    /\ UNCHANGED <<child, stubborn, helpers, ending, noise, childOnly>>

\* The result lists the calls that were denied.
ChildResult ==
    /\ child = "runs" /\ ending = "init"
    /\ \A c \in Edits : call[c] \in {"new", "toldMade", "toldFailed", "toldDenied"}
    /\ \E how \in {"success", "error"} : ending' = how /\ Emit([type |-> "result", how |-> how])
    /\ UNCHANGED <<child, stubborn, helpers, call, noise, childOnly>>

ChildForks ==
    /\ child = "runs" /\ ending = "init"
    /\ \E h \in {"group", "outside"} \ helpers : helpers' = helpers \cup {h}
    /\ UNCHANGED <<child, stubborn, pipe, call, ending, noise, childOnly>>

ChildExits ==
    /\ child = "runs" /\ child' = "exited"
    /\ UNCHANGED <<stubborn, helpers, pipe, call, ending, noise, childOnly>>

HelperEnds ==
    /\ \E h \in helpers : helpers' = helpers \ {h}
    /\ UNCHANGED <<child, stubborn, pipe, call, ending, noise, childOnly>>

-----------------------------------------------------------------------------
(* Timers and signals *)

\* The slip Armed must not make: the deadline after the result is re-armed
\* too.
ArmsDeadline(t, heard, over) ==
    [t EXCEPT !["inactivity"] = IF over THEN "off" ELSE IF heard THEN "set" ELSE @,
              !["postResult"] = IF heard /\ @ = "due" THEN "set" ELSE @]

\* armInactivity: every line and chunk re-arms it, until the result or the
\* exit.
Armed(t, heard, over) ==
    [t EXCEPT !["inactivity"] = IF over THEN "off" ELSE IF heard THEN "set" ELSE @]

\* A line that is no event, or a chunk of stderr; without end once the
\* result is there, or from a helper.
Noise ==
    /\ turn = "run" /\ (child = "runs" \/ helpers # {})
    /\ IF result = "none" /\ ~exitSeen THEN noise < MaxNoise /\ noise' = noise + 1 ELSE UNCHANGED noise
    /\ timer' = Armed(timer, TRUE, result # "none" \/ exitSeen)
    /\ UNCHANGED <<turn, resumes, reserveVars, child, stubborn, helpers, pipe, call, ending,
                   exitSeen, streamVars, threw, throws, report, lost>>

TimePasses(t) ==
    /\ timer[t] = "set" /\ timer' = [timer EXCEPT ![t] = "due"]
    /\ UNCHANGED <<turn, resumes, reserveVars, childVars, exitSeen, streamVars, threw, throws, report, lost>>

\* The polite signal to the group; the hard one when the child ignores it.
Signalled(hard) ==
    /\ child' = IF child = "runs" /\ (hard \/ ~stubborn) THEN "exited" ELSE child
    /\ helpers' = IF hard \/ ~stubborn THEN helpers \ {"group"} ELSE helpers
    /\ UNCHANGED <<stubborn, pipe, call, ending, noise>>

\* stopChild, from the inactivity timer or the deadline after the result.
StopChild(t) ==
    /\ turn = "run" /\ t \in {"inactivity", "postResult"} /\ timer[t] = "due"
    /\ Signalled(FALSE)
    /\ timer' = [timer EXCEPT ![t] = "off", !["hardKill"] = "set"]
    /\ UNCHANGED <<turn, resumes, reserveVars, exitSeen, streamVars, threw, throws, report, lost>>

HardKill ==
    /\ turn = "run" /\ timer["hardKill"] = "due"
    /\ Signalled(TRUE)
    /\ timer' = [timer EXCEPT !["hardKill"] = "off"]
    /\ UNCHANGED <<turn, resumes, reserveVars, exitSeen, streamVars, threw, throws, report, lost>>

-----------------------------------------------------------------------------
(* The turn *)

\* A resume reserves its session first; one that is busy, or a lock
\* directory that cannot be written, ends the turn.
Reserve ==
    /\ turn = "new"
    /\ \/ turn' = "prepare" /\ session' = IF resumes THEN "held" ELSE "no"
       \/ resumes /\ turn' = "threw" /\ UNCHANGED session
    /\ UNCHANGED <<resumes, noted, agentsDir, childVars, exitSeen, timer, streamVars, threw, throws, report, lost>>

\* The role's agents file.
Prepare ==
    /\ turn = "prepare"
    /\ \/ turn' = "spawn" /\ agentsDir' = TRUE /\ UNCHANGED session
       \/ turn' = "threw" /\ session' = "no" /\ UNCHANGED agentsDir
    /\ UNCHANGED <<resumes, noted, childVars, exitSeen, timer, streamVars, threw, throws, report, lost>>

\* A callback throws: noted, and the stream is read on.
MayThrow ==
    \/ UNCHANGED <<threw, throws>>
    \/ throws < MaxThrows /\ throws' = throws + 1 /\ threw' = TRUE

Spawn ==
    /\ turn = "spawn" /\ child = "none"
    /\ child' = "runs" /\ turn' = "note"
    /\ UNCHANGED <<resumes, reserveVars, stubborn, helpers, pipe, call, ending, noise,
                   exitSeen, timer, streamVars, threw, throws, report, lost>>

\* onSpawn notes the child on the session's lock, if there is one yet; a
\* write that fails loses the note, not the run.
NoteChild ==
    /\ turn = "note" /\ turn' = "run"
    /\ \/ noted' = (session = "held") /\ UNCHANGED lost
       \/ session = "held" /\ lost' = lost \cup {"note"} /\ UNCHANGED noted
    /\ timer' = [timer EXCEPT !["inactivity"] = "set"]
    /\ MayThrow
    /\ UNCHANGED <<resumes, session, agentsDir, childVars, exitSeen, streamVars, report>>

\* The slip WithChild must not make: a fresh session's lock names nobody.
ByItself == FALSE

\* The reservation of a fresh session takes the child along.
WithChild == TRUE

\* The slip TouchedBy must not make: an edit that was asked for is an edit.
AsAsked(c) == seen[c] # "nothing"

\* touchedFiles: an edit counts when its result says so.
TouchedBy(c) == seen[c] = "made"

ReadInit ==
    /\ Head(pipe).type = "init"
    /\ IF session = "no"
       THEN \/ session' = "held" /\ noted' = WithChild
            \/ session' = "unguarded" /\ UNCHANGED noted
       ELSE UNCHANGED <<session, noted>>
    /\ UNCHANGED streamVars

ReadCall ==
    /\ Head(pipe).type \in {"use", "told"}
    /\ seen' = [seen EXCEPT ![Head(pipe).call] = IF Head(pipe).type = "use" THEN "asked" ELSE Head(pipe).how]
    /\ UNCHANGED <<session, noted, result>>

ReadResult ==
    /\ Head(pipe).type = "result"
    /\ result' = Head(pipe).how
    /\ UNCHANGED <<session, noted, seen>>

ReadEvent ==
    /\ turn = "run" /\ pipe # <<>>
    /\ ReadInit \/ ReadCall \/ ReadResult
    /\ LET armed == Armed(timer, TRUE, exitSeen \/ result' # "none") IN
       timer' = IF result' # result /\ timer["postResult"] = "off"
                THEN [armed EXCEPT !["postResult"] = "set"] ELSE armed
    /\ pipe' = Tail(pipe)
    /\ MayThrow
    /\ UNCHANGED <<turn, resumes, agentsDir, child, stubborn, helpers, call, ending, noise, exitSeen, report, lost>>

\* The exit event: what is left of the group is killed.
SeeExit ==
    /\ turn = "run" /\ child = "exited" /\ ~exitSeen
    /\ exitSeen' = TRUE
    /\ helpers' = helpers \ {"group"}
    /\ timer' = [Armed(timer, FALSE, TRUE) EXCEPT !["drain"] = "set"]
    /\ UNCHANGED <<turn, resumes, reserveVars, child, stubborn, pipe, call, ending, noise,
                   streamVars, threw, throws, report, lost>>

\* The slips CloseComes must not make: the exit is the end of the stream,
\* or the result is.
OnExit   == exitSeen
OnResult == result # "none"

\* Node's close event: every pipe is read to its end.
CloseComes == exitSeen /\ pipe = <<>> /\ helpers = {}

DeniedEdit == \E c \in Edits : call[c] = "toldDenied"

\* The result stands, unless it lists a denied edit or a callback threw.
Verdict == result = "success" /\ ~threw /\ ~DeniedEdit

\* finish, and runClaudeTurn's finally: the session is given back.
Finish(ok) ==
    /\ turn' = "over" /\ timer' = AllOff
    /\ session' = "no" /\ agentsDir' = FALSE
    /\ report' = IF ok THEN "ok" ELSE "failed"
    /\ UNCHANGED <<resumes, noted, childVars, exitSeen, streamVars, threw, throws>>

StartFails ==
    /\ turn = "spawn" /\ Finish(FALSE) /\ UNCHANGED lost

Close ==
    /\ turn = "run" /\ CloseComes /\ Finish(Verdict) /\ UNCHANGED lost

\* The drain's deadline, by which what the child wrote should have been read.
DrainEnds ==
    /\ turn = "run" /\ timer["drain"] = "due" /\ Finish(Verdict)
    /\ lost' = IF pipe = <<>> THEN lost ELSE lost \cup {"events"}

-----------------------------------------------------------------------------
(* The companion's own end *)

Gone == turn' = "dead" /\ timer' = AllOff
goneVars == <<resumes, exitSeen, streamVars, threw, throws, report>>

\* A termination signal: the child is stopped for good before the session is
\* given back.
TerminationSignal ==
    /\ turn \in {"prepare", "spawn", "run"} /\ Gone
    /\ Signalled(TRUE) /\ session' = "no" /\ agentsDir' = FALSE
    /\ UNCHANGED <<noted, lost, goneVars>>

\* An uncaught exception: the exit hook kills the child; the lock is left to
\* the next run.
Uncaught ==
    /\ turn \in {"prepare", "spawn", "run"} /\ Gone
    /\ Signalled(TRUE) /\ UNCHANGED <<session, noted, agentsDir, lost, goneVars>>

\* SIGKILL, which comes between the spawn and the note too.
Killed ==
    /\ turn \in {"prepare", "spawn", "note", "run"} /\ Gone
    /\ lost' = IF turn = "note" /\ session = "held" THEN lost \cup {"note"} ELSE lost
    /\ UNCHANGED <<session, noted, agentsDir, childVars, goneVars>>

ChildStep ==
    \/ ChildInit \/ ChildResult \/ ChildForks \/ ChildExits \/ HelperEnds
    \/ \E c \in Edits : ChildAsks(c) \/ ChildActs(c) \/ ChildTells(c)
TurnStep ==
    \/ Reserve \/ Prepare \/ Spawn \/ NoteChild \/ ReadEvent \/ SeeExit
    \/ StartFails \/ Close \/ DrainEnds \/ HardKill
    \/ \E t \in Timers : TimePasses(t) \/ StopChild(t)
Next == ChildStep \/ Noise \/ TurnStep \/ TerminationSignal \/ Uncaught \/ Killed

\* The event loop reads what is there, and each timer comes; the child is
\* owed nothing.
Fairness ==
    /\ WF_vars(Reserve) /\ WF_vars(Prepare) /\ WF_vars(Spawn \/ StartFails) /\ WF_vars(NoteChild)
    /\ WF_vars(ReadEvent) /\ WF_vars(SeeExit) /\ WF_vars(Close) /\ WF_vars(DrainEnds)
    /\ WF_vars(HardKill)
    /\ \A t \in Timers : WF_vars(TimePasses(t)) /\ WF_vars(StopChild(t))

Spec == Init /\ [][Next]_vars /\ Fairness

-----------------------------------------------------------------------------

NothingRead == (ending = "nothing" \/ pipe # <<>>) /\ result = "none" /\ \A c \in Edits : seen[c] = "nothing"

(* While a Claude child runs, the session it resumed or has named to the   *)
(* turn is reserved with the child's pid on it, also when the companion    *)
(* was killed; but for a note that failed or that the companion was killed *)
(* before, and a fresh session whose reservation failed.  When the turn is *)
(* over, nothing of the child's group is left (claude-runner.ts:391-398,   *)
(* 464-488, 615-650; claude-cli.ts:346-421).                               *)
SessionHeldWhileChildRuns ==
    /\ turn = "over" => "group" \notin helpers
    /\ child = "runs" =>
          \/ session = "held" /\ (noted \/ turn = "note" \/ "note" \in lost)
          \/ session = "unguarded"
          \/ session = "no" /\ ~resumes /\ turn # "over" /\ NothingRead

(* A turn succeeds only when its child wrote a successful result, no edit   *)
(* was denied and every event was recorded, and names as touched no edit    *)
(* the child did not say was made; and it does succeed then, and names all  *)
(* of them, unless a callback threw or the wait for the pipes of an exited  *)
(* child ended on unread events, whatever the timers did meanwhile          *)
(* (claude-runner.ts:583-593, 732-789; claude-cli.ts:346-421).              *)
ReportIsTheChilds ==
    LET good == ending = "success" /\ ~threw /\ ~DeniedEdit IN
    turn = "over" =>
        /\ report = "ok" => good
        /\ \A c \in Edits : TouchedBy(c) => call[c] = "toldMade"
        /\ "events" \notin lost =>
              /\ good => report = "ok"
              /\ ~threw => \A c \in Edits : call[c] = "toldMade" => TouchedBy(c)

(* Every turn ends, however long its child writes after its result or its   *)
(* helpers hold the pipes.                                                   *)
TurnEnds == <>(turn \in {"over", "threw", "dead"})

=============================================================================
