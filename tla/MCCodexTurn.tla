---------------------------- MODULE MCCodexTurn ----------------------------
(* A Codex turn, its two halves each checked by itself: TurnRunner with two *)
(* runs that resume the same thread and a third one on a thread of its own, *)
(* whose environment names the broker; TurnCapture with one subagent that   *)
(* has up to two turns, two messages and two usage samples of the main      *)
(* turn, and lines of an older turn.  `part` names the half that runs; the  *)
(* other one has ended, so that the states add up and the fairness of both  *)
(* can be assumed.                                                          *)
EXTENDS TurnRunner, TurnCapture

CONSTANTS q, r, s, s1

VARIABLE part

MCRuns    == {q, r, s}
MCResumes == {q, r}
MCPinned  == {s}
MCSubs    == {s1}

\* What is left of a half that is not run.
RunnerEnded ==
    /\ pc = [x \in Runs |-> "ended"] /\ link = [x \in Runs |-> None]
    /\ only = [x \in Runs |-> FALSE] /\ sent = [x \in Runs |-> 0]
    /\ waited = [x \in Runs |-> FALSE] /\ error = [x \in Runs |-> "none"]
    /\ reserved = [t \in Threads |-> None]
    /\ up = FALSE /\ slot = None /\ orphan = None /\ asking = None /\ leaving = {}
    /\ running = {} /\ starts = [x \in Runs |-> 0] /\ twice = {} /\ faults = 0
CaptureEnded ==
    /\ phase = "over" /\ result = "inactive" /\ reply = Absent
    /\ buffer = <<>> /\ cap = NewCapture /\ gone = FALSE /\ named = FALSE /\ mine = "idle"
    /\ subs = [x \in Subs |-> [known |-> FALSE, turns |-> 0, up |-> FALSE]]
    /\ calls = [x \in Subs |-> "none"]
    /\ said = 0 /\ spent = 0 /\ stale = 0

MCInit ==
    \/ part = "runner" /\ Init /\ CaptureEnded
    \/ part = "capture" /\ CapInit /\ RunnerEnded
MCNext ==
    /\ UNCHANGED part
    /\ \/ part = "runner" /\ Next /\ UNCHANGED capVars
       \/ part = "capture" /\ CapNext /\ UNCHANGED vars
MCFairSpec == MCInit /\ [][MCNext]_<<part, vars, capVars>> /\ Fairness /\ CapFairness
=============================================================================
