------------------------- MODULE StopProcesses_proofs -------------------------
(***************************************************************************)
(* Proofs about StopProcesses: a signal to another process needs a look     *)
(* that said 'ours', a confirmed outcome is that of a process that is gone, *)
(* and a process that outlives a stop had the hard signal.  They rest on    *)
(* one fact about the host, that the recorded process never comes back, and *)
(* on what each step of a verdict has learnt so far.                        *)
(***************************************************************************)
EXTENDS StopProcesses, TLAPS

Loops     == {"first", "poll", "over", "term", "grace", "kill", "spared"}
Steps     == {"alive", "identity", "start", "again", "act", "signal", "poll", "group", "sweep",
              "over"}
Outcomes  == {"none", "exited", "foreign", "stopped", "unconfirmed", "failed"}
Recorded  == IF platform = "linux" THEN {LinuxStart(Boot, 1), LinuxStart(1, 1), NoStart}
                                   ELSE {WallStart(0), NoStart}

Process    == [gen : Nat \ {0}, st : {"runs", "zombie", "gone"}, marker : BOOLEAN, leads : BOOLEAN]
Place      == [loop : Loops, i : DOMAIN Targets, step : Steps]
Look       == [marker : {"yes", "no", "unknown"}, meant : BOOLEAN, veiled : BOOLEAN,
               verdict : {"none", "dead", "foreign", "unknown", "ours"}]
StopTarget == [outcome : Outcomes, phase : {"term", "kill"}, due : BOOLEAN, leaderGone : BOOLEAN]
Stray      == [pid : Pids, only : BOOLEAN, looked : BOOLEAN, veiled : BOOLEAN]

TypeOK ==
    /\ platform \in Platforms /\ mode \in {"stop", "sync", "timer"}
    /\ record \in [Pids -> Recorded]
    /\ proc \in [Pids -> Process] /\ group \in [Pids -> Nat]
    /\ at \in Place /\ look \in Look /\ target \in [Pids -> StopTarget]
    /\ failures \in Nat /\ strays \subseteq Stray /\ hard \subseteq Pids

\* The recorded process does not run, and never will again.
Gone(p) == ~(Own(p) /\ proc[p].st = "runs")

\* A group belongs to the generation that leads it; the recorded process
\* carries the marker and belongs to the recorded boot.
HostStands ==
    \A p \in Pids :
        /\ group[p] \in {0, proc[p].gen}
        /\ ~Gone(p) => proc[p].marker /\ record[p].boot # 1

\* What the verdict that is being formed of the target knows.
LookIsTrue ==
    /\ at.step = "start" => /\ platform = "linux" /\ look.marker \in {"yes", "no"}
                            /\ look.marker = "no" => Gone(Here)
                            /\ look.marker = "yes" /\ record[Here] = NoStart => look.meant
    /\ at.step = "again" /\ failures = 0 => Gone(Here)
    /\ at.step = "act" => /\ look.verdict \in {"dead", "foreign"} => Gone(Here)
                          /\ look.verdict = "unknown" /\ failures = 0 => Gone(Here)
                          /\ look.verdict = "ours" => look.meant \/ look.veiled
                          /\ look.verdict # "none"
    /\ at.step = "signal" => look.meant \/ look.veiled
    /\ at.step \in {"group", "sweep"} => Gone(Here)

\* A process that runs on had the hard signal, or something failed.
Struck(p) == failures = 0 => Gone(p) \/ p \in hard

\* What is said of a target is so.
TargetsStand ==
    \A p \in Pids :
        /\ target[p].leaderGone \/ target[p].outcome \in {"exited", "foreign", "stopped"} => Gone(p)
        /\ target[p].outcome = "failed" => failures # 0
        /\ target[p].outcome = "unconfirmed" /\ Posix => Struck(p)
        /\ target[p].phase = "kill" => Struck(p)

\* How far the loops are.
LoopsStand ==
    /\ mode = "stop" => at.loop \in {"first", "poll", "over"}
    /\ mode # "stop" => at.loop \in {"term", "grace", "kill", "over", "spared"} /\ at.step = "alive"
    /\ at.loop = "over" /\ mode = "stop" => at.step = "over" /\ \A p \in Pids : target[p].outcome # "none"
    /\ at.loop = "grace" => at.i = 1
    /\ at.loop = "kill" => \A k \in 1 .. (at.i - 1) : Struck(Targets[k])
    /\ at.loop = "over" /\ mode # "stop" /\ Posix => \A p \in Pids : Struck(p)

IInv == /\ TypeOK /\ HostStands /\ LookIsTrue /\ TargetsStand /\ LoopsStand
        /\ SignalNeedsOwnLook

-----------------------------------------------------------------------------
\* The verdict on a start and a look at the command line.
VerdictOn(o, m, r) == IdentityVerdict([start |-> o, marker |-> m], r)

\* What processVerdict says on Linux, where a start is an exact token.
LEMMA LinuxVerdict ==
    ASSUME NEW r \in {LinuxStart(Boot, 1), LinuxStart(1, 1), NoStart},
           NEW o, o = NoStart \/ \E g \in Nat \ {0} : o = LinuxStart(Boot, g),
           NEW m \in {"yes", "no"}, NEW v, v = VerdictOn(o, m, r)
    PROVE  /\ v \in {"ours", "foreign", "unknown"}
           /\ v = "ours" => (o = LinuxStart(Boot, 1) /\ r = o) \/ (r = NoStart /\ m = "yes")
           /\ v = "foreign" => m = "no" \/ r = LinuxStart(1, 1) \/ (o # NoStart /\ o # r)
           /\ v = "unknown" => o = NoStart
<1>1. /\ r # NoStart => r.kind = "linux"
      /\ o # NoStart => o.kind = "linux" /\ o # LinuxStart(1, 1)
      /\ NoStart.kind = "none"
  BY DEF LinuxStart, NoStart, Boot
<1>2. CompareStarts(o, r) = IF r = NoStart \/ o = NoStart THEN "unknown"
                            ELSE IF o = r THEN "match" ELSE "contradicts"
  BY <1>1 DEF CompareStarts
<1> QED
  BY <1>1, <1>2 DEF VerdictOn, IdentityVerdict

\* What it says where a start is a wall-clock time.
LEMMA WallVerdict ==
    ASSUME NEW r \in {WallStart(0), NoStart},
           NEW o, o = NoStart \/ \E t \in Int : o = WallStart(t),
           NEW m \in {"yes", "no", "unknown"}, NEW v, v = VerdictOn(o, m, r)
    PROVE  /\ v \in {"ours", "foreign", "unknown"}
           /\ v = "ours" => m # "no" /\ (r = NoStart \/ (o # NoStart /\ InWindow(o, r)))
           /\ v = "ours" /\ m = "unknown" => r # NoStart
           /\ v = "foreign" => m = "no" \/ (o # NoStart /\ r = WallStart(0) /\ ~InWindow(o, r))
           /\ v = "unknown" => o = NoStart \/ m = "unknown"
<1>1. /\ r # NoStart => r.kind = "wall" /\ r = WallStart(0)
      /\ o # NoStart => o.kind = "wall"
      /\ NoStart.kind = "none"
  BY DEF WallStart, NoStart
<1>2. o # NoStart /\ o = r => InWindow(o, r)
  BY WindowAssumption DEF InWindow, WallStart
<1>3. CompareStarts(o, r) = IF r = NoStart \/ o = NoStart THEN "unknown"
                            ELSE IF InWindow(o, r) THEN "match" ELSE "contradicts"
  BY <1>1, <1>2 DEF CompareStarts
<1> QED
  BY <1>1, <1>3 DEF VerdictOn, IdentityVerdict

\* The caller is at one of the targets.
LEMMA HereIsAPid == TypeOK => Here \in Pids
BY TargetsAssumption DEF TypeOK, Place, Pids, Here

\* What a job's record has of a process, by platform.
LEMMA RecordFacts ==
    ASSUME TypeOK, NEW p \in Pids
    PROVE  /\ Start(p) = record[p]
           /\ platform = "linux" => record[p] \in {LinuxStart(Boot, 1), LinuxStart(1, 1), NoStart}
           /\ platform # "linux" => record[p] \in {WallStart(0), NoStart}
BY DEF TypeOK, Recorded, Start, Comparable, LinuxStart, WallStart, NoStart

\* Nothing has been looked at or signalled at first.
LEMMA InitInv == Init => IInv
<1> SUFFICES ASSUME Init PROVE IInv
  OBVIOUS
<1>1. 1 \in DOMAIN Targets
  BY TargetsAssumption
<1>2. PICK leads \in [Pids -> BOOLEAN] :
         proc = [p \in Pids |-> IF record[p].boot = 1 THEN Nobody(1) ELSE Fresh(1, TRUE, leads[p])]
  BY DEF Init
<1>3. \A p \in Pids : proc[p] \in Process /\ proc[p].gen = 1
                       /\ (proc[p].st = "runs" <=> record[p].boot # 1)
                       /\ (proc[p].st = "runs" => proc[p].marker)
  BY <1>2 DEF Nobody, Fresh, Process
<1>4. proc \in [Pids -> Process]
  BY <1>2, <1>3
<1>5. /\ at \in Place /\ at.i = 1 /\ at.step = "alive"
      /\ at.loop = IF mode = "stop" THEN "first" ELSE "term"
  BY <1>1 DEF Init, Place, Loops, Steps
<1>6. look \in Look
  BY DEF Init, NoLook, Look
<1>7. target \in [Pids -> StopTarget]
  BY DEF Init, StopTarget, Outcomes
<1>8. group \in [Pids -> Nat]
  BY DEF Init
<1>9. TypeOK
  BY <1>4, <1>5, <1>6, <1>7, <1>8 DEF Init, TypeOK, Recorded
<1>10. HostStands
  BY <1>3 DEF Init, HostStands, Gone, Own
<1>11. LookIsTrue /\ TargetsStand /\ LoopsStand
  BY <1>5 DEF Init, LookIsTrue, TargetsStand, LoopsStand
<1> QED
  BY <1>9, <1>10, <1>11 DEF IInv, SignalNeedsOwnLook, Init

-----------------------------------------------------------------------------
(* What a step of each kind has to keep.                                    *)

\* A process that had the hard signal stays struck.
LEMMA StruckStays ==
    ASSUME \A p \in Pids : Gone(p) => Gone(p)', hard \subseteq hard', failures' = 0 => failures = 0
    PROVE  \A p \in Pids : Struck(p) => Struck(p)'
BY DEF Struck

\* While the host stands still, who is gone stays the same.
LEMMA GoneStays ==
    ASSUME UNCHANGED host
    PROVE  \A p \in Pids : Gone(p)' = Gone(p)
BY DEF Gone, Own, host

\* A step of the host: no recorded process comes back.
LEMMA HostStep ==
    ASSUME IInv, proc' \in [Pids -> Process], group' \in [Pids -> Nat], HostStands',
           \A p \in Pids : Gone(p) => Gone(p)',
           UNCHANGED <<setup, at, look, target, failures, history>>
    PROVE  IInv'
<1>1. /\ Here' = Here /\ Posix' = Posix /\ mode' = mode /\ platform' = platform /\ record' = record
      /\ at' = at /\ look' = look /\ target' = target /\ failures' = failures
      /\ strays' = strays /\ hard' = hard
  BY DEF Here, Posix, setup, history
<1>2. \A p \in Pids : Struck(p) => Struck(p)'
  BY <1>1, StruckStays
<1>3. TypeOK'
  BY <1>1 DEF IInv, TypeOK, Recorded
<1>4. LookIsTrue'
  BY <1>1, HereIsAPid DEF IInv, LookIsTrue
<1>5. TargetsStand'
  BY <1>1, <1>2 DEF IInv, TargetsStand
<1>6. LoopsStand'
  <2>1. \A k \in DOMAIN Targets : Targets[k] \in Pids
    BY DEF Pids
  <2>2. at.i \in DOMAIN Targets /\ \A k \in 1 .. (at.i - 1) : k \in DOMAIN Targets
    BY TargetsAssumption DEF IInv, TypeOK, Place
  <2> QED
    BY <1>1, <1>2, <2>1, <2>2 DEF IInv, LoopsStand
<1> QED
  BY <1>1, <1>3, <1>4, <1>5, <1>6 DEF IInv, SignalNeedsOwnLook

\* Nothing new is said of the targets.
LEMMA TargetsKept ==
    ASSUME IInv, UNCHANGED <<setup, host, target>>, hard \subseteq hard', failures' = 0 => failures = 0
    PROVE  target' \in [Pids -> StopTarget] /\ TargetsStand'
<1>1. \A p \in Pids : (Gone(p)' = Gone(p)) /\ (Struck(p) => Struck(p)')
  BY GoneStays, StruckStays
<1> QED
  BY <1>1 DEF IInv, TypeOK, TargetsStand, Posix, setup

\* A step within a verdict: where the caller is, and what it has read.
LEMMA LookStep ==
    ASSUME IInv, mode = "stop", at.step # "over", NEW s \in Steps \ {"over"}, Step(s),
           look' \in Look, failures' \in Nat, failures' = 0 => failures = 0,
           UNCHANGED <<setup, host, history>>, LookIsTrue',
           target' \in [Pids -> StopTarget], TargetsStand'
    PROVE  IInv'
<1>1. /\ at \in Place /\ at.loop \in {"first", "poll"}
  BY DEF IInv, TypeOK, LoopsStand
<1>2. at' \in Place /\ at'.loop = at.loop
  BY <1>1 DEF Step, Place
<1>3. \A p \in Pids : (Gone(p)' = Gone(p)) /\ (Struck(p) => Struck(p)')
  BY GoneStays, StruckStays DEF history
<1>4. TypeOK'
  BY <1>2 DEF IInv, TypeOK, Recorded, setup, host, history
<1>5. HostStands'
  BY <1>3 DEF IInv, HostStands, host, setup
<1>7. LoopsStand'
  BY <1>1, <1>2 DEF LoopsStand, setup
<1> QED
  BY <1>4, <1>5, <1>7 DEF IInv, SignalNeedsOwnLook, history

\* A step that is done with a target for this pass.
LEMMA TargetStep ==
    ASSUME IInv, mode = "stop", at.step # "over", NextTarget(Here),
           target' \in [Pids -> StopTarget], TargetsStand', failures' \in Nat,
           strays' \subseteq Stray, hard' \subseteq Pids, SignalNeedsOwnLook',
           UNCHANGED <<setup, host>>
    PROVE  IInv'
<1>1. /\ at \in Place /\ at.loop \in {"first", "poll"}
  BY DEF IInv, TypeOK, LoopsStand
<1>2. /\ at' \in Place /\ at'.loop \in {"first", "poll", "over"}
      /\ at'.step \in {"alive", "poll", "over"}
      /\ at'.loop = "over" => at'.step = "over" /\ AllSettled
  <2>1. at.i < Len(Targets) => at.i + 1 \in DOMAIN Targets
    BY <1>1, TargetsAssumption DEF Place
  <2>2. 1 \in DOMAIN Targets
    BY TargetsAssumption
  <2>3. CASE at.i < Len(Targets)
    <3>1. at' = [at EXCEPT !.i = @ + 1, !.step = IF at.loop = "first" THEN "alive" ELSE "poll"]
      BY <2>3 DEF NextTarget
    <3> QED
      BY <1>1, <2>1, <2>3, <3>1 DEF Place, Loops, Steps
  <2>4. CASE ~(at.i < Len(Targets)) /\ AllSettled
    <3>1. at' = [at EXCEPT !.loop = "over", !.step = "over"]
      BY <2>4 DEF NextTarget
    <3> QED
      BY <1>1, <2>4, <3>1 DEF Place, Loops, Steps
  <2>5. CASE ~(at.i < Len(Targets)) /\ ~AllSettled
    <3>1. at' = [loop |-> "poll", i |-> 1, step |-> "poll"]
      BY <2>5 DEF NextTarget
    <3> QED
      BY <2>2, <3>1 DEF Place, Loops, Steps
  <2> QED
    BY <2>3, <2>4, <2>5
<1>3. look' \in Look
  BY DEF NextTarget, NoLook, Look
<1>4. TypeOK'
  BY <1>2, <1>3 DEF IInv, TypeOK, Recorded, setup, host
<1>5. HostStands'
  BY GoneStays DEF IInv, HostStands, host, setup
<1>6. LookIsTrue'
  BY <1>2 DEF LookIsTrue
<1>7. LoopsStand'
  BY <1>2 DEF LoopsStand, AllSettled, setup
<1> QED
  BY <1>4, <1>5, <1>6, <1>7 DEF IInv

\* A target that is given an outcome.
LEMMA OutcomeStands ==
    ASSUME IInv, NEW h, h = Here, NEW o \in Outcomes, Outcome(o), UNCHANGED <<setup, host>>,
           hard \subseteq hard', failures' = 0 => failures = 0,
           o \in {"exited", "foreign", "stopped"} => Gone(h),
           o = "failed" => failures' # 0,
           o = "unconfirmed" /\ Posix => Struck(h)'
    PROVE  target' \in [Pids -> StopTarget] /\ TargetsStand'
<1>1. h \in Pids /\ target \in [Pids -> StopTarget]
  BY HereIsAPid DEF IInv, TypeOK
<1>2. \A p \in Pids : /\ target'[p] \in StopTarget
                      /\ target'[p].leaderGone = target[p].leaderGone
                      /\ target'[p].phase = target[p].phase
                      /\ target'[p].outcome = IF p = h THEN o ELSE target[p].outcome
  BY <1>1 DEF Outcome, StopTarget
<1>3. target' \in [Pids -> StopTarget]
  BY <1>1, <1>2 DEF Outcome
<1>4. \A p \in Pids : (Gone(p)' = Gone(p)) /\ (Struck(p) => Struck(p)')
  BY GoneStays, StruckStays
<1>5. TargetsStand'
  <2> SUFFICES ASSUME NEW p \in Pids
               PROVE  /\ target'[p].leaderGone \/ target'[p].outcome \in {"exited", "foreign", "stopped"} => Gone(p)'
                      /\ target'[p].outcome = "failed" => failures' # 0
                      /\ target'[p].outcome = "unconfirmed" /\ Posix' => Struck(p)'
                      /\ target'[p].phase = "kill" => Struck(p)'
    BY DEF TargetsStand
  <2>1. Posix' = Posix
    BY DEF Posix, setup
  <2>2. CASE p = h
    BY <1>2, <1>4, <2>1, <2>2 DEF IInv, TargetsStand
  <2>3. CASE p # h
    BY <1>2, <1>4, <2>1, <2>3 DEF IInv, TargetsStand
  <2> QED
    BY <2>2, <2>3
<1> QED
  BY <1>3, <1>5

-----------------------------------------------------------------------------
(* The host.                                                                *)

\* A process exits by itself.
LEMMA ExitStep ==
    ASSUME IInv, NEW p \in Pids, Exit(p)
    PROVE  IInv'
<1>1. proc \in [Pids -> Process] /\ proc' = [proc EXCEPT ![p].st = IF Posix THEN "zombie" ELSE "gone"]
  BY DEF IInv, TypeOK, Exit
<1>2. \A q \in Pids : /\ proc'[q] \in Process /\ proc'[q].gen = proc[q].gen /\ proc'[q].marker = proc[q].marker
                      /\ proc'[q].st = "runs" => proc[q].st = "runs"
  BY <1>1 DEF Process
<1>3. proc' \in [Pids -> Process]
  BY <1>1, <1>2
<1>4. \A q \in Pids : Gone(q) => Gone(q)'
  BY <1>2 DEF Gone, Own
<1>5. HostStands'
  BY <1>2, <1>4 DEF IInv, HostStands, Exit, setup
<1> QED
  BY <1>3, <1>4, <1>5, HostStep DEF IInv, TypeOK, Exit

\* Its pid is free.
LEMMA ReapStep ==
    ASSUME IInv, NEW p \in Pids, Reap(p)
    PROVE  IInv'
<1>1. proc \in [Pids -> Process] /\ proc' = [proc EXCEPT ![p].st = "gone"]
  BY DEF IInv, TypeOK, Reap
<1>2. \A q \in Pids : /\ proc'[q] \in Process /\ proc'[q].gen = proc[q].gen /\ proc'[q].marker = proc[q].marker
                      /\ proc'[q].st = "runs" => proc[q].st = "runs"
  BY <1>1 DEF Process
<1>3. proc' \in [Pids -> Process]
  BY <1>1, <1>2
<1>4. \A q \in Pids : Gone(q) => Gone(q)'
  BY <1>2 DEF Gone, Own
<1>5. HostStands'
  BY <1>2, <1>4 DEF IInv, HostStands, Reap, setup
<1> QED
  BY <1>3, <1>4, <1>5, HostStep DEF IInv, TypeOK, Reap

\* The rest of a group exits.
LEMMA MembersExitStep ==
    ASSUME IInv, NEW p \in Pids, MembersExit(p)
    PROVE  IInv'
<1>1. \A q \in Pids : (Gone(q)' = Gone(q)) /\ group'[q] \in {group[q], 0}
  BY DEF IInv, TypeOK, MembersExit, Gone, Own
<1>2. group' \in [Pids -> Nat]
  BY DEF IInv, TypeOK, MembersExit
<1>3. HostStands'
  BY <1>1 DEF IInv, HostStands, MembersExit, setup
<1> QED
  BY <1>1, <1>2, <1>3, HostStep DEF IInv, TypeOK, MembersExit

\* Another process gets the pid: it is not the recorded one.
LEMMA ReuseStep ==
    ASSUME IInv, NEW p \in Pids, Reuse(p)
    PROVE  IInv'
<1>1. PICK marker \in BOOLEAN, leads \in BOOLEAN, members \in BOOLEAN :
         /\ proc' = [proc EXCEPT ![p] = Fresh(@.gen + 1, marker, leads)]
         /\ group' = [group EXCEPT ![p] = IF members THEN proc[p].gen + 1 ELSE 0]
  BY DEF Reuse
<1>2. proc[p].gen \in Nat \ {0} /\ proc \in [Pids -> Process] /\ group \in [Pids -> Nat]
  BY DEF IInv, TypeOK, Process
<1>3. Fresh(proc[p].gen + 1, marker, leads) \in Process
  BY <1>2 DEF Fresh, Process
<1>4. proc' \in [Pids -> Process] /\ group' \in [Pids -> Nat]
  BY <1>1, <1>2, <1>3
<1>5. proc'[p].gen = proc[p].gen + 1 /\ proc'[p].gen # 1 /\ group'[p] \in {0, proc'[p].gen}
  BY <1>1, <1>2 DEF Fresh
<1>6. \A q \in Pids : q # p => proc'[q] = proc[q] /\ group'[q] = group[q]
  BY <1>1, <1>2
<1>7. \A q \in Pids : (Gone(q) => Gone(q)') /\ (~Gone(q)' => q # p)
  BY <1>5, <1>6 DEF Gone, Own
<1>8. HostStands'
  BY <1>5, <1>6, <1>7 DEF IInv, HostStands, Reuse, setup
<1> QED
  BY <1>4, <1>7, <1>8, HostStep DEF Reuse

\* Time passes for a target: nothing that is said of it changes.
LEMMA ElapseStep ==
    ASSUME IInv, NEW p \in Pids, Elapse(p)
    PROVE  IInv'
<1>1. target \in [Pids -> StopTarget] /\ target' = [target EXCEPT ![p].due = TRUE]
  BY DEF IInv, TypeOK, Elapse
<1>2. \A q \in Pids : /\ target'[q] \in StopTarget /\ target'[q].outcome = target[q].outcome
                      /\ target'[q].phase = target[q].phase /\ target'[q].leaderGone = target[q].leaderGone
  BY <1>1 DEF StopTarget
<1>3. target' \in [Pids -> StopTarget]
  BY <1>1, <1>2
<1>4. \A q \in Pids : (Gone(q)' = Gone(q)) /\ (Struck(q)' = Struck(q))
  BY GoneStays DEF Elapse, Struck, history
<1>5. /\ Here' = Here /\ Posix' = Posix /\ mode' = mode /\ platform' = platform /\ record' = record
      /\ at' = at /\ look' = look /\ failures' = failures /\ strays' = strays /\ hard' = hard
      /\ proc' = proc /\ group' = group
  BY DEF Elapse, setup, host, history, Here, Posix
<1>6. TypeOK'
  BY <1>3, <1>5 DEF IInv, TypeOK, Recorded
<1>7. HostStands' /\ LookIsTrue'
  BY <1>4, <1>5, HereIsAPid DEF IInv, HostStands, LookIsTrue
<1>8. TargetsStand'
  BY <1>2, <1>4, <1>5 DEF IInv, TargetsStand
<1>9. LoopsStand'
  <2>1. \A k \in DOMAIN Targets : Targets[k] \in Pids
    BY DEF Pids
  <2>2. at.i \in DOMAIN Targets /\ \A k \in 1 .. (at.i - 1) : k \in DOMAIN Targets
    BY TargetsAssumption DEF IInv, TypeOK, Place
  <2> QED
    BY <1>2, <1>4, <1>5, <2>1, <2>2 DEF IInv, LoopsStand
<1> QED
  BY <1>5, <1>6, <1>7, <1>8, <1>9 DEF IInv, SignalNeedsOwnLook

-----------------------------------------------------------------------------
(* The verdict.                                                             *)

\* What the target is when the caller is at it.
LEMMA HereKept ==
    ASSUME IInv, NEW s \in Steps, Step(s), UNCHANGED host
    PROVE  at'.step = s /\ Here' = Here /\ Here \in Pids /\ (Gone(Here)' = Gone(Here))
<1>1. at' = [at EXCEPT !.step = s] /\ at \in Place
  BY DEF Step, IInv, TypeOK
<1> QED
  BY <1>1, GoneStays, HereIsAPid DEF Place, Here, IInv

\* kill(pid, 0), the look that comes first.
LEMMA LookAliveStep ==
    ASSUME IInv, LookAlive
    PROVE  IInv'
<1>0. UNCHANGED <<setup, host, target, failures, history>> /\ mode = "stop" /\ at.step = "alive"
  BY DEF LookAlive
<1>1. Here \in Pids /\ look \in Look /\ failures \in Nat
  BY HereIsAPid DEF IInv, TypeOK
<1>2. CASE FromEarlierBoot(platform, Start(Here), Boot) \/ HasExited(Here)
  <2>1. Verdict("dead")
    BY <1>2 DEF LookAlive
  <2>2. Step("act") /\ look' \in Look /\ look'.verdict = "dead"
    BY <1>1, <2>1 DEF Verdict, Look
  <2>3. Gone(Here)
    <3>1. CASE HasExited(Here)
      BY <1>1, <3>1 DEF HasExited, Gone, IInv, TypeOK
    <3>2. CASE FromEarlierBoot(platform, Start(Here), Boot)
      <4>1. platform = "linux" /\ record[Here].boot # Boot /\ record[Here].boot # 0 /\ record[Here].kind = "linux"
        BY <1>1, <3>2, RecordFacts DEF FromEarlierBoot, IInv
      <4>2. record[Here].boot = 1
        BY <1>1, <4>1, RecordFacts DEF IInv, LinuxStart, NoStart
      <4> QED
        BY <1>1, <4>2 DEF IInv, HostStands
    <3> QED
      BY <1>2, <3>1, <3>2
  <2>4. LookIsTrue'
    BY <1>0, <2>2, <2>3, HereKept DEF LookIsTrue, Steps
  <2> QED
    BY <1>0, <1>1, <2>2, <2>4, LookStep, TargetsKept DEF Steps, history
<1>3. CASE ~(FromEarlierBoot(platform, Start(Here), Boot) \/ HasExited(Here))
  <2>1. look' = NoLook /\ Step("identity")
    BY <1>3 DEF LookAlive
  <2>2. LookIsTrue' /\ look' \in Look
    BY <1>0, <2>1, HereKept DEF LookIsTrue, Steps, NoLook, Look
  <2> QED
    BY <1>0, <1>1, <2>1, <2>2, LookStep, TargetsKept DEF Steps, history
<1> QED
  BY <1>2, <1>3

\* What the command line of the target tells.
LEMMA CommandFacts ==
    ASSUME IInv, NEW h \in Pids
    PROVE  /\ CommandMarks(h) \in {"yes", "no"}
           /\ CommandMarks(h) = "no" => Gone(h)
           /\ CommandMarks(h) = "yes" /\ record[h] = NoStart => Meant(h)
<1>1. CommandMarks(h) = "no" => Gone(h)
  BY DEF CommandMarks, IInv, HostStands, Gone
<1>2. CommandMarks(h) = "yes" /\ record[h] = NoStart => Meant(h)
  BY RecordFacts DEF CommandMarks, Meant, Alike, IInv
<1> QED
  BY <1>1, <1>2 DEF CommandMarks

\* What the one probe of the other platforms tells, with or without a start or
\* a command line.
LEMMA ProbeFacts ==
    ASSUME IInv, NEW h \in Pids, platform # "linux", NEW o \in {NoStart, Observed(h)},
           NEW m \in {"unknown", CommandMarks(h)},
           NEW v, v = IdentityVerdict([start |-> o, marker |-> m], Start(h))
    PROVE  /\ v \in {"ours", "foreign", "unknown"} /\ m \in {"yes", "no", "unknown"}
           /\ v = "foreign" => Gone(h)
           /\ v = "unknown" => o = NoStart \/ m = "unknown"
           /\ v = "ours" => Meant(h) \/ (m = "unknown" /\ Timely(h))
<1>1. Start(h) = record[h] /\ record[h] \in {WallStart(0), NoStart}
  BY RecordFacts DEF IInv
<1>2. proc[h].gen \in Nat \ {0} /\ StartedAt(proc[h].gen) \in Int
  BY WindowAssumption DEF IInv, TypeOK, Process, StartedAt
<1>3. Observed(h) = WallStart(StartedAt(proc[h].gen)) /\ Observed(h) # NoStart
  BY DEF Observed, WallStart, NoStart
<1>4. o = NoStart \/ \E t \in Int : o = WallStart(t)
  BY <1>2, <1>3
<1>5. m \in {"yes", "no", "unknown"} /\ (m = "no" => Gone(h)) /\ CommandMarks(h) # "unknown"
  BY CommandFacts
<1>6. /\ v \in {"ours", "foreign", "unknown"}
      /\ v = "ours" => m # "no" /\ (record[h] = NoStart \/ (o # NoStart /\ InWindow(o, record[h])))
      /\ v = "ours" /\ m = "unknown" => record[h] # NoStart
      /\ v = "foreign" => m = "no" \/ (o # NoStart /\ record[h] = WallStart(0) /\ ~InWindow(o, record[h]))
      /\ v = "unknown" => o = NoStart \/ m = "unknown"
  <2>1. v = VerdictOn(o, m, record[h])
    BY <1>1 DEF VerdictOn
  <2> QED
    BY <1>1, <1>4, <1>5, <2>1, WallVerdict
<1>7. v = "ours" => Meant(h) \/ (m = "unknown" /\ Timely(h))
  <2>1. CASE v = "ours" /\ record[h] = NoStart
    BY <1>5, <1>6, <2>1, CommandFacts
  <2>2. CASE v = "ours" /\ record[h] # NoStart
    <3>1. Timely(h)
      BY <1>1, <1>6, <2>2 DEF Timely
    <3>2. m # "unknown" => proc[h].marker
      BY <1>6, <2>2 DEF CommandMarks
    <3> QED
      BY <3>1, <3>2 DEF Meant, Alike
  <2> QED
    BY <2>1, <2>2
<1>8. Own(h) => InWindow(Observed(h), WallStart(0))
  BY <1>3, WindowAssumption DEF Own, StartedAt, InWindow, WallStart
<1>9. v = "foreign" => Gone(h)
  BY <1>5, <1>6, <1>8 DEF Gone
<1> QED
  BY <1>5, <1>6, <1>7, <1>9

\* A verdict that is so.
LEMMA VerdictStep ==
    ASSUME IInv, mode = "stop", at.step # "over", NEW h, h = Here,
           NEW v \in {"dead", "foreign", "unknown", "ours"}, Step("act"),
           look' \in Look, look'.verdict = v,
           failures' \in Nat, failures' = 0 => failures = 0,
           v \in {"dead", "foreign"} => Gone(h),
           v = "unknown" /\ failures' = 0 => Gone(h),
           v = "ours" => look'.meant \/ look'.veiled,
           UNCHANGED <<setup, host, target, history>>
    PROVE  IInv'
<1>1. LookIsTrue'
  BY HereKept DEF LookIsTrue, Steps
<1> QED
  BY <1>1, LookStep, TargetsKept DEF Steps, history

\* What is written down of a verdict: on an identity ...
LEMMA JudgedFacts ==
    ASSUME IInv, NEW h, h = Here, NEW o, NEW m \in {"yes", "no", "unknown"}, Judged(o, m),
           NEW v \in {"foreign", "unknown", "ours"},
           v = IdentityVerdict([start |-> o, marker |-> m], Start(h))
    PROVE  /\ Step("act") /\ look' \in Look /\ look'.verdict = v
           /\ look.meant \/ Meant(h) => look'.meant
           /\ m = "unknown" /\ Timely(h) => look'.veiled
<1>1. look \in Look
  BY DEF IInv, TypeOK
<1>2. look' = [look EXCEPT !.verdict = v, !.meant = @ \/ Meant(h),
                          !.veiled = (m = "unknown" /\ Timely(h))]
  BY DEF Judged
<1>3. (look.meant \/ Meant(h)) \in BOOLEAN /\ (m = "unknown" /\ Timely(h)) \in BOOLEAN
  OBVIOUS
<1> QED
  BY <1>1, <1>2, <1>3 DEF Look, Judged

\* ... and on whether the process is there at all.
LEMMA VerdictFacts ==
    ASSUME IInv, NEW v \in {"dead", "unknown"}, Verdict(v)
    PROVE  Step("act") /\ look' \in Look /\ look'.verdict = v
<1>1. look \in Look
  BY DEF IInv, TypeOK
<1> QED
  BY <1>1 DEF Verdict, Look

\* Only stopProcesses looks at an identity at all.
LEMMA ModeIsStop == IInv /\ at.step # "alive" => mode = "stop"
BY DEF IInv, LoopsStand

\* The command line, or the one probe that tells start and command line.
LEMMA ReadIdentityStep ==
    ASSUME IInv, ReadIdentity
    PROVE  IInv'
<1>0. UNCHANGED <<setup, host, target, failures, history>> /\ mode = "stop" /\ at.step = "identity"
  BY ModeIsStop DEF ReadIdentity
<1>1. Here \in Pids /\ look \in Look /\ failures \in Nat
  BY HereIsAPid DEF IInv, TypeOK
<1>2. CASE proc[Here].st = "gone"
  <2>1. look' = NoLook /\ Step("again")
    BY <1>2 DEF ReadIdentity
  <2>2. LookIsTrue' /\ look' \in Look
    BY <1>0, <1>2, <2>1, HereKept DEF LookIsTrue, Steps, NoLook, Look, Gone
  <2> QED
    BY <1>0, <1>1, <2>1, <2>2, LookStep, TargetsKept DEF Steps, history
<1>3. CASE proc[Here].st # "gone" /\ platform = "linux"
  <2>1. look' = [NoLook EXCEPT !.marker = CommandMarks(Here), !.meant = Meant(Here)] /\ Step("start")
    BY <1>3 DEF ReadIdentity
  <2>2. /\ look' \in Look /\ look'.marker = CommandMarks(Here) /\ look'.meant = Meant(Here)
    BY <1>1, <2>1, CommandFacts DEF NoLook, Look, Meant, Own, Alike
  <2>3. LookIsTrue'
    BY <1>0, <1>1, <1>3, <2>1, <2>2, HereKept, CommandFacts DEF LookIsTrue, Steps, setup
  <2> QED
    BY <1>0, <1>1, <2>1, <2>2, <2>3, LookStep, TargetsKept DEF Steps, history
<1>4. CASE proc[Here].st # "gone" /\ platform # "linux"
  <2> PICK h \in Pids : h = Here
    BY <1>1
  <2> DEFINE m == CommandMarks(h)
             v == IdentityVerdict([start |-> Observed(h), marker |-> m], Start(h))
  <2>1. Judged(Observed(h), m)
    BY <1>4 DEF ReadIdentity
  <2>2. Observed(h) # NoStart /\ m # "unknown"
    BY <1>4 DEF Observed, WallStart, NoStart, CommandMarks
  <2>3. /\ v \in {"ours", "foreign"} /\ m \in {"yes", "no", "unknown"}
        /\ v = "foreign" => Gone(h)
        /\ v = "ours" => Meant(h)
    BY <1>4, <2>2, ProbeFacts
  <2>4. Step("act") /\ look' \in Look /\ look'.verdict = v /\ (Meant(h) => look'.meant)
    BY <2>1, <2>3, JudgedFacts
  <2> HIDE DEF v, m
  <2> QED
    BY <1>0, <1>1, <2>3, <2>4, VerdictStep
<1> QED
  BY <1>2, <1>3, <1>4

\* The probe of the platforms other than Linux fails.
LEMMA ProbeFailsStep ==
    ASSUME IInv, ProbeFails
    PROVE  IInv'
<1>0. /\ UNCHANGED <<setup, host, target, history>> /\ mode = "stop" /\ at.step = "identity"
      /\ platform # "linux"
  BY ModeIsStop DEF ProbeFails
<1>1. Here \in Pids /\ look \in Look
  BY HereIsAPid DEF IInv, TypeOK
<1>2. failures' \in Nat /\ failures' # 0
  <2>1. failures \in Nat /\ failures' = failures + 1
    BY DEF ProbeFails, IInv, TypeOK
  <2> QED
    BY <2>1
<1>3. CASE look' = NoLook /\ Step("again")
  <2>1. LookIsTrue' /\ look' \in Look
    BY <1>2, <1>3, <1>0, HereKept DEF LookIsTrue, Steps, NoLook, Look
  <2> QED
    BY <1>0, <1>2, <1>3, <2>1, LookStep, TargetsKept DEF Steps, history
<1>4. ASSUME NEW o \in {NoStart, Observed(Here)}, NEW m \in {"unknown", CommandMarks(Here)},
             Judged(o, m)
      PROVE  IInv'
  <2> PICK h \in Pids : h = Here
    BY <1>1
  <2> DEFINE v == IdentityVerdict([start |-> o, marker |-> m], Start(h))
  <2>1. /\ v \in {"ours", "foreign", "unknown"} /\ m \in {"yes", "no", "unknown"}
        /\ v = "foreign" => Gone(h)
        /\ v = "ours" => Meant(h) \/ (m = "unknown" /\ Timely(h))
    BY <1>0, <1>4, ProbeFacts
  <2>2. /\ Step("act") /\ look' \in Look /\ look'.verdict = v
        /\ Meant(h) \/ (m = "unknown" /\ Timely(h)) => look'.meant \/ look'.veiled
    BY <1>4, <2>1, JudgedFacts
  <2> HIDE DEF v
  <2> QED
    BY <1>0, <1>2, <2>1, <2>2, VerdictStep
<1> QED
  BY <1>3, <1>4 DEF ProbeFails

\* The start, on Linux.
LEMMA ReadStartStep ==
    ASSUME IInv, ReadStart
    PROVE  IInv'
<1>0. UNCHANGED <<setup, host, target, failures, history>> /\ mode = "stop" /\ at.step = "start"
  BY ModeIsStop DEF ReadStart
<1>1. Here \in Pids /\ look \in Look /\ failures \in Nat
  BY HereIsAPid DEF IInv, TypeOK
<1> DEFINE h == Here
           o == IF proc[h].st = "gone" THEN NoStart ELSE Observed(h)
           v == IdentityVerdict([start |-> o, marker |-> look.marker], record[h])
<1>2. /\ platform = "linux" /\ look.marker \in {"yes", "no"}
      /\ look.marker = "no" => Gone(h)
      /\ look.marker = "yes" /\ record[h] = NoStart => look.meant
  BY <1>0 DEF IInv, LookIsTrue
<1>3. record[h] \in {LinuxStart(Boot, 1), LinuxStart(1, 1), NoStart} /\ Start(h) = record[h]
  BY <1>1, <1>2, RecordFacts DEF IInv
<1>4. proc[h].gen \in Nat \ {0} /\ Observed(h) = LinuxStart(Boot, proc[h].gen)
  BY <1>1, <1>2 DEF IInv, TypeOK, Process, Observed
<1> HIDE DEF o
<1>5. Judged(o, look.marker)
  BY <1>3 DEF ReadStart, o
<1>4a. o = NoStart \/ \E g \in Nat \ {0} : o = LinuxStart(Boot, g)
  BY <1>4 DEF o
<1>6. /\ v \in {"ours", "foreign", "unknown"}
      /\ v = "ours" => (o = LinuxStart(Boot, 1) /\ record[h] = o) \/ (record[h] = NoStart /\ look.marker = "yes")
      /\ v = "foreign" => look.marker = "no" \/ record[h] = LinuxStart(1, 1) \/ (o # NoStart /\ o # record[h])
      /\ v = "unknown" => o = NoStart
  <2>1. v = VerdictOn(o, look.marker, record[h])
    BY DEF VerdictOn
  <2> HIDE DEF v
  <2> QED
    BY <1>2, <1>3, <1>4a, <2>1, LinuxVerdict
<1>7. v = "ours" => look.meant \/ Meant(h)
  <2>1. o = LinuxStart(Boot, 1) => Own(h)
    BY <1>4 DEF LinuxStart, NoStart, Own, o
  <2> QED
    BY <1>2, <1>6, <2>1 DEF Meant
<1>8. v = "foreign" => Gone(h)
  <2>1. record[h] = LinuxStart(1, 1) => Gone(h)
    BY <1>1 DEF IInv, HostStands, LinuxStart
  <2>2. o # NoStart /\ o # record[h] /\ record[h] = LinuxStart(Boot, 1) => Gone(h)
    BY <1>4 DEF Gone, Own, o
  <2>3. record[h] = NoStart /\ v = "foreign" => look.marker = "no"
    BY <1>3, <1>2 DEF IdentityVerdict, CompareStarts, NoStart
  <2> QED
    BY <1>2, <1>3, <1>6, <2>1, <2>2, <2>3
<1>9. v = "unknown" => Gone(h)
  <2>1. Observed(h) # NoStart
    BY <1>4 DEF LinuxStart, NoStart
  <2> QED
    BY <1>6, <2>1 DEF Gone, o
<1>10. Step("act") /\ look' \in Look /\ look'.verdict = v /\ (look.meant \/ Meant(h) => look'.meant)
  BY <1>2, <1>3, <1>5, <1>6, JudgedFacts
<1> HIDE DEF v
<1> QED
  BY <1>0, <1>1, <1>6, <1>7, <1>8, <1>9, <1>10, VerdictStep

\* A look again whether the process is there at all.
LEMMA LookAgainStep ==
    ASSUME IInv, LookAgain
    PROVE  IInv'
<1>0. UNCHANGED <<setup, host, target, failures, history>> /\ mode = "stop" /\ at.step = "again"
  BY ModeIsStop DEF LookAgain
<1>1. Here \in Pids /\ failures \in Nat
  BY HereIsAPid DEF IInv, TypeOK
<1>2. HasExited(Here) => Gone(Here)
  BY <1>1 DEF HasExited, Gone, IInv, TypeOK
<1>3. failures = 0 => Gone(Here)
  BY <1>0 DEF IInv, LookIsTrue
<1>4. (Verdict("dead") /\ HasExited(Here)) \/ Verdict("unknown")
  BY DEF LookAgain
<1>5. CASE Verdict("dead") /\ HasExited(Here)
  BY <1>0, <1>1, <1>2, <1>5, VerdictFacts, VerdictStep
<1>6. CASE Verdict("unknown")
  BY <1>0, <1>1, <1>3, <1>6, VerdictFacts, VerdictStep
<1> QED
  BY <1>4, <1>5, <1>6

-----------------------------------------------------------------------------
(* Outcomes and signals.                                                    *)

\* A target that is begun to be waited for: what is said of it stands.
LEMMA WaitsStand ==
    ASSUME IInv, NEW h, h = Here, NEW phase \in {"term", "kill"}, Waits(phase),
           UNCHANGED <<setup, host>>, hard \subseteq hard', failures' = 0 => failures = 0,
           phase = "kill" => Struck(h)'
    PROVE  target' \in [Pids -> StopTarget] /\ TargetsStand'
<1>1. h \in Pids /\ target \in [Pids -> StopTarget]
  BY HereIsAPid DEF IInv, TypeOK
<1>2. \A p \in Pids : /\ target'[p] \in StopTarget
                      /\ target'[p].leaderGone = target[p].leaderGone
                      /\ target'[p].outcome = target[p].outcome
                      /\ target'[p].phase = IF p = h THEN phase ELSE target[p].phase
  BY <1>1 DEF Waits, StopTarget
<1>3. target' \in [Pids -> StopTarget]
  BY <1>1, <1>2 DEF Waits
<1>4. \A p \in Pids : (Gone(p)' = Gone(p)) /\ (Struck(p) => Struck(p)')
  BY GoneStays, StruckStays
<1>5. TargetsStand'
  <2>1. Posix' = Posix
    BY DEF Posix, setup
  <2> QED
    BY <1>2, <1>4, <2>1 DEF IInv, TargetsStand
<1> QED
  BY <1>3, <1>5

\* A signal that is delivered: whom it may reach, and whom a hard one hits.
LEMMA DeliverFacts ==
    ASSUME IInv, NEW h \in Pids, NEW sig, NEW only \in BOOLEAN, Deliver(h, sig, only),
           only \/ look.meant \/ look.veiled \/ Own(h), UNCHANGED host
    PROVE  /\ hard \subseteq hard' /\ hard' \subseteq Pids /\ strays' \subseteq Stray
           /\ SignalNeedsOwnLook'
           /\ sig = "kill" /\ ~only => (Gone(h) \/ h \in hard')
<1>1. hard \subseteq hard' /\ hard' \subseteq Pids
  BY DEF Deliver, IInv, TypeOK
<1>2. Own(h) => Reached(h, only) \subseteq {1}
  BY DEF Own, Reached, IInv, HostStands
<1>3. strays' = strays \/ strays' = strays \cup {[pid |-> h, only |-> only, looked |-> look.meant,
                                                     veiled |-> look.veiled]}
  BY DEF Deliver
<1>4. Own(h) => strays' = strays
  BY <1>2 DEF Deliver
<1>5. look.meant \in BOOLEAN /\ look.veiled \in BOOLEAN
  BY DEF IInv, TypeOK, Look
<1>6. strays' \subseteq Stray
  BY <1>3, <1>5 DEF Stray, IInv, TypeOK
<1>7. SignalNeedsOwnLook'
  BY <1>3, <1>4 DEF SignalNeedsOwnLook, IInv
<1>8. sig = "kill" /\ ~only /\ ~Gone(h) => h \in hard'
  BY DEF Deliver, Reached, Gone, Own
<1> QED
  BY <1>1, <1>6, <1>7, <1>8

\* A failure is counted, and signals nobody.
LEMMA FailsFacts ==
    ASSUME IInv, FailsOnce
    PROVE  /\ failures' \in Nat /\ failures' # 0 /\ hard' = hard /\ strays' = strays
           /\ hard' \subseteq Pids /\ strays' \subseteq Stray /\ SignalNeedsOwnLook'
<1>1. failures \in Nat /\ failures' = failures + 1 /\ hard' = hard /\ strays' = strays
  BY DEF FailsOnce, IInv, TypeOK, history
<1>2. failures' \in Nat /\ failures' # 0
  BY <1>1
<1> QED
  BY <1>1, <1>2 DEF IInv, TypeOK, SignalNeedsOwnLook

\* The verdict is acted on.
LEMMA ActStep ==
    ASSUME IInv, Act
    PROVE  IInv'
<1>0. UNCHANGED <<setup, host, failures, history>> /\ mode = "stop" /\ at.step = "act"
  BY ModeIsStop DEF Act
<1>1. Here \in Pids /\ look \in Look /\ failures \in Nat /\ at.loop \in {"first", "poll"}
  BY <1>0, HereIsAPid DEF IInv, TypeOK, LoopsStand
<1> PICK h \in Pids : h = Here
  BY <1>1
<1> DEFINE o == IF at.loop = "first" THEN FirstOutcome(look.verdict) ELSE PolledOutcome(look.verdict)
<1>2. /\ look.verdict \in {"dead", "foreign", "unknown", "ours"}
      /\ look.verdict \in {"dead", "foreign"} => Gone(h)
      /\ look.verdict = "unknown" => Struck(h)
      /\ look.verdict = "ours" => look.meant \/ look.veiled
      /\ target[h].phase = "kill" => Struck(h)
  BY <1>0, <1>1 DEF IInv, LookIsTrue, Look, Struck, TargetsStand
<1>3. /\ o \in {"none", "exited", "foreign", "stopped", "unconfirmed"}
      /\ o \in {"exited", "foreign", "stopped"} => Gone(h)
      /\ o = "unconfirmed" /\ Posix => Struck(h)
      /\ o = "none" => look.verdict = "ours"
  BY <1>1, <1>2 DEF FirstOutcome, PolledOutcome
<1>4. IF o # "none" THEN Outcome(o) /\ NextTarget(Here) ELSE Step("signal") /\ UNCHANGED <<target, look>>
  BY DEF Act
<1> HIDE DEF o
<1>5. CASE o # "none"
  <2>1. o = "unconfirmed" /\ Posix => Struck(h)'
    BY <1>0, <1>1, <1>3, StruckStays, GoneStays DEF history
  <2>2. target' \in [Pids -> StopTarget] /\ TargetsStand'
    BY <1>0, <1>3, <1>4, <1>5, <2>1, OutcomeStands DEF Outcomes, history
  <2> QED
    BY <1>0, <1>1, <1>4, <1>5, <2>2, TargetStep DEF IInv, TypeOK, SignalNeedsOwnLook, history
<1>6. CASE o = "none"
  <2>1. Step("signal") /\ UNCHANGED <<target, look>>
    BY <1>4, <1>6
  <2>2. LookIsTrue'
    BY <1>0, <1>2, <1>3, <1>6, <2>1, HereKept DEF LookIsTrue, Steps
  <2> QED
    BY <1>0, <1>1, <2>1, <2>2, LookStep, TargetsKept DEF Steps, history
<1> QED
  BY <1>5, <1>6

\* A signal follows a verdict of 'ours' only.
LEMMA SignalStep ==
    ASSUME IInv, Signal
    PROVE  IInv'
<1>0. UNCHANGED <<setup, host>> /\ mode = "stop" /\ at.step = "signal" /\ NextTarget(Here)
  BY ModeIsStop DEF Signal
<1>1. Here \in Pids /\ (look.meant \/ look.veiled) /\ failures \in Nat
  BY <1>0, HereIsAPid DEF IInv, TypeOK, LookIsTrue
<1> PICK h \in Pids : h = Here
  BY <1>1
<1> DEFINE sig == IF at.loop = "first" THEN "term" ELSE "kill"
<1>2. CASE Given(sig, FALSE) /\ Waits(sig)
  <2>1. failures' = failures /\ Deliver(h, sig, FALSE)
    BY <1>2 DEF Given
  <2>2. /\ hard \subseteq hard' /\ hard' \subseteq Pids /\ strays' \subseteq Stray
        /\ SignalNeedsOwnLook' /\ (sig = "kill" => Gone(h) \/ h \in hard')
    BY <1>0, <1>1, <2>1, DeliverFacts
  <2>3. sig = "kill" => Struck(h)'
    BY <1>0, <1>1, <2>2, GoneStays DEF Struck
  <2>4. target' \in [Pids -> StopTarget] /\ TargetsStand'
    BY <1>0, <1>2, <2>1, <2>2, <2>3, WaitsStand
  <2> QED
    BY <1>0, <1>1, <2>1, <2>2, <2>4, TargetStep
<1>3. CASE Refused /\ Outcome("failed")
  <2>1. FailsOnce
    BY <1>3 DEF Refused
  <2>2. target' \in [Pids -> StopTarget] /\ TargetsStand'
    BY <1>0, <1>3, <2>1, FailsFacts, OutcomeStands DEF Outcomes
  <2> QED
    BY <1>0, <1>1, <2>1, <2>2, FailsFacts, TargetStep
<1> QED
  BY <1>2, <1>3 DEF Signal

\* A pass over the targets that are waited for.
LEMMA PollStep ==
    ASSUME IInv, Poll
    PROVE  IInv'
<1>0. UNCHANGED <<setup, host, failures, history>> /\ mode = "stop" /\ at.step = "poll"
  BY ModeIsStop DEF Poll
<1>1. Here \in Pids /\ failures \in Nat /\ look \in Look /\ target \in [Pids -> StopTarget]
  BY HereIsAPid DEF IInv, TypeOK
<1>2. CASE UNCHANGED target /\ NextTarget(Here)
  <2>1. target' \in [Pids -> StopTarget] /\ TargetsStand'
    BY <1>0, <1>2, TargetsKept DEF history
  <2> QED
    BY <1>0, <1>1, <1>2, <2>1, TargetStep DEF IInv, TypeOK, SignalNeedsOwnLook, history
<1>3. CASE /\ target[Here].leaderGone \/ HasExited(Here)
           /\ target' = [target EXCEPT ![Here].leaderGone = TRUE]
           /\ Step("group") /\ look' = look
  <2> PICK h \in Pids : h = Here
    BY <1>1
  <2>1. Gone(h)
    BY <1>1, <1>3 DEF HasExited, Gone, IInv, TypeOK, TargetsStand
  <2>2. \A p \in Pids : /\ target'[p] \in StopTarget
                        /\ target'[p].phase = target[p].phase /\ target'[p].outcome = target[p].outcome
                        /\ target'[p].leaderGone => target[p].leaderGone \/ p = h
    BY <1>1, <1>3 DEF StopTarget
  <2>3. target' \in [Pids -> StopTarget]
    BY <1>1, <1>3, <2>2
  <2>4. \A p \in Pids : (Gone(p)' = Gone(p)) /\ (Struck(p) => Struck(p)')
    BY <1>0, GoneStays, StruckStays DEF history
  <2>5. TargetsStand'
    BY <1>0, <2>1, <2>2, <2>4 DEF IInv, TargetsStand, Posix, setup
  <2>6. LookIsTrue'
    BY <1>0, <1>3, <2>1, HereKept DEF LookIsTrue, Steps
  <2> QED
    BY <1>0, <1>1, <1>3, <2>3, <2>5, <2>6, LookStep DEF Steps
<1>4. CASE LookDue(Here)
  <2>1. LookIsTrue' /\ look' \in Look /\ Step("alive") /\ target' = target
    BY <1>0, <1>4, HereKept DEF LookDue, LookIsTrue, Steps, NoLook, Look
  <2> QED
    BY <1>0, <1>1, <2>1, LookStep, TargetsKept DEF Steps, history
<1> QED
  BY <1>2, <1>3, <1>4 DEF Poll

\* The group of a leader that is gone is looked at.
LEMMA LookGroupStep ==
    ASSUME IInv, LookGroup
    PROVE  IInv'
<1>0. UNCHANGED <<setup, host, failures, history>> /\ mode = "stop" /\ at.step = "group"
  BY ModeIsStop DEF LookGroup
<1>1. /\ Here \in Pids /\ failures \in Nat /\ look \in Look /\ Gone(Here)
      /\ hard' \subseteq Pids /\ strays' \subseteq Stray /\ SignalNeedsOwnLook'
  BY <1>0, HereIsAPid DEF IInv, TypeOK, LookIsTrue, SignalNeedsOwnLook, history
<1>2. CASE UNCHANGED target /\ Step("sweep") /\ look' = look
  <2>1. LookIsTrue'
    BY <1>0, <1>1, <1>2, HereKept DEF LookIsTrue, Steps
  <2> QED
    BY <1>0, <1>1, <1>2, <2>1, LookStep, TargetsKept DEF Steps, history
<1>3. CASE UNCHANGED target /\ NextTarget(Here)
  <2>1. target' \in [Pids -> StopTarget] /\ TargetsStand'
    BY <1>0, <1>3, TargetsKept DEF history
  <2> QED
    BY <1>0, <1>1, <1>3, <2>1, TargetStep
<1>4. CASE Outcome("stopped") /\ NextTarget(Here)
  <2>1. target' \in [Pids -> StopTarget] /\ TargetsStand'
    BY <1>0, <1>1, <1>4, OutcomeStands DEF Outcomes, history
  <2> QED
    BY <1>0, <1>1, <1>4, <2>1, TargetStep
<1> QED
  BY <1>2, <1>3, <1>4 DEF LookGroup

\* What is left of the group gets the hard signal.
LEMMA SweepStep ==
    ASSUME IInv, Sweep
    PROVE  IInv'
<1>0. /\ UNCHANGED <<setup, host>> /\ mode = "stop" /\ at.step = "sweep"
      /\ Outcome("stopped") /\ NextTarget(Here)
  BY ModeIsStop DEF Sweep
<1>1. Here \in Pids /\ failures \in Nat /\ Gone(Here)
  BY <1>0, HereIsAPid DEF IInv, TypeOK, LookIsTrue
<1>2. /\ failures' \in Nat /\ (failures' = 0 => failures = 0)
      /\ hard \subseteq hard' /\ hard' \subseteq Pids /\ strays' \subseteq Stray /\ SignalNeedsOwnLook'
  <2>1. CASE Given("kill", TRUE)
    BY <1>0, <1>1, <2>1, DeliverFacts DEF Given
  <2>2. CASE FailsOnce
    BY <2>2, FailsFacts
  <2> QED
    BY <2>1, <2>2 DEF Sweep
<1>3. target' \in [Pids -> StopTarget] /\ TargetsStand'
  BY <1>0, <1>1, <1>2, OutcomeStands DEF Outcomes
<1> QED
  BY <1>0, <1>2, <1>3, TargetStep

-----------------------------------------------------------------------------
(* The escalation on child handles.                                         *)

\* A step of the escalation.
LEMMA ChildStep ==
    ASSUME IInv, mode # "stop", at' \in Place, at'.step = "alive",
           UNCHANGED <<setup, host, look, target>>, hard \subseteq hard',
           failures' \in Nat, failures' = 0 => failures = 0,
           hard' \subseteq Pids, strays' \subseteq Stray, SignalNeedsOwnLook', LoopsStand'
    PROVE  IInv'
<1>1. target' \in [Pids -> StopTarget] /\ TargetsStand'
  BY TargetsKept
<1>2. TypeOK'
  BY <1>1 DEF IInv, TypeOK, Recorded, setup, host
<1>3. HostStands'
  BY GoneStays DEF IInv, HostStands, host, setup
<1>4. LookIsTrue'
  BY DEF LookIsTrue
<1> QED
  BY <1>1, <1>2, <1>3, <1>4 DEF IInv

\* What a signal to a child's group records; a hard one leaves the child
\* struck.
LEMMA SignalGroupFacts ==
    ASSUME IInv, NEW h \in Pids, h = Here, NEW sig, SignalGroup(sig), UNCHANGED host
    PROVE  /\ failures' \in Nat /\ (failures' = 0 => failures = 0) /\ hard \subseteq hard'
           /\ hard' \subseteq Pids /\ strays' \subseteq Stray /\ SignalNeedsOwnLook'
           /\ sig = "kill" => Struck(h)'
<1>0. failures \in Nat /\ (Gone(h)' = Gone(h))
  BY GoneStays DEF IInv, TypeOK
<1>1. CASE HandleRuns(h) /\ Given(sig, FALSE)
  <2>1. Own(h) /\ failures' = failures /\ Deliver(h, sig, FALSE)
    BY <1>1 DEF HandleRuns, Given
  <2>2. /\ hard \subseteq hard' /\ hard' \subseteq Pids /\ strays' \subseteq Stray
        /\ SignalNeedsOwnLook' /\ (sig = "kill" => Gone(h) \/ h \in hard')
    BY <2>1, DeliverFacts
  <2> QED
    BY <1>0, <2>1, <2>2 DEF Struck
<1>2. CASE FailsOnce
  BY <1>2, FailsFacts DEF Struck
<1>3. CASE ~HandleRuns(h) /\ Given(sig, TRUE)
  <2>1. Gone(h) /\ failures' = failures /\ Deliver(h, sig, TRUE)
    BY <1>3 DEF HandleRuns, Given, Gone
  <2>2. /\ hard \subseteq hard' /\ hard' \subseteq Pids /\ strays' \subseteq Stray /\ SignalNeedsOwnLook'
    BY <2>1, DeliverFacts
  <2> QED
    BY <1>0, <2>1, <2>2 DEF Struck
<1>4. CASE ~HandleRuns(h) /\ UNCHANGED <<failures, history>>
  BY <1>0, <1>4 DEF HandleRuns, Gone, Struck, history, IInv, TypeOK, SignalNeedsOwnLook
<1> QED
  BY <1>1, <1>2, <1>3, <1>4 DEF SignalGroup, Refused

\* The escalation goes on with the next child, or with its next round.
LEMMA NextChildFacts ==
    ASSUME IInv, NEW loop \in Loops, NextChild(loop)
    PROVE  /\ at' \in Place /\ at'.step = at.step
           /\ at.i < Len(Targets) => at'.loop = at.loop /\ at'.i = at.i + 1
           /\ ~(at.i < Len(Targets)) => at'.loop = loop /\ at'.i = 1
<1>1. at \in Place /\ 1 \in DOMAIN Targets /\ (at.i < Len(Targets) => at.i + 1 \in DOMAIN Targets)
  BY TargetsAssumption DEF IInv, TypeOK, Place
<1>2. CASE at.i < Len(Targets)
  BY <1>1, <1>2 DEF NextChild, Place
<1>3. CASE ~(at.i < Len(Targets))
  BY <1>1, <1>3 DEF NextChild, Place
<1> QED
  BY <1>2, <1>3

\* The polite round, child by child.
LEMMA EscalatePoliteStep ==
    ASSUME IInv, EscalatePolite
    PROVE  IInv'
<1>0. /\ UNCHANGED <<setup, host, look, target>> /\ mode # "stop" /\ at.loop = "term" /\ at.step = "alive"
  BY DEF EscalatePolite, IInv, LoopsStand
<1>1. PICK h \in Pids : h = Here
  BY HereIsAPid DEF IInv
<1>2. /\ failures' \in Nat /\ (failures' = 0 => failures = 0) /\ hard \subseteq hard'
      /\ hard' \subseteq Pids /\ strays' \subseteq Stray /\ SignalNeedsOwnLook'
  BY <1>0, <1>1, SignalGroupFacts DEF EscalatePolite
<1>3. /\ at' \in Place /\ at'.step = "alive"
      /\ at'.loop \in {"term", "grace", "over"} /\ (at'.loop = "over" => ~Posix)
      /\ at'.loop = "grace" => at'.i = 1
  <2>1. NextChild(IF Posix THEN "grace" ELSE "over")
    BY DEF EscalatePolite
  <2> QED
    BY <1>0, <2>1, NextChildFacts DEF Loops
<1>4. LoopsStand'
  BY <1>0, <1>3 DEF LoopsStand, Posix, setup
<1> QED
  BY <1>0, <1>2, <1>3, <1>4, ChildStep

\* The grace is over: the hard round begins, or is spared.
LEMMA EscalateHardStep ==
    ASSUME IInv, EscalateHard
    PROVE  IInv'
<1>0. /\ UNCHANGED <<setup, host, look, target, failures, history>> /\ mode # "stop" /\ at.i = 1
      /\ at \in Place /\ at.step = "alive"
  BY DEF EscalateHard, IInv, TypeOK, LoopsStand
<1>1. at' \in Place /\ at'.step = "alive" /\ at'.i = 1 /\ at'.loop \in {"kill", "spared"}
  BY <1>0 DEF EscalateHard, Place, Loops
<1>2. LoopsStand'
  BY <1>0, <1>1 DEF LoopsStand, setup
<1>3. /\ failures' \in Nat /\ hard' = hard /\ failures' = failures
      /\ hard' \subseteq Pids /\ strays' \subseteq Stray /\ SignalNeedsOwnLook'
  BY <1>0 DEF IInv, TypeOK, SignalNeedsOwnLook, history
<1> QED
  BY <1>0, <1>1, <1>2, <1>3, ChildStep

\* The hard round: a child that it has passed is struck.
LEMMA EscalateKillStep ==
    ASSUME IInv, EscalateKill
    PROVE  IInv'
<1>0. /\ UNCHANGED <<setup, host, look, target>> /\ mode # "stop" /\ at.loop = "kill" /\ at.step = "alive"
      /\ at \in Place /\ NextChild("over") /\ SignalGroup("kill")
  BY DEF EscalateKill, IInv, TypeOK, LoopsStand
<1>1. PICK h \in Pids : h = Here
  BY HereIsAPid DEF IInv
<1>2. /\ failures' \in Nat /\ (failures' = 0 => failures = 0) /\ hard \subseteq hard'
      /\ hard' \subseteq Pids /\ strays' \subseteq Stray /\ SignalNeedsOwnLook' /\ Struck(h)'
  BY <1>0, <1>1, SignalGroupFacts
<1>3. /\ at' \in Place /\ at'.step = "alive"
      /\ at.i < Len(Targets) => at'.loop = "kill" /\ at'.i = at.i + 1
      /\ ~(at.i < Len(Targets)) => at'.loop = "over"
  BY <1>0, NextChildFacts DEF Loops
<1>4. \A k \in 1 .. at.i : Struck(Targets[k])'
  <2> SUFFICES ASSUME NEW k \in 1 .. at.i PROVE Struck(Targets[k])'
    OBVIOUS
  <2>1. k \in DOMAIN Targets /\ Targets[k] \in Pids
    BY <1>0, TargetsAssumption DEF Place, Pids
  <2>2. CASE k = at.i
    BY <1>1, <1>2, <2>2 DEF Here
  <2>3. CASE k # at.i
    <3>1. k \in 1 .. (at.i - 1)
      BY <1>0, <2>3, TargetsAssumption DEF Place
    <3>2. Struck(Targets[k])
      BY <1>0, <3>1 DEF IInv, LoopsStand
    <3>3. \A p \in Pids : Struck(p) => Struck(p)'
      BY <1>0, <1>2, StruckStays, GoneStays
    <3> QED
      BY <2>1, <3>2, <3>3
  <2> QED
    BY <2>2, <2>3
<1>5. LoopsStand'
  <2>1. CASE at.i < Len(Targets)
    <3>1. \A k \in 1 .. (at'.i - 1) : Struck(Targets[k])'
      BY <1>0, <1>3, <1>4, <2>1, TargetsAssumption DEF Place
    <3> QED
      BY <1>0, <1>3, <2>1, <3>1 DEF LoopsStand, setup
  <2>2. CASE ~(at.i < Len(Targets))
    <3>1. \A p \in Pids : Struck(p)'
      <4> SUFFICES ASSUME NEW p \in Pids PROVE Struck(p)'
        OBVIOUS
      <4>1. PICK k \in DOMAIN Targets : p = Targets[k]
        BY DEF Pids
      <4>2. k \in 1 .. at.i
        BY <1>0, <2>2, TargetsAssumption DEF Place
      <4> QED
        BY <1>4, <4>1, <4>2
    <3> QED
      BY <1>0, <1>3, <2>2, <3>1 DEF LoopsStand, setup
  <2> QED
    BY <2>1, <2>2
<1> QED
  BY <1>0, <1>2, <1>3, <1>5, ChildStep

-----------------------------------------------------------------------------
\* No step breaks the invariant.
LEMMA NextInv == IInv /\ [Next]_vars => IInv'
<1> SUFFICES ASSUME IInv, [Next]_vars PROVE IInv'
  OBVIOUS
<1>1. CASE Caller
  BY <1>1, LookAliveStep, ReadIdentityStep, ProbeFailsStep, ReadStartStep, LookAgainStep, ActStep,
     SignalStep, PollStep, LookGroupStep, SweepStep, EscalatePoliteStep, EscalateHardStep,
     EscalateKillStep DEF Caller
<1>2. ASSUME NEW p \in Pids, Host(p) \/ Elapse(p)
      PROVE  IInv'
  BY <1>2, ExitStep, ReapStep, MembersExitStep, ReuseStep, ElapseStep DEF Host
<1>3. CASE UNCHANGED vars
  <2>1. /\ UNCHANGED <<setup, at, look, target, failures, history>> /\ UNCHANGED host
    BY <1>3 DEF vars, setup, host, history
  <2>2. /\ proc' \in [Pids -> Process] /\ group' \in [Pids -> Nat] /\ HostStands'
        /\ \A p \in Pids : Gone(p) => Gone(p)'
    BY <2>1, GoneStays DEF IInv, TypeOK, HostStands, host, setup
  <2> QED
    BY <2>1, <2>2, HostStep
<1> QED
  BY <1>1, <1>2, <1>3 DEF Next

\* Every reachable state satisfies the inductive invariant.
THEOREM Inductive == Spec => []IInv
BY InitInv, NextInv, PTL DEF Spec

\* Whoever exits, is reaped or reuses a pid between two system calls, a signal
\* reaches another process than the recorded one only on a look of the same
\* verdict that said 'ours' of the recorded process, or of one it could not tell
\* from it, or of a start in the window without a command line; or as one to a
\* group (job-lifecycle.ts:387-396, process.ts:317-325, 497-519, 599-603).
THEOREM SignalNeedsOwnLookHolds == Spec => []SignalNeedsOwnLook
<1>1. IInv => SignalNeedsOwnLook
  BY DEF IInv
<1> QED
  BY <1>1, Inductive, PTL

\* An outcome that counts as confirmed is that of a recorded process that is
\* gone, and one that outlives a stop without a failure had the hard signal
\* (job-lifecycle.ts:436-497, 558-564, process.ts:708-751): for any number of
\* targets and of processes their pids name.
THEOREM OutcomesAreTrueHolds == Spec => []OutcomesAreTrue
<1>1. IInv => ConfirmedIsGone
  BY DEF IInv, TargetsStand, ConfirmedIsGone, Gone
<1>2. IInv => SurvivorHadHardSignal
  <2> SUFFICES ASSUME IInv, at.loop = "over", Posix, failures = 0, NEW p \in Pids, ~Gone(p)
               PROVE  p \in hard
    BY DEF SurvivorHadHardSignal, Gone
  <2>1. CASE mode = "stop"
    <3>1. target[p].outcome \in {"unconfirmed"}
      BY <2>1 DEF IInv, TypeOK, LoopsStand, TargetsStand, StopTarget, Outcomes
    <3> QED
      BY <3>1 DEF IInv, TargetsStand, Struck
  <2>2. CASE mode # "stop"
    BY <2>2 DEF IInv, LoopsStand, Struck
  <2> QED
    BY <2>1, <2>2
<1> QED
  BY <1>1, <1>2, Inductive, PTL DEF OutcomesAreTrue
===============================================================================
