----------------------------- MODULE MCWorkspace -----------------------------
(* The protocols over a workspace's own files, each checked by itself: the  *)
(* states add up instead of multiplying.  `part` names the one that runs.   *)
EXTENDS Announcements, SessionRegistry, LegacyMigration, JobStatus,
        Worktrees, WorkRecords, PlanDiff, Launch, TaskThreads, TLC

CONSTANTS l1, l2, l3, r1, r2, d1, d2, d3, c1, c2, c3

VARIABLE part

\* Two launches into one root, one into another.
MCRootOf == [l \in {l1, l2, l3} |-> IF l = l2 THEN "root2" ELSE "root1"]

\* Plans of up to five lines that are blank or not, their last one ended or
\* not (of nothing, a newline, or one that is not ended, only one text splits
\* so), and any of them against one that is over the cap.
MCTexts ==
    LET lines == UNION {[1..n -> {"", "x"}] : n \in 1..5}
    IN {t \in [lines : lines, ends : BOOLEAN] : t.ends \/ t.lines = <<"">> \/ t.lines[Len(t.lines)] # ""}
MCLongText == [lines |-> [n \in 1..6 |-> "x"], ends |-> TRUE]
MCTextPairs == (MCTexts \X MCTexts) \cup (MCTexts \X {MCLongText}) \cup ({MCLongText} \X MCTexts)
MCSamePair == CHOOSE p \in MCTextPairs : p[1] = p[2]

\* One dependency directory that the main tree tracks.
MCMainHolds == [d \in {d1, d2, d3} |-> IF d = d3 THEN "tracked" ELSE "ignored"]

-----------------------------------------------------------------------------
\* Three versions of Claude, one of them without a tier, one without any, and
\* three catalogs: what ships, a newer version, and tiers that moved.
Fam(w, v) == Key("family", w, v)
Gpt(w, v) == Key("gpt", w, v)
All == {"low", "high", "xhigh", "max"}
MCLadder == <<"none", "low", "high", "xhigh", "max", "ultra">>
MCRows == {[family |-> "opus", version |-> <<5, 5>>, effort |-> "xhigh", efforts |-> All],
           [family |-> "opus", version |-> <<4, 6>>, effort |-> "high", efforts |-> All \ {"xhigh"}],
           [family |-> "haiku", version |-> <<4, 5>>, effort |-> NoEffort, efforts |-> {}]}
MCRegistry == {[alias |-> Fam("kimi", <<>>), model |-> Key("raw", "kimi-k3", <<>>)],
               [alias |-> Fam("glm", <<>>), model |-> Fam("glm", <<5, 2>>)]}
MCBuiltIn == [r \in {"implementer", "implementation-reviewer"} |->
    IF r = "implementer" THEN Selection("claude", Fam("opus", <<5, 5>>), "")
    ELSE Selection("codex", Fam("astra", <<6>>), "")]
Six == Gpt("astra", <<6>>)
Seven == Gpt("astra", <<7>>)
MCShipped == Six :> (All \cup {"ultra"})
MCCatalogs == {MCShipped,
               (Six :> (All \cup {"ultra"})) @@ (Seven :> {"low", "high"}),
               (Six :> {"low"}) @@ (Seven :> {"max"})}
Codex(k) == Selection("codex", k, "")
Claude(k) == Selection("claude", k, "")

\* What config is asked for, and the command lines a dry run is given.
Change(r, m, e, cl, sb) == [role |-> r, model |-> m, effort |-> e, clears |-> cl, sandbox |-> sb]
MCChanges ==
    {Change("implementer", m, e, {}, "unset") :
        m \in {NoSelection, Claude(Fam("haiku", <<>>)), Codex(Fam("astra", <<>>)), Codex(Fam("glm", <<>>))},
        e \in {NoEffort, "high"}}
    \cup {Change("implementation-reviewer", Session, NoEffort, {}, "on"),
          Change("implementation-reviewer", NoSelection, "ultra", {}, "unset"),
          Change("implementer", NoSelection, NoEffort, {"effort"}, "off"),
          Change("implementer", NoSelection, NoEffort, {"roles"}, "unset")}
Flags(m, e, r, sb, al, t) ==
    [model |-> m, effort |-> e, role |-> r, sandbox |-> sb, allow |-> al, write |-> r = "implementer", thread |-> t, ready |-> TRUE]
MCFlags ==
    {Flags(NoSelection, NoEffort, r, "unset", {}, t) : r \in {"none", "implementer", "reviewer"}, t \in BOOLEAN}
    \cup {Flags(m, NoEffort, "implementer", "unset", {}, FALSE) :
        m \in {Claude(Fam("opus", <<4, 6>>)), Claude(Fam("haiku", <<>>)), Codex(Fam("astra", <<>>)), Codex(Fam("kimi", <<>>))}}
    \cup {Flags(Codex(Gpt("", <<5, 5>>)), "ultra", "none", "off", {}, FALSE),
          Flags(Selection("codex", Fam("astra", <<>>), "openrouter"), NoEffort, "reviewer", "unset", {}, FALSE),
          Flags(Selection("codex", Fam("astra", <<7>>), "openrouter"), NoEffort, "reviewer", "unset", {}, FALSE),
          Flags(Claude(Fam("opus", <<>>)), "max", "implementer", "on", {"plain", "wildcard"}, FALSE),
          Flags(Claude(Fam("opus", <<>>)), "max", "reviewer", "unset", {"wildcard"}, FALSE)}

-----------------------------------------------------------------------------
\* Two directories and two roles on Claude, a role and rescues on Codex, from
\* a Claude Code session and from a shell, and the Stop hook's review.
Runs(r, rt, c, s, g) == [role |-> r, runtime |-> rt, cwd |-> c, session |-> s, gate |-> g]
MCProfiles ==
    {Runs("implementer", "claude", "d1", "s", FALSE), Runs("implementer", "claude", "d2", "s", FALSE),
     Runs("reviewer", "claude", "d1", "s", FALSE), Runs("implementer", "codex", "d1", "s", FALSE),
     Runs("none", "codex", "d1", "s", FALSE), Runs("none", "codex", "d1", "none", FALSE),
     Runs("none", "codex", "d1", "s", TRUE)}

-----------------------------------------------------------------------------
MCInit ==
    /\ part \in {"announce", "registry", "migration", "status", "worktrees", "records", "diff", "launch", "threads"}
    /\ AnnInit /\ RegInit /\ MigInit /\ StsInit /\ WtInit /\ RecInit /\ LchInit /\ ThrInit
    /\ IF part = "diff" THEN DiffInit ELSE pair = MCSamePair /\ diff = <<>>
    \* Only its own part starts from more than one state.
    /\ part # "worktrees" => follows
    /\ part # "launch" => ~sandboxed /\ catalog = MCShipped

\* Readers, commands and tasks are alike: they begin in one order.
InOrder(begun, order) ==
    \A i \in 2..Len(order) : order[i] \in begun => order[i - 1] \in begun

workspaceVars == <<annVars, regVars, migVars, stsVars, wtVars, recVars, diffVars, lchVars, thrVars>>
MCNext ==
    /\ UNCHANGED part
    /\ \/ part = "announce" /\ AnnNext
          /\ UNCHANGED <<regVars, migVars, stsVars, wtVars, recVars, diffVars, lchVars, thrVars>>
       \/ part = "registry" /\ RegNext
          /\ UNCHANGED <<annVars, migVars, stsVars, wtVars, recVars, diffVars, lchVars, thrVars>>
       \/ part = "migration" /\ MigNext
          /\ UNCHANGED <<annVars, regVars, stsVars, wtVars, recVars, diffVars, lchVars, thrVars>>
       \/ part = "status" /\ StsNext
          /\ InOrder({r \in Readers : reader'[r] # "idle"}, <<r1, r2>>)
          /\ UNCHANGED <<annVars, regVars, migVars, wtVars, recVars, diffVars, lchVars, thrVars>>
       \/ part = "worktrees" /\ WtNext
          /\ InOrder({c \in Commands : cmd'[c].step # "idle"}, <<c1, c2, c3>>)
          /\ UNCHANGED <<annVars, regVars, migVars, stsVars, recVars, diffVars, lchVars, thrVars>>
       \/ part = "records" /\ RecNext
          /\ InOrder({c \in Callers : call'[c].step # "idle"}, <<c1, c2, c3>>)
          /\ UNCHANGED <<annVars, regVars, migVars, stsVars, wtVars, diffVars, lchVars, thrVars>>
       \/ part = "diff" /\ ComparePlans
          /\ UNCHANGED <<annVars, regVars, migVars, stsVars, wtVars, recVars, lchVars, thrVars>>
       \/ part = "launch" /\ LchNext
          /\ UNCHANGED <<annVars, regVars, migVars, stsVars, wtVars, recVars, diffVars, thrVars>>
       \/ part = "threads" /\ ThrNext
          /\ InOrder({t \in Tasks : job'[t].status # "none"}, <<"t1", "t2", "t3">>)
          /\ UNCHANGED <<annVars, regVars, migVars, stsVars, wtVars, recVars, diffVars, lchVars>>
MCSpec == MCInit /\ [][MCNext]_<<part, workspaceVars>>
==============================================================================
