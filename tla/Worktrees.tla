------------------------------ MODULE Worktrees ------------------------------
(***************************************************************************)
(* `worktree create` and `worktree remove` (cli/commands/worktree.ts): an  *)
(* isolated worktree borrows the main tree's ignored dependency            *)
(* directories through links, and gives them up before git deletes it.     *)
(* Any step may fail, and the command may die between two.                 *)
(***************************************************************************)
EXTENDS Naturals, FiniteSets

CONSTANTS
    Deps,        \* the dependency directories
    MainHolds,   \* those of the main tree: "ignored", "tracked" or "absent"
    Commands,    \* the worktree commands
    Paths,       \* where worktrees go
    MaxSlips     \* bound: steps that fail and commands that die

VARIABLES
    follows,     \* git's removal goes through a link (a Windows junction)
    emptied,     \* directories of the main tree a removal reached
    exclude,     \* the shared exclude file
    tree,        \* each path: none, added (git knows it, and its checkout is there)
    links, own,  \* each path's dependency links, and directories of its own
    cmd,         \* each command: [op, path, step, todo, linked]
    slips,
    crossed,     \* history: paths two commands worked on at a time
    leftover     \* history: paths whose links could not be removed

wtVars == <<follows, emptied, exclude, tree, links, own, cmd, slips, crossed, leftover>>

Working(c) == cmd[c].step \notin {"idle", "ok", "refused", "failed", "undone", "dead"}

WtInit ==
    /\ follows \in BOOLEAN /\ emptied = {} /\ exclude = {}
    /\ tree = [p \in Paths |-> "none"] /\ links = [p \in Paths |-> {}] /\ own = [p \in Paths |-> {}]
    /\ cmd = [c \in Commands |-> [op |-> "none", path |-> "none", step |-> "idle", todo |-> {}, linked |-> {}]]
    /\ slips = 0 /\ crossed = {} /\ leftover = {}

Step(c, step) == cmd' = [cmd EXCEPT ![c].step = step]
Slip == slips < MaxSlips /\ slips' = slips + 1

BeginOn(c, p, op, step, todo) ==
    /\ cmd' = [cmd EXCEPT ![c] = [op |-> op, path |-> p, step |-> step, todo |-> todo, linked |-> {}]]
    /\ crossed' = IF \E d \in Commands : Working(d) /\ cmd[d].path = p THEN crossed \cup {p} ELSE crossed

-----------------------------------------------------------------------------
(* worktree create *)

\* The slip Candidates must not make: what the main tree tracks is linked.
AnyPresent == {d \in Deps : MainHolds[d] # "absent"}

\* planDependencyLinks, before the worktree exists.
Candidates == {d \in Deps : MainHolds[d] = "ignored"}

CheckTarget(c) ==
    /\ cmd[c].step = "idle"
    /\ \E p \in Paths :
          IF tree[p] = "none" THEN BeginOn(c, p, "create", "add", Candidates)
                              ELSE BeginOn(c, p, "create", "refused", {})
    /\ UNCHANGED <<follows, emptied, exclude, tree, links, own, slips, leftover>>

\* git worktree add; a post-checkout hook may put a directory there.
AddWorktree(c) ==
    LET p == cmd[c].path IN
    /\ cmd[c].step = "add"
    /\ \/ /\ tree[p] = "none"
          /\ tree' = [tree EXCEPT ![p] = "added"]
          /\ \E there \in {{}} \cup {{d} : d \in cmd[c].todo} : own' = [own EXCEPT ![p] = there]
          /\ Step(c, "list") /\ UNCHANGED slips
       \/ /\ tree[p] # "none" /\ Step(c, "refused") /\ UNCHANGED <<tree, own, slips>>
       \/ /\ Slip /\ Step(c, "refused") /\ UNCHANGED <<tree, own>>
    /\ UNCHANGED <<follows, emptied, exclude, links, crossed, leftover>>

\* git worktree list, for the path to report.
ListEntries(c) ==
    /\ cmd[c].step = "list"
    /\ \/ Step(c, "link") /\ UNCHANGED slips
       \/ Slip /\ Step(c, "undo")
    /\ UNCHANGED <<follows, emptied, exclude, tree, links, own, crossed, leftover>>

\* linkDependencyDirectories, one link.
LinkNext(c) ==
    LET p == cmd[c].path IN
    /\ cmd[c].step = "link" /\ cmd[c].todo # {}
    /\ \/ /\ UNCHANGED slips
          /\ \E d \in cmd[c].todo :
                IF d \in own[p] \cup links[p]
                THEN cmd' = [cmd EXCEPT ![c].todo = @ \ {d}] /\ UNCHANGED links
                ELSE /\ tree[p] = "added" /\ links' = [links EXCEPT ![p] = @ \cup {d}]
                     /\ cmd' = [cmd EXCEPT ![c].todo = @ \ {d}, ![c].linked = @ \cup {d}]
       \/ Slip /\ Step(c, "undo") /\ UNCHANGED links
       \/ tree[p] # "added" /\ Step(c, "undo") /\ UNCHANGED <<links, slips>>
    /\ UNCHANGED <<follows, emptied, exclude, tree, own, crossed, leftover>>

\* excludeLinkedPaths: the lines that are not there yet are appended.
ExcludeLinks(c) ==
    /\ cmd[c].step = "link" /\ cmd[c].todo = {}
    /\ \/ exclude' = exclude \cup cmd[c].linked /\ Step(c, "ok") /\ UNCHANGED slips
       \/ cmd[c].linked # {} /\ Slip /\ Step(c, "undo") /\ UNCHANGED exclude
    /\ UNCHANGED <<follows, emptied, tree, links, own, crossed, leftover>>

-----------------------------------------------------------------------------
(* Removal, of a command and of a failed creation *)

FindRegistered(c) ==
    /\ cmd[c].step = "idle"
    /\ \E p \in Paths :
          IF tree[p] = "added" THEN BeginOn(c, p, "remove", "unlink", {})
                               ELSE BeginOn(c, p, "remove", "refused", {})
    /\ UNCHANGED <<follows, emptied, exclude, tree, links, own, slips, leftover>>

\* The slip LinksLeft must not make: git's removal comes first.
NotUnlinked(p) == links[p]

\* What removeDependencyLinks leaves: links go as links, each by itself.
LinksLeft(p) == {}

\* The command stops when a link cannot be removed; a rollback goes on.
Unlink(c) ==
    LET p == cmd[c].path IN
    /\ cmd[c].step \in {"unlink", "undo"}
    /\ \/ /\ links' = [links EXCEPT ![p] = LinksLeft(p)]
          /\ Step(c, IF cmd[c].step = "unlink" THEN "delete" ELSE "undelete")
          /\ UNCHANGED <<slips, leftover>>
       \/ /\ links[p] # {} /\ Slip
          /\ \E left \in SUBSET links[p] : left # {} /\ links' = [links EXCEPT ![p] = left]
          /\ leftover' = leftover \cup {p}
          /\ Step(c, IF cmd[c].step = "unlink" THEN "failed" ELSE "undelete")
    /\ UNCHANGED <<follows, emptied, exclude, tree, own, crossed>>

\* git worktree remove --force, then prune.
DeleteTree(c) ==
    LET p == cmd[c].path IN
    /\ cmd[c].step \in {"delete", "undelete"}
    /\ \/ /\ tree[p] = "added"
          /\ tree' = [tree EXCEPT ![p] = "none"]
          /\ links' = [links EXCEPT ![p] = {}] /\ own' = [own EXCEPT ![p] = {}]
          /\ emptied' = IF follows THEN emptied \cup links[p] ELSE emptied
          /\ Step(c, IF cmd[c].step = "delete" THEN "ok" ELSE "undone") /\ UNCHANGED slips
       \/ tree[p] = "none" /\ Step(c, "failed") /\ UNCHANGED <<tree, links, own, emptied, slips>>
       \/ Slip /\ Step(c, "failed") /\ UNCHANGED <<tree, links, own, emptied>>
    /\ UNCHANGED <<follows, exclude, crossed, leftover>>

CommandDies(c) ==
    /\ Working(c) /\ Slip /\ Step(c, "dead")
    /\ UNCHANGED <<follows, emptied, exclude, tree, links, own, crossed, leftover>>

WtNext ==
    \E c \in Commands :
        \/ CheckTarget(c) \/ AddWorktree(c) \/ ListEntries(c) \/ LinkNext(c) \/ ExcludeLinks(c)
        \/ FindRegistered(c) \/ Unlink(c) \/ DeleteTree(c) \/ CommandDies(c)

WtSpec == WtInit /\ [][WtNext]_wtVars

-----------------------------------------------------------------------------

(* No removal reaches the main tree's directories through a link, not even *)
(* one git follows, unless a link could not be removed or two commands     *)
(* worked on one path (worktree.ts:158-185, 311-327, 395-404).             *)
MainDirsKept == crossed \cup leftover = {} => emptied = {}

(* A worktree that create reports is whole: no link of it shows as         *)
(* untracked there, and no exclude line changes what the main tree shows;  *)
(* a create that says the worktree was removed again left none, unless     *)
(* another command worked on its path (worktree.ts:199-297, 329-374).      *)
CreateIsWhole ==
    /\ \A d \in exclude : MainHolds[d] = "ignored"
    /\ \A c \in Commands :
          (\A d \in Commands \ {c} : cmd[d].path = cmd[c].path => cmd[d].step = "refused") =>
              /\ cmd[c].op = "create" /\ cmd[c].step = "ok" => links[cmd[c].path] \subseteq exclude
              /\ cmd[c].step = "undone" => tree[cmd[c].path] = "none"

(* Both: what create and remove leave behind.                              *)
WorktreesAreWhole == MainDirsKept /\ CreateIsWhole

=============================================================================
