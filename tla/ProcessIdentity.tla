--------------------------- MODULE ProcessIdentity ---------------------------
(***************************************************************************)
(* Which process a recorded pid names (platform/process.ts).  A record     *)
(* keeps a pid and a start token; a later reader compares the token, and a *)
(* marker of the program, with what the platform says of the pid now.      *)
(*                                                                         *)
(* A token is exact on Linux (boot id and start ticks) and a wall-clock    *)
(* start elsewhere, compared within a window.  Boot 0 is a boot id that    *)
(* could not be read.                                                      *)
(***************************************************************************)
EXTENDS Integers

CONSTANTS
    Backward,   \* PROCESS_START_BACKWARD_MS, in the model's unit of time
    Forward     \* PROCESS_START_FORWARD_MS

ASSUME WindowAssumption == Backward \in Nat /\ Forward \in Nat

Platforms == {"linux", "darwin", "win32"}

NoStart              == [kind |-> "none", boot |-> 0, at |-> 0]
LinuxStart(boot, at) == [kind |-> "linux", boot |-> boot, at |-> at]
WallStart(at)        == [kind |-> "wall", boot |-> 0, at |-> at]

InWindow(observed, recorded) ==
    observed.at \in (recorded.at - Backward)..(recorded.at + Forward)

\* Starts of different kinds, or a missing one, tell nothing.
CompareStarts(observed, recorded) ==
    IF observed.kind = "none" \/ observed.kind # recorded.kind THEN "unknown"
    ELSE IF observed = recorded \/ (recorded.kind = "wall" /\ InWindow(observed, recorded)) THEN "match"
    ELSE "contradicts"

\* A recorded wall start is never compared on Linux.
Comparable(platform, start) ==
    IF platform = "linux" /\ start.kind = "wall" THEN NoStart ELSE start

FromEarlierBoot(platform, recorded, boot) ==
    /\ platform = "linux" /\ recorded.kind = "linux"
    /\ 0 \notin {recorded.boot, boot}
    /\ recorded.boot # boot

\* A readable identity of a pid that had not exited; marker is whether the
\* program's marker is on the command line.
IdentityVerdict(identity, recorded) ==
    LET starts == CompareStarts(identity.start, recorded)
    IN IF starts = "contradicts" THEN "foreign"
       ELSE IF starts = "match" THEN
              (IF recorded.kind = "linux" \/ identity.marker # "no" THEN "ours" ELSE "foreign")
       ELSE IF identity.marker = "no" THEN "foreign"
       ELSE IF recorded = NoStart /\ identity.marker = "yes" THEN "ours" ELSE "unknown"

MaybeOurs(verdict) == verdict \in {"ours", "unknown"}

=============================================================================
