----------------------------- MODULE MCFileLock -----------------------------
(* FileLock on three processes: two patient callers, and a hurried one that *)
(* runs its work without the lock when it cannot have it.                   *)
EXTENDS FileLock, TLC

CONSTANTS p1, p2, p3

MCProcs    == {p1, p2, p3}
MCFallback == {p3}
MCHurried  == {p3}

=============================================================================
