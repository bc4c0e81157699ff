--------------------------- MODULE ThreadPossession ---------------------------
(* What thread reservations promise: a thread is one run's at a time, with   *)
(* the Claude child that the run noted on the lock, until a cleaner has gone *)
(* and left its claim behind; a run takes a thread that is nobody's.         *)
EXTENDS Naturals

CONSTANT Runs

VARIABLES
    holders,   \* the runs that drive the thread, or whose noted child does
    weakened   \* a cleanup claim was left behind: nothing is promised any more

possession == <<holders, weakened>>

Init == holders = {} /\ weakened = FALSE

Take(r) ==
    /\ holders = {} \/ weakened
    /\ holders' = holders \cup {r}
    /\ UNCHANGED weakened

\* The turn is over, the run dies, or the child it left behind.
GiveUp(r) ==
    /\ r \in holders /\ holders' = holders \ {r}
    /\ UNCHANGED weakened

LeaveClaim ==
    /\ weakened' = TRUE
    /\ UNCHANGED holders

Next == LeaveClaim \/ \E r \in Runs : Take(r) \/ GiveUp(r)

Spec == Init /\ [][Next]_possession
===============================================================================
