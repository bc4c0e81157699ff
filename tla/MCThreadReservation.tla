------------------------ MODULE MCThreadReservation ------------------------
(* ThreadReservation on runs of one thread, one of them with a Claude child, *)
(* and a scan: two runs for what holds, liveness and the refinement with it; *)
(* three runs for the robbery, which takes a dead cleaner and two who reap.  *)
EXTENDS ThreadReservation

CONSTANTS r1, r2, r3, s1

MCRuns    == {r1, r2, r3}
MCTwoRuns == {r1, r2}
MCScans   == {s1}
MCClaude  == {r1}
MCNone    == {}
=============================================================================
