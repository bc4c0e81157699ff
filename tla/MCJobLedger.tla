---------------------------- MODULE MCJobLedger ----------------------------
(* JobLedger on a background job that the session end sweeps and a         *)
(* foreground job of another session, with an index that keeps one row.    *)
(* The runs differ in which of the two the user may cancel, and in whether *)
(* the background job's run has a headless Claude child.                   *)
EXTENDS JobLedger

CONSTANTS j1, j2

MCJobs         == {j1, j2}
MCForeground   == {j2}
MCSession      == {j1}
MCClaude       == {j1}
MCNone         == {}
MCCancels      == {j1}
MCCancelsOther == {j2}
=============================================================================
