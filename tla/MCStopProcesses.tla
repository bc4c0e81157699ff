-------------------------- MODULE MCStopProcesses --------------------------
(* StopProcesses with a worker and a Claude child to stop, in that order;  *)
(* the worker's pid may go to a stranger.                               *)
EXTENDS StopProcesses, TLC

MCTargets == <<11, 12>>
MCMaxGen  == (11 :> 2) @@ (12 :> 1)

=============================================================================
