-------------------------- MODULE MCBrokerLifecycle --------------------------
(* BrokerLifecycle with two commands and the end of the session that one of *)
(* them belongs to.                                                        *)
EXTENDS BrokerLifecycle

CONSTANTS c1, c2, e1

MCUsers == {c1, c2}
MCSessionEnds == {e1}
MCMine     == {c1}

=============================================================================
