--------------------------- MODULE MCBrokerServer ---------------------------
(* BrokerServer with a turn client that sends a second request over its     *)
(* turn, a review client, and a client that probes, interrupts or asks the  *)
(* idle broker to stop.                                                     *)
EXTENDS BrokerServer, TLC

CONSTANTS c1, c2

MCClients == {c1, c2}
MCReviews == {c2}
MCScript  == (c1 :> {"turn", "rpc"}) @@ (c2 :> {"turn", "cut", "stop"})

=============================================================================
