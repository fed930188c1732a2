---------------------------- MODULE MCNetHandler ----------------------------
(* Small instances of NetHandler.                                          *)
EXTENDS NetHandler, TLC

CONSTANTS h1, h2, m1, m2, c1, c2, a1, s1

MCHostMac == (h1 :> m1 @@ h2 :> m2)

\* Each caller has a host of its own.
MCTargets == (c1 :> h1 @@ c2 :> h2)
MCNoTarget == <<>>

\* What other machines send: an ARP request for an address the servers lease,
\* an offer and an acknowledgement of another exchange, other protocols.
MCUnsolicited ==
  {[type |-> "arp_request", ip |-> a1],
   [type |-> "offer", xid |-> "other", ip |-> a1, server |-> s1],
   [type |-> "ack", xid |-> "other", ip |-> a1, server |-> s1],
   [type |-> "other"]}
MCPings == {[type |-> "echo_request"]}
MCNothing == {}
=============================================================================
