---------------------------- MODULE MCGatewayBind ----------------------------
(* Two gateways and two loaded networks, one of them driven by g1 on its own  *)
(* channel, the other without a gateway and a channel; each gateway comes up  *)
(* on a channel the records do not expect of it.                              *)
EXTENDS GatewayBind, TLC
CONSTANTS g1, g2, n1, n2, n3, c1, c2

MCStart == <<n1, n2>>
MCChannel(c) == c

MCInit ==
  /\ Init
  /\ mac[n1] = g1 /\ mac[n2] = None /\ rf[n1] = c1 /\ rf[n2] = None
  /\ gcfg[g1] = c2 /\ gcfg[g2] = c1
MCSpec == MCInit /\ [][Next]_vars /\ Fairness
=============================================================================
