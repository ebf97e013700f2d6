----------------------------- MODULE MCLinkExpect -----------------------------
(* A sending thread and three transports with a device each: a tagged serial *)
(* one, an Ethernet one, and a serial one on a pinned port, untagged.  The   *)
(* theorems of GatewayProofs hold of any number of sending threads.          *)
EXTENDS LinkExpect, TLC

CONSTANTS c1, d1, d2, d3, g1, g2, g3

MCCallers == {c1}
MCDevices == {d1, d2, d3}
MCGateways == {g1, g2, g3}
MCGatewayOf == (d1 :> g1) @@ (d2 :> g2) @@ (d3 :> g3)
Second == {g2}
Third == {g3}
================================================================================
