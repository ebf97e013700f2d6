----------------------------- MODULE MCNodeConfig -----------------------------
(* Two threads and one node.  A behaviour is followed until its writes        *)
(* overlap: from then on the properties claim nothing of the node.            *)
EXTENDS NodeConfig, TLC

CONSTANTS c1, c2, d1

MCCallers == {c1, c2}
MCDeviceList == << d1 >>
Input(o, v) == [opt |-> o, val |-> v]
MCInputs == {Input("persist", 0), Input("persist", 1), Input("filter", 0), Input("forget", 1),
             Input("slots", 1), Input("first", 1), Input("wled", 300)}
Symmetry == Permutations(MCCallers)
Undisturbed == disturbed = {}
================================================================================
