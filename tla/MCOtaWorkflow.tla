---------------------------- MODULE MCOtaWorkflow ----------------------------
(* Two nodes are updated, or the presets of one are downloaded; a third node   *)
(* has an access point of its own.                                             *)
EXTENDS OtaWorkflow, TLC
CONSTANTS n1, n2, n3

Request(kind, macs, ops, stop, bssid) ==
  [kind |-> kind, macs |-> macs, ops |-> ops, stop |-> stop, enable |-> TRUE, restore |-> TRUE, bssid |-> bssid]

MCOptions ==
  { Request("update", <<n1, n2>>, {"fw"}, FALSE, None),
    Request("update", <<n1, n2>>, {"file", "fw"}, TRUE, None),
    Request("update", <<n1, n2>>, {"file"}, FALSE, n1),
    [Request("download", <<n2>>, {}, FALSE, n3) EXCEPT !.enable = FALSE],
    Request("download", <<n1>>, {}, FALSE, None) }
=============================================================================
