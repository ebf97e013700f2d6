---------------------------- MODULE MCRequestReply ----------------------------
(* Two callers with overlapping calls to one device or to both, retries, and *)
(* a sibling gateway that may overhear the devices, which may refuse.  Four  *)
(* limits keep the instance small.                                           *)
EXTENDS RequestReply, TLC

CONSTANTS c1, c2, d1, d2, g1, g2, STREAM

MCCallers == {c1, c2}
MCDevices == {d1, d2}
MCGateways == {g1, g2}
MCOpcodes == {STREAM}
MCGatewayOf == [d \in MCDevices |-> g1]
Symmetry == Permutations(MCCallers) \cup Permutations(MCDevices)

\* Between the host and the devices are at most two frames, with the one that
\* the reader of their own gateway has at hand.
AtHand == IF rx[g1].busy THEN 1 ELSE 0
FewUnderWay == Cardinality(inbox) + Len(rxq[g1]) + AtHand <= 2
\* The calls do not both come to a retry.
OneRetries == ~(attempt[c1] > 1 /\ attempt[c2] > 1)
\* The sibling overhears one reply at a time, the last one under way.
QuietSibling ==
    rxq[g2] # << >> \/ rx[g2].busy
        => Len(rxq[g2]) <= 1 /\ Len(rxq[g1]) <= 1 /\ inbox = {} /\ ~rx[g1].busy
\* After a refusal the sibling is silent, one frame is under way at a time, the
\* calls follow each other, and only one device answers without ever having
\* executed.
Refusing(q) == \E i \in 1 .. Len(q) : ~q[i].ok
SomeRefusal ==
    \/ answered # executed
    \/ Refusing(rxq[g1] \o rxq[g2] \o got[c1] \o got[c2])
    \/ \E g \in Gateways : rx[g].busy /\ Refusing(<< rx[g].ev >>)
RefusalsAreRare ==
    SomeRefusal => /\ Cardinality(answered \ executed) <= 1
                   /\ \E c \in MCCallers : pc[c] = "idle"
                   /\ rxq[g2] = << >> /\ ~rx[g2].busy
                   /\ Cardinality(inbox) + Len(rxq[g1]) + AtHand <= 1
================================================================================
