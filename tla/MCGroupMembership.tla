--------------------------- MODULE MCGroupMembership ---------------------------
(* One device, two networks and up to two user groups.                         *)
EXTENDS GroupMembership, TLC

CONSTANTS d1, n1, n2, g1, g2

OneDevice == {d1}
TwoNetworks == {n1, n2}
TwoGroups == {g1, g2}

\* Groups and networks are interchangeable: one initial state of each kind.
\* The scenes refer to every group; a table that names a group twice is kept to
\* the databases without devices.
MCInit ==
    /\ Init
    /\ groups \in {<< >>, << g1 >>, << g1, g2 >>}
    /\ nodeNet[d1] = n1
    /\ scenes.target = 1 .. Len(groups)
    /\ scenes.table \in {scenes.target, scenes.target \ {2}}
    /\ devs # << >> => Canonical(scenes)
    /\ scenes.child = scenes.target \ {1}
    /\ scenes.plain = {Len(groups)}

MCFairSpec == MCInit /\ [][Next]_vars /\ Fairness
================================================================================
