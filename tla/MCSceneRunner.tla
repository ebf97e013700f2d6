---------------------------- MODULE MCSceneRunner ----------------------------
(* Five groups on two networks, unconfigured nodes (group 0) on the first, and *)
(* scenes that take every wire path of the optimizer, degrade, raise, stop,    *)
(* and name networks that are gone.  The host starts with both gateways or     *)
(* with the first one.                                                         *)
EXTENDS SceneRunner, TLC
CONSTANTS n0, n1, n2, n3, n4, m0, A, B, Gone, r1, r2

Symmetry == Permutations({r1, r2})

MCGroupOf == n0 :> 0 @@ n1 :> 1 @@ n2 :> 2 @@ n3 :> 3 @@ n4 :> 4
MCNetworkOf == n0 :> A @@ n1 :> A @@ n2 :> B @@ n3 :> A @@ n4 :> A
FleetGroupOf == MCGroupOf @@ m0 :> 0
FleetNetworkOf == MCNetworkOf @@ m0 :> B

All == [kind |-> "broadcast"]
Some(S) == [kind |-> "groups", value |-> S]
Device(n) == [kind |-> "device", value |-> n]
Effect(t) == [kind |-> "effect", target |-> t, preset |-> "none", override |-> None, bad |-> FALSE]
Container(t, o, c) == [kind |-> "offset_group", target |-> t, offset |-> o, actions |-> c]
Scene(stop, sc, acts) == [stop |-> stop, scope |-> sc, actions |-> acts]
Linear == [mode |-> "linear", base |-> 4, step |-> -3]
Vshape == [mode |-> "vshape", base |-> 1, step |-> 2, center |-> 2]
Modulo == [mode |-> "modulo", base |-> 0, step |-> 5, cycle |-> 2]
Table == [mode |-> "explicit", values |-> <<[id |-> 1, ms |-> 3], [id |-> 2, ms |-> 0]>>]
Sync == [kind |-> "sync"]
Flagged == [Effect(All) EXCEPT !.preset = "flagged"]

MCInit == Init /\ up \in {<<B, A>>, <<A>>}
MCSpec == MCInit /\ [][Next]_vars

MCScenes ==
  [formula |-> Scene(TRUE, None, <<Container(Some({1, 2, 3}), Linear, <<Effect(All)>>), Sync>>),
   table   |-> Scene(TRUE, None, <<Container(Some({1, 2}), Table, <<Effect(All)>>), Effect(Some({3}))>>),
   fleet   |-> Scene(FALSE, {A}, <<Container(All, Modulo, <<Effect(All)>>), Effect(Some({2}))>>),
   clear   |-> Scene(TRUE, None, <<Container(Some({1, 5}), Clear, <<>>), Flagged>>),
   gone    |-> Scene(FALSE, {Gone}, <<Container(Some({2}), Vshape, <<Effect(All)>>), Sync>>),
   stops   |-> Scene(TRUE, {Gone}, <<Effect(Device(n1)), Sync, Effect(Device(n2))>>),
   raises  |-> Scene(FALSE, None, <<Effect(Device(Ghost)), [Effect(All) EXCEPT !.bad = TRUE], Effect(All)>>),
   missing |-> Scene(TRUE, {A, B}, <<Container(All, Linear, <<[Effect(All) EXCEPT !.preset = "gone"]>>),
                                     [kind |-> "delay"], [Flagged EXCEPT !.override = FALSE]>>),
   invalid |-> Scene(TRUE, None, <<Container(Some({1}), Linear, <<Effect(Some({2}))>>)>>),
   empty   |-> Scene(TRUE, {}, <<Sync>>)]
=============================================================================
