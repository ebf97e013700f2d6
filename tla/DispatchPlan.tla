----------------------------- MODULE DispatchPlan -----------------------------
(***************************************************************************)
(* What a scene action puts on the air, as pure functions: the validation  *)
(* of a scene (scenes_service), the networks its broadcasts go to          *)
(* (scene_network_scope), the wire-path optimizer for offset_group         *)
(* containers (offset_dispatch_optimizer), the offset formula and the      *)
(* planner the scene runner and the cost estimator share                   *)
(* (dispatch_planner).                                                     *)
(*                                                                         *)
(* A target is [kind, value]: "broadcast", "groups" with a set of group    *)
(* ids (validated lists have no duplicates and are sorted) or "device".    *)
(* An effect action has the target, the preset it names ("none" for an     *)
(* effect with its own parameters, "flagged" for a preset stored with      *)
(* offset_mode, "plain", "gone"), the override of the offset_mode flag or  *)
(* None, and whether its unvalidated parameters are numbers.  The kinds    *)
(* rl_preset, wled_preset and rl_effect differ in nothing else here; the   *)
(* startblock kind, which streams pilot names, is left out.                *)
(***************************************************************************)
EXTENDS Integers, Sequences, FiniteSets, FiniteSetsExt, SequencesExt

CONSTANTS Nodes, Groups, Nets, \* known nodes, group ids, networks on file
          GroupOf, NetworkOf,  \* the group and the network of each node
          Ghost,               \* an address no node has
          None,                \* Python's None
          OffsetMax,           \* OFFSET_MS_MAX
          MaxActions,          \* MAX_ACTIONS_PER_SCENE
          MaxChildren,         \* MAX_OFFSET_GROUP_CHILDREN
          MaxEntries           \* MAX_GROUPS_OFFSET_ENTRIES

Broadcast == 255  \* the group id every node listens to

ASSUME FleetAssumption ==
  /\ Groups \subseteq 0 .. 254 /\ IsFiniteSet(Nets) /\ Nets # {} /\ OffsetMax \in Nat
  /\ GroupOf \in [Nodes -> Groups] /\ NetworkOf \in [Nodes -> Nets]
  /\ \A m, n \in Nodes : GroupOf[m] = GroupOf[n] /\ GroupOf[m] # 0 => NetworkOf[m] = NetworkOf[n]
  /\ None \notin Nodes \cup Nets /\ Ghost \notin Nodes
  /\ \A x \in BOOLEAN \cup SUBSET Nets : x # None

\* The shapes of targets, offset blocks and actions; their values are validated below.
Targets ==
  [kind : {"broadcast"}] \cup [kind : {"groups"}, value : SUBSET Int]
    \cup [kind : {"device"}, value : Nodes \cup {Ghost}]
Offsets ==
  [mode : {"none"}] \cup [mode : {"explicit"}, values : Seq([id : Int, ms : Int])]
    \cup [mode : {"linear"}, base : Int, step : Int]
    \cup [mode : {"vshape"}, base : Int, step : Int, center : Int]
    \cup [mode : {"modulo"}, base : Int, step : Int, cycle : Nat \ {0}]
Effects ==
  [kind : {"effect"}, target : Targets, preset : {"none", "flagged", "plain", "gone"},
   override : BOOLEAN \cup {None}, bad : BOOLEAN]
Actions ==
  Effects \cup [kind : {"sync", "delay"}]
    \cup [kind : {"offset_group"}, target : Targets, offset : Offsets, actions : Seq(Effects)]

KnownGroups == {GroupOf[n] : n \in Nodes}

\* The elements of a set of numbers in ascending order.
Ascending(S) == [i \in 1 .. Cardinality(S) |-> CHOOSE x \in S : Cardinality({y \in S : y < x}) = i - 1]

\* group 0 spans every network and an empty group has none
GroupNetwork(g) ==
  LET nets == {NetworkOf[n] : n \in {m \in Nodes : GroupOf[m] = g}}
  IN IF g = 0 \/ nets = {} THEN None ELSE CHOOSE x \in nets : TRUE

-----------------------------------------------------------------------------
\* Validation: what is stored, and what an ad-hoc run is refused for.

CanonicalTarget(t) ==
  t.kind = "groups" => t.value # {} /\ t.value \subseteq 0 .. 254

CanonicalOffset(o, t) ==
  o.mode = "explicit" =>
    /\ t.kind = "groups" /\ Len(o.values) = Cardinality(t.value)
    /\ \A i \in DOMAIN o.values : o.values[i].id \in t.value /\ o.values[i].ms \in 0 .. OffsetMax

\* a child may name groups only from among the container's
CanonicalChild(c, t) ==
  CanonicalTarget(c.target) /\ (c.target.kind = "groups" /\ t.kind = "groups" => c.target.value \subseteq t.value)

CanonicalAction(a) ==
  /\ a.kind \in {"effect", "offset_group"} => CanonicalTarget(a.target)
  /\ a.kind = "offset_group" =>
       /\ a.target.kind # "device" /\ CanonicalOffset(a.offset, a.target)
       /\ a.target.kind = "groups" => Cardinality(a.target.value) <= MaxEntries
       /\ Len(a.actions) <= MaxChildren
       /\ \A i \in DOMAIN a.actions : CanonicalChild(a.actions[i], a.target)

CanonicalScene(s) ==
  /\ Len(s.actions) <= MaxActions /\ \A i \in DOMAIN s.actions : CanonicalAction(s.actions[i])
  /\ s.scope # None => s.scope # {}

-----------------------------------------------------------------------------
\* The networks of a scene.

TargetNetworks(t, parent) ==
  CASE t.kind = "broadcast" -> IF parent = None THEN Nets ELSE parent
    [] t.kind = "groups" -> {GroupNetwork(g) : g \in t.value} \ {None}
    [] t.kind = "device" -> IF t.value \in Nodes THEN {NetworkOf[t.value]} ELSE {}

ActionNetworks(a) ==
  CASE a.kind = "effect" -> TargetNetworks(a.target, None)
    [] a.kind = "offset_group" ->
         LET own == TargetNetworks(a.target, None)
         IN own \cup UNION {TargetNetworks(a.actions[i].target, own) : i \in DOMAIN a.actions}
    [] OTHER -> {}

\* scope is None in automatic mode.  An explicit scope is filtered by the networks on file, an automatic one is
\* the union over the actions
SceneNetworks(s) ==
  IF s.scope = None THEN UNION {ActionNetworks(s.actions[i]) : i \in DOMAIN s.actions}
  ELSE s.scope \cap Nets

-----------------------------------------------------------------------------
\* Offsets.

Clamp(v) == IF v < 0 THEN 0 ELSE IF v > OffsetMax THEN OffsetMax ELSE v

EvaluateOffset(o, g) ==
  CASE o.mode = "none" -> 0
    [] o.mode = "explicit" -> Clamp(o.ms)
    [] o.mode = "linear" -> Clamp(o.base + g * o.step)
    [] o.mode = "vshape" -> Clamp(o.base + (IF g > o.center THEN g - o.center ELSE o.center - g) * o.step)
    [] o.mode = "modulo" -> Clamp(o.base + (g % o.cycle) * o.step)

OffsetBytes(o) ==
  CASE o.mode = "none" -> 2 [] o.mode = "explicit" -> 4 [] o.mode = "linear" -> 6 [] OTHER -> 7

OffsetOp(g, o) == [sender |-> "send_offset", to |-> g, dev |-> None, offset |-> o, bad |-> FALSE]
Explicit(v) == [mode |-> "explicit", ms |-> v]
Clear == [mode |-> "none"]

\* one packet per group, in ascending order; value is the offset of each
OffsetOps(value) == LET g == Ascending(DOMAIN value) IN [i \in DOMAIN g |-> OffsetOp(g[i], value[g[i]])]

\* the bytes of a plan, counted by the lengths a frame can have
Bytes(ops) ==
  LET frames(n) == Cardinality({i \in DOMAIN ops : OffsetBytes(ops[i].offset) = n})
  IN 2 * frames(2) + 4 * frames(4) + 6 * frames(6) + 7 * frames(7)
Cheaper(p, q) == Len(p) < Len(q) \/ (Len(p) = Len(q) /\ Bytes(p) < Bytes(q))

\* the value of group g in an explicit table, 0 when it has no entry; the last of two counts
TableValue(o, g) ==
  LET at == {i \in DOMAIN o.values : o.values[i].id = g}
  IN IF at = {} THEN 0 ELSE o.values[Max(at)].ms

\* A: one broadcast formula
StrategyA(t, o) == IF t.kind = "broadcast" /\ o.mode # "explicit" THEN << <<OffsetOp(Broadcast, o)>> >> ELSE <<>>

\* Mutant of StrategyB: a group without an offset is sent the explicit offset 0.
StrategyBZero(t, o) ==
  LET groups == IF t.kind = "broadcast" THEN KnownGroups ELSE t.value
      value == [g \in groups |-> Explicit(IF o.mode = "explicit" THEN TableValue(o, g) ELSE EvaluateOffset(o, g))]
  IN IF groups = {} THEN <<>> ELSE <<OffsetOps(value)>>

\* B: one explicit value, or one clear, per group
StrategyB(t, o) ==
  LET groups == IF t.kind = "broadcast" THEN KnownGroups ELSE t.value
      value == [g \in groups |-> CASE o.mode = "explicit" -> Explicit(TableValue(o, g))
                                   [] o.mode = "none" /\ t.kind = "groups" -> Clear
                                   [] OTHER -> Explicit(EvaluateOffset(o, g))]
  IN IF groups = {} THEN <<>> ELSE <<OffsetOps(value)>>

\* C: a broadcast formula, taken back from the groups that do not take part
StrategyC(t, o) ==
  IF t.kind = "broadcast" \/ o.mode \in {"explicit", "none"} \/ KnownGroups = {} THEN <<>>
  ELSE << <<OffsetOp(Broadcast, o)>> \o OffsetOps([g \in KnownGroups \ t.value |-> Clear]) >>

\* the cheapest, the first one of equals
PlanOffsetSetup(t, o) ==
  LET plans == StrategyA(t, o) \o StrategyB(t, o) \o StrategyC(t, o)
  IN IF plans = <<>> THEN <<>>
     ELSE plans[CHOOSE i \in DOMAIN plans : \A j \in DOMAIN plans :
                  /\ ~Cheaper(plans[j], plans[i])
                  /\ j < i => Cheaper(plans[i], plans[j])]

-----------------------------------------------------------------------------
\* The planner.

\* the offset_mode flag of an effect: forced by the container, overridden, or the preset's
OffsetFlag(a, force) ==
  IF force # None THEN force ELSE IF a.override # None THEN a.override ELSE a.preset = "flagged"

\* the [to, dev] pairs of a target, None when it names nobody
ResolveTarget(t) ==
  CASE t.kind = "broadcast" -> <<[to |-> Broadcast, dev |-> None]>>
    [] t.kind = "groups" -> LET g == Ascending(t.value) IN [i \in DOMAIN g |-> [to |-> g[i], dev |-> None]]
    [] t.kind = "device" -> IF t.value \notin Nodes THEN None
                            ELSE <<[to |-> GroupOf[t.value], dev |-> t.value]>>

Degraded == [ops |-> <<>>, degraded |-> TRUE]
Plan(ops) == [ops |-> ops, degraded |-> FALSE]

PlanEffect(a, force, child) ==
  LET at == ResolveTarget(a.target)
  IN IF at = None \/ a.preset = "gone" THEN Degraded
     ELSE Plan([i \in DOMAIN at |->
                 [sender |-> "send_control", to |-> at[i].to, dev |-> at[i].dev,
                  flag |-> OffsetFlag(a, force), child |-> child, bad |-> a.bad]])

\* the offset frames first, then the children in their order
PlanOffsetGroup(a) ==
  LET setup == PlanOffsetSetup(a.target, a.offset)
      plans == [i \in DOMAIN a.actions |-> PlanEffect(a.actions[i], a.offset.mode # "none", TRUE)]
  IN [ops |-> setup \o FlattenSeq([i \in DOMAIN plans |-> plans[i].ops]),
      degraded |-> \E i \in DOMAIN plans : plans[i].degraded]

PlanAction(a) ==
  CASE a.kind = "effect" -> PlanEffect(a, None, FALSE)
    [] a.kind = "sync" -> Plan(<<[sender |-> "send_sync", to |-> Broadcast, dev |-> None, bad |-> FALSE]>>)
    [] a.kind = "delay" -> Plan(<<>>)
    [] a.kind = "offset_group" -> PlanOffsetGroup(a)

=============================================================================
