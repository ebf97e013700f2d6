----------------------------- MODULE SceneRunner -----------------------------
(***************************************************************************)
(* Scene runs.  SceneRunnerService.run is called by a request thread of    *)
(* the web API or by the host application, and nothing keeps two runs      *)
(* apart: both use the one service object, and with it the broadcast       *)
(* scope that run() stores there for its duration and that an offset_group *)
(* container narrows for its own.                                          *)
(*                                                                         *)
(* A step of a run is one planned action, one frame handed to the          *)
(* gateways, or the end of an action.  Frames carry no acknowledgement: a  *)
(* send whose gateway reports a failure still counts as sent.  The nodes   *)
(* keep the offset they were given (external, as the code describes the    *)
(* firmware): a node with a stored offset takes only effects flagged       *)
(* offset_mode, one without takes only effects that are not.               *)
(***************************************************************************)
EXTENDS DispatchPlan

CONSTANTS Runs,       \* request threads
          Scenes,     \* the scenes, by name, as they are submitted
          Normal,     \* no offset is stored on a node
          MaxRuns,    \* bound on runs started
          MaxEvents   \* bound on gateways that come or go and on sends that fail

\* What run() and a container keep of the scope to put it back.
Saved == [scope : (SUBSET Nets) \cup {None}, blocked : BOOLEAN]

ASSUME ScenesAssumption ==
  /\ \A k \in DOMAIN Scenes : Scenes[k].stop \in BOOLEAN /\ Scenes[k].actions \in Seq(Actions)
  /\ Normal \notin 0 .. OffsetMax /\ None \notin Saved

VARIABLES scope,   \* _current_broadcast_scope: networks or None
          blocked, \* _broadcast_is_explicit_empty
          up,      \* controller.transports: networks in the order of attachment
          run,     \* per request thread: the run
          off,     \* per node: its stored offset (firmware)
          air,     \* the last frame of the action under way: its gateways and who took it
          started, events, \* counters for the bounds
          mixed    \* two runs overlapped at some time

vars == <<scope, blocked, up, run, off, air, started, events, mixed>>
counters == <<started, events>>

Idle == [pc |-> "idle"]
SceneOf(r) == Scenes[run[r].key]
Action(r) == SceneOf(r).actions[run[r].i]
Active == {r \in Runs : run[r].pc # "idle"}
Attached == ToSet(up)

\* the run and every other one lose their claim to have run undisturbed
Disturbed(f) == [r \in Runs |-> IF f[r].pc = "idle" THEN f[r] ELSE [f[r] EXCEPT !.alone = FALSE]]

Init ==
  /\ scope = None /\ blocked = FALSE
  /\ up \in UNION {SetToSeqs(S) : S \in SUBSET Nets}
  /\ run = [r \in Runs |-> Idle] /\ off = [n \in Nodes |-> Normal] /\ air = None
  /\ started = 0 /\ events = 0 /\ mixed = FALSE

-----------------------------------------------------------------------------
\* The run.

\* the plans, and the scopes: functions of the scene and of the fleet, which is fixed here
PlanOf == [k \in DOMAIN Scenes |-> [i \in DOMAIN Scenes[k].actions |-> PlanAction(Scenes[k].actions[i])]]
ScopeOf == [k \in DOMAIN Scenes |-> SceneNetworks(Scenes[k])]

\* run(): the scope of the scene is computed and stored, the previous one kept
Begin(r, k) ==
  /\ run[r].pc = "idle" /\ started < MaxRuns /\ started' = started + 1
  /\ CanonicalScene(Scenes[k])
  /\ LET nets == ScopeOf[k]
         new == [run EXCEPT ![r] =
                  [pc |-> "plan", key |-> k, i |-> 1, ops |-> <<>>, took |-> {}, good |-> "ok", res |-> <<>>,
                   prev |-> [scope |-> scope, blocked |-> blocked], outer |-> None,
                   alone |-> TRUE, before |-> off]]
     IN /\ scope' = IF nets = {} THEN None ELSE nets
        /\ blocked' = (Scenes[k].scope # None /\ nets = {})
        /\ run' = IF Active = {} THEN new ELSE Disturbed(new)
  /\ mixed' = (mixed \/ Active # {})
  /\ UNCHANGED <<up, off, air, events>>

\* a container that names groups replaces the scope, and lifts the block
Narrowed(a) == a.kind = "offset_group" /\ a.target.kind = "groups"

\* _dispatch: the action is planned; a degraded plan sends nothing
Plans(r) ==
  /\ run[r].pc = "plan" /\ run[r].i <= Len(SceneOf(r).actions)
  /\ LET a == Action(r)
         plan == PlanOf[run[r].key][run[r].i]
         nets == TargetNetworks(a.target, None)
     IN /\ run' = [run EXCEPT ![r] =
             [@ EXCEPT !.pc = "send", !.ops = IF plan.degraded THEN <<>> ELSE plan.ops, !.took = {},
                       !.good = IF plan.degraded THEN "degraded"
                                ELSE IF a.kind = "offset_group" /\ plan.ops = <<>> THEN "error" ELSE "ok",
                       !.outer = IF Narrowed(a) THEN [scope |-> scope, blocked |-> blocked] ELSE None,
                       !.before = off]]
        /\ IF Narrowed(a) THEN scope' = (IF nets = {} THEN None ELSE nets) /\ blocked' = FALSE
           ELSE UNCHANGED <<scope, blocked>>
  /\ air' = None
  /\ UNCHANGED <<up, off, counters, mixed>>

FirstUp == IF up = <<>> THEN {} ELSE {up[1]}

\* Mutant of Route: a device is reached through the first gateway.
RouteDevicesFirst(op) ==
  IF op.dev # None THEN FirstUp
  ELSE IF op.to # Broadcast THEN IF GroupNetwork(op.to) \in Attached THEN {GroupNetwork(op.to)} ELSE FirstUp
  ELSE IF scope # None THEN scope \cap Attached
  ELSE IF op.sender = "send_sync" THEN Attached ELSE FirstUp

\* the gateways of a frame, by their networks
Route(op) ==
  IF op.dev # None THEN IF NetworkOf[op.dev] \in Attached THEN {NetworkOf[op.dev]}
                        ELSE IF Len(up) > 1 THEN {} ELSE FirstUp
  ELSE IF op.to # Broadcast THEN IF GroupNetwork(op.to) \in Attached THEN {GroupNetwork(op.to)} ELSE FirstUp
  ELSE IF scope # None THEN scope \cap Attached
  ELSE IF op.sender = "send_sync" THEN Attached ELSE FirstUp

\* the nodes a frame on these networks addresses
Addressed(op, nets) ==
  {n \in Nodes : NetworkOf[n] \in nets /\ (op.to = Broadcast \/ GroupOf[n] = op.to) /\ op.dev \in {None, n}}

\* the nodes that act on an effect
Takes(op, nets) == {n \in Addressed(op, nets) : op.flag = (off[n] # Normal)}

\* the offset a node stores, which it computes from its own group
Stored(n, o) == IF o.mode = "none" THEN Normal ELSE EvaluateOffset(o, GroupOf[n])

\* _dispatch_op: one frame.  A broadcast of a scene whose explicit scope names no
\* network on file is refused.  A failing gateway in F gets nothing out, which
\* nobody reads from the result.
SendOp(r, F) ==
  /\ run[r].pc = "send" /\ run[r].ops # <<>> /\ ~Head(run[r].ops).bad
  /\ LET op == Head(run[r].ops)
         refused == op.to = Broadcast /\ blocked
         nets == IF refused THEN {} ELSE Route(op)
         sent == nets \ F
         took == IF op.sender = "send_control" THEN Takes(op, sent) ELSE {}
         fine == ~refused /\ (nets # {} \/ op.sender = "send_sync")
     IN /\ F \subseteq nets /\ events + Cardinality(F) <= MaxEvents
        /\ events' = events + Cardinality(F)
        /\ run' = LET new == [run EXCEPT ![r] = [@ EXCEPT !.ops = Tail(run[r].ops), !.took = run[r].took \cup took,
                                                       !.good = IF fine THEN run[r].good ELSE "error"]]
                  IN IF F = {} THEN new ELSE Disturbed(new)
        /\ off' = IF op.sender = "send_offset"
                  THEN [n \in Nodes |-> IF n \in Addressed(op, sent) THEN Stored(n, op.offset) ELSE off[n]]
                  ELSE off
        /\ air' = IF nets = {} THEN air
                  ELSE [by |-> r, op |-> op, nets |-> nets, up |-> Attached, took |-> took]
  /\ UNCHANGED <<scope, blocked, up, started, mixed>>

\* parameters that are no numbers raise when the frame is built, as those of a WLED
\* preset do (the planner finds the others, before the offsets of a container are
\* sent); the exception ends the action
SendRaises(r) ==
  /\ run[r].pc = "send" /\ run[r].ops # <<>> /\ Head(run[r].ops).bad
  /\ run' = [run EXCEPT ![r] = [@ EXCEPT !.good = "error",
              !.ops = IF Head(run[r].ops).to = Broadcast /\ blocked THEN Tail(run[r].ops) ELSE <<>>]]
  /\ UNCHANGED <<scope, blocked, up, off, air, counters, mixed>>

\* the results of actions that are not run
Skipped(n) == [j \in 1 .. n |-> "skipped"]

\* stop_on_error: an error aborts, a degraded action does not
Stops(r) == SceneOf(r).stop /\ run[r].good = "error"

\* Mutant of EndAction: the scope of a container outlives it.
EndActionKeepsScope(r) ==
  /\ run[r].pc = "send" /\ run[r].ops = <<>>
  /\ LET n == Len(SceneOf(r).actions)
         stop == Stops(r)
     IN run' = [run EXCEPT ![r] = [@ EXCEPT !.pc = "plan", !.outer = None, !.i = IF stop THEN n + 1 ELSE run[r].i + 1,
                     !.res = Append(run[r].res, run[r].good) \o (IF stop THEN Skipped(n - run[r].i) ELSE <<>>)]]
  /\ air' = None
  /\ UNCHANGED <<scope, blocked, up, off, counters, mixed>>

\* The result is recorded and a container gives the scope back.  The first error
\* of a scene that stops on errors marks the rest as skipped.
EndAction(r) ==
  /\ run[r].pc = "send" /\ run[r].ops = <<>>
  /\ LET n == Len(SceneOf(r).actions)
         stop == Stops(r)
     IN run' = [run EXCEPT ![r] =
          [@ EXCEPT !.pc = "plan", !.outer = None,
                    !.i = IF stop THEN n + 1 ELSE run[r].i + 1,
                    !.res = Append(run[r].res, run[r].good) \o (IF stop THEN Skipped(n - run[r].i) ELSE <<>>)]]
  /\ IF run[r].outer = None THEN UNCHANGED <<scope, blocked>>
     ELSE scope' = run[r].outer.scope /\ blocked' = run[r].outer.blocked
  /\ air' = None
  /\ UNCHANGED <<up, off, counters, mixed>>

\* the finally clause: the scope found at the start is put back
Finish(r) ==
  /\ run[r].pc = "plan" /\ run[r].i > Len(SceneOf(r).actions)
  /\ scope' = run[r].prev.scope /\ blocked' = run[r].prev.blocked
  /\ run' = [run EXCEPT ![r] = Idle]
  /\ UNCHANGED <<up, off, air, counters, mixed>>

\* a gateway is attached or lost (modelled in GatewayLifecycle)
GatewayComes(x) ==
  /\ events < MaxEvents /\ events' = events + 1
  /\ x \notin Attached /\ up' = Append(up, x)
  /\ run' = Disturbed(run)
  /\ UNCHANGED <<scope, blocked, off, air, started, mixed>>

GatewayGoes(x) ==
  /\ events < MaxEvents /\ events' = events + 1
  /\ \E i \in DOMAIN up : up[i] = x /\ up' = RemoveAt(up, i)
  /\ run' = Disturbed(run)
  /\ UNCHANGED <<scope, blocked, off, air, started, mixed>>

RunStep(r) == Plans(r) \/ (\E F \in SUBSET Nets : SendOp(r, F)) \/ SendRaises(r) \/ EndAction(r) \/ Finish(r)

Next ==
  \/ \E r \in Runs, k \in DOMAIN Scenes : Begin(r, k)
  \/ \E r \in Runs : RunStep(r)
  \/ \E x \in Nets : GatewayComes(x) \/ GatewayGoes(x)

Spec == Init /\ [][Next]_vars

-----------------------------------------------------------------------------
\* Properties.  A run is undisturbed (alone) when no other run overlapped it, no
\* gateway came or went and no send failed since it began.

TypeOK ==
  /\ scope \in ((SUBSET Nets) \ {{}}) \cup {None} /\ blocked \in BOOLEAN /\ mixed \in BOOLEAN
  /\ up \in UNION {SetToSeqs(S) : S \in SUBSET Nets}
  /\ off \in [Nodes -> 0 .. OffsetMax \cup {Normal}]
  /\ \A r \in Active : /\ run[r].pc \in {"plan", "send"} /\ run[r].i \in 1 .. Len(SceneOf(r).actions) + 1
                       /\ run[r].good \in {"ok", "error", "degraded"} /\ run[r].took \subseteq Nodes
                       /\ Len(run[r].res) = run[r].i - 1
  /\ air # None => air.nets \subseteq air.up /\ run[air.by].pc = "send"

\* what the operator means by a target and by the scope of a scene, in terms of nodes
Touches(t, x) ==
  t.kind = "broadcast" \/ \E n \in Nodes : NetworkOf[n] = x /\ (\/ t.kind = "device" /\ n = t.value
                                                                \/ t.kind = "groups" /\ GroupOf[n] \in t.value \ {0})
InScene(s, x) ==
  IF s.scope # None THEN x \in s.scope
  ELSE \E i \in DOMAIN s.actions : LET a == s.actions[i] IN
         /\ a.kind \in {"effect", "offset_group"}
         /\ \/ Touches(a.target, x)
            \/ a.kind = "offset_group" /\ \E j \in DOMAIN a.actions :
                 a.actions[j].target.kind # "broadcast" /\ Touches(a.actions[j].target, x)

\* A broadcast of an undisturbed run goes out on exactly the attached gateways of
\* the networks that its container names, or else of those the scene is scoped to,
\* and on none when the networks of an explicit scope are all gone: the scope of an
\* earlier run, or of an earlier container, never narrows or widens it.
BroadcastInScope ==
  air # None /\ air.op.to = Broadcast /\ run[air.by].alone =>
    LET a == Action(air.by)
        s == SceneOf(air.by)
        want == {x \in Nets : IF Narrowed(a) THEN Touches(a.target, x) ELSE InScene(s, x)}
    IN /\ want # {} => air.nets = want \cap air.up
       /\ want = {} => Narrowed(a) \/ s.scope = None

\* the nodes a container is for, as far as a gateway reaches them
Participants(r, a) ==
  {n \in Nodes : NetworkOf[n] \in Attached /\ IF Narrowed(a) THEN GroupOf[n] \in a.target.value \ {0}
                                              ELSE InScene(SceneOf(r), NetworkOf[n])}

\* The cheapest path of a broadcast container in a fleet of unconfigured nodes only
\* is one frame to group 0, which leaves by the first gateway.
Selects(a) == a.kind = "offset_group" /\ (Narrowed(a) \/ KnownGroups # {0})

\* After an undisturbed container that reports ok, whichever of the three wire
\* paths was the cheapest, every participant stores the offset its group is meant
\* to have, and no node of another group has an offset it did not have before.
ContainerIsExact ==
  \A r \in Active : run[r].pc = "send" /\ run[r].ops = <<>> /\ run[r].good = "ok" /\ run[r].alone =>
    LET a == Action(r) IN Selects(a) =>
      \A n \in Nodes :
        IF n \in Participants(r, a)
        THEN off[n] = CASE a.offset.mode = "none" -> Normal
                        [] a.offset.mode = "explicit" -> TableValue(a.offset, GroupOf[n])
                        [] OTHER -> EvaluateOffset(a.offset, GroupOf[n])
        ELSE Narrowed(a) /\ GroupOf[n] # 0 => off[n] \in {run[r].before[n], Normal}

\* A child's broadcast in an undisturbed container with offsets is taken by every
\* participant, and by a node of another group only if that one had an offset
\* stored before the container: this is how the container selects its groups.
ChildrenFindParticipants ==
  air # None /\ air.op.sender = "send_control" /\ run[air.by].alone =>
    LET r == air.by  a == Action(r) IN
    Selects(a) /\ air.op.to = Broadcast /\ a.offset.mode # "none" =>
      /\ Participants(r, a) \subseteq air.took
      /\ \A n \in air.took \ Participants(r, a) :
           Narrowed(a) /\ GroupOf[n] # 0 => run[r].before[n] # Normal

\* An effect that an undisturbed run reports as ok was taken by every node it is
\* for that a gateway reaches and that is in the offset state the effect is for.
OkMeansHeard ==
  \A r \in Active : run[r].pc = "send" /\ run[r].ops = <<>> /\ run[r].good = "ok" /\ run[r].alone =>
    LET a == Action(r) IN a.kind = "effect" =>
      {n \in Nodes :
        /\ NetworkOf[n] \in Attached /\ OffsetFlag(a, None) = (run[r].before[n] # Normal)
        /\ CASE a.target.kind = "broadcast" -> InScene(SceneOf(r), NetworkOf[n])
             [] a.target.kind = "groups" -> GroupOf[n] \in a.target.value \ {0}
             [] a.target.kind = "device" -> n = a.target.value} \subseteq run[r].took

\* A finished run has one result per action; the actions after the first error of
\* a scene that stops on errors, and no others, are reported as skipped, and
\* skipped actions have touched no node.
ResultsTell ==
  \A r \in Active : run[r].pc = "plan" /\ run[r].i > Len(SceneOf(r).actions) =>
    /\ Len(run[r].res) = Len(SceneOf(r).actions)
    /\ \A j \in DOMAIN run[r].res :
         run[r].res[j] = "skipped" <=> SceneOf(r).stop /\ \E k \in 1 .. j - 1 : run[r].res[k] = "error"

\* When no run is under way and no two ever overlapped, no scope is left behind.
ScopeReleased == Active = {} /\ ~mixed => scope = None /\ ~blocked

\* The broadcast scope that runs and containers share through the service object
\* is always the one of the run that sends: exact while it runs, gone afterwards.
ScopeIsOwn == BroadcastInScope /\ ScopeReleased

\* A container selects its groups, whichever wire path the optimizer chose: the
\* offsets it leaves and the children it then sends agree on who takes part.
ContainerSelects == ContainerIsExact /\ ChildrenFindParticipants

\* The results of an undisturbed run are true: what it calls ok was heard, what it
\* calls skipped was not sent (SceneRunnerService.run).
ResultsAreTrue == OkMeansHeard /\ ResultsTell

\* offset_dispatch_optimizer.py:25-30: a clear for each group that does not take
\* part undoes the broadcast formula.  The clear for group 0, which has no network of
\* its own, leaves by the first gateway only.
OverridesReachAll ==
  \A r \in Active : run[r].pc = "send" /\ run[r].ops = <<>> /\ run[r].good = "ok" /\ run[r].alone =>
    LET a == Action(r) IN a.kind = "offset_group" /\ Narrowed(a) =>
      \A n \in Nodes : NetworkOf[n] \in Attached /\ GroupOf[n] \notin a.target.value =>
        off[n] \in {run[r].before[n], Normal}

\* scene_runner_service.py:457: a broadcast that the scope refuses is recorded as degraded.
RefusedIsDegraded ==
  \A r \in Active : run[r].pc = "send" /\ run[r].alone /\ blocked => run[r].good # "error"
=============================================================================
