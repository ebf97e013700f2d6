--------------------------- MODULE GroupMembership ---------------------------
(***************************************************************************)
(* Which device is in which group, and on which network.  The host keeps   *)
(* an index into the group list for every device (dev.groupId), the node   *)
(* keeps its own copy, and IDENTIFY replies, bulk moves, re-syncs,         *)
(* discoveries, group edits and the auto-restore workers all write one or  *)
(* the other.                                                              *)
(*   services/gateway_service.py  IDENTIFY branch, _relocate_device_network,*)
(*                                _restore_known_device_group              *)
(*   controller.py                reconcile_group_network, setNodeGroupId  *)
(*   web/api.py                   /api/devices/update-meta, /api/discover, *)
(*                                /api/groups/{create,resort,delete,force} *)
(*   services/discovery_service.py, domain/network_boundary.py             *)
(*   services/scenes_service.py   renumber_group_references,               *)
(*                                remap_group_ids                          *)
(*                                                                         *)
(* Index 0 is the static group that stands for "unconfigured"; groups[i]   *)
(* is the user group at index i.  Every network has its gateway attached   *)
(* and bound.  Steps under rl_lock / _state_lock are atomic; everything    *)
(* else interleaves: one RX thread per gateway, the auto-restore workers,  *)
(* the task thread and web requests.  Nodes and radio are external.        *)
(***************************************************************************)
EXTENDS Naturals, Sequences, FiniteSets

CONSTANTS
    Devices,
    Networks,
    GroupIds,       \* identities of user groups
    Operator,       \* requests the operator makes
    MaxEvents,      \* bound: operator requests, reboots and retunings of nodes
    MaxCalls,       \* bound: restores of a device under way when a cooldown ends
    NoNet, NoDev

Requests == {"move", "force", "discover", "create", "delete", "resort"}
ASSUME OperatorAssumption == Operator \subseteq Requests
ASSUME BoundsAssumption == MaxEvents \in Nat /\ MaxCalls \in Nat \ {0}
ASSUME GroupsAssumption == IsFiniteSet(GroupIds)
ASSUME NoneAssumption == NoNet \notin Networks /\ NoDev \notin Devices

VARIABLES
    devs,       \* device_repository, in insertion order
    grp,        \* dev.groupId
    net,        \* dev.network_id
    online,     \* devices with link_online
    groups,     \* group_repository from index 1 on
    gnet,       \* group.network_id
    scenes,     \* group indices the stored scenes refer to
    rx,         \* device an RX thread has updated and may still restore, and the
                \* index it has read for that
    recent,     \* _auto_reassign_recent within the cooldown
    workers,    \* auto-restore jobs that wait for the executor
    pushes,     \* SET_GROUP calls that wait for their ACK
    task,       \* the one task of the TaskManager
    nodeGroup,  \* group stored in the node
    nodeNet,    \* network whose radio the node is on
    air,        \* IDENTIFY replies on their way
    events

hostVars == << devs, grp, net, online >>
groupVars == << groups, gnet, scenes >>
restoreVars == << recent, workers >>
nodeVars == << nodeGroup, nodeNet >>
vars == << devs, grp, net, online, groups, gnet, scenes, rx, recent, workers, pushes, task,
           nodeGroup, nodeNet, air, events >>

----------------------------------------------------------------------------
Indices == 0 .. Cardinality(GroupIds)
Bindings == Networks \cup {NoNet}
Known == {devs[i] : i \in 1 .. Len(devs)}
InUse == {groups[i] : i \in 1 .. Len(groups)}

\* IDENTIFY as heard by the gateway of a network.
Replies == [dev : Devices, group : Indices, net : Networks]

RxStates == [dev : Devices \cup {NoDev}, read : BOOLEAN, stored : Indices]
NoRestore == [dev |-> NoDev, read |-> FALSE, stored |-> 0]

\* A SET_GROUP call: the group and the route it was started with, and who
\* waits for it.
Pushes == [dev : Devices, val : Indices, via : Networks, by : {"worker", "task"}]

\* An offset_group container with its target, the ids of its explicit offset
\* table and a child's target, and the target of an action of another scene.
Scenes == [target : SUBSET Indices, table : SUBSET Indices, child : SUBSET Indices,
           plain : SUBSET Indices]

Tasks == [kind : {"none", "move", "force", "discover"}, pc : {"next", "listen", "send", "wait"},
          todo : SUBSET Devices, cur : Devices \cup {NoDev}, gid : Indices,
          skip : BOOLEAN, touched : SUBSET Indices]
NoTask == [kind |-> "none", pc |-> "next", todo |-> {}, cur |-> NoDev, gid |-> 0,
           skip |-> FALSE, touched |-> {}]

TypeOK ==
    /\ devs \in Seq(Devices)
    /\ grp \in [Devices -> Indices]
    /\ net \in [Devices -> Bindings]
    /\ online \subseteq Devices
    /\ groups \in Seq(GroupIds)
    /\ \A i, j \in 1 .. Len(groups) : groups[i] = groups[j] => i = j
    /\ gnet \in [GroupIds -> Bindings]
    /\ scenes \in Scenes
    /\ rx \in [Networks -> RxStates]
    /\ recent \subseteq Networks \X Devices
    /\ workers \subseteq Networks \X Devices
    /\ pushes \subseteq Pushes
    /\ task \in Tasks
    /\ nodeGroup \in [Devices -> Indices]
    /\ nodeNet \in [Devices -> Networks]
    /\ air \subseteq Replies
    /\ events \in 0 .. MaxEvents

----------------------------------------------------------------------------
(* Helpers                                                                 *)

\* The binding of the first bound member of the group at index i in the
\* repository order, None without one.
MemberNet(i, list, g, n) ==
    LET bound == {k \in 1 .. Len(list) : g[list[k]] = i /\ n[list[k]] # NoNet}
    IN  IF bound = {} THEN NoNet
        ELSE n[list[CHOOSE k \in bound : \A j \in bound : k <= j]]

IndexOf(x) == CHOOSE i \in 1 .. Len(groups) : groups[i] = x

\* reconcile_group_network for the groups at the indices S: index 0 and
\* indices beyond the list are left alone.
Reconciled(S, list, g, n) ==
    [x \in GroupIds |-> IF x \in InUse /\ IndexOf(x) \in S
                        THEN MemberNet(IndexOf(x), list, g, n)
                        ELSE gnet[x]]

\* The group at index i is bound to another network than n.
Foreign(i, n) == i \in 1 .. Len(groups) /\ gnet[groups[i]] \notin {NoNet, n}

\* _canonical_offset_group_action: as many table entries as groups, every id
\* and every child group among them.  Only the number of entries is compared,
\* so a table of a stored scene may name a group twice and leave one out.
Canonical(s) == Cardinality(s.table) = Cardinality(s.target)

\* A loaded database: groups of one network each, nodes in step with it or
\* without a group, some of them moved to another network meanwhile, and
\* nodes the host has never heard of.
Init ==
    /\ \E k \in 0 .. Cardinality(Devices) :
          devs \in {s \in [1 .. k -> Devices] : \A i, j \in 1 .. k : s[i] = s[j] => i = j}
    /\ \E k \in Indices :
          groups \in {s \in [1 .. k -> GroupIds] : \A i, j \in 1 .. k : s[i] = s[j] => i = j}
    /\ grp \in [Devices -> 0 .. Len(groups)]
    /\ net \in [Devices -> Bindings]
    /\ \A d \in Devices \ Known : grp[d] = 0 /\ net[d] = NoNet
    /\ \A d, e \in Known : grp[d] = grp[e] /\ grp[d] # 0 => net[d] = net[e]
    /\ gnet = [x \in GroupIds |-> IF x \in InUse THEN MemberNet(IndexOf(x), devs, grp, net)
                                  ELSE NoNet]
    /\ scenes \in [target : SUBSET (0 .. Len(groups)), table : SUBSET (0 .. Len(groups)),
                    child : SUBSET (0 .. Len(groups)), plain : SUBSET (0 .. Len(groups))]
    /\ scenes.table \cup scenes.child \subseteq scenes.target
    /\ scenes.table = {} => scenes.target = {}
    /\ nodeGroup \in [Devices -> 0 .. Len(groups)]
    /\ nodeNet \in [Devices -> Networks]
    /\ \A d \in Known : nodeGroup[d] \in {0, grp[d]}
    /\ online = {}
    /\ rx = [n \in Networks |-> NoRestore]
    /\ recent = {}
    /\ workers = {}
    /\ pushes = {}
    /\ task = NoTask
    /\ air = {}
    /\ events = 0

Event == events < MaxEvents /\ events' = events + 1

----------------------------------------------------------------------------
(* IDENTIFY on the RX thread of a gateway                                  *)

\* update_from_identify: an unconfigured device takes the reported group.
Adopted(e) == IF grp[e.dev] = 0 THEN e.group ELSE grp[e.dev]

\* Mutant of Relocated: the group is compared with the network left behind.
RelocatedWrongNet(i, old, n) == IF Foreign(i, old) THEN 0 ELSE i

\* _relocate_device_network: the group is left when it belongs elsewhere.
Relocated(i, old, n) == IF Foreign(i, n) THEN 0 ELSE i

\* Mutant of Restorable: the early return for new devices is inverted.
RestorableNew(e) == e.dev \notin Known /\ e.group = 0

\* Only a known device that reports group 0 is a candidate for a restore.
Restorable(e) == e.dev \in Known /\ e.group = 0

\* The IDENTIFY branch under _state_lock: append, update, bind or relocate.
RxIdentify(n, d) ==
    /\ rx[n] = NoRestore
    /\ \E e \in air :
          /\ e.dev = d /\ e.net = n
          /\ air' = air \ {e}
          /\ devs' = IF d \in Known THEN devs ELSE Append(devs, d)
          /\ net' = [net EXCEPT ![d] = n]
          /\ grp' = [grp EXCEPT ![d] = IF net[d] \in {NoNet, n} THEN Adopted(e)
                                       ELSE Relocated(Adopted(e), net[d], n)]
          /\ LET touched == IF net[d] = NoNet \/ grp'[d] # Adopted(e) THEN {Adopted(e)} ELSE {}
             IN  gnet' = Reconciled(touched, devs', grp', net')
          /\ rx' = IF Restorable(e) THEN [rx EXCEPT ![n].dev = d] ELSE rx
          /\ task' = IF task.pc = "listen" THEN [task EXCEPT !.todo = @ \cup {d}] ELSE task
    /\ online' = online \cup {d}
    /\ UNCHANGED << groups, scenes, restoreVars, pushes, nodeVars, events >>

\* _restore_known_device_group, after _state_lock is released: nothing during
\* a discovery or for a device without a group; else its index is read ...
RxRead(n) ==
    /\ rx[n].dev # NoDev /\ ~rx[n].read
    /\ rx' = [rx EXCEPT ![n] = IF task.kind = "discover" \/ grp[rx[n].dev] = 0 THEN NoRestore
                               ELSE [@ EXCEPT !.read = TRUE, !.stored = grp[rx[n].dev]]]
    /\ UNCHANGED << hostVars, groupVars, restoreVars, pushes, task, nodeVars, air, events >>

\* ... and, compared with what is by now the length of the list, reset or good
\* for a job once per cooldown.
RxRestore(n) ==
    /\ rx[n].dev # NoDev /\ rx[n].read
    /\ rx' = [rx EXCEPT ![n] = NoRestore]
    /\ LET d == rx[n].dev
           dangles == rx[n].stored > Len(groups)
           spawn == ~dangles /\ << n, d >> \notin recent
       IN  /\ grp' = IF dangles THEN [grp EXCEPT ![d] = 0] ELSE grp
           /\ recent' = IF spawn THEN recent \cup {<< n, d >>} ELSE recent
           /\ workers' = IF spawn THEN workers \cup {<< n, d >>} ELSE workers
    /\ UNCHANGED << devs, net, online, groupVars, pushes, task, nodeVars, air, events >>

\* The cooldown is shorter than the retries of a call, so calls can pile up;
\* MaxCalls bounds them.
CooldownExpires(n, d) ==
    /\ << n, d >> \in recent
    /\ Cardinality({w \in workers : w[2] = d}) + Cardinality({p \in pushes : p.dev = d}) < MaxCalls
    /\ recent' = recent \ {<< n, d >>}
    /\ UNCHANGED << hostVars, groupVars, rx, workers, pushes, task, nodeVars, air, events >>

----------------------------------------------------------------------------
(* setNodeGroupId: group and route are read when it starts, the send is    *)
(* retried until an ACK or the last timeout.                               *)

SetGroup(d, by) == [dev |-> d, val |-> grp[d], via |-> net[d], by |-> by]

\* An auto-restore worker starts; without a route it gives up.
WorkerStart(n, d) ==
    /\ << n, d >> \in workers
    /\ workers' = workers \ {<< n, d >>}
    /\ IF net[d] = NoNet
       THEN online' = online \ {d} /\ UNCHANGED pushes
       ELSE pushes' = pushes \cup {SetGroup(d, "worker")} /\ UNCHANGED online
    /\ UNCHANGED << devs, grp, net, groupVars, rx, recent, task, nodeVars, air, events >>

Returned(p) == task' = IF p.by = "task" THEN [task EXCEPT !.pc = "next", !.cur = NoDev] ELSE task

\* The node executes the command and its ACK is lost.
PushReaches(p) ==
    /\ p \in pushes
    /\ nodeNet[p.dev] = p.via
    /\ nodeGroup' = [nodeGroup EXCEPT ![p.dev] = p.val]
    /\ UNCHANGED << hostVars, groupVars, rx, restoreVars, pushes, task, nodeNet, air,
                    events >>

\* The node executes the command and its ACK completes a call that waits for
\* this device.
PushAcked(p) ==
    /\ p \in pushes
    /\ nodeNet[p.dev] = p.via
    /\ nodeGroup' = [nodeGroup EXCEPT ![p.dev] = p.val]
    /\ online' = online \cup {p.dev}
    /\ \E q \in pushes : /\ q.dev = p.dev /\ q.via = p.via
                         /\ pushes' = pushes \ {q}
                         /\ Returned(q)
    /\ UNCHANGED << devs, grp, net, groupVars, rx, restoreVars, nodeNet, air, events >>

\* The node refuses the command.  That completes a call just as well; a worker
\* then marks the device offline, the task does not.
PushRefused(p) ==
    /\ p \in pushes
    /\ nodeNet[p.dev] = p.via
    /\ \E q \in pushes : /\ q.dev = p.dev /\ q.via = p.via
                         /\ pushes' = pushes \ {q}
                         /\ online' = IF q.by = "worker" THEN online \ {p.dev} ELSE online \cup {p.dev}
                         /\ Returned(q)
    /\ UNCHANGED << devs, grp, net, groupVars, rx, restoreVars, nodeVars, air, events >>

\* The last attempt times out: the device is marked offline.
PushTimeout(p) ==
    /\ p \in pushes
    /\ pushes' = pushes \ {p}
    /\ online' = online \ {p.dev}
    /\ Returned(p)
    /\ UNCHANGED << devs, grp, net, groupVars, rx, restoreVars, nodeVars, air, events >>

----------------------------------------------------------------------------
(* Web requests that start the task                                        *)

Request(r) == r \in Operator /\ Event

Starts(r) == Request(r) /\ task.kind = "none"

\* validate_group_membership: the devices agree on a network and the target
\* group is of no other; unbound devices and index 0 always pass.
MayJoin(D, i) ==
    LET bound == {net[d] : d \in D} \ {NoNet}
    IN  i = 0 \/ bound = {} \/ \E n \in Networks : bound = {n} /\ ~Foreign(i, n)

\* /api/devices/update-meta with a group.
MoveRequest ==
    /\ Starts("move")
    /\ \E D \in SUBSET Known, i \in 0 .. Len(groups) :
          /\ D # {} /\ MayJoin(D, i)
          /\ task' = [NoTask EXCEPT !.kind = "move", !.todo = D, !.gid = i, !.skip = TRUE]
    /\ UNCHANGED << hostVars, groupVars, rx, restoreVars, pushes, nodeVars, air >>

\* /api/groups/force: the snapshot of devices and of the number of groups.
ForceRequest ==
    /\ Starts("force")
    /\ \E s \in BOOLEAN :
          task' = [NoTask EXCEPT !.kind = "force", !.todo = Known, !.gid = Len(groups), !.skip = s]
    /\ UNCHANGED << hostVars, groupVars, rx, restoreVars, pushes, nodeVars, air >>

\* A new group has no network.
Appends(x) ==
    /\ x \notin InUse
    /\ groups' = Append(groups, x)
    /\ gnet' = [gnet EXCEPT ![x] = NoNet]
    /\ UNCHANGED scenes

Listens(i) == task' = [NoTask EXCEPT !.kind = "discover", !.pc = "listen", !.gid = i,
                                     !.touched = {i}]

\* /api/discover: into an existing group or into one it creates.
DiscoverRequest ==
    /\ Starts("discover")
    /\ \/ UNCHANGED groupVars /\ \E i \in 0 .. Len(groups) : Listens(i)
       \/ Listens(Len(groups) + 1) /\ \E x \in GroupIds : Appends(x)
    /\ UNCHANGED << hostVars, rx, restoreVars, pushes, nodeVars, air >>

----------------------------------------------------------------------------
(* The task thread                                                         *)

\* The reply window ends; only a real target group assigns the responders.
DiscoverEnds ==
    /\ task.pc = "listen"
    /\ task' = [task EXCEPT !.pc = "next", !.todo = IF task.gid = 0 THEN {} ELSE @]
    /\ UNCHANGED << hostVars, groupVars, rx, restoreVars, pushes, nodeVars, air, events >>

\* A re-sync only resets indices beyond the groups it counted at its start.
Clamped(c) == IF c > task.gid THEN 0 ELSE c

\* One device of the loop: its index is written or clamped, and a call
\* follows unless the task skips devices that are offline.
TaskTake(d) ==
    /\ task.pc = "next" /\ d \in task.todo
    /\ grp' = [grp EXCEPT ![d] = IF task.kind = "force" THEN Clamped(@) ELSE task.gid]
    /\ LET taken == [task EXCEPT !.todo = @ \ {d},
                                 !.touched = IF task.kind = "move" THEN @ \cup {grp[d], task.gid}
                                             ELSE @]
       IN  task' = IF task.skip /\ d \notin online THEN taken
                   ELSE [taken EXCEPT !.pc = "send", !.cur = d]
    /\ UNCHANGED << devs, net, online, groupVars, rx, restoreVars, pushes, nodeVars, air, events >>

\* setNodeGroupId of the loop; without a route it returns at once.
TaskSend ==
    /\ task.pc = "send"
    /\ IF net[task.cur] = NoNet
       THEN task' = [task EXCEPT !.pc = "next", !.cur = NoDev] /\ UNCHANGED pushes
       ELSE /\ task' = [task EXCEPT !.pc = "wait"]
            /\ pushes' = pushes \cup {SetGroup(task.cur, "task")}
    /\ UNCHANGED << hostVars, groupVars, rx, restoreVars, nodeVars, air, events >>

\* The groups left and joined by a move, or the target of a discovery, are
\* reconciled at the end.
TaskDone ==
    /\ task.kind # "none" /\ task.pc = "next" /\ task.todo = {}
    /\ gnet' = Reconciled(task.touched, devs, grp, net)
    /\ task' = NoTask
    /\ UNCHANGED << hostVars, groups, scenes, rx, restoreVars, pushes, nodeVars, air, events >>

----------------------------------------------------------------------------
(* Group edits, each under rl_lock and whatever task is running            *)

CreateGroup ==
    /\ Request("create")
    /\ \E x \in GroupIds : Appends(x)
    /\ UNCHANGED << hostVars, rx, restoreVars, pushes, task, nodeVars, air >>

\* Mutant of AfterDelete: the indices above are not moved down.
AfterDeleteNoShift(c, i) == IF c = i THEN 0 ELSE c

\* Members become unconfigured, higher indices move down by one.
AfterDelete(c, i) == IF c = i THEN 0 ELSE IF c > i THEN c - 1 ELSE c

\* Mutant of ShiftGroupValue: a reference to the deleted group is kept.
ShiftGroupValueKeeps(v, i) == IF v > i THEN v - 1 ELSE v

\* The same rule for an index held by a scene.
ShiftGroupValue(v, i) == IF v = i THEN 0 ELSE IF v > i THEN v - 1 ELSE v

\* Every reference of every scene mapped by f, without duplicates.
Mapped(f) == [k \in DOMAIN scenes |-> {f[v] : v \in scenes[k]}]

\* When a container no longer validates, the exception ends the rewriting
\* before anything is written, and the edit goes on without it.
Rewritten(f) == IF Canonical(Mapped(f)) THEN Mapped(f) ELSE scenes

DeleteGroup ==
    /\ Request("delete")
    /\ \E i \in 1 .. Len(groups) :
          /\ groups' = SubSeq(groups, 1, i - 1) \o SubSeq(groups, i + 1, Len(groups))
          /\ grp' = [d \in Devices |-> AfterDelete(grp[d], i)]
          /\ scenes' = Rewritten([v \in Indices |-> ShiftGroupValue(v, i)])
    /\ UNCHANGED << devs, net, online, gnet, rx, restoreVars, pushes, task, nodeVars, air >>

\* Any permutation of the user groups that moves one, with or without the
\* references of the scenes.
Resort(carry) ==
    /\ Request("resort")
    /\ \E f \in [1 .. Len(groups) -> 1 .. Len(groups)] :
          /\ \A i, j \in DOMAIN f : f[i] = f[j] => i = j
          /\ \E i \in DOMAIN f : f[i] # i
          /\ groups' = [i \in DOMAIN f |-> groups[f[i]]]
          /\ LET mapping == [v \in Indices |-> IF v \in DOMAIN f THEN CHOOSE i \in DOMAIN f : f[i] = v
                                               ELSE v]
             IN  /\ grp' = [d \in Devices |-> mapping[grp[d]]]
                 /\ scenes' = IF carry THEN Rewritten(mapping) ELSE scenes
    /\ UNCHANGED << devs, net, online, gnet, rx, restoreVars, pushes, task, nodeVars, air >>

----------------------------------------------------------------------------
(* Nodes                                                                   *)

\* An IDENTIFY, unprompted after boot or in answer to a discovery.
Announce(d) ==
    /\ \A e \in air : e.dev # d
    /\ air' = air \cup {[dev |-> d, group |-> nodeGroup[d], net |-> nodeNet[d]]}
    /\ UNCHANGED << hostVars, groupVars, rx, restoreVars, pushes, task, nodeVars, events >>

\* A node restarts without its group, or is set up for another network.
Reboot(d) ==
    /\ Event
    /\ nodeGroup' = [nodeGroup EXCEPT ![d] = 0]
    /\ UNCHANGED << hostVars, groupVars, rx, restoreVars, pushes, task, nodeNet, air >>

Retune(d) ==
    /\ Event
    /\ \E n \in Networks \ {nodeNet[d]} : nodeNet' = [nodeNet EXCEPT ![d] = n]
    /\ UNCHANGED << hostVars, groupVars, rx, restoreVars, pushes, task, nodeGroup, air >>

----------------------------------------------------------------------------
TaskStep == DiscoverEnds \/ TaskSend \/ TaskDone \/ \E d \in Devices : TaskTake(d)
Web == MoveRequest \/ ForceRequest \/ DiscoverRequest \/ CreateGroup \/ DeleteGroup
       \/ \E carry \in BOOLEAN : Resort(carry)
Node(d) == Announce(d) \/ Reboot(d) \/ Retune(d)
Push(p) == PushReaches(p) \/ PushAcked(p) \/ PushRefused(p) \/ PushTimeout(p)

Next == \/ \E n \in Networks : RxRead(n) \/ RxRestore(n)
        \/ \E n \in Networks, d \in Devices : RxIdentify(n, d) \/ CooldownExpires(n, d)
                                              \/ WorkerStart(n, d)
        \/ \E p \in pushes : Push(p)
        \/ TaskStep
        \/ Web
        \/ \E d \in Devices : Node(d)

Spec == Init /\ [][Next]_vars

\* Threads that can run do, cooldowns run out, nodes keep answering
\* discoveries, and the radio does not lose, nor the node refuse, every attempt
\* for ever.
Fairness ==
    /\ \A n \in Networks, d \in Devices :
          /\ WF_vars(RxIdentify(n, d) \/ (rx[n].dev = d /\ (RxRead(n) \/ RxRestore(n))))
          /\ WF_vars(CooldownExpires(n, d))
          /\ WF_vars(WorkerStart(n, d))
    /\ WF_vars(TaskStep)
    /\ \A d \in Devices :
          /\ WF_vars(Announce(d))
          /\ SF_vars(\E p \in pushes : p.dev = d /\ PushAcked(p))
          /\ WF_vars(\E p \in pushes : p.dev = d /\ Push(p))

FairSpec == Spec /\ Fairness

----------------------------------------------------------------------------
(* Properties                                                              *)

\* A group edit never moves a device to another group: whoever was in a group
\* that still exists is in the same group afterwards, under its new index, and
\* only members of a deleted group become unconfigured (api_groups_delete,
\* api_groups_resort, api_groups_create, also while a task runs).
EditsKeepMembership ==
    [][groups' # groups =>
        \A d \in Known : grp[d] \in 1 .. Len(groups) =>
            IF \E i \in 1 .. Len(groups') : groups'[i] = groups[grp[d]]
            THEN grp'[d] \in 1 .. Len(groups') /\ groups'[grp'[d]] = groups[grp[d]]
            ELSE grp'[d] = 0]_vars

\* The groups a set of indices names.
Named(S, list) == {list[i] : i \in S \cap 1 .. Len(list)}

\* No offset table names a group twice, and no reference dangles.
ScenesInOrder == Canonical(scenes) /\ \A k \in DOMAIN scenes : scenes[k] \subseteq 0 .. Len(groups)

\* Deleting or reordering groups leaves every scene aimed at the same physical
\* groups, in all four places a scene refers to them, except when the operator
\* asked for the contrary, a stored offset table names a group twice, or an
\* earlier edit stopped at such a table and left references behind
\* (renumber_group_references, remap_group_ids; api_groups_resort: "operator
\* intent ... is preserved").
ScenesFollowGroups ==
    [][groups' # groups /\ ScenesInOrder /\ ~Resort(FALSE) =>
        \A k \in DOMAIN scenes :
            Named(scenes'[k], groups') = Named(scenes[k], groups) \cap Named(1 .. Len(groups'), groups')]_vars

\* A device that turns up on another network than recorded does not stay in,
\* or adopt from its report, a group bound elsewhere (update_from_identify,
\* _relocate_device_network: "it would make that group span two networks").
RelocationLeavesGroup ==
    [][\A d \in Known :
        net[d] # NoNet /\ net'[d] # net[d] /\ grp'[d] \in 1 .. Len(groups')
            => gnet'[groups'[grp'[d]]] \in {NoNet, net'[d]}]_vars

\* A known device that lost its group in a reboot gets one back: it does not
\* stay without a group for ever while the host has one for it, whatever
\* moves, discoveries and edits happened meanwhile
\* (_restore_known_device_group, setNodeGroupId).
RebootIsRestored ==
    \A d \in Devices : ~<>[](d \in Known /\ nodeGroup[d] = 0 /\ grp[d] # 0)

\* An auto-restore leaves a device in its group: it only resets an index that
\* names none.
RestoreKeepsMembership ==
    [][\A n \in Networks : rx[n].read /\ ~rx'[n].read =>
        \A d \in Known : grp[d] \in 1 .. Len(groups) => grp'[d] = grp[d]]_vars

\* The auto-restore mechanism brings the firmware's group in line with the
\* host's for every known device that keeps answering on one network.
FirmwareFollowsHost ==
    \A d \in Devices : ~<>[](d \in Known /\ nodeGroup[d] # grp[d])

================================================================================
