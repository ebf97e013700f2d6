# RaceLink Host: TLA+ models, model checking and proofs

RaceLink Host drives wireless LED nodes. It talks to one or more gateways
(USB-serial sticks with a LoRa radio, or an Ethernet network), each of which
serves the nodes of one *network*; devices belong to *groups*; *scenes* are
played on groups; an operator works through a web UI. This directory holds
specifications of the program, the TLC configurations that check them on small
instances, and TLAPS proofs of the properties that matter most.

`PROJECT.json` lists, for machines, what this file explains: components, runs,
mutants (how each property is shown to be sensitive to the code), the map from
definitions to source lines, findings, hazards and theorems.

## 1. The system

### 1.1 Threads

The program is threaded Python with few locks. The threads that matter are

| thread | started by | touches |
|---|---|---|
| one RX reader per serial transport | `GatewaySerialTransport.start` | pending send slot, gateway-state mirror, matcher registry, device records, task counters |
| RX thread per Ethernet transport | `EthernetTransport` | registry, device records, reply window |
| web request threads | Flask | everything, partly under `rl_lock` |
| one task thread | `TaskManager.start` | moves, discoveries, migrations, scans, OTA updates, config writes |
| auto-restore executor (up to 8) | `GatewayService` | sends with ACK, device records |
| missing-transport poll timer | `MissingTransportTracker._arm_locked` | discovery, attach |
| fan-out workers | `broadcast_fanout` | sends, registry |

Locks: `_tx_lock` of a serial transport (released during the wait for the
outcome), the lock of each matcher registry (held to copy, not to match),
`rl_lock` = `_state_lock` for device records (never across a send), the
tracker's lock, the lock of the bind service (held across waits for a gateway),
the task manager's lock (held for the change, not for the broadcast),
`_pending_expect_lock`. `_transports` has none, nor has the scene runner.

### 1.2 Components

For each: state, operations, what is hard, what makes it correct.

**Serial transport** (`transport/gateway_serial.py`). State: the pending
outcome slot, the port, the gateway-state byte. Operations: `_send_m2n` and
the state and RF-config requests, the reader, `close`. The gateway answers
every frame with an outcome event that names no frame. Hard: the wait releases
the lock, outcomes come late or never, the cable goes. Correct: a call returns
exactly once with the fate of its own frame unless others disturbed it; a lost
port is reported.

**Ethernet transport** (`transport/ethernet_transport.py`). State: sockets, a
host-timed reply window. Tells its TX listeners before it sends, where the
serial transport tells them afterwards.

**Reply matching and retries** (`services/pending_requests.py`,
`gateway_service.send_and_match`, `send_and_wait_with_retries`,
`send_stream`). State: per gateway a list of matchers; per call its attempt
counter and collected replies. Hard: replies carry no request number, come
late, twice, through another gateway; unicast and group matchers overlap; any
ACK counts, one that refuses too. Correct: no answer to a waiting attempt is
lost, nobody is counted who did not answer, nobody is reported successful who did
not execute the command, every call returns.

**Link-state expectations** (`controller.set_pending_expect` and siblings,
`gateway_service.pending_try_match`, `pending_window_closed`). State: one
expectation per gateway, `link_online` per device. Hard: written by senders,
read, decided on and cleared by RX threads without a common lock. Correct: no
gateway decides about a device of another; a fresh expectation is not cleared by
an old event.

**Gateway discovery and the missing-transport tracker** (`controller.discoverPort`,
`soft_rediscover`, `_attach_transport`, `gateway_service._detach_one_transport`,
`services/missing_transport_tracker.py`). State: attached transports, poll
timer, cancelled gateways. Hard: timers that cannot be cancelled any more, two
discoveries at once, readers that die during attach, shutdown in the middle.
Correct: a missing gateway is looked for until it returns; a dead transport does
not stay attached; nothing restarts after shutdown.

**Group membership and device identity** (IDENTIFY branch of
`gateway_service.on_transport_event`, `_relocate_device_network`,
`_restore_known_device_group`, `controller.setNodeGroupId`,
`reconcile_group_network`, the group routes of `web/api.py`,
`discovery_service`, `network_boundary`, the group references of
`scenes_service`). State: group index and network of each device, network of
each group, the node's own index, the indices inside scenes. Hard: indices are
renumbered while tasks, jobs, scenes and nodes hold them; two copies of the
truth connected by lossy messages. Correct: edits keep membership and scenes,
groups do not span networks, a rebooted node gets its group back.

**Node configuration** (`config_service`, `startblock_service`,
`specials_service`, the `_pending_config` stash): an option is stashed per
device until the next ACK of that device, which names no option. Hard: retries,
refusals, lost answers, overlapping writers. Correct: what the host believes and
reports of a node is what the node holds.

**Gateway bind service** (`services/gateway_bind_service.py`, connect hook and
network routes): decides which network an attached gateway drives; conflicts are
shown to the operator, who answers with one of five actions. Hard: the gateway is
asked without the lock, answers wait for it with the lock, hook and routes take
no lock, a refused or failed rebind leaves its first half. Correct: records are
consistent, no answer goes to a record that has changed since it was shown,
gateways and channels belong to one network each.

**RF migration, channel scan and onboarding** (`rf_migration_service`,
`channel_scan_service`, `onboarding_service`, the rf_config routes): move nodes and gateways to new radio parameters in steps. Hard: any step can fail, nodes
announce themselves in between, the answer to one switch can be taken for that to
another, the host can crash. Correct: records lead the
radios, ok means moved, a lost node is found again.

**Task manager** (`web/tasks.py`) and **SSE broker** (`web/sse.py`): one
background task, its record and the browsers that follow it. Hard: change,
snapshot and broadcast are three steps. Correct: one runner, a cancel hits its
own task, browsers see the end.

**OTA workflow** (`ota_workflow_service`, `ota_service`, `host_wifi_service`):
per node access point, Wi-Fi join, upload, reboot, auto-restore; cancellation.
Hard: everything outside the process can fail or be stale. Correct: nothing is
written to the wrong node, the report is true, radio and access points are put
back.

**Scenes** (`scene_runner_service`, `dispatch_planner`,
`offset_dispatch_optimizer`, `scene_network_scope`, `control_service`,
`broadcast_fanout`): sequential execution of actions with a broadcast scope, and
pure planning algorithms. Hard: two runs share the scope, three wire paths must
have one effect. Correct: planned packets give every node the effect of the
reference definition, broadcasts keep to their networks, results are true.

**Stores** (`state/*`, `scenes_service`, `presets_service`,
`host_settings_service`, `config_backup_service`): repositories, save and load,
schema migrations.

**Not protocol logic**: wire layouts and generated tables, domain tables, DTOs
and request parsing, application wiring, the Vue frontend, build scripts.

### 1.3 How they interact

A service builds a matcher, registers it for the gateway of its target
(RequestReply), sends through the transport (SerialTransport), whose TX
listener stamps an expectation (LinkExpect); the reader hands each event to
the SSE hook (TaskManager) and to `on_transport_event`, which updates device
records (GroupMembership, NodeConfig, LinkExpect), feeds the registry
(RequestReply) and, for EV_ERROR, detaches the transport and arms the tracker
(GatewayLifecycle). An attached gateway is evaluated by the bind service
(GatewayBind), whose answers start migrations (RfMigration); migrations, scans,
OTA updates (OtaWorkflow) and config writes (NodeConfig) run as the one task
(TaskManager). Scenes (SceneRunner over DispatchPlan) send without ACK to the
groups that GroupMembership maintains.

## 2. Modules

| module | models | main state |
|---|---|---|
| `SerialTransport` | one serial transport, its senders, its reader, the gateway's TX slot and the cable | slot, pending, mirror, wire queues |
| `RequestReply` | matcher registries of several gateways, calls with retries, devices that answer | pc, call, attempt, registry, rx, rxq |
| `Rpc` | abstract: what a blocking request promises its caller | status, ask, counted, done |
| `LinkExpect` | expectations and link state on serial and Ethernet transports | expect, online, rx, evq |
| `GatewayLifecycle` | discovery, attach, detach, poll timers, operator requests, cables | transports, timers, threads |
| `GroupMembership` | host and node copies of group and network, IDENTIFY, auto-restore, tasks, edits, scene references | grp, net, groups, pushes, task, scenes |
| `NodeConfig` | config writes, the ACK stash, the mirror and the stored specials | job, stash, config, specials, node |
| `GatewayBind` | connect hook, bind records, operator answers, network routes, the migration task's gateway side | repo, mac, rf, rec, ev, res |
| `RfMigration` | migration, group move, channel scan, onboarding B and C, rf_config routes, IDENTIFY, power cycles, crash | mem, disk, dcfg, live, nvs, job |
| `TaskManager` | task record, runner, cancel, snapshots and browsers, reader counts | task, fired, run, mail, view |
| `OtaWorkflow` | firmware update and presets download with Wi-Fi, HTTP and the nodes' reboots | pc, opt, radio, ap, rep, written |
| `DispatchPlan` | validation, scope, offset formula, wire-path optimizer and planner as operators | none |
| `SceneRunner` | scene runs over `DispatchPlan`, broadcast scope, gateways that come and go, offsets on the nodes | scope, blocked, up, run, off |
| `WireProofs` | theorems about `SerialTransport` and `RequestReply` | |
| `GatewayProofs` | theorems about `GatewayLifecycle` and `LinkExpect` | |
| `RecordProofs` | theorems about `GroupMembership` and `RfMigration` | |
| other `...Proofs` | theorems about the module of that name | |
| `MC...` | values of the constants for TLC | |

In every module an action is one atomic section of the code: what happens
under one lock, or between two points where another thread can run. Where the
code reads something, releases a lock and uses it later, there are two actions
and the value read is part of the thread's state (the candidates an RX thread
copied from the registry, the expectation it has read, the group index an
auto-restore has looked up, the group index and route a SET_GROUP call was started with, the RF config an evaluation was told,
the snapshot a broadcast will send).

**SerialTransport.** `SendWrite` is `_send_m2n` from taking `_tx_lock` to the
wait; `SendWake`/`SendTimeout` the wake-up and the rest of the locked block;
`SendReturn` and `SendDisconnect` the part after it. `ReaderOutcome` and
`ReaderState` are `_reader` and `_handle_frame` for one frame, with the
fulfilment of the pending slot. `GwAccept`, `GwReject`, `GwFinish`,
`GwAutoSync`, `GwReport`, `GwError` are the gateway firmware, external,
inferred from the host's handling of its events. `cur`, `solo` and `fate` are
history variables used only by properties.

**RequestReply and Rpc.** `Begin`/`Refuse` enter a call, `Register`, `SendFrame`,
`WaitEnds`, `Cancel`, `ReadReplies` are the steps of one attempt, `RxTake`
copies the candidates of an event under the registry lock, `RxMatch` and
`RxUnmatched` evaluate them after its release. `Answer` is the device: it executes
and says so, or answers with a refusal (an ACK whose `ack_status` is not OK), and any
set of gateways hears the reply. The retry loop and `send_stream` count any ACK
(`acked`, kept over the rounds); only some callers look at the status of the last
reply (`sure`: `send_config`, `set_node_rf_config`, `setNodeGroupId`). `Rpc` says only this: a call
asks once per round, counts some of the devices that answered its opcode, trusts
some of those that carried it out, and ends when all have been counted or the rounds
are used up. `RequestReply` implements it with `counted` the acknowledged devices,
`trusted` those with an OK, `round` the attempt and `status` open from `Begin` to the
return.

**LinkExpect.** Sender steps differ by transport: serial writes, waits for the
outcome, then stamps; Ethernet stamps, then sends. The RX steps are taken event
by event with the lock-free gaps between read, mark and clear. `Untagged` are the
serial transports on a pinned port: they share the slot `None`, and `Read` falls back
to the only expectation there is, as `read_pending_expect` does.

**GatewayLifecycle.** `th[t]` is a host thread inside a discovery with its
program counter; the boot thread, poll callbacks, rediscover and retry requests
run the same steps. `Detach` is `_detach_one_transport` with its lookup by
`ident_mac`. `twice` remembers which gateways two discoveries have attached at once,
until the gateway is gone; every step of the host is `Step` with `Follow`, which
keeps it. A port is identified with the gateway plugged into it and no port
is pinned. `Slots` and `Polls` bound transport objects and timers.

**GroupMembership.** `RxIdentify` is the IDENTIFY branch under `_state_lock`
(append, adopt the reported group, bind or relocate, reconcile the group's
network). The auto-restore that follows takes no lock: `RxRead` looks the device's
group index up, `RxRestore` compares it with the group list and uses it, and an edit
can come between. `WorkerStart`, `PushReaches`, `PushAcked`, `PushRefused`,
`PushTimeout` are `setNodeGroupId` and its retries: a command can reach the node any
number of times before its call ends, an ACK can complete any call that waits for
that device, and an ACK that refuses completes it like another (the auto-restore
worker then marks the node offline, a task does not). `TaskTake`, `TaskSend`, `TaskDone` are the
loops of bulk move, re-sync and discovery. `CreateGroup`, `DeleteGroup`,
`Resort` run whatever the task does, as in the code, and walk the scene store:
`scenes` holds the groups that a target list, an offset table, the children of
a container and a plain action refer to. Every network has its gateway attached
(GatewayLifecycle covers the rest); group index 0 is the static group.

**NodeConfig.** `Send`, the node, the RX thread (first `try_match`, then the pop
of the stash) and the end of the wait are separate steps; `job[c]` is what a
thread is doing: a write that is sent and forgotten, a special option, the two
registers of a start block, a reset, or the walk of clear-master-persist.
`disturbed` marks a node whose writes overlapped each other or a late answer.

**GatewayBind.** `ev[t]` is the progress of an attach or migration thread through
hook and `evaluate`; `res` is the answer that waits for a gateway inside the lock.
`wiz` is the wizard an operator has open: `wiz.saw` is the record it was opened on. A
token that is regenerated ends it; the two outcomes of a rebind that change the record
and leave its token (the gateway refuses, the push fails) do not, and set `wiz.half`.
`Reflash` is a gateway whose config changes outside the program.

**RfMigration.** `job` is the task with its program counter; `mem` is what the
host saves, `disk` the file; `live` and `nvs` are what a gateway's radio is tuned
to and what it boots with. `job.other` and `drift` record what other requests and
unrecorded writes changed, for the properties. `GatewayAnswers` are the four outcomes
of `set_gateway_rf_config`: the first EV_RF_CHANGED of the gateway is the answer
whatever config it carries, so a switch that was refused or lost can be reported
done; `job.foreign` marks a scan to which that happened.

**OtaWorkflow.** `pc` follows `run_firmware_update` through its nested helpers;
`cache` is what a Wi-Fi scan may show although it is gone; `boot`, `cold` and
`heard` take a node through its reboot.

**SceneRunner.** A step is one planned action, one frame, or the end of an
action. What the planner computes is not compared with itself: the properties
say what the nodes must hold afterwards.

## 3. Runs

| run | instance | shows |
|---|---|---|
| `serial_calls` | 2 senders, 2 frames, 1 extra event, fair | a registered slot belongs to a waiting call (`PendingIsWaiting`); an undisturbed call gets the fate of its own frame (`SoloOutcomeIsOwn`); the first outcome stands (`FirstOutcomeStands`); the state mirror differs from the gateway only by what is on the wire (`MirrorLagsByWire`); calls return and a lost port is reported (`LinkNeverStuck`) |
| `reply_calls` | 2 callers, 2 devices, 2 gateways, 2 calls, 2 attempts | the registry holds exactly the waiters (`RegistryHoldsWaiters`); counted devices answered the opcode and those with an OK executed it (`SuccessIsTrue`), all were heard by their own gateway (`CollectedOnHomeRadio`); the answer to the attempt a caller waits on is never dropped (`OwnReplyNotMissed`); the layer implements `Rpc` (`PromiseKept`) |
| `link_gateways` | 1 caller, a tagged serial, an Ethernet and an untagged serial gateway, 2 requests | a tagged gateway decides only about its own devices, an untagged one about another's only when nothing else is expected (`DecidesOwnGateway`); no fresh expectation is lost (`FreshExpectSurvives`) |
| `lifecycle_gateways` | 2 gateways, 1 discovery thread, 2 requests, 1 unplug, fair | no dead transport stays attached unless its gateway was attached twice (`NoCorpse`); a missing gateway is polled for unless the operator retried by hand (`PolledUnlessRetried`); no timer after shutdown (`NoPollAfterShutdown`); a plugged-in gateway comes back (`GatewayReturns`) |
| `group_members` | 1 device, 2 networks, 2 groups, 2 events, fair | edits keep membership (`EditsKeepMembership`) and scenes (`ScenesFollowGroups`); relocation leaves foreign groups (`RelocationLeavesGroup`); a node without a group gets it back though calls are lost or refused (`RebootIsRestored`) |
| `config_writes` | 2 threads, 1 node, 3 operations, 2 attempts | the mirror and the stored specials are what the node holds (`MirrorExplained`, `StoredIsOnNode`), acknowledgements and the cleared list are true (`AnswersAreTrue`), while writes do not overlap |
| `bind_answers` | 2 gateways, 2 networks and room for a third, 2 channels, 2 operations, fair | records match the configs they show, and a wizard whose token holds shows the record as it is but for the half-done rebind it started (`RecordsAreTrue`); gateways and channels stay with one network but for the named paths (`NetworksStayApart`); attach and migration get past the lock (`LockIsFreed`) |
| `migration_jobs` | 2 nodes, 2 radio networks and an Ethernet one, 3 configs, 1 job, 1 other event, fair | file and gateway agree after a crash unless the gateway's answer was another's, a moved node is at home (`RecordsLead`); ok is true of the nodes, group moves are whole, scan results are true while the answers to the switches were the gateway's own (`JobsTellTheTruth`); jobs end and nodes in reach are found again (`RecordsSettle`) |
| `tasks_browser` | 2 tasks, 1 browser, 1 reader, a canceller, fair | one runner, a cancel hits its own task (`TasksApart`); a browser follows to the end unless a newer record was overtaken by an older one (`BrowserFollows`) |
| `ota_updates` | 2 nodes to update and a bystander, 5 requests, 1 fault, fair | the report is true and its reboots fresh (`ReportIsTrue`); access points and radio are put back (`CleansUp`); nothing is written to the wrong node (`RightNode`); the task ends (`TaskEnds`) |
| `scene_runs` | 2 overlapping runs of 10 scenes, 5 groups, 2 networks, 1 event | broadcasts keep to the scope of their own run (`ScopeIsOwn`); a container selects its groups whichever wire path is cheapest (`ContainerSelects`); results are true (`ResultsAreTrue`) |
| `scene_override` | the same scenes with an unconfigured node on the second network | violation: the offset formula stays on that node (`OverridesReachAll`) |

`link_gateways` and `lifecycle_gateways` also check their module's `TypeOK`.
The other `TypeOK`s document the state and can be added to a configuration.

The combined properties are conjunctions of named parts, defined beside them with
their own comments (for example `ReportIsTrue` is `OkMeansWritten`,
`ReannounceIsFresh` and `EveryDeviceTried`).

### 3.1 Bounds

Every bound is a constant named in a guard, but for five constraints.
`config_writes` has `Undisturbed`, which stops a behaviour once the writes to the
node have overlapped, since the properties claim nothing after that.
`reply_calls` has `FewUnderWay` (two frames between devices and host, the one at hand included),
`OneRetries` (one of the two calls comes to its retry) and `QuietSibling` (the
second gateway overhears one reply at a time, the last one under way). The
registries of two gateways are separate, so the second one matters only by what
it hears; that it never counts is proved without these limits. `RefusalsAreRare`
applies once a device has refused: the second gateway is silent, one frame is under
way, the calls follow each other (a late refusal meets the next call), and only one
device refuses; the theorems of `WireProofs` need no such limit.

Two senders are enough for a slot to be displaced and for a late outcome to meet
a later call; a third adds no new relation between two calls. Two callers with a
group call and a unicast call give every overlap of bucket and list matchers; two
attempts give a late reply that meets the next attempt; the second gateway
overhears. `link_gateways` has a transport of each kind, since what they do to each
other's expectations is the question, and one sender: its second request already
meets the reader in the middle of the first, and the theorems hold of any number.
`lifecycle_gateways` has one discovery thread, because with two the host need not
come back: each can hold the port the other probes, so `GatewayReturns` fails
there. The safety property `NoCorpse` is proved for any number of threads, which is
where its exception for gateways attached twice matters. One unplug can hit every step of an attach; two requests allow a
cancel or shutdown against a rediscovery. In `group_members` two events give an
edit during a task, a reboot during a task, a second reboot, and a relocation
after a move. Initial states there cover every loaded database of the instance
(up to renaming of groups and networks, which are interchangeable), including
nodes that rebooted or changed network while the host was off; a scene with an
offset table that names a group twice (see 3.3) is kept to the databases without
devices, and every scene refers to all groups. `MaxCalls` limits how many SET_GROUP calls of a device are under way
when its cooldown ends.

In `config_writes` three operations are a two-register operation with writers
before and after it. In `bind_answers` the instance starts where the questions
are: one network driven by a gateway with another config than recorded, one
network without either, and a gateway nobody knows. `migration_jobs` has a node
the host believes offline and one online, a third channel to scan or to move to,
and one power cycle, crash or foreign request at any step of the one job.
`tasks_browser` needs two tasks for a late cancel or a late count; one event is
enough for two threads to broadcast at once. `ota_updates` has requests with
firmware, files, both, a wrong BSSID, and the download with and without
AP-enable, and one thing going wrong outside the workflow, beside the lost
commands and failed uploads that are outcomes of its own steps. The scenes of `scene_runs` take all three
wire paths, every offset mode, degradation, an exception, an abort, networks that
are gone and validation errors; group lists are sparse and offsets clamp. `MaxEntries` is
the code's `MAX_GROUPS_OFFSET_ENTRIES`, small enough that a table can be too long.

`CHECK_DEADLOCK FALSE` is used where a behaviour really ends: all bounded
operations are done. `group_members` never stops, since nodes keep announcing
themselves.

### 3.2 Fairness

* Serial: a sender inside `_send_m2n` and the reader are threads that are
  scheduled (weak fairness); the outcome wait has a timeout, so its expiry is a
  step of the sender. Nothing is assumed of the gateway.
* Lifecycle: threads, timers and readers (weak fairness). Nothing is assumed of
  the cable or the operator.
* Group: threads, timers and cooldowns (weak fairness); a node keeps sending
  IDENTIFY (a booted node announces itself until served); the radio does not
  lose every SET_GROUP to a device that is sent for ever, nor does the node refuse
  every one (strong fairness of `PushAcked`). The operator owes nothing.
* Bind: attach threads, the waiting answer and the task go on; the wait for a
  gateway has a timeout. Weak fairness suffices for a thread that waits for the
  lock because the operator's answers are bounded.
* Migration: the worker runs; a node in reach of a gateway is heard again.
* Tasks: threads that have begun something go on. No request has to come.
* OTA: the workflow goes on; radio command, nmcli, HTTP and both waits have
  timeouts. Nothing is assumed of nodes and Wi-Fi.

### 3.3 Claims of comments and docs that the code does not keep

One is a run of its own, `scene_override`: the offset optimizer counts on a
per-group clear undoing a broadcast formula for every group that does not take
part, but the clear for group 0 leaves by the first gateway only
(`control_service.py:74`), so unconfigured nodes of other networks keep the
formula. `PROJECT.json` quotes both sides.

The modules state further claims as definitions that no run checks, because they
fail on the model as the code is; each can be put into the named configuration to
get the counterexample.

| definition | claim | what happens |
|---|---|---|
| `SerialTransport!SingleInFlight` | `_tx_lock` keeps one send in flight (`gateway_serial.py:597`) | the condition wait at 665 releases it |
| `LinkExpect!OfflineMeansUnanswered` | the expectation is stamped right after the request is on the wire (`controller.py:2177`) | on serial links it follows the outcome wait; an answer can precede it |
| `RequestReply!AckedExecuted` | a counted ACK is success (`gateway_service.py:509-532`, 882-885) | an ACK with a refusing `ack_status` is counted like any other |
| `GatewayLifecycle!NoCorpse` without its first disjunct, two threads | a dead gateway's transport is the one that is detached (`gateway_service.py:2422`) | with two discoveries one gateway is attached twice and the lookup by `ident_mac` finds the living one |
| `GatewayLifecycle!MissingIsPolled` | the tracker looks for every missing gateway (`missing_transport_tracker.py:6`) | a manual retry that finds nothing returns early (`controller.py:1402`) and leaves it unarmed |
| `GroupMembership!FirmwareFollowsHost` | a group deletion reaches the nodes by auto-restore (`api.py:2441`) | auto-restore corrects only nodes that report group 0 (`gateway_service.py:2099`) |
| `GroupMembership!RestoreKeepsMembership` | auto-restore resets only an index that names no group (`gateway_service.py:2106-2122`) | a group is deleted between the reads of the index and of the length, and the device, renumbered by then, is reset |
| `NodeConfig!SkippedKeepsPin` | no ACK means the node never heard us (`api.py:1068`) | only the answer may be lost |
| `NodeConfig!MirrorAlways` | an ACK commits the option it is for (`controller.py:2139-2165`) | a late ACK commits the next option; the waiter can stash the next option before the RX thread pops the first (`gateway_service.py:1788`, `1524`) |
| `GatewayBind!DeletedIsReevaluated` | a deleted network's gateway is evaluated again (`api.py:781`) | nothing does (835) |
| `GatewayBind!WizardIsFresh` | a stale wizard cannot override a re-evaluated record (`api.py:1455`) | a rebind that is refused or whose push fails changes the record and keeps the token (`gateway_bind_service.py:950-975`) |
| `GatewayBind!RouteIsOwner` | routing follows `gateway_mac` (`controller.py:435`) | the first transport stamped with the network wins (389) |
| `GatewayBind!OneNetworkPerGateway`, `Separate` | never two networks per gateway or channel (`gateway_bind_service.py:322-334`, `848-853`) | the connect hook claims outside the lock; adoption checks no channel; a check is overtaken during the wait |
| `RfMigration!ScanKeepsMembership` | a scan updates `last_known_rf_config` of the nodes it hears (`channel_scan_service.py:22`), not their groups | the IDENTIFY handler relocates the nodes it hears (`gateway_service.py:1907`, `2004`) |
| `RfMigration!OkMeansSwitched` | a switch waits for the matching EV_RF_CHANGED (`gateway_service.py:1179`) | the first one counts, whatever request it answers and config it carries (1204-1247), so a network migration can report ok with its gateway on the old config |
| `OtaWorkflow!RestoreBeforeNextAp` | the next access point waits for the restore of the node before (`gateway_service.py:2264`) | the event is set before the job is registered (1953) |
| `SceneRunner!RefusedIsDegraded` | a broadcast that the scope refuses is recorded as degraded (`scene_runner_service.py:168-171`, `457`) | the refused frame counts as a failed one and the action as an error |

What modelling showed besides, without a text that says otherwise: in a fleet whose
only known group is 0, the cheapest wire path of a container for everybody is one frame to
group 0, which is routed to the first gateway only, so nodes on other networks are left
out (`offset_dispatch_optimizer.py:146-223`, `control_service.py:74`; the proof of
`ContainerCorrect` found it, `Selects` exempts it); an explicit
offset table that names a group twice passes validation
(`scenes_service.py:569`), fails it after the rewriting of a group edit, and the
swallowed exception leaves all scenes on the old indices, some of which may then name no
group until a later edit renumbers them onto another one; a failed rebind leaves
the binding half changed (`gateway_bind_service.py:950-975`); a group move flips
the groups although the nodes' migration was refused
(`rf_migration_service.py:806-830`); a gateway whose switch fails returns without
the list of stranded nodes (319-324); a scan whose restore fails reports ok
(`channel_scan_service.py:294-336`); the gateway rf_config route can retune a
gateway that a job is using (`api.py:1822`); an older task record can overtake a
newer one on its way to a browser (`tasks.py:53`), reader counts can be lost or
land in the next task (`sse.py:618-624`); a failing `nmcli` is read as radio off
and the radio is switched off in the end; an update without firmware leaves the
access point open (`ota_workflow_service.py:453-457`, `720-731`); two scene runs
share one scope (`scene_runner_service.py:160-163`). The properties exempt
exactly these cases, by name.

## 4. Proofs

All theorems hold for every value of the constants, the bounds included, under
the named assumptions of the module (sets that are sequences, finite or disjoint
where the program's are; a download of OTA configs names one node).

| module | theorem | assumptions beyond the module's |
|---|---|---|
| `WireProofs` (`SerialTransport`) | `WireTypeCorrect`, `RegisteredCallWaits`, `OutcomeIsStable`, `SoloOutcomeCorrect`, `MirrorCorrect` | |
| `WireProofs` (`RequestReply`) | `TypeCorrect`, `SuccessCorrect`, `GatewaysIsolated`, `Refinement`, `RegistryIsExact`, `AnswerMeetsMatcher` | |
| `GatewayProofs` (`LinkExpect`) | `LinkTypeCorrect`, `FreshExpectCorrect`, `GatewaysDecideAlone` | |
| `GatewayProofs` (`GatewayLifecycle`) | `TypeCorrect`, `MissingAlwaysPolled`, `ShutdownFinal`, `NoDeadTransport` | |
| `TaskManagerProofs` | `TypeCorrect`, `TasksAreApart`, `BrowsersAreCurrent` | |
| `OtaWorkflowProofs` | `TypeCorrect`, `OnlyTheRightNode`, `ReportsAreTrue`, `WorkflowCleansUp` | |
| `GatewayBindProofs` | `TypeCorrect`, `RecordsTrue`, `NetworksApart` | |
| `NodeConfigProofs` | `TypeCorrect`, `MirrorTrue`, `AnswersTrue`, `StoredTrue` | |
| `RecordProofs` (`GroupMembership`) | `TypeCorrect`, `MembershipKept`, `ScenesFollow`, `RelocationCorrect` | |
| `RecordProofs` (`RfMigration`) | `MigrationTypeCorrect`, `RecordsLeadCorrect`, `JobsCorrect` | |
| `SceneRunnerProofs` (`SceneRunner`, `DispatchPlan`) | `TypeCorrect`, `ScopeCorrect`, `ContainerCorrect`, `ResultsCorrect` | |

Three modules hold the theorems of two components each, so `SerialTransport`,
`LinkExpect` and `RfMigration` give their own names to what every module has
(`WireNext`, `LinkSpec`, `MigrationNext` and so on).

*SoloOutcomeCorrect.* "An undisturbed call gets its own fate" is not inductive:
the event that will answer it is still on the wire. The invariant adds a ledger
of frames (`FrameLedger`: a frame on the wire or in the gateway's slot is
undecided and occurs once), that events on the wire tell the truth
(`EventsTellFate`), that a solo call has a frame of its own (`SoloHasFrame`) and
that while it waits everything on the link is its own (`SoloOwnsLink`). The key
lemma is `SoloLinkStep`: `solo` is only set when the link is quiet and is lost
as soon as another party uses it.

*MirrorCorrect.* The mirror is compared with the events under way, not with the
gateway itself. `LastEventTells`: while the port is up, the last state event on
the wire tells the gateway's present state, because every change of that state
sends one; it holds only together with the property.

*SuccessCorrect, GatewaysIsolated.* A reply names no request, so the argument is
about what is under way: every queued reply was sent by a device that answered its
opcode, and one that reads OK by a device that executed it (`RepliesTrue`), every registered or copied matcher belongs to a
current or finished call and asks for the opcode and devices of it
(`MatchersTrue`), and what the current matcher of a call collected is of that
call's kind (`GotTrue`, `GotFresh`). A matcher of a finished call may still be
held by an RX thread; call numbers separate it from the current one.

*RegistryIsExact, AnswerMeetsMatcher.* The registry holds exactly the matchers of
the callers between registration and cancellation, each once (`RegistryExact`);
"once" is what lets a cancellation remove the caller's own. That an answer cannot
outrun its matcher needs, besides call numbers that differ (`CallsApart`), that
every frame and every reply belongs to an attempt already sent (`AllSent`), so
that a copy of the registry taken for a reply contains the matcher of the call
that was registered before the send (`OwnMatcherCopied`).

*Refinement.* With the invariant of `SuccessCorrect`, every step of `RequestReply`
is a step of `Rpc` or changes nothing there: `Begin` is `Request`, a refusal is
`Refuse`, `ReadReplies` is `Round` (what a matcher collected are answers the devices gave, and only an OK is trusted),
`Answer` is `Answer` there, executed or refused; registration, sending, waiting
and the two RX steps are invisible.

*FreshExpectCorrect, GatewaysDecideAlone.* The invariant says that an
expectation held by an RX thread was already recorded as decided
(`HeldResolved`), so the comparison of `clear_pending_expect_if` protects a
newer one; and that each slot holds only devices whose transport has that key
(`SlotsOwn`). `ReadOwn` then says whose expectation a lookup can find, the fallback of
an untagged transport included, and `TakesUp` that an RX thread takes up nothing but
what its lookup found in that step. No transport is assumed to be tagged.

*MissingAlwaysPolled* states `PolledUnlessRetried`, for any number of discovery
threads. The tracker's `_timer` may name a timer that has fired. `TimerLive` says
that then its callback is still waiting for the lock; together with "every step
of a discovery but the last leaves the thread busy" (`Busy`) nothing is
forgotten.

*NoDeadTransport*, for any number of discovery threads. A gateway is attached at most
once unless it is in `twice` (`OneEach`); no two threads attach the same transport
(`Apart`); one that has yet to pass the duplicate guard is not attached, and from the
binding on its listener is hooked (`InHand`); an attached reader whose gateway is not
in `twice` runs and is listened to, except in the steps from the hook to the first
write (`Heard`). Two threads that pass the guard with one gateway put it into `twice`:
this is the race of two discoveries, and the theorem says that nothing else leaves
a dead transport behind.

*TasksAreApart, BrowsersAreCurrent.* A thread that executes a task body runs the task
of the present record (`RunnerInv`), and a cancel event that is set belongs to it or
to an earlier one (`CancelInv`). Record ages replace time: no copy is younger than
the record (`AgeInv`), and a browser whose view is older is owed the record by some
thread (`Owed`, `Fresh`) or is exempted by name (`late`).

*OnlyTheRightNode, ReportsAreTrue, WorkflowCleansUp.* The host talks to the node
its Wi-Fi is linked to, so `LinkInv` ties the link to the node at hand at every
step after the identity check; `WrittenInv` says what has been written by the
step the workflow has come to, `FreshInv` when the node was heard again,
`TriedInv` which nodes have their final report, and `ApInv`, `RadioInv` what is
still to be closed and restored on the way to the end.

*RecordsTrue, NetworksApart.* A push is made with the service's lock held, and the
answer is written to the record found when it comes. `CallInv` says that this is
still the record the call began with, expecting the configuration that was pushed.
`Consistent` says what a bound and a conflicting record assert of themselves. That a
wizard whose token still matches shows the record as it is (`WizardIsCurrent`) is
proved against the record it was opened on: every other step that rewrites a record
regenerates its token, and a half-done rebind moves network and expected config only.
`NetworksApart` follows from the types and the step's own checks.

*MirrorTrue, AnswersTrue, StoredTrue.* About a node whose writes have not overlapped
(`Calm`): the frames that can still reach it, with those a thread may send again,
are one write (`Live`, `OneWrite`), the stash describes it (`StashInv`), and an
acknowledgement under way tells that it was carried out (`AckInv`, `GotInv`). The
mirror agrees with the node in every bit that no answer under way will set again
(`MirrorInv`, `Covered`, `PendInv`). Of the operations that write twice, `SecondInv`
says that the first write still holds during the second. `PackUnpack` is the lemma
about the byte order of the values.

*MembershipKept, ScenesFollow.* Both are about what an index names before and after
an edit of the group list, so the argument is about sequences. `WithoutOne` says
where the groups behind a deleted one come to stand, `Permutes` that the indices of a
reordered list name the same groups, `ListFits` that a list without repetitions is no
longer than there are groups (by the pigeonhole principle; it bounds every index on
the host, on a node and in a message). `GroupsChange` sorts out the steps: only
creation, deletion and reordering change the list, whatever task, auto-restore job or
IDENTIFY comes between. An offset table names only groups of its container's target
(`TableInTarget`); when it also names none twice the two are one set, the rewriting
stops nowhere and every reference is mapped (`AllRewritten`). *RelocationCorrect* needs no more
than the types: in the step that changes a known network the adopted index is compared
with the group's network before it is stored (`LeavesGroup`).

*RecordsLeadCorrect.* `RestartAgrees` needs that a gateway whose answer has come but
whose record is not saved yet is among the excepted ones (`NvsAhead`);
`MovedNodeIsHome` that a node's record was moved before the command left (`CurIsHome`), whether or not the answer
came. A gateway whose switch was reported by another request's answer is in `drift`
until a config it does run is recorded; the property claims nothing of it.

*JobsCorrect.* A job's report is about nodes it talked to several steps ago. For a
network migration: a node that acknowledged still runs the config unless somebody else
wrote it (`PushedFollow`), it is pushed to once (`PushedOnce`), and the record keeps
the config until the verification (`RecordTaken`). For a group move: every member is on
the target network or still to come (`MembersFollow`). For a scan: while it listens after a switch that its gateway carried out, the gateway is
on the channel, and so is everyone it heard (`ScanTuned`); an answer taken from another
request (`job.foreign`) voids this. Nothing is claimed of the gateway of a migration
that reports ok (`OkMeansSwitched`, section 3.3). What other
requests, IDENTIFY events, power cycles and the crash can do to this is stated once
(`OthersMark`: whoever changes a node or a gateway beside the job is marked in its
`other`, and nobody but the job changes the job otherwise), and the conjuncts are
proved against that and the job's own steps (`JobKeeps`).

*ContainerCorrect.* The optimizer emits one of three frame sequences, whichever is
cheapest, and the nodes act on the frames one by one. What a sequence does to a node is
decided by the last frame that hits it: `Sets(ops, n, v)` says that this frame makes it
store `v`, `Spares(ops, n)` that no frame hits it. Both pass from parts to a joined
sequence (`JoinedLists`) and to what is left when the first frame has gone out
(`SetsOn`). Each wire path is shown to set every node of the target to what the reference definition
wants and to spare or clear the others (`SetupOfGroups`, `SetupOfAll`); the plan chosen is one
of them (`BestOfTwo`), so costs are compared only where a clear for everybody competes
with an explicit 0 for the only group (`OneFrameBytes`). Where a recursive definition has to be followed along
a list, the proof takes the first position at which it would fail (`LeastPosition`)
instead of an induction over the list.

For the run itself the invariant says, of an undisturbed one, that every node of the
target stores its value or that the frames still to be sent will set it, with the offset
frames ahead of the children (`StillToSet`). It needed one fact about plans that no
property asks for: a frame for everybody never clears an offset when the container
names groups (`ClearsGroups`), or a child could miss nodes between two frames.

*ScopeCorrect, ResultsCorrect.* An undisturbed run is the only one, the stored scope is its
own and the one to restore is none (`HoldsScope`, `Unmixed`); a broadcast then leaves by
the networks that `SceneNetworks` or `TargetNetworks` computes, and these are the
networks of the nodes that the operator means (`Wants`). Everybody an
effect is for took it or is still to get a frame in the right offset state
(`StillToHear`). `Tells` says of a result list that exactly what follows the first error is
skipped, and is kept when an action ends, with or without an abort.

Only model-checked: the liveness properties `LinkNeverStuck`, `GatewayReturns`,
`RebootIsRestored`, `LockIsFreed`, `RecordsSettle`, `BrowserFollows` and `TaskEnds`
(the prover has no fairness and no ENABLED). Every other property of a passing run
is also a theorem, `BrowsersAreCurrent` being the safety half of `BrowserFollows`.

## 5. Abstractions and what is not modelled

* Bytes, frames, checksums, airtime and RSSI; opcodes appear as model values.
  The one length that matters, of an OPC_OFFSET body, is `OffsetBytes`.
* Time: a timeout is an action that may happen at any moment of the wait. A switch of
  a gateway takes effect by the time its answer is taken, or never; the answer to a
  query carries the config of that moment.
* `SceneRunner`: a parameter that raises does so at the child's frame; for the presets
  that are not WLED's the planner finds it earlier, before an offset has been sent.
* `GatewayBind`: an accepted host config starts its migration task in the same step.
* Exceptions that only log. Failures of a write are actions.
* Serial and Ethernet: the byte-level frame reader, `drain_events`, sockets,
  discovery datagrams; Ethernet auto-sync, a timer that keeps no state others
  read.
* Gateways: pinned ports, the untagged reconnect worker (`schedule_reconnect`)
  and the back-off timer of `_schedule_gateway_retry`.
* Fan-out worker threads and their join deadline: callers ignore the outcome.
* `GroupMembership`: which nodes answer a discovery (any may), device deletion;
  that group and route are read in two statements of `setNodeGroupId`; request
  validation and start of a task are one step (the task's later steps interleave
  with everything).
* `GatewayBind`: the refusals for Ethernet networks; regional channel policy,
  here and in `RfMigration`, is left to the configs of an instance. Onboarding
  case A repeats the re-sync of `GroupMembership`.
* Scenes: delays, progress callbacks, the startblock kind, cost estimates
  (airtime arithmetic over the plan that is modelled).
* Stores: file handling, schema migrations, presets, host settings and the backup
  archive: conversions of stored data that nothing interleaves with.
* Frontend, application shell and integrations, generated tables, build scripts.

## 6. Plan

Done: the modules of section 2. What is left, by importance:

1. `schedule_reconnect` and the retry back-off timer in `GatewayLifecycle`.
2. The fan-out workers with their deadlines under `SceneRunner`.
3. A composition of `SerialTransport` and `LinkExpect` that replaces the latter's
   simplified outcome wait.
4. An abstract specification of a scene run, by what the nodes are told, that
   `SceneRunner` with its wire paths implements.
