---------------------------- MODULE RfMigration ----------------------------
(***************************************************************************)
(* Moving nodes and gateways between RF configs: RfMigrationService        *)
(* (migrate_network_to, migrate_devices_to, migrate_groups_to), the        *)
(* channel scan, onboarding cases B and C, the rf_config routes that write *)
(* one node or one gateway, and the IDENTIFY handler that lets a node's    *)
(* record follow its radio.                                                *)
(*                                                                         *)
(* The task manager runs one job at a time; HTTP requests, IDENTIFY events *)
(* of every gateway, power cycles and a crash of the host interleave with  *)
(* its steps.  Every network has one gateway, named like the network.  A   *)
(* node hears a gateway exactly when both are on the same RF config.  A    *)
(* command is applied, refused, or unanswered; an unanswered one may have  *)
(* been applied.                                                           *)
(***************************************************************************)
EXTENDS Naturals, FiniteSets

CONSTANTS Devs,     \* nodes in the device repository
          Nets,     \* RF networks, one attached gateway each
          EthNets,  \* Ethernet networks
          Groups,   \* groups other than Unconfigured
          Configs,  \* RF configs, among them the channels of the region
          None,     \* Python's None, and the Unconfigured group
          Primary,  \* the network of the controller's first transport
          Targets,  \* the sets of nodes an operator onboards
          MaxJobs,  \* bound on tasks started
          MaxOps    \* bound on other requests, power cycles and crashes

ASSUME MigrationAssumption ==
  /\ Nets \cap EthNets = {} /\ Primary \in Nets /\ Targets \subseteq SUBSET Devs /\ {MaxJobs, MaxOps} \subseteq Nat
  /\ None \notin Devs \cup Nets \cup EthNets \cup Groups \cup Configs

VARIABLES mem,    \* what the host knows and saves: networks, nodes, groups
          disk,   \* the state file
          reachable, \* nodes the host believes reachable (link_online)
          dcfg,   \* the RF config a node runs on, kept in its NVS
          live,   \* the RF config a gateway's radio is tuned to
          nvs,    \* the RF config a gateway boots with
          job,    \* the task that runs
          drift,  \* gateways whose NVS was written, or reported written by another
                  \* request's answer, past the network's record
          ops     \* tasks started, and other requests and faults so far

migrationVars == <<mem, disk, reachable, dcfg, live, nvs, job, drift, ops>>
radioVars == <<dcfg, live, nvs, drift>>

Opt(S) == S \cup {None}
HostState == [rf : [Nets \cup EthNets -> Opt(Configs)], dnet : [Devs -> Nets \cup EthNets],
              last : [Devs -> Opt(Configs)], grp : [Devs -> Opt(Groups)],
              gnet : [Groups -> Opt(Nets \cup EthNets)]]

Kinds == {"net", "move", "scan", "caseB", "caseC"}
Steps == {"retune", "push", "send", "sent", "switch", "switched", "listen", "verify",
          "save", "flip"}
\* n is the network of the job's gateway or the network a move goes to, c the
\* config that is pushed or tuned to, back the config a scan returns to; cur is
\* the node in flight, via the gateway that reaches it, got its answer; good and
\* bad are the nodes pushed with and without success.  For the properties: other
\* is what somebody else changed meanwhile, and foreign says that another
\* request's answer was taken for the one to the last switch of a scan.
Job == [kind : Kinds, pc : Steps, n : Nets \cup EthNets, c : Opt(Configs), back : Opt(Configs),
        todo : SUBSET Devs, chans : SUBSET Configs, groups : SUBSET Groups,
        cur : Opt(Devs), via : Opt(Nets), got : {"ack", "nak", "none"},
        good : SUBSET Devs, bad : SUBSET Devs, heard : SUBSET Devs,
        known : BOOLEAN, other : SUBSET (Devs \cup Nets), foreign : BOOLEAN]
\* None, which stands for no job, is no job.
ASSUME NoJobAssumption == None \notin Job
NewJob(kind, pc, n, c) ==
  [kind |-> kind, pc |-> pc, n |-> n, c |-> c, back |-> None, todo |-> {}, chans |-> {},
   groups |-> {}, cur |-> None, via |-> None, got |-> "none", good |-> {}, bad |-> {},
   heard |-> {}, known |-> FALSE, other |-> {}, foreign |-> FALSE]

Running(kind) == job # None /\ job.kind = kind
At(pc) == job # None /\ job.pc = pc

\* validate_network_kind_match: RF and Ethernet networks never mix
SameKind(m, n) == (m \in Nets) = (n \in Nets)

\* reconcile_group_network: the network of a member, None without one
MemberNets(g, grp, dnet) ==
  LET in == {d \in Devs : grp[d] = g}
  IN IF in = {} THEN {None} ELSE {dnet[d] : d \in in}

-----------------------------------------------------------------------------
\* A loaded state file in step with the radios; a network may lack a config.
MigrationInit ==
  /\ mem \in HostState
  /\ \A d \in Devs : mem.dnet[d] \in Nets
  /\ \A n \in EthNets : mem.rf[n] = None
  /\ \A g \in Groups : mem.gnet[g] \in MemberNets(g, mem.grp, mem.dnet)
  /\ \A d, e \in Devs : mem.grp[d] = mem.grp[e] /\ mem.grp[d] # None
                          => mem.dnet[d] = mem.dnet[e]
  /\ disk = mem
  /\ nvs \in [Nets -> Configs] /\ live = nvs
  /\ dcfg \in [Devs -> Configs]
  /\ \A d \in Devs : dcfg[d] = nvs[mem.dnet[d]] /\ mem.last[d] \in {None, dcfg[d]}
  /\ drift = {n \in Nets : mem.rf[n] # nvs[n]}
  /\ reachable \in SUBSET Devs /\ job = None /\ ops = [jobs |-> 0, other |-> 0]

\* An HTTP request, a fault, a link that expires
OtherOp == ops.other < MaxOps /\ ops' = [ops EXCEPT !.other = @ + 1]
Enter == job = None /\ ops.jobs < MaxJobs /\ ops' = [ops EXCEPT !.jobs = @ + 1]

-----------------------------------------------------------------------------
\* What a node hears and answers.

\* Mutant of RelocatedNode: a node with a network keeps it.
RelocatedNever(d, n) == {mem}

\* _relocate_device_network: the node's record follows its radio to network n;
\* it leaves a group of another network, which is reconciled.
RelocatedNode(d, n) ==
  LET g == mem.grp[d]
      leaves == g # None /\ mem.gnet[g] \notin {None, n}
      grp == IF leaves THEN [mem.grp EXCEPT ![d] = None] ELSE mem.grp
      dnet == [mem.dnet EXCEPT ![d] = n]
      last == IF mem.rf[n] = None THEN mem.last ELSE [mem.last EXCEPT ![d] = mem.rf[n]]
      nets == IF leaves THEN MemberNets(g, grp, dnet) ELSE {None}
  IN {[mem EXCEPT !.grp = grp, !.dnet = dnet, !.last = last,
                  !.gnet = IF leaves THEN [@ EXCEPT ![g] = m] ELSE @] : m \in nets}

\* discover_devices: the job that listens takes the answers of every gateway, a
\* scan those of its own
Collects(n) == (At("listen") \/ At("verify")) /\ (Running("scan") => job.n = n)

\* An IDENTIFY reply of d through the gateway of n: the record follows, the node
\* counts as reachable, and a discovery that runs collects the answer.
Identify(d, n) ==
  LET moved == mem.dnet[d] # n
  IN /\ dcfg[d] = live[n]
     /\ mem' \in IF moved THEN RelocatedNode(d, n) ELSE {mem}
     /\ reachable' = reachable \cup {d}
     /\ job' = IF job = None THEN None
               ELSE [job EXCEPT !.heard = IF Collects(n) THEN @ \cup {d} ELSE @,
                                !.other = IF moved THEN @ \cup {d} ELSE @]
     /\ UNCHANGED <<disk, radioVars, ops>>

\* a status poll or an unanswered expectation marks the node offline
Silence(d) ==
  /\ d \in reachable /\ OtherOp
  /\ reachable' = reachable \ {d}
  /\ UNCHANGED <<mem, disk, radioVars, job>>

\* What set_node_rf_config can come to: the node applies the config or not, and
\* acknowledges, refuses or stays silent through all attempts.
NodeAnswers(d, via, c) ==
  LET reached == via # None /\ dcfg[d] = live[via] IN
  {[cfg |-> dcfg[d], got |-> "none"]}
    \cup {a \in [cfg : {c}, got : {"ack", "none"}] : reached}
    \cup {a \in [cfg : {dcfg[d]}, got : {"nak"}] : reached}

\* What set_gateway_rf_config can come to.  The first EV_RF_CHANGED of the
\* gateway is the answer, whatever config it carries: the reply to another
\* request's GET or SET, or to a switch that timed out before, reads OK although
\* this switch was refused or lost.
GatewayAnswers == [done : BOOLEAN, ok : BOOLEAN]
OthersAnswer(a) == a.ok /\ ~a.done

\* SET_RF_CONFIG without persist retunes the radio
TuneRadio(n, c, a) == live' = IF a.done THEN [live EXCEPT ![n] = c] ELSE live

\* with persist the gateway also writes its NVS and reboots
Rewrite(n, c, a) ==
  /\ TuneRadio(n, c, a)
  /\ nvs' = IF a.done THEN [nvs EXCEPT ![n] = c] ELSE nvs

\* transport_for_device: the gateway of the network the record names
RouteOf(d) == IF mem.dnet[d] \in Nets THEN mem.dnet[d] ELSE None

\* POST /api/devices/<mac>/rf_config: last_known_rf_config stays as it is
DirectPush(d, c) ==
  /\ OtherOp
  /\ \E a \in NodeAnswers(d, RouteOf(d), c) : dcfg' = [dcfg EXCEPT ![d] = a.cfg]
  /\ job' = IF job = None THEN None ELSE [job EXCEPT !.other = @ \cup {d}]
  /\ UNCHANGED <<mem, disk, reachable, live, nvs, drift>>

\* POST /api/gateway/rf_config: not serialised with the tasks either
GatewayPush(n, c, persist) ==
  /\ OtherOp
  /\ \E a \in GatewayAnswers :
       /\ IF persist THEN Rewrite(n, c, a) ELSE TuneRadio(n, c, a) /\ UNCHANGED nvs
       /\ drift' = IF persist /\ a.done THEN drift \cup {n} ELSE drift
  /\ job' = IF job = None THEN None ELSE [job EXCEPT !.other = @ \cup {n}]
  /\ UNCHANGED <<mem, disk, reachable, dcfg>>

\* a power cycle of a gateway undoes a volatile switch
PowerCycle(n) ==
  /\ live[n] # nvs[n] /\ OtherOp
  /\ live' = [live EXCEPT ![n] = nvs[n]]
  /\ job' = IF job = None THEN None ELSE [job EXCEPT !.other = @ \cup {n}]
  /\ UNCHANGED <<mem, disk, reachable, dcfg, nvs, drift>>

\* the host stops and starts again from its state file; radios run on
Crash ==
  /\ OtherOp
  /\ mem' = disk /\ reachable' = {} /\ job' = None
  /\ drift' = drift \cup {n \in Nets : disk.rf[n] # nvs[n]}
  /\ UNCHANGED <<disk, dcfg, live, nvs>>

-----------------------------------------------------------------------------
\* Starting a job: tasks.start refuses a second one.

StartJob(j) == Enter /\ job' = j /\ UNCHANGED <<mem, disk, reachable, radioVars>>

\* POST /api/networks/<id>/migrate and migrate_network_to up to the first push:
\* nodes already on the target and, unless forced, offline nodes are skipped
StartNet(n, c, force) ==
  LET todo == {d \in Devs : mem.dnet[d] = n /\ mem.last[d] # c /\ (force \/ d \in reachable)}
  IN StartJob([NewJob("net", "push", n, c) EXCEPT !.todo = todo])

\* migrate_devices_to up to the first push: nodes already there are left alone;
\* offline nodes are moved in the records only, unless forced
Moving(n, macs, force) ==
  LET away == {d \in macs : mem.dnet[d] # n}
      off == IF force THEN {} ELSE away \ reachable
  IN [flipped |-> off, todo |-> away \ off]

\* _apply_metadata_flip
Flipped(S, n, c) ==
  [mem EXCEPT !.dnet = [d \in Devs |-> IF d \in S THEN n ELSE @[d]],
              !.last = [d \in Devs |-> IF d \in S THEN c ELSE @[d]]]

\* migrate_groups_to: the nodes of the groups, whatever their network
Members(gs) == {d \in Devs : mem.grp[d] \in gs}

\* POST /api/groups/migrate-network and migrate_groups_to up to the first push.
\* "block" is refused while a member is offline and otherwise means "skip".
\* Without an RF config of the target network no node moves, yet the groups do.
StartMove(n, gs, mode) ==
  LET members == Members(gs)
      m == IF mem.rf[n] = None THEN [flipped |-> {}, todo |-> {}]
           ELSE Moving(n, members, mode = "force")
  IN /\ Enter /\ gs # {}
     /\ \A g \in gs : mem.gnet[g] = None \/ SameKind(mem.gnet[g], n)
     /\ mode = "block" => members \subseteq reachable
     /\ mem' = Flipped(m.flipped, n, mem.rf[n])
     /\ job' = [NewJob("move", "push", n, mem.rf[n])
                  EXCEPT !.todo = m.todo, !.groups = gs, !.known = m.flipped # {}]
     /\ UNCHANGED <<disk, reachable, radioVars>>

\* _snapshot_gateway_rf: what the gateway reports it is tuned to
Snapshots(n) == {live[n]}

\* POST /api/gateways/<ident>/channel-scan and scan_region: the live config is
\* read first, and without an answer nothing happens
StartScan(n) ==
  \E snap \in Snapshots(n) :
    StartJob([NewJob("scan", "retune", n, None) EXCEPT !.back = snap, !.chans = Configs])

\* POST /api/onboarding/repair, case B, on the first gateway
StartCaseB(old, new, targets) ==
  StartJob([NewJob("caseB", "retune", Primary, new)
              EXCEPT !.back = old, !.todo = targets])

\* POST /api/onboarding/repair, case C
StartCaseC(c) == StartJob(NewJob("caseC", "switch", Primary, c))

-----------------------------------------------------------------------------
\* Pushing a config to the nodes, one after the other.

\* The gateway that reaches the node is looked up first; a move then changes the
\* node's record and marks it offline, all before the command goes out.
PushConfig(d) ==
  /\ At("push") /\ d \in job.todo
  /\ job' = [job EXCEPT !.pc = "send", !.todo = @ \ {d}, !.cur = d, !.known = Running("move"),
                        !.via = IF Running("net") THEN job.n ELSE RouteOf(d)]
  /\ mem' = IF Running("move") THEN Flipped({d}, job.n, job.c) ELSE mem
  /\ reachable' = IF Running("move") THEN reachable \ {d} ELSE reachable
  /\ UNCHANGED <<disk, radioVars, ops>>

\* set_node_rf_config: the command is on the air, the node may reboot already ...
Send ==
  /\ At("send")
  /\ \E a \in NodeAnswers(job.cur, job.via, job.c) :
       /\ dcfg' = [dcfg EXCEPT ![job.cur] = a.cfg]
       /\ job' = [job EXCEPT !.pc = "sent", !.got = a.got]
  /\ UNCHANGED <<mem, disk, reachable, live, nvs, drift, ops>>

\* ... while the host waits for the ACK or the last timeout
Answered ==
  /\ At("sent")
  /\ job' = [job EXCEPT !.pc = "push", !.cur = None, !.via = None, !.got = "none",
                        !.good = IF job.got = "ack" THEN @ \cup {job.cur} ELSE @,
                        !.bad = IF job.got = "ack" THEN @ ELSE @ \cup {job.cur}]
  /\ UNCHANGED <<mem, disk, reachable, radioVars, ops>>

\* a move leaves the gateways alone; the others now switch theirs
PushesDone ==
  /\ At("push") /\ job.todo = {}
  /\ job' = [job EXCEPT !.pc = IF Running("move") THEN "save" ELSE "switch"]
  /\ UNCHANGED <<mem, disk, reachable, radioVars, ops>>

-----------------------------------------------------------------------------
\* Switching the gateway and looking who followed.

\* set_gateway_rf_config(persist=True): without an OK the job returns
SwitchGateway ==
  /\ At("switch")
  /\ \E a \in GatewayAnswers :
       /\ Rewrite(job.n, job.c, a)
       /\ drift' = IF a.done \/ (Running("net") /\ a.ok) THEN drift \cup {job.n} ELSE drift
       /\ job' = IF a.ok THEN [job EXCEPT !.pc = IF Running("net") THEN "switched" ELSE "verify",
                                          !.heard = {}]
                 ELSE None
  /\ UNCHANGED <<mem, disk, reachable, dcfg, ops>>

\* Mutant of RecordSwitch: the state file is written at the end only.
RecordSwitchUnsaved ==
  /\ At("switched")
  /\ mem' = [mem EXCEPT !.rf[job.n] = job.c]
  /\ drift' = IF nvs[job.n] = job.c THEN drift \ {job.n} ELSE drift
  /\ job' = [job EXCEPT !.pc = "verify"]
  /\ UNCHANGED <<disk, reachable, dcfg, live, nvs, ops>>

\* the network's record takes the new config and is saved before the reboot wait
RecordSwitch ==
  /\ At("switched")
  /\ mem' = [mem EXCEPT !.rf[job.n] = job.c] /\ disk' = mem'
  /\ drift' = IF nvs[job.n] = job.c THEN drift \ {job.n} ELSE drift
  /\ job' = [job EXCEPT !.pc = "verify"]
  /\ UNCHANGED <<reachable, dcfg, live, nvs, ops>>

Verified == job.good \cap job.heard

\* Mutant of NetOk: failed pushes are only reported.
NetOkUnlessStranded == job.good \subseteq job.heard

\* "ok" of migrate_network_to: no push failed and nobody is stranded
NetOk == job.bad = {} /\ job.good \subseteq job.heard

\* the discovery ends: a network migration records who was heard again, the
\* onboarding cases only report
VerifyEnds ==
  /\ At("verify")
  /\ IF Running("net") /\ Verified # {}
     THEN /\ mem' = [mem EXCEPT !.last = [d \in Devs |-> IF d \in Verified THEN job.c ELSE @[d]]]
          /\ disk' = mem'
     ELSE UNCHANGED <<mem, disk>>
  /\ job' = None
  /\ UNCHANGED <<reachable, radioVars, ops>>

-----------------------------------------------------------------------------
\* Onboarding case B and the channel scan: volatile switches first.

\* case B tunes to the old config and gives up without an OK
CaseBRetune ==
  /\ At("retune") /\ Running("caseB")
  /\ \E a \in GatewayAnswers :
       /\ TuneRadio(job.n, job.back, a)
       /\ job' = IF a.ok THEN [job EXCEPT !.pc = "listen", !.back = None] ELSE None
  /\ UNCHANGED <<mem, disk, reachable, dcfg, nvs, drift, ops>>

\* the targets that answered are pushed to, the others are stranded
CaseBHeard ==
  /\ At("listen") /\ Running("caseB")
  /\ job' = [job EXCEPT !.pc = "push", !.todo = @ \cap job.heard, !.bad = job.todo \ job.heard]
  /\ UNCHANGED <<mem, disk, reachable, radioVars, ops>>

\* the next channel of the scan; a failed switch skips it
ScanRetune(c) ==
  /\ At("retune") /\ Running("scan") /\ c \in job.chans
  /\ \E a \in GatewayAnswers :
       /\ TuneRadio(job.n, c, a)
       /\ job' = IF a.ok THEN [job EXCEPT !.chans = @ \ {c}, !.pc = "listen", !.c = c,
                                          !.heard = {}, !.foreign = OthersAnswer(a)]
                 ELSE [job EXCEPT !.chans = @ \ {c}]
  /\ UNCHANGED <<mem, disk, reachable, dcfg, nvs, drift, ops>>

\* the known nodes that answered were heard on this channel
ScanHeard ==
  /\ At("listen") /\ Running("scan")
  /\ mem' = [mem EXCEPT !.last = [d \in Devs |-> IF d \in job.heard THEN job.c ELSE @[d]]]
  /\ job' = [job EXCEPT !.pc = "retune", !.known = @ \/ job.heard # {},
                        !.c = None, !.heard = {}, !.foreign = FALSE]
  /\ UNCHANGED <<disk, reachable, radioVars, ops>>

\* finally: back to the config the gateway had, whatever comes of it
ScanRestore ==
  /\ At("retune") /\ Running("scan") /\ job.chans = {}
  /\ \E a \in GatewayAnswers : TuneRadio(job.n, job.back, a)
  /\ job' = [job EXCEPT !.pc = "save"]
  /\ UNCHANGED <<mem, disk, reachable, dcfg, nvs, drift, ops>>

-----------------------------------------------------------------------------
\* Saving.

\* a scan that knew somebody, or a move that changed a record, saves once
SaveJob ==
  /\ At("save")
  /\ disk' = IF job.known THEN mem ELSE disk
  /\ job' = IF Running("move") THEN [job EXCEPT !.pc = "flip"] ELSE None
  /\ UNCHANGED <<mem, reachable, radioVars, ops>>

\* migrate_groups_to: the groups follow and are saved
FlipGroups ==
  /\ At("flip")
  /\ mem' = [mem EXCEPT !.gnet = [g \in Groups |-> IF g \in job.groups THEN job.n ELSE @[g]]]
  /\ disk' = mem' /\ job' = None
  /\ UNCHANGED <<reachable, radioVars, ops>>

\* any other request that saves the whole state
OtherSave ==
  /\ disk # mem /\ OtherOp /\ disk' = mem
  /\ UNCHANGED <<mem, reachable, radioVars, job>>

-----------------------------------------------------------------------------
JobStep ==
  \/ \E d \in Devs : PushConfig(d)
  \/ Send \/ Answered \/ PushesDone
  \/ SwitchGateway \/ RecordSwitch \/ VerifyEnds
  \/ CaseBRetune \/ CaseBHeard
  \/ \E c \in Configs : ScanRetune(c)
  \/ ScanHeard \/ ScanRestore \/ SaveJob \/ FlipGroups

Start ==
  \/ \E n \in Nets, c \in Configs, force \in BOOLEAN : StartNet(n, c, force)
  \/ \E n \in Nets \cup EthNets, gs \in SUBSET Groups, mode \in {"block", "skip", "force"} :
       StartMove(n, gs, mode)
  \/ \E n \in Nets : StartScan(n)
  \/ \E old, new \in Configs, t \in Targets : StartCaseB(old, new, t)
  \/ \E c \in Configs : StartCaseC(c)

Environment ==
  \/ \E d \in Devs, n \in Nets : Identify(d, n)
  \/ \E d \in Devs : Silence(d)
  \/ \E d \in Devs, c \in Configs : DirectPush(d, c)
  \/ \E n \in Nets, c \in Configs, p \in BOOLEAN : GatewayPush(n, c, p)
  \/ \E n \in Nets : PowerCycle(n)
  \/ Crash \/ OtherSave

MigrationNext == JobStep \/ Start \/ Environment

\* The worker thread runs; a node within reach of a gateway is heard again (it
\* answers polls and discoveries and announces itself when it boots).
MigrationFairness ==
  /\ WF_migrationVars(JobStep)
  /\ \A d \in Devs : WF_migrationVars(\E n \in Nets : Identify(d, n))

MigrationSpec == MigrationInit /\ [][MigrationNext]_migrationVars
FairMigration == MigrationSpec /\ MigrationFairness

-----------------------------------------------------------------------------
\* Every variable holds what its declaration says.
MigrationTypeOK ==
  /\ mem \in HostState /\ disk \in HostState /\ reachable \subseteq Devs
  /\ dcfg \in [Devs -> Configs] /\ live \in [Nets -> Configs] /\ nvs \in [Nets -> Configs]
  /\ job \in Opt(Job) /\ drift \subseteq Nets /\ ops \in [jobs : 0 .. MaxJobs, other : 0 .. MaxOps]

\* A host that stops during a network migration finds on its next start the
\* config its gateway will boot with (the save before the reboot wait, "so a host
\* crash mid-migration still produces a consistent next-boot view").  Excepted,
\* as drift, are gateways whose NVS was written outside the record, the step
\* between the gateway's answer and the save, and a gateway whose switch was
\* reported by another request's answer, until a later one is recorded.
RestartAgrees ==
  \A n \in Nets \ drift : disk.rf[n] = nvs[n] /\ mem.rf[n] = nvs[n]

\* While a node is moved to another network its record already names that
\* network when the node comes up there, so that the answer to its first
\* IDENTIFY goes out through the gateway it now hears (the flip before the push
\* in migrate_devices_to); unless it was relocated meanwhile.
MovedNodeIsHome ==
  At("sent") /\ Running("move") /\ job.cur \notin job.other /\ dcfg[job.cur] = job.c
    => mem.dnet[job.cur] = job.n

\* A network migration that reports ok has every node it pushed to on the new
\* config, records it, and has told nobody else a lie: the network's record
\* carries the config too; nodes that another request wrote meanwhile excepted.
OkMeansMoved ==
  At("verify") /\ Running("net") /\ job' = None /\ ops' = ops /\ NetOk =>
       /\ mem'.rf[job.n] = job.c
       /\ \A d \in job.good \ job.other : dcfg[d] = job.c /\ mem'.last[d] = job.c
       /\ job.todo = {} /\ job.bad = {}

\* When a group move ends, every member it started with belongs to the target
\* network like the group, whatever became of the pushes ("flips happen
\* regardless of partial wire failure"): offline, refused and silent nodes too.
\* Excepted: nodes relocated meanwhile, and a target network without config.
GroupMovesWhole ==
  At("flip") /\ job' = None /\ ops' = ops /\ job.c # None =>
       \A d \in Devs \ job.other : mem.grp[d] \in job.groups => mem'.dnet[d] = job.n

\* What a channel scan records is true: a node it heard is on the channel it is
\* recorded on, so that "the next migration knows where they are"; unless
\* another request or a power cycle changed that node or the gateway meanwhile,
\* or another request's answer was taken for the one to the scan's switch.
ScanRecordsTruth ==
  At("listen") /\ Running("scan") /\ ops' = ops /\ job' # None /\ job'.pc = "retune" =>
       \A d \in job.heard :
          job.foreign \/ job.n \in job.other \/ d \in job.other \/ dcfg[d] = mem'.last[d]

\* What a job reports or records at its end is so on the radio: a migration, a
\* group move and a scan.
JobsTellTheTruth == [][OkMeansMoved /\ GroupMovesWhole /\ ScanRecordsTruth]_migrationVars

\* The host's records name the config and the network that a restarted host, a
\* rebooted gateway or a node that comes up will need, for gateways that do not
\* drift and nodes that nobody else relocates.
RecordsLead == RestartAgrees /\ MovedNodeIsHome

\* A scan only refreshes last_known_rf_config of the nodes it hears: they stay
\* in their groups (ChannelScanService, step 4).
ScanKeepsMembership ==
  [][Running("scan") => mem'.grp = mem.grp]_migrationVars

\* A network migration that reports ok has its gateway on the new config too
\* (set_gateway_rf_config: "and wait for the matching EV_RF_CHANGED").
OkMeansSwitched ==
  [][At("verify") /\ Running("net") /\ job' = None /\ ops' = ops /\ NetOk
       => nvs[job.n] = job.c \/ job.n \in job.other]_migrationVars

\* Every job ends: no answer, refusal or crash leaves the task running.
JobEnds == job # None ~> job = None

\* A node within reach of exactly one gateway ends up in that gateway's network,
\* whatever crash, lost answer or half-done migration put its record elsewhere
\* ("the hardware is the authority").
OnlyAt(d, n) == {m \in Nets : live[m] = dcfg[d]} = {n}
NodeIsFoundAgain ==
  <>[](\A d \in Devs, n \in Nets : OnlyAt(d, n) => mem.dnet[d] = n)

\* Every job ends, and then the records settle on what the radios do.
RecordsSettle == JobEnds /\ NodeIsFoundAgain

=============================================================================
