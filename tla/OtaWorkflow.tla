---------------------------- MODULE OtaWorkflow ----------------------------
(***************************************************************************)
(* The firmware update and the presets download: OTAWorkflowService with   *)
(* the parts of OTAService, HostWifiService and GatewayService it drives.  *)
(* For one node after the other the workflow opens the node's access point *)
(* over the radio, joins it with the host's Wi-Fi, asks over HTTP who is   *)
(* there, uploads, and waits until the node has rebooted, announced itself *)
(* and got its group back.  An access point is named by its node.  What    *)
(* the host's scan shows may be old: cache holds every access point that   *)
(* was ever on the air.                                                    *)
(***************************************************************************)
EXTENDS Naturals, Sequences, FiniteSets, Functions

CONSTANTS Nodes, None,
          Predictable, \* nodes whose BSSID is their MAC plus one
          Locked,      \* nodes with the OTA lock set
          Options,     \* requests: records with the fields of OptionType
          ApTries,     \* tries of AP-enable and AP-close of an update
          Retries,     \* tries of a firmware upload
          MaxFaults    \* bound on what happens outside the workflow

OptionType == [kind : {"update", "download"}, macs : Seq(Nodes), ops : SUBSET {"file", "fw"},
               stop : BOOLEAN, enable : BOOLEAN, restore : BOOLEAN, bssid : Nodes \cup {None}]

ASSUME OtaAssumption ==
  /\ None \notin Nodes /\ Predictable \subseteq Nodes /\ Locked \subseteq Nodes
  /\ ApTries \in Nat \ {0} /\ Retries \in Nat \ {0} /\ MaxFaults \in Nat
  /\ \A o \in Options : /\ o \in OptionType /\ Len(o.macs) > 0
                        /\ o.kind = "download" => Len(o.macs) = 1 /\ o.ops = {}

VARIABLES pc,      \* where the workflow is
          opt,     \* the request it serves
          idx,     \* position in opt.macs
          tries,   \* of the current radio command or upload
          opened,  \* ap_opened
          seen,    \* initial_bssids of connect_ap
          again,   \* connect_ap was repeated after the radio was switched on
          radio,   \* the host's Wi-Fi radio is on
          link,    \* the access point the host is connected to
          wasOn,   \* host_wifi_initial
          enabled, \* results["hostWifi"]["enabled"]
          avoid,   \* last_connected_bssid
          rep,     \* per node: its part of the result
          ok,      \* results["ok"]
          cancel,  \* the task's cancel event
          ap,      \* nodes whose access point is on the air
          cache,   \* access points a scan may show
          locked,  \* nodes whose OTA lock is on
          boot,    \* flashed nodes about to reboot
          cold,    \* nodes that came up and have not announced themselves
          written, \* per node: what was written to it
          saved,   \* the node whose presets were saved on the host
          heard,   \* nodes whose identify event is set
          since,   \* nodes heard since their turn began
          job,     \* per node: its auto-restore job
          radio0,  \* the radio before the task
          radioFault, \* nmcli failed to read or restore the radio, or someone switched it
          faults

workVars == <<opt, idx, tries, opened, seen, again>>
wifiVars == <<radio, link, wasOn, enabled, avoid>>
nodeVars == <<ap, cache, locked, boot, cold, written, saved>>
idVars == <<heard, since, job>>
resVars == <<rep, ok>>
ghostVars == <<radio0, radioFault>>
vars == <<pc, workVars, wifiVars, nodeVars, idVars, resVars, ghostVars, cancel, faults>>

Fresh == [st |-> "queued", acked |-> FALSE, close |-> "no"]

Init ==
  /\ pc = "idle" /\ opt = None /\ idx = 0 /\ tries = 0 /\ opened = FALSE /\ seen = {} /\ again = FALSE
  /\ radio \in BOOLEAN /\ link = None /\ wasOn = FALSE /\ enabled = FALSE /\ avoid = None
  /\ rep = [n \in Nodes |-> Fresh] /\ ok = TRUE /\ cancel = FALSE
  /\ ap = {} /\ cache = {} /\ locked = Locked /\ boot = {} /\ cold = {}
  /\ written = [n \in Nodes |-> {}] /\ saved = None
  /\ heard = Nodes /\ since = {} /\ job = [n \in Nodes |-> "none"]
  /\ radio0 = radio /\ radioFault = FALSE /\ faults = 0

-----------------------------------------------------------------------------
Update == opt.kind = "update"
Cur == opt.macs[idx]
Tries == IF Update THEN ApTries ELSE 1
\* after a device: an error is raised again for a download or with stop_on_error
Onward == IF ~Update \/ opt.stop THEN "finish" ELSE "next"

\* a failing step of the current device: the result is noted, and an access point
\* that was opened is closed first
Fail ==
  /\ pc' = IF opened /\ Update THEN "close" ELSE Onward
  /\ rep' = [rep EXCEPT ![Cur].st = "error"]
  /\ ok' = (ok /\ Onward = "next") /\ tries' = 0

\* The routes start the task; radio_enabled() answers no when nmcli fails.
Start(o) ==
  /\ pc = "idle" /\ pc' = "wifi" /\ opt' = o
  /\ \E fails \in BOOLEAN : wasOn' = (radio /\ ~fails) /\ radioFault' = (radio /\ fails)
  /\ enabled' = wasOn' /\ radio0' = radio
  /\ UNCHANGED <<idx, tries, opened, seen, again, radio, link, avoid, nodeVars, idVars, resVars, cancel, faults>>

\* request_cancel of the task
Cancel ==
  /\ pc \notin {"idle", "ended"} /\ ~cancel /\ cancel' = TRUE
  /\ UNCHANGED <<pc, workVars, wifiVars, nodeVars, idVars, resVars, ghostVars, faults>>

\* _ensure_wifi_ready: the radio is switched on when it was off and the request
\* allows it; the interface may fail to come up.  A download looks at cancel first.
EnsureWifi ==
  /\ pc = "wifi"
  /\ \E on, ready \in BOOLEAN :
       LET asked == opt.enable /\ ~wasOn /\ (Update \/ ~cancel)
           good == ~asked \/ (on /\ ready)
       IN  /\ radio' = (radio \/ (asked /\ on))
           /\ pc' = IF good /\ (Update \/ ~cancel) THEN "next" ELSE "finish"
           /\ ok' = (ok /\ good) /\ enabled' = (enabled \/ (asked /\ good))
  /\ UNCHANGED <<workVars, link, wasOn, avoid, nodeVars, idVars, rep, ghostVars, cancel, faults>>

\* Mutant of NextDevice: the identify event of the node is not cleared.
NextDeviceUncleared ==
  /\ pc = "next"
  /\ IF idx = Len(opt.macs) \/ (Update /\ cancel)
     THEN pc' = "finish" /\ UNCHANGED <<workVars, rep, since>>
     ELSE LET n == opt.macs[idx + 1] IN
          /\ pc' = "ap" /\ idx' = idx + 1 /\ tries' = 0 /\ opened' = FALSE /\ again' = FALSE
          /\ rep' = [rep EXCEPT ![n].st = "running"] /\ since' = since \ {n}
          /\ UNCHANGED <<opt, seen>>
  /\ UNCHANGED <<wifiVars, nodeVars, heard, job, ok, ghostVars, cancel, faults>>

\* the loop over the devices: cancel is looked at here and nowhere else in an
\* update; clear_identify of the node whose turn it is
NextDevice ==
  /\ pc = "next"
  /\ IF idx = Len(opt.macs) \/ (Update /\ cancel)
     THEN pc' = "finish" /\ UNCHANGED <<workVars, rep, heard, since>>
     ELSE LET n == opt.macs[idx + 1] IN
          /\ pc' = "ap" /\ idx' = idx + 1 /\ tries' = 0 /\ opened' = FALSE /\ again' = FALSE
          /\ rep' = [rep EXCEPT ![n].st = "running"]
          /\ heard' = (IF Update THEN heard \ {n} ELSE heard) /\ since' = since \ {n}
          /\ UNCHANGED <<opt, seen>>
  /\ UNCHANGED <<wifiVars, nodeVars, job, ok, ghostVars, cancel, faults>>

\* Mutant of ApEnable: only a joined access point counts as opened.
ApEnableForgotten(reached, acked) ==
  /\ pc = "ap" /\ (acked => reached) /\ tries' = tries + 1
  /\ ap' = (IF reached THEN ap \cup {Cur} ELSE ap) /\ cache' = cache \cup ap'
  /\ rep' = [rep EXCEPT ![Cur].acked = acked]
  /\ pc' = IF acked THEN "connect" ELSE IF tries' = Tries THEN "failed" ELSE "ap"
  /\ UNCHANGED <<opened, opt, idx, seen, again, wifiVars, locked, boot, cold, written, saved, idVars, ok, ghostVars, cancel, faults>>

\* AP-enable over the radio (CONFIG 0x04, 1): the command may be lost, or its ACK
ApEnable(reached, acked) ==
  /\ pc = "ap" /\ (acked => reached) /\ tries' = tries + 1
  /\ ap' = (IF reached THEN ap \cup {Cur} ELSE ap) /\ cache' = cache \cup ap'
  /\ opened' = acked /\ rep' = [rep EXCEPT ![Cur].acked = acked]
  /\ pc' = IF acked THEN "connect" ELSE IF tries' = Tries THEN "failed" ELSE "ap"
  /\ UNCHANGED <<opt, idx, seen, again, wifiVars, locked, boot, cold, written, saved, idVars, ok, ghostVars, cancel, faults>>

\* Mutant of StepFails: the wait for the node's answer has no deadline.
StepFailsNotHttp ==
  /\ pc \in {"failed", "connect", "scan", "file", "fetch"}
  /\ Fail
  /\ UNCHANGED <<opt, idx, opened, seen, again, wifiVars, nodeVars, idVars, ghostVars, cancel, faults>>

\* AP-enable was not acknowledged, the host did not get on the access point,
\* nobody with the expected MAC answered, or an upload was given up
StepFails ==
  /\ pc \in {"failed", "connect", "scan", "http", "file", "fetch"}
  /\ Fail
  /\ UNCHANGED <<opt, idx, opened, seen, again, wifiVars, nodeVars, idVars, ghostVars, cancel, faults>>

\* connect_ap: leaves a candidate SSID it may still be on and lists what is there
ConnectBegins ==
  /\ pc = "connect" /\ radio
  /\ pc' = "scan" /\ link' = None /\ seen' \in {cache, cache \cap ap}
  /\ UNCHANGED <<opt, idx, tries, opened, again, radio, wasOn, enabled, avoid, nodeVars, idVars, resVars, ghostVars, cancel, faults>>

\* the BSSID of the request, else the one predicted from the MAC
Hint == IF opt.bssid # None THEN {opt.bssid} ELSE {Cur} \cap Predictable

\* which access point of a scan is joined: the hinted one, else the only one that
\* is new and not the one of the device before
Choice(scan) ==
  LET new == scan \ ({avoid} \cup seen) IN
  IF Hint \cap scan # {} THEN Hint
  ELSE IF Update /\ avoid # None /\ Cardinality(new) = 1 THEN new ELSE {}

\* the host joins an access point that is on the air; active_bssid may not tell
\* which.  A download looks at cancel again.
Connect(scan, c) ==
  /\ pc = "scan" /\ radio /\ c \in Choice(scan) /\ c \in ap
  /\ link' = c /\ avoid' \in {avoid, c}
  /\ pc' = IF ~Update /\ cancel THEN "finish" ELSE "http"
  /\ UNCHANGED <<workVars, radio, wasOn, enabled, nodeVars, idVars, resVars, ghostVars, cancel, faults>>

\* the radio was switched off: it is switched on once, unless the task did before
ConnectSwitchesOn ==
  /\ pc = "scan" /\ ~radio /\ opt.enable /\ ~again /\ ~(enabled /\ ~wasOn)
  /\ radio' = TRUE /\ enabled' = TRUE /\ again' = TRUE
  /\ \E ready \in BOOLEAN : pc' = IF ready THEN "connect" ELSE "failed"
  /\ UNCHANGED <<opt, idx, tries, opened, seen, link, wasOn, avoid, nodeVars, idVars, resVars, ghostVars, cancel, faults>>

-----------------------------------------------------------------------------
\* Uploads.

\* Mutant of Expected: whoever answers is the node.
ExpectedAnyone == link # None

\* /json/info shows the MAC of the node whose turn it is
Expected == link = Cur

AfterInfo == IF ~Update THEN "fetch" ELSE IF "file" \in opt.ops THEN "file" ELSE "fw"

\* wait_for_expected_node
Info ==
  /\ pc = "http" /\ Expected
  /\ pc' = AfterInfo /\ tries' = 0
  /\ UNCHANGED <<opt, idx, opened, seen, again, wifiVars, nodeVars, idVars, resVars, ghostVars, cancel, faults>>

\* presets.json and cfg.json; a file may arrive without its answer
UploadFile(answered) ==
  /\ pc = "file" /\ link # None
  /\ written' = [written EXCEPT ![link] = @ \cup {"file"}]
  /\ pc' = IF ~answered THEN "failed" ELSE IF "fw" \in opt.ops THEN "fw" ELSE "done"
  /\ UNCHANGED <<workVars, wifiVars, ap, cache, locked, boot, cold, saved, idVars, resVars, ghostVars, cancel, faults>>

\* a try of wled_upload_firmware is over: the last one, or an HTTP 500 or 503, is
\* the end of it
Retry(bail) == IF bail \/ tries' = Retries THEN "failed" ELSE "fw"

\* wled_upload_firmware: a locked node answers 401 and is unlocked first, which may
\* fail; the flash may succeed and its answer get lost
UploadFw(out) ==
  /\ pc = "fw" /\ tries' = tries + 1
  /\ locked' \in {locked, locked \ {link}}
  /\ out \in {"ok", "lost"} => link # None /\ link \notin locked'
  /\ IF out \in {"ok", "lost"}
     THEN written' = [written EXCEPT ![link] = @ \cup {"fw"}] /\ boot' = boot \cup {link}
     ELSE UNCHANGED <<written, boot>>
  /\ pc' = IF out = "ok" THEN "done" ELSE Retry(out = "bail")
  /\ UNCHANGED <<opt, idx, opened, seen, again, wifiVars, ap, cache, cold, saved, idVars, resVars, ghostVars, cancel, faults>>

\* download_presets: the presets are fetched and saved on the host
Fetch ==
  /\ pc = "fetch" /\ link # None
  /\ saved' = link /\ pc' = "close" /\ tries' = 0 /\ rep' = [rep EXCEPT ![Cur].st = "ok"]
  /\ UNCHANGED <<opt, idx, opened, seen, again, wifiVars, ap, cache, locked, boot, cold, written, idVars, ok, ghostVars, cancel, faults>>

-----------------------------------------------------------------------------
\* The end of a device and of the task.

\* dev_res["ok"]; the host leaves the access point without waiting
DeviceDone ==
  /\ pc = "done" /\ pc' = "reannounce"
  /\ rep' = [rep EXCEPT ![Cur].st = "ok"] /\ link' \in {None, link}
  /\ UNCHANGED <<workVars, radio, wasOn, enabled, avoid, nodeVars, idVars, ok, ghostVars, cancel, faults>>

\* wait_for_identify
Reannounced ==
  /\ pc = "reannounce" /\ Cur \in heard /\ pc' = "restore"
  /\ UNCHANGED <<workVars, wifiVars, nodeVars, idVars, resVars, ghostVars, cancel, faults>>

ReannounceTimesOut ==
  /\ pc = "reannounce" /\ Cur \notin heard /\ pc' = "next"
  /\ rep' = [rep EXCEPT ![Cur].st = "reannounce_timeout"]
  /\ UNCHANGED <<workVars, wifiVars, nodeVars, idVars, ok, ghostVars, cancel, faults>>

\* wait_for_auto_restore: over when no job of the node is registered, or after 8 s
AutoRestored(timedOut) ==
  /\ pc = "restore" /\ (job[Cur] = "running") = timedOut /\ pc' = "next"
  /\ UNCHANGED <<workVars, wifiVars, nodeVars, idVars, resVars, ghostVars, cancel, faults>>

\* AP-close over the radio (CONFIG 0x04, 0)
ApClose(reached, acked) ==
  /\ pc = "close" /\ (acked => reached) /\ tries' = tries + 1
  /\ ap' = (IF reached THEN ap \ {Cur} ELSE ap)
  /\ link' = (IF reached /\ link = Cur THEN None ELSE link)
  /\ rep' = [rep EXCEPT ![Cur].close = IF acked THEN "ok" ELSE "silent"]
  /\ pc' = IF acked \/ tries' = Tries THEN Onward ELSE "close"
  /\ UNCHANGED <<opt, idx, opened, seen, again, radio, wasOn, enabled, avoid, cache, locked, boot, cold, written, saved, idVars, ok, ghostVars, cancel, faults>>

\* _restore_host_wifi: only a radio that was off before is switched off again; nmcli
\* may fail to switch it (noted) or to read it (not noted)
RestoreHostWifi(fails) ==
  /\ pc = "finish" /\ pc' = "ended"
  /\ LET due == opt.restore /\ ~wasOn /\ radio IN
     \/ ~due /\ UNCHANGED <<radio, link, ok, radioFault>>
     \/ due /\ ~fails /\ radio' = FALSE /\ link' = None /\ UNCHANGED <<ok, radioFault>>
     \/ due /\ fails /\ ok' \in {FALSE, ok} /\ radioFault' = TRUE /\ UNCHANGED <<radio, link>>
  /\ UNCHANGED <<workVars, wasOn, enabled, avoid, nodeVars, idVars, rep, radio0, cancel, faults>>

-----------------------------------------------------------------------------
\* Outside the workflow.

Up(n) ==
  /\ ap' = ap \ {n} /\ cold' = cold \cup {n} /\ link' = IF link = n THEN None ELSE link

\* a flashed node reboots
Reboot(n) ==
  /\ n \in boot /\ boot' = boot \ {n} /\ Up(n)
  /\ UNCHANGED <<pc, workVars, radio, wasOn, enabled, avoid, cache, locked, written, saved, idVars, resVars, ghostVars, cancel, faults>>

\* someone power-cycles a node
PowerCycle(n) ==
  /\ pc # "idle" /\ faults < MaxFaults /\ faults' = faults + 1 /\ boot' = boot \ {n} /\ Up(n)
  /\ UNCHANGED <<pc, workVars, radio, wasOn, enabled, avoid, cache, locked, written, saved, idVars, resVars, ghostVars, cancel>>

\* the IDENTIFY of a node that came up is handled: the event is set; an auto-restore
\* follows unless one was made a moment ago.  Or the frame is lost.
Announce(n, arrives) ==
  /\ n \in cold /\ \A m \in Nodes : job[m] # "due"
  /\ cold' = cold \ {n}
  /\ IF arrives
     THEN /\ heard' = heard \cup {n} /\ since' = since \cup {n}
          /\ job' \in {job, [job EXCEPT ![n] = IF @ = "none" THEN "due" ELSE @]}
     ELSE UNCHANGED idVars
  /\ UNCHANGED <<pc, workVars, wifiVars, ap, cache, locked, boot, written, saved, resVars, ghostVars, cancel, faults>>

\* the reader thread registers the auto-restore job after it set the event
SubmitRestore(n) ==
  /\ job[n] = "due" /\ job' = [job EXCEPT ![n] = "running"]
  /\ UNCHANGED <<pc, workVars, wifiVars, nodeVars, heard, since, resVars, ghostVars, cancel, faults>>

RestoreEnds(n) ==
  /\ job[n] = "running" /\ job' = [job EXCEPT ![n] = "none"]
  /\ UNCHANGED <<pc, workVars, wifiVars, nodeVars, heard, since, resVars, ghostVars, cancel, faults>>

\* a node that is not updated opens its access point
Bystander(n) ==
  /\ pc \notin {"idle", "ended"} /\ faults < MaxFaults /\ faults' = faults + 1
  /\ n \notin Range(opt.macs)
  /\ n \notin ap /\ ap' = ap \cup {n} /\ cache' = cache \cup {n}
  /\ UNCHANGED <<pc, workVars, wifiVars, locked, boot, cold, written, saved, idVars, resVars, ghostVars, cancel>>

\* the host loses the access point, or someone switches its radio off
LinkLost(off) ==
  /\ pc \notin {"idle", "ended"} /\ faults < MaxFaults /\ faults' = faults + 1
  /\ link' = None /\ radio' = (radio /\ ~off) /\ radioFault' = (radioFault \/ off) /\ (link # None \/ (off /\ radio))
  /\ UNCHANGED <<pc, workVars, wasOn, enabled, avoid, nodeVars, idVars, resVars, radio0, cancel>>

-----------------------------------------------------------------------------
Radio == \E r, a \in BOOLEAN : ApEnable(r, a) \/ ApClose(r, a)

Host ==
  \/ EnsureWifi \/ ConnectBegins \/ ConnectSwitchesOn
  \/ \E scan \in SUBSET cache, c \in Nodes : Connect(scan, c)
  \/ \E f \in BOOLEAN : RestoreHostWifi(f)

Http ==
  \/ Info \/ Fetch
  \/ \E a \in BOOLEAN : UploadFile(a)
  \/ \E out \in {"ok", "lost", "no", "bail"} : UploadFw(out)

Loop ==
  \/ NextDevice \/ StepFails \/ DeviceDone \/ Reannounced \/ ReannounceTimesOut
  \/ \E t \in BOOLEAN : AutoRestored(t)

Workflow == Radio \/ Host \/ Http \/ Loop

Outside ==
  \/ Cancel
  \/ \E n \in Nodes : Reboot(n) \/ PowerCycle(n) \/ SubmitRestore(n) \/ RestoreEnds(n) \/ Bystander(n)
  \/ \E n \in Nodes, a \in BOOLEAN : Announce(n, a)
  \/ \E off \in BOOLEAN : LinkLost(off)

Next == (\E o \in Options : Start(o)) \/ Workflow \/ Outside

\* Every call of the workflow returns: the radio command, nmcli, HTTP and the two
\* waits all have timeouts.
Fairness == WF_vars(Workflow)

Spec == Init /\ [][Next]_vars
FairSpec == Spec /\ Fairness

-----------------------------------------------------------------------------
\* Every variable holds what its declaration says.
TypeOK ==
  /\ pc \in {"idle", "wifi", "next", "ap", "failed", "connect", "scan", "http", "file", "fetch", "fw",
             "done", "reannounce", "restore", "close", "finish", "ended"}
  /\ opt \in Options \cup {None}
  /\ pc \notin {"idle", "wifi", "next", "finish", "ended"} => idx \in 1 .. Len(opt.macs)
  /\ tries \in 0 .. ApTries + Retries /\ link \in Nodes \cup {None} /\ avoid \in Nodes \cup {None}
  /\ rep \in [Nodes -> [st : {"queued", "running", "ok", "error", "reannounce_timeout"},
                        acked : BOOLEAN, close : {"no", "ok", "silent"}]]
  /\ ap \subseteq cache /\ (link # None => radio /\ link \in ap)
  /\ job \in [Nodes -> {"none", "due", "running"}] /\ since \subseteq heard

\* Nothing is ever written to a node but the one whose turn it is, and presets are
\* saved from no other, whichever access point the host ended up on: a stale scan,
\* a wrong BSSID in the request and a stranger's access point included.
RightNode ==
  [][\A n \in Nodes : written'[n] # written[n] \/ (saved' # saved /\ saved' = n)
       => pc \in {"file", "fw", "fetch"} /\ n = Cur]_vars

\* A device reported ok has everything that was asked for.
OkMeansWritten ==
  pc # "idle" => \A n \in Nodes : rep[n].st \in {"ok", "reannounce_timeout"} =>
                   opt.ops \subseteq written[n]

\* After an update a node's access point is on the air only where no ACK told the
\* workflow that it had opened it, where AP-close went unanswered twice, where no
\* firmware was flashed, or where the reboot is still to come.
NoApLeftBehind ==
  pc = "ended" /\ Update => \A n \in ap \cap Range(opt.macs) :
    \/ ~rep[n].acked \/ rep[n].close = "silent" \/ n \in boot
    \/ rep[n].st # "error" /\ "fw" \notin opt.ops

\* When the task is over, however it ended, the host's radio is as it was, if the
\* request asks for it; unless nmcli failed to read or to switch the radio, or
\* someone else switched it.
WifiRestored ==
  pc = "ended" /\ opt.restore /\ ~radioFault => radio = radio0

\* The wait for the reboot is ended only by an IDENTIFY that was handled after the
\* node's turn began, never by one from earlier in the session.
ReannounceIsFresh == pc = "restore" => Cur \in since

\* One device's failure does not cost the others their turn: an update that began
\* with its devices, was not cancelled and does not stop on errors tries them all.
EveryDeviceTried ==
  pc = "ended" /\ Update /\ idx > 0 /\ ~cancel /\ ~opt.stop =>
    \A n \in Range(opt.macs) : rep[n].st \notin {"queued", "running"}

\* A task that was started ends.
TaskEnds == pc = "wifi" ~> pc = "ended"

\* What wait_for_auto_restore is for: the access point of the next device is not
\* opened while the SET_GROUP of the device before is on the radio (unless the wait
\* timed out).
RestoreBeforeNextAp ==
  [][pc = "restore" /\ pc' = "next" => job[Cur] # "due"]_vars

\* The report of an update is true: ok means written, the reboot was seen in this
\* turn, and no device was passed over.
ReportIsTrue == OkMeansWritten /\ ReannounceIsFresh /\ EveryDeviceTried

\* The workflow cleans up after itself: access points closed, radio restored.
CleansUp == NoApLeftBehind /\ WifiRestored

=============================================================================
