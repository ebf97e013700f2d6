------------------------- MODULE OtaWorkflowProofs -------------------------
(***************************************************************************)
(* Proofs about OtaWorkflow for any number of nodes, requests, tries and   *)
(* faults.                                                                 *)
(*                                                                         *)
(* RightNode rests on LinkInv: while the host writes or fetches, it is on  *)
(* the current node's access point or on none.  ReportIsTrue needs to know *)
(* what was written when (WrittenInv), that an identify event of the       *)
(* current node is one of this turn (FreshInv) and that the devices before *)
(* the current one are through (TriedInv).  CleansUp needs that an access  *)
(* point that may stay on the air is explained as soon as its node's turn  *)
(* is over (ApInv) and what the task knows of the radio (RadioInv).        *)
(***************************************************************************)
EXTENDS OtaWorkflow, TLAPS

Places == {"idle", "wifi", "next", "ap", "failed", "connect", "scan", "http", "file", "fetch", "fw",
           "done", "reannounce", "restore", "close", "finish", "ended"}
Reports == [st : {"queued", "running", "ok", "error", "reannounce_timeout"},
            acked : BOOLEAN, close : {"no", "ok", "silent"}]

\* It is some node's turn.
Turn == pc \notin {"idle", "wifi", "next", "finish", "ended"}

Types ==
  /\ pc \in Places /\ (pc # "idle" => opt \in Options) /\ (pc = "idle" => opt = None)
  /\ link \in Nodes \cup {None} /\ avoid \in Nodes \cup {None} /\ opened \in BOOLEAN
  /\ rep \in [Nodes -> Reports] /\ written \in [Nodes -> SUBSET {"file", "fw"}]
  /\ cache \in SUBSET Nodes /\ ap \in SUBSET cache /\ boot \in SUBSET Nodes
  /\ heard \in SUBSET Nodes /\ since \in SUBSET heard
  /\ job \in [Nodes -> {"none", "due", "running"}]
  /\ {radio, wasOn, radio0, radioFault, cancel, enabled} \subseteq BOOLEAN

\* Where in the list of devices the workflow is.
IdxInv ==
  /\ idx \in Nat
  /\ pc \in {"idle", "wifi"} => idx = 0
  /\ pc # "idle" => idx <= Len(opt.macs)
  /\ Turn => idx > 0

\* Tries are counted within their limits.
TriesInv ==
  /\ tries \in 0 .. ApTries + Retries
  /\ pc \in {"ap", "close"} => tries < Tries
  /\ pc = "file" => tries = 0
  /\ pc = "fw" => tries < Retries

\* Which steps belong to which kind of request.
KindInv ==
  /\ pc = "fetch" => ~Update
  /\ pc \in {"file", "fw", "done", "reannounce", "restore"} => Update

\* The host is on an access point that is on the air, and writes to, or fetches
\* from, the current node alone.
LinkInv ==
  /\ link # None => radio /\ link \in ap
  /\ pc \in {"file", "fw", "fetch"} => link \in {None, Cur}

\* What the report of the current device says meanwhile.
RepInv ==
  /\ pc \in {"idle", "wifi"} => \A n \in Nodes : rep[n].st = "queued"
  /\ pc \in {"ap", "failed", "connect", "scan", "http", "file", "fw", "fetch", "done"} =>
       rep[Cur].st = "running"
  /\ pc \in {"reannounce", "restore"} => rep[Cur].st = "ok"
  /\ pc = "close" => rep[Cur].st \in {"ok", "error"}

WrittenInv ==
  /\ OkMeansWritten
  /\ pc = "fw" => opt.ops \ {"fw"} \subseteq written[Cur]
  /\ pc \in {"done", "reannounce", "restore"} => opt.ops \subseteq written[Cur]

FreshInv ==
  /\ Turn /\ Update /\ Cur \in heard => Cur \in since
  /\ pc = "restore" => Cur \in since

Settled(n) == rep[n].st \notin {"queued", "running"}
TriedInv ==
  pc # "idle" /\ Update /\ ~opt.stop =>
    /\ Turn => \A j \in 1 .. idx - 1 : opt.macs[j] = Cur \/ Settled(opt.macs[j])
    /\ pc = "next" => \A j \in 1 .. idx : Settled(opt.macs[j])
    /\ pc \in {"finish", "ended"} /\ ~cancel /\ idx > 0 =>
         idx = Len(opt.macs) /\ \A j \in 1 .. idx : Settled(opt.macs[j])

\* Why the access point of n may be on the air once its turn is over.
Explained(n) ==
  \/ ~rep[n].acked \/ rep[n].close = "silent" \/ n \in boot
  \/ rep[n].st # "error" /\ "fw" \notin opt.ops
ApInv ==
  /\ pc = "idle" => ap = {}
  /\ pc # "idle" /\ Update =>
       /\ \A n \in ap \cap Range(opt.macs) :
            (Turn /\ pc # "ap" /\ n = Cur) \/ Explained(n)
       /\ Turn /\ pc # "ap" => (opened <=> rep[Cur].acked)
       /\ pc \in {"done", "reannounce", "restore"} /\ "fw" \in opt.ops /\ Cur \in ap => Cur \in boot

RadioInv ==
  pc # "idle" /\ ~radioFault =>
    /\ wasOn = radio0
    /\ pc # "ended" /\ radio0 => radio
    /\ pc = "ended" /\ opt.restore => radio = radio0

IInv ==
  /\ Types /\ IdxInv /\ TriesInv /\ KindInv /\ LinkInv /\ RepInv /\ WrittenInv /\ FreshInv
  /\ TriedInv /\ ApInv /\ RadioInv

----------------------------------------------------------------------------
(* Reports and the current device                                          *)

LEMMA OptTypes ==
    ASSUME NEW o \in Options
    PROVE  /\ o.macs \in Seq(Nodes) /\ Len(o.macs) \in Nat \ {0} /\ o.ops \subseteq {"file", "fw"}
           /\ o.kind \in {"update", "download"}
           /\ o.kind = "download" => Len(o.macs) = 1 /\ o.ops = {}
           /\ {o.stop, o.enable, o.restore} \subseteq BOOLEAN
BY OtaAssumption DEF OptionType

\* The node whose turn it is is one of the request.
LEMMA CurTypes ==
    ASSUME Types, IdxInv, Turn
    PROVE  /\ opt \in Options /\ idx \in 1 .. Len(opt.macs) /\ Cur \in Nodes
           /\ Cur \in Range(opt.macs) /\ Tries \in Nat \ {0} /\ Tries <= ApTries
<1>1. opt \in Options
  BY DEF Types, Turn
<1>2. idx \in 1 .. Len(opt.macs) /\ opt.macs \in Seq(Nodes)
  BY <1>1, OptTypes DEF Turn, IdxInv
<1>3. Cur \in Nodes /\ Cur \in Range(opt.macs)
  BY <1>2 DEF Cur, Range
<1> QED
  BY <1>1, <1>2, <1>3, OtaAssumption DEF Tries

\* A change of one field of a report leaves the other fields and reports alone.
LEMMA RepSt ==
    ASSUME rep \in [Nodes -> Reports], NEW n \in Nodes,
           NEW v \in {"queued", "running", "ok", "error", "reannounce_timeout"},
           rep' = [rep EXCEPT ![n].st = v]
    PROVE  /\ rep' \in [Nodes -> Reports] /\ \A m \in Nodes \ {n} : rep'[m] = rep[m]
           /\ rep'[n].st = v /\ rep'[n].acked = rep[n].acked /\ rep'[n].close = rep[n].close
<1>1. rep[n] \in Reports
  OBVIOUS
<1> DEFINE new == [rep[n] EXCEPT !.st = v]
<1>2. new \in Reports /\ new.st = v /\ new.acked = rep[n].acked /\ new.close = rep[n].close
  BY <1>1 DEF Reports
<1>3. rep' = [rep EXCEPT ![n] = new]
  OBVIOUS
<1> QED
  BY <1>2, <1>3

LEMMA RepAcked ==
    ASSUME rep \in [Nodes -> Reports], NEW n \in Nodes, NEW v \in BOOLEAN,
           rep' = [rep EXCEPT ![n].acked = v]
    PROVE  /\ rep' \in [Nodes -> Reports] /\ \A m \in Nodes \ {n} : rep'[m] = rep[m]
           /\ rep'[n].st = rep[n].st /\ rep'[n].acked = v /\ rep'[n].close = rep[n].close
<1>1. rep[n] \in Reports
  OBVIOUS
<1> DEFINE new == [rep[n] EXCEPT !.acked = v]
<1>2. new \in Reports /\ new.st = rep[n].st /\ new.acked = v /\ new.close = rep[n].close
  BY <1>1 DEF Reports
<1>3. rep' = [rep EXCEPT ![n] = new]
  OBVIOUS
<1> QED
  BY <1>2, <1>3

LEMMA RepClose ==
    ASSUME rep \in [Nodes -> Reports], NEW n \in Nodes, NEW v \in {"no", "ok", "silent"},
           rep' = [rep EXCEPT ![n].close = v]
    PROVE  /\ rep' \in [Nodes -> Reports] /\ \A m \in Nodes \ {n} : rep'[m] = rep[m]
           /\ rep'[n].st = rep[n].st /\ rep'[n].acked = rep[n].acked /\ rep'[n].close = v
<1>1. rep[n] \in Reports
  OBVIOUS
<1> DEFINE new == [rep[n] EXCEPT !.close = v]
<1>2. new \in Reports /\ new.st = rep[n].st /\ new.acked = rep[n].acked /\ new.close = v
  BY <1>1 DEF Reports
<1>3. rep' = [rep EXCEPT ![n] = new]
  OBVIOUS
<1> QED
  BY <1>2, <1>3

----------------------------------------------------------------------------
(* Steps                                                                   *)


\* The loop ends, or the next device has its turn and is reported as running.
LEMMA NextDeviceMoves ==
    ASSUME IInv, NextDevice
    PROVE  /\ pc = "next"
           /\ pc' = "finish" =>
                /\ UNCHANGED <<workVars, rep, idVars>>
                /\ idx = Len(opt.macs) \/ (Update /\ cancel)
           /\ pc' # "finish" =>
                /\ pc' = "ap" /\ idx' = idx + 1 /\ opt' = opt /\ Cur' = opt.macs[idx + 1]
                /\ Cur' \in Nodes /\ idx + 1 \in 1 .. Len(opt.macs) /\ rep' \in [Nodes -> Reports]
                /\ \A m \in Nodes \ {Cur'} : rep'[m] = rep[m]
                /\ rep'[Cur'].st = "running" /\ rep'[Cur'].acked = rep[Cur'].acked
                /\ rep'[Cur'].close = rep[Cur'].close
           /\ UNCHANGED <<wifiVars, nodeVars, job, ghostVars, cancel>>
<1>1. pc = "next" /\ UNCHANGED <<wifiVars, nodeVars, job, ghostVars, cancel>>
  BY DEF NextDevice
<1>2. CASE idx = Len(opt.macs) \/ (Update /\ cancel)
  BY <1>1, <1>2 DEF NextDevice, idVars
<1>3. CASE ~(idx = Len(opt.macs) \/ (Update /\ cancel))
  <2>1. idx + 1 \in 1 .. Len(opt.macs) /\ opt.macs[idx + 1] \in Nodes
    BY <1>3, OptTypes DEF NextDevice, IInv, Types, IdxInv
  <2>2. /\ pc' = "ap" /\ idx' = idx + 1 /\ opt' = opt
        /\ rep' = [rep EXCEPT ![opt.macs[idx + 1]].st = "running"]
    BY <1>3 DEF NextDevice
  <2>3. Cur' = opt.macs[idx + 1]
    BY <2>2 DEF Cur
  <2> DEFINE n == opt.macs[idx + 1]
  <2>4. n \in Nodes /\ rep' = [rep EXCEPT ![n].st = "running"] /\ rep \in [Nodes -> Reports]
    BY <2>1, <2>2 DEF IInv, Types
  <2>5. Cur' = n
    BY <2>3
  <2> HIDE DEF n
  <2>6. /\ rep' \in [Nodes -> Reports] /\ \A m \in Nodes \ {n} : rep'[m] = rep[m]
        /\ rep'[n].st = "running" /\ rep'[n].acked = rep[n].acked
        /\ rep'[n].close = rep[n].close
    BY <2>4, RepSt
  <2> QED
    BY <1>1, <2>1, <2>2, <2>3, <2>5, <2>6
<1> QED
  BY <1>2, <1>3

\* A step that fails, or the last step of a turn, sets the state of the report at hand
\* and writes nothing to a node.
LEMMA StepFailsMoves ==
    ASSUME IInv, StepFails
    PROVE  /\ pc' \in {"close", "finish", "next"} /\ Cur \in Nodes
           /\ opt' = opt /\ idx' = idx /\ Cur' = Cur /\ written' = written
           /\ rep' \in [Nodes -> Reports] /\ \A m \in Nodes \ {Cur} : rep'[m] = rep[m]
           /\ rep'[Cur].st = "error"
<1>1. Types /\ IdxInv /\ Turn
  BY DEF IInv, StepFails, Turn
<1>2. Cur \in Nodes
  BY <1>1, CurTypes
<1>3. opt' = opt /\ idx' = idx /\ written' = written /\ pc' \in {"close", "finish", "next"}
  BY DEF StepFails, Fail, Onward, nodeVars
<1>4. Cur' = Cur
  BY <1>3 DEF Cur
<1>5. rep \in [Nodes -> Reports] /\ rep' = [rep EXCEPT ![Cur].st = "error"]
  BY <1>1 DEF StepFails, Fail, Types
<1> HIDE DEF Cur
<1>6. /\ rep' \in [Nodes -> Reports] /\ \A m \in Nodes \ {Cur} : rep'[m] = rep[m]
      /\ rep'[Cur].st = "error"
  BY <1>2, <1>5, RepSt
<1> QED BY <1>2, <1>3, <1>4, <1>6

LEMMA DeviceDoneMoves ==
    ASSUME IInv, DeviceDone
    PROVE  /\ pc = "done" /\ pc' = "reannounce" /\ Cur \in Nodes
           /\ opt' = opt /\ idx' = idx /\ Cur' = Cur /\ written' = written
           /\ rep' \in [Nodes -> Reports] /\ \A m \in Nodes \ {Cur} : rep'[m] = rep[m]
           /\ rep'[Cur].st = "ok"
<1>1. Types /\ IdxInv /\ Turn
  BY DEF IInv, DeviceDone, Turn
<1>2. Cur \in Nodes
  BY <1>1, CurTypes
<1>3. opt' = opt /\ idx' = idx /\ written' = written /\ pc = "done" /\ pc' = "reannounce"
  BY DEF DeviceDone, workVars, nodeVars
<1>4. Cur' = Cur
  BY <1>3 DEF Cur
<1>5. rep \in [Nodes -> Reports] /\ rep' = [rep EXCEPT ![Cur].st = "ok"]
  BY <1>1 DEF DeviceDone, Types
<1> HIDE DEF Cur
<1>6. /\ rep' \in [Nodes -> Reports] /\ \A m \in Nodes \ {Cur} : rep'[m] = rep[m]
      /\ rep'[Cur].st = "ok"
  BY <1>2, <1>5, RepSt
<1> QED BY <1>2, <1>3, <1>4, <1>6

\* Every step keeps the types.
LEMMA NextTypes == ASSUME IInv, Next PROVE Types'
<1> USE DEF IInv
<1>1. ASSUME NEW o \in Options, Start(o) PROVE Types'
  BY <1>1
  DEF Start, Types, Turn, Places, nodeVars, idVars, resVars
<1>2. CASE Cancel
  BY <1>2
  DEF Cancel, Types, Turn, Places, workVars, wifiVars, nodeVars, idVars, resVars, ghostVars
<1>3. CASE EnsureWifi
  BY <1>3
  DEF EnsureWifi, Types, Turn, Places, workVars, nodeVars, idVars, ghostVars
<1>4. CASE NextDevice
  <2>1. CASE pc' = "finish"
    BY <1>4, <2>1, NextDeviceMoves DEF Types, Places, workVars, wifiVars, nodeVars, idVars,
       ghostVars
  <2>2. CASE pc' = "ap"
    <3>1. heard' \in SUBSET Nodes /\ since' \in SUBSET heard'
      BY <1>4, <2>2 DEF NextDevice, Types
    <3> QED
      BY <1>4, <2>2, <3>1, NextDeviceMoves DEF NextDevice, Types, Places, wifiVars, nodeVars,
         ghostVars
  <2> QED
    BY <1>4, <2>1, <2>2 DEF NextDevice
<1>5. ASSUME NEW r \in BOOLEAN, NEW a \in BOOLEAN, ApEnable(r, a) PROVE Types'
  <2>1. Cur \in Nodes /\ rep' \in [Nodes -> Reports]
    BY <1>5, CurTypes, RepAcked DEF ApEnable, Types, Turn
  <2>2. pc' \in Places
    BY <1>5 DEF ApEnable, Places
  <2> QED
    BY <1>5, <2>1, <2>2 DEF ApEnable, Types, wifiVars, idVars, ghostVars
<1>6. CASE StepFails
  BY <1>6, CurTypes, RepSt
  DEF StepFails, Fail, Onward, Types, Turn, Places, wifiVars, nodeVars, idVars, ghostVars
<1>7. CASE ConnectBegins
  BY <1>7, CurTypes
  DEF ConnectBegins, Types, Turn, Places, nodeVars, idVars, resVars, ghostVars
<1>8. ASSUME NEW scan \in SUBSET cache, NEW c \in Nodes, Connect(scan, c) PROVE Types'
  BY <1>8, CurTypes
  DEF Connect, Types, Turn, Places, workVars, nodeVars, idVars, resVars, ghostVars
<1>9. CASE ConnectSwitchesOn
  BY <1>9, CurTypes
  DEF ConnectSwitchesOn, Types, Turn, Places, nodeVars, idVars, resVars, ghostVars
<1>10. CASE Info
  BY <1>10, CurTypes
  DEF Info, AfterInfo, Expected, Types, Turn, Places, wifiVars, nodeVars, idVars, resVars, ghostVars
<1>11. ASSUME NEW a \in BOOLEAN, UploadFile(a) PROVE Types'
  BY <1>11, CurTypes
  DEF UploadFile, Types, Turn, Places, workVars, wifiVars, idVars, resVars, ghostVars
<1>12. ASSUME NEW out \in {"ok", "lost", "no", "bail"}, UploadFw(out) PROVE Types'
  BY <1>12, CurTypes
  DEF UploadFw, Retry, Types, Turn, Places, wifiVars, idVars, resVars, ghostVars
<1>13. CASE Fetch
  BY <1>13, CurTypes, RepSt
  DEF Fetch, Types, Turn, Places, wifiVars, idVars, ghostVars
<1>14. CASE DeviceDone
  <2>1. Cur \in Nodes /\ rep' \in [Nodes -> Reports]
    BY <1>14, CurTypes, RepSt DEF DeviceDone, Types, Turn
  <2> QED
    BY <1>14, <2>1 DEF DeviceDone, Types, Places, workVars, nodeVars, idVars, ghostVars
<1>15. CASE Reannounced
  BY <1>15, CurTypes
  DEF Reannounced, Types, Turn, Places, workVars, wifiVars, nodeVars, idVars, resVars, ghostVars
<1>16. CASE ReannounceTimesOut
  BY <1>16, CurTypes, RepSt
  DEF ReannounceTimesOut, Types, Turn, Places, workVars, wifiVars, nodeVars, idVars, ghostVars
<1>17. ASSUME NEW t \in BOOLEAN, AutoRestored(t) PROVE Types'
  BY <1>17, CurTypes
  DEF AutoRestored, Types, Turn, Places, workVars, wifiVars, nodeVars, idVars, resVars, ghostVars
<1>18. ASSUME NEW r \in BOOLEAN, NEW a \in BOOLEAN, ApClose(r, a) PROVE Types'
  BY <1>18, CurTypes, RepClose
  DEF ApClose, Onward, Types, Turn, Places, idVars, ghostVars
<1>19. ASSUME NEW f \in BOOLEAN, RestoreHostWifi(f) PROVE Types'
  BY <1>19
  DEF RestoreHostWifi, Types, Turn, Places, workVars, nodeVars, idVars
<1>20. ASSUME NEW n \in Nodes, Reboot(n) PROVE Types'
  BY <1>20
  DEF Reboot, Up, Types, Turn, Places, workVars, idVars, resVars, ghostVars
<1>21. ASSUME NEW n \in Nodes, PowerCycle(n) PROVE Types'
  BY <1>21
  DEF PowerCycle, Up, Types, Turn, Places, workVars, idVars, resVars, ghostVars
<1>22. ASSUME NEW n \in Nodes, NEW a \in BOOLEAN, Announce(n, a) PROVE Types'
  BY <1>22
  DEF Announce, Types, Turn, Places, workVars, wifiVars, idVars, resVars, ghostVars
<1>23. ASSUME NEW n \in Nodes, SubmitRestore(n) PROVE Types'
  BY <1>23
  DEF SubmitRestore, Types, Turn, Places, workVars, wifiVars, nodeVars, resVars, ghostVars
<1>24. ASSUME NEW n \in Nodes, RestoreEnds(n) PROVE Types'
  BY <1>24
  DEF RestoreEnds, Types, Turn, Places, workVars, wifiVars, nodeVars, resVars, ghostVars
<1>25. ASSUME NEW n \in Nodes, Bystander(n) PROVE Types'
  BY <1>25
  DEF Bystander, Types, Turn, Places, workVars, wifiVars, idVars, resVars, ghostVars
<1>26. ASSUME NEW off \in BOOLEAN, LinkLost(off) PROVE Types'
  BY <1>26
  DEF LinkLost, Types, Turn, Places, workVars, nodeVars, idVars, resVars
<1> QED
  BY <1>1, <1>2, <1>3, <1>4, <1>5, <1>6, <1>7, <1>8, <1>9, <1>10, <1>11, <1>12, <1>13, <1>14, <1>15,
     <1>16, <1>17, <1>18, <1>19, <1>20, <1>21, <1>22, <1>23, <1>24, <1>25, <1>26
  DEF Next, Workflow, Radio, Host, Http, Loop, Outside

\* A turn begins within the list of devices and keeps its place.
LEMMA NextIdx == ASSUME IInv, Next PROVE IdxInv'
<1> USE DEF IInv
<1>1. ASSUME NEW o \in Options, Start(o) PROVE IdxInv'
  BY <1>1, OptTypes
  DEF Start, Types, IdxInv, Turn
<1>2. CASE EnsureWifi
  BY <1>2, OptTypes
  DEF EnsureWifi, Types, IdxInv, Turn, workVars
<1>3. CASE NextDevice
  BY <1>3, OptTypes
  DEF NextDevice, Types, IdxInv, Turn, workVars
<1>4. ASSUME NEW r \in BOOLEAN, NEW a \in BOOLEAN, ApEnable(r, a) PROVE IdxInv'
  BY <1>4, CurTypes, OptTypes
  DEF ApEnable, Types, IdxInv, Turn
<1>5. CASE StepFails
  BY <1>5, CurTypes, OptTypes
  DEF StepFails, Fail, Onward, Types, IdxInv, Turn
<1>6. CASE ConnectBegins
  BY <1>6, CurTypes, OptTypes
  DEF ConnectBegins, Types, IdxInv, Turn
<1>7. ASSUME NEW scan \in SUBSET cache, NEW c \in Nodes, Connect(scan, c) PROVE IdxInv'
  BY <1>7, CurTypes, OptTypes
  DEF Connect, Types, IdxInv, Turn, workVars
<1>8. CASE ConnectSwitchesOn
  BY <1>8, CurTypes, OptTypes
  DEF ConnectSwitchesOn, Types, IdxInv, Turn
<1>9. CASE Info
  BY <1>9, CurTypes, OptTypes
  DEF Info, AfterInfo, Expected, Types, IdxInv, Turn
<1>10. ASSUME NEW a \in BOOLEAN, UploadFile(a) PROVE IdxInv'
  BY <1>10, CurTypes, OptTypes
  DEF UploadFile, Types, IdxInv, Turn, workVars
<1>11. ASSUME NEW out \in {"ok", "lost", "no", "bail"}, UploadFw(out) PROVE IdxInv'
  BY <1>11, CurTypes, OptTypes
  DEF UploadFw, Retry, Types, IdxInv, Turn
<1>12. CASE Fetch
  BY <1>12, CurTypes, OptTypes
  DEF Fetch, Types, IdxInv, Turn
<1>13. CASE DeviceDone
  BY <1>13, CurTypes, OptTypes
  DEF DeviceDone, Types, IdxInv, Turn, workVars
<1>14. CASE Reannounced
  BY <1>14, CurTypes, OptTypes
  DEF Reannounced, Types, IdxInv, Turn, workVars
<1>15. CASE ReannounceTimesOut
  BY <1>15, CurTypes, OptTypes
  DEF ReannounceTimesOut, Types, IdxInv, Turn, workVars
<1>16. ASSUME NEW t \in BOOLEAN, AutoRestored(t) PROVE IdxInv'
  BY <1>16, CurTypes, OptTypes
  DEF AutoRestored, Types, IdxInv, Turn, workVars
<1>17. ASSUME NEW r \in BOOLEAN, NEW a \in BOOLEAN, ApClose(r, a) PROVE IdxInv'
  BY <1>17, CurTypes, OptTypes
  DEF ApClose, Onward, Types, IdxInv, Turn
<1>18. ASSUME NEW f \in BOOLEAN, RestoreHostWifi(f) PROVE IdxInv'
  BY <1>18, OptTypes
  DEF RestoreHostWifi, Types, IdxInv, Turn, workVars
<1>19. CASE UNCHANGED <<pc, idx, opt>>
  BY <1>19 DEF IdxInv, Turn
<1>20. ASSUME \/ Cancel
             \/ (\E n \in Nodes : Reboot(n))
             \/ (\E n \in Nodes : PowerCycle(n))
             \/ (\E n \in Nodes, a \in BOOLEAN : Announce(n, a))
             \/ (\E n \in Nodes : SubmitRestore(n))
             \/ (\E n \in Nodes : RestoreEnds(n))
             \/ (\E n \in Nodes : Bystander(n))
             \/ (\E off \in BOOLEAN : LinkLost(off))
      PROVE  UNCHANGED <<pc, idx, opt>>
  BY <1>20
  DEF Announce, Bystander, Cancel, LinkLost, PowerCycle, Reboot, RestoreEnds, SubmitRestore, Up,
      workVars
<1> QED
  BY <1>1, <1>2, <1>3, <1>4, <1>5, <1>6, <1>7, <1>8, <1>9, <1>10, <1>11, <1>12, <1>13, <1>14, <1>15,
     <1>16, <1>17, <1>18, <1>19, <1>20
  DEF Next, Workflow, Radio, Host, Http, Loop, Outside

\* Commands and uploads are repeated up to their limits.
LEMMA NextTries == ASSUME IInv, Next PROVE TriesInv'
<1> USE DEF IInv
<1>1. ASSUME NEW o \in Options, Start(o) PROVE TriesInv'
  BY <1>1, OtaAssumption
  DEF Start, Types, TriesInv, Turn, Tries, Update
<1>2. CASE EnsureWifi
  BY <1>2, OtaAssumption
  DEF EnsureWifi, Types, TriesInv, Turn, Tries, Update, workVars
<1>3. CASE NextDevice
  BY <1>3, OtaAssumption
  DEF NextDevice, Types, TriesInv, Turn, Tries, Update, workVars
<1>4. ASSUME NEW r \in BOOLEAN, NEW a \in BOOLEAN, ApEnable(r, a) PROVE TriesInv'
  BY <1>4, CurTypes, OtaAssumption
  DEF ApEnable, Types, TriesInv, Turn, Tries, Update
<1>5. CASE StepFails
  BY <1>5, CurTypes, OtaAssumption
  DEF StepFails, Fail, Onward, Types, TriesInv, Turn, Tries, Update
<1>6. CASE ConnectBegins
  BY <1>6, CurTypes, OtaAssumption
  DEF ConnectBegins, Types, TriesInv, Turn, Tries, Update
<1>7. ASSUME NEW scan \in SUBSET cache, NEW c \in Nodes, Connect(scan, c) PROVE TriesInv'
  BY <1>7, CurTypes, OtaAssumption
  DEF Connect, Types, TriesInv, Turn, Tries, Update, workVars
<1>8. CASE ConnectSwitchesOn
  BY <1>8, CurTypes, OtaAssumption
  DEF ConnectSwitchesOn, Types, TriesInv, Turn, Tries, Update
<1>9. CASE Info
  BY <1>9, CurTypes, OtaAssumption
  DEF Info, AfterInfo, Expected, Types, TriesInv, Turn, Tries, Update
<1>10. ASSUME NEW a \in BOOLEAN, UploadFile(a) PROVE TriesInv'
  BY <1>10, CurTypes, OtaAssumption
  DEF UploadFile, Types, TriesInv, Turn, Tries, Update, workVars
<1>11. ASSUME NEW out \in {"ok", "lost", "no", "bail"}, UploadFw(out) PROVE TriesInv'
  BY <1>11, CurTypes, OtaAssumption
  DEF UploadFw, Retry, Types, TriesInv, Turn, Tries, Update
<1>12. CASE Fetch
  BY <1>12, CurTypes, OtaAssumption
  DEF Fetch, Types, TriesInv, Turn, Tries, Update
<1>13. CASE DeviceDone
  BY <1>13, CurTypes, OtaAssumption
  DEF DeviceDone, Types, TriesInv, Turn, Tries, Update, workVars
<1>14. CASE Reannounced
  BY <1>14, CurTypes, OtaAssumption
  DEF Reannounced, Types, TriesInv, Turn, Tries, Update, workVars
<1>15. CASE ReannounceTimesOut
  BY <1>15, CurTypes, OtaAssumption
  DEF ReannounceTimesOut, Types, TriesInv, Turn, Tries, Update, workVars
<1>16. ASSUME NEW t \in BOOLEAN, AutoRestored(t) PROVE TriesInv'
  BY <1>16, CurTypes, OtaAssumption
  DEF AutoRestored, Types, TriesInv, Turn, Tries, Update, workVars
<1>17. ASSUME NEW r \in BOOLEAN, NEW a \in BOOLEAN, ApClose(r, a) PROVE TriesInv'
  BY <1>17, CurTypes, OtaAssumption
  DEF ApClose, Onward, Types, TriesInv, Turn, Tries, Update
<1>18. ASSUME NEW f \in BOOLEAN, RestoreHostWifi(f) PROVE TriesInv'
  BY <1>18, OtaAssumption
  DEF RestoreHostWifi, Types, TriesInv, Turn, Tries, Update, workVars
<1>19. CASE UNCHANGED <<pc, tries, opt>>
  BY <1>19 DEF TriesInv, Tries, Update
<1>20. ASSUME \/ Cancel
             \/ (\E n \in Nodes : Reboot(n))
             \/ (\E n \in Nodes : PowerCycle(n))
             \/ (\E n \in Nodes, a \in BOOLEAN : Announce(n, a))
             \/ (\E n \in Nodes : SubmitRestore(n))
             \/ (\E n \in Nodes : RestoreEnds(n))
             \/ (\E n \in Nodes : Bystander(n))
             \/ (\E off \in BOOLEAN : LinkLost(off))
      PROVE  UNCHANGED <<pc, tries, opt>>
  BY <1>20
  DEF Announce, Bystander, Cancel, LinkLost, PowerCycle, Reboot, RestoreEnds, SubmitRestore, Up,
      workVars
<1> QED
  BY <1>1, <1>2, <1>3, <1>4, <1>5, <1>6, <1>7, <1>8, <1>9, <1>10, <1>11, <1>12, <1>13, <1>14, <1>15,
     <1>16, <1>17, <1>18, <1>19, <1>20
  DEF Next, Workflow, Radio, Host, Http, Loop, Outside

\* Only an update uploads, only a download fetches.
LEMMA NextKind == ASSUME IInv, Next PROVE KindInv'
<1> USE DEF IInv
<1>1. ASSUME NEW o \in Options, Start(o) PROVE KindInv'
  BY <1>1
  DEF Start, KindInv, Update
<1>2. CASE EnsureWifi
  BY <1>2
  DEF EnsureWifi, KindInv, Update, workVars
<1>3. CASE NextDevice
  BY <1>3
  DEF NextDevice, KindInv, Update, workVars
<1>4. ASSUME NEW r \in BOOLEAN, NEW a \in BOOLEAN, ApEnable(r, a) PROVE KindInv'
  BY <1>4
  DEF ApEnable, KindInv, Update
<1>5. CASE StepFails
  BY <1>5
  DEF StepFails, Fail, Onward, KindInv, Update
<1>6. CASE ConnectBegins
  BY <1>6
  DEF ConnectBegins, KindInv, Update
<1>7. ASSUME NEW scan \in SUBSET cache, NEW c \in Nodes, Connect(scan, c) PROVE KindInv'
  BY <1>7
  DEF Connect, KindInv, Update, workVars
<1>8. CASE ConnectSwitchesOn
  BY <1>8
  DEF ConnectSwitchesOn, KindInv, Update
<1>9. CASE Info
  BY <1>9
  DEF Info, AfterInfo, Expected, KindInv, Update
<1>10. ASSUME NEW a \in BOOLEAN, UploadFile(a) PROVE KindInv'
  BY <1>10
  DEF UploadFile, KindInv, Update, workVars
<1>11. ASSUME NEW out \in {"ok", "lost", "no", "bail"}, UploadFw(out) PROVE KindInv'
  BY <1>11
  DEF UploadFw, Retry, KindInv, Update
<1>12. CASE Fetch
  BY <1>12
  DEF Fetch, KindInv, Update
<1>13. CASE DeviceDone
  BY <1>13
  DEF DeviceDone, KindInv, Update, workVars
<1>14. CASE Reannounced
  BY <1>14
  DEF Reannounced, KindInv, Update, workVars
<1>15. CASE ReannounceTimesOut
  BY <1>15
  DEF ReannounceTimesOut, KindInv, Update, workVars
<1>16. ASSUME NEW t \in BOOLEAN, AutoRestored(t) PROVE KindInv'
  BY <1>16
  DEF AutoRestored, KindInv, Update, workVars
<1>17. ASSUME NEW r \in BOOLEAN, NEW a \in BOOLEAN, ApClose(r, a) PROVE KindInv'
  BY <1>17
  DEF ApClose, Onward, KindInv, Update
<1>18. ASSUME NEW f \in BOOLEAN, RestoreHostWifi(f) PROVE KindInv'
  BY <1>18
  DEF RestoreHostWifi, KindInv, Update, workVars
<1>19. CASE UNCHANGED <<pc, opt>>
  BY <1>19 DEF KindInv, Update
<1>20. ASSUME \/ Cancel
             \/ (\E n \in Nodes : Reboot(n))
             \/ (\E n \in Nodes : PowerCycle(n))
             \/ (\E n \in Nodes, a \in BOOLEAN : Announce(n, a))
             \/ (\E n \in Nodes : SubmitRestore(n))
             \/ (\E n \in Nodes : RestoreEnds(n))
             \/ (\E n \in Nodes : Bystander(n))
             \/ (\E off \in BOOLEAN : LinkLost(off))
      PROVE  UNCHANGED <<pc, opt>>
  BY <1>20
  DEF Announce, Bystander, Cancel, LinkLost, PowerCycle, Reboot, RestoreEnds, SubmitRestore, Up,
      workVars
<1> QED
  BY <1>1, <1>2, <1>3, <1>4, <1>5, <1>6, <1>7, <1>8, <1>9, <1>10, <1>11, <1>12, <1>13, <1>14, <1>15,
     <1>16, <1>17, <1>18, <1>19, <1>20
  DEF Next, Workflow, Radio, Host, Http, Loop, Outside

\* Info lets only the current node through to the uploads; after it the host can
\* lose its access point and get on no other.
LEMMA NextLink == ASSUME IInv, Next PROVE LinkInv'
<1> USE DEF IInv
<1>1. ASSUME NEW o \in Options, Start(o) PROVE LinkInv'
  BY <1>1, OtaAssumption
  DEF Start, Types, LinkInv, Turn, Cur, nodeVars
<1>2. CASE EnsureWifi
  BY <1>2, OtaAssumption
  DEF EnsureWifi, Types, LinkInv, Turn, Cur, workVars, nodeVars
<1>3. CASE NextDevice
  BY <1>3, OtaAssumption
  DEF NextDevice, Types, LinkInv, Turn, Cur, workVars, wifiVars, nodeVars
<1>4. ASSUME NEW r \in BOOLEAN, NEW a \in BOOLEAN, ApEnable(r, a) PROVE LinkInv'
  BY <1>4, CurTypes, OtaAssumption
  DEF ApEnable, Types, LinkInv, Turn, Cur, wifiVars
<1>5. CASE StepFails
  BY <1>5, CurTypes, OtaAssumption
  DEF StepFails, Fail, Onward, Types, LinkInv, Turn, Cur, wifiVars, nodeVars
<1>6. CASE ConnectBegins
  BY <1>6, CurTypes, OtaAssumption
  DEF ConnectBegins, Types, LinkInv, Turn, Cur, nodeVars
<1>7. ASSUME NEW scan \in SUBSET cache, NEW c \in Nodes, Connect(scan, c) PROVE LinkInv'
  BY <1>7, CurTypes, OtaAssumption
  DEF Connect, Types, LinkInv, Turn, Cur, workVars, nodeVars
<1>8. CASE ConnectSwitchesOn
  BY <1>8, CurTypes, OtaAssumption
  DEF ConnectSwitchesOn, Types, LinkInv, Turn, Cur, nodeVars
<1>9. CASE Info
  BY <1>9, CurTypes, OtaAssumption
  DEF Info, AfterInfo, Expected, Types, LinkInv, Turn, Cur, wifiVars, nodeVars
<1>10. ASSUME NEW a \in BOOLEAN, UploadFile(a) PROVE LinkInv'
  BY <1>10, CurTypes, OtaAssumption
  DEF UploadFile, Types, LinkInv, Turn, Cur, workVars, wifiVars
<1>11. ASSUME NEW out \in {"ok", "lost", "no", "bail"}, UploadFw(out) PROVE LinkInv'
  BY <1>11, CurTypes, OtaAssumption
  DEF UploadFw, Retry, Types, LinkInv, Turn, Cur, wifiVars
<1>12. CASE Fetch
  BY <1>12, CurTypes, OtaAssumption
  DEF Fetch, Types, LinkInv, Turn, Cur, wifiVars
<1>13. CASE DeviceDone
  BY <1>13, CurTypes, OtaAssumption
  DEF DeviceDone, Types, LinkInv, Turn, Cur, workVars, nodeVars
<1>14. CASE Reannounced
  BY <1>14, CurTypes, OtaAssumption
  DEF Reannounced, Types, LinkInv, Turn, Cur, workVars, wifiVars, nodeVars
<1>15. CASE ReannounceTimesOut
  BY <1>15, CurTypes, OtaAssumption
  DEF ReannounceTimesOut, Types, LinkInv, Turn, Cur, workVars, wifiVars, nodeVars
<1>16. ASSUME NEW t \in BOOLEAN, AutoRestored(t) PROVE LinkInv'
  BY <1>16, CurTypes, OtaAssumption
  DEF AutoRestored, Types, LinkInv, Turn, Cur, workVars, wifiVars, nodeVars
<1>17. ASSUME NEW r \in BOOLEAN, NEW a \in BOOLEAN, ApClose(r, a) PROVE LinkInv'
  BY <1>17, CurTypes, OtaAssumption
  DEF ApClose, Onward, Types, LinkInv, Turn, Cur
<1>18. ASSUME NEW f \in BOOLEAN, RestoreHostWifi(f) PROVE LinkInv'
  BY <1>18, OtaAssumption
  DEF RestoreHostWifi, Types, LinkInv, Turn, Cur, workVars, nodeVars
<1>19. ASSUME NEW n \in Nodes, Reboot(n) PROVE LinkInv'
  BY <1>19, OtaAssumption
  DEF Reboot, Up, Types, LinkInv, Turn, Cur, workVars
<1>20. ASSUME NEW n \in Nodes, PowerCycle(n) PROVE LinkInv'
  BY <1>20, OtaAssumption
  DEF PowerCycle, Up, Types, LinkInv, Turn, Cur, workVars
<1>21. ASSUME NEW n \in Nodes, Bystander(n) PROVE LinkInv'
  BY <1>21, OtaAssumption
  DEF Bystander, Types, LinkInv, Turn, Cur, workVars, wifiVars
<1>22. ASSUME NEW off \in BOOLEAN, LinkLost(off) PROVE LinkInv'
  BY <1>22, OtaAssumption
  DEF LinkLost, Types, LinkInv, Turn, Cur, workVars, nodeVars
<1>23. CASE UNCHANGED <<pc, idx, opt, link, ap, radio>>
  BY <1>23 DEF LinkInv, Cur
<1>24. ASSUME \/ Cancel
             \/ (\E n \in Nodes, a \in BOOLEAN : Announce(n, a))
             \/ (\E n \in Nodes : SubmitRestore(n))
             \/ (\E n \in Nodes : RestoreEnds(n))
      PROVE  UNCHANGED <<pc, idx, opt, link, ap, radio>>
  BY <1>24
  DEF Announce, Cancel, RestoreEnds, SubmitRestore, workVars, wifiVars, nodeVars
<1> QED
  BY <1>1, <1>2, <1>3, <1>4, <1>5, <1>6, <1>7, <1>8, <1>9, <1>10, <1>11, <1>12, <1>13, <1>14, <1>15,
     <1>16, <1>17, <1>18, <1>19, <1>20, <1>21, <1>22, <1>23, <1>24
  DEF Next, Workflow, Radio, Host, Http, Loop, Outside

\* The report follows the turn.
LEMMA NextRep == ASSUME IInv, Next PROVE RepInv'
<1> USE DEF IInv
<1>1. ASSUME NEW o \in Options, Start(o) PROVE RepInv'
  BY <1>1
  DEF Start, Types, RepInv, Turn, Cur, resVars
<1>2. CASE EnsureWifi
  BY <1>2
  DEF EnsureWifi, Types, RepInv, Turn, Cur, workVars
<1>3. CASE NextDevice
  BY <1>3, NextDeviceMoves DEF RepInv, workVars, NextDevice
<1>4. ASSUME NEW r \in BOOLEAN, NEW a \in BOOLEAN, ApEnable(r, a) PROVE RepInv'
  BY <1>4, CurTypes, RepAcked
  DEF ApEnable, Types, RepInv, Turn, Cur
<1>5. CASE StepFails
  BY <1>5, StepFailsMoves DEF RepInv
<1>6. CASE ConnectBegins
  BY <1>6, CurTypes
  DEF ConnectBegins, Types, RepInv, Turn, Cur, resVars
<1>7. ASSUME NEW scan \in SUBSET cache, NEW c \in Nodes, Connect(scan, c) PROVE RepInv'
  BY <1>7, CurTypes
  DEF Connect, Types, RepInv, Turn, Cur, workVars, resVars
<1>8. CASE ConnectSwitchesOn
  BY <1>8, CurTypes
  DEF ConnectSwitchesOn, Types, RepInv, Turn, Cur, resVars
<1>9. CASE Info
  BY <1>9, CurTypes
  DEF Info, AfterInfo, Expected, Types, RepInv, Turn, Cur, resVars
<1>10. ASSUME NEW a \in BOOLEAN, UploadFile(a) PROVE RepInv'
  BY <1>10, CurTypes
  DEF UploadFile, Types, RepInv, Turn, Cur, workVars, resVars
<1>11. ASSUME NEW out \in {"ok", "lost", "no", "bail"}, UploadFw(out) PROVE RepInv'
  BY <1>11, CurTypes
  DEF UploadFw, Retry, Types, RepInv, Turn, Cur, resVars
<1>12. CASE Fetch
  BY <1>12, CurTypes, RepSt
  DEF Fetch, Types, RepInv, Turn, Cur
<1>13. CASE DeviceDone
  BY <1>13, DeviceDoneMoves DEF RepInv
<1>14. CASE Reannounced
  BY <1>14, CurTypes
  DEF Reannounced, Types, RepInv, Turn, Cur, workVars, resVars
<1>15. CASE ReannounceTimesOut
  BY <1>15, CurTypes, RepSt
  DEF ReannounceTimesOut, Types, RepInv, Turn, Cur, workVars
<1>16. ASSUME NEW t \in BOOLEAN, AutoRestored(t) PROVE RepInv'
  BY <1>16, CurTypes
  DEF AutoRestored, Types, RepInv, Turn, Cur, workVars, resVars
<1>17. ASSUME NEW r \in BOOLEAN, NEW a \in BOOLEAN, ApClose(r, a) PROVE RepInv'
  BY <1>17, CurTypes, RepClose
  DEF ApClose, Onward, Types, RepInv, Turn, Cur
<1>18. ASSUME NEW f \in BOOLEAN, RestoreHostWifi(f) PROVE RepInv'
  BY <1>18
  DEF RestoreHostWifi, Types, RepInv, Turn, Cur, workVars
<1>19. CASE UNCHANGED <<pc, idx, opt, rep>>
  BY <1>19 DEF RepInv, Cur
<1>20. ASSUME \/ Cancel
             \/ (\E n \in Nodes : Reboot(n))
             \/ (\E n \in Nodes : PowerCycle(n))
             \/ (\E n \in Nodes, a \in BOOLEAN : Announce(n, a))
             \/ (\E n \in Nodes : SubmitRestore(n))
             \/ (\E n \in Nodes : RestoreEnds(n))
             \/ (\E n \in Nodes : Bystander(n))
             \/ (\E off \in BOOLEAN : LinkLost(off))
      PROVE  UNCHANGED <<pc, idx, opt, rep>>
  BY <1>20
  DEF Announce, Bystander, Cancel, LinkLost, PowerCycle, Reboot, RestoreEnds, SubmitRestore, Up,
      workVars, resVars
<1> QED
  BY <1>1, <1>2, <1>3, <1>4, <1>5, <1>6, <1>7, <1>8, <1>9, <1>10, <1>11, <1>12, <1>13, <1>14, <1>15,
     <1>16, <1>17, <1>18, <1>19, <1>20
  DEF Next, Workflow, Radio, Host, Http, Loop, Outside

\* The identify event was cleared at the beginning of the turn.
LEMMA NextFresh == ASSUME IInv, Next PROVE FreshInv'
<1> USE DEF IInv
<1>1. ASSUME NEW o \in Options, Start(o) PROVE FreshInv'
  BY <1>1
  DEF Start, Types, FreshInv, Turn, Cur, Update, idVars
<1>2. CASE EnsureWifi
  BY <1>2
  DEF EnsureWifi, Types, FreshInv, Turn, Cur, Update, workVars, idVars
<1>3. CASE NextDevice
  BY <1>3
  DEF NextDevice, Types, FreshInv, Turn, Cur, Update, workVars
<1>4. ASSUME NEW r \in BOOLEAN, NEW a \in BOOLEAN, ApEnable(r, a) PROVE FreshInv'
  BY <1>4, CurTypes
  DEF ApEnable, Types, FreshInv, Turn, Cur, Update, idVars
<1>5. CASE StepFails
  BY <1>5, CurTypes
  DEF StepFails, Fail, Onward, Types, FreshInv, Turn, Cur, Update, idVars
<1>6. CASE ConnectBegins
  BY <1>6, CurTypes
  DEF ConnectBegins, Types, FreshInv, Turn, Cur, Update, idVars
<1>7. ASSUME NEW scan \in SUBSET cache, NEW c \in Nodes, Connect(scan, c) PROVE FreshInv'
  BY <1>7, CurTypes
  DEF Connect, Types, FreshInv, Turn, Cur, Update, workVars, idVars
<1>8. CASE ConnectSwitchesOn
  BY <1>8, CurTypes
  DEF ConnectSwitchesOn, Types, FreshInv, Turn, Cur, Update, idVars
<1>9. CASE Info
  BY <1>9, CurTypes
  DEF Info, AfterInfo, Expected, Types, FreshInv, Turn, Cur, Update, idVars
<1>10. ASSUME NEW a \in BOOLEAN, UploadFile(a) PROVE FreshInv'
  BY <1>10, CurTypes
  DEF UploadFile, Types, FreshInv, Turn, Cur, Update, workVars, idVars
<1>11. ASSUME NEW out \in {"ok", "lost", "no", "bail"}, UploadFw(out) PROVE FreshInv'
  BY <1>11, CurTypes
  DEF UploadFw, Retry, Types, FreshInv, Turn, Cur, Update, idVars
<1>12. CASE Fetch
  BY <1>12, CurTypes
  DEF Fetch, Types, FreshInv, Turn, Cur, Update, idVars
<1>13. CASE DeviceDone
  BY <1>13, CurTypes
  DEF DeviceDone, Types, FreshInv, Turn, Cur, Update, workVars, idVars
<1>14. CASE Reannounced
  BY <1>14, CurTypes
  DEF Reannounced, KindInv, Types, FreshInv, Turn, Cur, Update, workVars, idVars
<1>15. CASE ReannounceTimesOut
  BY <1>15, CurTypes
  DEF ReannounceTimesOut, Types, FreshInv, Turn, Cur, Update, workVars, idVars
<1>16. ASSUME NEW t \in BOOLEAN, AutoRestored(t) PROVE FreshInv'
  BY <1>16, CurTypes
  DEF AutoRestored, Types, FreshInv, Turn, Cur, Update, workVars, idVars
<1>17. ASSUME NEW r \in BOOLEAN, NEW a \in BOOLEAN, ApClose(r, a) PROVE FreshInv'
  BY <1>17, CurTypes
  DEF ApClose, Onward, Types, FreshInv, Turn, Cur, Update, idVars
<1>18. ASSUME NEW f \in BOOLEAN, RestoreHostWifi(f) PROVE FreshInv'
  BY <1>18
  DEF RestoreHostWifi, Types, FreshInv, Turn, Cur, Update, workVars, idVars
<1>19. ASSUME NEW n \in Nodes, NEW a \in BOOLEAN, Announce(n, a) PROVE FreshInv'
  BY <1>19
  DEF Announce, Types, FreshInv, Turn, Cur, Update, workVars, idVars
<1>20. CASE UNCHANGED <<pc, idx, opt, heard, since>>
  BY <1>20 DEF FreshInv, Cur, Update, Turn
<1>21. ASSUME \/ Cancel
             \/ (\E n \in Nodes : Reboot(n))
             \/ (\E n \in Nodes : PowerCycle(n))
             \/ (\E n \in Nodes : SubmitRestore(n))
             \/ (\E n \in Nodes : RestoreEnds(n))
             \/ (\E n \in Nodes : Bystander(n))
             \/ (\E off \in BOOLEAN : LinkLost(off))
      PROVE  UNCHANGED <<pc, idx, opt, heard, since>>
  BY <1>21
  DEF Bystander, Cancel, LinkLost, PowerCycle, Reboot, RestoreEnds, SubmitRestore, Up, workVars,
      idVars
<1> QED
  BY <1>1, <1>2, <1>3, <1>4, <1>5, <1>6, <1>7, <1>8, <1>9, <1>10, <1>11, <1>12, <1>13, <1>14, <1>15,
     <1>16, <1>17, <1>18, <1>19, <1>20, <1>21
  DEF Next, Workflow, Radio, Host, Http, Loop, Outside

\* The radio is switched off by a fault or by the end of the task.
LEMMA NextRadio == ASSUME IInv, Next PROVE RadioInv'
<1> USE DEF IInv
<1>1. ASSUME NEW o \in Options, Start(o) PROVE RadioInv'
  BY <1>1
  DEF Start, Types, RadioInv
<1>2. CASE Cancel
  BY <1>2
  DEF Cancel, Types, RadioInv, workVars, wifiVars, ghostVars
<1>3. CASE EnsureWifi
  BY <1>3
  DEF EnsureWifi, Types, RadioInv, workVars, ghostVars
<1>4. CASE NextDevice
  BY <1>4
  DEF NextDevice, Types, RadioInv, workVars, wifiVars, ghostVars
<1>5. ASSUME NEW r \in BOOLEAN, NEW a \in BOOLEAN, ApEnable(r, a) PROVE RadioInv'
  BY <1>5
  DEF ApEnable, Types, RadioInv, wifiVars, ghostVars
<1>6. CASE StepFails
  BY <1>6
  DEF StepFails, Fail, Onward, Types, RadioInv, wifiVars, ghostVars
<1>7. CASE ConnectBegins
  BY <1>7
  DEF ConnectBegins, Types, RadioInv, ghostVars
<1>8. ASSUME NEW scan \in SUBSET cache, NEW c \in Nodes, Connect(scan, c) PROVE RadioInv'
  BY <1>8
  DEF Connect, Types, RadioInv, workVars, ghostVars
<1>9. CASE ConnectSwitchesOn
  BY <1>9
  DEF ConnectSwitchesOn, Types, RadioInv, ghostVars
<1>10. CASE Info
  BY <1>10
  DEF Info, AfterInfo, Expected, Types, RadioInv, wifiVars, ghostVars
<1>11. ASSUME NEW a \in BOOLEAN, UploadFile(a) PROVE RadioInv'
  BY <1>11
  DEF UploadFile, Types, RadioInv, workVars, wifiVars, ghostVars
<1>12. ASSUME NEW out \in {"ok", "lost", "no", "bail"}, UploadFw(out) PROVE RadioInv'
  BY <1>12
  DEF UploadFw, Retry, Types, RadioInv, wifiVars, ghostVars
<1>13. CASE Fetch
  BY <1>13
  DEF Fetch, Types, RadioInv, wifiVars, ghostVars
<1>14. CASE DeviceDone
  BY <1>14
  DEF DeviceDone, Types, RadioInv, workVars, ghostVars
<1>15. CASE Reannounced
  BY <1>15
  DEF Reannounced, Types, RadioInv, workVars, wifiVars, ghostVars
<1>16. CASE ReannounceTimesOut
  BY <1>16
  DEF ReannounceTimesOut, Types, RadioInv, workVars, wifiVars, ghostVars
<1>17. ASSUME NEW t \in BOOLEAN, AutoRestored(t) PROVE RadioInv'
  BY <1>17
  DEF AutoRestored, Types, RadioInv, workVars, wifiVars, ghostVars
<1>18. ASSUME NEW r \in BOOLEAN, NEW a \in BOOLEAN, ApClose(r, a) PROVE RadioInv'
  BY <1>18
  DEF ApClose, Onward, Types, RadioInv, ghostVars
<1>19. ASSUME NEW f \in BOOLEAN, RestoreHostWifi(f) PROVE RadioInv'
  BY <1>19
  DEF RestoreHostWifi, Types, RadioInv, workVars
<1>20. ASSUME NEW n \in Nodes, Reboot(n) PROVE RadioInv'
  BY <1>20
  DEF Reboot, Up, Types, RadioInv, workVars, ghostVars
<1>21. ASSUME NEW n \in Nodes, PowerCycle(n) PROVE RadioInv'
  BY <1>21
  DEF PowerCycle, Up, Types, RadioInv, workVars, ghostVars
<1>22. ASSUME NEW n \in Nodes, NEW a \in BOOLEAN, Announce(n, a) PROVE RadioInv'
  BY <1>22
  DEF Announce, Types, RadioInv, workVars, wifiVars, ghostVars
<1>23. ASSUME NEW n \in Nodes, SubmitRestore(n) PROVE RadioInv'
  BY <1>23
  DEF SubmitRestore, Types, RadioInv, workVars, wifiVars, ghostVars
<1>24. ASSUME NEW n \in Nodes, RestoreEnds(n) PROVE RadioInv'
  BY <1>24
  DEF RestoreEnds, Types, RadioInv, workVars, wifiVars, ghostVars
<1>25. ASSUME NEW n \in Nodes, Bystander(n) PROVE RadioInv'
  BY <1>25
  DEF Bystander, Types, RadioInv, workVars, wifiVars, ghostVars
<1>26. ASSUME NEW off \in BOOLEAN, LinkLost(off) PROVE RadioInv'
  BY <1>26
  DEF LinkLost, Types, RadioInv, workVars
<1> QED
  BY <1>1, <1>2, <1>3, <1>4, <1>5, <1>6, <1>7, <1>8, <1>9, <1>10, <1>11, <1>12, <1>13, <1>14, <1>15,
     <1>16, <1>17, <1>18, <1>19, <1>20, <1>21, <1>22, <1>23, <1>24, <1>25, <1>26
  DEF Next, Workflow, Radio, Host, Http, Loop, Outside

\* A device gets to done once everything was written to it.
LEMMA NextWritten == ASSUME IInv, Next PROVE WrittenInv'
<1> USE DEF IInv
<1>1. ASSUME NEW o \in Options, Start(o) PROVE WrittenInv'
  BY <1>1, OptTypes
  DEF Start, Types, WrittenInv, OkMeansWritten, Turn, Cur, RepInv, nodeVars, resVars
<1>2. CASE EnsureWifi
  BY <1>2, OptTypes
  DEF EnsureWifi, Types, WrittenInv, OkMeansWritten, Turn, Cur, RepInv, workVars, nodeVars
<1>3. CASE NextDevice
  BY <1>3, NextDeviceMoves DEF WrittenInv, OkMeansWritten, NextDevice, workVars, nodeVars
<1>4. ASSUME NEW r \in BOOLEAN, NEW a \in BOOLEAN, ApEnable(r, a) PROVE WrittenInv'
  BY <1>4, CurTypes, OptTypes, RepAcked
  DEF ApEnable, Types, WrittenInv, OkMeansWritten, Turn, Cur, RepInv
<1>5. CASE StepFails
  <2>1. pc # "idle"
    BY <1>5 DEF StepFails
  <2> QED BY <1>5, <2>1, StepFailsMoves DEF WrittenInv, OkMeansWritten
<1>6. CASE ConnectBegins
  BY <1>6, CurTypes, OptTypes
  DEF ConnectBegins, Types, WrittenInv, OkMeansWritten, Turn, Cur, RepInv, nodeVars, resVars
<1>7. ASSUME NEW scan \in SUBSET cache, NEW c \in Nodes, Connect(scan, c) PROVE WrittenInv'
  BY <1>7, CurTypes, OptTypes
  DEF Connect, Types, WrittenInv, OkMeansWritten, Turn, Cur, RepInv, workVars, nodeVars, resVars
<1>8. CASE ConnectSwitchesOn
  BY <1>8, CurTypes, OptTypes
  DEF ConnectSwitchesOn, Types, WrittenInv, OkMeansWritten, Turn, Cur, RepInv, nodeVars, resVars
<1>9. CASE Info
  BY <1>9, CurTypes, OptTypes
  DEF Info, AfterInfo, Expected, Types, WrittenInv, OkMeansWritten, Turn, Cur, RepInv, nodeVars,
      resVars
<1>10. ASSUME NEW a \in BOOLEAN, UploadFile(a) PROVE WrittenInv'
  <2>1. link = Cur /\ Cur \in Nodes /\ opt \in Options
    BY <1>10, CurTypes DEF UploadFile, LinkInv, Turn
  <2>2. /\ \A n \in Nodes : written[n] \subseteq written'[n]
        /\ "file" \in written'[Cur]
    BY <1>10, <2>1 DEF UploadFile, Types
  <2>3. opt.ops \subseteq {"file", "fw"}
    BY <2>1, OptTypes
  <2>4. UNCHANGED <<opt, idx, rep>> /\ Cur' = Cur
    BY <1>10 DEF UploadFile, workVars, resVars, Cur
  <2>5. OkMeansWritten'
    BY <1>10, <2>2, <2>4 DEF UploadFile, WrittenInv, OkMeansWritten
  <2> QED
    BY <1>10, <2>2, <2>3, <2>4, <2>5 DEF UploadFile, WrittenInv
<1>11. ASSUME NEW out \in {"ok", "lost", "no", "bail"}, UploadFw(out) PROVE WrittenInv'
  <2>1. link \in {None, Cur} /\ Cur \in Nodes /\ opt \in Options
    BY <1>11, CurTypes DEF UploadFw, LinkInv, Turn
  <2>2. /\ \A n \in Nodes : written[n] \subseteq written'[n]
        /\ out = "ok" => "fw" \in written'[Cur]
    BY <1>11, <2>1 DEF UploadFw, Types
  <2>3. opt.ops \subseteq {"file", "fw"}
    BY <2>1, OptTypes
  <2>4. UNCHANGED <<opt, idx, rep>> /\ Cur' = Cur
    BY <1>11 DEF UploadFw, resVars, Cur
  <2>5. OkMeansWritten'
    BY <1>11, <2>2, <2>4 DEF UploadFw, WrittenInv, OkMeansWritten
  <2> QED
    BY <1>11, <2>1, <2>2, <2>3, <2>4, <2>5 DEF UploadFw, Retry, WrittenInv
<1>12. CASE Fetch
  <2>1. Cur \in Nodes /\ opt \in Options /\ opt.ops = {}
    BY <1>12, CurTypes, OptTypes DEF Fetch, Turn, KindInv, Update
  <2> QED
    BY <1>12, <2>1 DEF Fetch, WrittenInv, OkMeansWritten
<1>13. CASE DeviceDone
  BY <1>13, DeviceDoneMoves DEF WrittenInv, OkMeansWritten
<1>14. CASE Reannounced
  BY <1>14, CurTypes, OptTypes
  DEF Reannounced, Types, WrittenInv, OkMeansWritten, Turn, Cur, RepInv, workVars, nodeVars, resVars
<1>15. CASE ReannounceTimesOut
  BY <1>15, CurTypes, OptTypes, RepSt
  DEF ReannounceTimesOut, Types, WrittenInv, OkMeansWritten, Turn, Cur, RepInv, workVars, nodeVars
<1>16. ASSUME NEW t \in BOOLEAN, AutoRestored(t) PROVE WrittenInv'
  BY <1>16, CurTypes, OptTypes
  DEF AutoRestored, Types, WrittenInv, OkMeansWritten, Turn, Cur, RepInv, workVars, nodeVars,
      resVars
<1>17. ASSUME NEW r \in BOOLEAN, NEW a \in BOOLEAN, ApClose(r, a) PROVE WrittenInv'
  BY <1>17, CurTypes, OptTypes, RepClose
  DEF ApClose, Onward, Types, WrittenInv, OkMeansWritten, Turn, Cur, RepInv
<1>18. ASSUME NEW f \in BOOLEAN, RestoreHostWifi(f) PROVE WrittenInv'
  BY <1>18, OptTypes
  DEF RestoreHostWifi, Types, WrittenInv, OkMeansWritten, Turn, Cur, RepInv, workVars, nodeVars
<1>19. CASE UNCHANGED <<pc, idx, opt, rep, written>>
  BY <1>19 DEF WrittenInv, OkMeansWritten, Cur
<1>20. ASSUME \/ Cancel
             \/ (\E n \in Nodes : Reboot(n))
             \/ (\E n \in Nodes : PowerCycle(n))
             \/ (\E n \in Nodes, a \in BOOLEAN : Announce(n, a))
             \/ (\E n \in Nodes : SubmitRestore(n))
             \/ (\E n \in Nodes : RestoreEnds(n))
             \/ (\E n \in Nodes : Bystander(n))
             \/ (\E off \in BOOLEAN : LinkLost(off))
      PROVE  UNCHANGED <<pc, idx, opt, rep, written>>
  BY <1>20
  DEF Announce, Bystander, Cancel, LinkLost, PowerCycle, Reboot, RestoreEnds, SubmitRestore, Up,
      workVars, nodeVars, resVars
<1> QED
  BY <1>1, <1>2, <1>3, <1>4, <1>5, <1>6, <1>7, <1>8, <1>9, <1>10, <1>11, <1>12, <1>13, <1>14, <1>15,
     <1>16, <1>17, <1>18, <1>19, <1>20
  DEF Next, Workflow, Radio, Host, Http, Loop, Outside

\* A turn ends with the device settled.
LEMMA NextTried == ASSUME IInv, Next PROVE TriedInv'
<1> USE DEF IInv
<1>1. ASSUME NEW o \in Options, Start(o) PROVE TriedInv'
  BY <1>1, OptTypes
  DEF Start, Types, TriedInv, Settled, Turn, Cur, RepInv, Update, resVars
<1>2. CASE Cancel
  BY <1>2, OptTypes
  DEF Cancel, Types, TriedInv, Settled, Turn, Cur, RepInv, Update, workVars, resVars
<1>3. CASE EnsureWifi
  BY <1>3, OptTypes
  DEF EnsureWifi, IdxInv, Types, TriedInv, Settled, Turn, Cur, RepInv, Update, workVars
<1>4. CASE NextDevice
  <2>1. CASE pc' = "finish"
    BY <1>4, <2>1, NextDeviceMoves DEF NextDevice, TriedInv, Settled, Update, Turn, workVars
  <2>2. CASE pc' # "finish"
    <3>1. \A j \in 1 .. idx : opt.macs[j] \in Nodes
      BY <1>4, OptTypes DEF NextDevice, Types, IdxInv
    <3>2. ASSUME NEW j \in 1 .. idx, Settled(opt.macs[j])
          PROVE  opt.macs[j] = Cur' \/ Settled(opt.macs[j])'
      BY <1>4, <2>2, <3>1, <3>2, NextDeviceMoves DEF Settled
    <3>3. pc = "next" /\ pc' = "ap" /\ opt' = opt /\ idx' - 1 = idx
      BY <1>4, <2>2, NextDeviceMoves DEF IdxInv
    <3> QED
      BY <3>2, <3>3 DEF TriedInv, Update, Turn
  <2> QED
    BY <2>1, <2>2
<1>5. ASSUME NEW r \in BOOLEAN, NEW a \in BOOLEAN, ApEnable(r, a) PROVE TriedInv'
  BY <1>5, CurTypes, OptTypes, RepAcked
  DEF ApEnable, Types, TriedInv, Settled, Turn, Cur, RepInv, Update
<1>6. CASE StepFails
  BY <1>6, CurTypes, OptTypes, RepSt
  DEF StepFails, Fail, Onward, Types, TriedInv, Settled, Turn, Cur, RepInv, Update
<1>7. CASE ConnectBegins
  BY <1>7, CurTypes, OptTypes
  DEF ConnectBegins, Types, TriedInv, Settled, Turn, Cur, RepInv, Update, resVars
<1>8. ASSUME NEW scan \in SUBSET cache, NEW c \in Nodes, Connect(scan, c) PROVE TriedInv'
  BY <1>8, CurTypes, OptTypes
  DEF Connect, Types, TriedInv, Settled, Turn, Cur, RepInv, Update, workVars, resVars
<1>9. CASE ConnectSwitchesOn
  BY <1>9, CurTypes, OptTypes
  DEF ConnectSwitchesOn, Types, TriedInv, Settled, Turn, Cur, RepInv, Update, resVars
<1>10. CASE Info
  BY <1>10, CurTypes, OptTypes
  DEF Info, AfterInfo, Expected, Types, TriedInv, Settled, Turn, Cur, RepInv, Update, resVars
<1>11. ASSUME NEW a \in BOOLEAN, UploadFile(a) PROVE TriedInv'
  BY <1>11, CurTypes, OptTypes
  DEF UploadFile, Types, TriedInv, Settled, Turn, Cur, RepInv, Update, workVars, resVars
<1>12. ASSUME NEW out \in {"ok", "lost", "no", "bail"}, UploadFw(out) PROVE TriedInv'
  BY <1>12, CurTypes, OptTypes
  DEF UploadFw, Retry, Types, TriedInv, Settled, Turn, Cur, RepInv, Update, resVars
<1>13. CASE Fetch
  BY <1>13, CurTypes, OptTypes, RepSt
  DEF Fetch, Types, TriedInv, Settled, Turn, Cur, RepInv, Update
<1>14. CASE DeviceDone
  BY <1>14, CurTypes, OptTypes, RepSt
  DEF DeviceDone, Types, TriedInv, Settled, Turn, Cur, RepInv, Update, workVars
<1>15. CASE Reannounced
  BY <1>15, CurTypes, OptTypes
  DEF Reannounced, Types, TriedInv, Settled, Turn, Cur, RepInv, Update, workVars, resVars
<1>16. CASE ReannounceTimesOut
  BY <1>16, CurTypes, OptTypes, RepSt
  DEF ReannounceTimesOut, Types, TriedInv, Settled, Turn, Cur, RepInv, Update, workVars
<1>17. ASSUME NEW t \in BOOLEAN, AutoRestored(t) PROVE TriedInv'
  BY <1>17, CurTypes, OptTypes
  DEF AutoRestored, Types, TriedInv, Settled, Turn, Cur, RepInv, Update, workVars, resVars
<1>18. ASSUME NEW r \in BOOLEAN, NEW a \in BOOLEAN, ApClose(r, a) PROVE TriedInv'
  BY <1>18, CurTypes, OptTypes, RepClose
  DEF ApClose, Onward, Types, TriedInv, Settled, Turn, Cur, RepInv, Update
<1>19. ASSUME NEW f \in BOOLEAN, RestoreHostWifi(f) PROVE TriedInv'
  BY <1>19, OptTypes
  DEF RestoreHostWifi, Types, TriedInv, Settled, Turn, Cur, RepInv, Update, workVars
<1>20. CASE UNCHANGED <<pc, idx, opt, rep, cancel>>
  BY <1>20 DEF TriedInv, Settled, Turn, Cur, Update
<1>21. ASSUME \/ (\E n \in Nodes : Reboot(n))
             \/ (\E n \in Nodes : PowerCycle(n))
             \/ (\E n \in Nodes, a \in BOOLEAN : Announce(n, a))
             \/ (\E n \in Nodes : SubmitRestore(n))
             \/ (\E n \in Nodes : RestoreEnds(n))
             \/ (\E n \in Nodes : Bystander(n))
             \/ (\E off \in BOOLEAN : LinkLost(off))
      PROVE  UNCHANGED <<pc, idx, opt, rep, cancel>>
  BY <1>21
  DEF Announce, Bystander, LinkLost, PowerCycle, Reboot, RestoreEnds, SubmitRestore, Up, workVars,
      resVars
<1> QED
  BY <1>1, <1>2, <1>3, <1>4, <1>5, <1>6, <1>7, <1>8, <1>9, <1>10, <1>11, <1>12, <1>13, <1>14, <1>15,
     <1>16, <1>17, <1>18, <1>19, <1>20, <1>21
  DEF Next, Workflow, Radio, Host, Http, Loop, Outside

\* A turn ends with the access point closed, about to vanish, or accounted for.
LEMMA NextAp == ASSUME IInv, Next PROVE ApInv'
<1> USE DEF IInv
<1>1. ASSUME NEW o \in Options, Start(o) PROVE ApInv'
  BY <1>1, OptTypes
  DEF Start, Types, ApInv, Explained, RepInv, Turn, Cur, Update, nodeVars, resVars
<1>2. CASE EnsureWifi
  BY <1>2, OptTypes
  DEF EnsureWifi, Types, ApInv, Explained, RepInv, Turn, Cur, Update, workVars, nodeVars
<1>3. CASE NextDevice
  BY <1>3, OptTypes, RepSt
  DEF NextDevice, Types, ApInv, Explained, RepInv, Turn, Cur, Update, workVars, nodeVars
<1>4. ASSUME NEW r \in BOOLEAN, NEW a \in BOOLEAN, ApEnable(r, a) PROVE ApInv'
  BY <1>4, CurTypes, OptTypes, RepAcked
  DEF ApEnable, Types, ApInv, Explained, RepInv, Turn, Cur, Update
<1>5. CASE StepFails
  BY <1>5, CurTypes, OptTypes, RepSt
  DEF StepFails, Fail, Onward, Types, ApInv, Explained, RepInv, Turn, Cur, Update, nodeVars
<1>6. CASE ConnectBegins
  BY <1>6, CurTypes, OptTypes
  DEF ConnectBegins, Types, ApInv, Explained, RepInv, Turn, Cur, Update, nodeVars, resVars
<1>7. ASSUME NEW scan \in SUBSET cache, NEW c \in Nodes, Connect(scan, c) PROVE ApInv'
  BY <1>7, CurTypes, OptTypes
  DEF Connect, Types, ApInv, Explained, RepInv, Turn, Cur, Update, workVars, nodeVars, resVars
<1>8. CASE ConnectSwitchesOn
  BY <1>8, CurTypes, OptTypes
  DEF ConnectSwitchesOn, Types, ApInv, Explained, RepInv, Turn, Cur, Update, nodeVars, resVars
<1>9. CASE Info
  BY <1>9, CurTypes, OptTypes
  DEF Info, AfterInfo, Expected, Types, ApInv, Explained, RepInv, Turn, Cur, Update, nodeVars,
      resVars
<1>10. ASSUME NEW a \in BOOLEAN, UploadFile(a) PROVE ApInv'
  BY <1>10, CurTypes, OptTypes
  DEF UploadFile, Types, ApInv, Explained, RepInv, Turn, Cur, Update, workVars, resVars
<1>11. ASSUME NEW out \in {"ok", "lost", "no", "bail"}, UploadFw(out) PROVE ApInv'
  <2>1. link \in {None, Cur} /\ Cur \in Nodes /\ Cur' = Cur /\ Update' = Update
    BY <1>11, CurTypes DEF UploadFw, LinkInv, Turn, Cur, Update
  <2>2. boot \subseteq boot' /\ (out = "ok" => Cur \in boot')
    BY <1>11, <2>1 DEF UploadFw
  <2>3. pc' \in {"done", "failed", "fw"} /\ (pc' = "done" => out = "ok") /\ pc = "fw"
    BY <1>11 DEF UploadFw, Retry
  <2> QED
    BY <1>11, <2>1, <2>2, <2>3 DEF UploadFw, ApInv, Explained, Turn, resVars
<1>12. CASE Fetch
  BY <1>12, CurTypes, OptTypes, RepSt
  DEF Fetch, Types, ApInv, Explained, RepInv, Turn, Cur, Update
<1>13. CASE DeviceDone
  BY <1>13, CurTypes, OptTypes, RepSt
  DEF DeviceDone, Types, ApInv, Explained, RepInv, Turn, Cur, Update, workVars, nodeVars
<1>14. CASE Reannounced
  BY <1>14, CurTypes, OptTypes
  DEF Reannounced, Types, ApInv, Explained, RepInv, Turn, Cur, Update, workVars, nodeVars, resVars
<1>15. CASE ReannounceTimesOut
  BY <1>15, CurTypes, OptTypes, RepSt
  DEF ReannounceTimesOut, Types, ApInv, Explained, RepInv, Turn, Cur, Update, workVars, nodeVars
<1>16. ASSUME NEW t \in BOOLEAN, AutoRestored(t) PROVE ApInv'
  BY <1>16, CurTypes, OptTypes
  DEF AutoRestored, Types, ApInv, Explained, RepInv, Turn, Cur, Update, workVars, nodeVars, resVars
<1>17. ASSUME NEW r \in BOOLEAN, NEW a \in BOOLEAN, ApClose(r, a) PROVE ApInv'
  BY <1>17, CurTypes, OptTypes, RepClose
  DEF ApClose, Onward, Types, ApInv, Explained, RepInv, Turn, Cur, Update
<1>18. ASSUME NEW f \in BOOLEAN, RestoreHostWifi(f) PROVE ApInv'
  BY <1>18, OptTypes
  DEF RestoreHostWifi, Types, ApInv, Explained, RepInv, Turn, Cur, Update, workVars, nodeVars
<1>19. ASSUME NEW n \in Nodes, Reboot(n) PROVE ApInv'
  BY <1>19, OptTypes
  DEF Reboot, Up, Types, ApInv, Explained, RepInv, Turn, Cur, Update, workVars, resVars
<1>20. ASSUME NEW n \in Nodes, PowerCycle(n) PROVE ApInv'
  BY <1>20, OptTypes
  DEF PowerCycle, Up, Types, ApInv, Explained, RepInv, Turn, Cur, Update, workVars, resVars
<1>21. ASSUME NEW n \in Nodes, Bystander(n) PROVE ApInv'
  BY <1>21, OptTypes, CurTypes
  DEF Bystander, Types, ApInv, Explained, RepInv, Turn, Cur, Update, workVars, resVars
<1>22. CASE UNCHANGED <<pc, idx, opt, rep, ap, boot, opened>>
  BY <1>22 DEF ApInv, Explained, Turn, Cur, Update
<1>23. ASSUME \/ Cancel
             \/ (\E n \in Nodes, a \in BOOLEAN : Announce(n, a))
             \/ (\E n \in Nodes : SubmitRestore(n))
             \/ (\E n \in Nodes : RestoreEnds(n))
             \/ (\E off \in BOOLEAN : LinkLost(off))
      PROVE  UNCHANGED <<pc, idx, opt, rep, ap, boot, opened>>
  BY <1>23
  DEF Announce, Cancel, LinkLost, RestoreEnds, SubmitRestore, workVars, nodeVars, resVars
<1> QED
  BY <1>1, <1>2, <1>3, <1>4, <1>5, <1>6, <1>7, <1>8, <1>9, <1>10, <1>11, <1>12, <1>13, <1>14, <1>15,
     <1>16, <1>17, <1>18, <1>19, <1>20, <1>21, <1>22, <1>23
  DEF Next, Workflow, Radio, Host, Http, Loop, Outside


----------------------------------------------------------------------------
(* Theorems                                                                *)

LEMMA InitIInv == Init => IInv
<1> SUFFICES ASSUME Init PROVE IInv
  OBVIOUS
<1>1. Fresh \in Reports /\ Fresh.st = "queued"
  BY DEF Fresh, Reports
<1>2. \A n \in Nodes : rep[n].st = "queued"
  BY <1>1 DEF Init
<1>3. Types
  BY <1>1 DEF Init, Types, Places
<1>4. IdxInv /\ TriesInv /\ KindInv /\ LinkInv /\ RepInv
  BY <1>2, OtaAssumption DEF Init, IdxInv, TriesInv, KindInv, LinkInv, RepInv, Turn
<1>5. WrittenInv /\ FreshInv /\ TriedInv /\ ApInv /\ RadioInv
  BY DEF Init, WrittenInv, OkMeansWritten, FreshInv, TriedInv, ApInv, RadioInv, Turn
<1> QED
  BY <1>3, <1>4, <1>5 DEF IInv

LEMMA NextIInv == IInv /\ [Next]_vars => IInv'
<1>1. ASSUME IInv, Next PROVE IInv'
  BY <1>1, NextTypes, NextIdx, NextTries, NextKind, NextLink, NextRep, NextWritten, NextFresh,
     NextTried, NextAp, NextRadio DEF IInv
<1>2. ASSUME IInv, UNCHANGED vars PROVE IInv'
  BY <1>2
  DEF vars, workVars, wifiVars, nodeVars, idVars, resVars, ghostVars, IInv, Types, IdxInv, TriesInv,
      KindInv, LinkInv, RepInv, WrittenInv, OkMeansWritten, FreshInv, TriedInv, Settled, ApInv,
      Explained, RadioInv, Turn, Cur, Update, Tries
<1> QED
  BY <1>1, <1>2

LEMMA Invariance == Spec => []IInv
BY InitIInv, NextIInv, PTL DEF Spec

\* Every variable of the workflow holds what its declaration says; in particular
\* the tries stay within their limits, and the host is only ever on an access
\* point that is on the air, with its radio on.
THEOREM TypeCorrect == Spec => []TypeOK
<1>1. ASSUME IInv PROVE TypeOK
  <2>1. opt \in Options \cup {None}
    BY <1>1 DEF IInv, Types
  <2> QED
    BY <1>1, <2>1, CurTypes DEF IInv, Types, Places, Reports, IdxInv, TriesInv, LinkInv, Turn, TypeOK
<1> QED
  BY <1>1, Invariance, PTL

\* Whatever the scan showed, whichever BSSID the request named and whoever answered:
\* nothing is written to, and nothing is saved from, a node whose turn it is not.
THEOREM OnlyTheRightNode == Spec => RightNode
<1> DEFINE Right == \A n \in Nodes : written'[n] # written[n] \/ (saved' # saved /\ saved' = n)
                                       => pc \in {"file", "fw", "fetch"} /\ n = Cur
<1>1. ASSUME IInv, [Next]_vars PROVE [Right]_vars
  <2>1. CASE UNCHANGED <<written, saved>>
    BY <2>1
  <2>2. ASSUME NEW a \in BOOLEAN, UploadFile(a) PROVE Right
    BY <1>1, <2>2, OtaAssumption DEF UploadFile, IInv, Types, LinkInv
  <2>3. ASSUME NEW out \in {"ok", "lost", "no", "bail"}, UploadFw(out) PROVE Right
    BY <1>1, <2>3, OtaAssumption DEF UploadFw, IInv, Types, LinkInv
  <2>4. CASE Fetch
    BY <1>1, <2>4 DEF Fetch, IInv, LinkInv
  <2>5. ASSUME \/ \E o \in Options : Start(o)
               \/ Radio \/ Host \/ Info \/ Loop \/ Outside
        PROVE  UNCHANGED <<written, saved>>
    BY <2>5
    DEF Start, Radio, ApEnable, ApClose, Host, EnsureWifi, ConnectBegins, ConnectSwitchesOn, Connect,
        RestoreHostWifi, Info, Loop, NextDevice, StepFails, DeviceDone, Reannounced,
        ReannounceTimesOut, AutoRestored, Outside, Cancel, Reboot, PowerCycle, SubmitRestore,
        RestoreEnds, Bystander, Announce, LinkLost, nodeVars
  <2> QED
    BY <1>1, <2>1, <2>2, <2>3, <2>4, <2>5 DEF Next, Workflow, Http, vars, nodeVars
<1> QED
  BY <1>1, Invariance, PTL DEF Spec, RightNode

\* The report of a task is true: a device reported ok has everything that was asked
\* for, its reboot was seen in this turn, and no device of an update was passed over.
THEOREM ReportsAreTrue == Spec => []ReportIsTrue
<1>1. ASSUME IInv PROVE ReportIsTrue
  <2>1. ReannounceIsFresh
    BY <1>1 DEF IInv, FreshInv, ReannounceIsFresh
  <2>2. OkMeansWritten
    BY <1>1 DEF IInv, WrittenInv
  <2>3. EveryDeviceTried
    <3> SUFFICES ASSUME pc = "ended", Update, idx > 0, ~cancel, ~opt.stop, NEW n \in Range(opt.macs)
                 PROVE  Settled(n)
      BY DEF EveryDeviceTried, Settled
    <3>1. opt.macs \in Seq(Nodes)
      BY <1>1, OptTypes DEF IInv, Types
    <3>2. PICK j \in 1 .. Len(opt.macs) : n = opt.macs[j]
      BY <3>1 DEF Range
    <3> QED
      BY <1>1, <3>2 DEF IInv, TriedInv
  <2> QED
    BY <2>1, <2>2, <2>3 DEF ReportIsTrue
<1> QED
  BY <1>1, Invariance, PTL

\* However the task ended, no access point of its nodes is left on the air without
\* a reason the report shows, and the host's radio is as it was before.
THEOREM WorkflowCleansUp == Spec => []CleansUp
<1>1. ASSUME IInv PROVE CleansUp
  BY <1>1 DEF IInv, ApInv, Explained, Turn, RadioInv, CleansUp, NoApLeftBehind, WifiRestored
<1> QED
  BY <1>1, Invariance, PTL

=============================================================================
