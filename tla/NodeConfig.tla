------------------------------- MODULE NodeConfig -------------------------------
(***************************************************************************)
(* Node configuration: OPC_CONFIG writes, the stash that carries a write's *)
(* option from the sending thread to the RX thread, and what the host then *)
(* believes of the node.                                                   *)
(*                                                                         *)
(* send_config (gateway_service.py) stores option and data0 under the      *)
(* receiver's address before it sends; handle_ack_event pops that entry on *)
(* any successful CONFIG ACK of that sender and copies it into the         *)
(* configByte mirror.  An ACK names neither option nor attempt.  Above it: *)
(* /api/config (sent and forgotten), the special_config task, the          *)
(* startblock and reset-overrides actions, the clear-master-persist task,  *)
(* and the read-back and import of the specials dialog.                    *)
(*                                                                         *)
(* Node and radio are external: a frame may be lost, arrive late or after  *)
(* a retry, the node may refuse an option, and its answer may be lost.     *)
(* Answers of one node arrive in the order it sent them.                   *)
(***************************************************************************)
EXTENDS Naturals, Sequences, FiniteSets

CONSTANTS
    Callers,      \* host threads: web requests and the task thread
    DeviceList,   \* device_repository.list(): the members, in order
    Inputs,       \* the options and values the operator asks for
    None,
    MaxCalls,     \* bound: operations over a behaviour
    MaxStatus,    \* bound: STATUS replies over a behaviour
    MaxAttempts   \* UNICAST_MAX_ATTEMPTS

Devices == {DeviceList[i] : i \in DOMAIN DeviceList}

\* Options 0x01 and 0x03 have a bit in configByte (0x04 is like 0x01); 0x80
\* stands for the commands without one; 0x8C, 0x8D and the WLED options are
\* kept in dev.specials; 0x0F resets the WLED ones.
Bits == {"filter", "persist"}
Keys == {"slots", "first", "wled"}
Wide == {"wled"}
Options == Bits \cup Keys \cup {"forget", "reset"}

\* The bounds of the option table.
MaxValue(o) == IF o \in Wide THEN 65535 ELSE IF o \in Bits THEN 1 ELSE 255

ASSUME CallersAssumption ==
    None \notin Callers \cup {"ok", "nak"} \cup [opt : Options, val : 0 .. 255]
ASSUME DevicesAssumption == DeviceList \in Seq(Devices)
ASSUME InputsAssumption == Inputs \subseteq [opt : Options, val : Nat]
ASSUME BoundAssumption == MaxAttempts \in Nat \ {0} /\ MaxCalls \in Nat /\ MaxStatus \in Nat

VARIABLES
    job,       \* each thread: what it does and how far it is
    running,   \* TaskManager: the thread that holds the task slot
    stash,     \* _pending_config
    config,    \* configByte of the device records, by bit
    specials,  \* dev.specials
    readback,  \* what the dialog of a browser last read from a node
    released,  \* the "cleared" list of the last clear-master-persist, less what
               \* the operator has pinned again since
    kept,      \* its "skipped" and "failed" lists
    node,      \* the registers of the nodes
    air,       \* frames on their way to a node
    up,        \* answers of a node, in order
    matched,   \* the RX thread is between try_match and handle_ack_event
    executed,  \* history: writes the node has carried out
    unheard,   \* history: bits a node has changed with no answer since
    disturbed, \* history: nodes with overlapping writes
    calls,     \* operations, writes and status replies so far
    writes,
    reports

hostVars == << job, running, stash, config, specials, readback, released, kept >>
histVars == << executed, unheard, disturbed, calls, writes, reports >>
vars == << hostVars, node, air, up, matched, histVars >>

----------------------------------------------------------------------------
(* Values on the wire                                                      *)

\* pack_option_value: little-endian, one byte for a narrow option.
Pack(o, v) == IF o \in Wide THEN << v % 256, (v \div 256) % 256 >> ELSE << v % 256, 0 >>

\* unpack_option_value, and the firmware's reading of P_Config.
Unpack(o, data) == IF o \in Wide THEN data[1] + 256 * data[2] ELSE data[1]

\* The registers after a write: 0x0F takes the WLED options back to their
\* defaults, 0x80 touches none.
Written(regs, o, v) ==
    [r \in DOMAIN regs |-> IF r = o THEN v ELSE IF o = "reset" /\ r = "wled" THEN 0 ELSE regs[r]]

\* apply_config_update: an option without a bit changes nothing.
ApplyConfigUpdate(bits, s) == Written(bits, s.opt, s.val)

----------------------------------------------------------------------------
(* State                                                                   *)

\* validate_option_value, and data0 of the option table.
Valid(w) == w.val <= MaxValue(w.opt)

InputValues == {0, 1} \cup {w.val : w \in Inputs}
Writes == [dev : Devices, opt : Options, val : InputValues]
Steps == {"idle", "stash", "send", "wait", "store"}
NoJob == [kind |-> None, steps |-> << >>, i |-> 0, pc |-> "idle", attempt |-> 1,
          id |-> 0, got |-> None]

Current(c) == job[c].steps[job[c].i]
Waits(c) == job[c].kind # "config"

TypeOK ==
    /\ \A c \in Callers :
          /\ job[c].pc \in Steps
          /\ job[c].attempt \in 1 .. MaxAttempts
          /\ job[c].got \in {None, "ok", "nak"}
          /\ job[c].pc # "idle" => job[c].i \in DOMAIN job[c].steps /\ Current(c) \in Writes
    /\ running \in Callers \cup {None}
    /\ stash \in [Devices -> [opt : Options, val : 0 .. 255] \cup {None}]
    /\ config \in [Devices -> [Bits -> {0, 1}]]
    /\ specials \in [Devices -> [Keys -> InputValues]]
    /\ node \in [Devices -> [Bits \cup Keys -> InputValues]]
    /\ released \cup kept \cup disturbed \subseteq Devices
    /\ matched \in [Devices -> BOOLEAN]

\* The host has heard the nodes' status, and stores the registers' defaults.
Init ==
    /\ job = [c \in Callers |-> NoJob]
    /\ running = None
    /\ stash = [d \in Devices |-> None]
    /\ config = [d \in Devices |-> [b \in Bits |-> 1]]
    /\ specials = [d \in Devices |-> [k \in Keys |-> 0]]
    /\ node = [d \in Devices |-> [r \in Bits \cup Keys |-> IF r \in Bits THEN 1 ELSE 0]]
    /\ readback = None
    /\ released = {} /\ kept = {}
    /\ air = {}
    /\ up = [d \in Devices |-> << >>]
    /\ matched = [d \in Devices |-> FALSE]
    /\ executed = {}
    /\ unheard = [d \in Devices |-> {}]
    /\ disturbed = {}
    /\ calls = 0 /\ writes = 0 /\ reports = 0

----------------------------------------------------------------------------
(* The operations                                                          *)

Write(d, o, v) == [dev |-> d, opt |-> o, val |-> v]

\* clear-master-persist: every member in turn, and 0x80 after 0x03 when
\* forget_master is asked for.
ClearSteps(forget) ==
    IF forget
    THEN [i \in 1 .. 2 * Len(DeviceList) |->
             IF i % 2 = 1 THEN Write(DeviceList[(i + 1) \div 2], "persist", 0)
             ELSE Write(DeviceList[i \div 2], "forget", 1)]
    ELSE [i \in DOMAIN DeviceList |-> Write(DeviceList[i], "persist", 0)]

\* The inputs for an option of a set, as a write to a device.
Asked(d, S) == {Write(d, w.opt, w.val) : w \in {w \in Inputs : w.opt \in S /\ Valid(w)}}

\* /api/config: one option of the command table.
ConfigSteps(d) == {<< w >> : w \in Asked(d, Bits \cup {"forget"})}
\* /api/specials/config: one option that is kept in dev.specials.
SpecialSteps(d) == {<< w >> : w \in Asked(d, Keys)}
\* send_startblock_config: 0x8C, then 0x8D.
StartblockSteps(d) == {<< v, w >> : v \in Asked(d, {"slots"}), w \in Asked(d, {"first"})}
\* sendWledResetOverrides: 0x0F.
ResetSteps(d) == {<< Write(d, "reset", 0) >>}

\* The writes of a request of each kind; the two actions of the specials
\* dialog are looked up in the option table, and a network without members
\* has nothing to clear.
Requests == [config |-> UNION {ConfigSteps(d) : d \in Devices},
             special |-> UNION {SpecialSteps(d) : d \in Devices},
             startblock |-> UNION {StartblockSteps(d) : d \in Devices},
             reset |-> UNION {ResetSteps(d) : d \in Devices},
             clear |-> {ClearSteps(forget) : forget \in {f \in BOOLEAN : DeviceList # << >>}}]

\* A request passes its checks: no task is running; special_config and
\* clear-master-persist start as the task, the others run in the request
\* thread and leave the slot alone.
Begin(c) ==
    /\ job[c].pc = "idle"
    /\ calls < MaxCalls
    /\ running = None
    /\ \E kind \in DOMAIN Requests : \E s \in Requests[kind] :
          /\ job' = [job EXCEPT ![c] = [NoJob EXCEPT !.kind = kind, !.steps = s, !.i = 1, !.pc = "stash"]]
          /\ running' = IF kind \in {"special", "clear"} THEN c ELSE running
          /\ released' = IF kind = "clear" THEN {} ELSE released
          /\ kept' = IF kind = "clear" THEN {} ELSE kept
    /\ calls' = calls + 1
    /\ UNCHANGED << stash, config, specials, readback, node, air, up, matched, executed, unheard,
                    disturbed, writes, reports >>

\* The thread returns; a task gives the slot back.
Ends(c) ==
    /\ job' = [job EXCEPT ![c] = NoJob]
    /\ running' = IF running = c THEN None ELSE running

\* The next write of the operation, or none.
Advance(c, i) ==
    IF i \in DOMAIN job[c].steps
    THEN /\ job' = [job EXCEPT ![c] = [@ EXCEPT !.i = i, !.pc = "stash", !.attempt = 1, !.got = None]]
         /\ UNCHANGED running
    ELSE Ends(c)

\* A write of clear-master-persist has ended.  No ACK for 0x03 skips the
\* member; the result of 0x80 is not looked at; an exception lists it as
\* failed.
EndClear(c, outcome) ==
    LET w == Current(c)
        last == w.opt = "forget" \/ Len(job[c].steps) = Len(DeviceList)
        lost == outcome = "raised" \/ (outcome = "no" /\ w.opt = "persist")
    IN  /\ released' = IF last /\ ~lost THEN released \cup {w.dev} ELSE released
        /\ kept' = IF lost THEN kept \cup {w.dev} ELSE kept
        /\ Advance(c, IF last \/ ~lost THEN job[c].i + 1 ELSE job[c].i + 2)

\* Mutant of EndWrite: only the last write of startblock has to succeed.
EndWriteLastOnly(c, outcome) ==
    IF job[c].kind = "clear" THEN EndClear(c, outcome)
    ELSE /\ IF job[c].kind = "config" \/ (outcome # "ok" /\ job[c].i = Len(job[c].steps)) THEN Ends(c)
            ELSE IF job[c].i < Len(job[c].steps) THEN Advance(c, job[c].i + 1)
            ELSE job' = [job EXCEPT ![c].pc = "store"] /\ UNCHANGED running
         /\ UNCHANGED << released, kept >>

\* send_config has returned to the operation: the special writes go on only
\* when it was acknowledged, and store the values after the last one.
EndWrite(c, outcome) ==
    IF job[c].kind = "clear" THEN EndClear(c, outcome)
    ELSE /\ IF job[c].kind = "config" \/ outcome # "ok" THEN Ends(c)
            ELSE IF job[c].i < Len(job[c].steps) THEN Advance(c, job[c].i + 1)
            ELSE job' = [job EXCEPT ![c].pc = "store"] /\ UNCHANGED running
         /\ UNCHANGED << released, kept >>

----------------------------------------------------------------------------
(* send_config                                                             *)

\* Another thread is between its first stash and its end for the device.
Using(c, d) == /\ job[c].pc # "idle"
               /\ Current(c).dev = d
               /\ job[c].pc # "stash" \/ job[c].i > 1

\* A write to the device, or its answer, is still outstanding.
Outstanding(d) == \/ \E f \in air : f.dev = d
                  \/ \E i \in DOMAIN up[d] : up[d][i].type = "ack"

\* Route the write and stash option and data0 before sending it.
Stash(c) ==
    LET w == Current(c)
    IN  /\ job[c].pc = "stash"
        /\ stash' = [stash EXCEPT ![w.dev] = [opt |-> w.opt, val |-> Pack(w.opt, w.val)[1]]]
        /\ job' = [job EXCEPT ![c].pc = "send", ![c].id = writes + 1]
        /\ writes' = writes + 1
        /\ disturbed' = IF Outstanding(w.dev) \/ \E b \in Callers \ {c} : Using(b, w.dev)
                        THEN disturbed \cup {w.dev} ELSE disturbed
        /\ released' = released \ {x \in {w.dev} : w.opt = "persist" /\ w.val = 1}
        /\ UNCHANGED << running, config, specials, readback, kept, node, air, up, matched, executed,
                        unheard, calls, reports >>

\* No transport is attached: the write is refused before it is stashed.
Refuse(c) ==
    /\ job[c].pc = "stash"
    /\ EndWrite(c, "no")
    /\ UNCHANGED << stash, config, specials, readback, node, air, up, matched, histVars >>

\* One attempt: the matcher is registered, the frame sent; it may be lost.
\* A write that is not waited for ends here.
Send(c) ==
    LET w == Current(c)
        frame == [dev |-> w.dev, opt |-> w.opt, data |-> Pack(w.opt, w.val), id |-> job[c].id,
                  attempt |-> job[c].attempt]
    IN  /\ job[c].pc = "send"
        /\ \E lost \in BOOLEAN : air' = IF lost THEN air ELSE air \cup {frame}
        /\ IF Waits(c) THEN /\ job' = [job EXCEPT ![c].pc = "wait"]
                            /\ UNCHANGED << running, released, kept >>
                       ELSE EndWrite(c, "ok")
        /\ UNCHANGED << stash, config, specials, readback, node, up, matched, histVars >>

\* The transport raises; the stash stays.
SendRaises(c) ==
    /\ job[c].pc = "send"
    /\ EndWrite(c, "raised")
    /\ UNCHANGED << stash, config, specials, readback, node, air, up, matched, histVars >>

\* Mutant of Acknowledged: any answer counts.
AcknowledgedAnyhow(c) == job[c].got # None

\* send_config: the last reply has ack_status 0.
Acknowledged(c) == job[c].got = "ok"

\* The wait ends with a reply or on its deadline; without one the attempt is
\* repeated (RequestReply has the matchers and the retries in detail).
WaitEnds(c) ==
    /\ job[c].pc = "wait"
    /\ IF job[c].got = None /\ job[c].attempt < MaxAttempts
       THEN /\ job' = [job EXCEPT ![c].pc = "send", ![c].attempt = @ + 1]
            /\ UNCHANGED << running, released, kept >>
       ELSE EndWrite(c, IF Acknowledged(c) THEN "ok" ELSE "no")
    /\ UNCHANGED << stash, config, specials, readback, node, air, up, matched, histVars >>

\* The specials an operation stores, by its writes (write_specials keeps 16
\* bits).
Stored(regs, steps) ==
    LET After(i) == IF i \in DOMAIN steps THEN steps[i].val % 65536 ELSE 0
    IN  IF Len(steps) = 1 THEN Written(regs, steps[1].opt, After(1))
        ELSE Written(Written(regs, steps[1].opt, After(1)), steps[2].opt, After(2))

\* write_specials, the startblock specials or the WLED defaults, and
\* save_to_db, whose failure changes nothing here.
Store(c) ==
    /\ job[c].pc = "store"
    /\ specials' = [specials EXCEPT ![Current(c).dev] = Stored(@, job[c].steps)]
    /\ Ends(c)
    /\ UNCHANGED << stash, config, readback, released, kept, node, air, up, matched, histVars >>

----------------------------------------------------------------------------
(* The dialog: /api/specials/get and /api/specials/config/import           *)

\* read_config: the node's value when it answers; GET_CONFIG_REPLY names its
\* option.
ReadBack ==
    /\ calls < MaxCalls
    /\ \E d \in Devices, k \in Keys \cap {w.opt : w \in Inputs} :
          readback' = [dev |-> d, key |-> k, val |-> Unpack(k, Pack(k, node[d][k]))]
    /\ calls' = calls + 1
    /\ UNCHANGED << job, running, stash, config, specials, released, kept, node, air, up, matched,
                    executed, unheard, disturbed, writes, reports >>

\* The operator adopts what the dialog shows, whatever has happened since.
Import ==
    /\ readback # None
    /\ running = None
    /\ specials' = [specials EXCEPT ![readback.dev][readback.key] = readback.val]
    /\ readback' = None
    /\ UNCHANGED << job, running, stash, config, released, kept, node, air, up, matched, histVars >>

----------------------------------------------------------------------------
(* The RX thread: on_transport_event                                       *)

\* The threads whose matcher accepts a CONFIG ACK of the device.
Waiters(d) == {c \in Callers : job[c].pc \in {"send", "wait"} /\ Waits(c) /\ Current(c).dev = d}

\* try_match first: a waiting thread gets the reply and may run on.
RxMatch(d) ==
    /\ up[d] # << >> /\ Head(up[d]).type = "ack"
    /\ ~matched[d]
    /\ matched' = [matched EXCEPT ![d] = TRUE]
    /\ \/ /\ Waiters(d) = {} /\ UNCHANGED job
       \/ \E c \in Waiters(d) : job' = [job EXCEPT ![c].got = Head(up[d]).status]
    /\ UNCHANGED << running, stash, config, specials, readback, released, kept, node, air, up, histVars >>

\* Mutant of HandleAck: a refused option is committed like an accepted one.
HandleAckAnyStatus(d) ==
    /\ matched[d]
    /\ stash' = [stash EXCEPT ![d] = None]
    /\ config' = IF stash[d] # None THEN [config EXCEPT ![d] = ApplyConfigUpdate(@, stash[d])]
                 ELSE config
    /\ up' = [up EXCEPT ![d] = Tail(@)]
    /\ matched' = [matched EXCEPT ![d] = FALSE]
    /\ UNCHANGED << job, running, specials, readback, released, kept, node, air, histVars >>

\* handle_ack_event: a successful ACK pops the stash of its sender and
\* apply_config_update sets the option's bit, if it has one.
HandleAck(d) ==
    /\ matched[d]
    /\ IF Head(up[d]).status = "ok" /\ stash[d] # None
       THEN /\ stash' = [stash EXCEPT ![d] = None]
            /\ config' = [config EXCEPT ![d] = ApplyConfigUpdate(@, stash[d])]
       ELSE UNCHANGED << stash, config >>
    /\ up' = [up EXCEPT ![d] = Tail(@)]
    /\ matched' = [matched EXCEPT ![d] = FALSE]
    /\ UNCHANGED << job, running, specials, readback, released, kept, node, air, histVars >>

\* update_from_status: the configByte of a STATUS reply replaces the mirror.
HandleStatus(d) ==
    /\ up[d] # << >> /\ Head(up[d]).type = "status"
    /\ config' = [config EXCEPT ![d] = Head(up[d]).config]
    /\ up' = [up EXCEPT ![d] = Tail(@)]
    /\ UNCHANGED << job, running, stash, specials, readback, released, kept, node, air, matched, histVars >>

----------------------------------------------------------------------------
(* Nodes and radio (external)                                              *)

\* A node carries a write out, or refuses it, and answers; the answer may be
\* lost.
NodeAnswers(f) ==
    /\ air' = air \ {f}
    /\ \E status \in {"ok", "nak"}, lost \in BOOLEAN :
          LET regs == IF status = "ok" THEN Written(node[f.dev], f.opt, Unpack(f.opt, f.data))
                      ELSE node[f.dev]
          IN  /\ node' = [node EXCEPT ![f.dev] = regs]
              /\ executed' = IF status = "ok" THEN executed \cup {f.id} ELSE executed
              /\ up' = IF lost THEN up
                       ELSE [up EXCEPT ![f.dev] = Append(@, [type |-> "ack", status |-> status])]
              /\ unheard' = [unheard EXCEPT ![f.dev] =
                    IF lost /\ regs # node[f.dev] THEN @ \cup ({f.opt} \cap Bits)
                    ELSE IF ~lost /\ status = "ok" THEN @ \ {f.opt} ELSE @]
    /\ UNCHANGED << hostVars, matched, disturbed, calls, writes, reports >>

\* A node answers a status request; the report may be lost as well, which
\* changes nothing.
NodeReports(d) ==
    /\ reports < MaxStatus
    /\ reports' = reports + 1
    /\ up' = [up EXCEPT ![d] = Append(@, [type |-> "status", config |-> [b \in Bits |-> node[d][b]]])]
    /\ unheard' = [unheard EXCEPT ![d] = {}]
    /\ UNCHANGED << hostVars, node, air, matched, executed, disturbed, calls, writes >>

----------------------------------------------------------------------------
Caller(c) == \/ Begin(c) \/ Stash(c) \/ Refuse(c) \/ Send(c) \/ SendRaises(c) \/ WaitEnds(c)
             \/ Store(c)
Rx(d) == RxMatch(d) \/ HandleAck(d) \/ HandleStatus(d)

Next == \/ \E c \in Callers : Caller(c)
        \/ \E d \in Devices : Rx(d) \/ NodeReports(d)
        \/ \E f \in air : NodeAnswers(f)
        \/ ReadBack
        \/ Import

Spec == Init /\ [][Next]_vars

----------------------------------------------------------------------------
(* Properties                                                              *)

\* As long as writes to a node do not overlap each other or a late answer,
\* the configByte mirror (gateway_service.py: handle_ack_event,
\* config_service.py: apply_config_update) says what the node holds, except
\* for a bit whose answer was lost: retries, refused options and left-over
\* stashes never put a value there that the node does not have.
MirrorExplained ==
    \A d \in Devices \ disturbed : up[d] = << >> =>
        \A b \in Bits \ unheard[d] : config[d][b] = node[d][b]

\* An undisturbed write that send_config reports as acknowledged was carried
\* out by the node, although an ACK names no request.
AcknowledgedIsExecuted ==
    \A c \in Callers : /\ job[c].pc = "wait"
                       /\ Acknowledged(c)
                       /\ Current(c).dev \notin disturbed
                       => job[c].id \in executed

\* A device the clear-master-persist task lists as cleared is released on
\* the node, until the operator pins it again (api.py:
\* api_network_clear_master_persist).
ClearedIsReleased ==
    \A d \in released \ disturbed : node[d]["persist"] = 0

\* What the host tells its operator of a write is true: an acknowledgement
\* means execution, and the cleared list means released nodes.
AnswersAreTrue == AcknowledgedIsExecuted /\ ClearedIsReleased

\* What the host stores after an ACK is what the node holds at that time,
\* for both registers of a startblock and for the reset of the WLED options
\* (api.py: do_special_config; startblock_service.py; controller.py:
\* sendWledResetOverrides).
StoredIsOnNode ==
    [][\A c \in Callers :
          LET d == Current(c).dev
              touched == IF job[c].kind = "reset" THEN {"wled"}
                         ELSE {job[c].steps[i].opt : i \in DOMAIN job[c].steps}
          IN  Store(c) /\ d \notin disturbed
                => \A k \in touched : specials'[d][k] = node[d][k]]_vars

\* The comment of the clear-master-persist route (api.py:1068): "No ACK means
\* the node never heard us; its pin is still in place."  Not so when only
\* the answer was lost.
SkippedKeepsPin == \A d \in kept : node[d]["persist"] = 1

\* The mirror without the exemption: what stash_pending_config and
\* take_pending_config promise (controller.py:2139-2165, "duplicate ACK ...
\* returns None").  A late or duplicate ACK commits the option of the next
\* write, and after try_match the waiting thread may stash its next option
\* before handle_ack_event pops the one the ACK was for.
MirrorAlways ==
    \A d \in Devices : up[d] = << >> /\ air = {} /\ stash[d] = None =>
        \A b \in Bits \ unheard[d] : config[d][b] = node[d][b]

================================================================================
