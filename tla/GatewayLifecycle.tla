--------------------------- MODULE GatewayLifecycle ---------------------------
(***************************************************************************)
(* How gateways come and go: discovery, attach, detach and the reconnect   *)
(* poll.  racelink/controller.py (discoverPort, soft_rediscover,           *)
(* _attach_transport, _close_all_transports, shutdown),                    *)
(* racelink/services/missing_transport_tracker.py,                         *)
(* GatewayService._detach_one_transport and the routes                     *)
(* /api/gateway/{rediscover,cancel-reconnect,retry} of web/api.py.         *)
(*                                                                         *)
(* None of the discovery code holds a lock over _transports: the poll      *)
(* timer, web requests and the RX threads of dying transports interleave   *)
(* at every step.  Only the tracker's own state is behind a lock.          *)
(*                                                                         *)
(* A USB port is identified with the gateway plugged into it, every        *)
(* network is bound to its gateway, and no port is pinned (rl_comms_port   *)
(* empty).  USB and cable are external.                                    *)
(***************************************************************************)
EXTENDS Naturals, FiniteSets

CONSTANTS
    Macs,         \* gateways, each the gateway_mac of a network
    Threads,      \* host threads that can be inside a discovery
    Slots,        \* bound: transport objects at one time
    Polls,        \* bound: poll timers at one time
    Operator,     \* requests the operator makes
    MaxRequests,  \* bound: operator requests over a behaviour
    MaxUnplugs,   \* bound: cables pulled over a behaviour
    NoSlot, NoTimer

ASSUME OperatorAssumption == Operator \subseteq {"rediscover", "retry", "cancel", "shutdown"}
ASSUME BoundsAssumption == MaxRequests \in Nat /\ MaxUnplugs \in Nat
ASSUME NoneAssumption == NoSlot \notin Slots /\ NoTimer \notin Polls

VARIABLES
    plugged,    \* gateways that are plugged in
    mac,        \* ident_mac of each transport object
    stage,      \* life of each transport object
    broken,     \* transport objects whose port is gone
    hooked,     \* transport objects with on_transport_event as listener
    attached,   \* _transports
    ready,      \* controller.ready
    timer,      \* tracker._timer
    polls,      \* poll timers that are started and neither fired nor cancelled
    cancelled,  \* tracker._cancelled_macs
    down,       \* _shutdown
    th,         \* what each host thread is doing
    requests, unplugs,
    twice       \* history: gateways two discoveries attached at once

trVars == << mac, stage, broken, hooked, attached >>
pollVars == << timer, polls >>
envVars == << plugged, requests, unplugs >>
hostVars == << plugged, mac, stage, broken, hooked, attached, ready, timer, polls, cancelled,
               down, th, requests, unplugs >>
vars == << hostVars, twice >>

----------------------------------------------------------------------------
\* Life of a transport object: not in use, opened, its reader running, its
\* reader ended with EV_ERROR, asked to stop by close().
Stages == {"closed", "open", "running", "dead", "closing"}

Jobs == {"none", "boot", "poll", "rediscover", "retry"}
Steps == {"idle", "fire", "ports", "close", "probe", "filter", "next", "check", "start",
          "append", "hook", "bind", "state", "clear", "evaluate"}
ThreadStates == [job : Jobs, pc : Steps, found : SUBSET Macs, cur : Slots \cup {NoSlot},
                 opened : BOOLEAN]
IdleThread == [job |-> "none", pc |-> "idle", found |-> {}, cur |-> NoSlot, opened |-> FALSE]
Begins(job, pc) == [IdleThread EXCEPT !.job = job, !.pc = pc]

HostTypeOK ==
    /\ plugged \subseteq Macs
    /\ mac \in [Slots -> Macs]
    /\ stage \in [Slots -> Stages]
    /\ broken \subseteq Slots
    /\ hooked \subseteq Slots
    /\ attached \subseteq Slots
    /\ ready \in BOOLEAN
    /\ timer \in Polls \cup {NoTimer}
    /\ polls \subseteq Polls
    /\ cancelled \subseteq Macs
    /\ down \in BOOLEAN
    /\ th \in [Threads -> ThreadStates]
    /\ requests \in 0 .. MaxRequests
    /\ unplugs \in 0 .. MaxUnplugs

TypeOK == HostTypeOK /\ twice \subseteq Macs

\* onStartup runs discoverPort on one thread.
Init ==
    /\ plugged \in SUBSET Macs
    /\ \E m \in Macs : mac = [i \in Slots |-> m]
    /\ stage = [i \in Slots |-> "closed"]
    /\ broken = {}
    /\ hooked = {}
    /\ attached = {}
    /\ ready = FALSE
    /\ timer = NoTimer
    /\ polls = {}
    /\ cancelled = {}
    /\ down = FALSE
    /\ \E b \in Threads :
          th = [t \in Threads |-> IF t = b THEN Begins("boot", "close") ELSE IdleThread]
    /\ requests = 0
    /\ unplugs = 0
    /\ twice = {}

----------------------------------------------------------------------------
(* The tracker                                                             *)

AttachedMacs(att) == {mac[i] : i \in att}

\* missing_macs: expected, not attached, not cancelled.
MissingMacs(att, canc) == (Macs \ AttachedMacs(att)) \ canc

\* _arm_locked
Arm == \E p \in Polls \ polls : timer' = p /\ polls' = polls \cup {p}

\* _cancel_timer_locked
CancelTimer == timer' = NoTimer /\ polls' = polls \ {timer}

\* Mutant of EvaluateAndArm: the shutdown flag is not looked at.
EvaluateIgnoresShutdown(att, canc) ==
    IF MissingMacs(att, canc) = {} THEN CancelTimer
    ELSE IF timer = NoTimer THEN Arm
    ELSE UNCHANGED pollVars

\* evaluate_and_arm, under the tracker's lock.
EvaluateAndArm(att, canc) ==
    IF down \/ MissingMacs(att, canc) = {} THEN CancelTimer
    ELSE IF timer = NoTimer THEN Arm
    ELSE UNCHANGED pollVars

\* A poll timer runs out: its callback thread starts and asks for the lock.
PollFire(t) ==
    /\ th[t].pc = "idle"
    /\ \E p \in polls : polls' = polls \ {p}
    /\ th' = [th EXCEPT ![t] = Begins("poll", "fire")]
    /\ UNCHANGED << plugged, trVars, ready, timer, cancelled, down, requests, unplugs >>

\* _fire: whatever timer is registered is dropped; then soft_rediscover, if
\* something is missing.
Fire(t) ==
    /\ th[t].pc = "fire"
    /\ timer' = NoTimer
    /\ th' = [th EXCEPT ![t] = IF down THEN IdleThread
                               ELSE IF MissingMacs(attached, cancelled) = {}
                               THEN [@ EXCEPT !.pc = "evaluate"]
                               ELSE [@ EXCEPT !.pc = "ports"]]
    /\ UNCHANGED << envVars, trVars, ready, polls, cancelled, down >>

\* The evaluate_and_arm that ends a poll, a rediscover or a discovery.
Evaluate(t) ==
    /\ th[t].pc = "evaluate"
    /\ EvaluateAndArm(attached, cancelled)
    /\ th' = [th EXCEPT ![t] = IdleThread]
    /\ UNCHANGED << envVars, trVars, ready, cancelled, down >>

----------------------------------------------------------------------------
(* Finding gateways                                                        *)

At(t, pc) == th' = [th EXCEPT ![t].pc = pc]

\* soft_rediscover reads the ports it must not probe.
SoftPorts(t) ==
    /\ th[t].pc = "ports"
    /\ th' = [th EXCEPT ![t].pc = "probe", ![t].found = AttachedMacs(attached)]
    /\ UNCHANGED << envVars, trVars, ready, pollVars, cancelled, down >>

\* discoverPort: _close_all_transports joins the readers.
CloseAll(t) ==
    /\ th[t].pc = "close"
    /\ attached' = {}
    /\ stage' = [i \in Slots |-> IF i \in attached THEN "closed" ELSE stage[i]]
    /\ th' = [th EXCEPT ![t].pc = "probe", ![t].found = {}]
    /\ UNCHANGED << envVars, mac, broken, hooked, ready, pollVars, cancelled, down >>

\* enumerate_all; a port another thread is probing looks busy and is skipped.
Probe(t) ==
    /\ th[t].pc = "probe"
    /\ \E F \in SUBSET (plugged \ th[t].found) :
          /\ F # plugged \ th[t].found => \E u \in Threads \ {t} : th[u].pc = "probe"
          /\ th' = [th EXCEPT ![t].found = F,
                              ![t].pc = IF th[t].job \in {"boot", "retry"} THEN "next" ELSE "filter"]
    /\ UNCHANGED << envVars, trVars, ready, pollVars, cancelled, down >>

\* soft_rediscover skips what is attached by now and what is cancelled.
SoftFilter(t) ==
    /\ th[t].pc = "filter"
    /\ th' = [th EXCEPT ![t].pc = "next",
                        ![t].found = (@ \ AttachedMacs(attached)) \ cancelled]
    /\ UNCHANGED << envVars, trVars, ready, pollVars, cancelled, down >>

\* The loop over what was found: a transport object opens the port ...
OpenPort(t) ==
    /\ th[t].pc = "next"
    /\ \E m \in th[t].found \cap plugged, i \in Slots :
          /\ stage[i] = "closed"
          /\ i \notin attached
          /\ \A u \in Threads : th[u].cur # i
          /\ mac' = [mac EXCEPT ![i] = m]
          /\ stage' = [stage EXCEPT ![i] = "open"]
          /\ broken' = broken \ {i}
          /\ hooked' = hooked \ {i}
          /\ th' = [th EXCEPT ![t].pc = "check", ![t].cur = i, ![t].found = @ \ {m}]
    /\ UNCHANGED << envVars, attached, ready, pollVars, cancelled, down >>

\* ... or fails to, and the gateway is skipped.
OpenFails(t) ==
    /\ th[t].pc = "next"
    /\ \E m \in th[t].found \ plugged : th' = [th EXCEPT ![t].found = @ \ {m}]
    /\ UNCHANGED << envVars, trVars, ready, pollVars, cancelled, down >>

\* soft_rediscover is through and the tracker is evaluated by its caller.
SoftDone(t) ==
    /\ th[t].pc = "next"
    /\ th[t].found = {}
    /\ th[t].job \in {"poll", "rediscover"}
    /\ At(t, "evaluate")
    /\ UNCHANGED << envVars, trVars, ready, pollVars, cancelled, down >>

\* discoverPort is through: ready and the tracker evaluated, or
\* _record_gateway_error(NOT_FOUND) and an early return.  After the boot
\* discovery the web blueprint evaluates the tracker in any case.
DiscoverDone(t) ==
    /\ th[t].pc = "next"
    /\ th[t].found = {}
    /\ th[t].job \in {"boot", "retry"}
    /\ ready' = th[t].opened
    /\ th' = [th EXCEPT ![t] = IF th[t].opened \/ th[t].job = "boot"
                               THEN [@ EXCEPT !.pc = "evaluate"] ELSE IdleThread]
    /\ UNCHANGED << envVars, trVars, pollVars, cancelled, down >>

----------------------------------------------------------------------------
(* _attach_transport                                                       *)

\* The duplicate guard: a transport of the same ident_mac is attached.
AttachCheck(t) ==
    /\ th[t].pc = "check"
    /\ IF mac[th[t].cur] \in AttachedMacs(attached)
       THEN /\ stage' = [stage EXCEPT ![th[t].cur] = "closed"]
            /\ th' = [th EXCEPT ![t].pc = "next", ![t].cur = NoSlot, ![t].opened = TRUE]
       ELSE /\ UNCHANGED stage
            /\ At(t, "start")
    /\ UNCHANGED << envVars, mac, broken, hooked, attached, ready, pollVars, cancelled, down >>

\* start(): the reader thread runs, and nobody listens yet.
AttachStart(t) ==
    /\ th[t].pc = "start"
    /\ stage' = [stage EXCEPT ![th[t].cur] = "running"]
    /\ At(t, "append")
    /\ UNCHANGED << envVars, mac, broken, hooked, attached, ready, pollVars, cancelled, down >>

\* _transports.append
AttachAppend(t) ==
    /\ th[t].pc = "append"
    /\ attached' = attached \cup {th[t].cur}
    /\ At(t, "hook")
    /\ UNCHANGED << envVars, mac, stage, broken, hooked, ready, pollVars, cancelled, down >>

\* Mutant of AttachHook: only the first transport gets the listener.
AttachHookFirst(t) ==
    /\ th[t].pc = "hook"
    /\ hooked' = IF attached = {th[t].cur} THEN hooked \cup {th[t].cur} ELSE hooked
    /\ At(t, "bind")
    /\ UNCHANGED << envVars, mac, stage, broken, attached, ready, pollVars, cancelled, down >>

\* install_transport_hooks: on_transport_event hears the transport from here.
AttachHook(t) ==
    /\ th[t].pc = "hook"
    /\ hooked' = hooked \cup {th[t].cur}
    /\ At(t, "bind")
    /\ UNCHANGED << envVars, mac, stage, broken, attached, ready, pollVars, cancelled, down >>

\* close() of an attached transport, on a thread of its own.
CloseOf(s) == IF s \in {"running", "closing"} THEN "closing" ELSE "closed"

\* Mutant of Detach: the tracker is not told.
DetachSilently(i, after) ==
    IF i \in hooked /\ \E j \in attached : mac[j] = mac[i]
    THEN \E j \in attached :
            /\ mac[j] = mac[i]
            /\ attached' = attached \ {j}
            /\ stage' = [stage EXCEPT ![i] = after, ![j] = CloseOf(@)]
            /\ UNCHANGED pollVars
    ELSE /\ stage' = [stage EXCEPT ![i] = after]
         /\ UNCHANGED << attached, pollVars >>

\* EV_ERROR of object i -> _detach_one_transport: the transport that carries
\* the ident_mac is dropped, closed on a thread of its own, and the tracker
\* evaluated.  Without the listener the event is lost.
Detach(i, after) ==
    IF i \in hooked /\ \E j \in attached : mac[j] = mac[i]
    THEN \E j \in attached :
            /\ mac[j] = mac[i]
            /\ attached' = attached \ {j}
            /\ stage' = [stage EXCEPT ![i] = after, ![j] = CloseOf(@)]
            /\ EvaluateAndArm(attached \ {j}, cancelled)
    ELSE /\ stage' = [stage EXCEPT ![i] = after]
         /\ UNCHANGED << attached, pollVars >>

\* A write of the attaching thread (GET_RF_CONFIG of bind_service.evaluate,
\* then the state request): on a lost port _handle_disconnect emits EV_ERROR.
AttachWrite(t, pc, next) ==
    /\ th[t].pc = pc
    /\ IF th[t].cur \in broken \/ stage[th[t].cur] # "running"
       THEN Detach(th[t].cur, CloseOf(stage[th[t].cur]))
       ELSE UNCHANGED << stage, attached, pollVars >>
    /\ At(t, next)
    /\ UNCHANGED << envVars, mac, broken, hooked, ready, cancelled, down >>

AttachBind(t) == AttachWrite(t, "bind", "state")
AttachState(t) == AttachWrite(t, "state", "clear")

\* Mutant of AttachClear: ready is left as it was.
AttachClearNotReady(t) ==
    /\ th[t].pc = "clear"
    /\ th' = [th EXCEPT ![t].pc = "next", ![t].cur = NoSlot, ![t].opened = TRUE]
    /\ UNCHANGED << envVars, trVars, ready, pollVars, cancelled, down >>

\* _clear_gateway_error.
AttachClear(t) ==
    /\ th[t].pc = "clear"
    /\ ready' = TRUE
    /\ th' = [th EXCEPT ![t].pc = "next", ![t].cur = NoSlot, ![t].opened = TRUE]
    /\ UNCHANGED << envVars, trVars, pollVars, cancelled, down >>

----------------------------------------------------------------------------
(* RX threads and cable                                                    *)

\* The read of a lost port raises: EV_ERROR, on the reader's thread.
ReaderDies(i) ==
    /\ stage[i] \in {"running", "closing"}
    /\ i \in broken
    /\ Detach(i, IF stage[i] = "running" THEN "dead" ELSE "closed")
    /\ UNCHANGED << envVars, mac, broken, hooked, ready, cancelled, down, th >>

\* The reader of a transport being closed sees _stop.
ReaderStops(i) ==
    /\ stage[i] = "closing"
    /\ stage' = [stage EXCEPT ![i] = "closed"]
    /\ UNCHANGED << envVars, mac, broken, hooked, attached, ready, pollVars, cancelled, down, th >>

Unplug(m) ==
    /\ m \in plugged
    /\ unplugs < MaxUnplugs
    /\ unplugs' = unplugs + 1
    /\ plugged' = plugged \ {m}
    /\ broken' = broken \cup {i \in Slots : mac[i] = m /\ stage[i] # "closed"}
    /\ UNCHANGED << mac, stage, hooked, attached, ready, pollVars, cancelled, down, th, requests >>

Plug(m) ==
    /\ m \notin plugged
    /\ plugged' = plugged \cup {m}
    /\ UNCHANGED << trVars, ready, pollVars, cancelled, down, th, requests, unplugs >>

----------------------------------------------------------------------------
(* The operator                                                            *)

\* The web blueprint registers after the boot discovery.
Request(r) ==
    /\ r \in Operator
    /\ \A t \in Threads : th[t].job # "boot"
    /\ ~down
    /\ requests < MaxRequests
    /\ requests' = requests + 1

\* POST /api/gateway/rediscover: clear_cancelled, soft_rediscover, evaluate.
Rediscover(t) ==
    /\ Request("rediscover")
    /\ th[t].pc = "idle"
    /\ cancelled' = {}
    /\ EvaluateAndArm(attached, {})
    /\ th' = [th EXCEPT ![t] = Begins("rediscover", "ports")]
    /\ UNCHANGED << plugged, trVars, ready, down, unplugs >>

\* retry_gateway: discoverPort with origin manual.
RetryGateway(t) ==
    /\ Request("retry")
    /\ th[t].pc = "idle"
    /\ th' = [th EXCEPT ![t] = Begins("retry", "close")]
    /\ UNCHANGED << plugged, trVars, ready, pollVars, cancelled, down, unplugs >>

\* Mutant of CancelReconnect: the request for all is stored as an address.
CancelReconnectNone ==
    /\ Request("cancel")
    /\ \E C \in {{m} : m \in Macs} \cup {{NoSlot}} :
          /\ cancelled' = cancelled \cup C
          /\ EvaluateAndArm(attached, cancelled \cup C)
    /\ UNCHANGED << plugged, trVars, ready, down, th, unplugs >>

\* POST /api/gateway/cancel-reconnect, for one gateway or all that are
\* missing.
CancelReconnect ==
    /\ Request("cancel")
    /\ \E C \in {{m} : m \in Macs} \cup {Macs \ AttachedMacs(attached)} :
          /\ cancelled' = cancelled \cup C
          /\ EvaluateAndArm(attached, cancelled \cup C)
    /\ UNCHANGED << plugged, trVars, ready, down, th, unplugs >>

\* shutdown: the tracker first, then the transports.
Shutdown ==
    /\ Request("shutdown")
    /\ down' = TRUE
    /\ CancelTimer
    /\ attached' = {}
    /\ stage' = [i \in Slots |-> IF i \in attached THEN "closed" ELSE stage[i]]
    /\ UNCHANGED << plugged, mac, broken, hooked, ready, cancelled, th, unplugs >>

----------------------------------------------------------------------------
Discovery(t) == \/ Fire(t) \/ Evaluate(t) \/ SoftPorts(t) \/ CloseAll(t) \/ Probe(t)
                \/ SoftFilter(t) \/ OpenPort(t) \/ OpenFails(t) \/ SoftDone(t)
                \/ DiscoverDone(t) \/ AttachCheck(t) \/ AttachStart(t) \/ AttachAppend(t)
                \/ AttachHook(t) \/ AttachBind(t) \/ AttachState(t) \/ AttachClear(t)
Cable(m) == Unplug(m) \/ Plug(m)
Reader(i) == ReaderDies(i) \/ ReaderStops(i)

Step == \/ \E t \in Threads : PollFire(t) \/ Discovery(t) \/ Rediscover(t) \/ RetryGateway(t)
        \/ \E i \in Slots : Reader(i)
        \/ \E m \in Macs : Cable(m)
        \/ CancelReconnect
        \/ Shutdown

\* A gateway counts as attached twice from when a discovery appends a second
\* transport of it, as another passed the duplicate guard at the same time,
\* until none of its transports is attached.
Follow ==
    twice' = {m \in Macs : \E i \in attached' :
                 mac'[i] = m /\ (m \in twice \/ \E j \in attached' \ {i} : mac'[j] = m)}

Next == Step /\ Follow

Spec == Init /\ [][Next]_vars

\* Threads that can run do, timers run out, and a reader whose port is gone
\* finds out.
Fairness ==
    /\ \A t \in Threads : WF_hostVars(Discovery(t)) /\ WF_hostVars(PollFire(t))
    /\ \A i \in Slots : WF_hostVars(Reader(i))

FairSpec == Spec /\ Fairness

----------------------------------------------------------------------------
(* Properties                                                              *)

\* While an expected gateway is missing, a poll timer is running or a
\* discovery is under way that will see to it
\* (missing_transport_tracker.py: evaluate_and_arm, _fire).
MissingIsPolled ==
    MissingMacs(attached, cancelled) # {} /\ ~down
        => polls # {} \/ \E t \in Threads : th[t].pc # "idle"

\* Nobody runs a manual retry.
NoRetry == \A t \in Threads : th[t].job # "retry"

\* The poll never dies while a gateway is missing, unless the operator
\* retries by hand: a retry that finds nothing closes every transport and
\* returns without evaluating the tracker (retry_gateway, discoverPort), so
\* nothing is claimed of behaviours with one.
PolledUnlessRetried == []NoRetry => []MissingIsPolled

\* No attached transport is left with a reader that ended: as long as it is
\* attached, a thread is still attaching it and its next write will find out,
\* or another reader of that gateway can still report the loss
\* (_attach_transport, _detach_one_transport).  Excepted is a gateway that two
\* discoveries attached at once: _detach_one_transport looks a transport up by
\* its ident_mac and may drop the living one of two.
NoCorpse ==
    \A i \in attached :
        \/ mac[i] \in twice
        \/ \E j \in Slots : mac[j] = mac[i] /\ stage[j] \in {"running", "closing"}
        \/ \E t \in Threads : th[t].cur # NoSlot /\ mac[th[t].cur] = mac[i]

\* Unless the operator retries by hand, a gateway that stays plugged in and
\* is not cancelled ends up attached with a running reader, and the host
\* ready.
GatewayReturns ==
    []NoRetry =>
        \A m \in Macs :
            <>[](m \in plugged /\ m \notin cancelled /\ ~down)
                => <>[](ready /\ \E i \in attached : mac[i] = m /\ stage[i] = "running")

\* After shutdown nothing arms a poll timer, whatever thread was inside a
\* discovery at the time (evaluate_and_arm, MissingTransportTracker.shutdown).
NoPollAfterShutdown == [][down => polls' \subseteq polls]_vars

================================================================================
