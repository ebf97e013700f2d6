------------------------------ MODULE LinkExpect ------------------------------
(***************************************************************************)
(* How the host decides that a device is online or offline: the pending    *)
(* expectation of racelink/controller.py (set_pending_expect,              *)
(* read_pending_expect, clear_pending_expect_if) and its users in          *)
(* racelink/services/gateway_service.py (on_transport_tx,                  *)
(* on_transport_event, pending_try_match, pending_window_closed).          *)
(*                                                                         *)
(* A unicast request stamps one expectation per gateway, from the thread   *)
(* that sent it; the RX thread of the gateway drops it on a reply (device  *)
(* online) or on a state event that is not RX_WINDOW (device offline).     *)
(* The serial transport emits TX_M2N after the wait for the send outcome,  *)
(* the Ethernet transport before the datagram leaves.  Every lock-free gap *)
(* between reading a slot, marking the device and clearing the slot is a   *)
(* place where the threads interleave.                                     *)
(*                                                                         *)
(* Gateway firmware, devices and radio are external.                       *)
(***************************************************************************)
EXTENDS Naturals, Sequences

CONSTANTS
    Callers,     \* host threads that send unicast requests
    Devices,
    Gateways,    \* attached transports
    Ethernet,    \* the transports that are EthernetTransports
    Untagged,    \* serial transports whose ident_mac is None (pinned port)
    NoTag,       \* the key None of _pending_expect
    GatewayOf,   \* the transport that owns each device's network
    MaxSends     \* bound: requests over a behaviour

ASSUME GatewayOfAssumption == GatewayOf \in [Devices -> Gateways]
ASSUME KindAssumption == Ethernet \subseteq Gateways /\ Untagged \subseteq Gateways \ Ethernet
ASSUME NoTagAssumption == NoTag \notin Gateways
ASSUME MaxSendsAssumption == MaxSends \in Nat

VARIABLES
    phase,     \* where each sending thread is
    req,       \* its current request
    expect,    \* _pending_expect, by gateway_id
    online,    \* link_online of each device
    rx,        \* where each RX thread is inside on_transport_event
    evq,       \* events on their way from each gateway
    gw,        \* firmware state of each serial gateway
    toGw,      \* frames on their way to each serial gateway
    inbox,     \* requests that reached their device and are unanswered
    answered,  \* history: requests whose reply the host has processed
    resolved,  \* history: expectations an RX thread has decided on
    sends      \* counter against MaxSends

linkVars == << phase, req, expect, online, rx, evq, gw, toGw, inbox, answered, resolved, sends >>

----------------------------------------------------------------------------
Ids == 1 .. MaxSends

\* The reply a request asks for: OPC_ACK, or a STATUS_REPLY (RESP_SPECIFIC).
ReplyKinds == {"ACK", "STATUS"}
Requests == [id : Ids, dev : Devices, reply : ReplyKinds]
NoReq == [id |-> 0]

\* Transports tag their events with ident_mac; an untagged event has
\* gateway_id None.
Key(g) == IF g \in Untagged THEN NoTag ELSE g
Keys == Gateways \cup {NoTag}

Expectations == [id : Ids, dev : Devices, reply : ReplyKinds, key : Keys]
NoExpect == [id |-> 0]

GwStates == {"IDLE", "TX", "RX_WINDOW"}
States == [kind : {"state"}, state : GwStates]
Replies == [kind : {"reply"}, req : Requests]
OutcomeEvents == [kind : {"outcome"}, id : Ids]
Events == States \cup Replies \cup OutcomeEvents

\* An RX thread: idle, or at a step of the handler with the event's reply
\* and the expectation it has read.
IdleRx == [step |-> "idle"]
RxStates == {IdleRx}
       \cup [step : {"update", "match"}, req : Requests]
       \cup [step : {"online", "offline", "clear"}, p : Expectations]

LinkTypeOK ==
    /\ phase \in [Callers -> {"idle", "write", "outcome", "stamp", "datagram"}]
    /\ req \in [Callers -> Requests \cup {NoReq}]
    /\ expect \in [Keys -> Expectations \cup {NoExpect}]
    /\ online \in [Devices -> {"unknown", "on", "off"}]
    /\ rx \in [Gateways -> RxStates]
    /\ evq \in [Gateways -> Seq(Events)]
    /\ gw \in [Gateways -> GwStates]
    /\ toGw \in [Gateways -> Seq(Requests)]
    /\ inbox \subseteq Requests
    /\ answered \subseteq Ids
    /\ resolved \subseteq Ids
    /\ sends \in 0 .. MaxSends

LinkInit ==
    /\ phase = [c \in Callers |-> "idle"]
    /\ req = [c \in Callers |-> NoReq]
    /\ expect = [k \in Keys |-> NoExpect]
    /\ online = [d \in Devices |-> "unknown"]
    /\ rx = [g \in Gateways |-> IdleRx]
    /\ evq = [g \in Gateways |-> << >>]
    /\ gw = [g \in Gateways |-> "IDLE"]
    /\ toGw = [g \in Gateways |-> << >>]
    /\ inbox = {}
    /\ answered = {}
    /\ resolved = {}
    /\ sends = 0

----------------------------------------------------------------------------
(* The sending threads                                                     *)

\* set_pending_expect under _pending_expect_lock, replacing what is there.
Stamp(r) ==
    LET k == Key(GatewayOf[r.dev])
    IN  expect' = [expect EXCEPT ![k] = [id |-> r.id, dev |-> r.dev, reply |-> r.reply, key |-> k]]

\* A thread starts a unicast request to a known device.
Begin(c) ==
    /\ phase[c] = "idle"
    /\ sends < MaxSends
    /\ sends' = sends + 1
    /\ \E d \in Devices, a \in ReplyKinds :
          req' = [req EXCEPT ![c] = [id |-> sends + 1, dev |-> d, reply |-> a]]
    /\ phase' = [phase EXCEPT ![c] = "write"]
    /\ UNCHANGED << expect, online, rx, evq, gw, toGw, inbox, answered, resolved >>

\* Serial: the frame is written, the thread waits for its outcome.
SerialWrite(c) ==
    /\ phase[c] = "write"
    /\ GatewayOf[req[c].dev] \notin Ethernet
    /\ toGw' = [toGw EXCEPT ![GatewayOf[req[c].dev]] = Append(@, req[c])]
    /\ phase' = [phase EXCEPT ![c] = "outcome"]
    /\ UNCHANGED << req, expect, online, rx, evq, gw, inbox, answered, resolved, sends >>

\* Serial: the wait ends with no outcome event of this frame: a timeout, or
\* the outcome of another frame (see SerialTransport).
OutcomeTimeout(c) ==
    /\ phase[c] = "outcome"
    /\ phase' = [phase EXCEPT ![c] = "stamp"]
    /\ UNCHANGED << req, expect, online, rx, evq, gw, toGw, inbox, answered, resolved, sends >>

\* Serial: after the wait, whatever the outcome, TX_M2N -> on_transport_tx.
SerialStamp(c) ==
    /\ phase[c] = "stamp"
    /\ Stamp(req[c])
    /\ phase' = [phase EXCEPT ![c] = "idle"]
    /\ UNCHANGED << req, online, rx, evq, gw, toGw, inbox, answered, resolved, sends >>

\* Ethernet: TX_M2N -> on_transport_tx first ...
EthernetStamp(c) ==
    /\ phase[c] = "write"
    /\ GatewayOf[req[c].dev] \in Ethernet
    /\ Stamp(req[c])
    /\ phase' = [phase EXCEPT ![c] = "datagram"]
    /\ UNCHANGED << req, online, rx, evq, gw, toGw, inbox, answered, resolved, sends >>

\* ... then the datagram, which may be lost.
EthernetSend(c) ==
    /\ phase[c] = "datagram"
    /\ inbox' \in {inbox, inbox \cup {req[c]}}
    /\ phase' = [phase EXCEPT ![c] = "idle"]
    /\ UNCHANGED << req, expect, online, rx, evq, gw, toGw, answered, resolved, sends >>

----------------------------------------------------------------------------
(* The RX threads                                                          *)

\* Mutant of Read: the lookup is not scoped to the event's gateway.
ReadAny(k) ==
    IF \E j \in Keys : expect[j] # NoExpect
    THEN CHOOSE e \in {expect[j] : j \in Keys} : e # NoExpect
    ELSE NoExpect

\* read_pending_expect: the slot of the key; an untagged event falls back to
\* the only expectation there is.
Read(k) ==
    LET stamped == {j \in Keys : expect[j] # NoExpect}
    IN  IF expect[k] = NoExpect /\ k = NoTag /\ \E j \in Keys : stamped = {j}
        THEN expect[CHOOSE j \in Keys : j \in stamped]
        ELSE expect[k]

\* The RX thread g takes the next event e off its queue.
Takes(g, e) ==
    /\ rx[g] = IdleRx
    /\ evq[g] # << >>
    /\ e = Head(evq[g])
    /\ evq' = [evq EXCEPT ![g] = Tail(@)]

\* EV_TX_DONE / EV_TX_REJECTED wake the sender.
RxOutcome(g) ==
    \E e \in OutcomeEvents :
        /\ Takes(g, e)
        /\ phase' = [c \in Callers |->
                        IF phase[c] = "outcome" /\ req[c].id = e.id THEN "stamp" ELSE phase[c]]
        /\ UNCHANGED << req, expect, online, rx, gw, toGw, inbox, answered, resolved, sends >>

\* EV_STATE_CHANGED / EV_STATE_REPORT: the window is open, or nothing is
\* expected.
RxStateIgnored(g) ==
    \E e \in States :
        /\ Takes(g, e)
        /\ e.state = "RX_WINDOW" \/ Read(Key(g)) = NoExpect
        /\ UNCHANGED << phase, req, expect, online, rx, gw, toGw, inbox, answered, resolved, sends >>

\* Mutant of RxWindowClosed: the early return for an empty slot is missing.
RxWindowClosedUnchecked(g) ==
    \E e \in States :
        /\ Takes(g, e)
        /\ e.state # "RX_WINDOW"
        /\ rx' = [rx EXCEPT ![g] = [step |-> "offline", p |-> Read(Key(g))]]
        /\ resolved' = resolved \cup {Read(Key(g)).id}
        /\ UNCHANGED << phase, req, expect, online, gw, toGw, inbox, answered, sends >>

\* pending_window_closed: read the slot ...
RxWindowClosed(g) ==
    \E e \in States :
        /\ Takes(g, e)
        /\ e.state # "RX_WINDOW"
        /\ Read(Key(g)) # NoExpect
        /\ rx' = [rx EXCEPT ![g] = [step |-> "offline", p |-> Read(Key(g))]]
        /\ resolved' = resolved \cup {Read(Key(g)).id}
        /\ UNCHANGED << phase, req, expect, online, gw, toGw, inbox, answered, sends >>

\* ... then mark_offline("Missing reply") under the state lock.
RxMarkOffline(g) ==
    /\ rx[g].step = "offline"
    /\ online' = [online EXCEPT ![rx[g].p.dev] = "off"]
    /\ rx' = [rx EXCEPT ![g] = [step |-> "clear", p |-> rx[g].p]]
    /\ UNCHANGED << phase, req, expect, evq, gw, toGw, inbox, answered, resolved, sends >>

RxReply(g) ==
    \E e \in Replies :
        /\ Takes(g, e)
        /\ rx' = [rx EXCEPT ![g] = [step |-> "update", req |-> e.req]]
        /\ UNCHANGED << phase, req, expect, online, gw, toGw, inbox, answered, resolved, sends >>

\* A STATUS_REPLY heard by a gateway other than the device's own; the guard
\* needs both identities.
CrossNet(g, r) == /\ r.reply = "STATUS"
                  /\ GatewayOf[r.dev] # g
                  /\ {g, GatewayOf[r.dev]} \cap Untagged = {}

\* handle_ack_event / update_from_status, under the state lock.
RxUpdate(g) ==
    /\ rx[g].step = "update"
    /\ online' = [online EXCEPT ![rx[g].req.dev] = IF CrossNet(g, rx[g].req) THEN "off" ELSE "on"]
    /\ answered' = IF GatewayOf[rx[g].req.dev] = g THEN answered \cup {rx[g].req.id} ELSE answered
    /\ rx' = [rx EXCEPT ![g] = [step |-> "match", req |-> rx[g].req]]
    /\ UNCHANGED << phase, req, expect, evq, gw, toGw, inbox, resolved, sends >>

\* pending_try_match: sender and reply opcode decide.
Matches(p, r) == p # NoExpect /\ p.dev = r.dev /\ p.reply = r.reply

RxMatch(g) ==
    /\ rx[g].step = "match"
    /\ Matches(Read(Key(g)), rx[g].req)
    /\ rx' = [rx EXCEPT ![g] = [step |-> "online", p |-> Read(Key(g))]]
    /\ resolved' = resolved \cup {Read(Key(g)).id}
    /\ UNCHANGED << phase, req, expect, online, evq, gw, toGw, inbox, answered, sends >>

RxNoMatch(g) ==
    /\ rx[g].step = "match"
    /\ ~Matches(Read(Key(g)), rx[g].req)
    /\ rx' = [rx EXCEPT ![g] = IdleRx]
    /\ UNCHANGED << phase, req, expect, online, evq, gw, toGw, inbox, answered, resolved, sends >>

RxMarkOnline(g) ==
    /\ rx[g].step = "online"
    /\ online' = [online EXCEPT ![rx[g].p.dev] = "on"]
    /\ rx' = [rx EXCEPT ![g] = [step |-> "clear", p |-> rx[g].p]]
    /\ UNCHANGED << phase, req, expect, evq, gw, toGw, inbox, answered, resolved, sends >>

\* Mutant of RxClear: the slot is cleared without the reference check.
RxClearAlways(g) ==
    /\ rx[g].step = "clear"
    /\ expect' = [expect EXCEPT ![rx[g].p.key] = NoExpect]
    /\ rx' = [rx EXCEPT ![g] = IdleRx]
    /\ UNCHANGED << phase, req, online, evq, gw, toGw, inbox, answered, resolved, sends >>

\* clear_pending_expect_if: compare and clear.
RxClear(g) ==
    /\ rx[g].step = "clear"
    /\ expect' = [expect EXCEPT ![rx[g].p.key] = IF @ = rx[g].p THEN NoExpect ELSE @]
    /\ rx' = [rx EXCEPT ![g] = IdleRx]
    /\ UNCHANGED << phase, req, online, evq, gw, toGw, inbox, answered, resolved, sends >>

----------------------------------------------------------------------------
(* Gateways, devices and radio (external)                                  *)

Emit(g, es) == evq' = [evq EXCEPT ![g] = @ \o es]
State(s) == [kind |-> "state", state |-> s]
Outcome(i) == [kind |-> "outcome", id |-> i]

\* The gateway takes a frame and starts to transmit; an open window ends.
GwStart(g) ==
    /\ gw[g] # "TX"
    /\ toGw[g] # << >>
    /\ gw' = [gw EXCEPT ![g] = "TX"]
    /\ Emit(g, << State("TX") >>)
    /\ UNCHANGED << phase, req, expect, online, rx, toGw, inbox, answered, resolved, sends >>

\* The transmission ends: the frame reaches its device or is lost, and the
\* receive window opens.
GwDone(g) ==
    /\ gw[g] = "TX"
    /\ toGw[g] # << >>
    /\ gw' = [gw EXCEPT ![g] = "RX_WINDOW"]
    /\ inbox' \in {inbox, inbox \cup {Head(toGw[g])}}
    /\ toGw' = [toGw EXCEPT ![g] = Tail(@)]
    /\ Emit(g, << Outcome(Head(toGw[g]).id), State("RX_WINDOW") >>)
    /\ UNCHANGED << phase, req, expect, online, rx, answered, resolved, sends >>

\* The frame behind the one in transmission is rejected.
GwReject(g) ==
    /\ gw[g] = "TX"
    /\ Len(toGw[g]) > 1
    /\ toGw' = [toGw EXCEPT ![g] = << Head(@) >> \o Tail(Tail(@))]
    /\ Emit(g, << Outcome(toGw[g][2].id) >>)
    /\ UNCHANGED << phase, req, expect, online, rx, gw, inbox, answered, resolved, sends >>

\* The receive window ends.
GwClose(g) ==
    /\ gw[g] = "RX_WINDOW"
    /\ gw' = [gw EXCEPT ![g] = "IDLE"]
    /\ Emit(g, << State("IDLE") >>)
    /\ UNCHANGED << phase, req, expect, online, rx, toGw, inbox, answered, resolved, sends >>

\* The device answers; any gateways on the same medium hear it.
Answer(r) ==
    /\ inbox' = inbox \ {r}
    /\ \E H \in SUBSET {g \in Gateways : g \in Ethernet <=> GatewayOf[r.dev] \in Ethernet} :
          evq' = [g \in Gateways |->
                     IF g \in H THEN Append(evq[g], [kind |-> "reply", req |-> r]) ELSE evq[g]]
    /\ UNCHANGED << phase, req, expect, online, rx, gw, toGw, answered, resolved, sends >>

----------------------------------------------------------------------------
Sender(c) == \/ Begin(c) \/ SerialWrite(c) \/ OutcomeTimeout(c) \/ SerialStamp(c)
             \/ EthernetStamp(c) \/ EthernetSend(c)
Rx(g) == \/ RxOutcome(g) \/ RxStateIgnored(g) \/ RxWindowClosed(g) \/ RxMarkOffline(g)
         \/ RxReply(g) \/ RxUpdate(g) \/ RxMatch(g) \/ RxNoMatch(g)
         \/ RxMarkOnline(g) \/ RxClear(g)
Gateway(g) == GwStart(g) \/ GwDone(g) \/ GwReject(g) \/ GwClose(g)

LinkNext ==
    \/ \E c \in Callers : Sender(c)
    \/ \E g \in Gateways : Rx(g) \/ Gateway(g)
    \/ \E r \in inbox : Answer(r)

LinkSpec == LinkInit /\ [][LinkNext]_linkVars

----------------------------------------------------------------------------
(* Properties                                                              *)

\* An expectation leaves its slot only after an RX thread has decided on that
\* very expectation: one stamped while the RX thread is between reading an
\* older one and clearing it survives (the compare-and-clear of A5).
FreshExpectSurvives ==
    [][\A k \in Keys : expect[k] # NoExpect /\ expect'[k] = NoExpect
            => expect[k].id \in resolved]_linkVars

\* A window that closes on one gateway marks only a device of that gateway
\* offline, and a reply drops only an expectation of the gateway it came
\* through: the RX thread of a tagged transport takes up no expectation of
\* another, whatever untagged transports there are beside it.  An untagged one
\* takes up the expectation of another transport only if that is untagged too
\* or the expectation is the only one there is (read_pending_expect).
DecidesOwnGateway ==
    [][\A g \in Gateways : rx'[g] # rx[g] /\ rx'[g].step \in {"online", "offline"} =>
          LET owner == GatewayOf[rx'[g].p.dev]
          IN  \/ owner = g
              \/ {owner, g} \subseteq Untagged
              \/ g \in Untagged /\ \A k \in Keys : expect[k] \in {NoExpect, rx'[g].p}]_linkVars

\* Claim of the comment in pending_window_closed: a window that closes
\* without a reply means that the tracked expectation timed out.
OfflineMeansUnanswered ==
    \A g \in Gateways : rx[g].step = "offline" => rx[g].p.id \notin answered

================================================================================
