---------------------------- MODULE SerialTransport ----------------------------
(***************************************************************************)
(* The USB serial transport of one gateway: GatewaySerialTransport in      *)
(* racelink/transport/gateway_serial.py.                                   *)
(*                                                                         *)
(* Any number of host threads call _send_m2n; one RX reader thread parses  *)
(* the frames the gateway sends back.  _send_m2n writes a frame and then   *)
(* waits on a Condition over _tx_lock for the outcome event.  The wait     *)
(* RELEASES _tx_lock, so the lock is held only from registering the slot   *)
(* to the start of the wait, and again from the wake-up to the end of the  *)
(* with-block.  Those two critical sections are the atomic steps below.    *)
(*                                                                         *)
(* The gateway firmware is external and is modelled from how the host uses *)
(* it: a single TX slot, EV_TX_DONE for a frame it transmitted,            *)
(* EV_TX_REJECTED for one it refused, EV_STATE_CHANGED on every state      *)
(* change, EV_STATE_REPORT in answer to GW_CMD_STATE_REQUEST, and          *)
(* transmissions of its own (auto-sync) that end in EV_TX_DONE as well.    *)
(***************************************************************************)
EXTENDS Naturals, Sequences, FiniteSets

CONSTANTS
    Senders,      \* host threads that call _send_m2n
    NoSender,     \* _pending_send_outcome = None
    MaxSends,     \* bound: frames written over a behaviour
    MaxExtras     \* bound: state requests and spontaneous gateway events

ASSUME SendersAssumption == NoSender \notin Senders
ASSUME BoundsAssumption == /\ MaxSends \in Nat
                           /\ MaxExtras \in Nat

VARIABLES
    phase,     \* where each thread is inside _send_m2n
    slot,      \* outcome_slot[0] of each thread's current call
    pending,   \* whose slot _pending_send_outcome refers to
    cur,       \* history: the frame number of each thread's current call
    solo,      \* history: the call had the link to itself so far
    stop,      \* _stop
    serOpen,   \* self.ser.is_open
    reader,    \* the RX thread: "run" or "done"
    notified,  \* EV_ERROR was handed to the listeners
    mirror,    \* _gateway_state_byte
    usb,       \* the cable: "up" or "down"
    toGw,      \* USB bytes on their way to the gateway
    fromGw,    \* USB bytes on their way to the host
    gwTx,      \* the frame in the gateway's single TX slot
    fate,      \* history: what the gateway did with each frame
    sends, queries, gwEvents   \* counters against the bounds

portVars == << phase, slot, pending, cur, solo, stop, serOpen, reader, notified, mirror >>
linkVars == << usb, toGw, fromGw, gwTx, fate >>
countVars == << sends, queries, gwEvents >>
wireVars == << phase, slot, pending, cur, solo, stop, serOpen, reader, notified, mirror,
           usb, toGw, fromGw, gwTx, fate, sends, queries, gwEvents >>

----------------------------------------------------------------------------
(* Frames and events.  Frame 0 stands for traffic that is no host frame:  *)
(* the gateway's own transmissions and the state request.                 *)

FrameIds  == 1 .. MaxSends
NoFrame == MaxSends + 1
Outcomes == {"SUCCESS", "REJECTED", "TIMEOUT", "USB_ERROR"}
NoOutcome == "None"
Phases == {"idle", "wait", "disc", "emit"}
GwStates == {"IDLE", "TX"}
Fates == {"queued", "sent", "rejected"}

\* What the gateway can report, with the frame it is about (a history field:
\* EV_TX_DONE carries no identification and _handle_frame reads none).
Events == [kind : {"TX_DONE", "TX_REJECTED", "IDLE", "TX", "EV_ERROR"}, frame : 0 .. MaxSends]

Ev(k, f) == [kind |-> k, frame |-> f]

\* EV_STATE_CHANGED / EV_STATE_REPORT are the events named by their state byte.
IsState(e) == e.kind \in GwStates
IsOutcome(e) == e.kind \in {"TX_DONE", "TX_REJECTED", "EV_ERROR"}

\* _handle_frame: the SendOutcome each outcome event becomes.
OutcomeOf(e) == CASE e.kind = "TX_DONE"     -> "SUCCESS"
                  [] e.kind = "TX_REJECTED" -> "REJECTED"
                  [] e.kind = "EV_ERROR"    -> "USB_ERROR"

\* The gateway's own state, which EV_STATE_CHANGED reports.
GwState == IF gwTx = NoFrame THEN "IDLE" ELSE "TX"

\* No frame, transmission or outcome of an earlier call is still on the way.
LinkQuiet == /\ \A i \in 1 .. Len(toGw) : toGw[i] = 0
             /\ gwTx = NoFrame
             /\ \A i \in 1 .. Len(fromGw) : ~IsOutcome(fromGw[i])

WireTypeOK ==
    /\ phase \in [Senders -> Phases]
    /\ slot \in [Senders -> Outcomes \cup {NoOutcome}]
    /\ pending \in Senders \cup {NoSender}
    /\ cur \in [Senders -> 0 .. MaxSends]
    /\ solo \in [Senders -> BOOLEAN]
    /\ stop \in BOOLEAN
    /\ serOpen \in BOOLEAN
    /\ reader \in {"run", "done"}
    /\ notified \in BOOLEAN
    /\ mirror \in GwStates \cup {"UNKNOWN"}
    /\ usb \in {"up", "down"}
    /\ toGw \in Seq(0 .. MaxSends)
    /\ fromGw \in Seq(Events)
    /\ gwTx \in 0 .. NoFrame
    /\ fate \in [FrameIds -> Fates]
    /\ sends \in 0 .. MaxSends
    /\ queries \in 0 .. MaxExtras
    /\ gwEvents \in 0 .. MaxExtras

\* __init__ plus open() and start(): the port is open, the reader runs, and
\* nothing has been heard from the gateway yet.
WireInit ==
    /\ phase = [s \in Senders |-> "idle"]
    /\ slot = [s \in Senders |-> NoOutcome]
    /\ pending = NoSender
    /\ cur = [s \in Senders |-> 0]
    /\ solo = [s \in Senders |-> FALSE]
    /\ stop = FALSE
    /\ serOpen = TRUE
    /\ reader = "run"
    /\ notified = FALSE
    /\ mirror = "UNKNOWN"
    /\ usb = "up"
    /\ toGw = << >>
    /\ fromGw = << >>
    /\ gwTx = NoFrame
    /\ fate = [f \in FrameIds |-> "queued"]
    /\ sends = 0
    /\ queries = 0
    /\ gwEvents = 0

----------------------------------------------------------------------------
(* _send_m2n                                                               *)

\* Another call that is waiting now shares the link with this one.
SoloAfterEntry(s) ==
    [t \in Senders |->
        IF t = s THEN LinkQuiet /\ \A u \in Senders \ {s} : phase[u] # "wait"
                 ELSE solo[t] /\ phase[t] # "wait"]

\* Mutant of SendWrite: the slot keeps the outcome of the previous call.
SendWriteStaleSlot(s) ==
    /\ phase[s] = "idle"
    /\ serOpen /\ usb = "up"
    /\ sends < MaxSends
    /\ sends' = sends + 1
    /\ cur' = [cur EXCEPT ![s] = sends + 1]
    /\ solo' = SoloAfterEntry(s)
    /\ pending' = s
    /\ toGw' = Append(toGw, sends + 1)
    /\ phase' = [phase EXCEPT ![s] = "wait"]
    /\ UNCHANGED << slot, stop, serOpen, reader, notified, mirror,
                    usb, fromGw, gwTx, fate, queries, gwEvents >>

\* with _tx_outcome_cv: register the slot, write the frame, start the wait
\* (which releases the lock).
SendWrite(s) ==
    /\ phase[s] = "idle"
    /\ serOpen /\ usb = "up"
    /\ sends < MaxSends
    /\ sends' = sends + 1
    /\ cur' = [cur EXCEPT ![s] = sends + 1]
    /\ solo' = SoloAfterEntry(s)
    /\ slot' = [slot EXCEPT ![s] = NoOutcome]
    /\ pending' = s
    /\ toGw' = Append(toGw, sends + 1)
    /\ phase' = [phase EXCEPT ![s] = "wait"]
    /\ UNCHANGED << stop, serOpen, reader, notified, mirror,
                    usb, fromGw, gwTx, fate, queries, gwEvents >>

\* The same critical section when ser.write raises: the port is closed, the
\* cable is gone, or the peer does not drain the write (write_timeout).
SendWriteFails(s) ==
    /\ phase[s] = "idle"
    /\ sends < MaxSends
    /\ sends' = sends + 1
    /\ cur' = [cur EXCEPT ![s] = sends + 1]
    /\ solo' = SoloAfterEntry(s)
    /\ slot' = [slot EXCEPT ![s] = "USB_ERROR"]
    /\ pending' = NoSender
    /\ phase' = [phase EXCEPT ![s] = "disc"]
    /\ UNCHANGED << stop, serOpen, reader, notified, mirror, linkVars, queries, gwEvents >>

\* _handle_disconnect: tell the listeners, stop the reader, close the port.
HandleDisconnect ==
    /\ notified' = TRUE
    /\ stop' = TRUE
    /\ serOpen' = FALSE

\* After the with-block of a failed write: _handle_disconnect, TX_OUTCOME,
\* return USB_ERROR.
SendDisconnect(s) ==
    /\ phase[s] = "disc"
    /\ HandleDisconnect
    /\ phase' = [phase EXCEPT ![s] = "idle"]
    /\ UNCHANGED << slot, pending, cur, solo, reader, mirror, linkVars, countVars >>

\* wait_for returns because the slot was filled: clear the registration.
SendWake(s) ==
    /\ phase[s] = "wait"
    /\ slot[s] # NoOutcome
    /\ pending' = NoSender
    /\ phase' = [phase EXCEPT ![s] = "emit"]
    /\ UNCHANGED << slot, cur, solo, stop, serOpen, reader, notified, mirror, linkVars, countVars >>

\* Mutant of SendTimeout: the registration is left behind.
SendTimeoutKeepsPending(s) ==
    /\ phase[s] = "wait"
    /\ slot[s] = NoOutcome
    /\ slot' = [slot EXCEPT ![s] = "TIMEOUT"]
    /\ phase' = [phase EXCEPT ![s] = "emit"]
    /\ UNCHANGED << pending, cur, solo, stop, serOpen, reader, notified, mirror,
                    linkVars, countVars >>

\* Mutant of SendTimeout: only the registered call is timed out.
SendTimeoutIfRegistered(s) ==
    /\ phase[s] = "wait"
    /\ slot[s] = NoOutcome
    /\ pending = s
    /\ slot' = [slot EXCEPT ![s] = "TIMEOUT"]
    /\ pending' = NoSender
    /\ phase' = [phase EXCEPT ![s] = "emit"]
    /\ UNCHANGED << cur, solo, stop, serOpen, reader, notified, mirror, linkVars, countVars >>

\* wait_for gives up after SEND_OUTCOME_TIMEOUT_S with the slot still empty.
SendTimeout(s) ==
    /\ phase[s] = "wait"
    /\ slot[s] = NoOutcome
    /\ slot' = [slot EXCEPT ![s] = "TIMEOUT"]
    /\ pending' = NoSender
    /\ phase' = [phase EXCEPT ![s] = "emit"]
    /\ UNCHANGED << cur, solo, stop, serOpen, reader, notified, mirror, linkVars, countVars >>

\* Outside the lock: TX_M2N and TX_OUTCOME go to the TX listeners, return.
SendReturn(s) ==
    /\ phase[s] = "emit"
    /\ phase' = [phase EXCEPT ![s] = "idle"]
    /\ UNCHANGED << slot, pending, cur, solo, stop, serOpen, reader, notified, mirror,
                    linkVars, countVars >>

\* send_state_request: one write under _tx_lock, no outcome wait.
StateRequest ==
    /\ serOpen /\ usb = "up"
    /\ queries + gwEvents < MaxExtras
    /\ queries' = queries + 1
    /\ toGw' = Append(toGw, 0)
    /\ UNCHANGED << portVars, usb, fromGw, gwTx, fate, sends, gwEvents >>

StateRequestFails ==
    /\ queries + gwEvents < MaxExtras
    /\ queries' = queries + 1
    /\ HandleDisconnect
    /\ UNCHANGED << phase, slot, pending, cur, solo, reader, mirror, linkVars, sends, gwEvents >>

----------------------------------------------------------------------------
(* The RX reader thread                                                    *)

\* Mutant of Fulfill: overwrite whatever the slot holds.
FulfillOverwrites(o) ==
    IF pending # NoSender
    THEN slot' = [slot EXCEPT ![pending] = o]
    ELSE UNCHANGED slot

\* _fulfill_pending_outcome: fill the registered slot unless it is filled;
\* drop the outcome when no call is registered.
Fulfill(o) ==
    IF pending # NoSender /\ slot[pending] = NoOutcome
    THEN slot' = [slot EXCEPT ![pending] = o]
    ELSE UNCHANGED slot

\* _reader hands one complete frame to _handle_frame: an outcome event
\* (EV_ERROR also goes on to the listeners).
ReaderOutcome ==
    /\ reader = "run" /\ ~stop /\ serOpen
    /\ fromGw # << >>
    /\ IsOutcome(Head(fromGw))
    /\ Fulfill(OutcomeOf(Head(fromGw)))
    /\ notified' = (notified \/ Head(fromGw).kind = "EV_ERROR")
    /\ fromGw' = Tail(fromGw)
    /\ UNCHANGED << phase, pending, cur, solo, stop, serOpen, reader, mirror,
                    usb, toGw, gwTx, fate, countVars >>

\* Mutant of ReaderState: only the first report is mirrored.
ReaderStateFirstOnly ==
    /\ reader = "run" /\ ~stop /\ serOpen
    /\ fromGw # << >>
    /\ IsState(Head(fromGw))
    /\ mirror' = IF mirror = "UNKNOWN" THEN Head(fromGw).kind ELSE mirror
    /\ fromGw' = Tail(fromGw)
    /\ UNCHANGED << phase, slot, pending, cur, solo, stop, serOpen, reader, notified,
                    usb, toGw, gwTx, fate, countVars >>

\* The same for EV_STATE_CHANGED / EV_STATE_REPORT: _update_gateway_state.
ReaderState ==
    /\ reader = "run" /\ ~stop /\ serOpen
    /\ fromGw # << >>
    /\ IsState(Head(fromGw))
    /\ mirror' = Head(fromGw).kind
    /\ fromGw' = Tail(fromGw)
    /\ UNCHANGED << phase, slot, pending, cur, solo, stop, serOpen, reader, notified,
                    usb, toGw, gwTx, fate, countVars >>

\* Mutant of ReaderDisconnect: the exception just ends the loop.
ReaderDisconnectSilent ==
    /\ reader = "run"
    /\ usb = "down" \/ ~serOpen
    /\ reader' = "done"
    /\ UNCHANGED << phase, slot, pending, cur, solo, stop, serOpen, notified, mirror,
                    linkVars, countVars >>

\* ser.read raises SerialException: the cable is gone, or another thread has
\* closed the port under the read.
ReaderDisconnect ==
    /\ reader = "run"
    /\ usb = "down" \/ ~serOpen
    /\ HandleDisconnect
    /\ reader' = "done"
    /\ UNCHANGED << phase, slot, pending, cur, solo, mirror, linkVars, countVars >>

\* The loop condition sees _stop between two reads.
ReaderStops ==
    /\ reader = "run"
    /\ stop
    /\ reader' = "done"
    /\ UNCHANGED << phase, slot, pending, cur, solo, stop, serOpen, notified, mirror,
                    linkVars, countVars >>

\* close(), called by the controller or by the detach thread: raise _stop,
\* wait for the reader (join is bounded by 1 s, so it may still run), close.
Close ==
    /\ serOpen
    /\ stop' = TRUE
    /\ serOpen' = FALSE
    /\ UNCHANGED << phase, slot, pending, cur, solo, reader, notified, mirror, linkVars, countVars >>

----------------------------------------------------------------------------
(* The gateway and the cable (external)                                    *)

\* A host frame reaches the gateway while its TX slot is free.
GwAccept ==
    /\ usb = "up"
    /\ toGw # << >> /\ Head(toGw) # 0
    /\ gwTx = NoFrame
    /\ gwTx' = Head(toGw)
    /\ toGw' = Tail(toGw)
    /\ fromGw' = Append(fromGw, Ev("TX", 0))
    /\ UNCHANGED << portVars, usb, fate, countVars >>

\* It is refused: the slot is taken (txPending) or the frame is malformed.
GwReject ==
    /\ usb = "up"
    /\ toGw # << >> /\ Head(toGw) # 0
    /\ fate' = [fate EXCEPT ![Head(toGw)] = "rejected"]
    /\ fromGw' = Append(fromGw, Ev("TX_REJECTED", Head(toGw)))
    /\ toGw' = Tail(toGw)
    /\ UNCHANGED << portVars, usb, gwTx, countVars >>

\* The transmission in the slot ends: EV_TX_DONE, then EV_STATE_CHANGED.
GwFinish ==
    /\ usb = "up"
    /\ gwTx # NoFrame
    /\ fate' = IF gwTx = 0 THEN fate ELSE [fate EXCEPT ![gwTx] = "sent"]
    /\ fromGw' = Append(Append(fromGw, Ev("TX_DONE", gwTx)), Ev("IDLE", 0))
    /\ gwTx' = NoFrame
    /\ UNCHANGED << portVars, usb, toGw, countVars >>

\* The gateway transmits on its own account (auto-sync).
GwAutoSync ==
    /\ usb = "up"
    /\ gwTx = NoFrame
    /\ queries + gwEvents < MaxExtras
    /\ gwEvents' = gwEvents + 1
    /\ gwTx' = 0
    /\ fromGw' = Append(fromGw, Ev("TX", 0))
    /\ solo' = [s \in Senders |-> solo[s] /\ phase[s] # "wait"]
    /\ UNCHANGED << phase, slot, pending, cur, stop, serOpen, reader, notified, mirror,
                    usb, toGw, fate, sends, queries >>

\* The gateway answers GW_CMD_STATE_REQUEST with EV_STATE_REPORT.
GwReport ==
    /\ usb = "up"
    /\ toGw # << >> /\ Head(toGw) = 0
    /\ fromGw' = Append(fromGw, Ev(GwState, 0))
    /\ toGw' = Tail(toGw)
    /\ UNCHANGED << portVars, usb, gwTx, fate, countVars >>

\* The gateway reports a fault (an EV_ERROR frame).
GwError ==
    /\ usb = "up"
    /\ queries + gwEvents < MaxExtras
    /\ gwEvents' = gwEvents + 1
    /\ fromGw' = Append(fromGw, Ev("EV_ERROR", 0))
    /\ UNCHANGED << portVars, usb, toGw, gwTx, fate, sends, queries >>

\* The cable is pulled: what was on the wire is gone.
UsbLoss ==
    /\ usb = "up"
    /\ usb' = "down"
    /\ toGw' = << >>
    /\ fromGw' = << >>
    /\ UNCHANGED << portVars, gwTx, fate, countVars >>

----------------------------------------------------------------------------
Send(s) == \/ SendWrite(s) \/ SendWriteFails(s) \/ SendDisconnect(s)
           \/ SendWake(s) \/ SendTimeout(s) \/ SendReturn(s)
Reader == ReaderOutcome \/ ReaderState \/ ReaderDisconnect \/ ReaderStops
Gateway == \/ GwAccept \/ GwReject \/ GwFinish
           \/ GwAutoSync \/ GwReport \/ GwError \/ UsbLoss

WireNext == \/ \E s \in Senders : Send(s)
            \/ StateRequest \/ StateRequestFails
            \/ Reader \/ Close
            \/ Gateway

WireSpec == WireInit /\ [][WireNext]_wireVars

\* A thread that is inside _send_m2n keeps running (its wait is bounded by
\* SEND_OUTCOME_TIMEOUT_S), and the reader thread is scheduled.
Fairness == /\ \A s \in Senders : WF_wireVars(SendDisconnect(s) \/ SendWake(s)
                                              \/ SendTimeout(s) \/ SendReturn(s))
            /\ WF_wireVars(Reader)

FairSpec == WireSpec /\ Fairness

----------------------------------------------------------------------------
(* Properties                                                              *)

\* _pending_send_outcome never refers to a call that has stopped waiting, so
\* an outcome event that arrives late (after a TIMEOUT, or an auto-sync
\* TX_DONE) is dropped instead of being written into a consumed slot.
PendingIsWaiting == pending # NoSender => phase[pending] = "wait"

\* Outcome events carry no frame number.  A call that had the link to itself
\* (no other call waiting, no earlier outcome under way, no auto-sync) is
\* nevertheless told what the gateway did with ITS frame.
SoloOutcomeIsOwn ==
    \A s \in Senders :
        solo[s] /\ slot[s] # NoOutcome =>
            /\ slot[s] = "SUCCESS"  => fate[cur[s]] = "sent"
            /\ slot[s] = "REJECTED" => fate[cur[s]] = "rejected"

\* The gateway-state mirror differs from the gateway's state only by the
\* state events still on the wire: with none under way it is exact, once
\* anything has been heard.
MirrorLagsByWire ==
    usb = "up" /\ (\A i \in 1 .. Len(fromGw) : ~IsState(fromGw[i]))
        => mirror \in {GwState, "UNKNOWN"}

\* The first outcome delivered to a call stands until the call returns: a
\* USB_ERROR or REJECTED is never overwritten by a later event or by the
\* timeout (the clobbering the comment before the return warns about).
FirstOutcomeStands ==
    [][\A s \in Senders : phase[s] # "idle" /\ slot[s] # NoOutcome
            => slot'[s] = slot[s]]_wireVars

\* Every _send_m2n call returns, whatever the gateway, the cable or the
\* other threads do.
SendReturns == \A s \in Senders : phase[s] # "idle" ~> phase[s] = "idle"

\* A lost cable is reported to the listeners (which detach the gateway and
\* arm the reconnect) unless the port was closed first.
LossIsReported == usb = "down" ~> (notified \/ ~serOpen)

\* Nothing on a serial link waits for ever: calls return and a loss is told.
LinkNeverStuck == SendReturns /\ LossIsReported

\* Claim of the docstring of _send_m2n: the lock enforces a single send in
\* flight.
SingleInFlight == Cardinality({s \in Senders : phase[s] = "wait"}) <= 1

================================================================================
