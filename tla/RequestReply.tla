------------------------------ MODULE RequestReply ------------------------------
(***************************************************************************)
(* Host-side request/reply matching over several gateways:                 *)
(* PendingMatcher and PendingMatcherRegistry in                            *)
(* racelink/services/pending_requests.py, and the callers built on them in *)
(* racelink/services/gateway_service.py: send_and_match,                   *)
(* send_and_wait_with_retries (one target) and send_stream (a group).      *)
(*                                                                         *)
(* A reply names its sender and the opcode it answers, never the request.  *)
(* Every attempt builds a fresh matcher, registers it, sends, waits, and   *)
(* cancels it; the RX thread of each gateway copies the candidate list     *)
(* under the registry lock and evaluates the filters after releasing it.   *)
(* The two sides interleave at each of those points.                       *)
(*                                                                         *)
(* The devices and the radio are external: a frame reaches any subset of   *)
(* the addressed devices, which carry the request out or refuse it (an ACK *)
(* with a status other than OK); a reply is heard by any subset of the     *)
(* gateways and may take arbitrarily long to be processed.                 *)
(***************************************************************************)
EXTENDS Naturals, Sequences, FiniteSets

CONSTANTS
    Callers,      \* host threads
    Devices,
    Gateways,     \* attached transports, by ident_mac
    Opcodes,      \* request opcodes that are answered with OPC_ACK
    GatewayOf,    \* controller.transport_for_device, fixed here
    MaxCalls,     \* bound: calls over a behaviour
    MaxAttempts   \* UNICAST_MAX_ATTEMPTS / STREAM_MAX_ATTEMPTS

ASSUME GatewayAssumption == GatewayOf \in [Devices -> Gateways]
ASSUME BoundAssumption == MaxCalls \in Nat /\ MaxAttempts \in Nat \ {0}
ASSUME OpcodesAssumption == Opcodes # {}
ASSUME DevicesFinite == IsFiniteSet(Devices)

VARIABLES
    pc,        \* where each caller is
    call,      \* the caller's current call
    attempt,   \* attempt counter of the retry loop
    acked,     \* senders of the replies the call has counted
    sure,      \* the target whose last reply had the status OK
    got,       \* collected of the caller's current matcher
    registry,  \* _pending_registries[g]: matchers in registration order
    rx,        \* each RX thread inside try_match: the event and its candidates
    inbox,     \* request frames a device has received and not yet answered
    rxq,       \* replies a gateway has heard, in order
    answered,  \* history: which device has answered which opcode
    executed,  \* history: which device has executed which opcode
    calls      \* counter against MaxCalls

vars == << pc, call, attempt, acked, sure, got, registry, rx, inbox, rxq,
           answered, executed, calls >>
hostVars == << pc, call, attempt, acked, sure, got, registry, calls >>
radioVars == << inbox, rxq, answered, executed >>

----------------------------------------------------------------------------
CallIds == 1 .. MaxCalls
Attempts == 1 .. MaxAttempts

\* A call addresses one device, or members of one group, hence one gateway.
TargetSets == {T \in SUBSET Devices :
                  T # {} /\ \A d, e \in T : GatewayOf[d] = GatewayOf[e]}

Calls == [id : 0 .. MaxCalls, op : Opcodes, targets : TargetSets \cup {{}}]
NoCall == [id |-> 0, op |-> CHOOSE o \in Opcodes : TRUE, targets |-> {}]

\* A reply as the transport emits it; ok is ack_status = 0.  id and attempt
\* are history: the frame carries neither.
Replies == [dev : Devices, op : Opcodes, gw : Gateways, ok : BOOLEAN,
            id : CallIds, attempt : Attempts]

Matchers == [caller : Callers, id : CallIds, attempt : Attempts, op : Opcodes,
             senders : SUBSET Devices, gw : Gateways]

Frames == [dev : Devices, op : Opcodes, id : CallIds, attempt : Attempts]

\* The RX thread between two events.
NoRx == [busy |-> FALSE]
RxStates == [busy : {TRUE}, ev : Replies, cand : Seq(Matchers)] \cup {NoRx}

\* Mutant of GatewayOfCall: a sibling transport is picked.
GatewayOfCallSibling(c) ==
    CHOOSE g \in Gateways : \A d \in call[c].targets : g # GatewayOf[d]

\* The gateway all targets of a call share.
GatewayOfCall(c) == GatewayOf[CHOOSE d \in call[c].targets : TRUE]

\* The PendingMatcher the caller builds for an attempt: the senders that have
\* not answered yet, on the routed gateway.
Matcher(c) ==
    [caller |-> c, id |-> call[c].id, attempt |-> attempt[c], op |-> call[c].op,
     senders |-> call[c].targets \ acked[c], gw |-> GatewayOfCall(c)]

\* PendingMatcher.matches: gateway, sender and ack_of filters.
Accepts(m, e) == e.gw = m.gw /\ e.dev \in m.senders /\ e.op = m.op

\* _unicast_key: a single sender goes to the fast bucket.
Single(m) == Cardinality(m.senders) = 1

\* Mutant of Hits: a matcher that has collected a reply is passed over.
HitsUnsatisfied(cand, e) ==
    {i \in 1 .. Len(cand) : Accepts(cand[i], e) /\ got[cand[i].caller] = << >>}

\* The candidates whose filters accept the event.
Hits(cand, e) == {i \in 1 .. Len(cand) : Accepts(cand[i], e)}

\* try_match looks through the bucket of (sender, ack_of) first, then through
\* the list of multi-sender matchers, each in registration order.
Before(cand, i, j) == \/ Single(cand[i]) /\ ~Single(cand[j])
                      \/ (Single(cand[i]) <=> Single(cand[j])) /\ i <= j
First(cand, e, i) == i \in Hits(cand, e) /\ \A j \in Hits(cand, e) : Before(cand, i, j)

TypeOK ==
    /\ pc \in [Callers -> {"idle", "build", "send", "wait", "exit", "read"}]
    /\ call \in [Callers -> Calls]
    /\ attempt \in [Callers -> Attempts]
    /\ acked \in [Callers -> SUBSET Devices]
    /\ got \in [Callers -> Seq(Replies)]
    /\ registry \in [Gateways -> Seq(Matchers)]
    /\ rx \in [Gateways -> RxStates]
    /\ inbox \subseteq Frames
    /\ rxq \in [Gateways -> Seq(Replies)]
    /\ sure \in [Callers -> SUBSET Devices]
    /\ answered \subseteq [dev : Devices, op : Opcodes]
    /\ executed \subseteq [dev : Devices, op : Opcodes]
    /\ calls \in 0 .. MaxCalls

Init ==
    /\ pc = [c \in Callers |-> "idle"]
    /\ call = [c \in Callers |-> NoCall]
    /\ attempt = [c \in Callers |-> 1]
    /\ acked = [c \in Callers |-> {}]
    /\ got = [c \in Callers |-> << >>]
    /\ registry = [g \in Gateways |-> << >>]
    /\ rx = [g \in Gateways |-> NoRx]
    /\ inbox = {}
    /\ rxq = [g \in Gateways |-> << >>]
    /\ sure = [c \in Callers |-> {}]
    /\ answered = {}
    /\ executed = {}
    /\ calls = 0

----------------------------------------------------------------------------
(* The callers                                                             *)

\* Mutant of Begin: the devices the thread has counted before stay counted.
BeginStale(c) ==
    /\ pc[c] = "idle"
    /\ calls < MaxCalls
    /\ calls' = calls + 1
    /\ \E o \in Opcodes, T \in TargetSets :
          call' = [call EXCEPT ![c] = [id |-> calls + 1, op |-> o, targets |-> T]]
    /\ attempt' = [attempt EXCEPT ![c] = 1]
    /\ pc' = [pc EXCEPT ![c] = "build"]
    /\ sure' = [sure EXCEPT ![c] = {}]
    /\ UNCHANGED << acked, got, registry, rx, radioVars >>

\* A thread enters send_and_wait_with_retries (one target) or send_stream (a
\* group): nothing is acknowledged yet, first attempt.
Begin(c) ==
    /\ pc[c] = "idle"
    /\ calls < MaxCalls
    /\ calls' = calls + 1
    /\ \E o \in Opcodes, T \in TargetSets :
          call' = [call EXCEPT ![c] = [id |-> calls + 1, op |-> o, targets |-> T]]
    /\ attempt' = [attempt EXCEPT ![c] = 1]
    /\ acked' = [acked EXCEPT ![c] = {}]
    /\ pc' = [pc EXCEPT ![c] = "build"]
    /\ sure' = [sure EXCEPT ![c] = {}]
    /\ UNCHANGED << got, registry, rx, radioVars >>

\* No transport, or its ident_mac is not known yet: the call is refused.
Refuse(c) ==
    /\ pc[c] = "build"
    /\ attempt[c] = 1
    /\ pc' = [pc EXCEPT ![c] = "idle"]
    /\ UNCHANGED << call, attempt, acked, sure, got, registry, rx, radioVars, calls >>

\* send_and_match: a new matcher enters the registry of its gateway.
Register(c) ==
    /\ pc[c] = "build"
    /\ registry' = [registry EXCEPT ![Matcher(c).gw] = Append(@, Matcher(c))]
    /\ pc' = [pc EXCEPT ![c] = "send"]
    /\ UNCHANGED << call, attempt, acked, sure, got, rx, radioVars, calls >>

\* send_fn: the frame goes to all targets of the call, the acknowledged ones
\* of a group included, and reaches some of them (none when the gateway
\* rejects it; the SendOutcome is ignored here).
SendFrame(c) ==
    /\ pc[c] = "send"
    /\ \E R \in SUBSET call[c].targets :
          inbox' = inbox \cup [dev : R, op : {call[c].op}, id : {call[c].id},
                               attempt : {attempt[c]}]
    /\ pc' = [pc EXCEPT ![c] = "wait"]
    /\ UNCHANGED << call, attempt, acked, sure, got, registry, rx, rxq, answered,
                    executed, calls >>

\* PendingMatcher.wait returns: the expected count is collected, or the idle
\* or hard deadline has passed.
WaitEnds(c) ==
    /\ pc[c] = "wait"
    /\ pc' = [pc EXCEPT ![c] = "exit"]
    /\ UNCHANGED << call, attempt, acked, sure, got, registry, rx, radioVars, calls >>

\* Remove the first occurrence of m, if any.
Without(q, m) ==
    IF \E i \in 1 .. Len(q) : q[i] = m
    THEN LET i == CHOOSE i \in 1 .. Len(q) : q[i] = m
         IN  [j \in 1 .. Len(q) - 1 |-> IF j < i THEN q[j] ELSE q[j + 1]]
    ELSE q

\* Mutant of Cancel: only a satisfied matcher is removed.
CancelIfDone(c) ==
    /\ pc[c] = "exit"
    /\ registry' = IF Len(got[c]) >= Cardinality(Matcher(c).senders)
                   THEN [registry EXCEPT ![Matcher(c).gw] = Without(@, Matcher(c))]
                   ELSE registry
    /\ pc' = [pc EXCEPT ![c] = "read"]
    /\ UNCHANGED << call, attempt, acked, sure, got, rx, radioVars, calls >>

\* The finally block of send_and_match.
Cancel(c) ==
    /\ pc[c] = "exit"
    /\ registry' = [registry EXCEPT ![Matcher(c).gw] = Without(@, Matcher(c))]
    /\ pc' = [pc EXCEPT ![c] = "read"]
    /\ UNCHANGED << call, attempt, acked, sure, got, rx, radioVars, calls >>

\* The senders of the collected replies.
Answerers(q) == {q[i].dev : i \in 1 .. Len(q)}

\* Mutant of Succeeded: the status of the reply is not looked at.
SucceededAnyStatus(q) == {q[i].dev : i \in {j \in 1 .. Len(q) : j = Len(q)}}

\* What the callers with one target read off: events[-1].ack_status = 0.
Succeeded(q) == {q[i].dev : i \in {j \in 1 .. Len(q) : j = Len(q) /\ q[j].ok}}

\* The caller copies collected, counts the senders whatever their status, and
\* returns or retries for the ones that are missing; the matcher is garbage
\* from here on.
ReadReplies(c) ==
    /\ pc[c] = "read"
    /\ acked' = [acked EXCEPT ![c] = @ \cup Answerers(got[c])]
    /\ sure' = [sure EXCEPT ![c] = IF Cardinality(call[c].targets) = 1
                                   THEN Succeeded(got[c]) ELSE {}]
    /\ IF call[c].targets \subseteq acked[c] \cup Answerers(got[c]) \/ attempt[c] = MaxAttempts
       THEN pc' = [pc EXCEPT ![c] = "idle"] /\ UNCHANGED attempt
       ELSE /\ pc' = [pc EXCEPT ![c] = "build"]
            /\ attempt' = [attempt EXCEPT ![c] = @ + 1]
    /\ got' = [got EXCEPT ![c] = << >>]
    /\ UNCHANGED << call, registry, rx, radioVars, calls >>

----------------------------------------------------------------------------
(* The RX thread of each gateway: on_transport_event -> try_match          *)

\* Copy the candidates under the registry lock.
RxTake(g) ==
    /\ ~rx[g].busy
    /\ rxq[g] # << >>
    /\ rx' = [rx EXCEPT ![g] = [busy |-> TRUE, ev |-> Head(rxq[g]), cand |-> registry[g]]]
    /\ rxq' = [rxq EXCEPT ![g] = Tail(@)]
    /\ UNCHANGED << hostVars, inbox, answered, executed >>

\* The matcher object m is the one the caller will still read.
Live(m) == /\ m.id = call[m.caller].id
           /\ m.attempt = attempt[m.caller]
           /\ pc[m.caller] \in {"send", "wait", "exit", "read"}

\* The first accepting candidate collects the event, even when it is
\* satisfied or cancelled by now; a reply collected by a matcher its caller
\* has already read is lost.
RxMatch(g) ==
    /\ rx[g].busy
    /\ \E i \in 1 .. Len(rx[g].cand) :
          /\ First(rx[g].cand, rx[g].ev, i)
          /\ got' = IF Live(rx[g].cand[i])
                    THEN [got EXCEPT ![rx[g].cand[i].caller] = Append(@, rx[g].ev)]
                    ELSE got
    /\ rx' = [rx EXCEPT ![g] = NoRx]
    /\ UNCHANGED << pc, call, attempt, acked, sure, registry, radioVars, calls >>

\* No candidate accepts the event.
RxUnmatched(g) ==
    /\ rx[g].busy
    /\ Hits(rx[g].cand, rx[g].ev) = {}
    /\ rx' = [rx EXCEPT ![g] = NoRx]
    /\ UNCHANGED << hostVars, radioVars >>

----------------------------------------------------------------------------
(* Devices and radio (external)                                            *)

\* A device answers a request, with the status OK when it has carried it out
\* and another one when it refuses; any set of gateways hears it.
Answer(f) ==
    /\ inbox' = inbox \ {f}
    /\ answered' = answered \cup {[dev |-> f.dev, op |-> f.op]}
    /\ \E ok \in BOOLEAN, H \in SUBSET Gateways :
          /\ executed' = IF ok THEN executed \cup {[dev |-> f.dev, op |-> f.op]}
                         ELSE executed
          /\ rxq' = [g \in Gateways |->
                        IF g \in H
                        THEN Append(rxq[g], [dev |-> f.dev, op |-> f.op, gw |-> g, ok |-> ok,
                                             id |-> f.id, attempt |-> f.attempt])
                        ELSE rxq[g]]
    /\ UNCHANGED << hostVars, rx >>

----------------------------------------------------------------------------
Caller(c) == \/ Begin(c) \/ Refuse(c) \/ Register(c) \/ SendFrame(c)
             \/ WaitEnds(c) \/ Cancel(c) \/ ReadReplies(c)
Rx(g) == RxTake(g) \/ RxMatch(g) \/ RxUnmatched(g)

Next == \/ \E c \in Callers : Caller(c)
        \/ \E g \in Gateways : Rx(g)
        \/ \E f \in inbox : Answer(f)

Spec == Init /\ [][Next]_vars

----------------------------------------------------------------------------
(* Properties                                                              *)

\* Replies name no request, and any ACK counts, a refusal included; yet a call
\* only counts devices that were its targets and did answer its opcode, and a
\* device whose last reply reads OK (send_config, set_node_rf_config,
\* setNodeGroupId) has carried the opcode out, whichever request it was for.
SuccessIsTrue ==
    \A c \in Callers :
        /\ \A d \in acked[c] : /\ d \in call[c].targets
                               /\ [dev |-> d, op |-> call[c].op] \in answered
        /\ \A d \in sure[c] : /\ d \in acked[c]
                              /\ [dev |-> d, op |-> call[c].op] \in executed

\* Whoever a call counts as acknowledged has carried the opcode out.
AckedExecuted ==
    \A c \in Callers : \A d \in acked[c] : [dev |-> d, op |-> call[c].op] \in executed

\* A reply overheard by a sibling gateway never satisfies a call: every
\* collected reply came in through the gateway that owns the device.
CollectedOnHomeRadio ==
    \A c \in Callers : \A i \in 1 .. Len(got[c]) :
        got[c][i].gw = GatewayOf[got[c][i].dev]

\* A registry holds exactly the matchers of the callers between register and
\* cancel, once each: no matcher outlives its wait and swallows the replies
\* of later calls.
RegistryHoldsWaiters ==
    \A c \in Callers, g \in Gateways :
        Cardinality({i \in 1 .. Len(registry[g]) : registry[g][i].caller = c})
          = IF pc[c] \in {"send", "wait", "exit"} /\ Matcher(c).gw = g THEN 1 ELSE 0

\* The answer to the attempt a caller is waiting on is never dropped as
\* unmatched, however the RX thread's copy of the candidates interleaves
\* with registration (the matcher is registered before the frame is sent).
OwnReplyNotMissed ==
    [][\A g \in Gateways : RxUnmatched(g) =>
         ~\E c \in Callers :
            /\ pc[c] \in {"wait", "exit"}
            /\ rx[g].ev.id = call[c].id /\ rx[g].ev.attempt = attempt[c]
            /\ rx[g].ev.dev \in call[c].targets \ acked[c]
            /\ g = GatewayOfCall(c)]_vars

\* The host side implements what a blocking request promises (Rpc): the
\* matchers, their registration, cancellation and late replies are internal.
Promise == INSTANCE Rpc WITH
    Asks <- Calls,
    MaxRounds <- MaxAttempts,
    status <- [c \in Callers |-> IF pc[c] = "idle" THEN "closed" ELSE "open"],
    ask <- call,
    counted <- acked,
    trusted <- sure,
    round <- attempt,
    heard <- answered,
    done <- executed

\* Every behaviour of the callers and RX threads is one the promise allows
\* (gateway_service.py: send_and_wait_with_retries, send_stream): a call is
\* refused only before its first round, counts and trusts nothing of an
\* earlier call, and ends only with all devices counted or its rounds used up.
PromiseKept == Promise!Spec

================================================================================
