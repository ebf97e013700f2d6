---------------------------- MODULE GatewayProofs ----------------------------
(***************************************************************************)
(* Proofs about the gateways of the host, for any number of gateways,      *)
(* threads, callers, devices, transports and timers: which transports are  *)
(* attached or polled for (GatewayLifecycle), and which device each one    *)
(* expects to hear from (LinkExpect).                                      *)
(*                                                                         *)
(* GatewayLifecycle.  MissingIsPolled is not inductive: evaluate_and_arm   *)
(* leaves a registered timer alone, so one has to know that a registered   *)
(* timer is running or a callback is waiting for the lock (TimerLive).     *)
(* Type correctness needs that a thread inside _attach_transport holds a   *)
(* transport (Attaching).  NoCorpse needs that a gateway is attached once, *)
(* unless two discoveries raced for it, that no two threads attach the     *)
(* same transport, and from where on a dying reader is heard (CorpseInv).  *)
(*                                                                         *)
(* LinkExpect.  The inductive invariant adds to LinkTypeOK that a thread   *)
(* inside a request has one, that every expectation an RX thread holds is  *)
(* one it has decided on, and that an expectation is in the slot of the    *)
(* transport that owns its device (SlotsOwn).                              *)
(***************************************************************************)
EXTENDS GatewayLifecycle, LinkExpect, FiniteSetTheorems, TLAPS

----------------------------------------------------------------------------
(*                       Which gateways are attached                       *)
----------------------------------------------------------------------------
\* A registered timer is running, or a callback is about to drop it.
TimerLive == timer # NoTimer => timer \in polls \/ \E t \in Threads : th[t].pc = "fire"

\* A thread inside _attach_transport has a transport in hand.
AttachSteps == {"check", "start", "append", "hook", "bind", "state", "clear"}
Attaching == \A t \in Threads : th[t].pc \in AttachSteps => th[t].cur \in Slots

IInv == HostTypeOK /\ Attaching /\ TimerLive

----------------------------------------------------------------------------
(* Types                                                                   *)

\* What the tracker does to its timers.
LEMMA EvaluateType ==
    ASSUME HostTypeOK, NEW att, NEW canc, EvaluateAndArm(att, canc)
    PROVE  /\ timer' \in Polls \cup {NoTimer}
           /\ polls' \subseteq Polls
           /\ timer' # NoTimer => timer' \in polls' \/ (timer' = timer /\ polls' = polls)
           /\ ~down /\ MissingMacs(att, canc) # {} => timer' # NoTimer
           /\ down => polls' \subseteq polls
<1>1. CASE down \/ MissingMacs(att, canc) = {}
  BY <1>1, NoneAssumption DEF CancelTimer, HostTypeOK, EvaluateAndArm
<1>2. CASE ~(down \/ MissingMacs(att, canc) = {}) /\ timer = NoTimer
  BY <1>2, NoneAssumption DEF Arm, HostTypeOK, EvaluateAndArm
<1>3. CASE ~(down \/ MissingMacs(att, canc) = {}) /\ timer # NoTimer
  BY <1>3 DEF pollVars, HostTypeOK, EvaluateAndArm
<1> QED
  BY <1>1, <1>2, <1>3

\* What the end of a reader does to transports and timers.
LEMMA DetachType ==
    ASSUME HostTypeOK, NEW i \in Slots, NEW after \in Stages, Detach(i, after)
    PROVE  /\ stage' \in [Slots -> Stages]
           /\ attached' \subseteq Slots
           /\ \/ EvaluateAndArm(attached', cancelled)
              \/ UNCHANGED << attached, pollVars >>
<1>1. CASE i \in hooked /\ \E j \in attached : mac[j] = mac[i]
  <2>1. PICK j \in attached :
            /\ attached' = attached \ {j}
            /\ stage' = [stage EXCEPT ![i] = after, ![j] = CloseOf(@)]
            /\ EvaluateAndArm(attached \ {j}, cancelled)
    BY <1>1 DEF Detach
  <2>2. j \in Slots
    BY DEF HostTypeOK
  <2>3. stage' \in [Slots -> Stages]
    BY <2>1, <2>2 DEF HostTypeOK, CloseOf, Stages
  <2> QED
    BY <2>1, <2>3 DEF HostTypeOK
<1>2. CASE ~(i \in hooked /\ \E j \in attached : mac[j] = mac[i])
  BY <1>2 DEF Detach, HostTypeOK
<1> QED
  BY <1>1, <1>2

LEMMA InitIInv == Init => IInv
<1> SUFFICES ASSUME Init PROVE IInv
  OBVIOUS
<1>1. IdleThread \in ThreadStates /\ Begins("boot", "close") \in ThreadStates
  BY DEF IdleThread, Begins, ThreadStates, Jobs, Steps
<1>2. th \in [Threads -> ThreadStates]
  BY <1>1 DEF Init
<1>3. mac \in [Slots -> Macs]
  BY DEF Init
<1>4. stage \in [Slots -> Stages]
  BY DEF Init, Stages
<1>5. plugged \subseteq Macs /\ requests \in 0 .. MaxRequests /\ unplugs \in 0 .. MaxUnplugs
  BY BoundsAssumption DEF Init
<1>6. /\ broken = {} /\ hooked = {} /\ attached = {} /\ ready = FALSE /\ timer = NoTimer
      /\ polls = {} /\ cancelled = {} /\ down = FALSE
  BY DEF Init
<1>7. HostTypeOK
  BY <1>2, <1>3, <1>4, <1>5, <1>6 DEF HostTypeOK
<1>8. Attaching
  BY DEF Init, Attaching, AttachSteps, IdleThread, Begins
<1> QED
  BY <1>6, <1>7, <1>8 DEF IInv, TimerLive

\* A step of thread t moves t alone; it ends the job only where the code does.
Moves(t) == /\ th' \in [Threads -> ThreadStates]
            /\ \A u \in Threads \ {t} : th'[u] = th[u]
            /\ th'[t].job \in {th[t].job, "none"}
            /\ th'[t].pc \in AttachSteps => th'[t].cur \in Slots

\* A new place and a new set of gateways make a thread state.
LEMMA FoundType ==
    ASSUME HostTypeOK, NEW t \in Threads, NEW pc \in Steps \ AttachSteps, NEW F \in SUBSET Macs,
           th' = [th EXCEPT ![t].pc = pc, ![t].found = F]
    PROVE  Moves(t)
<1> DEFINE r == [th[t] EXCEPT !.pc = pc, !.found = F]
<1>1. th[t] \in ThreadStates
  BY DEF HostTypeOK
<1>2. r \in ThreadStates /\ r.job = th[t].job /\ r.pc \notin AttachSteps
  BY <1>1 DEF ThreadStates, AttachSteps
<1>3. th' = [th EXCEPT ![t] = r]
  BY DEF HostTypeOK
<1> QED
  BY <1>2, <1>3 DEF Moves, HostTypeOK

\* A thread that is through with a transport goes on with the next one.
LEMMA Finishes ==
    ASSUME HostTypeOK, NEW t \in Threads,
           th' = [th EXCEPT ![t].pc = "next", ![t].cur = NoSlot, ![t].opened = TRUE]
    PROVE  Moves(t)
<1> DEFINE r == [th[t] EXCEPT !.pc = "next", !.cur = NoSlot, !.opened = TRUE]
<1>1. th[t] \in ThreadStates
  BY DEF HostTypeOK
<1>2. r \in ThreadStates /\ r.job = th[t].job /\ r.pc \notin AttachSteps
  BY <1>1 DEF ThreadStates, AttachSteps, Steps
<1>3. th' = [th EXCEPT ![t] = r]
  BY DEF HostTypeOK
<1> QED
  BY <1>2, <1>3 DEF Moves, HostTypeOK

\* Each step of a discovery moves its thread through well-formed states.
LEMMA DiscoveryMoves ==
    ASSUME HostTypeOK, Attaching, NEW t \in Threads, Discovery(t)
    PROVE  Moves(t)
<1>0. IdleThread \in ThreadStates /\ IdleThread.job = "none" /\ IdleThread.pc \notin AttachSteps
  BY DEF IdleThread, ThreadStates, Jobs, Steps, AttachSteps
<1>1. CASE Fire(t)
  BY <1>0, <1>1 DEF Fire, Steps, Attaching, AttachSteps, Moves, HostTypeOK, ThreadStates
<1>2. CASE Evaluate(t)
  BY <1>0, <1>2 DEF Evaluate, AttachSteps, Moves, HostTypeOK
<1>3. CASE SoftPorts(t)
  <2>1. AttachedMacs(attached) \in SUBSET Macs
    BY DEF AttachedMacs, HostTypeOK
  <2>2. th' = [th EXCEPT ![t].pc = "probe", ![t].found = AttachedMacs(attached)]
    BY <1>3 DEF SoftPorts
  <2>3. "probe" \in Steps \ AttachSteps
    BY DEF Steps, AttachSteps
  <2> QED
    BY <2>1, <2>2, <2>3, FoundType
<1>4. CASE CloseAll(t)
  <2>1. th' = [th EXCEPT ![t].pc = "probe", ![t].found = {}]
    BY <1>4 DEF CloseAll
  <2>2. "probe" \in Steps \ AttachSteps /\ {} \in SUBSET Macs
    BY DEF Steps, AttachSteps
  <2> QED
    BY <2>1, <2>2, FoundType
<1>5. CASE Probe(t)
  BY <1>5 DEF Probe, Steps, Attaching, AttachSteps, Moves, HostTypeOK, ThreadStates
<1>6. CASE SoftFilter(t)
  <2>1. (th[t].found \ AttachedMacs(attached)) \ cancelled \in SUBSET Macs
    BY DEF HostTypeOK, ThreadStates
  <2>2. th' = [th EXCEPT ![t].pc = "next",
                         ![t].found = (th[t].found \ AttachedMacs(attached)) \ cancelled]
    BY <1>6 DEF SoftFilter
  <2>3. "next" \in Steps \ AttachSteps
    BY DEF Steps, AttachSteps
  <2> QED
    BY <2>1, <2>2, <2>3, FoundType
<1>7. CASE OpenPort(t)
  BY <1>7 DEF OpenPort, Steps, Attaching, AttachSteps, Moves, HostTypeOK, ThreadStates
<1>8. CASE OpenFails(t)
  BY <1>8 DEF OpenFails, Steps, Attaching, AttachSteps, Moves, HostTypeOK, ThreadStates
<1>9. CASE SoftDone(t)
  BY <1>9 DEF SoftDone, At, Steps, Attaching, AttachSteps, Moves, HostTypeOK, ThreadStates
<1>10. CASE DiscoverDone(t)
  BY <1>0, <1>10 DEF DiscoverDone, Steps, Attaching, AttachSteps, Moves, HostTypeOK, ThreadStates
<1>11. CASE AttachCheck(t)
  <2>1. CASE mac[th[t].cur] \in AttachedMacs(attached)
    BY <1>11, <2>1, Finishes DEF AttachCheck
  <2>2. CASE mac[th[t].cur] \notin AttachedMacs(attached)
    BY <1>11, <2>2 DEF AttachCheck, At, Steps, Attaching, AttachSteps, Moves, HostTypeOK, ThreadStates
  <2> QED
    BY <2>1, <2>2
<1>12. CASE AttachStart(t)
  BY <1>12 DEF AttachStart, At, Steps, Attaching, AttachSteps, Moves, HostTypeOK, ThreadStates
<1>13. CASE AttachAppend(t)
  BY <1>13 DEF AttachAppend, At, Steps, Attaching, AttachSteps, Moves, HostTypeOK, ThreadStates
<1>14. CASE AttachHook(t)
  BY <1>14 DEF AttachHook, At, Steps, Attaching, AttachSteps, Moves, HostTypeOK, ThreadStates
<1>15. CASE AttachBind(t)
  BY <1>15 DEF AttachBind, AttachWrite, At, Steps, Attaching, AttachSteps, Moves, HostTypeOK, ThreadStates
<1>16. CASE AttachState(t)
  BY <1>16 DEF AttachState, AttachWrite, At, Steps, Attaching, AttachSteps, Moves, HostTypeOK, ThreadStates
<1>17. CASE AttachClear(t)
  BY <1>17, Finishes DEF AttachClear
<1> QED
  BY <1>1, <1>2, <1>3, <1>4, <1>5, <1>6, <1>7, <1>8, <1>9, <1>10, <1>11, <1>12,
     <1>13, <1>14, <1>15, <1>16, <1>17 DEF Discovery

\* A write of the attaching thread keeps the types.
LEMMA WriteType ==
    ASSUME HostTypeOK, Attaching, NEW t \in Threads, NEW pc \in AttachSteps, NEW next,
           AttachWrite(t, pc, next)
    PROVE  /\ stage' \in [Slots -> Stages]
           /\ attached' \subseteq Slots
           /\ \/ EvaluateAndArm(attached', cancelled)
              \/ UNCHANGED << attached, pollVars >>
<1>1. th[t].cur \in Slots /\ CloseOf(stage[th[t].cur]) \in Stages
  BY DEF AttachWrite, Attaching, HostTypeOK, CloseOf, Stages
<1>2. CASE Detach(th[t].cur, CloseOf(stage[th[t].cur]))
  BY <1>1, <1>2, DetachType
<1>3. CASE UNCHANGED << stage, attached, pollVars >>
  BY <1>3 DEF HostTypeOK
<1> QED
  BY <1>2, <1>3 DEF AttachWrite

\* A step of a discovery keeps the types.
LEMMA DiscoveryType ==
    ASSUME HostTypeOK, Attaching, NEW t \in Threads, Discovery(t)
    PROVE  HostTypeOK'
<1>0. th' \in [Threads -> ThreadStates]
  BY DiscoveryMoves DEF Moves
<1> USE DEF envVars, trVars, pollVars
<1>1. CASE Fire(t)
  BY <1>0, <1>1 DEF Fire, HostTypeOK, Stages
<1>2. CASE Evaluate(t)
  <2>1. timer' \in Polls \cup {NoTimer} /\ polls' \subseteq Polls
    BY <1>2, EvaluateType DEF Evaluate
  <2> QED
    BY <1>0, <1>2, <2>1 DEF Evaluate, HostTypeOK
<1>3. CASE SoftPorts(t)
  BY <1>0, <1>3 DEF SoftPorts, HostTypeOK, Stages
<1>4. CASE CloseAll(t)
  BY <1>0, <1>4 DEF CloseAll, HostTypeOK, Stages
<1>5. CASE Probe(t)
  BY <1>0, <1>5 DEF Probe, HostTypeOK, Stages
<1>6. CASE SoftFilter(t)
  BY <1>0, <1>6 DEF SoftFilter, HostTypeOK, Stages
<1>7. CASE OpenPort(t)
  <2>1. PICK m \in th[t].found \cap plugged, i \in Slots :
            /\ mac' = [mac EXCEPT ![i] = m]
            /\ stage' = [stage EXCEPT ![i] = "open"]
            /\ broken' = broken \ {i}
            /\ hooked' = hooked \ {i}
    BY <1>7 DEF OpenPort
  <2>2. m \in Macs
    BY DEF HostTypeOK
  <2>3. mac' \in [Slots -> Macs] /\ stage' \in [Slots -> Stages]
    BY <2>1, <2>2 DEF HostTypeOK, Stages
  <2> QED
    BY <1>0, <1>7, <2>1, <2>3 DEF OpenPort, HostTypeOK
<1>8. CASE OpenFails(t)
  BY <1>0, <1>8 DEF OpenFails, HostTypeOK, Stages
<1>9. CASE SoftDone(t)
  BY <1>0, <1>9 DEF SoftDone, HostTypeOK, Stages
<1>10. CASE DiscoverDone(t)
  <2>1. ready' \in BOOLEAN
    BY <1>10 DEF DiscoverDone, HostTypeOK, ThreadStates
  <2> QED
    BY <1>0, <1>10, <2>1 DEF DiscoverDone, HostTypeOK
<1>11. CASE AttachCheck(t)
  BY <1>0, <1>11 DEF AttachCheck, HostTypeOK, Stages
<1>12. CASE AttachStart(t)
  BY <1>0, <1>12 DEF AttachStart, HostTypeOK, Stages
<1>13. CASE AttachAppend(t)
  <2>1. th[t].cur \in Slots
    BY <1>13 DEF AttachAppend, Attaching, AttachSteps
  <2> QED
    BY <1>0, <1>13, <2>1 DEF AttachAppend, HostTypeOK
<1>14. CASE AttachHook(t)
  <2>1. th[t].cur \in Slots
    BY <1>14 DEF AttachHook, Attaching, AttachSteps
  <2> QED
    BY <1>0, <1>14, <2>1 DEF AttachHook, HostTypeOK
<1>15. CASE AttachBind(t)
  <2>1. AttachWrite(t, "bind", "state") /\ "bind" \in AttachSteps
    BY <1>15 DEF AttachBind, AttachSteps
  <2>2. stage' \in [Slots -> Stages] /\ attached' \subseteq Slots
    BY <2>1, WriteType
  <2>3. timer' \in Polls \cup {NoTimer} /\ polls' \subseteq Polls
    <3>1. CASE EvaluateAndArm(attached', cancelled)
      BY <3>1, EvaluateType
    <3>2. CASE UNCHANGED << attached, pollVars >>
      BY <3>2 DEF HostTypeOK
    <3> QED
      BY <2>1, <3>1, <3>2, WriteType
  <2> QED
    BY <1>0, <2>1, <2>2, <2>3 DEF AttachWrite, HostTypeOK
<1>16. CASE AttachState(t)
  <2>1. AttachWrite(t, "state", "clear") /\ "state" \in AttachSteps
    BY <1>16 DEF AttachState, AttachSteps
  <2>2. stage' \in [Slots -> Stages] /\ attached' \subseteq Slots
    BY <2>1, WriteType
  <2>3. timer' \in Polls \cup {NoTimer} /\ polls' \subseteq Polls
    <3>1. CASE EvaluateAndArm(attached', cancelled)
      BY <3>1, EvaluateType
    <3>2. CASE UNCHANGED << attached, pollVars >>
      BY <3>2 DEF HostTypeOK
    <3> QED
      BY <2>1, <3>1, <3>2, WriteType
  <2> QED
    BY <1>0, <2>1, <2>2, <2>3 DEF AttachWrite, HostTypeOK
<1>17. CASE AttachClear(t)
  BY <1>0, <1>17 DEF AttachClear, HostTypeOK, Stages
<1> QED
  BY <1>1, <1>2, <1>3, <1>4, <1>5, <1>6, <1>7, <1>8, <1>9, <1>10, <1>11, <1>12,
     <1>13, <1>14, <1>15, <1>16, <1>17 DEF Discovery

\* A new job starts on an idle thread.
LEMMA BeginMoves ==
    ASSUME HostTypeOK, NEW t \in Threads, NEW job \in Jobs, NEW pc \in Steps \ AttachSteps,
           th' = [th EXCEPT ![t] = Begins(job, pc)]
    PROVE  /\ th' \in [Threads -> ThreadStates]
           /\ \A u \in Threads \ {t} : th'[u] = th[u]
           /\ th'[t].job = job /\ th'[t].pc = pc
<1>1. Begins(job, pc) \in ThreadStates /\ Begins(job, pc).job = job /\ Begins(job, pc).pc = pc
  BY DEF Begins, IdleThread, ThreadStates, Steps
<1> QED
  BY <1>1 DEF HostTypeOK

\* The other actions keep the types and the transports in hand.
LEMMA TypeStep ==
    ASSUME HostTypeOK, Attaching, [Next]_vars
    PROVE  HostTypeOK' /\ Attaching'
<1> USE DEF envVars, trVars, pollVars
<1>1. ASSUME NEW t \in Threads, Discovery(t) PROVE HostTypeOK' /\ Attaching'
  BY <1>1, DiscoveryType, DiscoveryMoves DEF Moves, Attaching
<1>2. ASSUME NEW t \in Threads, PollFire(t) PROVE HostTypeOK' /\ Attaching'
  <2>1. "poll" \in Jobs /\ "fire" \in Steps \ AttachSteps
    BY DEF Jobs, Steps, AttachSteps
  <2>2. th' = [th EXCEPT ![t] = Begins("poll", "fire")]
    BY <1>2 DEF PollFire
  <2>3. /\ th' \in [Threads -> ThreadStates]
        /\ \A u \in Threads \ {t} : th'[u] = th[u]
        /\ th'[t].pc = "fire"
    BY <2>1, <2>2, BeginMoves
  <2> QED
    BY <1>2, <2>1, <2>3 DEF PollFire, HostTypeOK, Attaching
<1>3. ASSUME NEW t \in Threads, Rediscover(t) PROVE HostTypeOK' /\ Attaching'
  <2>1. "rediscover" \in Jobs /\ "ports" \in Steps \ AttachSteps
    BY DEF Jobs, Steps, AttachSteps
  <2>2. th' = [th EXCEPT ![t] = Begins("rediscover", "ports")]
    BY <1>3 DEF Rediscover
  <2>3. /\ th' \in [Threads -> ThreadStates]
        /\ \A u \in Threads \ {t} : th'[u] = th[u]
        /\ th'[t].pc = "ports"
    BY <2>1, <2>2, BeginMoves
  <2>4. timer' \in Polls \cup {NoTimer} /\ polls' \subseteq Polls
    BY <1>3, EvaluateType DEF Rediscover
  <2>5. requests' \in 0 .. MaxRequests
    BY <1>3, BoundsAssumption DEF Rediscover, Request, HostTypeOK
  <2> QED
    BY <1>3, <2>1, <2>3, <2>4, <2>5 DEF Rediscover, HostTypeOK, Attaching
<1>4. ASSUME NEW t \in Threads, RetryGateway(t) PROVE HostTypeOK' /\ Attaching'
  <2>1. "retry" \in Jobs /\ "close" \in Steps \ AttachSteps
    BY DEF Jobs, Steps, AttachSteps
  <2>2. th' = [th EXCEPT ![t] = Begins("retry", "close")]
    BY <1>4 DEF RetryGateway
  <2>3. /\ th' \in [Threads -> ThreadStates]
        /\ \A u \in Threads \ {t} : th'[u] = th[u]
        /\ th'[t].pc = "close"
    BY <2>1, <2>2, BeginMoves
  <2>4. requests' \in 0 .. MaxRequests
    BY <1>4, BoundsAssumption DEF RetryGateway, Request, HostTypeOK
  <2> QED
    BY <1>4, <2>1, <2>3, <2>4 DEF RetryGateway, HostTypeOK, Attaching
<1>5. ASSUME NEW i \in Slots, ReaderDies(i) PROVE HostTypeOK' /\ Attaching'
  <2>1. PICK after \in Stages : Detach(i, after)
    BY <1>5 DEF ReaderDies, Stages
  <2>2. /\ stage' \in [Slots -> Stages]
        /\ attached' \subseteq Slots
        /\ EvaluateAndArm(attached', cancelled) \/ UNCHANGED << attached, pollVars >>
    BY <2>1, DetachType
  <2>3. timer' \in Polls \cup {NoTimer} /\ polls' \subseteq Polls
    <3>1. CASE EvaluateAndArm(attached', cancelled)
      BY <3>1, EvaluateType
    <3>2. CASE UNCHANGED << attached, pollVars >>
      BY <3>2 DEF HostTypeOK
    <3> QED
      BY <2>2, <3>1, <3>2
  <2> QED
    BY <1>5, <2>2, <2>3 DEF ReaderDies, HostTypeOK, Attaching
<1>6. ASSUME NEW i \in Slots, ReaderStops(i) PROVE HostTypeOK' /\ Attaching'
  BY <1>6 DEF ReaderStops, HostTypeOK, Attaching, Stages
<1>7. ASSUME NEW m \in Macs, Unplug(m) PROVE HostTypeOK' /\ Attaching'
  <2>1. unplugs' \in 0 .. MaxUnplugs
    BY <1>7, BoundsAssumption DEF Unplug, HostTypeOK
  <2>2. broken' \subseteq Slots
    BY <1>7 DEF Unplug, HostTypeOK
  <2> QED
    BY <1>7, <2>1, <2>2 DEF Unplug, HostTypeOK, Attaching
<1>8. ASSUME NEW m \in Macs, Plug(m) PROVE HostTypeOK' /\ Attaching'
  BY <1>8 DEF Plug, HostTypeOK, Attaching
<1>9. CASE CancelReconnect
  <2>1. PICK C \in {{m} : m \in Macs} \cup {Macs \ AttachedMacs(attached)} :
            cancelled' = cancelled \cup C /\ EvaluateAndArm(attached, cancelled \cup C)
    BY <1>9 DEF CancelReconnect
  <2>2. timer' \in Polls \cup {NoTimer} /\ polls' \subseteq Polls
    BY <2>1, EvaluateType
  <2>3. requests' \in 0 .. MaxRequests
    BY <1>9, BoundsAssumption DEF CancelReconnect, Request, HostTypeOK
  <2>4. cancelled' \subseteq Macs
    BY <2>1 DEF HostTypeOK
  <2> QED
    BY <1>9, <2>2, <2>3, <2>4 DEF CancelReconnect, HostTypeOK, Attaching
<1>10. CASE Shutdown
  <2>1. requests' \in 0 .. MaxRequests
    BY <1>10, BoundsAssumption DEF Shutdown, Request, HostTypeOK
  <2>2. stage' \in [Slots -> Stages]
    BY <1>10 DEF Shutdown, HostTypeOK, Stages
  <2> QED
    BY <1>10, <2>1, <2>2 DEF Shutdown, CancelTimer, HostTypeOK, Attaching
<1>11. CASE UNCHANGED vars
  BY <1>11 DEF vars, hostVars, HostTypeOK, Attaching
<1> QED
  BY <1>1, <1>2, <1>3, <1>4, <1>5, <1>6, <1>7, <1>8, <1>9, <1>10, <1>11
     DEF Next, Step, Reader, Cable

\* Every variable keeps its type, with any interleaving of poll callbacks,
\* discoveries, readers and operator requests (GatewayLifecycle's Next).
THEOREM TypeCorrect == Spec => []TypeOK
<1> DEFINE TInv == HostTypeOK /\ Attaching /\ twice \subseteq Macs
<1>1. Init => TInv
  BY InitIInv DEF IInv, Init
<1>2. TInv /\ [Next]_vars => TInv'
  <2>1. twice \subseteq Macs /\ [Next]_vars => twice' \subseteq Macs
    BY DEF Next, Follow, vars
  <2> QED
    BY <2>1, TypeStep
<1>3. TInv => TypeOK
  BY DEF TypeOK
<1> QED
  BY <1>1, <1>2, <1>3, PTL DEF Spec

----------------------------------------------------------------------------
(* The tracker never forgets a missing gateway                             *)

\* After evaluate_and_arm a missing gateway is polled for, or a callback
\* still waits for the lock.
LEMMA EvaluatePolls ==
    ASSUME HostTypeOK, TimerLive, NEW att, NEW canc, EvaluateAndArm(att, canc),
           \A u \in Threads : th[u].pc = "fire" => th'[u].pc = "fire"
    PROVE  /\ TimerLive'
           /\ ~down /\ MissingMacs(att, canc) # {}
                => polls' # {} \/ \E u \in Threads : th'[u].pc = "fire"
<1>1. /\ timer' # NoTimer => timer' \in polls' \/ (timer' = timer /\ polls' = polls)
      /\ ~down /\ MissingMacs(att, canc) # {} => timer' # NoTimer
  BY EvaluateType
<1> QED
  BY <1>1 DEF TimerLive

\* A thread step that leaves timers alone keeps the callbacks that wait.
LEMMA TimerKept ==
    ASSUME TimerLive, UNCHANGED pollVars,
           \A u \in Threads : th[u].pc = "fire" => th'[u].pc = "fire"
    PROVE  TimerLive'
  BY DEF TimerLive, pollVars

\* The steps of a discovery, but for its last, leave its thread busy.
LEMMA Busy ==
    ASSUME HostTypeOK, Attaching, NEW t \in Threads, Discovery(t), NoRetry
    PROVE  Fire(t) \/ Evaluate(t) \/ (th'[t].pc # "idle" /\ th[t].pc # "fire")
<1> USE DEF HostTypeOK, ThreadStates, At
<1>1. CASE SoftPorts(t)
  BY <1>1 DEF SoftPorts
<1>2. CASE CloseAll(t)
  BY <1>2 DEF CloseAll
<1>3. CASE Probe(t)
  BY <1>3 DEF Probe
<1>4. CASE SoftFilter(t)
  BY <1>4 DEF SoftFilter
<1>5. CASE OpenPort(t)
  BY <1>5 DEF OpenPort
<1>6. CASE OpenFails(t)
  BY <1>6 DEF OpenFails
<1>7. CASE SoftDone(t)
  BY <1>7 DEF SoftDone
<1>8. CASE DiscoverDone(t)
  BY <1>8 DEF DiscoverDone, NoRetry
<1>9. CASE AttachCheck(t)
  <2>1. th'[t].pc \in {"next", "start"}
    BY <1>9 DEF AttachCheck
  <2> QED
    BY <1>9, <2>1 DEF AttachCheck
<1>10. CASE AttachStart(t) \/ AttachAppend(t) \/ AttachHook(t)
  BY <1>10 DEF AttachStart, AttachAppend, AttachHook
<1>11. CASE AttachBind(t) \/ AttachState(t)
  BY <1>11 DEF AttachBind, AttachState, AttachWrite
<1>12. CASE AttachClear(t)
  <2>1. th'[t].pc = "next"
    BY <1>12 DEF AttachClear
  <2> QED
    BY <1>12, <2>1 DEF AttachClear
<1> QED
  BY <1>1, <1>2, <1>3, <1>4, <1>5, <1>6, <1>7, <1>8, <1>9, <1>10, <1>11, <1>12
     DEF Discovery

\* Every step of a thread inside a discovery keeps the poll alive.
LEMMA DiscoveryPolls ==
    ASSUME IInv, MissingIsPolled, NoRetry, NEW t \in Threads, Discovery(t)
    PROVE  TimerLive' /\ MissingIsPolled' /\ NoRetry'
<1>0. HostTypeOK /\ Attaching /\ TimerLive
  BY DEF IInv
<1>1. NoRetry' /\ (th[t].pc # "fire" => \A u \in Threads : th[u].pc = "fire" => th'[u].pc = "fire")
  BY <1>0, DiscoveryMoves DEF Moves, NoRetry
<1>2. CASE Fire(t)
  <2>1. timer' = NoTimer
    BY <1>2 DEF Fire
  <2>2. th'[t].pc = "idle" => down /\ down'
    BY <1>0, <1>2 DEF Fire, HostTypeOK, ThreadStates
  <2> QED
    BY <1>1, <2>1, <2>2 DEF TimerLive, MissingIsPolled
<1>3. CASE Evaluate(t)
  <2>1. EvaluateAndArm(attached, cancelled) /\ UNCHANGED << mac, attached, cancelled, down >>
    BY <1>3 DEF Evaluate, trVars
  <2>2. th[t].pc # "fire"
    BY <1>3 DEF Evaluate
  <2>3. /\ TimerLive'
        /\ ~down /\ MissingMacs(attached, cancelled) # {}
             => polls' # {} \/ \E u \in Threads : th'[u].pc = "fire"
    BY <1>0, <1>1, <2>1, <2>2, EvaluatePolls
  <2> QED
    BY <1>1, <2>1, <2>3 DEF MissingIsPolled, MissingMacs, AttachedMacs
<1>4. CASE th'[t].pc # "idle" /\ th[t].pc # "fire" /\ ~Fire(t) /\ ~Evaluate(t)
  <2>1. MissingIsPolled'
    BY <1>4 DEF MissingIsPolled
  <2>2. UNCHANGED pollVars => TimerLive'
    BY <1>0, <1>1, <1>4, TimerKept
  <2>3. EvaluateAndArm(attached', cancelled) => TimerLive'
    BY <1>0, <1>1, <1>4, EvaluatePolls
  <2>4. UNCHANGED pollVars \/ EvaluateAndArm(attached', cancelled)
    <3>1. CASE AttachBind(t) \/ AttachState(t)
      <4>1. PICK pc \in AttachSteps, next \in Steps : AttachWrite(t, pc, next)
        BY <3>1 DEF AttachBind, AttachState, AttachSteps, Steps
      <4> QED
        BY <1>0, <4>1, WriteType
    <3>2. CASE ~(AttachBind(t) \/ AttachState(t))
      BY <1>4, <3>2 DEF Discovery, SoftPorts, CloseAll, Probe, SoftFilter, OpenPort,
         OpenFails, SoftDone, DiscoverDone, AttachCheck, AttachStart, AttachAppend,
         AttachHook, AttachClear
    <3> QED
      BY <3>1, <3>2
  <2> QED
    BY <1>1, <2>1, <2>2, <2>3, <2>4
<1> QED
  BY <1>0, <1>2, <1>3, <1>4, Busy

\* Every step keeps the poll alive, as long as it does not begin a manual
\* retry.
LEMMA PollStep ==
    ASSUME IInv, MissingIsPolled, NoRetry, NoRetry', [Next]_vars
    PROVE  TimerLive' /\ MissingIsPolled'
<1>0. HostTypeOK /\ Attaching /\ TimerLive
  BY DEF IInv
<1>1. ASSUME NEW t \in Threads, Discovery(t) PROVE TimerLive' /\ MissingIsPolled' /\ NoRetry'
  BY <1>1, DiscoveryPolls
<1>2. ASSUME NEW t \in Threads, PollFire(t) PROVE TimerLive' /\ MissingIsPolled' /\ NoRetry'
  <2>1. "poll" \in Jobs /\ "fire" \in Steps \ AttachSteps
    BY DEF Jobs, Steps, AttachSteps
  <2>2. th' = [th EXCEPT ![t] = Begins("poll", "fire")]
    BY <1>2 DEF PollFire
  <2>3. /\ \A u \in Threads \ {t} : th'[u] = th[u]
        /\ th'[t].job = "poll" /\ th'[t].pc = "fire"
    BY <1>0, <2>1, <2>2, BeginMoves
  <2> QED
    BY <2>3 DEF TimerLive, MissingIsPolled, NoRetry
<1>3. ASSUME NEW t \in Threads, Rediscover(t) PROVE TimerLive' /\ MissingIsPolled' /\ NoRetry'
  <2>1. "rediscover" \in Jobs /\ "ports" \in Steps \ AttachSteps
    BY DEF Jobs, Steps, AttachSteps
  <2>2. th' = [th EXCEPT ![t] = Begins("rediscover", "ports")] /\ th[t].pc = "idle"
    BY <1>3 DEF Rediscover
  <2>3. /\ \A u \in Threads \ {t} : th'[u] = th[u]
        /\ th'[t].job = "rediscover" /\ th'[t].pc = "ports"
    BY <1>0, <2>1, <2>2, BeginMoves
  <2>4. TimerLive'
    BY <1>0, <1>3, <2>2, <2>3, EvaluatePolls DEF Rediscover
  <2> QED
    BY <2>3, <2>4 DEF MissingIsPolled, NoRetry
<1>4. ASSUME NEW t \in Threads, RetryGateway(t) PROVE FALSE
  <2>1. "retry" \in Jobs /\ "close" \in Steps \ AttachSteps
    BY DEF Jobs, Steps, AttachSteps
  <2>2. th' = [th EXCEPT ![t] = Begins("retry", "close")]
    BY <1>4 DEF RetryGateway
  <2>3. th'[t].job = "retry"
    BY <1>0, <2>1, <2>2, BeginMoves
  <2> QED
    BY <2>3 DEF NoRetry
<1>5. ASSUME NEW i \in Slots, ReaderDies(i) PROVE TimerLive' /\ MissingIsPolled' /\ NoRetry'
  <2>1. PICK after \in Stages : Detach(i, after)
    BY <1>5 DEF ReaderDies, Stages
  <2>2. EvaluateAndArm(attached', cancelled) \/ UNCHANGED << attached, pollVars >>
    BY <1>0, <2>1, DetachType
  <2>3. UNCHANGED << th, mac, cancelled, down >>
    BY <1>5 DEF ReaderDies
  <2>4. CASE EvaluateAndArm(attached', cancelled)
    <3>1. /\ TimerLive'
          /\ ~down /\ MissingMacs(attached', cancelled) # {}
               => polls' # {} \/ \E u \in Threads : th'[u].pc = "fire"
      BY <1>0, <2>3, <2>4, EvaluatePolls
    <3> QED
      BY <2>3, <3>1 DEF MissingIsPolled, MissingMacs, AttachedMacs, NoRetry
  <2>5. CASE UNCHANGED << attached, pollVars >>
    BY <1>0, <2>3, <2>5 DEF TimerLive, MissingIsPolled, MissingMacs, AttachedMacs, NoRetry, pollVars
  <2> QED
    BY <2>2, <2>4, <2>5
<1>6. CASE UNCHANGED << th, mac, attached, cancelled, down, pollVars >>
  BY <1>0, <1>6 DEF TimerLive, MissingIsPolled, MissingMacs, AttachedMacs, NoRetry, pollVars
<1>7. CASE CancelReconnect
  <2>1. PICK C : cancelled' = cancelled \cup C /\ EvaluateAndArm(attached, cancelled \cup C)
    BY <1>7 DEF CancelReconnect
  <2>2. UNCHANGED << th, mac, attached, down >>
    BY <1>7 DEF CancelReconnect, trVars
  <2>3. /\ TimerLive'
        /\ ~down /\ MissingMacs(attached, cancelled') # {}
             => polls' # {} \/ \E u \in Threads : th'[u].pc = "fire"
    BY <1>0, <2>1, <2>2, EvaluatePolls
  <2> QED
    BY <2>2, <2>3 DEF MissingIsPolled, MissingMacs, AttachedMacs, NoRetry
<1>8. CASE Shutdown
  BY <1>8 DEF Shutdown, CancelTimer, TimerLive, MissingIsPolled, NoRetry
<1>9. (\E i \in Slots : ReaderStops(i)) \/ (\E m \in Macs : Cable(m)) \/ UNCHANGED vars
        => UNCHANGED << th, mac, attached, cancelled, down, pollVars >>
  BY DEF ReaderStops, Cable, Unplug, Plug, vars, hostVars, trVars, pollVars
<1> QED
  BY <1>1, <1>2, <1>3, <1>4, <1>5, <1>6, <1>7, <1>8, <1>9 DEF Next, Step, Reader

\* As long as nobody asks for a manual retry, a missing gateway is always
\* polled for or looked for (missing_transport_tracker.py: evaluate_and_arm,
\* _fire), however callbacks, discoveries and dying readers interleave.
THEOREM MissingAlwaysPolled == Spec => PolledUnlessRetried
<1> DEFINE PInv == IInv /\ MissingIsPolled
<1>1. Init => PInv
  <2> SUFFICES ASSUME Init PROVE PInv
    OBVIOUS
  <2>1. PICK b \in Threads :
            th = [t \in Threads |-> IF t = b THEN Begins("boot", "close") ELSE IdleThread]
    BY DEF Init
  <2>2. th[b].pc = "close"
    BY <2>1 DEF Begins, IdleThread
  <2> QED
    BY <2>2, InitIInv DEF MissingIsPolled
<1>2. PInv /\ NoRetry /\ NoRetry' /\ [Next]_vars => PInv'
  BY TypeStep, PollStep DEF IInv
<1>3. PInv => MissingIsPolled
  OBVIOUS
<1> QED
  BY <1>1, <1>2, <1>3, PTL DEF Spec, PolledUnlessRetried

----------------------------------------------------------------------------
(* Shutdown is final                                                       *)

\* Only evaluate_and_arm starts timers, and it looks at the shutdown flag
\* under the tracker's lock: after shutdown no step of any thread adds one.
THEOREM ShutdownFinal == Spec => NoPollAfterShutdown
<1> DEFINE TInv == HostTypeOK /\ Attaching
<1>1. Init => TInv
  BY InitIInv DEF IInv
<1>2. TInv /\ [Next]_vars => TInv'
  BY TypeStep
<1>3. TInv /\ [Next]_vars => [down => polls' \subseteq polls]_vars
  <2> SUFFICES ASSUME HostTypeOK, Attaching, Next, down PROVE polls' \subseteq polls
    BY DEF vars, hostVars
  <2>0. ASSUME NEW att, NEW canc, EvaluateAndArm(att, canc) PROVE polls' \subseteq polls
    BY <2>0, EvaluateType
  <2>1. ASSUME NEW t \in Threads, Discovery(t) PROVE polls' \subseteq polls
    <3>1. CASE AttachBind(t) \/ AttachState(t)
      <4>1. PICK pc \in AttachSteps, next \in Steps : AttachWrite(t, pc, next)
        BY <3>1 DEF AttachBind, AttachState, AttachSteps, Steps
      <4> QED
        BY <2>0, <4>1, WriteType DEF pollVars
    <3>2. CASE Evaluate(t)
      BY <2>0, <3>2 DEF Evaluate
    <3>3. CASE ~(AttachBind(t) \/ AttachState(t) \/ Evaluate(t))
      BY <2>1, <3>3 DEF Discovery, Fire, SoftPorts, CloseAll, Probe, SoftFilter, OpenPort,
         OpenFails, SoftDone, DiscoverDone, AttachCheck, AttachStart, AttachAppend,
         AttachHook, AttachClear, pollVars
    <3> QED
      BY <3>1, <3>2, <3>3
  <2>2. ASSUME NEW t \in Threads, PollFire(t) PROVE polls' \subseteq polls
    BY <2>2 DEF PollFire
  <2>3. ASSUME NEW i \in Slots, ReaderDies(i) PROVE polls' \subseteq polls
    <3>1. PICK after \in Stages : Detach(i, after)
      BY <2>3 DEF ReaderDies, Stages
    <3> QED
      BY <2>0, <3>1, DetachType DEF pollVars
  <2>4. ASSUME NEW i \in Slots, ReaderStops(i) PROVE polls' \subseteq polls
    BY <2>4 DEF ReaderStops, pollVars
  <2>5. ASSUME NEW m \in Macs, Cable(m) PROVE polls' \subseteq polls
    BY <2>5 DEF Cable, Unplug, Plug, pollVars
  <2>6. ~Shutdown /\ ~CancelReconnect /\ \A t \in Threads : ~Rediscover(t) /\ ~RetryGateway(t)
    BY DEF Shutdown, CancelReconnect, Rediscover, RetryGateway, Request
  <2> QED
    BY <2>1, <2>2, <2>3, <2>4, <2>5, <2>6 DEF Next, Step, Reader
<1> QED
  BY <1>1, <1>2, <1>3, PTL DEF Spec, NoPollAfterShutdown

----------------------------------------------------------------------------
(* No dead transport stays attached                                        *)

\* Only a gateway in `twice' is attached twice; no two threads attach the same
\* transport; one before the duplicate guard is not attached yet, and its
\* EV_ERROR is heard from the hook on.
OneEach == \A i, j \in attached : mac[i] = mac[j] => i = j \/ mac[i] \in twice
Apart == \A t, u \in Threads : th[t].cur = th[u].cur => t = u \/ th[t].cur = NoSlot
InHand == \A t \in Threads :
    /\ th[t].pc = "check" => th[t].cur \notin attached
    /\ th[t].pc \in {"bind", "state", "clear"} => th[t].cur \in hooked

\* The reader of an attached transport runs and is listened to, unless the
\* transport is still to be written to for the first time.
Heard == \A i \in attached :
    \/ mac[i] \in twice
    \/ stage[i] = "running" /\ i \in hooked
    \/ \E t \in Threads : th[t].cur = i /\ th[t].pc \in {"hook", "bind"}

CorpseInv == OneEach /\ Apart /\ InHand /\ Heard

\* A gateway attached twice counts as such as long as it is attached.
LEMMA FollowTwice ==
    ASSUME HostTypeOK', Follow
    PROVE  /\ OneEach'
           /\ \A i \in attached' : mac'[i] \in twice => mac'[i] \in twice'
<1>1. attached' \subseteq Slots /\ mac' \in [Slots -> Macs]
  BY DEF HostTypeOK
<1> QED
  BY <1>1 DEF Follow, OneEach

\* The steps that attach nothing and end no reader that is listened to.
LEMMA CorpseKept ==
    ASSUME CorpseInv, HostTypeOK', Follow, attached' \subseteq attached, mac' = mac, hooked \subseteq hooked',
           \A k \in attached' :
              mac[k] \notin twice /\ stage[k] = "running" /\ k \in hooked => stage'[k] = "running",
           \A u \in Threads :
              /\ th'[u].cur \in {th[u].cur, NoSlot}
              /\ th'[u].pc = "check" => th[u].pc = "check" /\ th'[u].cur = th[u].cur
              /\ th'[u].pc \in {"bind", "state", "clear"}
                    => th[u].pc \in {"bind", "state", "clear"} /\ th'[u].cur = th[u].cur
              /\ th[u].pc \in {"hook", "bind"}
                    => (th'[u].pc \in {"hook", "bind"} /\ th'[u].cur = th[u].cur)
                       \/ th[u].cur \notin attached'
                       \/ (stage'[th[u].cur] = "running" /\ th[u].cur \in hooked')
    PROVE  CorpseInv'
<1>1. OneEach'
  BY FollowTwice
<1>2. InHand' /\ Apart'
  BY DEF CorpseInv, InHand, Apart
<1>3. Heard'
  <2> SUFFICES ASSUME NEW i \in attached', mac'[i] \notin twice'
               PROVE  \/ stage'[i] = "running" /\ i \in hooked'
                      \/ \E t \in Threads : th'[t].cur = i /\ th'[t].pc \in {"hook", "bind"}
    BY DEF Heard
  <2>0. mac[i] \notin twice
    BY FollowTwice
  <2>1. CASE stage[i] = "running" /\ i \in hooked
    BY <2>0, <2>1
  <2>2. ASSUME NEW t \in Threads, th[t].cur = i, th[t].pc \in {"hook", "bind"}
        PROVE  \/ stage'[i] = "running" /\ i \in hooked'
               \/ \E u \in Threads : th'[u].cur = i /\ th'[u].pc \in {"hook", "bind"}
    BY <2>2
  <2> QED
    BY <2>0, <2>1, <2>2 DEF CorpseInv, Heard
<1> QED
  BY <1>1, <1>2, <1>3 DEF CorpseInv

\* The end of a reader detaches its gateway, if it is listened to.
LEMMA DetachHeard ==
    ASSUME HostTypeOK, OneEach, NEW i \in Slots, NEW after, Detach(i, after)
    PROVE  /\ attached' \subseteq attached
           /\ \A k \in attached' : mac[k] \notin twice /\ k # i => stage'[k] = stage[k]
           /\ i \in hooked /\ mac[i] \notin twice => i \notin attached'
<1>1. CASE i \in hooked /\ \E j \in attached : mac[j] = mac[i]
  <2>1. PICK j \in attached :
            /\ mac[j] = mac[i]
            /\ attached' = attached \ {j}
            /\ stage' = [stage EXCEPT ![i] = after, ![j] = CloseOf(@)]
    BY <1>1 DEF Detach
  <2>2. i \in attached /\ mac[i] \notin twice => i = j
    BY <2>1 DEF OneEach
  <2>3. \A k \in attached' : k # i => stage'[k] = stage[k]
    BY <2>1 DEF HostTypeOK
  <2> QED
    BY <2>1, <2>2, <2>3
<1>2. CASE ~(i \in hooked /\ \E j \in attached : mac[j] = mac[i])
  <2>1. attached' = attached /\ stage' = [stage EXCEPT ![i] = after]
    BY <1>2 DEF Detach
  <2>2. i \in hooked => i \notin attached
    BY <1>2
  <2> QED
    BY <2>1, <2>2 DEF HostTypeOK
<1> QED
  BY <1>1, <1>2

\* The quiet steps of a discovery: the thread is not inside _attach_transport,
\* or leaves it.
LEMMA QuietDiscovery ==
    ASSUME HostTypeOK, HostTypeOK', Follow, Attaching, CorpseInv, NEW t \in Threads,
           \/ Fire(t) \/ Evaluate(t) \/ SoftPorts(t) \/ CloseAll(t) \/ Probe(t) \/ SoftFilter(t)
           \/ OpenFails(t) \/ SoftDone(t) \/ DiscoverDone(t) \/ AttachStart(t) \/ AttachClear(t)
           \/ (AttachCheck(t) /\ mac[th[t].cur] \in AttachedMacs(attached))
    PROVE  CorpseInv'
<1>1. th \in [Threads -> ThreadStates] /\ stage \in [Slots -> Stages] /\ attached \subseteq Slots
  BY DEF HostTypeOK
<1>2. \A u \in Threads \ {t} : th'[u] = th[u]
  BY <1>1 DEF Fire, Evaluate, SoftPorts, CloseAll, Probe, SoftFilter, OpenFails, SoftDone,
              DiscoverDone, AttachStart, AttachClear, AttachCheck, At
<1>3. /\ th[t].pc \in {"hook", "bind"} => FALSE
      /\ th'[t].pc \in {"check", "bind", "state", "clear"} => FALSE
      /\ th'[t].cur \in {th[t].cur, NoSlot}
  <2>1. CASE Fire(t) \/ Evaluate(t)
    BY <1>1, <2>1 DEF Fire, Evaluate, IdleThread, ThreadStates
  <2>2. CASE SoftPorts(t) \/ CloseAll(t) \/ SoftFilter(t)
    <3>1. /\ th'[t].pc \in {"probe", "next"} /\ th[t].pc \in {"ports", "close", "filter"}
          /\ th'[t].cur = th[t].cur
      BY <1>1, <2>2 DEF SoftPorts, CloseAll, SoftFilter, ThreadStates
    <3> QED
      BY <3>1
  <2>3. CASE Probe(t)
    <3>1. PICK F : th' = [th EXCEPT ![t].found = F,
                                    ![t].pc = IF th[t].job \in {"boot", "retry"}
                                              THEN "next" ELSE "filter"]
      BY <2>3 DEF Probe
    <3>2. th[t].pc = "probe"
      BY <2>3 DEF Probe
    <3>3. th'[t].cur = th[t].cur
      BY <1>1, <3>1 DEF ThreadStates
    <3>4. th'[t].pc = IF th[t].job \in {"boot", "retry"} THEN "next" ELSE "filter"
      BY <1>1, <3>1 DEF ThreadStates
    <3> QED
      BY <3>2, <3>3, <3>4
  <2>7. CASE OpenFails(t)
    <3>1. PICK m : th' = [th EXCEPT ![t].found = @ \ {m}]
      BY <2>7 DEF OpenFails
    <3>2. th'[t].pc = "next" /\ th'[t].cur = th[t].cur /\ th[t].pc = "next"
      BY <1>1, <2>7, <3>1 DEF OpenFails, ThreadStates
    <3> QED
      BY <3>2
  <2>4. CASE SoftDone(t) \/ DiscoverDone(t)
    BY <1>1, <2>4 DEF SoftDone, DiscoverDone, At, IdleThread, ThreadStates
  <2>5. CASE AttachStart(t)
    BY <1>1, <2>5 DEF AttachStart, At, ThreadStates
  <2>6. CASE AttachClear(t) \/ (AttachCheck(t) /\ mac[th[t].cur] \in AttachedMacs(attached))
    <3>1. th'[t].pc = "next" /\ th[t].pc \in {"clear", "check"} /\ th'[t].cur = NoSlot
      BY <1>1, <2>6 DEF AttachClear, AttachCheck, ThreadStates
    <3> QED
      BY <3>1
  <2> QED
    BY <2>1, <2>2, <2>3, <2>4, <2>5, <2>6, <2>7
<1>4. attached' \subseteq attached /\ mac' = mac /\ hooked' = hooked
  BY DEF Fire, Evaluate, SoftPorts, CloseAll, Probe, SoftFilter, OpenFails, SoftDone,
         DiscoverDone, AttachStart, AttachClear, AttachCheck, trVars
<1>5. \A i \in attached' : stage[i] = "running" => stage'[i] = "running"
  <2>1. CASE AttachStart(t)
    BY <1>1, <1>4, <2>1 DEF AttachStart
  <2>2. CASE AttachCheck(t) /\ mac[th[t].cur] \in AttachedMacs(attached)
    BY <1>1, <1>4, <2>2 DEF AttachCheck, CorpseInv, InHand
  <2>3. CASE CloseAll(t)
    BY <2>3 DEF CloseAll
  <2>4. CASE stage' = stage
    BY <2>4
  <2> QED
    BY <2>1, <2>2, <2>3, <2>4 DEF Fire, Evaluate, SoftPorts, Probe, SoftFilter, OpenFails,
       SoftDone, DiscoverDone, AttachClear, trVars
<1>6. ASSUME NEW u \in Threads
      PROVE  /\ th'[u].cur \in {th[u].cur, NoSlot}
             /\ th'[u].pc = "check" => th[u].pc = "check" /\ th'[u].cur = th[u].cur
             /\ th'[u].pc \in {"bind", "state", "clear"}
                   => th[u].pc \in {"bind", "state", "clear"} /\ th'[u].cur = th[u].cur
             /\ th[u].pc \in {"hook", "bind"}
                   => th'[u].pc \in {"hook", "bind"} /\ th'[u].cur = th[u].cur
  <2>1. CASE u = t
    BY <1>3, <2>1
  <2>2. CASE u # t
    BY <1>2, <2>2
  <2> QED
    BY <2>1, <2>2
<1> QED
  BY <1>4, <1>5, <1>6, CorpseKept

\* The steps that attach a transport.
LEMMA AttachKeeps ==
    ASSUME HostTypeOK, HostTypeOK', Follow, Attaching, CorpseInv, NEW t \in Threads,
           \/ OpenPort(t) \/ AttachAppend(t) \/ AttachHook(t)
           \/ AttachBind(t) \/ AttachState(t)
           \/ (AttachCheck(t) /\ mac[th[t].cur] \notin AttachedMacs(attached))
    PROVE  CorpseInv'
<1>1. /\ th \in [Threads -> ThreadStates] /\ stage \in [Slots -> Stages] /\ attached \subseteq Slots
      /\ mac \in [Slots -> Macs]
  BY DEF HostTypeOK
<1>f. OneEach' /\ \A i \in attached' : mac'[i] \in twice => mac'[i] \in twice'
  BY FollowTwice
<1>2. CASE OpenPort(t)
  <2>1. PICK m \in th[t].found \cap plugged, i \in Slots :
            /\ i \notin attached /\ (\A u \in Threads : th[u].cur # i) /\ th[t].pc = "next"
            /\ mac' = [mac EXCEPT ![i] = m] /\ stage' = [stage EXCEPT ![i] = "open"]
            /\ hooked' = hooked \ {i} /\ attached' = attached
            /\ th' = [th EXCEPT ![t].pc = "check", ![t].cur = i, ![t].found = @ \ {m}]
    BY <1>2 DEF OpenPort
  <2>2. th'[t].pc = "check" /\ th'[t].cur = i /\ \A u \in Threads \ {t} : th'[u] = th[u]
    BY <1>1, <2>1 DEF ThreadStates
  <2>3. \A k \in attached : mac'[k] = mac[k] /\ stage'[k] = stage[k] /\ (k \in hooked => k \in hooked')
    BY <1>1, <2>1
  <2>4. Heard'
    <3> SUFFICES ASSUME NEW k \in attached, mac'[k] \notin twice'
                 PROVE  \/ stage'[k] = "running" /\ k \in hooked'
                        \/ \E u \in Threads : th'[u].cur = k /\ th'[u].pc \in {"hook", "bind"}
      BY <2>1 DEF Heard
    <3>1. mac[k] \notin twice
      BY <1>f, <2>1, <2>3
    <3>2. CASE stage[k] = "running" /\ k \in hooked
      BY <2>3, <3>2
    <3>3. ASSUME NEW u \in Threads, th[u].cur = k, th[u].pc \in {"hook", "bind"}
          PROVE  th'[u].cur = k /\ th'[u].pc \in {"hook", "bind"}
      <4>1. u # t
        BY <2>1, <3>3
      <4> QED
        BY <2>2, <3>3, <4>1
    <3> QED
      BY <3>1, <3>2, <3>3 DEF CorpseInv, Heard
  <2>7. i # NoSlot
    BY NoneAssumption
  <2>8. \A u \in Threads : u = t \/ (u # t /\ th'[u] = th[u] /\ th[u].cur # i)
    BY <2>1, <2>2
  <2>5. Apart'
    <3> SUFFICES ASSUME NEW u \in Threads, NEW v \in Threads, th'[u].cur = th'[v].cur
                 PROVE  u = v \/ th'[u].cur = NoSlot
      BY DEF Apart
    <3>1. CASE u = t \/ v = t
      BY <2>2, <2>8, <3>1
    <3>2. CASE u # t /\ v # t
      BY <2>8, <3>2 DEF CorpseInv, Apart
    <3> QED
      BY <3>1, <3>2
  <2>6. InHand'
    BY <1>1, <2>1, <2>2, <2>3, <2>8 DEF CorpseInv, InHand
  <2> QED
    BY <1>f, <2>4, <2>5, <2>6 DEF CorpseInv
<1>3. CASE AttachCheck(t) /\ mac[th[t].cur] \notin AttachedMacs(attached)
  <2>1. /\ th[t].pc = "check" /\ th'[t].pc = "start" /\ th'[t].cur = th[t].cur
        /\ UNCHANGED << mac, stage, hooked, attached >>
        /\ \A u \in Threads \ {t} : th'[u] = th[u]
    BY <1>1, <1>3 DEF AttachCheck, At, ThreadStates
  <2> QED
    BY <2>1, CorpseKept
<1>4. CASE AttachAppend(t)
  <2>1. /\ th[t].pc = "append" /\ th'[t].pc = "hook" /\ th'[t].cur = th[t].cur
        /\ attached' = attached \cup {th[t].cur}
        /\ UNCHANGED << mac, stage, hooked >>
        /\ \A u \in Threads \ {t} : th'[u] = th[u]
    BY <1>1, <1>4 DEF AttachAppend, At, ThreadStates
  <2>2. Apart'
    BY <2>1 DEF CorpseInv, Apart
  <2>3. InHand'
    <3>1. \A u \in Threads \ {t} : th[u].pc = "check" => th[u].cur # th[t].cur
      BY NoneAssumption DEF CorpseInv, Apart, Attaching, AttachSteps
    <3> QED
      BY <2>1, <3>1 DEF CorpseInv, InHand
  <2>4. Heard'
    <3>1. \A k \in attached : mac[k] \in twice => mac'[k] \in twice'
      BY <1>f, <2>1
    <3> QED
      BY <2>1, <3>1 DEF CorpseInv, Heard
  <2> QED
    BY <1>f, <2>2, <2>3, <2>4 DEF CorpseInv
<1>5. CASE AttachHook(t)
  <2>1. /\ th[t].pc = "hook" /\ th'[t].pc = "bind" /\ th'[t].cur = th[t].cur
        /\ hooked' = hooked \cup {th[t].cur}
        /\ UNCHANGED << mac, stage, attached >>
        /\ \A u \in Threads \ {t} : th'[u] = th[u]
    BY <1>1, <1>5 DEF AttachHook, At, ThreadStates
  <2>2. Apart' /\ InHand'
    BY <2>1 DEF CorpseInv, Apart, InHand
  <2>3. Heard'
    <3>1. \A k \in attached : mac[k] \in twice => mac'[k] \in twice'
      BY <1>f, <2>1
    <3> QED
      BY <2>1, <3>1 DEF CorpseInv, Heard
  <2> QED
    BY <1>f, <2>2, <2>3 DEF CorpseInv
<1>6. CASE AttachBind(t) \/ AttachState(t)
  <2> DEFINE c == th[t].cur
  <2>1. /\ th[t].pc \in {"bind", "state"} /\ th'[t].pc \in {"state", "clear"} /\ th'[t].cur = c
        /\ UNCHANGED << mac, hooked >> /\ c \in Slots
        /\ \A u \in Threads \ {t} : th'[u] = th[u]
        /\ \/ Detach(c, CloseOf(stage[c]))
           \/ stage' = stage /\ attached' = attached /\ stage[c] = "running"
    BY <1>1, <1>6 DEF AttachBind, AttachState, AttachWrite, At, ThreadStates, Attaching, AttachSteps
  <2>0. c \in hooked
    BY <2>1 DEF CorpseInv, InHand
  <2>2. /\ attached' \subseteq attached
        /\ \A k \in attached' : mac[k] \notin twice /\ k # c => stage'[k] = stage[k]
        /\ c \notin attached' \/ mac[c] \in twice \/ (stage' = stage /\ stage[c] = "running")
    BY <2>0, <2>1, DetachHeard DEF CorpseInv
  <2>3. Apart' /\ InHand'
    BY <2>0, <2>1, <2>2 DEF CorpseInv, Apart, InHand
  <2>4. Heard'
    <3> SUFFICES ASSUME NEW k \in attached', mac'[k] \notin twice'
                 PROVE  \/ stage'[k] = "running" /\ k \in hooked'
                        \/ \E u \in Threads : th'[u].cur = k /\ th'[u].pc \in {"hook", "bind"}
      BY DEF Heard
    <3>1. mac[k] \notin twice /\ k \in attached
      BY <1>f, <2>1, <2>2
    <3>2. CASE k = c
      BY <2>0, <2>1, <2>2, <3>1, <3>2
    <3>3. CASE k # c
      BY <2>1, <2>2, <3>1, <3>3 DEF CorpseInv, Heard
    <3> QED
      BY <3>2, <3>3
  <2> QED
    BY <1>f, <2>3, <2>4 DEF CorpseInv
<1> QED
  BY <1>2, <1>3, <1>4, <1>5, <1>6

LEMMA CorpseStep ==
    ASSUME HostTypeOK, HostTypeOK', Attaching, CorpseInv, Step, Follow
    PROVE  CorpseInv'
<1>1. /\ th \in [Threads -> ThreadStates] /\ stage \in [Slots -> Stages] /\ attached \subseteq Slots
  BY DEF HostTypeOK
<1>2. ASSUME NEW t \in Threads, Discovery(t) PROVE CorpseInv'
  BY <1>2, QuietDiscovery, AttachKeeps DEF Discovery
<1>3. ASSUME NEW t \in Threads, PollFire(t) \/ Rediscover(t) \/ RetryGateway(t) PROVE CorpseInv'
  <2>1. \E job \in Jobs, pc \in {"fire", "ports", "close"} :
           th[t].pc = "idle" /\ th' = [th EXCEPT ![t] = Begins(job, pc)]
    BY <1>3 DEF PollFire, Rediscover, RetryGateway, Jobs
  <2>2. th[t].pc = "idle" /\ th'[t].pc \in {"fire", "ports", "close"} /\ th'[t].cur = NoSlot
        /\ \A u \in Threads \ {t} : th'[u] = th[u]
    BY <1>1, <2>1 DEF Begins, IdleThread
  <2>3. UNCHANGED << mac, stage, hooked, attached >>
    BY <1>3 DEF PollFire, Rediscover, RetryGateway, trVars
  <2> QED
    BY <2>2, <2>3, CorpseKept
<1>4. ASSUME NEW i \in Slots, ReaderDies(i) PROVE CorpseInv'
  <2>1. PICK after : Detach(i, after)
    BY <1>4 DEF ReaderDies
  <2>2. UNCHANGED << th, mac, hooked >>
    BY <1>4 DEF ReaderDies
  <2>3. /\ attached' \subseteq attached
        /\ \A k \in attached' : mac[k] \notin twice /\ k # i => stage'[k] = stage[k]
        /\ i \in hooked /\ mac[i] \notin twice => i \notin attached'
    BY <2>1, DetachHeard DEF CorpseInv
  <2>4. \A k \in attached' :
            mac[k] \notin twice /\ stage[k] = "running" /\ k \in hooked => stage'[k] = "running"
    BY <2>3
  <2> QED
    BY <2>2, <2>3, <2>4, CorpseKept
<1>5. ASSUME UNCHANGED << th, mac, hooked >>, attached' \subseteq attached,
             \A i \in attached' : stage[i] = "running" => stage'[i] = "running"
      PROVE  CorpseInv'
  BY <1>5, CorpseKept
<1>6. ASSUME NEW i \in Slots, ReaderStops(i) PROVE CorpseInv'
  BY <1>1, <1>5, <1>6 DEF ReaderStops
<1>7. CASE Shutdown
  BY <1>1, <1>5, <1>7 DEF Shutdown
<1>8. CASE (\E m \in Macs : Cable(m)) \/ CancelReconnect
  BY <1>5, <1>8 DEF Cable, Unplug, Plug, CancelReconnect, trVars
<1> QED
  BY <1>2, <1>3, <1>4, <1>6, <1>7, <1>8 DEF Step, Reader

\* However many discoveries, requests, poll callbacks and dying readers
\* interleave, _detach_one_transport leaves no transport attached whose reader
\* has ended, for any number of gateways and threads: the EV_ERROR nobody hears,
\* before the hook is installed, is made up for by the next write of
\* _attach_transport.  Nothing is claimed of a gateway as long as two racing
\* discoveries have both attached it.
THEOREM NoDeadTransport == Spec => []NoCorpse
<1> DEFINE CInv == HostTypeOK /\ Attaching /\ CorpseInv
<1>1. Init => CInv
  BY InitIInv DEF IInv, Init, CorpseInv, OneEach, Apart, InHand, Heard, IdleThread, Begins
<1>2. CInv /\ [Next]_vars => CInv'
  <2> SUFFICES ASSUME CInv, [Next]_vars PROVE CInv'
    OBVIOUS
  <2>1. HostTypeOK' /\ Attaching'
    BY TypeStep
  <2>2. CASE Next
    BY <2>1, <2>2, CorpseStep DEF Next
  <2>3. CASE UNCHANGED vars
    BY <2>1, <2>3 DEF vars, hostVars, CorpseInv, OneEach, Apart, InHand, Heard
  <2> QED
    BY <2>1, <2>2, <2>3
<1>3. CInv => NoCorpse
  <2> SUFFICES ASSUME CInv, NEW i \in attached
               PROVE  \/ mac[i] \in twice
                      \/ \E j \in Slots : mac[j] = mac[i] /\ stage[j] \in {"running", "closing"}
                      \/ \E t \in Threads : th[t].cur # NoSlot /\ mac[th[t].cur] = mac[i]
    BY DEF NoCorpse
  <2>1. i \in Slots /\ i # NoSlot
    BY NoneAssumption DEF HostTypeOK
  <2> QED
    BY <2>1 DEF CorpseInv, Heard
<1> QED
  BY <1>1, <1>2, <1>3, PTL DEF Spec

----------------------------------------------------------------------------
(*                  Which device a gateway expects to hear                 *)
----------------------------------------------------------------------------
\* A thread inside a request has one.
ReqInv == \A c \in Callers : phase[c] # "idle" => req[c] \in Requests

\* The RX thread of g has read an expectation.
Holds(g) == rx[g].step \in {"online", "offline", "clear"}

\* What an RX thread holds, it has decided on.
HeldResolved == \A g \in Gateways : Holds(g) => rx[g].p.id \in resolved

\* An expectation is in the slot of the transport that owns its device; the
\* untagged transports share one.
SlotsOwn == \A k \in Keys : expect[k] # NoExpect => Key(GatewayOf[expect[k].dev]) = k

LinkInv == LinkTypeOK /\ ReqInv /\ HeldResolved

----------------------------------------------------------------------------
(* Operators                                                               *)

\* A request gives a well-formed expectation, distinct from the empty slot.
LEMMA StampType ==
    ASSUME LinkTypeOK, NEW r \in Requests, Stamp(r)
    PROVE  /\ expect' \in [Keys -> Expectations \cup {NoExpect}]
           /\ \A k \in Keys : expect'[k] = NoExpect => expect[k] = NoExpect
           /\ \A k \in Keys : expect'[k] # expect[k]
                => k = Key(GatewayOf[r.dev]) /\ expect'[k] # NoExpect /\ expect'[k].dev = r.dev
<1> DEFINE k0 == Key(GatewayOf[r.dev])
           e0 == [id |-> r.id, dev |-> r.dev, reply |-> r.reply, key |-> k0]
<1>1. GatewayOf[r.dev] \in Gateways /\ k0 \in Keys
  BY GatewayOfAssumption DEF Requests, Key, Keys
<1>2. e0 \in Expectations
  BY <1>1 DEF Requests, Expectations
<1>3. e0 # NoExpect
  BY MaxSendsAssumption DEF Requests, NoExpect, Ids
<1>4. expect' = [expect EXCEPT ![k0] = e0]
  BY DEF Stamp
<1> QED
  BY <1>1, <1>2, <1>3, <1>4 DEF LinkTypeOK

\* What a lookup returns is in the slot of the key, or it is all there is.
LEMMA ReadType ==
    ASSUME LinkTypeOK, NEW k \in Keys
    PROVE  /\ Read(k) \in Expectations \cup {NoExpect}
           /\ \/ Read(k) = expect[k]
              \/ k = NoTag /\ \A j \in Keys : expect[j] \in {NoExpect, Read(k)}
<1> DEFINE stamped == {j \in Keys : expect[j] # NoExpect}
           j0 == CHOOSE j \in Keys : j \in stamped
<1>1. expect[k] \in Expectations \cup {NoExpect}
  BY DEF LinkTypeOK
<1>2. CASE expect[k] = NoExpect /\ k = NoTag /\ \E j \in Keys : stamped = {j}
  <2>1. Read(k) = expect[j0]
    BY <1>2 DEF Read
  <2>2. j0 \in Keys /\ stamped = {j0}
    BY <1>2
  <2>3. \A j \in Keys : expect[j] \in {NoExpect, expect[j0]}
    BY <2>2
  <2> QED
    BY <1>2, <2>1, <2>2, <2>3 DEF LinkTypeOK
<1>3. CASE ~(expect[k] = NoExpect /\ k = NoTag /\ \E j \in Keys : stamped = {j})
  BY <1>1, <1>3 DEF Read
<1> QED
  BY <1>2, <1>3

\* What an RX thread that holds an expectation holds.
LEMMA HeldType ==
    ASSUME LinkTypeOK, NEW g \in Gateways, Holds(g)
    PROVE  rx[g].p \in Expectations
<1>1. rx[g] \in RxStates
  BY DEF LinkTypeOK
<1>2. CASE rx[g] = IdleRx
  BY <1>2 DEF Holds, IdleRx
<1>3. CASE rx[g] \in [step : {"update", "match"}, req : Requests]
  <2>1. rx[g].step \in {"update", "match"}
    BY <1>3
  <2> QED
    BY <2>1 DEF Holds
<1>4. CASE rx[g] \in [step : {"online", "offline", "clear"}, p : Expectations]
  BY <1>4
<1> QED
  BY <1>1, <1>2, <1>3, <1>4 DEF RxStates

\* What an RX thread that handles a reply handles.
LEMMA HandledType ==
    ASSUME LinkTypeOK, NEW g \in Gateways, rx[g].step \in {"update", "match"}
    PROVE  rx[g].req \in Requests
<1>1. rx[g] \in RxStates
  BY DEF LinkTypeOK
<1>2. CASE rx[g] = IdleRx
  BY <1>2 DEF IdleRx
<1>3. CASE rx[g] \in [step : {"update", "match"}, req : Requests]
  BY <1>3
<1>4. CASE rx[g] \in [step : {"online", "offline", "clear"}, p : Expectations]
  <2>1. rx[g].step \in {"online", "offline", "clear"}
    BY <1>4
  <2> QED
    BY <2>1
<1> QED
  BY <1>1, <1>2, <1>3, <1>4 DEF RxStates

\* Keys of transports are keys of slots.
LEMMA KeyType == ASSUME NEW g \in Gateways PROVE Key(g) \in Keys
  BY DEF Key, Keys

\* The queue that is left after taking an event is a queue.
LEMMA TakesType ==
    ASSUME LinkTypeOK, NEW g \in Gateways, NEW e, Takes(g, e)
    PROVE  evq' \in [Gateways -> Seq(Events)]
<1>1. evq[g] \in Seq(Events) /\ evq[g] # << >>
  BY DEF LinkTypeOK, Takes
<1>2. Tail(evq[g]) \in Seq(Events)
  BY <1>1
<1> QED
  BY <1>2 DEF LinkTypeOK, Takes

----------------------------------------------------------------------------
(* The inductive invariant                                                 *)

LEMMA InitLink == LinkInit => LinkInv /\ SlotsOwn
  BY MaxSendsAssumption
  DEF LinkInit, LinkInv, LinkTypeOK, ReqInv, HeldResolved, Holds, SlotsOwn, RxStates, IdleRx, GwStates, NoExpect

\* The steps of a sending thread.
LEMMA SenderLink ==
    ASSUME LinkInv, NEW c \in Callers, Sender(c)
    PROVE  LinkInv'
<1> USE DEF LinkInv, ReqInv, HeldResolved, Holds
<1>1. CASE Begin(c)
  <2>1. PICK d \in Devices, a \in ReplyKinds :
            req' = [req EXCEPT ![c] = [id |-> sends + 1, dev |-> d, reply |-> a]]
    BY <1>1 DEF Begin
  <2>2. sends \in Nat /\ sends < MaxSends /\ sends + 1 \in Ids
    BY <1>1, MaxSendsAssumption DEF Begin, LinkTypeOK, Ids
  <2>3. [id |-> sends + 1, dev |-> d, reply |-> a] \in Requests
    BY <2>2 DEF Requests
  <2>4. LinkTypeOK'
    BY <1>1, <2>1, <2>2, <2>3 DEF Begin, LinkTypeOK, Ids
  <2>5. ReqInv'
    BY <1>1, <2>1, <2>3 DEF Begin, LinkTypeOK
  <2> QED
    BY <1>1, <2>4, <2>5 DEF Begin
<1>2. CASE SerialWrite(c)
  <2>1. req[c] \in Requests
    BY <1>2 DEF SerialWrite
  <2>2. GatewayOf[req[c].dev] \in Gateways
    BY <2>1, GatewayOfAssumption DEF Requests
  <2>3. Append(toGw[GatewayOf[req[c].dev]], req[c]) \in Seq(Requests)
    BY <2>1, <2>2 DEF LinkTypeOK
  <2>4. toGw' \in [Gateways -> Seq(Requests)]
    BY <1>2, <2>3 DEF SerialWrite, LinkTypeOK
  <2> QED
    BY <1>2, <2>4 DEF SerialWrite, LinkTypeOK
<1>3. CASE OutcomeTimeout(c)
  BY <1>3 DEF OutcomeTimeout, LinkTypeOK
<1>4. CASE SerialStamp(c)
  <2>1. req[c] \in Requests
    BY <1>4 DEF SerialStamp
  <2>2. expect' \in [Keys -> Expectations \cup {NoExpect}]
    BY <1>4, <2>1, StampType DEF SerialStamp
  <2> QED
    BY <1>4, <2>2 DEF SerialStamp, LinkTypeOK
<1>5. CASE EthernetStamp(c)
  <2>1. req[c] \in Requests
    BY <1>5 DEF EthernetStamp
  <2>2. expect' \in [Keys -> Expectations \cup {NoExpect}]
    BY <1>5, <2>1, StampType DEF EthernetStamp
  <2> QED
    BY <1>5, <2>2 DEF EthernetStamp, LinkTypeOK
<1>6. CASE EthernetSend(c)
  <2>1. req[c] \in Requests
    BY <1>6 DEF EthernetSend
  <2> QED
    BY <1>6, <2>1 DEF EthernetSend, LinkTypeOK
<1> QED
  BY <1>1, <1>2, <1>3, <1>4, <1>5, <1>6 DEF Sender

\* The steps of an RX thread.
LEMMA RxLink ==
    ASSUME LinkInv, NEW g \in Gateways, Rx(g)
    PROVE  LinkInv'
<1> USE DEF LinkInv, ReqInv, HeldResolved, Holds
<1>k. Key(g) \in Keys
  BY KeyType
<1>r. Read(Key(g)) \in Expectations \cup {NoExpect}
  BY <1>k, ReadType
<1>1. CASE RxOutcome(g)
  <2>1. PICK e \in OutcomeEvents : Takes(g, e) /\ phase' = [c \in Callers |->
            IF phase[c] = "outcome" /\ req[c].id = e.id THEN "stamp" ELSE phase[c]]
    BY <1>1 DEF RxOutcome
  <2>2. evq' \in [Gateways -> Seq(Events)]
    BY <2>1, TakesType
  <2>3. phase' \in [Callers -> {"idle", "write", "outcome", "stamp", "datagram"}]
    BY <2>1 DEF LinkTypeOK
  <2>4. UNCHANGED << req, expect, online, rx, gw, toGw, inbox, answered, resolved, sends >>
    BY <1>1 DEF RxOutcome
  <2>5. \A c \in Callers : phase'[c] # "idle" => phase[c] # "idle"
    BY <2>1
  <2> QED
    BY <2>2, <2>3, <2>4, <2>5 DEF LinkTypeOK
<1>2. CASE RxStateIgnored(g)
  <2>1. evq' \in [Gateways -> Seq(Events)]
    BY <1>2, TakesType DEF RxStateIgnored
  <2>2. UNCHANGED << phase, req, expect, online, rx, gw, toGw, inbox, answered, resolved, sends >>
    BY <1>2 DEF RxStateIgnored
  <2> QED
    BY <2>1, <2>2 DEF LinkTypeOK
<1>3. CASE RxWindowClosed(g)
  <2>1. evq' \in [Gateways -> Seq(Events)]
    BY <1>3, TakesType DEF RxWindowClosed
  <2>2. Read(Key(g)) \in Expectations
    BY <1>3, <1>r DEF RxWindowClosed
  <2>3. [step |-> "offline", p |-> Read(Key(g))] \in RxStates
    BY <2>2 DEF RxStates
  <2>4. /\ rx' = [rx EXCEPT ![g] = [step |-> "offline", p |-> Read(Key(g))]]
        /\ resolved' = resolved \cup {Read(Key(g)).id}
        /\ UNCHANGED << phase, req, expect, online, gw, toGw, inbox, answered, sends >>
    BY <1>3 DEF RxWindowClosed
  <2>5. Read(Key(g)).id \in Ids
    BY <2>2 DEF Expectations
  <2>6. LinkTypeOK'
    BY <2>1, <2>3, <2>4, <2>5 DEF LinkTypeOK
  <2>7. HeldResolved'
    BY <2>4 DEF LinkTypeOK
  <2> QED
    BY <2>4, <2>6, <2>7
<1>4. CASE RxMarkOffline(g)
  <2>1. rx[g].p \in Expectations
    BY <1>4, HeldType DEF RxMarkOffline
  <2>2. [step |-> "clear", p |-> rx[g].p] \in RxStates
    BY <2>1 DEF RxStates
  <2>3. LinkTypeOK'
    BY <1>4, <2>1, <2>2 DEF RxMarkOffline, LinkTypeOK, Expectations
  <2>4. HeldResolved'
    BY <1>4 DEF RxMarkOffline, LinkTypeOK
  <2> QED
    BY <1>4, <2>3, <2>4 DEF RxMarkOffline
<1>5. CASE RxReply(g)
  <2>1. PICK e \in Replies : Takes(g, e) /\ rx' = [rx EXCEPT ![g] = [step |-> "update", req |-> e.req]]
    BY <1>5 DEF RxReply
  <2>2. evq' \in [Gateways -> Seq(Events)]
    BY <2>1, TakesType
  <2>3. [step |-> "update", req |-> e.req] \in RxStates
    BY DEF Replies, RxStates
  <2>4. UNCHANGED << phase, req, expect, online, gw, toGw, inbox, answered, resolved, sends >>
    BY <1>5 DEF RxReply
  <2>5. LinkTypeOK'
    BY <2>1, <2>2, <2>3, <2>4 DEF LinkTypeOK
  <2>6. HeldResolved'
    BY <2>1, <2>4 DEF LinkTypeOK
  <2> QED
    BY <2>4, <2>5, <2>6
<1>6. CASE RxUpdate(g)
  <2>1. rx[g].req \in Requests
    BY <1>6, HandledType DEF RxUpdate
  <2>2. [step |-> "match", req |-> rx[g].req] \in RxStates
    BY <2>1 DEF RxStates
  <2>3. LinkTypeOK'
    BY <1>6, <2>1, <2>2 DEF RxUpdate, LinkTypeOK, Requests
  <2>4. HeldResolved'
    BY <1>6 DEF RxUpdate, LinkTypeOK
  <2> QED
    BY <1>6, <2>3, <2>4 DEF RxUpdate
<1>7. CASE RxMatch(g)
  <2>1. Read(Key(g)) \in Expectations
    BY <1>7, <1>r DEF RxMatch, Matches
  <2>2. [step |-> "online", p |-> Read(Key(g))] \in RxStates
    BY <2>1 DEF RxStates
  <2>3. Read(Key(g)).id \in Ids
    BY <2>1 DEF Expectations
  <2>4. LinkTypeOK'
    BY <1>7, <2>2, <2>3 DEF RxMatch, LinkTypeOK
  <2>5. HeldResolved'
    BY <1>7 DEF RxMatch, LinkTypeOK
  <2> QED
    BY <1>7, <2>4, <2>5 DEF RxMatch
<1>8. CASE RxNoMatch(g)
  <2>1. LinkTypeOK'
    BY <1>8 DEF RxNoMatch, LinkTypeOK, RxStates
  <2>2. HeldResolved'
    BY <1>8 DEF RxNoMatch, LinkTypeOK, IdleRx
  <2> QED
    BY <1>8, <2>1, <2>2 DEF RxNoMatch
<1>9. CASE RxMarkOnline(g)
  <2>1. rx[g].p \in Expectations
    BY <1>9, HeldType DEF RxMarkOnline
  <2>2. [step |-> "clear", p |-> rx[g].p] \in RxStates
    BY <2>1 DEF RxStates
  <2>3. LinkTypeOK'
    BY <1>9, <2>1, <2>2 DEF RxMarkOnline, LinkTypeOK, Expectations
  <2>4. HeldResolved'
    BY <1>9 DEF RxMarkOnline, LinkTypeOK
  <2> QED
    BY <1>9, <2>3, <2>4 DEF RxMarkOnline
<1>10. CASE RxClear(g)
  <2>1. LinkTypeOK'
    BY <1>10 DEF RxClear, LinkTypeOK, RxStates
  <2>2. HeldResolved'
    BY <1>10 DEF RxClear, LinkTypeOK, IdleRx
  <2> QED
    BY <1>10, <2>1, <2>2 DEF RxClear
<1> QED
  BY <1>1, <1>2, <1>3, <1>4, <1>5, <1>6, <1>7, <1>8, <1>9, <1>10 DEF Rx

\* What a gateway emits is a queue of events.
LEMMA EmitType ==
    ASSUME LinkTypeOK, NEW g \in Gateways, NEW es \in Seq(Events), Emit(g, es)
    PROVE  evq' \in [Gateways -> Seq(Events)]
<1>1. evq[g] \o es \in Seq(Events)
  BY DEF LinkTypeOK
<1> QED
  BY <1>1 DEF Emit, LinkTypeOK

\* The steps of a gateway.
LEMMA GatewayLink ==
    ASSUME LinkInv, NEW g \in Gateways, Gateway(g)
    PROVE  LinkInv'
<1> USE DEF LinkInv, ReqInv, HeldResolved, Holds
<1>s. \A s \in GwStates : State(s) \in Events
  BY DEF State, Events, States
<1>o. \A i \in Ids : Outcome(i) \in Events
  BY DEF Outcome, Events, OutcomeEvents
<1>t. LinkTypeOK
  OBVIOUS
<1>q. toGw[g] \in Seq(Requests)
  BY DEF LinkTypeOK
<1>1. CASE GwStart(g)
  <2>1. evq' \in [Gateways -> Seq(Events)]
    <3>1. << State("TX") >> \in Seq(Events) /\ Emit(g, << State("TX") >>)
      BY <1>1, <1>s DEF GwStart, GwStates
    <3> QED
      BY <3>1, <1>t, EmitType
  <2> QED
    BY <1>1, <2>1 DEF GwStart, LinkTypeOK, GwStates
<1>2. CASE GwDone(g)
  <2>1. Head(toGw[g]) \in Requests /\ Tail(toGw[g]) \in Seq(Requests)
    BY <1>2, <1>q DEF GwDone
  <2>2. Outcome(Head(toGw[g]).id) \in Events /\ State("RX_WINDOW") \in Events
    BY <2>1, <1>s, <1>o DEF Requests, GwStates
  <2>3. evq' \in [Gateways -> Seq(Events)]
    <3>1. << Outcome(Head(toGw[g]).id), State("RX_WINDOW") >> \in Seq(Events)
      BY <2>2
    <3> QED
      BY <1>2, <3>1, <1>t, EmitType DEF GwDone
  <2> QED
    BY <1>2, <2>1, <2>3 DEF GwDone, LinkTypeOK, GwStates
<1>3. CASE GwReject(g)
  <2>1. toGw[g][2] \in Requests
    BY <1>3, <1>q DEF GwReject
  <2>2. << Head(toGw[g]) >> \o Tail(Tail(toGw[g])) \in Seq(Requests)
    <3>1. Len(toGw[g]) > 1 /\ toGw[g] # << >>
      BY <1>3, <1>q DEF GwReject
    <3>2. Head(toGw[g]) \in Requests /\ Tail(toGw[g]) \in Seq(Requests) /\ Tail(toGw[g]) # << >>
      BY <3>1, <1>q
    <3>3. Tail(Tail(toGw[g])) \in Seq(Requests)
      BY <3>2
    <3> QED
      BY <3>2, <3>3
  <2>3. Outcome(toGw[g][2].id) \in Events
    BY <2>1, <1>o DEF Requests
  <2>4. evq' \in [Gateways -> Seq(Events)]
    <3>1. << Outcome(toGw[g][2].id) >> \in Seq(Events)
      BY <2>3
    <3> QED
      BY <1>3, <3>1, <1>t, EmitType DEF GwReject
  <2>5. toGw' \in [Gateways -> Seq(Requests)]
    BY <1>3, <2>2 DEF GwReject, LinkTypeOK
  <2> QED
    BY <1>3, <2>4, <2>5 DEF GwReject, LinkTypeOK
<1>4. CASE GwClose(g)
  <2>1. evq' \in [Gateways -> Seq(Events)]
    <3>1. << State("IDLE") >> \in Seq(Events) /\ Emit(g, << State("IDLE") >>)
      BY <1>4, <1>s DEF GwClose, GwStates
    <3> QED
      BY <3>1, <1>t, EmitType
  <2> QED
    BY <1>4, <2>1 DEF GwClose, LinkTypeOK, GwStates
<1> QED
  BY <1>1, <1>2, <1>3, <1>4 DEF Gateway

\* A device answers.
LEMMA AnswerLink ==
    ASSUME LinkInv, NEW r \in inbox, Answer(r)
    PROVE  LinkInv'
<1> USE DEF LinkInv, ReqInv, HeldResolved, Holds
<1>1. [kind |-> "reply", req |-> r] \in Events
  BY DEF LinkTypeOK, Events, Replies
<1>2. PICK H \in SUBSET Gateways :
          evq' = [g \in Gateways |->
                     IF g \in H THEN Append(evq[g], [kind |-> "reply", req |-> r]) ELSE evq[g]]
  BY DEF Answer
<1>3. \A g \in Gateways : Append(evq[g], [kind |-> "reply", req |-> r]) \in Seq(Events)
  BY <1>1 DEF LinkTypeOK
<1>4. evq' \in [Gateways -> Seq(Events)]
  BY <1>2, <1>3 DEF LinkTypeOK
<1> QED
  BY <1>4 DEF Answer, LinkTypeOK

\* Every step preserves the invariant.
LEMMA NextLink == LinkInv /\ [LinkNext]_linkVars => LinkInv'
<1> SUFFICES ASSUME LinkInv, [LinkNext]_linkVars PROVE LinkInv'
  OBVIOUS
<1>1. CASE \E c \in Callers : Sender(c)
  BY <1>1, SenderLink
<1>2. CASE \E g \in Gateways : Rx(g) \/ Gateway(g)
  BY <1>2, RxLink, GatewayLink
<1>3. CASE \E r \in inbox : Answer(r)
  BY <1>3, AnswerLink
<1>4. CASE UNCHANGED linkVars
  BY <1>4 DEF linkVars, LinkInv, LinkTypeOK, ReqInv, HeldResolved, Holds
<1> QED
  BY <1>1, <1>2, <1>3, <1>4 DEF LinkNext

\* The types are kept whatever the order of stamps, reads and clears.
THEOREM LinkTypeCorrect == LinkSpec => []LinkTypeOK
<1>1. LinkInit => LinkInv
  BY InitLink
<1>2. LinkInv => LinkTypeOK
  BY DEF LinkInv
<1> QED
  BY <1>1, <1>2, NextLink, PTL DEF LinkSpec

----------------------------------------------------------------------------
(* Fresh expectations survive                                              *)

\* Only the compare-and-clear of an RX thread empties a slot, and it empties
\* the one whose expectation the thread holds.
LEMMA FreshStep ==
    ASSUME LinkInv, LinkNext, NEW k \in Keys, expect[k] # NoExpect, expect'[k] = NoExpect
    PROVE  expect[k].id \in resolved
<1>t. LinkTypeOK
  BY DEF LinkInv
<1>1. ASSUME NEW c \in Callers, Sender(c) PROVE FALSE
  <2>1. CASE SerialStamp(c) \/ EthernetStamp(c)
    <3>1. req[c] \in Requests /\ Stamp(req[c])
      BY <2>1 DEF SerialStamp, EthernetStamp, LinkInv, ReqInv
    <3> QED
      BY <3>1, <1>t, StampType
  <2>2. CASE Begin(c) \/ SerialWrite(c) \/ OutcomeTimeout(c) \/ EthernetSend(c)
    BY <2>2 DEF Begin, SerialWrite, OutcomeTimeout, EthernetSend
  <2> QED
    BY <1>1, <2>1, <2>2 DEF Sender
<1>2. ASSUME NEW g \in Gateways, Rx(g) PROVE expect[k].id \in resolved
  <2>1. CASE RxClear(g)
    <3>1. expect[k] = rx[g].p /\ Holds(g)
      BY <2>1, <1>t DEF RxClear, LinkTypeOK, Holds
    <3> QED
      BY <3>1 DEF LinkInv, HeldResolved
  <2>2. CASE ~RxClear(g)
    BY <1>2, <2>2 DEF Rx, RxOutcome, RxStateIgnored, RxWindowClosed, RxMarkOffline, RxReply,
                      RxUpdate, RxMatch, RxNoMatch, RxMarkOnline
  <2> QED
    BY <2>1, <2>2
<1>3. ASSUME NEW g \in Gateways, Gateway(g) PROVE FALSE
  BY <1>3 DEF Gateway, GwStart, GwDone, GwReject, GwClose
<1>4. ASSUME NEW r \in inbox, Answer(r) PROVE FALSE
  BY <1>4 DEF Answer
<1> QED
  BY <1>1, <1>2, <1>3, <1>4 DEF LinkNext

\* The compare-and-clear of clear_pending_expect_if loses no expectation that
\* was stamped behind the RX thread's back, for any number of threads.
THEOREM FreshExpectCorrect == LinkSpec => FreshExpectSurvives
<1>1. LinkInit => LinkInv
  BY InitLink
<1>2. LinkInv /\ [LinkNext]_linkVars
        => [\A k \in Keys : expect[k] # NoExpect /\ expect'[k] = NoExpect
                => expect[k].id \in resolved]_linkVars
  <2>1. ASSUME LinkInv, LinkNext, NEW k \in Keys, expect[k] # NoExpect, expect'[k] = NoExpect
        PROVE  expect[k].id \in resolved
    BY <2>1, FreshStep
  <2> QED
    BY <2>1
<1> QED
  BY <1>1, <1>2, NextLink, PTL DEF LinkSpec, FreshExpectSurvives

----------------------------------------------------------------------------
(* Gateways decide alone                                                   *)

\* A stamp goes to the slot of the device's own transport.
LEMMA OwnStep ==
    ASSUME LinkInv, SlotsOwn, [LinkNext]_linkVars
    PROVE  SlotsOwn'
<1>t. LinkTypeOK
  BY DEF LinkInv
<1>0. ASSUME UNCHANGED expect PROVE SlotsOwn'
  BY <1>0 DEF SlotsOwn, Key
<1>1. ASSUME NEW c \in Callers, Sender(c) PROVE SlotsOwn'
  <2>1. CASE SerialStamp(c) \/ EthernetStamp(c)
    <3>1. req[c] \in Requests /\ Stamp(req[c])
      BY <2>1 DEF SerialStamp, EthernetStamp, LinkInv, ReqInv
    <3>2. \A k \in Keys : expect'[k] # expect[k]
              => k = Key(GatewayOf[req[c].dev]) /\ expect'[k].dev = req[c].dev
      BY <3>1, <1>t, StampType
    <3> QED
      BY <3>2 DEF SlotsOwn, Key
  <2>2. CASE Begin(c) \/ SerialWrite(c) \/ OutcomeTimeout(c) \/ EthernetSend(c)
    BY <1>0, <2>2 DEF Begin, SerialWrite, OutcomeTimeout, EthernetSend
  <2> QED
    BY <1>1, <2>1, <2>2 DEF Sender
<1>2. ASSUME NEW g \in Gateways, Rx(g) PROVE SlotsOwn'
  <2>1. CASE RxClear(g)
    BY <2>1, <1>t DEF RxClear, LinkTypeOK, SlotsOwn, Key
  <2>2. CASE ~RxClear(g)
    BY <1>0, <1>2, <2>2 DEF Rx, RxOutcome, RxStateIgnored, RxWindowClosed, RxMarkOffline, RxReply,
       RxUpdate, RxMatch, RxNoMatch, RxMarkOnline
  <2> QED
    BY <2>1, <2>2
<1>3. CASE \/ \E g \in Gateways : Gateway(g)
           \/ \E r \in inbox : Answer(r)
           \/ UNCHANGED linkVars
  BY <1>0, <1>3 DEF Gateway, GwStart, GwDone, GwReject, GwClose, Answer, linkVars
<1> QED
  BY <1>1, <1>2, <1>3 DEF LinkNext

\* What a lookup for transport g finds is an expectation of g, of another
\* untagged transport, or the only one there is.
LEMMA ReadOwn ==
    ASSUME LinkTypeOK, SlotsOwn, NEW g \in Gateways, Read(Key(g)) # NoExpect
    PROVE  LET owner == GatewayOf[Read(Key(g)).dev]
           IN  \/ owner = g
               \/ {owner, g} \subseteq Untagged
               \/ g \in Untagged /\ \A k \in Keys : expect[k] \in {NoExpect, Read(Key(g))}
<1>1. Key(g) \in Keys /\ Read(Key(g)) \in Expectations
  BY KeyType, ReadType
<1>2. CASE Read(Key(g)) = expect[Key(g)]
  <2>1. Key(GatewayOf[Read(Key(g)).dev]) = Key(g)
    BY <1>1, <1>2 DEF SlotsOwn
  <2>2. GatewayOf[Read(Key(g)).dev] \in Gateways
    BY <1>1, GatewayOfAssumption DEF Expectations
  <2> QED
    BY <2>1, <2>2, NoTagAssumption DEF Key
<1>3. CASE Key(g) = NoTag /\ \A k \in Keys : expect[k] \in {NoExpect, Read(Key(g))}
  <2>1. g \in Untagged
    BY <1>3, NoTagAssumption DEF Key
  <2> QED
    BY <1>3, <2>1
<1> QED
  BY <1>1, <1>2, <1>3, ReadType

\* An RX thread takes up an expectation when a window closes or a reply matches.
LEMMA TakesUp ==
    ASSUME LinkInv, SlotsOwn, LinkNext, NEW g \in Gateways,
           rx'[g] # rx[g], rx'[g].step \in {"online", "offline"}
    PROVE  rx'[g].p = Read(Key(g)) /\ Read(Key(g)) # NoExpect
<1>t. rx \in [Gateways -> RxStates]
  BY DEF LinkInv, LinkTypeOK
<1>1. Rx(g)
  <2>1. ~ (\E c \in Callers : Sender(c)) /\ ~ (\E h \in Gateways : Gateway(h)) /\ ~ (\E r \in inbox : Answer(r))
    BY DEF Sender, Begin, SerialWrite, OutcomeTimeout, SerialStamp, EthernetStamp, EthernetSend,
           Gateway, GwStart, GwDone, GwReject, GwClose, Answer
  <2>2. PICK h \in Gateways : Rx(h)
    BY <2>1 DEF LinkNext
  <2>3. \A i \in Gateways \ {h} : rx'[i] = rx[i]
    BY <1>t, <2>2 DEF Rx, RxOutcome, RxStateIgnored, RxWindowClosed, RxMarkOffline, RxReply,
       RxUpdate, RxMatch, RxNoMatch, RxMarkOnline, RxClear
  <2> QED
    BY <2>2, <2>3
<1>2. CASE RxWindowClosed(g) \/ RxMatch(g)
  <2>1. Read(Key(g)) # NoExpect
    BY <1>2 DEF RxWindowClosed, RxMatch, Matches
  <2>2. rx'[g].p = Read(Key(g))
    BY <1>t, <1>2 DEF RxWindowClosed, RxMatch
  <2> QED
    BY <2>1, <2>2
<1>3. CASE RxMarkOffline(g) \/ RxMarkOnline(g)
  BY <1>t, <1>3 DEF RxMarkOffline, RxMarkOnline
<1>4. CASE RxReply(g) \/ RxUpdate(g)
  BY <1>t, <1>4 DEF RxReply, RxUpdate
<1>5. CASE RxNoMatch(g) \/ RxClear(g) \/ RxOutcome(g) \/ RxStateIgnored(g)
  BY <1>t, <1>5 DEF RxNoMatch, RxClear, RxOutcome, RxStateIgnored, IdleRx
<1> QED
  BY <1>1, <1>2, <1>3, <1>4, <1>5 DEF Rx

\* Whatever untagged transports are attached beside it, a transport with an
\* ident_mac decides about no device of another, and an untagged one only about
\* one of an untagged transport or on the only expectation there is, for any
\* number of transports, devices and requests (read_pending_expect).
THEOREM GatewaysDecideAlone == LinkSpec => DecidesOwnGateway
<1>1. LinkInit => LinkInv /\ SlotsOwn
  BY InitLink
<1>2. LinkInv /\ SlotsOwn /\ [LinkNext]_linkVars => LinkInv' /\ SlotsOwn'
  BY NextLink, OwnStep
<1>3. LinkInv /\ SlotsOwn /\ [LinkNext]_linkVars =>
        [\A g \in Gateways : rx'[g] # rx[g] /\ rx'[g].step \in {"online", "offline"} =>
            LET owner == GatewayOf[rx'[g].p.dev]
            IN  \/ owner = g
                \/ {owner, g} \subseteq Untagged
                \/ g \in Untagged /\ \A k \in Keys : expect[k] \in {NoExpect, rx'[g].p}]_linkVars
  <2>1. ASSUME LinkInv, SlotsOwn, LinkNext, NEW g \in Gateways,
               rx'[g] # rx[g], rx'[g].step \in {"online", "offline"}
        PROVE  LET owner == GatewayOf[rx'[g].p.dev]
               IN  \/ owner = g
                   \/ {owner, g} \subseteq Untagged
                   \/ g \in Untagged /\ \A k \in Keys : expect[k] \in {NoExpect, rx'[g].p}
    <3>1. rx'[g].p = Read(Key(g)) /\ Read(Key(g)) # NoExpect
      BY <2>1, TakesUp
    <3> QED
      BY <2>1, <3>1, ReadOwn DEF LinkInv
  <2> QED
    BY <2>1
<1> QED
  BY <1>1, <1>2, <1>3, PTL DEF LinkSpec, DecidesOwnGateway

================================================================================
