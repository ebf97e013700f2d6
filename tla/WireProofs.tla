------------------------------ MODULE WireProofs ------------------------------
(***************************************************************************)
(* Proofs about what goes over the wire, for any number of threads,        *)
(* devices and gateways and any bounds: single frames on one serial        *)
(* transport (SerialTransport) and the calls that wait for the answers of  *)
(* devices (RequestReply).                                                 *)
(*                                                                         *)
(* SerialTransport.  The type invariant, that the registered slot always   *)
(* belongs to a waiting call, that a call with the link to itself is told  *)
(* the fate of its own frame, that a delivered outcome is never            *)
(* overwritten, and that the mirrored gateway state is behind by the       *)
(* events on the wire only.                                                *)
(*                                                                         *)
(* RequestReply.  Type correctness, that a counted device is a target that *)
(* answered the opcode and one reported as successful executed it, that    *)
(* only the gateway owning a device can satisfy a call to it, the          *)
(* refinement of Rpc, that a registry holds exactly the waiting matchers,  *)
(* and that no awaited answer is dropped.                                  *)
(***************************************************************************)
EXTENDS SerialTransport, RequestReply, SequenceTheorems, FiniteSetTheorems, TLAPS

----------------------------------------------------------------------------
(*                      Frames on one serial transport                      *)
----------------------------------------------------------------------------
(* The inductive invariant                                                 *)

\* A host frame is in at most one place on its way to the gateway, and the
\* gateway has not decided on it there.
OnWireUndecided ==
    \A i \in 1 .. Len(toGw) :
        toGw[i] # 0 => toGw[i] <= sends /\ fate[toGw[i]] = "queued" /\ toGw[i] # gwTx
OnWireOnce ==
    \A i, j \in 1 .. Len(toGw) : toGw[i] # 0 /\ i # j => toGw[i] # toGw[j]
InSlotUndecided == gwTx \in FrameIds => gwTx <= sends /\ fate[gwTx] = "queued"
UnwrittenUndecided == \A f \in FrameIds : f > sends => fate[f] = "queued"
FrameLedger == OnWireUndecided /\ OnWireOnce /\ InSlotUndecided /\ UnwrittenUndecided

\* An outcome event under way states what became of its frame.
EventsTellFate ==
    \A i \in 1 .. Len(fromGw) :
        /\ fromGw[i].kind = "TX_DONE" /\ fromGw[i].frame # 0
              => fate[fromGw[i].frame] = "sent"
        /\ fromGw[i].kind = "TX_REJECTED"
              => fromGw[i].frame # 0 /\ fate[fromGw[i].frame] = "rejected"

\* While a call has the link to itself, it is the registered one, and every
\* frame and outcome under way is its own.
SoloOwnsLink ==
    \A s \in Senders : solo[s] /\ phase[s] = "wait" =>
        /\ pending = s
        /\ \A u \in Senders \ {s} : phase[u] # "wait"
        /\ \A i \in 1 .. Len(toGw) : toGw[i] \in {0, cur[s]}
        /\ gwTx \in {NoFrame, cur[s]}
        /\ \A i \in 1 .. Len(fromGw) :
              fromGw[i].kind \in {"TX_DONE", "TX_REJECTED"} => fromGw[i].frame = cur[s]

SoloHasFrame == \A s \in Senders : solo[s] => cur[s] \in FrameIds /\ cur[s] <= sends

WireInv == /\ WireTypeOK /\ PendingIsWaiting
        /\ FrameLedger /\ EventsTellFate
        /\ SoloHasFrame /\ SoloOwnsLink /\ SoloOutcomeIsOwn

----------------------------------------------------------------------------
(* Type correctness                                                        *)

LEMMA TypeInit == WireInit => WireTypeOK
<1> SUFFICES ASSUME WireInit PROVE WireTypeOK
  OBVIOUS
<1> USE BoundsAssumption DEF WireInit
<1>1. /\ phase \in [Senders -> Phases]
      /\ slot \in [Senders -> Outcomes \cup {NoOutcome}]
      /\ solo \in [Senders -> BOOLEAN]
  BY DEF Phases
<1>2. /\ cur \in [Senders -> 0 .. MaxSends]
      /\ fate \in [FrameIds -> Fates]
      /\ gwTx \in 0 .. NoFrame
  BY DEF Fates, NoFrame
<1>3. /\ toGw \in Seq(0 .. MaxSends)
      /\ fromGw \in Seq(Events)
  OBVIOUS
<1>4. stop \in BOOLEAN /\ serOpen \in BOOLEAN /\ notified \in BOOLEAN
  OBVIOUS
<1>5. /\ sends \in 0 .. MaxSends
      /\ queries \in 0 .. MaxExtras
      /\ gwEvents \in 0 .. MaxExtras
  OBVIOUS
<1> QED BY <1>1, <1>2, <1>3, <1>4, <1>5, Zenon DEF WireTypeOK

\* Fulfilling the registered slot keeps the slots well typed.
LEMMA FulfillType ==
  ASSUME WireTypeOK, NEW o \in Outcomes, Fulfill(o)
  PROVE  slot' \in [Senders -> Outcomes \cup {NoOutcome}]
  BY DEF WireTypeOK, Fulfill

\* An event the model builds is an event.
LEMMA EvType ==
  ASSUME NEW k \in {"TX_DONE", "TX_REJECTED", "IDLE", "TX", "EV_ERROR"},
         NEW f \in 0 .. MaxSends
  PROVE  /\ Ev(k, f) \in Events
         /\ Ev(k, f).kind = k
         /\ Ev(k, f).frame = f
  BY DEF Ev, Events

\* The history of undisturbed calls stays Boolean.
LEMMA SoloType ==
  ASSUME WireTypeOK, NEW s \in Senders
  PROVE  SoloAfterEntry(s) \in [Senders -> BOOLEAN]
  BY Zenon DEF WireTypeOK, SoloAfterEntry, LinkQuiet

LEMMA TypeStep == WireTypeOK /\ [WireNext]_wireVars => WireTypeOK'
<1> SUFFICES ASSUME WireTypeOK, [WireNext]_wireVars PROVE WireTypeOK'
  OBVIOUS
<1> USE BoundsAssumption, SendersAssumption
        DEF WireTypeOK, Phases, FrameIds, NoFrame, GwStates, Fates
<1>1. ASSUME NEW s \in Senders, SendWrite(s) PROVE WireTypeOK'
  <2>1. solo' \in [Senders -> BOOLEAN]
    BY <1>1, SoloType DEF SendWrite
  <2>2. sends + 1 \in 0 .. MaxSends /\ sends' \in 0 .. MaxSends
    BY <1>1 DEF SendWrite
  <2>3. cur' \in [Senders -> 0 .. MaxSends] /\ toGw' \in Seq(0 .. MaxSends)
    BY <1>1, <2>2 DEF SendWrite
  <2>4. /\ phase' \in [Senders -> Phases]
        /\ slot' \in [Senders -> Outcomes \cup {NoOutcome}]
        /\ pending' \in Senders \cup {NoSender}
    BY <1>1 DEF SendWrite
  <2> QED BY <1>1, <2>1, <2>2, <2>3, <2>4 DEF SendWrite
<1>2. ASSUME NEW s \in Senders, SendWriteFails(s) PROVE WireTypeOK'
  <2>1. solo' \in [Senders -> BOOLEAN]
    BY <1>2, SoloType DEF SendWriteFails
  <2>2. sends + 1 \in 0 .. MaxSends /\ sends' \in 0 .. MaxSends
    BY <1>2 DEF SendWriteFails
  <2>3. cur' \in [Senders -> 0 .. MaxSends] /\ toGw' \in Seq(0 .. MaxSends)
    BY <1>2, <2>2 DEF SendWriteFails, linkVars
  <2>4. /\ phase' \in [Senders -> Phases]
        /\ slot' \in [Senders -> Outcomes \cup {NoOutcome}]
        /\ pending' \in Senders \cup {NoSender}
    BY <1>2 DEF SendWriteFails, Outcomes
  <2> QED BY <1>2, <2>1, <2>2, <2>3, <2>4 DEF SendWriteFails, linkVars
<1>3. ASSUME NEW s \in Senders, SendDisconnect(s) PROVE WireTypeOK'
  BY <1>3 DEF SendDisconnect, HandleDisconnect, linkVars, countVars
<1>4. ASSUME NEW s \in Senders, SendWake(s) PROVE WireTypeOK'
  BY <1>4 DEF SendWake, linkVars, countVars
<1>5. ASSUME NEW s \in Senders, SendTimeout(s) PROVE WireTypeOK'
  BY <1>5 DEF SendTimeout, Outcomes, linkVars, countVars
<1>6. ASSUME NEW s \in Senders, SendReturn(s) PROVE WireTypeOK'
  BY <1>6 DEF SendReturn, linkVars, countVars
<1>7. CASE StateRequest
  BY <1>7 DEF StateRequest, portVars
<1>8. CASE StateRequestFails
  <2>1. stop' \in BOOLEAN /\ serOpen' \in BOOLEAN /\ notified' \in BOOLEAN
    BY <1>8 DEF StateRequestFails, HandleDisconnect
  <2> QED BY <1>8, <2>1 DEF StateRequestFails, linkVars
<1>9. CASE ReaderOutcome
  <2>1. Head(fromGw) \in Events /\ Tail(fromGw) \in Seq(Events)
    BY <1>9 DEF ReaderOutcome
  <2>2. OutcomeOf(Head(fromGw)) \in Outcomes
    BY <1>9, <2>1 DEF ReaderOutcome, IsOutcome, OutcomeOf, Outcomes
  <2>3. slot' \in [Senders -> Outcomes \cup {NoOutcome}]
    BY <1>9, <2>2, FulfillType DEF ReaderOutcome
  <2>4. notified' \in BOOLEAN
    BY <1>9 DEF ReaderOutcome
  <2> QED BY <1>9, <2>1, <2>3, <2>4 DEF ReaderOutcome, countVars
<1>10. CASE ReaderState
  <2>1. Head(fromGw) \in Events /\ Tail(fromGw) \in Seq(Events)
    BY <1>10 DEF ReaderState
  <2> QED BY <1>10, <2>1 DEF ReaderState, IsState, countVars
<1>11. CASE ReaderDisconnect
  BY <1>11 DEF ReaderDisconnect, HandleDisconnect, linkVars, countVars
<1>12. CASE ReaderStops
  BY <1>12 DEF ReaderStops, linkVars, countVars
<1>13. CASE Close
  BY <1>13 DEF Close, linkVars, countVars
<1>14. CASE GwAccept
  <2>1. Ev("TX", 0) \in Events
    BY EvType
  <2> QED BY <1>14, <2>1 DEF GwAccept, portVars, countVars
<1>15. CASE GwReject
  <2>1. Ev("TX_REJECTED", Head(toGw)) \in Events
    BY <1>15, EvType DEF GwReject
  <2> QED BY <1>15, <2>1 DEF GwReject, portVars, countVars
<1>16. CASE GwFinish
  <2>1. Ev("TX_DONE", gwTx) \in Events /\ Ev("IDLE", 0) \in Events
    BY <1>16, EvType DEF GwFinish
  <2> QED BY <1>16, <2>1 DEF GwFinish, portVars, countVars
<1>17. CASE GwAutoSync
  <2>1. Ev("TX", 0) \in Events
    BY EvType
  <2> QED BY <1>17, <2>1 DEF GwAutoSync
<1>18. CASE GwReport
  <2>1. Ev(GwState, 0) \in Events
    BY EvType DEF GwState
  <2> QED BY <1>18, <2>1 DEF GwReport, portVars, countVars
<1>19. CASE GwError
  <2>1. Ev("EV_ERROR", 0) \in Events
    BY EvType
  <2> QED BY <1>19, <2>1 DEF GwError, portVars
<1>20. CASE UsbLoss
  BY <1>20 DEF UsbLoss, portVars, countVars
<1>21. CASE UNCHANGED wireVars
  BY <1>21 DEF wireVars
<1> QED
  BY <1>1, <1>2, <1>3, <1>4, <1>5, <1>6, <1>7, <1>8, <1>9, <1>10, <1>11, <1>12,
     <1>13, <1>14, <1>15, <1>16, <1>17, <1>18, <1>19, <1>20, <1>21
     DEF WireNext, Send, Reader, Gateway

\* Every reachable state of the transport is well typed: in particular a
\* finished call holds one of the four documented outcome codes.
THEOREM WireTypeCorrect == WireSpec => []WireTypeOK
  BY TypeInit, TypeStep, PTL DEF WireSpec

----------------------------------------------------------------------------
(* The registered slot                                                     *)

LEMMA PendingStep ==
  WireTypeOK /\ PendingIsWaiting /\ [WireNext]_wireVars => PendingIsWaiting'
<1> SUFFICES ASSUME WireTypeOK, PendingIsWaiting, [WireNext]_wireVars PROVE PendingIsWaiting'
  OBVIOUS
<1> USE SendersAssumption DEF WireTypeOK, PendingIsWaiting
<1>1. ASSUME NEW s \in Senders, Send(s) PROVE PendingIsWaiting'
  BY <1>1 DEF Send, SendWrite, SendWriteFails, SendDisconnect, SendWake, SendTimeout,
              SendReturn
<1>2. CASE ~\E s \in Senders : Send(s)
  BY <1>2 DEF WireNext, Reader, Gateway, StateRequest, StateRequestFails, ReaderOutcome,
              ReaderState, ReaderDisconnect, ReaderStops, Close, GwAccept, GwReject,
              GwFinish, GwAutoSync, GwReport, GwError, UsbLoss, portVars, wireVars
<1> QED BY <1>1, <1>2

\* A late outcome event (after a TIMEOUT, or from the gateway's auto-sync) is
\* never written into the slot of a call that has stopped waiting.
THEOREM RegisteredCallWaits == WireSpec => []PendingIsWaiting
<1>1. WireInit => PendingIsWaiting
  BY DEF WireInit, PendingIsWaiting
<1> QED BY <1>1, TypeInit, TypeStep, PendingStep, PTL DEF WireSpec

\* The first outcome a call receives is the one it returns.
THEOREM OutcomeIsStable == WireSpec => FirstOutcomeStands
<1> DEFINE Stands == \A s \in Senders : phase[s] # "idle" /\ slot[s] # NoOutcome
                                          => slot'[s] = slot[s]
<1>1. WireTypeOK /\ [WireNext]_wireVars => Stands
  <2> SUFFICES ASSUME WireTypeOK, [WireNext]_wireVars PROVE Stands
    OBVIOUS
  <2> USE DEF WireTypeOK
  <2>1. ASSUME NEW s \in Senders, Send(s) PROVE Stands
    BY <2>1 DEF Send, SendWrite, SendWriteFails, SendDisconnect, SendWake, SendTimeout,
                SendReturn
  <2>2. CASE ReaderOutcome
    BY <2>2 DEF ReaderOutcome, Fulfill
  <2>3. CASE ~ReaderOutcome /\ ~\E s \in Senders : Send(s)
    BY <2>3 DEF WireNext, Reader, Gateway, StateRequest, StateRequestFails, ReaderState,
                ReaderDisconnect, ReaderStops, Close, GwAccept, GwReject, GwFinish,
                GwAutoSync, GwReport, GwError, UsbLoss, portVars, wireVars
  <2> QED BY <2>1, <2>2, <2>3
<1> HIDE DEF Stands
<1>2. WireSpec => []WireTypeOK
  BY WireTypeCorrect
<1>3. WireSpec => [][Stands]_wireVars
  BY <1>1, <1>2, PTL DEF WireSpec
<1> QED BY <1>3, PTL DEF FirstOutcomeStands, Stands

----------------------------------------------------------------------------
(* Frames, their fate, and the events about them                           *)

\* Only these steps touch the way of a frame.
LEMMA LedgerFrame ==
  ASSUME [WireNext]_wireVars,
         ~\E s \in Senders : SendWrite(s) \/ SendWriteFails(s),
         ~StateRequest, ~GwAccept, ~GwReject, ~GwFinish, ~GwAutoSync, ~GwReport, ~UsbLoss
  PROVE  UNCHANGED << toGw, gwTx, fate, sends >>
  BY DEF WireNext, Send, Reader, Gateway, SendDisconnect, SendWake, SendTimeout, SendReturn,
         StateRequestFails, ReaderOutcome, ReaderState, ReaderDisconnect, ReaderStops,
         Close, GwError, portVars, linkVars, countVars, wireVars

\* What Append, Head and Tail do to the elements of a queue.
LEMMA AppendFacts ==
  ASSUME NEW S, NEW q \in Seq(S), NEW e \in S
  PROVE  /\ Len(Append(q, e)) = Len(q) + 1
         /\ \A i \in 1 .. Len(Append(q, e)) :
               Append(q, e)[i] = IF i = Len(q) + 1 THEN e ELSE q[i]
  OBVIOUS

LEMMA TailFacts ==
  ASSUME NEW S, NEW q \in Seq(S), q # << >>
  PROVE  /\ 1 \in 1 .. Len(q) /\ Head(q) = q[1]
         /\ Len(Tail(q)) = Len(q) - 1
         /\ \A i \in 1 .. Len(Tail(q)) : i + 1 \in 1 .. Len(q) /\ Tail(q)[i] = q[i + 1]
  OBVIOUS

LEMMA LedgerStep ==
  WireTypeOK /\ FrameLedger /\ [WireNext]_wireVars => FrameLedger'
<1> SUFFICES ASSUME WireTypeOK, FrameLedger, [WireNext]_wireVars PROVE FrameLedger'
  OBVIOUS
<1>0. /\ toGw \in Seq(0 .. MaxSends) /\ gwTx \in 0 .. MaxSends + 1
      /\ fate \in [1 .. MaxSends -> Fates] /\ sends \in 0 .. MaxSends
  BY DEF WireTypeOK, FrameIds, NoFrame
<1> USE BoundsAssumption
        DEF FrameLedger, OnWireUndecided, OnWireOnce, InSlotUndecided, UnwrittenUndecided,
            FrameIds, NoFrame
<1>1. ASSUME NEW s \in Senders, SendWrite(s) PROVE FrameLedger'
  <2>1. /\ Len(toGw') = Len(toGw) + 1
        /\ \A i \in 1 .. Len(toGw') :
              toGw'[i] = IF i = Len(toGw) + 1 THEN sends + 1 ELSE toGw[i]
    BY <1>0, <1>1, AppendFacts DEF SendWrite
  <2>2. sends' = sends + 1 /\ sends < MaxSends /\ gwTx' = gwTx /\ fate' = fate
    BY <1>1 DEF SendWrite
  <2>3. \A i \in 1 .. Len(toGw) : toGw[i] \in 0 .. MaxSends
    BY <1>0
  <2>4. \A i \in 1 .. Len(toGw') : i = Len(toGw) + 1 \/ i \in 1 .. Len(toGw)
    BY <1>0, <2>1
  <2>5. sends + 1 # gwTx /\ fate[sends + 1] = "queued"
    BY <1>0, <2>2
  <2>6. \A i \in 1 .. Len(toGw) : toGw[i] # sends + 1
    BY <1>0, <2>3
  <2>7. OnWireUndecided'
    <3> SUFFICES ASSUME NEW i \in 1 .. Len(toGw'), toGw'[i] # 0
                 PROVE  toGw'[i] <= sends' /\ fate'[toGw'[i]] = "queued" /\ toGw'[i] # gwTx'
      OBVIOUS
    <3>1. CASE i = Len(toGw) + 1
      BY <1>0, <2>1, <2>2, <2>5, <3>1
    <3>2. CASE i \in 1 .. Len(toGw)
      BY <1>0, <2>1, <2>2, <2>3, <3>2
    <3> QED BY <2>4, <3>1, <3>2
  <2>8. OnWireOnce'
    <3> SUFFICES ASSUME NEW i \in 1 .. Len(toGw'), NEW j \in 1 .. Len(toGw'),
                        toGw'[i] # 0, i # j
                 PROVE  toGw'[i] # toGw'[j]
      OBVIOUS
    <3>1. CASE i = Len(toGw) + 1 \/ j = Len(toGw) + 1
      BY <1>0, <2>1, <2>4, <2>6, <3>1
    <3>2. CASE i \in 1 .. Len(toGw) /\ j \in 1 .. Len(toGw)
      <4>1. i # Len(toGw) + 1 /\ j # Len(toGw) + 1
        BY <1>0, <3>2
      <4>2. toGw'[i] = toGw[i] /\ toGw'[j] = toGw[j]
        BY <2>1, <4>1
      <4> QED BY <1>0, <3>2, <4>2
    <3> QED BY <2>4, <3>1, <3>2
  <2> QED BY <1>0, <2>2, <2>7, <2>8
<1>2. ASSUME NEW s \in Senders, SendWriteFails(s) PROVE FrameLedger'
  BY <1>0, <1>2 DEF SendWriteFails, linkVars
<1>3. CASE StateRequest
  <2>1. /\ Len(toGw') = Len(toGw) + 1
        /\ \A i \in 1 .. Len(toGw') :
              toGw'[i] = IF i = Len(toGw) + 1 THEN 0 ELSE toGw[i]
    BY <1>0, <1>3, AppendFacts DEF StateRequest
  <2>2. sends' = sends /\ gwTx' = gwTx /\ fate' = fate
    BY <1>3 DEF StateRequest
  <2>4. \A i \in 1 .. Len(toGw') : i = Len(toGw) + 1 \/ i \in 1 .. Len(toGw)
    BY <1>0, <2>1
  <2> QED BY <1>0, <2>1, <2>2, <2>4
<1>4. CASE GwAccept \/ GwReject \/ GwReport
  <2>1. toGw # << >> /\ toGw' = Tail(toGw) /\ sends' = sends
    BY <1>4 DEF GwAccept, GwReject, GwReport, countVars
  <2>2. /\ 1 \in 1 .. Len(toGw) /\ Head(toGw) = toGw[1]
        /\ \A i \in 1 .. Len(toGw') : i + 1 \in 1 .. Len(toGw) /\ toGw'[i] = toGw[i + 1]
    BY <1>0, <2>1, TailFacts
  <2>3. \A i \in 1 .. Len(toGw') : toGw[1] # 0 => toGw'[i] # toGw[1]
    BY <1>0, <2>1, <2>2
  <2>4. \A i \in 1 .. Len(toGw) : toGw[i] \in 0 .. MaxSends
    BY <1>0
  <2>5. OnWireOnce'
    BY <2>2
  <2>6. CASE GwAccept
    <3>1. gwTx' = toGw[1] /\ toGw[1] # 0 /\ fate' = fate
      BY <2>2, <2>6 DEF GwAccept
    <3> QED BY <1>0, <2>1, <2>2, <2>3, <2>4, <2>5, <3>1
  <2>7. CASE GwReject
    <3>1. gwTx' = gwTx /\ toGw[1] # 0 /\ fate' = [fate EXCEPT ![toGw[1]] = "rejected"]
      BY <2>2, <2>7 DEF GwReject
    <3>2. OnWireUndecided'
      BY <1>0, <2>1, <2>2, <2>3, <2>4, <3>1
    <3> QED BY <1>0, <2>1, <2>2, <2>4, <2>5, <3>1, <3>2
  <2>8. CASE GwReport
    <3>1. gwTx' = gwTx /\ fate' = fate
      BY <2>8 DEF GwReport
    <3> QED BY <1>0, <2>1, <2>2, <2>5, <3>1
  <2> QED BY <1>4, <2>6, <2>7, <2>8
<1>5. CASE GwFinish
  <2>1. \A i \in 1 .. Len(toGw) : toGw[i] \in 0 .. MaxSends
    BY <1>0
  <2> QED BY <1>0, <1>5, <2>1 DEF GwFinish, countVars
<1>6. CASE GwAutoSync
  BY <1>0, <1>6 DEF GwAutoSync
<1>7. CASE UsbLoss
  BY <1>0, <1>7 DEF UsbLoss, countVars
<1>8. CASE UNCHANGED << toGw, gwTx, fate, sends >>
  BY <1>8
<1> QED
  BY <1>1, <1>2, <1>3, <1>4, <1>5, <1>6, <1>7, <1>8, LedgerFrame

\* What the gateway has decided about a frame is final.
LEMMA FateIsFinal ==
  ASSUME WireTypeOK, FrameLedger, [WireNext]_wireVars, NEW f \in FrameIds, fate[f] # "queued"
  PROVE  fate'[f] = fate[f]
<1> USE BoundsAssumption DEF WireTypeOK, FrameLedger, OnWireUndecided, InSlotUndecided, FrameIds, NoFrame
<1>1. CASE GwReject
  <2>1. Head(toGw) = toGw[1] /\ 1 \in 1 .. Len(toGw)
    BY <1>1 DEF GwReject
  <2> QED BY <1>1, <2>1 DEF GwReject
<1>2. CASE GwFinish
  BY <1>2 DEF GwFinish
<1>3. CASE ~GwReject /\ ~GwFinish
  BY <1>3 DEF WireNext, Send, Reader, Gateway, SendWrite, SendWriteFails, SendDisconnect,
         SendWake, SendTimeout, SendReturn, StateRequest, StateRequestFails,
         ReaderOutcome, ReaderState, ReaderDisconnect, ReaderStops, Close, GwAccept,
         GwAutoSync, GwReport, GwError, UsbLoss, linkVars, wireVars
<1> QED BY <1>1, <1>2, <1>3

\* A transmission that ends is one the ledger holds as undecided; the two
\* events GwFinish sends are appended in order.
LEMMA EventsStep ==
  WireTypeOK /\ FrameLedger /\ EventsTellFate /\ [WireNext]_wireVars => EventsTellFate'
<1> SUFFICES ASSUME WireTypeOK, FrameLedger, EventsTellFate, [WireNext]_wireVars PROVE EventsTellFate'
  OBVIOUS
<1>0. /\ fromGw \in Seq(Events) /\ toGw \in Seq(0 .. MaxSends)
      /\ gwTx \in 0 .. MaxSends + 1 /\ fate \in [1 .. MaxSends -> Fates]
  BY DEF WireTypeOK, FrameIds, NoFrame
<1>a. \A i \in 1 .. Len(fromGw) : fromGw[i].frame \in 0 .. MaxSends
  <2>1. \A i \in 1 .. Len(fromGw) : fromGw[i] \in Events
    BY <1>0
  <2> QED BY <2>1 DEF Events
<1> DEFINE Tells(e, ft) == /\ e.kind = "TX_DONE" /\ e.frame # 0 => ft[e.frame] = "sent"
                           /\ e.kind = "TX_REJECTED"
                                 => e.frame # 0 /\ ft[e.frame] = "rejected"
\* Decided fates persist, so the events already under way stay true.
<1>1. \A i \in 1 .. Len(fromGw) : Tells(fromGw[i], fate')
  <2> SUFFICES ASSUME NEW i \in 1 .. Len(fromGw) PROVE Tells(fromGw[i], fate')
    OBVIOUS
  <2>1. fromGw[i].frame # 0 => fromGw[i].frame \in FrameIds
    BY <1>a, BoundsAssumption DEF FrameIds
  <2>2. fromGw[i].frame # 0 /\ fate[fromGw[i].frame] # "queued"
          => fate'[fromGw[i].frame] = fate[fromGw[i].frame]
    BY <2>1, FateIsFinal
  <2> QED BY <2>2 DEF EventsTellFate
<1>2. ASSUME NEW e \in Events, fromGw' = Append(fromGw, e), Tells(e, fate')
      PROVE  EventsTellFate'
  <2>1. \A i \in 1 .. Len(fromGw') : Tells(fromGw'[i], fate')
    <3> SUFFICES ASSUME NEW i \in 1 .. Len(fromGw') PROVE Tells(fromGw'[i], fate')
      OBVIOUS
    <3>1. fromGw'[i] = e \/ (i \in 1 .. Len(fromGw) /\ fromGw'[i] = fromGw[i])
      BY <1>0, <1>2
    <3> HIDE DEF Tells
    <3> QED BY <1>1, <1>2, <3>1
  <2> QED BY <2>1 DEF EventsTellFate
<1>3. CASE GwAccept \/ GwAutoSync
  <2>1. Ev("TX", 0) \in Events /\ Ev("TX", 0).kind = "TX"
    BY EvType, BoundsAssumption
  <2> QED BY <1>2, <1>3, <2>1 DEF GwAccept, GwAutoSync
<1>4. CASE GwReport
  <2>1. Ev(GwState, 0) \in Events /\ Ev(GwState, 0).kind \in {"IDLE", "TX"}
    BY EvType, BoundsAssumption DEF GwState
  <2> QED BY <1>2, <1>4, <2>1 DEF GwReport
<1>5. CASE GwError
  <2>1. Ev("EV_ERROR", 0) \in Events /\ Ev("EV_ERROR", 0).kind = "EV_ERROR"
    BY EvType, BoundsAssumption
  <2> QED BY <1>2, <1>5, <2>1 DEF GwError
<1>6. CASE GwReject
  <2>1. /\ Head(toGw) \in 1 .. MaxSends
        /\ fate' = [fate EXCEPT ![Head(toGw)] = "rejected"]
        /\ fromGw' = Append(fromGw, Ev("TX_REJECTED", Head(toGw)))
    BY <1>0, <1>6, BoundsAssumption, TailFacts DEF GwReject
  <2>2. /\ Ev("TX_REJECTED", Head(toGw)) \in Events
        /\ Ev("TX_REJECTED", Head(toGw)).kind = "TX_REJECTED"
        /\ Ev("TX_REJECTED", Head(toGw)).frame = Head(toGw)
    BY <2>1, EvType, BoundsAssumption
  <2>3. Tells(Ev("TX_REJECTED", Head(toGw)), fate')
    BY <1>0, <2>1, <2>2
  <2> HIDE DEF Tells
  <2> QED BY <1>2, <2>1, <2>2, <2>3
<1>7. CASE GwFinish
  <2> DEFINE e == Ev("TX_DONE", gwTx)
             d == Ev("IDLE", 0)
  <2>1. gwTx \in 0 .. MaxSends
    BY <1>0, <1>7, BoundsAssumption DEF GwFinish, NoFrame
  <2>2. e \in Events /\ e.kind = "TX_DONE" /\ e.frame = gwTx
    BY <2>1, EvType
  <2>3. d \in Events /\ d.kind = "IDLE"
    BY EvType, BoundsAssumption
  <2>4. Tells(e, fate') /\ Tells(d, fate')
    BY <1>0, <1>7, <2>1, <2>2, <2>3, BoundsAssumption DEF GwFinish
  <2>5. fromGw' = Append(Append(fromGw, e), d)
    BY <1>7 DEF GwFinish
  <2> HIDE DEF e, d, Tells
  <2>6. \A i \in 1 .. Len(fromGw') :
          fromGw'[i] = d \/ fromGw'[i] = e \/ (i \in 1 .. Len(fromGw) /\ fromGw'[i] = fromGw[i])
    BY <1>0, <2>2, <2>3, <2>5
  <2>7. \A i \in 1 .. Len(fromGw') : Tells(fromGw'[i], fate')
    BY <1>1, <2>4, <2>6
  <2> QED BY <2>7 DEF EventsTellFate, Tells
<1>8. CASE fromGw' = Tail(fromGw) /\ fromGw # << >>
  <2>1. \A i \in 1 .. Len(fromGw') : i + 1 \in 1 .. Len(fromGw) /\ fromGw'[i] = fromGw[i + 1]
    BY <1>0, <1>8, TailFacts
  <2> QED BY <1>1, <2>1 DEF EventsTellFate
<1>9. CASE fromGw' = << >> \/ fromGw' = fromGw
  BY <1>1, <1>9 DEF EventsTellFate
<1>10. \/ GwAccept \/ GwAutoSync \/ GwReport \/ GwError \/ GwReject \/ GwFinish
       \/ fromGw' = Tail(fromGw) /\ fromGw # << >>
       \/ fromGw' = << >> \/ fromGw' = fromGw
  BY DEF WireNext, Send, Reader, Gateway, SendWrite, SendWriteFails, SendDisconnect,
         SendWake, SendTimeout, SendReturn, StateRequest, StateRequestFails,
         ReaderOutcome, ReaderState, ReaderDisconnect, ReaderStops, Close, UsbLoss,
         linkVars, wireVars
<1> QED BY <1>3, <1>4, <1>5, <1>6, <1>7, <1>8, <1>9, <1>10

----------------------------------------------------------------------------
(* A call that has the link to itself                                      *)

\* The steps that change who waits, who is undisturbed, or who is registered.
LEMMA SoloFrame ==
  ASSUME [WireNext]_wireVars, ~\E s \in Senders : Send(s), ~GwAutoSync
  PROVE  UNCHANGED << phase, pending, cur, solo, sends >>
  BY DEF WireNext, Reader, Gateway, StateRequest, StateRequestFails, ReaderOutcome,
         ReaderState, ReaderDisconnect, ReaderStops, Close, GwAccept, GwReject, GwFinish,
         GwReport, GwError, UsbLoss, portVars, countVars, wireVars

LEMMA SoloFrameStep ==
  WireTypeOK /\ SoloHasFrame /\ [WireNext]_wireVars => SoloHasFrame'
<1> SUFFICES ASSUME WireTypeOK, SoloHasFrame, [WireNext]_wireVars PROVE SoloHasFrame'
  OBVIOUS
<1>0. /\ cur \in [Senders -> 0 .. MaxSends] /\ solo \in [Senders -> BOOLEAN]
      /\ sends \in 0 .. MaxSends
  BY DEF WireTypeOK
<1> USE BoundsAssumption DEF SoloHasFrame, FrameIds
<1>1. ASSUME NEW s \in Senders, SendWrite(s) \/ SendWriteFails(s) PROVE SoloHasFrame'
  <2>1. /\ sends' = sends + 1 /\ sends < MaxSends
        /\ cur' = [cur EXCEPT ![s] = sends + 1]
        /\ solo' = SoloAfterEntry(s)
    BY <1>1 DEF SendWrite, SendWriteFails
  <2>2. \A t \in Senders \ {s} : solo'[t] => solo[t]
    BY <2>1 DEF SoloAfterEntry
  <2> QED BY <1>0, <2>1, <2>2
<1>2. ASSUME NEW s \in Senders, Send(s), ~SendWrite(s), ~SendWriteFails(s)
      PROVE  SoloHasFrame'
  BY <1>2 DEF Send, SendDisconnect, SendWake, SendTimeout, SendReturn, countVars
<1>3. CASE GwAutoSync
  <2>1. \A t \in Senders : solo'[t] => solo[t]
    BY <1>3 DEF GwAutoSync
  <2> QED BY <1>3, <2>1 DEF GwAutoSync
<1>4. CASE UNCHANGED << phase, pending, cur, solo, sends >>
  BY <1>4
<1> QED BY <1>1, <1>2, <1>3, <1>4, SoloFrame

LEMMA SoloLinkStep ==
  WireTypeOK /\ PendingIsWaiting /\ SoloHasFrame /\ SoloOwnsLink /\ [WireNext]_wireVars => SoloOwnsLink'
<1> SUFFICES ASSUME WireTypeOK, PendingIsWaiting, SoloHasFrame, SoloOwnsLink, [WireNext]_wireVars,
                    NEW t \in Senders, solo'[t], phase'[t] = "wait"
             PROVE  /\ pending' = t
                    /\ \A u \in Senders \ {t} : phase'[u] # "wait"
                    /\ \A i \in 1 .. Len(toGw') : toGw'[i] \in {0, cur'[t]}
                    /\ gwTx' \in {NoFrame, cur'[t]}
                    /\ \A i \in 1 .. Len(fromGw') :
                          fromGw'[i].kind \in {"TX_DONE", "TX_REJECTED"}
                              => fromGw'[i].frame = cur'[t]
  BY DEF SoloOwnsLink
<1> DEFINE Own(e) == e.kind \in {"TX_DONE", "TX_REJECTED"} => e.frame = cur[t]
<1>0. /\ phase \in [Senders -> Phases] /\ cur \in [Senders -> 0 .. MaxSends]
      /\ toGw \in Seq(0 .. MaxSends) /\ fromGw \in Seq(Events)
      /\ gwTx \in 0 .. MaxSends + 1 /\ sends \in 0 .. MaxSends /\ MaxSends \in Nat
  BY BoundsAssumption DEF WireTypeOK, FrameIds, NoFrame
\* The call starts here: the quiet link carries its frame only.
<1>1. CASE SendWrite(t)
  <2>1. /\ pending' = t /\ toGw' = Append(toGw, sends + 1) /\ fromGw' = fromGw
        /\ gwTx' = gwTx /\ cur'[t] = sends + 1 /\ phase' = [phase EXCEPT ![t] = "wait"]
        /\ sends + 1 \in 0 .. MaxSends
    BY <1>0, <1>1 DEF SendWrite
  <2>2. LinkQuiet /\ \A u \in Senders \ {t} : phase[u] # "wait"
    <3>1. solo'[t] = (LinkQuiet /\ \A u \in Senders \ {t} : phase[u] # "wait")
      BY <1>1, Zenon DEF SendWrite, SoloAfterEntry
    <3> QED BY <3>1
  <2>3. \A i \in 1 .. Len(toGw') : toGw'[i] \in {0, cur'[t]}
    <3>1. \A i \in 1 .. Len(toGw') :
            toGw'[i] = sends + 1 \/ (i \in 1 .. Len(toGw) /\ toGw'[i] = toGw[i])
      <4>1. /\ Len(toGw') = Len(toGw) + 1
            /\ \A i \in 1 .. Len(toGw') :
                  toGw'[i] = IF i = Len(toGw) + 1 THEN sends + 1 ELSE toGw[i]
        <5>1. toGw \in Seq(0 .. MaxSends) /\ sends + 1 \in 0 .. MaxSends
          BY <1>0, <2>1
        <5>2. toGw' = Append(toGw, sends + 1)
          BY <2>1
        <5> QED BY ONLY <5>1, <5>2, AppendFacts
      <4>2. Len(toGw) \in Nat
        BY <1>0
      <4> QED BY ONLY <4>1, <4>2
    <3> QED BY <2>1, <2>2, <3>1 DEF LinkQuiet
  <2> QED BY <1>0, <2>1, <2>2, <2>3 DEF LinkQuiet, IsOutcome
\* Every other step leaves an undisturbed waiting call undisturbed only if
\* it was so before.
<1>2. CASE ~SendWrite(t)
  <2>1. solo[t] /\ phase[t] = "wait" /\ cur'[t] = cur[t]
    <3>1. ASSUME NEW s \in Senders, Send(s) PROVE solo[t] /\ phase[t] = "wait" /\ cur'[t] = cur[t]
      BY <1>0, <1>2, <3>1 DEF Send, SendWrite, SendWriteFails, SendDisconnect, SendWake,
                              SendTimeout, SendReturn, SoloAfterEntry
    <3>2. CASE GwAutoSync
      BY <3>2 DEF GwAutoSync
    <3> QED BY <3>1, <3>2, SoloFrame
  <2>2. /\ pending = t /\ \A u \in Senders \ {t} : phase[u] # "wait"
        /\ \A i \in 1 .. Len(toGw) : toGw[i] \in {0, cur[t]}
        /\ gwTx \in {NoFrame, cur[t]}
        /\ \A i \in 1 .. Len(fromGw) : Own(fromGw[i])
    BY <2>1 DEF SoloOwnsLink
  <2>3. pending' = t /\ \A u \in Senders \ {t} : phase'[u] # "wait"
    <3>1. ASSUME NEW s \in Senders, Send(s)
          PROVE  pending' = t /\ \A u \in Senders \ {t} : phase'[u] # "wait"
      BY <1>0, <1>2, <2>1, <2>2, <3>1
         DEF Send, SendWrite, SendWriteFails, SendDisconnect, SendWake, SendTimeout,
             SendReturn, SoloAfterEntry
    <3>2. CASE GwAutoSync
      BY <2>2, <3>2 DEF GwAutoSync
    <3> QED BY <2>2, <3>1, <3>2, SoloFrame
  <2>4. \/ toGw' = toGw \/ toGw' = Append(toGw, 0) \/ toGw' = << >>
        \/ toGw' = Tail(toGw) /\ toGw # << >>
    <3>1. ASSUME NEW s \in Senders, Send(s) PROVE toGw' = toGw
      BY <1>0, <1>2, <2>1, <3>1
         DEF Send, SendWrite, SendWriteFails, SendDisconnect, SendWake, SendTimeout,
             SendReturn, SoloAfterEntry, linkVars
    <3> QED BY <3>1 DEF WireNext, Reader, Gateway, StateRequest, StateRequestFails,
         ReaderOutcome, ReaderState, ReaderDisconnect, ReaderStops, Close, GwAccept,
         GwReject, GwFinish, GwAutoSync, GwReport, GwError, UsbLoss, linkVars, wireVars
  <2>5. \A i \in 1 .. Len(toGw') : toGw'[i] \in {0, cur[t]}
    <3>1. CASE toGw' = Append(toGw, 0)
      BY <1>0, <2>2, <3>1, AppendFacts, SMTT(30)
    <3>2. CASE toGw' = Tail(toGw) /\ toGw # << >>
      BY <1>0, <2>2, <3>2, TailFacts, SMTT(30)
    <3>3. CASE toGw' = toGw \/ toGw' = << >>
      BY <2>2, <3>3
    <3> QED BY <2>4, <3>1, <3>2, <3>3
  <2>6. gwTx' \in {NoFrame, cur[t]}
    <3>1. CASE GwAccept
      BY <1>0, <2>2, <3>1, TailFacts DEF GwAccept
    <3>2. CASE GwFinish
      BY <3>2 DEF GwFinish
    <3>3. CASE GwAutoSync
      BY <2>1, <3>3 DEF GwAutoSync
    <3> QED BY <2>2, <3>1, <3>2, <3>3 DEF WireNext, Send, Reader, Gateway, SendWrite,
         SendWriteFails, SendDisconnect, SendWake, SendTimeout, SendReturn, StateRequest,
         StateRequestFails, ReaderOutcome, ReaderState, ReaderDisconnect, ReaderStops,
         Close, GwReject, GwReport, GwError, UsbLoss, linkVars, wireVars
  <2>7. \A i \in 1 .. Len(fromGw') : Own(fromGw'[i])
    <3>1. ASSUME NEW e \in Events, Own(e), fromGw' = Append(fromGw, e)
          PROVE  \A i \in 1 .. Len(fromGw') : Own(fromGw'[i])
      <4>1. \A i \in 1 .. Len(fromGw') :
              fromGw'[i] = e \/ (i \in 1 .. Len(fromGw) /\ fromGw'[i] = fromGw[i])
        BY <1>0, <3>1
      <4> HIDE DEF Own
      <4> QED BY <2>2, <3>1, <4>1
    <3>2. CASE GwAccept \/ GwAutoSync
      <4>1. Ev("TX", 0) \in Events /\ Ev("TX", 0).kind = "TX"
        BY EvType, BoundsAssumption
      <4> QED BY <3>1, <3>2, <4>1 DEF GwAccept, GwAutoSync
    <3>3. CASE GwReport
      <4>1. Ev(GwState, 0) \in Events /\ Ev(GwState, 0).kind \in {"IDLE", "TX"}
        BY EvType, BoundsAssumption DEF GwState
      <4> QED BY <3>1, <3>3, <4>1 DEF GwReport
    <3>4. CASE GwError
      <4>1. Ev("EV_ERROR", 0) \in Events /\ Ev("EV_ERROR", 0).kind = "EV_ERROR"
        BY EvType, BoundsAssumption
      <4> QED BY <3>1, <3>4, <4>1 DEF GwError
    <3>5. CASE GwReject
      <4>1. Head(toGw) = cur[t] /\ Head(toGw) \in 0 .. MaxSends
        BY <1>0, <2>2, <3>5, TailFacts DEF GwReject
      <4>2. /\ Ev("TX_REJECTED", Head(toGw)) \in Events
            /\ Ev("TX_REJECTED", Head(toGw)).frame = cur[t]
        BY <4>1, EvType, BoundsAssumption
      <4> QED BY <3>1, <3>5, <4>2 DEF GwReject
    <3>6. CASE GwFinish
      <4> DEFINE e == Ev("TX_DONE", gwTx)
                 d == Ev("IDLE", 0)
      <4>1. gwTx = cur[t] /\ gwTx \in 0 .. MaxSends
        BY <1>0, <2>2, <3>6 DEF GwFinish
      <4>2. e \in Events /\ e.frame = cur[t] /\ d \in Events /\ d.kind = "IDLE"
        BY <4>1, EvType, BoundsAssumption
      <4>3. Own(e) /\ Own(d)
        BY <4>2
      <4>4. fromGw' = Append(Append(fromGw, e), d)
        BY <3>6 DEF GwFinish
      <4> HIDE DEF e, d, Own
      <4>5. \A i \in 1 .. Len(fromGw') :
              \/ fromGw'[i] = d \/ fromGw'[i] = e
              \/ i \in 1 .. Len(fromGw) /\ fromGw'[i] = fromGw[i]
        BY <1>0, <4>2, <4>4
      <4> QED BY <2>2, <4>3, <4>5
    <3>7. CASE fromGw' = Tail(fromGw) /\ fromGw # << >>
      <4>1. \A i \in 1 .. Len(fromGw') :
              i + 1 \in 1 .. Len(fromGw) /\ fromGw'[i] = fromGw[i + 1]
        BY <1>0, <3>7, TailFacts
      <4> QED BY <2>2, <4>1
    <3>8. CASE fromGw' = << >> \/ fromGw' = fromGw
      BY <2>2, <3>8
    <3>9. \/ GwAccept \/ GwAutoSync \/ GwReport \/ GwError \/ GwReject \/ GwFinish
          \/ fromGw' = Tail(fromGw) /\ fromGw # << >>
          \/ fromGw' = << >> \/ fromGw' = fromGw
      BY DEF WireNext, Send, Reader, Gateway, SendWrite, SendWriteFails, SendDisconnect,
             SendWake, SendTimeout, SendReturn, StateRequest, StateRequestFails,
             ReaderOutcome, ReaderState, ReaderDisconnect, ReaderStops, Close, UsbLoss,
             linkVars, wireVars
    <3> QED BY <3>2, <3>3, <3>4, <3>5, <3>6, <3>7, <3>8, <3>9
  <2> QED BY <2>1, <2>3, <2>5, <2>6, <2>7
<1> QED BY <1>1, <1>2

LEMMA SoloOutcomeStep == WireInv /\ [WireNext]_wireVars => SoloOutcomeIsOwn'
<1> SUFFICES ASSUME WireInv, [WireNext]_wireVars, NEW t \in Senders, solo'[t], slot'[t] # NoOutcome
             PROVE  /\ slot'[t] = "SUCCESS"  => fate'[cur'[t]] = "sent"
                    /\ slot'[t] = "REJECTED" => fate'[cur'[t]] = "rejected"
  BY DEF SoloOutcomeIsOwn
<1>0. /\ slot \in [Senders -> Outcomes \cup {NoOutcome}]
      /\ cur \in [Senders -> 0 .. MaxSends]
      /\ pending \in Senders \cup {NoSender} /\ fromGw \in Seq(Events)
      /\ WireTypeOK /\ FrameLedger
  BY DEF WireInv, WireTypeOK
\* A call that starts here has an empty slot, or USB_ERROR.
<1>1. CASE SendWrite(t) \/ SendWriteFails(t)
  BY <1>0, <1>1 DEF SendWrite, SendWriteFails, NoOutcome
<1>2. CASE ~SendWrite(t) /\ ~SendWriteFails(t)
  <2>1. solo[t] /\ cur'[t] = cur[t]
    <3>1. ASSUME NEW s \in Senders, Send(s) PROVE solo[t] /\ cur'[t] = cur[t]
      BY <1>0, <1>2, <3>1 DEF Send, SendWrite, SendWriteFails, SendDisconnect, SendWake,
                              SendTimeout, SendReturn, SoloAfterEntry
    <3>2. CASE GwAutoSync
      BY <3>2 DEF GwAutoSync
    <3> QED BY <3>1, <3>2, SoloFrame
  <2>2. cur[t] \in FrameIds
    BY <2>1 DEF WireInv, SoloHasFrame
  <2>3. fate[cur[t]] # "queued" => fate'[cur[t]] = fate[cur[t]]
    BY <1>0, <2>2, FateIsFinal
  <2>4. CASE slot'[t] = slot[t]
    BY <2>1, <2>3, <2>4 DEF WireInv, SoloOutcomeIsOwn
  <2>5. CASE SendTimeout(t)
    BY <1>0, <2>5 DEF SendTimeout
  \* The outcome is delivered here: the registered call is this one, it is
  \* waiting, and the event is about its frame.
  <2>6. CASE ReaderOutcome /\ slot'[t] # slot[t]
    <3> DEFINE e == Head(fromGw)
    <3>1. pending = t /\ pending # NoSender /\ slot'[t] = OutcomeOf(e) /\ fate' = fate
      BY <1>0, <2>6, SendersAssumption DEF ReaderOutcome, Fulfill
    <3>2. 1 \in 1 .. Len(fromGw) /\ e = fromGw[1] /\ IsOutcome(e)
      BY <1>0, <2>6, TailFacts DEF ReaderOutcome
    <3>3. phase[t] = "wait"
      BY <3>1 DEF WireInv, PendingIsWaiting
    <3>4. e.kind \in {"TX_DONE", "TX_REJECTED"} => e.frame = cur[t]
      BY <2>1, <3>2, <3>3 DEF WireInv, SoloOwnsLink
    <3>5. cur[t] # 0
      BY <2>2, BoundsAssumption DEF FrameIds
    <3>6. /\ e.kind = "TX_DONE" => fate[cur[t]] = "sent"
          /\ e.kind = "TX_REJECTED" => fate[cur[t]] = "rejected"
      BY <3>2, <3>4, <3>5 DEF WireInv, EventsTellFate
    <3>7. e.kind \in {"TX_DONE", "TX_REJECTED", "EV_ERROR"}
      BY <3>2 DEF IsOutcome
    <3> HIDE DEF e
    <3>8. CASE e.kind = "TX_DONE"
      BY <2>1, <3>1, <3>6, <3>8 DEF OutcomeOf
    <3>9. CASE e.kind = "TX_REJECTED"
      BY <2>1, <3>1, <3>6, <3>9 DEF OutcomeOf
    <3>10. CASE e.kind = "EV_ERROR"
      BY <3>1, <3>10 DEF OutcomeOf
    <3> QED BY <3>7, <3>8, <3>9, <3>10
  <2>7. slot'[t] = slot[t] \/ SendTimeout(t) \/ ReaderOutcome
    <3>1. ASSUME NEW s \in Senders, Send(s) PROVE slot'[t] = slot[t] \/ SendTimeout(t)
      BY <1>0, <1>2, <3>1 DEF Send, SendWrite, SendWriteFails, SendDisconnect, SendWake,
                              SendTimeout, SendReturn
    <3> QED BY <3>1 DEF WireNext, Reader, Gateway, StateRequest, StateRequestFails,
         ReaderState, ReaderDisconnect, ReaderStops, Close, GwAccept, GwReject, GwFinish,
         GwAutoSync, GwReport, GwError, UsbLoss, portVars, wireVars
  <2> QED BY <2>4, <2>5, <2>6, <2>7
<1> QED BY <1>1, <1>2

LEMMA WireInvInit == WireInit => WireInv
<1> SUFFICES ASSUME WireInit PROVE WireInv
  OBVIOUS
<1>1. WireTypeOK
  BY TypeInit
<1>2. Len(toGw) = 0 /\ Len(fromGw) = 0 /\ gwTx \notin FrameIds
  BY BoundsAssumption DEF WireInit, FrameIds, NoFrame
<1>3. FrameLedger /\ EventsTellFate
  BY <1>2 DEF WireInit, FrameLedger, OnWireUndecided, OnWireOnce, InSlotUndecided,
              UnwrittenUndecided, EventsTellFate
<1>4. PendingIsWaiting /\ SoloHasFrame /\ SoloOwnsLink /\ SoloOutcomeIsOwn
  BY DEF WireInit, PendingIsWaiting, SoloHasFrame, SoloOwnsLink, SoloOutcomeIsOwn
<1> QED BY <1>1, <1>3, <1>4 DEF WireInv

LEMMA WireInvStep == WireInv /\ [WireNext]_wireVars => WireInv'
  BY TypeStep, PendingStep, LedgerStep, EventsStep, SoloFrameStep, SoloLinkStep,
     SoloOutcomeStep DEF WireInv

\* Outcome events name no frame, yet a _send_m2n call that shares the link
\* with nothing is told what the gateway did with its own frame.
THEOREM SoloOutcomeCorrect == WireSpec => []SoloOutcomeIsOwn
<1>1. WireSpec => []WireInv
  BY WireInvInit, WireInvStep, PTL DEF WireSpec
<1>2. WireInv => SoloOutcomeIsOwn
  BY DEF WireInv
<1> QED BY <1>1, <1>2, PTL

----------------------------------------------------------------------------
(* The mirror of the gateway's state                                       *)

\* Of several state events under way the last one tells the gateway's state.
Latest(q, i) == IsState(q[i]) /\ \A j \in 1 .. Len(q) : j > i => ~IsState(q[j])
LastEventTells ==
    usb = "up" => \A i \in 1 .. Len(fromGw) : Latest(fromGw, i) => fromGw[i].kind = GwState
MirrorInv == LastEventTells /\ MirrorLagsByWire

\* Appending an event that tells the state st, or one that tells none, leaves
\* a queue whose last state event tells st.
LEMMA LatestAppend ==
  ASSUME NEW q \in Seq(Events), NEW e \in Events, NEW st \in GwStates,
         \/ e.kind = st
         \/ ~IsState(e) /\ \A i \in 1 .. Len(q) : Latest(q, i) => q[i].kind = st
  PROVE  \A i \in 1 .. Len(Append(q, e)) :
             Latest(Append(q, e), i) => Append(q, e)[i].kind = st
<1> SUFFICES ASSUME NEW i \in 1 .. Len(Append(q, e)), Latest(Append(q, e), i)
             PROVE  Append(q, e)[i].kind = st
  OBVIOUS
<1> DEFINE w == Append(q, e)
<1>1. /\ Len(w) = Len(q) + 1 /\ w[Len(w)] = e /\ Len(w) \in 1 .. Len(w)
      /\ \A j \in 1 .. Len(q) : j \in 1 .. Len(w) /\ w[j] = q[j]
      /\ i = Len(w) \/ i \in 1 .. Len(q)
  BY AppendFacts
<1> HIDE DEF w
<1>2. CASE e.kind = st /\ i = Len(w)
  BY <1>1, <1>2 DEF w
<1>3. CASE IsState(e) /\ i # Len(w)
  <2>1. Len(w) > i
    BY <1>1, <1>3
  <2> QED BY <1>1, <1>3, <2>1 DEF Latest, w
<1>4. CASE ~IsState(e)
  <2>1. i \in 1 .. Len(q) /\ w[i] = q[i] /\ IsState(q[i])
    BY <1>1, <1>4 DEF Latest, w
  <2>2. Latest(q, i)
    BY <1>1, <2>1 DEF Latest, w
  <2>3. q[i].kind = st
    BY <1>4, <2>1, <2>2 DEF IsState
  <2> QED BY <2>1, <2>3 DEF w
<1> QED BY <1>1, <1>2, <1>3, <1>4 DEF IsState

\* Taking the head keeps the last state event that is left; a state event
\* with none behind it was the last one.
LEMMA LatestTail ==
  ASSUME NEW q \in Seq(Events), q # << >>
  PROVE  /\ \A i \in 1 .. Len(Tail(q)) :
               Latest(Tail(q), i) => \E j \in 1 .. Len(q) : Latest(q, j) /\ q[j] = Tail(q)[i]
         /\ (\A i \in 1 .. Len(Tail(q)) : ~IsState(Tail(q)[i])) =>
               /\ IsState(Head(q)) => Latest(q, 1)
               /\ ~IsState(Head(q)) => \A i \in 1 .. Len(q) : ~IsState(q[i])
<1> DEFINE t == Tail(q)
<1>1. /\ Len(q) \in Nat /\ 1 \in 1 .. Len(q) /\ Head(q) = q[1] /\ Len(t) = Len(q) - 1
      /\ \A i \in 1 .. Len(t) : i + 1 \in 1 .. Len(q) /\ t[i] = q[i + 1]
  BY TailFacts
<1> HIDE DEF t
<1>2. \A j \in 1 .. Len(q) : j > 1 => j - 1 \in 1 .. Len(t) /\ t[j - 1] = q[j]
  BY <1>1
<1>3. ASSUME NEW i \in 1 .. Len(t), Latest(t, i)
      PROVE  Latest(q, i + 1) /\ q[i + 1] = t[i] /\ i + 1 \in 1 .. Len(q)
  <2>1. \A j \in 1 .. Len(q) : j > i + 1 => ~IsState(q[j])
    <3> SUFFICES ASSUME NEW j \in 1 .. Len(q), j > i + 1 PROVE ~IsState(q[j])
      OBVIOUS
    <3>1. j - 1 \in 1 .. Len(t) /\ j - 1 > i /\ t[j - 1] = q[j]
      BY <1>1, <1>2
    <3> QED BY <1>3, <3>1 DEF Latest
  <2> QED BY <1>1, <1>3, <2>1 DEF Latest
<1>4. ASSUME \A i \in 1 .. Len(t) : ~IsState(t[i])
      PROVE  \A j \in 1 .. Len(q) : j > 1 => ~IsState(q[j])
  BY <1>2, <1>4
<1>5. ASSUME \A i \in 1 .. Len(t) : ~IsState(t[i])
      PROVE  /\ IsState(Head(q)) => Latest(q, 1)
             /\ ~IsState(Head(q)) => \A i \in 1 .. Len(q) : ~IsState(q[i])
  <2>1. \A i \in 1 .. Len(q) : i = 1 \/ i > 1
    BY <1>1
  <2> QED BY <1>1, <1>4, <1>5, <2>1 DEF Latest
<1> QED BY <1>3, <1>5 DEF t

\* Appending a state event, or appending to a queue with one, leaves a queue
\* with one.
LEMMA StateUnderWay ==
  ASSUME NEW q \in Seq(Events), NEW e \in Events,
         \A i \in 1 .. Len(Append(q, e)) : ~IsState(Append(q, e)[i])
  PROVE  ~IsState(e) /\ \A i \in 1 .. Len(q) : ~IsState(q[i])
<1>1. Len(q) + 1 \in 1 .. Len(Append(q, e)) /\ Append(q, e)[Len(q) + 1] = e
  BY AppendFacts
<1>2. \A i \in 1 .. Len(q) : i \in 1 .. Len(Append(q, e)) /\ Append(q, e)[i] = q[i]
  BY AppendFacts
<1> QED BY <1>1, <1>2

LEMMA MirrorStep == WireTypeOK /\ MirrorInv /\ [WireNext]_wireVars => MirrorInv'
<1> SUFFICES ASSUME WireTypeOK, MirrorInv, [WireNext]_wireVars, usb' = "up"
             PROVE  /\ \A i \in 1 .. Len(fromGw') : Latest(fromGw', i) => fromGw'[i].kind = GwState'
                    /\ (\A i \in 1 .. Len(fromGw') : ~IsState(fromGw'[i]))
                          => mirror' \in {GwState', "UNKNOWN"}
  BY DEF MirrorInv, LastEventTells, MirrorLagsByWire, Latest, IsState
<1>0. /\ fromGw \in Seq(Events) /\ toGw \in Seq(0 .. MaxSends) /\ gwTx \in 0 .. NoFrame
      /\ GwState \in GwStates /\ usb = "up"
      /\ \A i \in 1 .. Len(fromGw) : Latest(fromGw, i) => fromGw[i].kind = GwState
      /\ (\A i \in 1 .. Len(fromGw) : ~IsState(fromGw[i])) => mirror \in {GwState, "UNKNOWN"}
  <2>1. usb = "up"
    BY DEF WireNext, Send, SendWrite, SendWriteFails, SendDisconnect, SendWake, SendTimeout,
           SendReturn, StateRequest, StateRequestFails, Reader, ReaderOutcome, ReaderState,
           ReaderDisconnect, ReaderStops, Close, Gateway, GwAccept, GwReject, GwFinish,
           GwAutoSync, GwReport, GwError, UsbLoss, linkVars, wireVars
  <2> QED BY <2>1 DEF WireTypeOK, MirrorInv, LastEventTells, MirrorLagsByWire, GwState, GwStates
<1>a. toGw # << >> => Head(toGw) \in 0 .. MaxSends
  <2>1. toGw \in Seq(0 .. MaxSends)
    BY <1>0
  <2>2. toGw # << >> => 1 \in 1 .. Len(toGw) /\ Head(toGw) = toGw[1]
    BY <2>1, TailFacts
  <2>3. \A i \in 1 .. Len(toGw) : toGw[i] \in 0 .. MaxSends
    BY <2>1, BoundsAssumption
  <2> QED BY <2>2, <2>3
\* A state event is appended that tells the new state.
<1>1. ASSUME NEW q \in Seq(Events), NEW e \in Events,
             fromGw' = Append(q, e), e.kind = GwState', GwState' \in GwStates
      PROVE  /\ \A i \in 1 .. Len(fromGw') : Latest(fromGw', i) => fromGw'[i].kind = GwState'
             /\ (\A i \in 1 .. Len(fromGw') : ~IsState(fromGw'[i]))
                   => mirror' \in {GwState', "UNKNOWN"}
  BY <1>1, LatestAppend, StateUnderWay DEF IsState
\* An event is appended that tells none, and the state stays.
<1>2. ASSUME NEW e \in Events, fromGw' = Append(fromGw, e), ~IsState(e),
             gwTx' = gwTx, mirror' = mirror
      PROVE  /\ \A i \in 1 .. Len(fromGw') : Latest(fromGw', i) => fromGw'[i].kind = GwState'
             /\ (\A i \in 1 .. Len(fromGw') : ~IsState(fromGw'[i]))
                   => mirror' \in {GwState', "UNKNOWN"}
  <2>1. GwState' = GwState
    BY <1>2 DEF GwState
  <2> QED BY <1>0, <1>2, <2>1, LatestAppend, StateUnderWay
<1>3. ASSUME fromGw # << >>, fromGw' = Tail(fromGw), gwTx' = gwTx,
             IsState(Head(fromGw)) => mirror' = Head(fromGw).kind,
             ~IsState(Head(fromGw)) => mirror' = mirror
      PROVE  /\ \A i \in 1 .. Len(fromGw') : Latest(fromGw', i) => fromGw'[i].kind = GwState'
             /\ (\A i \in 1 .. Len(fromGw') : ~IsState(fromGw'[i]))
                   => mirror' \in {GwState', "UNKNOWN"}
  <2>1. GwState' = GwState
    BY <1>3 DEF GwState
  <2>2. 1 \in 1 .. Len(fromGw) /\ Head(fromGw) = fromGw[1]
    BY <1>0, <1>3, TailFacts
  <2>3. \A i \in 1 .. Len(Tail(fromGw)) : Latest(Tail(fromGw), i) =>
            \E j \in 1 .. Len(fromGw) : Latest(fromGw, j) /\ fromGw[j] = Tail(fromGw)[i]
    BY <1>0, <1>3, LatestTail
  <2>4. (\A i \in 1 .. Len(Tail(fromGw)) : ~IsState(Tail(fromGw)[i])) =>
            /\ IsState(Head(fromGw)) => Latest(fromGw, 1)
            /\ ~IsState(Head(fromGw)) => \A i \in 1 .. Len(fromGw) : ~IsState(fromGw[i])
    BY <1>0, <1>3, LatestTail
  <2>5. ASSUME NEW i \in 1 .. Len(fromGw'), Latest(fromGw', i) PROVE fromGw'[i].kind = GwState'
    BY <1>0, <1>3, <2>1, <2>3, <2>5
  <2>6. ASSUME \A i \in 1 .. Len(fromGw') : ~IsState(fromGw'[i])
        PROVE  mirror' \in {GwState', "UNKNOWN"}
    BY <1>0, <1>3, <2>1, <2>2, <2>4, <2>6
  <2> QED BY <2>5, <2>6
<1>4. ASSUME UNCHANGED << fromGw, gwTx, mirror >>
      PROVE  /\ \A i \in 1 .. Len(fromGw') : Latest(fromGw', i) => fromGw'[i].kind = GwState'
             /\ (\A i \in 1 .. Len(fromGw') : ~IsState(fromGw'[i]))
                   => mirror' \in {GwState', "UNKNOWN"}
  <2>1. GwState' = GwState
    BY <1>4 DEF GwState
  <2> QED BY <1>0, <1>4, <2>1
<1>5. GwAccept \/ GwAutoSync => \E e \in Events :
         fromGw' = Append(fromGw, e) /\ e.kind = GwState' /\ GwState' \in GwStates
  <2>1. Head(toGw) \in 0 .. MaxSends \/ ~GwAccept
    BY <1>a DEF GwAccept
  <2>2. GwAccept \/ GwAutoSync => GwState' = "TX"
    BY <1>0, <2>1, BoundsAssumption DEF GwAccept, GwAutoSync, GwState, NoFrame
  <2>3. Ev("TX", 0) \in Events /\ Ev("TX", 0).kind = "TX"
    BY EvType, BoundsAssumption
  <2> QED BY <2>2, <2>3 DEF GwAccept, GwAutoSync, GwStates
<1>6. GwReport => \E e \in Events :
         fromGw' = Append(fromGw, e) /\ e.kind = GwState' /\ GwState' \in GwStates
  <2>1. Ev(GwState, 0) \in Events /\ Ev(GwState, 0).kind = GwState
    BY <1>0, EvType, BoundsAssumption DEF GwStates
  <2>2. GwReport => GwState' = GwState
    BY DEF GwReport, GwState
  <2> QED BY <1>0, <2>1, <2>2 DEF GwReport
<1>7. GwFinish => \E q \in Seq(Events), e \in Events :
         fromGw' = Append(q, e) /\ e.kind = GwState' /\ GwState' \in GwStates
  <2> SUFFICES ASSUME GwFinish
               PROVE  \E q \in Seq(Events), e \in Events :
                         fromGw' = Append(q, e) /\ e.kind = GwState' /\ GwState' \in GwStates
    OBVIOUS
  <2>1. gwTx \in 0 .. MaxSends /\ GwState' = "IDLE"
    BY <1>0, BoundsAssumption DEF GwFinish, GwState, NoFrame
  <2>2. Ev("TX_DONE", gwTx) \in Events /\ Ev("IDLE", 0) \in Events /\ Ev("IDLE", 0).kind = "IDLE"
    BY <2>1, EvType, BoundsAssumption
  <2>3. Append(fromGw, Ev("TX_DONE", gwTx)) \in Seq(Events)
    BY <1>0, <2>2
  <2> QED BY <2>1, <2>2, <2>3 DEF GwFinish, GwStates
<1>8. GwReject \/ GwError => \E e \in Events : fromGw' = Append(fromGw, e) /\ ~IsState(e)
                                               /\ gwTx' = gwTx /\ mirror' = mirror
  <2>1. GwReject => Head(toGw) \in 0 .. MaxSends
    BY <1>a DEF GwReject
  <2>2. /\ Ev("EV_ERROR", 0) \in Events /\ ~IsState(Ev("EV_ERROR", 0))
        /\ GwReject => Ev("TX_REJECTED", Head(toGw)) \in Events
                       /\ ~IsState(Ev("TX_REJECTED", Head(toGw)))
    BY <2>1, EvType, BoundsAssumption DEF IsState, GwStates
  <2> QED BY <2>2 DEF GwReject, GwError, portVars
<1>9. ReaderOutcome \/ ReaderState =>
         /\ fromGw # << >> /\ fromGw' = Tail(fromGw) /\ gwTx' = gwTx
         /\ IsState(Head(fromGw)) => mirror' = Head(fromGw).kind
         /\ ~IsState(Head(fromGw)) => mirror' = mirror
  BY DEF ReaderOutcome, ReaderState, IsState, IsOutcome, GwStates
<1>10. (\E s \in Senders : Send(s)) \/ StateRequest \/ StateRequestFails
          \/ ReaderDisconnect \/ ReaderStops \/ Close \/ UNCHANGED wireVars
          => UNCHANGED << fromGw, gwTx, mirror >>
  BY DEF Send, SendWrite, SendWriteFails, SendDisconnect, SendWake, SendTimeout, SendReturn,
         StateRequest, StateRequestFails, ReaderDisconnect, ReaderStops, Close,
         portVars, linkVars, wireVars
<1>11. ~UsbLoss
  BY DEF UsbLoss
<1> QED
  BY <1>0, <1>1, <1>2, <1>3, <1>4, <1>5, <1>6, <1>7, <1>8, <1>9, <1>10, <1>11
     DEF WireNext, Reader, Gateway

\* The byte _update_gateway_state keeps is behind the gateway by exactly the
\* state events on the wire: with none under way the host shows what the
\* gateway is doing, for any traffic and however the reader is scheduled.
THEOREM MirrorCorrect == WireSpec => []MirrorLagsByWire
<1> DEFINE TInv == WireTypeOK /\ MirrorInv
<1>1. WireInit => TInv
  BY TypeInit DEF WireInit, MirrorInv, LastEventTells, MirrorLagsByWire
<1>2. TInv /\ [WireNext]_wireVars => TInv'
  BY TypeStep, MirrorStep
<1>3. TInv => MirrorLagsByWire
  BY DEF MirrorInv
<1> QED BY <1>1, <1>2, <1>3, PTL DEF WireSpec

----------------------------------------------------------------------------
(*                           Requests and replies                           *)
----------------------------------------------------------------------------
(* The inductive invariant                                                 *)

\* A call under way has targets behind one gateway and an issued number.
ActiveCall == \A c \in Callers :
    pc[c] # "idle" => call[c].targets \in TargetSets /\ call[c].id \in 1 .. calls
CallNumbers == \A c \in Callers : call[c].id <= calls

\* The actions that leave the radio alone say so by radioVars.
USE DEF radioVars

\* A reply on its way was sent by a device that answered its opcode, and that
\* executed it when the status is OK, and carries the identity of the gateway
\* that heard it.
ReplyTrue(e, g, a, x) ==
    /\ [dev |-> e.dev, op |-> e.op] \in a
    /\ e.ok => [dev |-> e.dev, op |-> e.op] \in x
    /\ e.gw = g
RepliesTrue ==
    /\ \A g \in Gateways : \A i \in 1 .. Len(rxq[g]) : ReplyTrue(rxq[g][i], g, answered, executed)
    /\ \A g \in Gateways : rx[g].busy => ReplyTrue(rx[g].ev, g, answered, executed)

\* A matcher, registered or copied by an RX thread, waits on the gateway that
\* owns its senders, and while its call lasts it asks for what the call asks.
MatcherTrue(m, k, n) ==
    /\ \A d \in m.senders : GatewayOf[d] = m.gw
    /\ m.id <= n
    /\ m.id = k[m.caller].id =>
         m.op = k[m.caller].op /\ m.senders \subseteq k[m.caller].targets
MatchersTrue ==
    /\ \A g \in Gateways : \A i \in 1 .. Len(registry[g]) : MatcherTrue(registry[g][i], call, calls)
    /\ \A g \in Gateways : rx[g].busy =>
          \A i \in 1 .. Len(rx[g].cand) : MatcherTrue(rx[g].cand[i], call, calls)

\* A matcher only collects replies that answer the call.
GotTrue == \A c \in Callers : \A i \in 1 .. Len(got[c]) :
    /\ got[c][i].dev \in call[c].targets
    /\ got[c][i].op = call[c].op
    /\ [dev |-> got[c][i].dev, op |-> got[c][i].op] \in answered
    /\ got[c][i].ok => [dev |-> got[c][i].dev, op |-> got[c][i].op] \in executed
    /\ got[c][i].gw = GatewayOf[got[c][i].dev]
GotFresh == \A c \in Callers : pc[c] \in {"idle", "build"} => got[c] = << >>

IInv == /\ TypeOK /\ ActiveCall /\ CallNumbers /\ RepliesTrue /\ MatchersTrue
        /\ GotTrue /\ GotFresh /\ SuccessIsTrue

----------------------------------------------------------------------------
(* Facts about the operators                                               *)

\* Removing a matcher leaves a sequence of the others.
LEMMA WithoutFacts ==
  ASSUME NEW S, NEW q \in Seq(S), NEW m
  PROVE  /\ Without(q, m) \in Seq(S)
         /\ \A i \in 1 .. Len(Without(q, m)) : \E j \in 1 .. Len(q) : Without(q, m)[i] = q[j]
<1>1. CASE \E i \in 1 .. Len(q) : q[i] = m
  <2> DEFINE k == CHOOSE i \in 1 .. Len(q) : q[i] = m
             n == Len(q) - 1
             w == [j \in 1 .. n |-> IF j < k THEN q[j] ELSE q[j + 1]]
  <2>1. k \in 1 .. Len(q)
    BY <1>1
  <2>2. n \in Nat /\ Len(q) \in Nat /\ Without(q, m) = w
    BY <1>1, <2>1, LenProperties DEF Without
  <2> HIDE DEF k
  <2>3. \A j \in 1 .. n : w[j] \in S /\ \E i \in 1 .. Len(q) : w[j] = q[i]
    <3> SUFFICES ASSUME NEW j \in 1 .. n PROVE w[j] \in S /\ \E i \in 1 .. Len(q) : w[j] = q[i]
      OBVIOUS
    <3>1. j \in 1 .. Len(q) /\ j + 1 \in 1 .. Len(q)
      BY <2>2
    <3>2. w[j] = q[j] \/ w[j] = q[j + 1]
      OBVIOUS
    <3> QED BY <3>1, <3>2, ElementOfSeq
  <2>4. w \in [1 .. n -> S]
    BY <2>3
  <2>5. w \in Seq(S)
    BY <2>2, <2>4, SeqDef
  <2>6. Len(w) = n
    BY <2>2, <2>4, <2>5, LenProperties
  <2> QED BY <2>2, <2>3, <2>5, <2>6
<1>2. CASE ~\E i \in 1 .. Len(q) : q[i] = m
  BY <1>2 DEF Without
<1> QED BY <1>1, <1>2

\* All targets of a call share the gateway the call is routed to.
LEMMA CallGateway ==
  ASSUME NEW c \in Callers, call[c].targets \in TargetSets
  PROVE  /\ GatewayOfCall(c) \in Gateways
         /\ \A d \in call[c].targets : GatewayOf[d] = GatewayOfCall(c)
  BY GatewayAssumption DEF GatewayOfCall, TargetSets

\* The matcher of an active call is well formed and asks for what the call
\* asks.
LEMMA MatcherFacts ==
  ASSUME TypeOK, ActiveCall, NEW c \in Callers, pc[c] # "idle"
  PROVE  /\ Matcher(c) \in Matchers
         /\ Matcher(c).gw \in Gateways
         /\ MatcherTrue(Matcher(c), call, calls)
<1>1. call[c].targets \in TargetSets /\ call[c].id \in CallIds /\ call[c].id <= calls
  BY BoundAssumption DEF ActiveCall, TypeOK, CallIds
<1>2. call[c].targets \subseteq Devices /\ call[c].op \in Opcodes /\ attempt[c] \in Attempts
  BY <1>1 DEF TypeOK, Calls, TargetSets
<1>3. GatewayOfCall(c) \in Gateways /\ \A d \in call[c].targets : GatewayOf[d] = GatewayOfCall(c)
  BY <1>1, CallGateway
<1> QED BY <1>1, <1>2, <1>3 DEF Matcher, Matchers, MatcherTrue

\* What a busy RX thread holds.
LEMMA RxFacts ==
  ASSUME TypeOK, NEW g \in Gateways, rx[g].busy
  PROVE  rx[g].ev \in Replies /\ rx[g].cand \in Seq(Matchers)
<1>1. rx[g] \in RxStates
  BY DEF TypeOK
<1>2. NoRx.busy = FALSE
  BY DEF NoRx
<1>3. rx[g] \in [busy : {TRUE}, ev : Replies, cand : Seq(Matchers)]
  BY <1>1, <1>2 DEF RxStates
<1> QED BY <1>3

----------------------------------------------------------------------------
(* Type correctness, together with the well-formedness of active calls     *)

Typed == TypeOK /\ ActiveCall /\ CallNumbers

LEMMA TypedInit == Init => Typed
<1> SUFFICES ASSUME Init PROVE Typed
  OBVIOUS
<1>1. NoCall \in Calls
  BY BoundAssumption, OpcodesAssumption DEF NoCall, Calls
<1>2. NoRx \in RxStates
  BY DEF RxStates
<1>3. /\ pc \in [Callers -> {"idle", "build", "send", "wait", "exit", "read"}]
      /\ call \in [Callers -> Calls]
      /\ attempt \in [Callers -> Attempts]
      /\ acked \in [Callers -> SUBSET Devices]
      /\ sure \in [Callers -> SUBSET Devices]
  BY <1>1, BoundAssumption DEF Init, Attempts
<1>4. /\ got \in [Callers -> Seq(Replies)]
      /\ registry \in [Gateways -> Seq(Matchers)]
      /\ rx \in [Gateways -> RxStates]
      /\ rxq \in [Gateways -> Seq(Replies)]
  BY <1>2 DEF Init
<1>5. calls \in 0 .. MaxCalls /\ inbox \subseteq Frames
      /\ answered \subseteq [dev : Devices, op : Opcodes]
      /\ executed \subseteq [dev : Devices, op : Opcodes]
  BY BoundAssumption DEF Init
<1>6. ActiveCall /\ CallNumbers
  BY DEF Init, ActiveCall, CallNumbers, NoCall
<1> QED BY <1>3, <1>4, <1>5, <1>6 DEF Typed, TypeOK

LEMMA TypedStep == Typed /\ [Next]_vars => Typed'
<1> SUFFICES ASSUME Typed, [Next]_vars PROVE Typed'
  OBVIOUS
<1> USE BoundAssumption DEF Typed, TypeOK, ActiveCall, CallNumbers
<1>1. ASSUME NEW c \in Callers, Begin(c) PROVE Typed'
  <2>1. PICK o \in Opcodes, T \in TargetSets :
           call' = [call EXCEPT ![c] = [id |-> calls + 1, op |-> o, targets |-> T]]
    BY <1>1 DEF Begin
  <2>2. /\ calls' = calls + 1 /\ calls' \in 0 .. MaxCalls
        /\ attempt' = [attempt EXCEPT ![c] = 1]
        /\ acked' = [acked EXCEPT ![c] = {}]
        /\ sure' = [sure EXCEPT ![c] = {}]
        /\ pc' = [pc EXCEPT ![c] = "build"]
        /\ UNCHANGED << got, registry, rx, inbox, rxq, answered, executed >>
    BY <1>1 DEF Begin
  <2>3. [id |-> calls + 1, op |-> o, targets |-> T] \in Calls
    BY <2>2 DEF Calls
  <2>4. call' \in [Callers -> Calls]
    BY <2>1, <2>3
  <2>5. /\ attempt' \in [Callers -> Attempts]
        /\ acked' \in [Callers -> SUBSET Devices]
        /\ sure' \in [Callers -> SUBSET Devices]
        /\ pc' \in [Callers -> {"idle", "build", "send", "wait", "exit", "read"}]
    BY <2>2 DEF Attempts
  <2>6. TypeOK'
    BY <2>2, <2>4, <2>5
  <2>7. \A b \in Callers : call[b].id \in Nat
    BY DEF Calls
  <2>8. ActiveCall' /\ CallNumbers'
    BY <2>1, <2>2, <2>7
  <2> QED BY <2>6, <2>8
<1>2. ASSUME NEW c \in Callers, Refuse(c) PROVE Typed'
  BY <1>2 DEF Refuse
<1>3. ASSUME NEW c \in Callers, Register(c) PROVE Typed'
  <2>1. Matcher(c) \in Matchers /\ Matcher(c).gw \in Gateways
    BY <1>3, MatcherFacts DEF Register
  <2>2. Append(registry[Matcher(c).gw], Matcher(c)) \in Seq(Matchers)
    BY <2>1, AppendProperties
  <2>3. registry' \in [Gateways -> Seq(Matchers)]
    BY <1>3, <2>2 DEF Register
  <2> QED BY <1>3, <2>3 DEF Register
<1>4. ASSUME NEW c \in Callers, SendFrame(c) PROVE Typed'
  <2>1. PICK R \in SUBSET call[c].targets :
           inbox' = inbox \cup [dev : R, op : {call[c].op}, id : {call[c].id},
                                attempt : {attempt[c]}]
    BY <1>4 DEF SendFrame
  <2>2. R \subseteq Devices /\ call[c].op \in Opcodes
    BY DEF Calls, TargetSets
  <2>3. call[c].id \in CallIds /\ attempt[c] \in Attempts
    BY <1>4 DEF SendFrame, CallIds
  <2>4. inbox' \subseteq Frames
    BY <2>1, <2>2, <2>3 DEF Frames
  <2> QED BY <1>4, <2>4 DEF SendFrame
<1>5. ASSUME NEW c \in Callers, WaitEnds(c) PROVE Typed'
  BY <1>5 DEF WaitEnds
<1>6. ASSUME NEW c \in Callers, Cancel(c) PROVE Typed'
  <2>1. Matcher(c).gw \in Gateways
    BY <1>6, MatcherFacts DEF Cancel
  <2>2. Without(registry[Matcher(c).gw], Matcher(c)) \in Seq(Matchers)
    BY <2>1, WithoutFacts
  <2>3. registry' \in [Gateways -> Seq(Matchers)]
    BY <1>6, <2>2 DEF Cancel
  <2> QED BY <1>6, <2>3 DEF Cancel
<1>7. ASSUME NEW c \in Callers, ReadReplies(c) PROVE Typed'
  <2>1. Answerers(got[c]) \subseteq Devices /\ Succeeded(got[c]) \subseteq Devices
    <3>1. \A i \in 1 .. Len(got[c]) : got[c][i] \in Replies
      BY ElementOfSeq
    <3> QED BY <3>1 DEF Answerers, Succeeded, Replies
  <2>2. acked' \in [Callers -> SUBSET Devices] /\ got' \in [Callers -> Seq(Replies)]
    BY <1>7, <2>1 DEF ReadReplies
  <2>7. sure' \in [Callers -> SUBSET Devices]
    BY <1>7, <2>1 DEF ReadReplies
  <2>3. attempt' \in [Callers -> Attempts]
    <3>1. attempt[c] # MaxAttempts => attempt[c] + 1 \in Attempts
      BY DEF Attempts
    <3> QED BY <1>7, <3>1 DEF ReadReplies
  <2>4. pc' \in [Callers -> {"idle", "build", "send", "wait", "exit", "read"}]
    BY <1>7 DEF ReadReplies
  <2>5. \A b \in Callers : pc'[b] # "idle" => pc[b] # "idle"
    BY <1>7 DEF ReadReplies
  <2>6. UNCHANGED << call, registry, rx, inbox, rxq, answered, executed, calls >>
    BY <1>7 DEF ReadReplies
  <2> QED BY <2>2, <2>3, <2>4, <2>5, <2>6, <2>7
<1>8. ASSUME NEW g \in Gateways, RxTake(g) PROVE Typed'
  <2>1. Head(rxq[g]) \in Replies /\ Tail(rxq[g]) \in Seq(Replies) /\ registry[g] \in Seq(Matchers)
    BY <1>8 DEF RxTake
  <2>2. [busy |-> TRUE, ev |-> Head(rxq[g]), cand |-> registry[g]] \in RxStates
    BY <2>1 DEF RxStates
  <2>3. rx' \in [Gateways -> RxStates] /\ rxq' \in [Gateways -> Seq(Replies)]
    BY <1>8, <2>1, <2>2 DEF RxTake
  <2> QED BY <1>8, <2>3 DEF RxTake, hostVars
<1>9. ASSUME NEW g \in Gateways, RxMatch(g) PROVE Typed'
  <2>1. PICK i \in 1 .. Len(rx[g].cand) :
           got' = IF Live(rx[g].cand[i])
                  THEN [got EXCEPT ![rx[g].cand[i].caller] = Append(@, rx[g].ev)] ELSE got
    BY <1>9 DEF RxMatch
  <2>2. rx[g].ev \in Replies /\ rx[g].cand[i] \in Matchers
    BY <1>9, RxFacts, ElementOfSeq DEF RxMatch
  <2>3. rx[g].cand[i].caller \in Callers
    BY <2>2 DEF Matchers
  <2>4. got' \in [Callers -> Seq(Replies)]
    BY <2>1, <2>2, <2>3
  <2>5. NoRx \in RxStates
    BY DEF RxStates
  <2>6. rx' \in [Gateways -> RxStates]
    BY <1>9, <2>5 DEF RxMatch
  <2> QED BY <1>9, <2>4, <2>6 DEF RxMatch
<1>10. ASSUME NEW g \in Gateways, RxUnmatched(g) PROVE Typed'
  <2>1. NoRx \in RxStates
    BY DEF RxStates
  <2> QED BY <1>10, <2>1 DEF RxUnmatched, hostVars
<1>11. ASSUME NEW f \in inbox, Answer(f) PROVE Typed'
  <2>1. f \in Frames
    OBVIOUS
  <2>2. \A g \in Gateways, ok \in BOOLEAN :
           [dev |-> f.dev, op |-> f.op, gw |-> g, ok |-> ok,
            id |-> f.id, attempt |-> f.attempt] \in Replies
    BY <2>1 DEF Frames, Replies
  <2>3. rxq' \in [Gateways -> Seq(Replies)]
    BY <1>11, <2>2 DEF Answer
  <2>4. /\ answered' \subseteq [dev : Devices, op : Opcodes] /\ inbox' \subseteq Frames
        /\ executed' \subseteq [dev : Devices, op : Opcodes]
    BY <1>11, <2>1 DEF Answer, Frames
  <2> QED BY <1>11, <2>3, <2>4 DEF Answer, hostVars
<1>12. CASE UNCHANGED vars
  BY <1>12 DEF vars
<1> QED
  BY <1>1, <1>2, <1>3, <1>4, <1>5, <1>6, <1>7, <1>8, <1>9, <1>10, <1>11, <1>12
     DEF Next, Caller, Rx

\* Every reachable state of the request/reply machinery is well typed.
THEOREM TypeCorrect == Spec => []TypeOK
<1>1. Typed => TypeOK
  BY DEF Typed
<1> QED BY <1>1, TypedInit, TypedStep, PTL DEF Spec

----------------------------------------------------------------------------
(* What is under way is true                                               *)

LEMMA RepliesStep == Typed /\ RepliesTrue /\ [Next]_vars => RepliesTrue'
<1> SUFFICES ASSUME Typed, RepliesTrue, [Next]_vars PROVE RepliesTrue'
  OBVIOUS
<1>0. rxq \in [Gateways -> Seq(Replies)] /\ rx \in [Gateways -> RxStates]
  BY DEF Typed, TypeOK
<1> USE DEF RepliesTrue, ReplyTrue
<1>1. ASSUME NEW g \in Gateways, RxTake(g) PROVE RepliesTrue'
  <2>1. /\ Head(rxq[g]) = rxq[g][1] /\ 1 \in 1 .. Len(rxq[g])
        /\ \A i \in 1 .. Len(Tail(rxq[g])) :
              i + 1 \in 1 .. Len(rxq[g]) /\ Tail(rxq[g])[i] = rxq[g][i + 1]
    BY <1>0, <1>1 DEF RxTake, hostVars
  <2>2. /\ rx'[g].ev = Head(rxq[g])
        /\ rxq'[g] = Tail(rxq[g])
        /\ \A h \in Gateways \ {g} : rx'[h] = rx[h] /\ rxq'[h] = rxq[h]
        /\ UNCHANGED << answered, executed >>
    BY <1>0, <1>1 DEF RxTake, hostVars
  <2>3. \A i \in 1 .. Len(rxq'[g]) : ReplyTrue(rxq'[g][i], g, answered', executed')
    BY <2>1, <2>2
  <2>4. ReplyTrue(rx'[g].ev, g, answered', executed')
    BY <2>1, <2>2
  <2>5. ASSUME NEW h \in Gateways
        PROVE  /\ \A i \in 1 .. Len(rxq'[h]) : ReplyTrue(rxq'[h][i], h, answered', executed')
               /\ rx'[h].busy => ReplyTrue(rx'[h].ev, h, answered', executed')
    <3>1. CASE h = g
      BY <2>3, <2>4, <3>1
    <3>2. CASE h # g
      BY <2>2, <3>2
    <3> QED BY <3>1, <3>2
  <2> HIDE DEF ReplyTrue
  <2> QED BY <2>5
<1>2. ASSUME NEW g \in Gateways, RxMatch(g) \/ RxUnmatched(g) PROVE RepliesTrue'
  <2>1. NoRx.busy = FALSE
    BY DEF NoRx
  <2> QED BY <1>0, <1>2, <2>1 DEF RxMatch, RxUnmatched, hostVars
<1>3. ASSUME NEW f \in inbox, Answer(f) PROVE RepliesTrue'
  <2>1. PICK ok \in BOOLEAN, H \in SUBSET Gateways :
          /\ executed' = IF ok THEN executed \cup {[dev |-> f.dev, op |-> f.op]} ELSE executed
          /\ rxq' = [g \in Gateways |->
                        IF g \in H
                        THEN Append(rxq[g], [dev |-> f.dev, op |-> f.op, gw |-> g, ok |-> ok,
                                             id |-> f.id, attempt |-> f.attempt])
                        ELSE rxq[g]]
    BY <1>3 DEF Answer
  <2>2. /\ executed \subseteq executed' /\ rx' = rx
        /\ ok => [dev |-> f.dev, op |-> f.op] \in executed'
        /\ answered' = answered \cup {[dev |-> f.dev, op |-> f.op]}
    BY <1>3, <2>1 DEF Answer
  <2>3. f \in Frames
    BY DEF Typed, TypeOK
  <2>4. ASSUME NEW g \in Gateways, NEW i \in 1 .. Len(rxq'[g]) PROVE ReplyTrue(rxq'[g][i], g, answered', executed')
    <3> DEFINE e == [dev |-> f.dev, op |-> f.op, gw |-> g, ok |-> ok,
                  id |-> f.id, attempt |-> f.attempt]
    <3>1. e \in Replies
      BY <2>3 DEF Frames, Replies
    <3>2. e.dev = f.dev /\ e.op = f.op /\ e.gw = g /\ e.ok = ok
      OBVIOUS
    <3> HIDE DEF e
    <3>3. rxq'[g] = rxq[g] \/ rxq'[g] = Append(rxq[g], e)
      BY <2>1 DEF e
    <3>4. rxq'[g][i] = e \/ (i \in 1 .. Len(rxq[g]) /\ rxq'[g][i] = rxq[g][i])
      <4>1. CASE rxq'[g] = rxq[g]
        BY <4>1
      <4>2. CASE rxq'[g] = Append(rxq[g], e)
        <5>1. rxq[g] \in Seq(Replies)
          BY <1>0
        <5>2. /\ Len(Append(rxq[g], e)) = Len(rxq[g]) + 1 /\ Len(rxq[g]) \in Nat
              /\ Append(rxq[g], e)[Len(rxq[g]) + 1] = e
              /\ \A j \in 1 .. Len(rxq[g]) : Append(rxq[g], e)[j] = rxq[g][j]
          BY <3>1, <5>1, AppendProperties, LenProperties
        <5>3. i = Len(rxq[g]) + 1 \/ i \in 1 .. Len(rxq[g])
          BY <4>2, <5>2
        <5> QED
          BY <4>2, <5>2, <5>3
      <4> QED
        BY <3>3, <4>1, <4>2
    <3> QED BY <2>2, <3>2, <3>4
  <2> QED BY <2>2, <2>4
<1>4. CASE UNCHANGED << rx, rxq, answered, executed >>
  BY <1>4
<1>5. (\E c \in Callers : Caller(c)) \/ UNCHANGED vars => UNCHANGED << rx, rxq, answered, executed >>
  BY DEF Caller, Begin, Refuse, Register, SendFrame, WaitEnds, Cancel, ReadReplies, vars
<1> QED BY <1>1, <1>2, <1>3, <1>4, <1>5 DEF Next, Rx

\* A matcher stays true: only a new call changes what its caller asks for,
\* and a new call has a number no matcher carries.
LEMMA MatcherStays ==
  ASSUME Typed, [Next]_vars, NEW m \in Matchers, MatcherTrue(m, call, calls)
  PROVE  MatcherTrue(m, call', calls')
<1> USE DEF MatcherTrue
<1>0. /\ m.id \in Nat /\ m.caller \in Callers /\ calls \in Nat
      /\ call \in [Callers -> Calls]
  BY BoundAssumption DEF Matchers, CallIds, Typed, TypeOK
<1>1. ASSUME NEW c \in Callers, Begin(c) PROVE MatcherTrue(m, call', calls')
  <2>1. calls' = calls + 1 /\ \E o \in Opcodes, T \in TargetSets :
           call' = [call EXCEPT ![c] = [id |-> calls + 1, op |-> o, targets |-> T]]
    BY <1>1 DEF Begin
  <2>2. m.caller = c => call'[m.caller].id = calls + 1
    BY <1>0, <2>1
  <2>3. m.caller # c => call'[m.caller] = call[m.caller]
    BY <1>0, <2>1
  <2> QED BY <1>0, <2>1, <2>2, <2>3
<1>2. CASE UNCHANGED << call, calls >>
  BY <1>2
<1>3. (\E c \in Callers : Begin(c)) \/ UNCHANGED << call, calls >>
  BY DEF Next, Caller, Rx, Refuse, Register, SendFrame, WaitEnds, Cancel, ReadReplies,
         RxTake, RxMatch, RxUnmatched, Answer, hostVars, vars
<1> QED BY <1>1, <1>2, <1>3

LEMMA MatchersStep == Typed /\ MatchersTrue /\ [Next]_vars => MatchersTrue'
<1> SUFFICES ASSUME Typed, MatchersTrue, [Next]_vars PROVE MatchersTrue'
  OBVIOUS
<1>0. /\ registry \in [Gateways -> Seq(Matchers)] /\ rx \in [Gateways -> RxStates]
      /\ TypeOK /\ ActiveCall
  BY DEF Typed, TypeOK
\* The matchers that stay stay true.
<1>1. \A g \in Gateways : \A i \in 1 .. Len(registry[g]) : MatcherTrue(registry[g][i], call', calls')
  BY <1>0, MatcherStays, ElementOfSeq DEF MatchersTrue
<1>2. ASSUME NEW g \in Gateways, rx[g].busy, NEW i \in 1 .. Len(rx[g].cand)
      PROVE  MatcherTrue(rx[g].cand[i], call', calls')
  <2>1. rx[g].cand[i] \in Matchers
    BY <1>0, <1>2, RxFacts, ElementOfSeq
  <2> QED BY <1>2, <2>1, MatcherStays DEF MatchersTrue
<1>3. ASSUME NEW g \in Gateways, NEW i \in 1 .. Len(registry'[g])
      PROVE  MatcherTrue(registry'[g][i], call', calls')
  <2>1. CASE registry' = registry
    <3>1. MatcherTrue(registry[g][i], call', calls')
      BY <1>1, <1>3, <2>1
    <3> QED BY <2>1, <3>1 DEF MatcherTrue
  <2>2. ASSUME NEW c \in Callers, Register(c) PROVE MatcherTrue(registry'[g][i], call', calls')
    <3>1. Matcher(c) \in Matchers /\ MatcherTrue(Matcher(c), call, calls)
      BY <1>0, <2>2, MatcherFacts DEF Register
    <3> DEFINE m == Matcher(c)
    <3> HIDE DEF m
    <3>2. registry'[g] = registry[g] \/ registry'[g] = Append(registry[g], m)
      BY <1>0, <2>2 DEF Register, m
    <3>3. registry'[g][i] = m \/ (i \in 1 .. Len(registry[g]) /\ registry'[g][i] = registry[g][i])
      BY <1>0, <1>3, <3>1, <3>2 DEF m
    <3>4. call' = call /\ calls' = calls
      BY <2>2 DEF Register
    <3>5. MatcherTrue(registry'[g][i], call, calls)
      BY <3>1, <3>3 DEF m, MatchersTrue
    <3> QED BY <3>4, <3>5 DEF MatcherTrue
  <2>3. ASSUME NEW c \in Callers, Cancel(c) PROVE MatcherTrue(registry'[g][i], call', calls')
    <3>1. registry'[g] = registry[g] \/ registry'[g] = Without(registry[g], Matcher(c))
      BY <1>0, <2>3 DEF Cancel
    <3>2. \E j \in 1 .. Len(registry[g]) : registry'[g][i] = registry[g][j]
      <4>1. CASE registry'[g] = registry[g]
        BY <1>3, <4>1
      <4>2. CASE registry'[g] = Without(registry[g], Matcher(c))
        <5>1. registry[g] \in Seq(Matchers)
          BY <1>0, <1>3
        <5>2. \A k \in 1 .. Len(Without(registry[g], Matcher(c))) :
                 \E j \in 1 .. Len(registry[g]) :
                     Without(registry[g], Matcher(c))[k] = registry[g][j]
          BY <5>1, WithoutFacts
        <5> QED BY <1>3, <4>2, <5>2
      <4> QED BY <3>1, <4>1, <4>2
    <3>3. call' = call /\ calls' = calls
      BY <2>3 DEF Cancel
    <3>4. MatcherTrue(registry'[g][i], call, calls)
      BY <3>2 DEF MatchersTrue
    <3> QED BY <3>3, <3>4 DEF MatcherTrue
  <2>4. \/ registry' = registry \/ \E c \in Callers : Register(c)
        \/ \E c \in Callers : Cancel(c)
    BY DEF Next, Caller, Rx, Begin, Refuse, SendFrame, WaitEnds, ReadReplies,
           RxTake, RxMatch, RxUnmatched, Answer, hostVars, vars
  <2> QED BY <2>1, <2>2, <2>3, <2>4
<1>4. ASSUME NEW g \in Gateways, rx'[g].busy, NEW i \in 1 .. Len(rx'[g].cand)
      PROVE  MatcherTrue(rx'[g].cand[i], call', calls')
  <2>1. CASE rx'[g] = rx[g]
    <3>1. MatcherTrue(rx[g].cand[i], call', calls')
      BY <1>2, <1>4, <2>1
    <3> QED BY <2>1, <3>1 DEF MatcherTrue
  <2>2. CASE RxTake(g)
    <3>1. rx'[g].cand = registry[g] /\ call' = call /\ calls' = calls
      BY <1>0, <2>2 DEF RxTake, hostVars
    <3>2. MatcherTrue(rx'[g].cand[i], call, calls)
      BY <1>4, <3>1 DEF MatchersTrue
    <3> QED BY <3>1, <3>2 DEF MatcherTrue
  <2>3. rx'[g] = rx[g] \/ RxTake(g)
    <3>1. ASSUME NEW h \in Gateways, Rx(h) PROVE rx'[g] = rx[g] \/ RxTake(g)
      <4>1. NoRx.busy = FALSE
        BY DEF NoRx
      <4> QED BY <1>0, <1>4, <3>1, <4>1 DEF Rx, RxTake, RxMatch, RxUnmatched
    <3> QED BY <3>1 DEF Next, Caller, Begin, Refuse, Register, SendFrame, WaitEnds, Cancel,
                        ReadReplies, Answer, vars
  <2> QED BY <2>1, <2>2, <2>3
<1> QED BY <1>3, <1>4 DEF MatchersTrue

----------------------------------------------------------------------------
(* What a call collects and counts                                         *)

LEMMA GotStep ==
  Typed /\ RepliesTrue /\ MatchersTrue /\ GotTrue /\ GotFresh /\ [Next]_vars
     => GotTrue' /\ GotFresh'
<1> SUFFICES ASSUME Typed, RepliesTrue, MatchersTrue, GotTrue, GotFresh, [Next]_vars
             PROVE  GotTrue' /\ GotFresh'
  OBVIOUS
<1>0. /\ got \in [Callers -> Seq(Replies)] /\ call \in [Callers -> Calls]
      /\ TypeOK
      /\ pc \in [Callers -> {"idle", "build", "send", "wait", "exit", "read"}]
  BY DEF Typed, TypeOK
<1>1. ASSUME NEW c \in Callers, Begin(c) PROVE GotTrue' /\ GotFresh'
  <2>1. got' = got /\ got[c] = << >> /\ UNCHANGED << answered, executed >> /\ pc' = [pc EXCEPT ![c] = "build"]
    BY <1>1 DEF Begin, GotFresh
  <2>2. \A b \in Callers \ {c} : call'[b] = call[b]
    BY <1>0, <1>1 DEF Begin
  <2>3. Len(got[c]) = 0
    BY <2>1
  <2>4. GotTrue'
    BY <2>1, <2>2, <2>3 DEF GotTrue
  <2>5. GotFresh'
    BY <1>0, <2>1 DEF GotFresh
  <2> QED BY <2>4, <2>5
<1>2. ASSUME NEW c \in Callers, ReadReplies(c) PROVE GotTrue' /\ GotFresh'
  <2>1. /\ got' = [got EXCEPT ![c] = << >>] /\ call' = call /\ UNCHANGED << answered, executed >>
        /\ \A b \in Callers \ {c} : pc'[b] = pc[b]
    BY <1>0, <1>2 DEF ReadReplies
  <2> QED BY <1>0, <2>1 DEF GotTrue, GotFresh
<1>3. ASSUME NEW g \in Gateways, RxMatch(g) PROVE GotTrue' /\ GotFresh'
  <2> DEFINE e == rx[g].ev
  <2>1. PICK i \in 1 .. Len(rx[g].cand) :
           /\ First(rx[g].cand, e, i)
           /\ got' = IF Live(rx[g].cand[i])
                     THEN [got EXCEPT ![rx[g].cand[i].caller] = Append(@, e)] ELSE got
    BY <1>3 DEF RxMatch
  <2> DEFINE m == rx[g].cand[i]
  <2>2. rx[g].busy /\ UNCHANGED << pc, call, answered, executed >>
    BY <1>3 DEF RxMatch
  <2>3. e \in Replies /\ m \in Matchers
    BY <1>0, <2>2, RxFacts, ElementOfSeq
  <2>4. Accepts(m, e) /\ ReplyTrue(e, g, answered, executed) /\ MatcherTrue(m, call, calls)
    BY <2>1, <2>2 DEF First, Hits, RepliesTrue, MatchersTrue
  <2>5. m.caller \in Callers
    BY <2>3 DEF Matchers
  <2> HIDE DEF e, m
  <2>6. CASE ~Live(m)
    BY <2>1, <2>2, <2>6 DEF m, GotTrue, GotFresh
  <2>7. CASE Live(m)
    <3>1. got' = [got EXCEPT ![m.caller] = Append(@, e)]
      BY <2>1, <2>7 DEF m, e
    <3>2. /\ e.dev \in call[m.caller].targets /\ e.op = call[m.caller].op
          /\ [dev |-> e.dev, op |-> e.op] \in answered /\ e.gw = GatewayOf[e.dev]
          /\ e.ok => [dev |-> e.dev, op |-> e.op] \in executed
      BY <2>4, <2>7 DEF Live, Accepts, ReplyTrue, MatcherTrue
    <3>3. ASSUME NEW c \in Callers, NEW j \in 1 .. Len(got'[c])
          PROVE  \/ got'[c][j] = e /\ c = m.caller
                 \/ j \in 1 .. Len(got[c]) /\ got'[c][j] = got[c][j]
      <4>1. got'[c] = got[c] \/ (c = m.caller /\ got'[c] = Append(got[c], e))
        BY <1>0, <2>5, <3>1
      <4>2. got[c] \in Seq(Replies)
        BY <1>0
      <4> QED BY <2>3, <3>3, <4>1, <4>2
    <3>4. GotTrue'
      BY <2>2, <3>2, <3>3 DEF GotTrue
    <3>5. pc[m.caller] \notin {"idle", "build"}
      BY <2>7 DEF Live
    <3>6. GotFresh'
      BY <1>0, <2>2, <2>5, <3>1, <3>5 DEF GotFresh
    <3> QED BY <3>4, <3>6
  <2> QED BY <2>6, <2>7
<1>4. CASE /\ UNCHANGED << got, call >> /\ answered \subseteq answered' /\ executed \subseteq executed'
           /\ \A c \in Callers : pc'[c] \in {"idle", "build"} => pc[c] \in {"idle", "build"}
  BY <1>4 DEF GotTrue, GotFresh
<1>5. ASSUME NEW c \in Callers, Caller(c), ~Begin(c), ~ReadReplies(c)
      PROVE  /\ UNCHANGED << got, call >> /\ answered \subseteq answered' /\ executed \subseteq executed'
             /\ \A b \in Callers : pc'[b] \in {"idle", "build"} => pc[b] \in {"idle", "build"}
  BY <1>0, <1>5 DEF Caller, Refuse, Register, SendFrame, WaitEnds, Cancel
<1>6. ASSUME NEW g \in Gateways, RxTake(g) \/ RxUnmatched(g) PROVE GotTrue' /\ GotFresh'
  BY <1>4, <1>6 DEF RxTake, RxUnmatched, hostVars
<1>7. ASSUME NEW f \in inbox, Answer(f) PROVE GotTrue' /\ GotFresh'
  BY <1>4, <1>7 DEF Answer, hostVars
<1>8. CASE UNCHANGED vars
  BY <1>4, <1>8 DEF vars
<1> QED BY <1>1, <1>2, <1>3, <1>4, <1>5, <1>6, <1>7, <1>8 DEF Next, Rx

LEMMA SuccessStep ==
  Typed /\ GotTrue /\ SuccessIsTrue /\ [Next]_vars => SuccessIsTrue'
<1> SUFFICES ASSUME Typed, GotTrue, SuccessIsTrue, [Next]_vars PROVE SuccessIsTrue'
  OBVIOUS
<1>0. /\ acked \in [Callers -> SUBSET Devices] /\ call \in [Callers -> Calls]
      /\ sure \in [Callers -> SUBSET Devices]
  BY DEF Typed, TypeOK
<1>1. ASSUME NEW c \in Callers, Begin(c) PROVE SuccessIsTrue'
  <2>1. /\ acked' = [acked EXCEPT ![c] = {}] /\ sure' = [sure EXCEPT ![c] = {}]
        /\ UNCHANGED << answered, executed >>
        /\ \A b \in Callers \ {c} : call'[b] = call[b]
    BY <1>0, <1>1 DEF Begin
  <2> QED BY <1>0, <2>1 DEF SuccessIsTrue
<1>2. ASSUME NEW c \in Callers, ReadReplies(c) PROVE SuccessIsTrue'
  <2>1. /\ acked' = [acked EXCEPT ![c] = @ \cup Answerers(got[c])]
        /\ UNCHANGED << answered, executed >> /\ call' = call
        /\ \A b \in Callers \ {c} : sure'[b] = sure[b]
        /\ sure'[c] \subseteq Succeeded(got[c])
    BY <1>0, <1>2 DEF ReadReplies
  <2>2. \A d \in Answerers(got[c]) :
           d \in call[c].targets /\ [dev |-> d, op |-> call[c].op] \in answered
    BY DEF GotTrue, Answerers
  <2>3. \A d \in Succeeded(got[c]) :
           d \in Answerers(got[c]) /\ [dev |-> d, op |-> call[c].op] \in executed
    BY DEF GotTrue, Answerers, Succeeded
  <2> QED BY <1>0, <2>1, <2>2, <2>3 DEF SuccessIsTrue
<1>3. CASE /\ UNCHANGED << acked, sure, call >>
           /\ answered \subseteq answered' /\ executed \subseteq executed'
  BY <1>3 DEF SuccessIsTrue
<1>4. \/ \E c \in Callers : Begin(c) \/ ReadReplies(c)
      \/ /\ UNCHANGED << acked, sure, call >>
         /\ answered \subseteq answered' /\ executed \subseteq executed'
  BY DEF Next, Caller, Rx, Refuse, Register, SendFrame, WaitEnds, Cancel, RxTake, RxMatch,
         RxUnmatched, Answer, hostVars, vars
<1> QED BY <1>1, <1>2, <1>3, <1>4

LEMMA IInvInit == Init => IInv
<1> SUFFICES ASSUME Init PROVE IInv
  OBVIOUS
<1>1. TypeOK /\ ActiveCall /\ CallNumbers
  BY TypedInit DEF Typed
<1>2. NoRx.busy = FALSE
  BY DEF NoRx
<1>3. RepliesTrue /\ MatchersTrue
  BY <1>2 DEF Init, RepliesTrue, MatchersTrue
<1>4. GotTrue /\ GotFresh /\ SuccessIsTrue
  BY DEF Init, GotTrue, GotFresh, SuccessIsTrue
<1> QED BY <1>1, <1>3, <1>4 DEF IInv

LEMMA IInvStep == IInv /\ [Next]_vars => IInv'
  BY TypedStep, RepliesStep, MatchersStep, GotStep, SuccessStep DEF IInv, Typed

\* A reply names no request and any ACK counts, a refusal too; all the same,
\* send_and_wait_with_retries and send_stream only count devices that have
\* answered their opcode, and a caller that reads the status of the last reply
\* is never told of a success that was not.
THEOREM SuccessCorrect == Spec => []SuccessIsTrue
<1>1. Spec => []IInv
  BY IInvInit, IInvStep, PTL DEF Spec
<1>2. IInv => SuccessIsTrue
  BY DEF IInv
<1> QED BY <1>1, <1>2, PTL

\* No call is ever satisfied by a reply that a sibling gateway overheard.
THEOREM GatewaysIsolated == Spec => []CollectedOnHomeRadio
<1>1. Spec => []IInv
  BY IInvInit, IInvStep, PTL DEF Spec
<1>2. IInv => CollectedOnHomeRadio
  BY DEF IInv, GotTrue, CollectedOnHomeRadio
<1> QED BY <1>1, <1>2, PTL

----------------------------------------------------------------------------
(* The promise of a blocking request                                       *)

\* In its first round a call has counted nothing.
FirstRound == \A c \in Callers : pc[c] # "idle" /\ attempt[c] = 1 => acked[c] = {}

LEMMA FirstRoundStep == Typed /\ FirstRound /\ [Next]_vars => FirstRound'
<1> SUFFICES ASSUME Typed, FirstRound, [Next]_vars PROVE FirstRound'
  OBVIOUS
<1>0. /\ acked \in [Callers -> SUBSET Devices] /\ attempt \in [Callers -> Attempts]
      /\ pc \in [Callers -> {"idle", "build", "send", "wait", "exit", "read"}]
  BY DEF Typed, TypeOK
<1>1. ASSUME NEW c \in Callers, Begin(c) PROVE FirstRound'
  BY <1>0, <1>1 DEF Begin, FirstRound
<1>2. ASSUME NEW c \in Callers, ReadReplies(c) PROVE FirstRound'
  <2>1. attempt[c] \in Nat /\ attempt[c] # 0
    BY <1>0, BoundAssumption DEF Attempts
  <2>2. pc'[c] = "idle" \/ attempt'[c] = attempt[c] + 1
    BY <1>0, <1>2 DEF ReadReplies
  <2>3. \A b \in Callers \ {c} :
           pc'[b] = pc[b] /\ attempt'[b] = attempt[b] /\ acked'[b] = acked[b]
    BY <1>0, <1>2 DEF ReadReplies
  <2> QED BY <2>1, <2>2, <2>3 DEF FirstRound
<1>3. ASSUME UNCHANGED << acked, attempt >>,
             \A c \in Callers : pc'[c] # "idle" => pc[c] # "idle"
      PROVE  FirstRound'
  BY <1>3 DEF FirstRound
<1>4. ASSUME NEW c \in Callers, Caller(c), ~Begin(c), ~ReadReplies(c) PROVE FirstRound'
  BY <1>0, <1>3, <1>4 DEF Caller, Refuse, Register, SendFrame, WaitEnds, Cancel
<1>5. CASE UNCHANGED << acked, attempt, pc >>
  BY <1>3, <1>5
<1> QED BY <1>1, <1>2, <1>4, <1>5 DEF Next, Caller, Rx, RxTake, RxMatch, RxUnmatched, Answer,
                                      hostVars, vars

\* The initial states are initial states of the promise.
LEMMA PromiseInit == Init => Promise!Init
<1> SUFFICES ASSUME Init PROVE Promise!Init
  OBVIOUS
<1>1. NoCall \in Calls
  BY BoundAssumption, OpcodesAssumption DEF NoCall, Calls
<1> QED BY <1>1 DEF Init, Promise!Init

\* Every step of the detailed system is a step of the promise or leaves it
\* alone.
LEMMA PromiseStep == IInv /\ FirstRound /\ [Next]_vars => [Promise!Next]_(Promise!vars)
<1> SUFFICES ASSUME IInv, FirstRound, [Next]_vars PROVE [Promise!Next]_(Promise!vars)
  OBVIOUS
<1> DEFINE st == [c \in Callers |-> IF pc[c] = "idle" THEN "closed" ELSE "open"]
<1>0. /\ acked \in [Callers -> SUBSET Devices] /\ attempt \in [Callers -> Attempts]
      /\ pc \in [Callers -> {"idle", "build", "send", "wait", "exit", "read"}]
      /\ call \in [Callers -> Calls] /\ inbox \subseteq Frames
      /\ sure \in [Callers -> SUBSET Devices]
  BY DEF IInv, TypeOK
<1>1. ASSUME NEW c \in Callers, Begin(c) PROVE Promise!Request(c)
  <2>1. PICK o \in Opcodes, T \in TargetSets :
           call' = [call EXCEPT ![c] = [id |-> calls + 1, op |-> o, targets |-> T]]
    BY <1>1 DEF Begin
  <2>2. /\ pc[c] = "idle" /\ pc' = [pc EXCEPT ![c] = "build"]
        /\ UNCHANGED << answered, executed >> /\ sure' = [sure EXCEPT ![c] = {}]
        /\ acked' = [acked EXCEPT ![c] = {}] /\ attempt' = [attempt EXCEPT ![c] = 1]
    BY <1>1 DEF Begin
  <2>3. st[c] = "closed" /\ st' = [st EXCEPT ![c] = "open"]
    BY <1>0, <2>2
  <2> DEFINE a == [id |-> calls + 1, op |-> o, targets |-> T]
  <2>4. a \in Calls /\ a.targets # {}
    <3>1. calls \in 0 .. MaxCalls /\ calls < MaxCalls
      BY <1>1 DEF Begin, IInv, TypeOK
    <3> QED BY <3>1, BoundAssumption DEF Calls, TargetSets
  <2> QED BY <2>1, <2>2, <2>3, <2>4 DEF Promise!Request
<1>2. ASSUME NEW c \in Callers, Refuse(c) PROVE Promise!Refuse(c)
  <2>1. /\ pc[c] = "build" /\ attempt[c] = 1 /\ pc' = [pc EXCEPT ![c] = "idle"]
        /\ UNCHANGED << call, acked, sure, attempt, answered, executed >>
    BY <1>2 DEF Refuse
  <2>2. st[c] = "open" /\ st' = [st EXCEPT ![c] = "closed"]
    BY <1>0, <2>1
  <2>3. acked[c] = {}
    BY <2>1 DEF FirstRound
  <2> QED BY <2>1, <2>2, <2>3 DEF Promise!Refuse
<1>3. ASSUME NEW c \in Callers, ReadReplies(c) PROVE Promise!Round(c)
  <2> DEFINE S == Answerers(got[c])
             T == IF Cardinality(call[c].targets) = 1 THEN Succeeded(got[c]) ELSE {}
  <2>1. /\ pc[c] = "read" /\ acked' = [acked EXCEPT ![c] = @ \cup S]
        /\ sure' = [sure EXCEPT ![c] = T]
        /\ UNCHANGED << call, answered, executed >>
    BY <1>3 DEF ReadReplies
  <2>2. /\ call[c].targets \subseteq acked[c] \cup S \/ attempt[c] = MaxAttempts
             => pc' = [pc EXCEPT ![c] = "idle"] /\ attempt' = attempt
        /\ ~(call[c].targets \subseteq acked[c] \cup S \/ attempt[c] = MaxAttempts)
             => pc' = [pc EXCEPT ![c] = "build"] /\ attempt' = [attempt EXCEPT ![c] = @ + 1]
    BY <1>3 DEF ReadReplies
  <2>3. S \in SUBSET Promise!Among(c, answered)
    <3>1. \A d \in S : d \in call[c].targets /\ [dev |-> d, op |-> call[c].op] \in answered
      BY DEF IInv, GotTrue, Answerers
    <3> QED BY <3>1 DEF Promise!Among
  <2>8. T \in SUBSET (S \cap Promise!Among(c, executed))
    <3>1. \A d \in T : /\ d \in S /\ d \in call[c].targets
                      /\ [dev |-> d, op |-> call[c].op] \in executed
      BY DEF IInv, GotTrue, Answerers, Succeeded
    <3> QED BY <3>1 DEF Promise!Among
  <2> HIDE DEF S, T
  <2>4. acked'[c] = acked[c] \cup S
    BY <1>0, <2>1
  <2>5. st[c] = "open"
    BY <2>1
  <2>6. CASE call[c].targets \subseteq acked[c] \cup S \/ attempt[c] = MaxAttempts
    <3>1. st' = [st EXCEPT ![c] = "closed"]
      BY <1>0, <2>2, <2>6
    <3> QED BY <2>1, <2>2, <2>3, <2>4, <2>5, <2>6, <2>8, <3>1 DEF Promise!Round
  <2>7. CASE ~(call[c].targets \subseteq acked[c] \cup S \/ attempt[c] = MaxAttempts)
    <3>1. st' = st
      BY <1>0, <2>1, <2>2, <2>7
    <3> QED BY <2>1, <2>2, <2>3, <2>4, <2>5, <2>7, <2>8, <3>1 DEF Promise!Round
  <2> QED BY <2>6, <2>7
<1>4. ASSUME NEW f \in inbox, Answer(f) PROVE Promise!Answer
  <2>1. /\ answered' = answered \cup {[dev |-> f.dev, op |-> f.op]}
        /\ executed' \in {executed, executed \cup {[dev |-> f.dev, op |-> f.op]}}
        /\ UNCHANGED << pc, call, acked, sure, attempt >>
    BY <1>4 DEF Answer, hostVars
  <2>2. f.dev \in Devices /\ f.op \in Opcodes
    BY <1>0 DEF Frames
  <2> QED BY <2>1, <2>2 DEF Promise!Answer
<1>5. ASSUME UNCHANGED << call, acked, sure, attempt, answered, executed >>,
             \A c \in Callers : pc'[c] = "idle" <=> pc[c] = "idle"
      PROVE  UNCHANGED Promise!vars
  BY <1>5 DEF Promise!vars
<1>6. ASSUME NEW c \in Callers, Register(c) \/ SendFrame(c) \/ WaitEnds(c) \/ Cancel(c)
      PROVE  UNCHANGED Promise!vars
  BY <1>0, <1>5, <1>6 DEF Register, SendFrame, WaitEnds, Cancel
<1>7. ASSUME NEW g \in Gateways, Rx(g) PROVE UNCHANGED Promise!vars
  BY <1>5, <1>7 DEF Rx, RxTake, RxMatch, RxUnmatched, hostVars
<1>8. CASE UNCHANGED vars
  BY <1>5, <1>8 DEF vars
<1> QED BY <1>1, <1>2, <1>3, <1>4, <1>6, <1>7, <1>8 DEF Next, Caller, Promise!Next

\* The matchers, registries and RX threads implement the promise of a
\* blocking request, for any callers, devices, gateways and radio.
THEOREM Refinement == Spec => PromiseKept
<1> DEFINE RInv == IInv /\ FirstRound
<1>1. Init => RInv
  BY IInvInit DEF Init, FirstRound
<1>2. RInv /\ [Next]_vars => RInv'
  BY IInvStep, FirstRoundStep DEF IInv, Typed
<1>3. RInv /\ [Next]_vars => [Promise!Next]_(Promise!vars)
  BY PromiseStep
<1> QED BY <1>1, <1>2, <1>3, PromiseInit, PTL DEF Spec, PromiseKept, Promise!Spec

----------------------------------------------------------------------------
(* What a registry holds                                                   *)

\* A matcher m is the one the call k waits with in its n-th attempt, when it
\* has counted the devices in s.
IsFor(m, k, n, s) ==
    /\ m.id = k.id /\ m.op = k.op /\ m.attempt = n /\ m.senders = k.targets \ s
    /\ \A d \in k.targets : GatewayOf[d] = m.gw

\* A matcher in a registry is the one its caller waits with, it is there once,
\* and every caller between register and cancel has one.
Waiting == {"send", "wait", "exit"}
OnlyWaiters == \A g \in Gateways : \A i \in 1 .. Len(registry[g]) :
    /\ registry[g][i].gw = g
    /\ pc[registry[g][i].caller] \in Waiting
    /\ IsFor(registry[g][i], call[registry[g][i].caller], attempt[registry[g][i].caller],
             acked[registry[g][i].caller])
OnceEach == \A g \in Gateways : \A i, j \in 1 .. Len(registry[g]) :
    registry[g][i].caller = registry[g][j].caller => i = j
AllWaiters == \A c \in Callers : pc[c] \in Waiting =>
    \E g \in Gateways : \E i \in 1 .. Len(registry[g]) : registry[g][i].caller = c
RegistryExact == OnlyWaiters /\ OnceEach /\ AllWaiters

\* Such a matcher is the one Matcher builds.
LEMMA TheMatcher ==
  ASSUME TypeOK, ActiveCall, NEW c \in Callers, pc[c] # "idle",
         NEW m \in Matchers, m.caller = c
  PROVE  IsFor(m, call[c], attempt[c], acked[c]) <=> m = Matcher(c)
<1>1. call[c].targets \in TargetSets
  BY DEF ActiveCall
<1>2. GatewayOfCall(c) \in Gateways /\ \A d \in call[c].targets : GatewayOf[d] = GatewayOfCall(c)
  BY <1>1, CallGateway
<1>3. \E d \in call[c].targets : TRUE
  BY <1>1 DEF TargetSets
<1> QED BY <1>2, <1>3 DEF IsFor, Matcher, Matchers

\* Removing a matcher that occurs keeps every other place of the sequence, once.
LEMMA WithoutPlaces ==
  ASSUME NEW S, NEW q \in Seq(S), NEW k \in 1 .. Len(q), \A i \in 1 .. Len(q) : q[i] = q[k] => i = k
  PROVE  /\ \A i \in 1 .. Len(q) \ {k} : \E j \in 1 .. Len(Without(q, q[k])) : Without(q, q[k])[j] = q[i]
         /\ \A i \in 1 .. Len(Without(q, q[k])) : \E n \in 1 .. Len(q) \ {k} :
               /\ Without(q, q[k])[i] = q[n] /\ n = IF i < k THEN i ELSE i + 1
<1> DEFINE n == Len(q) - 1
           w == [j \in 1 .. n |-> IF j < k THEN q[j] ELSE q[j + 1]]
<1>1. Len(q) \in Nat /\ n \in Nat /\ k \in Nat /\ \A i \in 1 .. Len(q) : q[i] \in S
  BY ElementOfSeq, LenProperties
<1>2. Without(q, q[k]) = w
  <2>1. (CHOOSE i \in 1 .. Len(q) : q[i] = q[k]) = k
    OBVIOUS
  <2> QED BY <2>1 DEF Without
<1>3. w \in Seq(S) /\ Len(w) = n
  <2>1. w \in [1 .. n -> S]
    BY <1>1
  <2> QED BY <1>1, <2>1
<1>4. ASSUME NEW i \in 1 .. Len(q), i # k PROVE \E j \in 1 .. n : w[j] = q[i]
  <2>1. CASE i < k
    <3>1. i \in 1 .. n /\ w[i] = q[i]
      BY <1>1, <2>1
    <3> QED BY <3>1
  <2>2. CASE ~(i < k)
    <3>1. i - 1 \in 1 .. n /\ ~(i - 1 < k) /\ (i - 1) + 1 = i
      BY <1>1, <1>4, <2>2
    <3>2. w[i - 1] = q[i]
      BY <3>1
    <3> QED BY <3>1, <3>2
  <2> QED BY <2>1, <2>2
<1>5. ASSUME NEW i \in 1 .. n
      PROVE  \E m \in 1 .. Len(q) \ {k} : w[i] = q[m] /\ m = IF i < k THEN i ELSE i + 1
  <2>1. i \in 1 .. Len(q) /\ i + 1 \in 1 .. Len(q)
    BY <1>1
  <2>2. CASE i < k
    BY <2>1, <2>2
  <2>3. CASE ~(i < k)
    <3>1. i + 1 # k
      BY <1>1, <2>3
    <3> QED BY <2>1, <2>3, <3>1
  <2> QED BY <2>2, <2>3
<1> HIDE DEF w
<1> QED BY <1>2, <1>3, <1>4, <1>5

\* The registry part of the invariant survives a step that leaves the
\* registries and what the waiting callers ask for alone.
LEMMA RegistryKept ==
  ASSUME Typed, RegistryExact, registry' = registry,
         \A c \in Callers : pc'[c] \in Waiting <=> pc[c] \in Waiting,
         \A c \in Callers : pc[c] \in Waiting =>
             call'[c] = call[c] /\ attempt'[c] = attempt[c] /\ acked'[c] = acked[c]
  PROVE  RegistryExact'
<1>1. \A g \in Gateways : \A i \in 1 .. Len(registry[g]) : registry[g][i].caller \in Callers
  <2> SUFFICES ASSUME NEW g \in Gateways, NEW i \in 1 .. Len(registry[g])
               PROVE  registry[g][i].caller \in Callers
    OBVIOUS
  <2>1. registry[g][i] \in Matchers
    BY ElementOfSeq DEF Typed, TypeOK
  <2> QED BY <2>1 DEF Matchers
<1>2. OnlyWaiters'
  <2> SUFFICES ASSUME NEW g \in Gateways, NEW i \in 1 .. Len(registry[g])
               PROVE  /\ registry[g][i].gw = g
                      /\ pc'[registry[g][i].caller] \in Waiting
                      /\ IsFor(registry[g][i], call'[registry[g][i].caller],
                               attempt'[registry[g][i].caller], acked'[registry[g][i].caller])
    BY DEF OnlyWaiters, IsFor
  <2> QED BY <1>1 DEF RegistryExact, OnlyWaiters
<1>3. OnceEach' /\ AllWaiters'
  BY DEF RegistryExact, OnceEach, AllWaiters
<1> QED BY <1>2, <1>3 DEF RegistryExact

LEMMA RegistryStep == Typed /\ RegistryExact /\ [Next]_vars => RegistryExact'
<1> SUFFICES ASSUME Typed, RegistryExact, [Next]_vars PROVE RegistryExact'
  OBVIOUS
<1>0. /\ registry \in [Gateways -> Seq(Matchers)] /\ TypeOK /\ ActiveCall
      /\ pc \in [Callers -> {"idle", "build", "send", "wait", "exit", "read"}]
      /\ call \in [Callers -> Calls] /\ attempt \in [Callers -> Attempts]
      /\ acked \in [Callers -> SUBSET Devices]
  BY DEF Typed, TypeOK
<1>1. ASSUME NEW c \in Callers, Begin(c) \/ Refuse(c) \/ SendFrame(c) \/ WaitEnds(c) \/ ReadReplies(c)
      PROVE  RegistryExact'
  <2>1. registry' = registry
    BY <1>1 DEF Begin, Refuse, SendFrame, WaitEnds, ReadReplies
  <2>2. \A b \in Callers : pc'[b] \in Waiting <=> pc[b] \in Waiting
    BY <1>0, <1>1 DEF Begin, Refuse, SendFrame, WaitEnds, ReadReplies, Waiting
  <2>3. \A b \in Callers : pc[b] \in Waiting =>
             call'[b] = call[b] /\ attempt'[b] = attempt[b] /\ acked'[b] = acked[b]
    BY <1>0, <1>1 DEF Begin, Refuse, SendFrame, WaitEnds, ReadReplies, Waiting
  <2> QED BY <2>1, <2>2, <2>3, RegistryKept
<1>2. CASE UNCHANGED << registry, pc, call, attempt, acked >>
  BY <1>2, RegistryKept
<1>3. ASSUME NEW g \in Gateways, Rx(g) PROVE RegistryExact'
  BY <1>2, <1>3 DEF Rx, RxTake, RxMatch, RxUnmatched, hostVars
<1>4. ASSUME NEW f \in inbox, Answer(f) PROVE RegistryExact'
  BY <1>2, <1>4 DEF Answer, hostVars
<1>5. ASSUME NEW c \in Callers, Register(c) PROVE RegistryExact'
  <2> DEFINE m == Matcher(c)
             h == m.gw
  <2>1. /\ pc[c] = "build" /\ pc' = [pc EXCEPT ![c] = "send"]
        /\ registry' = [registry EXCEPT ![h] = Append(registry[h], m)]
        /\ UNCHANGED << call, attempt, acked >>
    BY <1>5 DEF Register
  <2>2. m \in Matchers /\ h \in Gateways
    BY <1>0, <2>1, MatcherFacts
  <2>3. m.caller = c /\ IsFor(m, call[c], attempt[c], acked[c])
    <3>1. m.caller = c
      BY DEF Matcher
    <3> QED BY <1>0, <2>1, <2>2, <3>1, TheMatcher
  <2> HIDE DEF m
  <2>4. ASSUME NEW g \in Gateways, NEW i \in 1 .. Len(registry'[g])
        PROVE  \/ registry'[g][i] = m /\ g = h /\ i = Len(registry[g]) + 1
               \/ i \in 1 .. Len(registry[g]) /\ registry'[g][i] = registry[g][i]
    BY <1>0, <2>1, <2>2, <2>4
  <2>5. ASSUME NEW g \in Gateways, NEW i \in 1 .. Len(registry[g])
        PROVE  i \in 1 .. Len(registry'[g]) /\ registry'[g][i] = registry[g][i]
    BY <1>0, <2>1, <2>2, <2>5
  <2>6. \A g \in Gateways : \A i \in 1 .. Len(registry[g]) :
            registry[g][i].caller \in Callers /\ registry[g][i].caller # c
    <3> SUFFICES ASSUME NEW g \in Gateways, NEW i \in 1 .. Len(registry[g])
                 PROVE  registry[g][i].caller \in Callers /\ registry[g][i].caller # c
      OBVIOUS
    <3>1. registry[g][i] \in Matchers
      BY <1>0, ElementOfSeq
    <3> QED BY <2>1, <3>1 DEF Matchers, RegistryExact, OnlyWaiters, Waiting
  <2>7. OnlyWaiters'
    <3>0. call' = call /\ attempt' = attempt /\ acked' = acked
      BY <2>1
    <3> SUFFICES ASSUME NEW g \in Gateways, NEW i \in 1 .. Len(registry'[g])
                 PROVE  /\ registry'[g][i].gw = g
                        /\ pc'[registry'[g][i].caller] \in Waiting
                        /\ IsFor(registry'[g][i], call[registry'[g][i].caller],
                                 attempt[registry'[g][i].caller], acked[registry'[g][i].caller])
      BY <3>0 DEF OnlyWaiters, IsFor
    <3>1. CASE registry'[g][i] = m /\ g = h
      BY <1>0, <2>1, <2>3, <3>1 DEF Waiting
    <3>2. CASE i \in 1 .. Len(registry[g]) /\ registry'[g][i] = registry[g][i]
      BY <1>0, <2>1, <2>6, <3>2 DEF RegistryExact, OnlyWaiters
    <3> QED BY <2>4, <3>1, <3>2
  <2>8. OnceEach'
    <3> SUFFICES ASSUME NEW g \in Gateways, NEW i \in 1 .. Len(registry'[g]),
                        NEW j \in 1 .. Len(registry'[g]),
                        registry'[g][i].caller = registry'[g][j].caller
                 PROVE  i = j
      BY DEF OnceEach
    <3>1. \/ registry'[g][i] = m /\ g = h /\ i = Len(registry[g]) + 1
          \/ i \in 1 .. Len(registry[g]) /\ registry'[g][i] = registry[g][i]
      BY <2>4
    <3>2. \/ registry'[g][j] = m /\ g = h /\ j = Len(registry[g]) + 1
          \/ j \in 1 .. Len(registry[g]) /\ registry'[g][j] = registry[g][j]
      BY <2>4
    <3> QED BY <2>3, <2>6, <3>1, <3>2 DEF RegistryExact, OnceEach
  <2>9. AllWaiters'
    <3> SUFFICES ASSUME NEW b \in Callers, pc'[b] \in Waiting
                 PROVE  \E g \in Gateways : \E i \in 1 .. Len(registry'[g]) : registry'[g][i].caller = b
      BY DEF AllWaiters
    <3>1. CASE b = c
      <4>1. Len(registry[h]) + 1 \in 1 .. Len(registry'[h]) /\ registry'[h][Len(registry[h]) + 1] = m
        BY <1>0, <2>1, <2>2
      <4> QED BY <2>2, <2>3, <3>1, <4>1
    <3>2. CASE b # c
      <4>1. pc[b] \in Waiting
        BY <1>0, <2>1, <3>2
      <4>2. PICK g \in Gateways : \E i \in 1 .. Len(registry[g]) : registry[g][i].caller = b
        BY <4>1 DEF RegistryExact, AllWaiters
      <4> QED BY <2>5, <4>2
    <3> QED BY <3>1, <3>2
  <2> QED BY <2>7, <2>8, <2>9 DEF RegistryExact
<1>6. ASSUME NEW c \in Callers, Cancel(c) PROVE RegistryExact'
  <2> DEFINE m == Matcher(c)
             h == m.gw
  <2>1. /\ pc[c] = "exit" /\ pc' = [pc EXCEPT ![c] = "read"]
        /\ registry' = [registry EXCEPT ![h] = Without(registry[h], m)]
        /\ UNCHANGED << call, attempt, acked >>
    BY <1>6 DEF Cancel
  <2>2. m \in Matchers /\ h \in Gateways /\ m.caller = c
    BY <1>0, <2>1, MatcherFacts DEF Matcher
  <2>3. ASSUME NEW g \in Gateways, NEW i \in 1 .. Len(registry[g])
        PROVE  registry[g][i] \in Matchers /\ registry[g][i].caller \in Callers
    <3>1. registry[g][i] \in Matchers
      BY <1>0, <2>3, ElementOfSeq
    <3> QED BY <3>1 DEF Matchers
  \* The only matcher of the caller is the one it cancels.
  <2>4. ASSUME NEW g \in Gateways, NEW i \in 1 .. Len(registry[g]), registry[g][i].caller = c
        PROVE  g = h /\ registry[g][i] = m
    <3>1. registry[g][i].gw = g /\ IsFor(registry[g][i], call[c], attempt[c], acked[c])
      BY <2>4 DEF RegistryExact, OnlyWaiters
    <3>2. registry[g][i] \in Matchers
      BY <2>3
    <3>3. registry[g][i] = m
      BY <1>0, <2>1, <2>4, <3>1, <3>2, TheMatcher
    <3> QED BY <3>1, <3>3
  <2>5. PICK k \in 1 .. Len(registry[h]) : registry[h][k] = m
    <3>1. PICK g \in Gateways : \E i \in 1 .. Len(registry[g]) : registry[g][i].caller = c
      BY <2>1 DEF RegistryExact, AllWaiters, Waiting
    <3> QED BY <2>4, <3>1
  <2> HIDE DEF m
  <2> DEFINE q == registry[h]
             w == Without(q, m)
  <2>6. q \in Seq(Matchers) /\ \A i \in 1 .. Len(q) : q[i] = q[k] => i = k
    BY <1>0, <2>2, <2>5 DEF RegistryExact, OnceEach
  <2>7. /\ \A i \in 1 .. Len(q) \ {k} : \E j \in 1 .. Len(w) : w[j] = q[i]
        /\ \A i \in 1 .. Len(w) : \E n \in 1 .. Len(q) \ {k} :
              w[i] = q[n] /\ n = IF i < k THEN i ELSE i + 1
    <3>1. k \in 1 .. Len(q) /\ m = q[k]
      BY <2>5
    <3> HIDE DEF q
    <3>2. /\ \A i \in 1 .. Len(q) \ {k} : \E j \in 1 .. Len(Without(q, q[k])) : Without(q, q[k])[j] = q[i]
          /\ \A i \in 1 .. Len(Without(q, q[k])) : \E n \in 1 .. Len(q) \ {k} :
                Without(q, q[k])[i] = q[n] /\ n = IF i < k THEN i ELSE i + 1
      BY <2>6, <3>1, WithoutPlaces
    <3> QED BY <3>1, <3>2
  <2>8. registry'[h] = w /\ \A g \in Gateways \ {h} : registry'[g] = registry[g]
    BY <1>0, <2>1, <2>2
  <2> HIDE DEF w
  \* Every place that is left held the matcher of another caller before.
  <2>9. ASSUME NEW g \in Gateways, NEW i \in 1 .. Len(registry'[g])
        PROVE  \E n \in 1 .. Len(registry[g]) :
                  /\ registry'[g][i] = registry[g][n] /\ registry[g][n].caller # c
                  /\ n = IF g = h /\ ~(i < k) THEN i + 1 ELSE i
    <3>1. CASE g = h
      <4>1. PICK n \in 1 .. Len(q) \ {k} : w[i] = q[n] /\ n = IF i < k THEN i ELSE i + 1
        BY <2>7, <2>8, <2>9, <3>1
      <4>2. q[n].caller # c
        BY <2>2, <2>5, <4>1 DEF RegistryExact, OnceEach
      <4> QED BY <2>8, <3>1, <4>1, <4>2
    <3>2. CASE g # h
      BY <2>4, <2>8, <2>9, <3>2
    <3> QED BY <3>1, <3>2
  <2>10. OnlyWaiters'
    <3>0. call' = call /\ attempt' = attempt /\ acked' = acked
      BY <2>1
    <3> SUFFICES ASSUME NEW g \in Gateways, NEW i \in 1 .. Len(registry'[g])
                 PROVE  /\ registry'[g][i].gw = g
                        /\ pc'[registry'[g][i].caller] \in Waiting
                        /\ IsFor(registry'[g][i], call[registry'[g][i].caller],
                                 attempt[registry'[g][i].caller], acked[registry'[g][i].caller])
      BY <3>0 DEF OnlyWaiters, IsFor
    <3>1. PICK n \in 1 .. Len(registry[g]) :
             registry'[g][i] = registry[g][n] /\ registry[g][n].caller # c
      BY <2>9
    <3>2. registry[g][n].caller \in Callers
      BY <2>3
    <3> QED BY <1>0, <2>1, <3>1, <3>2 DEF RegistryExact, OnlyWaiters
  <2>11. OnceEach'
    <3> SUFFICES ASSUME NEW g \in Gateways, NEW i \in 1 .. Len(registry'[g]),
                        NEW j \in 1 .. Len(registry'[g]),
                        registry'[g][i].caller = registry'[g][j].caller
                 PROVE  i = j
      BY DEF OnceEach
    <3>1. PICK n \in 1 .. Len(registry[g]) :
             registry'[g][i] = registry[g][n] /\ n = IF g = h /\ ~(i < k) THEN i + 1 ELSE i
      BY <2>9
    <3>2. PICK o \in 1 .. Len(registry[g]) :
             registry'[g][j] = registry[g][o] /\ o = IF g = h /\ ~(j < k) THEN j + 1 ELSE j
      BY <2>9
    <3>3. n = o
      BY <3>1, <3>2 DEF RegistryExact, OnceEach
    <3> QED BY <3>1, <3>2, <3>3
  <2>12. AllWaiters'
    <3> SUFFICES ASSUME NEW b \in Callers, pc'[b] \in Waiting
                 PROVE  \E g \in Gateways : \E i \in 1 .. Len(registry'[g]) : registry'[g][i].caller = b
      BY DEF AllWaiters
    <3>1. b # c /\ pc[b] \in Waiting
      BY <1>0, <2>1 DEF Waiting
    <3>0. PICK g \in Gateways : \E i \in 1 .. Len(registry[g]) : registry[g][i].caller = b
      BY <3>1 DEF RegistryExact, AllWaiters
    <3>2. PICK i \in 1 .. Len(registry[g]) : registry[g][i].caller = b
      BY <3>0
    <3>3. CASE g = h
      <4>1. i \in 1 .. Len(q) \ {k}
        BY <2>2, <2>5, <3>1, <3>2, <3>3
      <4> QED BY <2>2, <2>7, <2>8, <3>2, <3>3, <4>1
    <3>4. CASE g # h
      BY <2>8, <3>2, <3>4
    <3> QED BY <3>3, <3>4
  <2> QED BY <2>10, <2>11, <2>12 DEF RegistryExact
<1>7. CASE UNCHANGED vars
  BY <1>2, <1>7 DEF vars
<1> QED BY <1>1, <1>3, <1>4, <1>5, <1>6, <1>7 DEF Next, Caller

\* What is left to count: the places of a waiting caller are one, on the
\* gateway its call is routed to.
LEMMA RegistryCounts == TypeOK /\ ActiveCall /\ RegistryExact => RegistryHoldsWaiters
<1> SUFFICES ASSUME TypeOK, ActiveCall, RegistryExact, NEW c \in Callers, NEW g \in Gateways
             PROVE  Cardinality({i \in 1 .. Len(registry[g]) : registry[g][i].caller = c})
                      = IF pc[c] \in Waiting /\ Matcher(c).gw = g THEN 1 ELSE 0
  BY DEF RegistryHoldsWaiters, Waiting
<1> DEFINE P == {i \in 1 .. Len(registry[g]) : registry[g][i].caller = c}
<1>1. ASSUME NEW h \in Gateways, NEW i \in 1 .. Len(registry[h]), registry[h][i].caller = c
      PROVE  pc[c] \in Waiting /\ registry[h][i].gw = h /\ registry[h][i] = Matcher(c)
  <2>1. /\ pc[c] \in Waiting /\ registry[h][i].gw = h
        /\ IsFor(registry[h][i], call[c], attempt[c], acked[c])
    BY <1>1 DEF RegistryExact, OnlyWaiters
  <2>2. registry[h][i] \in Matchers
    BY ElementOfSeq DEF TypeOK
  <2> QED BY <1>1, <2>1, <2>2, TheMatcher DEF Waiting
<1>2. CASE pc[c] \in Waiting /\ Matcher(c).gw = g
  <2>1. PICK h \in Gateways : \E i \in 1 .. Len(registry[h]) : registry[h][i].caller = c
    BY <1>2 DEF RegistryExact, AllWaiters
  <2>2. h = g
    BY <1>1, <1>2, <2>1
  <2>3. PICK i \in 1 .. Len(registry[g]) : registry[g][i].caller = c
    BY <2>1, <2>2
  <2>4. P = {i}
    BY <2>3 DEF RegistryExact, OnceEach
  <2> QED BY <1>2, <2>4, FS_Singleton
<1>3. CASE ~(pc[c] \in Waiting /\ Matcher(c).gw = g)
  <2>1. P = {}
    BY <1>1, <1>3
  <2> QED BY <1>3, <2>1, FS_EmptySet
<1> QED BY <1>2, <1>3

\* A registry holds exactly the matchers of the calls between register and
\* cancel, once each, whatever the other callers and the RX threads do: the
\* finally block of send_and_match leaves none behind.
THEOREM RegistryIsExact == Spec => []RegistryHoldsWaiters
<1> DEFINE RInv == Typed /\ RegistryExact
<1>1. Init => RInv
  BY TypedInit DEF Init, RegistryExact, OnlyWaiters, OnceEach, AllWaiters, Waiting
<1>2. RInv /\ [Next]_vars => RInv'
  BY TypedStep, RegistryStep
<1>3. RInv => RegistryHoldsWaiters
  BY RegistryCounts DEF Typed
<1> QED BY <1>1, <1>2, <1>3, PTL DEF Spec

----------------------------------------------------------------------------
(* The answer to the attempt under way                                     *)

\* No two callers share a call number.
CallsApart == \A b, c \in Callers : call[b].id = call[c].id /\ call[b].id # 0 => b = c

\* A request frame or a reply f belongs to an attempt that has been sent: it
\* is none of a later call, and none of an attempt still being built.
Sent(f, k, n, p, top) ==
    /\ f.id <= top
    /\ \A c \in Callers : f.id = k[c].id =>
          /\ f.op = k[c].op
          /\ f.attempt <= n[c]
          /\ f.attempt = n[c] => p[c] \notin {"build", "send"}
AllSent ==
    /\ \A f \in inbox : Sent(f, call, attempt, pc, calls)
    /\ \A g \in Gateways : \A i \in 1 .. Len(rxq[g]) : Sent(rxq[g][i], call, attempt, pc, calls)
    /\ \A g \in Gateways : rx[g].busy => Sent(rx[g].ev, call, attempt, pc, calls)

\* The answer to an attempt, once taken by the RX thread of the call's
\* gateway, meets the matcher of the attempt among the copied candidates.
OwnMatcherCopied == \A g \in Gateways, c \in Callers :
    /\ rx[g].busy /\ pc[c] \in {"wait", "exit"}
    /\ rx[g].ev.id = call[c].id /\ rx[g].ev.attempt = attempt[c]
    /\ \A d \in call[c].targets : GatewayOf[d] = g
    => \E i \in 1 .. Len(rx[g].cand) :
          /\ rx[g].cand[i].gw = g /\ IsFor(rx[g].cand[i], call[c], attempt[c], acked[c])

LEMMA CallsApartStep == Typed /\ CallsApart /\ [Next]_vars => CallsApart'
<1> SUFFICES ASSUME Typed, CallsApart, [Next]_vars PROVE CallsApart'
  OBVIOUS
<1>0. call \in [Callers -> Calls] /\ calls \in Nat /\ \A c \in Callers : call[c].id <= calls
  BY BoundAssumption DEF Typed, TypeOK, CallNumbers
<1>1. ASSUME NEW c \in Callers, Begin(c) PROVE CallsApart'
  <2>1. \E o \in Opcodes, T \in TargetSets :
           call' = [call EXCEPT ![c] = [id |-> calls + 1, op |-> o, targets |-> T]]
    BY <1>1 DEF Begin
  <2>2. call'[c].id = calls + 1 /\ \A b \in Callers \ {c} : call'[b].id = call[b].id
    BY <1>0, <2>1
  <2>3. \A b \in Callers : call[b].id # calls + 1
    BY <1>0 DEF Calls
  <2> QED BY <2>2, <2>3 DEF CallsApart
<1>2. CASE call' = call
  BY <1>2 DEF CallsApart
<1>3. (\E c \in Callers : Begin(c)) \/ call' = call
  BY DEF Next, Caller, Rx, Refuse, Register, SendFrame, WaitEnds, Cancel, ReadReplies,
         RxTake, RxMatch, RxUnmatched, Answer, hostVars, vars
<1> QED BY <1>1, <1>2, <1>3

LEMMA SentStays ==
  ASSUME Typed, [Next]_vars, NEW f, f.id \in CallIds, f.attempt \in Attempts,
         Sent(f, call, attempt, pc, calls)
  PROVE  Sent(f, call', attempt', pc', calls')
<1>0. /\ call \in [Callers -> Calls] /\ attempt \in [Callers -> Attempts] /\ calls \in Nat
      /\ pc \in [Callers -> {"idle", "build", "send", "wait", "exit", "read"}]
      /\ f.id \in Nat /\ f.attempt \in Nat
      /\ \A c \in Callers : attempt[c] \in Nat
  BY BoundAssumption DEF Typed, TypeOK, CallIds, Attempts
<1>1. ASSUME NEW c \in Callers, Begin(c) PROVE Sent(f, call', attempt', pc', calls')
  <2>1. calls' = calls + 1 /\ \E o \in Opcodes, T \in TargetSets :
           call' = [call EXCEPT ![c] = [id |-> calls + 1, op |-> o, targets |-> T]]
    BY <1>1 DEF Begin
  <2>2. f.id # call'[c].id
    BY <1>0, <2>1 DEF Sent
  <2>3. \A b \in Callers \ {c} :
           call'[b] = call[b] /\ attempt'[b] = attempt[b] /\ pc'[b] = pc[b]
    BY <1>0, <1>1 DEF Begin
  <2> QED BY <1>0, <2>1, <2>2, <2>3 DEF Sent
<1>2. ASSUME NEW c \in Callers, ReadReplies(c) PROVE Sent(f, call', attempt', pc', calls')
  <2>1. call' = call /\ calls' = calls
    BY <1>2 DEF ReadReplies
  <2>2. \A b \in Callers \ {c} : attempt'[b] = attempt[b] /\ pc'[b] = pc[b]
    BY <1>0, <1>2 DEF ReadReplies
  <2>3. (pc'[c] = "idle" /\ attempt'[c] = attempt[c]) \/ attempt'[c] = attempt[c] + 1
    BY <1>0, <1>2 DEF ReadReplies
  <2> QED BY <1>0, <2>1, <2>2, <2>3 DEF Sent
<1>3. ASSUME UNCHANGED << call, attempt, calls >>,
             \A c \in Callers : pc'[c] \in {"build", "send"} => pc[c] \in {"build", "send"}
      PROVE  Sent(f, call', attempt', pc', calls')
  BY <1>3 DEF Sent
<1>4. ASSUME NEW c \in Callers,
             Refuse(c) \/ Register(c) \/ SendFrame(c) \/ WaitEnds(c) \/ Cancel(c)
      PROVE  Sent(f, call', attempt', pc', calls')
  BY <1>0, <1>3, <1>4 DEF Refuse, Register, SendFrame, WaitEnds, Cancel
<1>5. ASSUME UNCHANGED << call, attempt, calls, pc >> PROVE Sent(f, call', attempt', pc', calls')
  BY <1>5
<1> QED BY <1>1, <1>2, <1>4, <1>5 DEF Next, Caller, Rx, RxTake, RxMatch, RxUnmatched,
                                       Answer, hostVars, vars

LEMMA SentStep == Typed /\ CallsApart /\ AllSent /\ [Next]_vars => AllSent'
<1> SUFFICES ASSUME Typed, CallsApart, AllSent, [Next]_vars PROVE AllSent'
  OBVIOUS
<1> DEFINE Now(f) == Sent(f, call', attempt', pc', calls')
<1>0. /\ rxq \in [Gateways -> Seq(Replies)] /\ rx \in [Gateways -> RxStates]
      /\ inbox \subseteq Frames /\ TypeOK
      /\ call \in [Callers -> Calls] /\ attempt \in [Callers -> Attempts] /\ calls \in Nat
      /\ pc \in [Callers -> {"idle", "build", "send", "wait", "exit", "read"}]
  BY BoundAssumption DEF Typed, TypeOK
\* What was under way before the step.
<1>1. \A f \in inbox : Now(f)
  BY <1>0, SentStays DEF Frames, AllSent
<1>2. ASSUME NEW g \in Gateways, NEW i \in 1 .. Len(rxq[g]) PROVE Now(rxq[g][i])
  <2>1. rxq[g][i] \in Replies
    BY <1>0, ElementOfSeq
  <2> QED BY <2>1, SentStays DEF Replies, AllSent
<1>3. ASSUME NEW g \in Gateways, rx[g].busy PROVE Now(rx[g].ev)
  <2>1. rx[g].ev \in Replies
    BY <1>0, <1>3, RxFacts
  <2> QED BY <1>3, <2>1, SentStays DEF Replies, AllSent
<1> HIDE DEF Now
<1> SUFFICES /\ \A f \in inbox' : Now(f)
             /\ \A g \in Gateways : \A i \in 1 .. Len(rxq'[g]) : Now(rxq'[g][i])
             /\ \A g \in Gateways : rx'[g].busy => Now(rx'[g].ev)
  BY DEF AllSent, Now, Sent
<1>4. ASSUME NEW c \in Callers, SendFrame(c) PROVE \A f \in inbox' : Now(f)
  <2>1. PICK R \in SUBSET call[c].targets :
           inbox' = inbox \cup [dev : R, op : {call[c].op}, id : {call[c].id},
                                attempt : {attempt[c]}]
    BY <1>4 DEF SendFrame
  <2>2. /\ pc[c] = "send" /\ pc' = [pc EXCEPT ![c] = "wait"]
        /\ UNCHANGED << call, attempt, calls >>
    BY <1>4 DEF SendFrame
  <2>3. call[c].id \in 1 .. calls
    BY <2>2 DEF Typed, ActiveCall
  <2>4. ASSUME NEW f, f.op = call[c].op, f.id = call[c].id, f.attempt = attempt[c] PROVE Now(f)
    <3>0. call[c].id # 0
      BY <1>0, <2>3
    <3>1. \A b \in Callers : f.id = call[b].id => b = c
      BY <2>4, <3>0 DEF CallsApart
    <3>2. attempt[c] \in Nat /\ f.id <= calls
      BY <1>0, <2>3, <2>4 DEF Attempts
    <3> QED BY <1>0, <2>2, <2>4, <3>1, <3>2 DEF Now, Sent
  <2>5. \A f \in [dev : R, op : {call[c].op}, id : {call[c].id}, attempt : {attempt[c]}] :
            f.op = call[c].op /\ f.id = call[c].id /\ f.attempt = attempt[c]
    OBVIOUS
  <2> QED BY <1>1, <2>1, <2>4, <2>5
<1>5. ASSUME NEW f \in inbox, Answer(f)
      PROVE  \A g \in Gateways : \A i \in 1 .. Len(rxq'[g]) : Now(rxq'[g][i])
  <2>1. PICK ok \in BOOLEAN, H \in SUBSET Gateways :
          rxq' = [g \in Gateways |->
                     IF g \in H
                     THEN Append(rxq[g], [dev |-> f.dev, op |-> f.op, gw |-> g, ok |-> ok,
                                          id |-> f.id, attempt |-> f.attempt])
                     ELSE rxq[g]]
    BY <1>5 DEF Answer
  <2> SUFFICES ASSUME NEW g \in Gateways, NEW i \in 1 .. Len(rxq'[g]) PROVE Now(rxq'[g][i])
    OBVIOUS
  <2> DEFINE e == [dev |-> f.dev, op |-> f.op, gw |-> g, ok |-> ok,
                   id |-> f.id, attempt |-> f.attempt]
  <2>2. e \in Replies
    BY <1>0 DEF Frames, Replies
  <2>3. Now(e)
    BY <1>1 DEF Now, Sent
  <2> HIDE DEF e
  <2>4. rxq'[g] = rxq[g] \/ rxq'[g] = Append(rxq[g], e)
    BY <2>1 DEF e
  <2>5. rxq'[g][i] = e \/ (i \in 1 .. Len(rxq[g]) /\ rxq'[g][i] = rxq[g][i])
    <3>1. CASE rxq'[g] = rxq[g]
      BY <3>1
    <3>2. CASE rxq'[g] = Append(rxq[g], e)
      <4>1. rxq[g] \in Seq(Replies)
        BY <1>0
      <4>2. /\ Len(Append(rxq[g], e)) = Len(rxq[g]) + 1 /\ Len(rxq[g]) \in Nat
            /\ Append(rxq[g], e)[Len(rxq[g]) + 1] = e
            /\ \A j \in 1 .. Len(rxq[g]) : Append(rxq[g], e)[j] = rxq[g][j]
        BY <2>2, <4>1, AppendProperties, LenProperties
      <4>3. i = Len(rxq[g]) + 1 \/ i \in 1 .. Len(rxq[g])
        BY <3>2, <4>2
      <4> QED BY <3>2, <4>2, <4>3
    <3> QED BY <2>4, <3>1, <3>2
  <2> QED BY <1>2, <2>3, <2>5
<1>6. ASSUME NEW h \in Gateways, RxTake(h)
      PROVE  /\ \A g \in Gateways : \A i \in 1 .. Len(rxq'[g]) : Now(rxq'[g][i])
             /\ \A g \in Gateways : rx'[g].busy => Now(rx'[g].ev)
  <2>1. /\ Head(rxq[h]) = rxq[h][1] /\ 1 \in 1 .. Len(rxq[h])
        /\ \A i \in 1 .. Len(Tail(rxq[h])) :
              i + 1 \in 1 .. Len(rxq[h]) /\ Tail(rxq[h])[i] = rxq[h][i + 1]
    BY <1>0, <1>6 DEF RxTake
  <2>2. /\ rx'[h].ev = Head(rxq[h]) /\ rxq'[h] = Tail(rxq[h])
        /\ \A g \in Gateways \ {h} : rx'[g] = rx[g] /\ rxq'[g] = rxq[g]
    BY <1>0, <1>6 DEF RxTake
  <2>3. Now(rx'[h].ev) /\ \A i \in 1 .. Len(rxq'[h]) : Now(rxq'[h][i])
    BY <1>2, <2>1, <2>2
  <2>4. ASSUME NEW g \in Gateways
        PROVE  /\ \A i \in 1 .. Len(rxq'[g]) : Now(rxq'[g][i])
               /\ rx'[g].busy => Now(rx'[g].ev)
    BY <1>2, <1>3, <2>2, <2>3
  <2> QED BY <2>4
<1>7. ASSUME NEW h \in Gateways, RxMatch(h) \/ RxUnmatched(h)
      PROVE  rxq' = rxq /\ \A g \in Gateways : rx'[g].busy => Now(rx'[g].ev)
  <2>1. NoRx.busy = FALSE
    BY DEF NoRx
  <2> QED BY <1>0, <1>3, <1>7, <2>1 DEF RxMatch, RxUnmatched
<1>8. (\E c \in Callers : Caller(c) /\ ~SendFrame(c)) => inbox' = inbox /\ rxq' = rxq /\ rx' = rx
  BY DEF Caller, Begin, Refuse, Register, WaitEnds, Cancel, ReadReplies
<1>9. \A c \in Callers : SendFrame(c) => rxq' = rxq /\ rx' = rx
  BY DEF SendFrame
<1>10. \A f \in inbox : Answer(f) => rx' = rx /\ inbox' \subseteq inbox
  BY DEF Answer
<1>11. \A g \in Gateways : Rx(g) => inbox' = inbox
  BY DEF Rx, RxTake, RxMatch, RxUnmatched
<1>12. UNCHANGED vars => inbox' = inbox /\ rxq' = rxq /\ rx' = rx
  BY DEF vars
<1> QED
  <2>1. CASE \E c \in Callers : Caller(c)
    BY <1>1, <1>2, <1>3, <1>4, <1>8, <1>9, <2>1
  <2>2. CASE \E g \in Gateways : Rx(g)
    BY <1>1, <1>2, <1>6, <1>7, <1>11, <2>2 DEF Rx
  <2>3. CASE \E f \in inbox : Answer(f)
    BY <1>1, <1>3, <1>5, <1>10, <2>3
  <2>4. CASE UNCHANGED vars
    BY <1>1, <1>2, <1>3, <1>12, <2>4
  <2> QED BY <2>1, <2>2, <2>3, <2>4 DEF Next

LEMMA CopiedStep ==
  Typed /\ RegistryExact /\ AllSent /\ OwnMatcherCopied /\ [Next]_vars => OwnMatcherCopied'
<1> SUFFICES ASSUME Typed, RegistryExact, AllSent, OwnMatcherCopied, [Next]_vars
             PROVE  OwnMatcherCopied'
  OBVIOUS
<1>0. /\ rx \in [Gateways -> RxStates] /\ registry \in [Gateways -> Seq(Matchers)]
      /\ pc \in [Callers -> {"idle", "build", "send", "wait", "exit", "read"}]
      /\ call \in [Callers -> Calls] /\ attempt \in [Callers -> Attempts]
      /\ acked \in [Callers -> SUBSET Devices]
  BY DEF Typed, TypeOK
<1> SUFFICES ASSUME NEW g \in Gateways, NEW c \in Callers,
                    rx'[g].busy, pc'[c] \in {"wait", "exit"},
                    rx'[g].ev.id = call'[c].id, rx'[g].ev.attempt = attempt'[c],
                    \A d \in call'[c].targets : GatewayOf[d] = g
             PROVE  \E i \in 1 .. Len(rx'[g].cand) :
                       /\ rx'[g].cand[i].gw = g
                       /\ IsFor(rx'[g].cand[i], call'[c], attempt'[c], acked'[c])
  BY DEF OwnMatcherCopied, IsFor
<1>1. /\ pc[c] \in {"send", "wait", "exit"} /\ call'[c] = call[c]
      /\ attempt'[c] = attempt[c] /\ acked'[c] = acked[c]
      /\ pc[c] # "send" \/ rx' = rx
  <2>1. ASSUME NEW b \in Callers, Caller(b)
        PROVE  /\ pc[c] \in {"send", "wait", "exit"} /\ call'[c] = call[c]
               /\ attempt'[c] = attempt[c] /\ acked'[c] = acked[c] /\ rx' = rx
    BY <1>0, <2>1 DEF Caller, Begin, Refuse, Register, SendFrame, WaitEnds, Cancel, ReadReplies
  <2>2. CASE UNCHANGED << pc, call, attempt, acked >>
    BY <2>2
  <2> QED BY <2>1, <2>2 DEF Next, Rx, RxTake, RxMatch, RxUnmatched, Answer, hostVars, vars
<1>2. rx'[g] = rx[g] \/ RxTake(g)
  <2>1. ASSUME NEW h \in Gateways, Rx(h) PROVE rx'[g] = rx[g] \/ RxTake(g)
    <3>1. NoRx.busy = FALSE
      BY DEF NoRx
    <3> QED BY <1>0, <2>1, <3>1 DEF Rx, RxTake, RxMatch, RxUnmatched
  <2> QED BY <2>1 DEF Next, Caller, Begin, Refuse, Register, SendFrame, WaitEnds, Cancel,
                      ReadReplies, Answer, vars
<1>3. CASE rx'[g] = rx[g]
  \* An attempt that is only now sent has no answer yet.
  <2>1. pc[c] # "send"
    <3>1. Sent(rx[g].ev, call, attempt, pc, calls)
      BY <1>3 DEF AllSent
    <3> QED BY <1>1, <1>3, <3>1 DEF Sent
  <2> QED BY <1>1, <1>3, <2>1 DEF OwnMatcherCopied
<1>4. CASE RxTake(g)
  <2>1. rx'[g].cand = registry[g]
    BY <1>0, <1>4 DEF RxTake
  <2>2. PICK h \in Gateways : \E i \in 1 .. Len(registry[h]) : registry[h][i].caller = c
    BY <1>1 DEF RegistryExact, AllWaiters, Waiting
  <2>3. PICK i \in 1 .. Len(registry[h]) : registry[h][i].caller = c
    BY <2>2
  <2>4. registry[h][i].gw = h /\ IsFor(registry[h][i], call[c], attempt[c], acked[c])
    BY <2>3 DEF RegistryExact, OnlyWaiters
  <2>5. \E d \in call[c].targets : TRUE
    BY <1>1 DEF Typed, ActiveCall, TargetSets
  <2>6. h = g
    BY <1>1, <2>4, <2>5 DEF IsFor
  <2> QED BY <1>1, <2>1, <2>4, <2>6
<1> QED BY <1>2, <1>3, <1>4

\* The answer to the attempt a caller of send_and_match is waiting on is never
\* dropped as unmatched: the matcher is in the registry before the frame
\* leaves, so every copy of the candidates that can meet the answer has it.
THEOREM AnswerMeetsMatcher == Spec => OwnReplyNotMissed
<1> DEFINE RInv == Typed /\ RepliesTrue /\ RegistryExact /\ CallsApart /\ AllSent /\ OwnMatcherCopied
<1>1. Init => RInv
  <2>1. NoRx.busy = FALSE
    BY DEF NoRx
  <2> QED BY <2>1, TypedInit DEF Init, RegistryExact, OnlyWaiters, OnceEach, AllWaiters, Waiting,
             RepliesTrue, CallsApart, NoCall, AllSent, OwnMatcherCopied
<1>2. RInv /\ [Next]_vars => RInv'
  BY TypedStep, RepliesStep, RegistryStep, CallsApartStep, SentStep, CopiedStep
<1>3. ASSUME RInv, [Next]_vars, NEW g \in Gateways, RxUnmatched(g), NEW c \in Callers,
             pc[c] \in {"wait", "exit"},
             rx[g].ev.id = call[c].id, rx[g].ev.attempt = attempt[c],
             rx[g].ev.dev \in call[c].targets \ acked[c],
             g = GatewayOfCall(c)
      PROVE  FALSE
  <2>1. rx[g].busy /\ Hits(rx[g].cand, rx[g].ev) = {}
    BY <1>3 DEF RxUnmatched
  <2>2. call[c].targets \in TargetSets
    BY <1>3 DEF Typed, ActiveCall
  <2>3. \A d \in call[c].targets : GatewayOf[d] = g
    BY <1>3, <2>2, CallGateway
  <2>4. PICK i \in 1 .. Len(rx[g].cand) :
           rx[g].cand[i].gw = g /\ IsFor(rx[g].cand[i], call[c], attempt[c], acked[c])
    BY <1>3, <2>1, <2>3 DEF OwnMatcherCopied
  <2>5. rx[g].ev.gw = g
    BY <1>3, <2>1 DEF RepliesTrue, ReplyTrue
  <2>6. rx[g].ev.op = call[c].op
    BY <1>3, <2>1 DEF AllSent, Sent
  <2>7. i \in Hits(rx[g].cand, rx[g].ev)
    BY <1>3, <2>4, <2>5, <2>6 DEF Hits, Accepts, IsFor
  <2> QED BY <2>1, <2>7
<1> DEFINE Met == \A g \in Gateways : RxUnmatched(g) =>
                    ~\E c \in Callers :
                       /\ pc[c] \in {"wait", "exit"}
                       /\ rx[g].ev.id = call[c].id /\ rx[g].ev.attempt = attempt[c]
                       /\ rx[g].ev.dev \in call[c].targets \ acked[c]
                       /\ g = GatewayOfCall(c)
<1>4. RInv /\ [Next]_vars => [Met]_vars
  BY <1>3
<1> HIDE DEF RInv
<1>5. Spec => [][Met]_vars
  BY <1>1, <1>2, <1>4, PTL DEF Spec
<1> QED BY <1>5 DEF OwnReplyNotMissed
===============================================================================
