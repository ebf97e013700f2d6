------------------------- MODULE GatewayBindProofs -------------------------
(***************************************************************************)
(* Proofs about GatewayBind for any number of gateways, networks, configs  *)
(* and requests.                                                           *)
(*                                                                         *)
(* RecordsAreTrue is not inductive: the answer of a gateway settles the    *)
(* record of a resolve call that began earlier, so one has to know that    *)
(* the record still expects the config that was pushed (CallInv): nothing  *)
(* evaluates, forgets or answers while a call is in flight.  Type          *)
(* correctness needs that a record in conflict names a network (RecInv)    *)
(* and that a migration past its validation has a gateway (TaskInv).       *)
(* NetworksStayApart needs the types alone.                                *)
(***************************************************************************)
EXTENDS GatewayBind, SequenceTheorems, WellFoundedInduction, TLAPS

\* What a record says of itself.
Consistent(r) ==
  /\ r.st = "bound" => r.act = r.exp
  /\ r.st = "conflict" => r.act # r.exp /\ r.net \in Nets
RecInv == \A g \in Gateways : rec[g] # None => Consistent(rec[g])

\* The record of a call in flight is still the one the call began with.
CallInv ==
  res # None => /\ rec[res.g] # None
                /\ res.op # "create" => rec[res.g].exp = res.cfg

TaskInv == task # None /\ task.pc \in {"switch", "reeval"} => task.g \in Gateways

IInv == TypeOK /\ RecInv /\ CallInv /\ TaskInv /\ WizardIsCurrent

----------------------------------------------------------------------------
(* Lists                                                                   *)

\* A nonempty set of positions has a first one.
LEMMA LeastPosition ==
    ASSUME NEW I \in SUBSET Nat, I # {}
    PROVE  \E i \in I : \A j \in I : i <= j
<1> DEFINE R == OpToRel(<, Nat)
<1>1. IsWellFoundedOn(R, Nat)
  BY NatLessThanWellFounded
<1> HIDE DEF R
<1>2. \E i \in I : \A j \in I : ~(<<j, i>> \in R)
  BY <1>1, WFMin
<1>3. \A i, j \in Nat : <<j, i>> \in R <=> j < i
  BY DEF R, OpToRel
<1>4. PICK i \in I : \A j \in I : ~(<<j, i>> \in R)
  BY <1>2
<1>5. \A j \in I : ~(j < i)
  BY <1>3, <1>4
<1>6. \A j \in I : i <= j
  BY <1>5
<1> QED
  BY <1>6

LEMMA FirstIn ==
    ASSUME NEW X, NEW s \in Seq(X), NEW S
    PROVE  First(s, S) = None \/ (First(s, S) \in Range(s) /\ First(s, S) \in S)
<1> DEFINE hits == {i \in DOMAIN s : s[i] \in S}
<1>1. CASE hits = {}
  BY <1>1 DEF First
<1>2. CASE hits # {}
  <2>1. hits \in SUBSET Nat
    OBVIOUS
  <2>2. \E i \in hits : \A j \in hits : i <= j
    BY <1>2, <2>1, LeastPosition
  <2> DEFINE k == CHOOSE i \in hits : \A j \in hits : i <= j
  <2>3. k \in hits
    BY <2>2
  <2>4. First(s, S) = s[k]
    BY <1>2 DEF First
  <2> QED
    BY <2>3, <2>4 DEF Range
<1> QED
  BY <1>1, <1>2

LEMMA RemovedIn ==
    ASSUME NEW X, NEW s \in Seq(X), NEW x, NEW r \in Removed(s, x)
    PROVE  r \in Seq(X) /\ Range(r) \subseteq Range(s)
<1>0. PICK i \in DOMAIN s : r = RemoveAt(s, i)
  BY DEF Removed
<1>1. r = SubSeq(s, 1, i - 1) \o SubSeq(s, i + 1, Len(s)) /\ i \in 1 .. Len(s)
  BY <1>0 DEF RemoveAt
<1> DEFINE a == SubSeq(s, 1, i - 1)
           b == SubSeq(s, i + 1, Len(s))
<1>2. Len(s) \in Nat /\ \A j \in 1 .. Len(s) : s[j] \in X /\ s[j] \in Range(s)
  BY DEF Range
<1>3. /\ a \in Seq(X \cap Range(s)) /\ b \in Seq(X \cap Range(s))
  BY <1>2, SubSeqProperties
<1>4. r \in Seq(X \cap Range(s))
  BY <1>1, <1>3, ConcatProperties
<1> QED
  BY <1>4, RangeOfSeq, SeqMonotonic

LEMMA AppendIn ==
    ASSUME NEW X, NEW s \in Seq(X), NEW x \in X
    PROVE  Append(s, x) \in Seq(X) /\ Range(Append(s, x)) = Range(s) \cup {x}
<1>1. /\ Append(s, x) \in Seq(X) /\ Len(Append(s, x)) = Len(s) + 1
      /\ \A i \in 1 .. Len(s) : Append(s, x)[i] = s[i]
      /\ Append(s, x)[Len(s) + 1] = x
  BY AppendProperties
<1>2. Range(s) = {s[i] : i \in 1 .. Len(s)}
  BY RangeEquality
<1>3. Range(Append(s, x)) = {Append(s, x)[i] : i \in 1 .. Len(s) + 1}
  BY <1>1, RangeEquality
<1> QED
  BY <1>1, <1>2, <1>3

\* Networks and gateways that are looked up are known ones.
LEMMA KnownTypes ==
    ASSUME TypeOK
    PROVE  /\ Known \subseteq Nets /\ Attached \subseteq Gateways /\ None \notin Known
           /\ \A g : Claimed(g) \in Nets \cup {None}
           /\ \A S : First(repo, S) = None \/ (First(repo, S) \in Known /\ First(repo, S) \in S)
           /\ \A n : TransportFor(n) \in Gateways \cup {None}
<1>1. Known \subseteq Nets /\ Attached \subseteq Gateways
  BY RangeOfSeq DEF TypeOK, Known, Attached
<1>2. \A S : First(repo, S) = None \/ (First(repo, S) \in Known /\ First(repo, S) \in S)
  BY FirstIn DEF TypeOK, Known
<1>3. \A S : First(transports, S) \in Gateways \cup {None}
  BY <1>1, FirstIn DEF TypeOK, Attached
<1>4. ASSUME NEW n PROVE TransportFor(n) \in Gateways \cup {None}
  <2>1. ASSUME Len(transports) = 1 PROVE Head(transports) \in Gateways
    <3>1. transports # << >>
      BY <2>1
    <3> QED
      BY <3>1, HeadTailProperties DEF TypeOK
  <2> QED
    BY <1>3, <2>1 DEF TransportFor
<1> QED
  BY <1>1, <1>2, <1>4, BindAssumption DEF Claimed

----------------------------------------------------------------------------
(* Records and threads                                                     *)

EvStates == [pc : {"idle", "lookup", "auto", "store"}, g : Gateways \cup {None},
             net : Nets \cup {None}, act : Configs \cup {None}]

\* A query leaves its thread with a verdict to store.
LEMMA QueriedType ==
    ASSUME TypeOK, NEW a \in Threads, NEW g \in Gateways, NEW n, Queried(a, g, n)
    PROVE  ev' \in [Threads -> EvStates]
<1>1. PICK act \in Answers(g) :
        ev' = [ev EXCEPT ![a] = [pc |-> "store", g |-> g, act |-> act,
                                 net |-> IF n \in Known THEN n ELSE None]]
  BY DEF Queried
<1>2. act \in Configs \cup {None}
  BY <1>1 DEF Answers, TypeOK
<1>3. (IF n \in Known THEN n ELSE None) \in Nets \cup {None}
  BY KnownTypes
<1>4. [pc |-> "store", g |-> g, act |-> act, net |-> IF n \in Known THEN n ELSE None] \in EvStates
  BY <1>2, <1>3 DEF EvStates
<1> QED
  BY <1>1, <1>4 DEF TypeOK, EvStates

LEMMA RecordFields ==
    ASSUME NEW r \in Record
    PROVE  /\ r.st \in States /\ r.net \in Nets \cup {None} /\ r.act \in Configs \cup {None}
           /\ r.exp \in Configs \cup {None} /\ r.pend \in BOOLEAN
BY DEF Record

\* What an answer that settles a record makes of it.
LEMMA SettledType ==
    ASSUME TypeOK, NEW g \in Gateways, rec[g] # None, NEW n \in Nets, NEW c \in Configs,
           NEW p \in BOOLEAN
    PROVE  /\ Settled(g, n, c) \in Record /\ Consistent(Settled(g, n, c))
           /\ [Settled(g, n, c) EXCEPT !.pend = p] \in Record
           /\ Consistent([Settled(g, n, c) EXCEPT !.pend = p])
<1>1. rec[g] \in Record
  BY DEF TypeOK
<1>2. /\ Settled(g, n, c) \in Record /\ Settled(g, n, c).st = "bound"
      /\ Settled(g, n, c).act = c /\ Settled(g, n, c).exp = c
  BY <1>1 DEF Settled, Record, States
<1> QED
  BY <1>2 DEF Record, Consistent

\* What a rebind makes of a record before it compares the configs: only the
\* network and the config it expects change.
Half(g, n) == [rec[g] EXCEPT !.net = n, !.exp = rf[n]]

LEMMA HalfType ==
    ASSUME TypeOK, NEW g \in Gateways, rec[g] # None, NEW n \in Nets, NEW st \in States
    PROVE  /\ Half(g, n) \in Record /\ [Half(g, n) EXCEPT !.st = st] \in Record
           /\ rec[g].act # rf[n] /\ MaySwitch(g) => Consistent(Half(g, n))
           /\ rec[g].act # rf[n] => Consistent([Half(g, n) EXCEPT !.st = "conflict"])
           /\ rec[g].act = rf[n] => Consistent([Half(g, n) EXCEPT !.st = "bound"])
           /\ Half(g, n).exp = rf[n]
<1>1. rec[g] \in Record /\ rf[n] \in Configs \cup {None}
  BY DEF TypeOK
<1>2. /\ Half(g, n) \in Record /\ Half(g, n).st = rec[g].st /\ Half(g, n).act = rec[g].act
      /\ Half(g, n).exp = rf[n] /\ Half(g, n).net = n
  BY <1>1 DEF Half, Record
<1> HIDE DEF Half
<1>3. \A t \in States :
        /\ [Half(g, n) EXCEPT !.st = t] \in Record /\ [Half(g, n) EXCEPT !.st = t].st = t
        /\ [Half(g, n) EXCEPT !.st = t].act = rec[g].act /\ [Half(g, n) EXCEPT !.st = t].exp = rf[n]
        /\ [Half(g, n) EXCEPT !.st = t].net = n
  BY <1>2 DEF Record
<1>4. {"conflict", "bound"} \subseteq States
  BY DEF States
<1> QED
  BY <1>2, <1>3, <1>4 DEF Consistent, MaySwitch

\* A wizard that is not refused is the one that was open.
LEMMA RefusedType ==
    ASSUME TypeOK, NEW g \in Gateways
    PROVE  /\ Refused(g) \in Wizard \cup {None}
           /\ Refused(g) # None => Refused(g) = wiz /\ wiz.g # g
BY DEF Refused, TypeOK

\* The network of a create_network answer.
LEMMA CreatedType ==
    ASSUME IInv, NEW g \in Gateways, rec[g] # None, NEW c \in Configs, NEW n \in fresh,
           Created(g, c, n)
    PROVE  /\ repo' \in Seq(Nets) /\ fresh' \subseteq Nets /\ mac' \in [Nets -> Gateways \cup {None}]
           /\ rf' \in [Nets -> Configs \cup {None}] /\ tnet' \in [Gateways -> Nets \cup {None}]
           /\ rec' \in [Gateways -> Record \cup {None}] /\ RecInv' /\ rec'[g] # None
           /\ \A h \in Gateways \ {g} : rec'[h] = rec[h]
<1>1. n \in Nets
  BY DEF IInv, TypeOK
<1>2. repo' \in Seq(Nets)
  BY <1>1, AppendIn DEF IInv, TypeOK, Created
<1>3. rec' = [rec EXCEPT ![g] = Settled(g, n, c)] /\ Settled(g, n, c) \in Record
      /\ Consistent(Settled(g, n, c))
  BY <1>1, SettledType DEF IInv, Created
<1>4. rec' \in [Gateways -> Record \cup {None}] /\ rec'[g] = Settled(g, n, c)
      /\ \A h \in Gateways \ {g} : rec'[h] = rec[h]
  BY <1>3 DEF IInv, TypeOK
<1>5. RecInv' /\ rec'[g] # None
  BY <1>3, <1>4, BindAssumption DEF IInv, RecInv
<1> QED
  BY <1>1, <1>2, <1>4, <1>5 DEF IInv, TypeOK, Created

----------------------------------------------------------------------------
(* The inductive invariant                                                 *)

LEMMA InitIInv == Init => IInv
<1> SUFFICES ASSUME Init PROVE IInv
  OBVIOUS
<1>1. /\ repo \in Seq(Nets) /\ fresh \subseteq Nets
      /\ mac \in [Nets -> Gateways \cup {None}] /\ rf \in [Nets -> Configs \cup {None}]
      /\ gcfg \in [Gateways -> Configs]
  BY BindAssumption DEF Init
<1>2. /\ transports \in Seq(Gateways) /\ tnet \in [Gateways -> Nets \cup {None}]
      /\ rec \in [Gateways -> Record \cup {None}] /\ gone \subseteq Gateways
      /\ ops \in 0..MaxOps
  BY BindAssumption DEF Init
<1>3. wiz = None /\ res = None /\ task = None
  BY DEF Init
<1>4. ev \in [Threads -> EvStates]
  BY DEF Init, Idle, EvStates
<1>5. TypeOK
  BY <1>1, <1>2, <1>3, <1>4 DEF TypeOK, EvStates
<1>6. RecInv
  BY DEF RecInv, Init
<1> QED
  BY <1>3, <1>5, <1>6 DEF IInv, CallInv, TaskInv, WizardIsCurrent

\* A step that leaves the records, the wizard, the call and the task alone.
LEMMA QuietStep ==
    ASSUME IInv, TypeOK', rec' = rec, res' = res, wiz' = wiz, task' = task
    PROVE  IInv'
BY DEF IInv, RecInv, CallInv, TaskInv, WizardIsCurrent

\* Steps that come from gateways and from the network routes.
LEMMA OutsideSteps ==
    ASSUME IInv,
           \/ \E g \in Gateways : Attach(g) \/ Detach(g) \/ Lookup(g) \/ AutoBind(g)
           \/ \E g \in Gateways, c \in Configs : Reflash(g, c)
           \/ \E n \in Nets, c \in Configs \cup {None} : ChangeChannel(n, c)
           \/ \E n \in Nets : DeleteNetwork(n)
    PROVE  IInv'
<1> USE BindAssumption
<1>0. TypeOK
  BY DEF IInv
<1>1. ASSUME NEW g \in Gateways, Attach(g) PROVE IInv'
  <2>1. transports' \in Seq(Gateways)
    BY <1>0, <1>1, AppendIn DEF TypeOK, Attach
  <2>2. g \in Threads /\ [Idle EXCEPT !.pc = "lookup", !.g = g] \in EvStates
    BY DEF Threads, Idle, EvStates
  <2>3. ev' \in [Threads -> EvStates]
    BY <1>0, <1>1, <2>2 DEF TypeOK, Attach, EvStates
  <2>4. TypeOK'
    BY <1>0, <1>1, <2>1, <2>3 DEF TypeOK, Attach, EvStates
  <2> QED
    BY <1>1, <2>4, QuietStep DEF Attach
<1>2. ASSUME NEW g \in Gateways, Detach(g) PROVE IInv'
  <2>1. transports' \in Seq(Gateways)
    BY <1>0, <1>2, RemovedIn DEF TypeOK, Detach
  <2>2. ops' \in 0..MaxOps
    BY <1>0, <1>2 DEF TypeOK, Detach
  <2>3. TypeOK'
    BY <1>0, <1>2, <2>1, <2>2 DEF TypeOK, Detach
  <2> QED
    BY <1>2, <2>3, QuietStep DEF Detach
<1>3. ASSUME NEW g \in Gateways, Lookup(g) PROVE IInv'
  <2>1. Claimed(g) \in Nets \cup {None}
    BY <1>0, KnownTypes
  <2>2. tnet' \in [Gateways -> Nets \cup {None}]
    BY <1>0, <1>3, <2>1 DEF TypeOK, Lookup
  <2>3. g \in Threads
    BY DEF Threads
  <2>4. ev' \in [Threads -> EvStates]
    <3>1. CASE Claimed(g) = None
      <4>0. ev \in [Threads -> EvStates]
        BY <1>0 DEF TypeOK, EvStates
      <4>1. [ev[g] EXCEPT !.pc = "auto"] \in EvStates
        <5>1. ev[g] \in EvStates
          BY <2>3, <4>0
        <5> QED
          BY <5>1 DEF EvStates
      <4>2. ev' = [ev EXCEPT ![g] = [ev[g] EXCEPT !.pc = "auto"]]
        BY <1>3, <3>1 DEF Lookup
      <4> QED
        BY <2>3, <4>0, <4>1, <4>2
    <3>2. CASE Claimed(g) # None
      BY <1>0, <1>3, <2>3, <3>2, QueriedType DEF Lookup
    <3> QED
      BY <3>1, <3>2
  <2>5. TypeOK'
    BY <1>0, <1>3, <2>2, <2>4 DEF TypeOK, Lookup, EvStates
  <2> QED
    BY <1>3, <2>5, QuietStep DEF Lookup
<1>4. ASSUME NEW g \in Gateways, AutoBind(g) PROVE IInv'
  <2> DEFINE n == IF Len(transports) <= 1
                  THEN First(repo, {m \in Known : mac[m] = None}) ELSE None
  <2>1. n \in Nets \cup {None}
    BY <1>0, KnownTypes
  <2>2. /\ mac' = IF n = None THEN mac ELSE [mac EXCEPT ![n] = g]
        /\ tnet' = [tnet EXCEPT ![g] = n] /\ Queried(g, g, n)
        /\ UNCHANGED <<repo, fresh, rf, transports, gcfg, rec, wiz, res, gone, task, ops>>
    BY <1>4 DEF AutoBind
  <2> HIDE DEF n
  <2>3. g \in Threads
    BY DEF Threads
  <2>4. ev' \in [Threads -> EvStates]
    BY <1>0, <2>2, <2>3, QueriedType
  <2>5. /\ mac' \in [Nets -> Gateways \cup {None}]
        /\ tnet' \in [Gateways -> Nets \cup {None}]
    BY <1>0, <2>1, <2>2 DEF TypeOK
  <2>6. TypeOK'
    BY <1>0, <2>2, <2>4, <2>5 DEF TypeOK, EvStates
  <2> QED
    BY <2>2, <2>6, QuietStep
<1>5. ASSUME NEW g \in Gateways, NEW c \in Configs, Reflash(g, c) PROVE IInv'
  <2>1. TypeOK'
    BY <1>0, <1>5 DEF TypeOK, Reflash
  <2> QED
    BY <1>5, <2>1, QuietStep DEF Reflash
<1>6. ASSUME NEW n \in Nets, NEW c \in Configs \cup {None}, ChangeChannel(n, c) PROVE IInv'
  <2>1. TypeOK'
    BY <1>0, <1>6 DEF TypeOK, ChangeChannel
  <2> QED
    BY <1>6, <2>1, QuietStep DEF ChangeChannel
<1>7. ASSUME NEW n \in Nets, DeleteNetwork(n) PROVE IInv'
  <2>1. repo' \in Seq(Nets)
    BY <1>0, <1>7, RemovedIn DEF TypeOK, DeleteNetwork
  <2>2. gone' \subseteq Gateways /\ ops' \in 0..MaxOps
    BY <1>0, <1>7 DEF TypeOK, DeleteNetwork
  <2>3. TypeOK'
    BY <1>0, <1>7, <2>1, <2>2 DEF TypeOK, DeleteNetwork
  <2> QED
    BY <1>7, <2>3, QuietStep DEF DeleteNetwork
<1> QED
  BY <1>1, <1>2, <1>3, <1>4, <1>5, <1>6, <1>7

\* A record that is rewritten outside a call, with the wizard of its token closed.
LEMMA RewriteStep ==
    ASSUME IInv, TypeOK', NEW g \in Gateways, NEW r \in Record \cup {None},
           r # None => Consistent(r), rec' = [rec EXCEPT ![g] = r], wiz' = Refused(g),
           res' = None, TaskInv'
    PROVE  IInv'
<1>1. rec' \in [Gateways -> Record \cup {None}] /\ rec'[g] = r
      /\ \A h \in Gateways \ {g} : rec'[h] = rec[h]
  BY DEF IInv, TypeOK
<1>2. RecInv'
  BY <1>1 DEF IInv, RecInv
<1>3. CallInv'
  BY DEF CallInv
<1>4. WizardIsCurrent'
  BY <1>1, RefusedType DEF IInv, TypeOK, Wizard, WizardIsCurrent
<1> QED
  BY <1>2, <1>3, <1>4 DEF IInv

\* Evaluate inside the lock, and forget.
LEMMA ServiceSteps ==
    ASSUME IInv,
           (\E a \in Threads : EvalStore(a)) \/ (\E g \in Gateways : Forget(g))
    PROVE  IInv'
<1> USE BindAssumption
<1>0. TypeOK
  BY DEF IInv
<1>1. ASSUME NEW a \in Threads, EvalStore(a) PROVE IInv'
  <2> DEFINE g == ev[a].g  n == ev[a].net  act == ev[a].act
             exp == IF n = None THEN None ELSE rf[n]
             adopt == n # None /\ exp = None
             r == [st |-> Verdict(n, act, exp), net |-> n, act |-> act,
                   exp |-> IF adopt THEN act ELSE exp, pend |-> FALSE]
  <2>1. /\ g \in Gateways \cup {None} /\ n \in Nets \cup {None} /\ act \in Configs \cup {None}
        /\ exp \in Configs \cup {None}
    BY <1>0 DEF TypeOK
  <2>2. /\ ~Locked /\ rf' = IF adopt THEN [rf EXCEPT ![n] = act] ELSE rf
        /\ rec' = [rec EXCEPT ![g] = r] /\ wiz' = Refused(g)
        /\ ev' = [ev EXCEPT ![a] = Idle] /\ task' = IF a = Task THEN None ELSE task
        /\ UNCHANGED <<repo, fresh, mac, transports, tnet, gcfg, res, gone, ops>>
    BY <1>1 DEF EvalStore
  <2>3. Verdict(n, act, exp) \in States
    BY DEF Verdict, States
  <2>4. r \in Record
    BY <2>1, <2>3 DEF Record
  <2>5. Consistent(r)
    BY <2>1 DEF Consistent, Verdict, RfDiff
  <2>6. rf' \in [Nets -> Configs \cup {None}]
    BY <1>0, <2>1, <2>2 DEF TypeOK
  <2>7. ev' \in [Threads -> EvStates]
    <3>1. Idle \in EvStates
      BY DEF Idle, EvStates
    <3> QED
      BY <1>0, <2>2, <3>1 DEF TypeOK, EvStates
  <2> HIDE DEF n, act, exp, adopt, r
  <2>8. rec' \in [Gateways -> Record \cup {None}]
    BY <1>0, <2>2, <2>4 DEF TypeOK
  <2>9. wiz' \in Wizard \cup {None}
    BY <1>0, <2>2 DEF TypeOK, Refused
  <2>10. TypeOK'
    BY <1>0, <2>2, <2>6, <2>7, <2>8, <2>9 DEF TypeOK, EvStates
  <2>11. TaskInv' /\ res' = None
    BY <2>2 DEF IInv, TaskInv, Locked
  <2>12. CASE g \in Gateways
    <3> HIDE DEF g
    <3> QED
      BY <2>2, <2>4, <2>5, <2>10, <2>11, <2>12, RewriteStep
  <2>13. CASE g \notin Gateways
    <3>1. rec' = rec
      BY <1>0, <2>2, <2>13 DEF TypeOK
    <3>2. wiz' = wiz
      BY <1>0, <2>2, <2>13 DEF TypeOK, Wizard, Refused
    <3> QED
      BY <2>10, <2>11, <3>1, <3>2 DEF IInv, RecInv, CallInv, WizardIsCurrent
  <2> QED
    BY <2>12, <2>13
<1>2. ASSUME NEW g \in Gateways, Forget(g) PROVE IInv'
  <2>1. wiz' = Refused(g) /\ wiz' \in Wizard \cup {None} /\ rec' = [rec EXCEPT ![g] = None]
    BY <1>0, <1>2, RefusedType DEF Forget
  <2>2. TypeOK'
    BY <1>0, <1>2, <2>1 DEF TypeOK, Forget
  <2>3. TaskInv' /\ res' = None
    BY <1>2 DEF IInv, TaskInv, Locked, Forget
  <2> QED
    BY <2>1, <2>2, <2>3, RewriteStep
<1> QED
  BY <1>1, <1>2

\* The operator's wizard and the answers it can give.
LEMMA AnswerSteps ==
    ASSUME IInv, NEW g \in Gateways,
           OpenWizard(g) \/ Retune(g) \/ Accept(g) \/ AcceptHost(g)
    PROVE  IInv'
<1> USE BindAssumption
<1>0. TypeOK /\ (rec[g] # None => rec[g] \in Record /\ Consistent(rec[g]))
  BY DEF IInv, RecInv, TypeOK
<1>1. CASE OpenWizard(g)
  <2>1. wiz' = [g |-> g, saw |-> rec[g], half |-> FALSE] /\ rec[g] # None /\ wiz' \in Wizard
        /\ wiz'.g = g /\ wiz'.saw = rec[g] /\ ~wiz'.half
    BY <1>0, <1>1 DEF OpenWizard, Wizard, TypeOK
  <2>2. TypeOK'
    BY <1>0, <1>1, <2>1 DEF TypeOK, OpenWizard, netVars
  <2>3. RecInv' /\ CallInv' /\ TaskInv'
    BY <1>1 DEF OpenWizard, IInv, RecInv, CallInv, TaskInv
  <2>4. WizardIsCurrent'
    BY <1>1, <2>1 DEF OpenWizard, WizardIsCurrent
  <2> QED
    BY <2>2, <2>3, <2>4 DEF IInv
<1>2. CASE Retune(g)
  <2>1. rec[g] # None /\ rec[g].exp # None /\ rec[g].st = "conflict" /\ ops < MaxOps
    BY <1>2 DEF Retune, MayResolve
  <2>2. res' = [op |-> "retune", g |-> g, net |-> rec[g].net, cfg |-> rec[g].exp]
        /\ ops' = ops + 1
        /\ UNCHANGED <<netVars, transports, tnet, gcfg, rec, wiz, gone, ev, task>>
    BY <1>2 DEF Retune
  <2>3. rec[g].net \in Nets \cup {None} /\ rec[g].exp \in Configs
    BY <1>0, <2>1, RecordFields
  <2>4. res' \in Call /\ res'.g = g /\ res'.cfg = rec[g].exp /\ ops' \in 0..MaxOps
    BY <1>0, <2>1, <2>2, <2>3 DEF Call, TypeOK
  <2>5. TypeOK'
    BY <1>0, <2>2, <2>4 DEF TypeOK, netVars
  <2>6. CallInv'
    BY <2>1, <2>2, <2>4 DEF CallInv
  <2>7. RecInv' /\ TaskInv' /\ WizardIsCurrent'
    BY <2>2 DEF IInv, RecInv, TaskInv, WizardIsCurrent
  <2> QED
    BY <2>5, <2>6, <2>7 DEF IInv
<1>3. CASE Accept(g)
  <2> DEFINE n == rec[g].net  c == rec[g].act
             r == [Settled(g, n, c) EXCEPT !.pend = FALSE]
  <2>1. rec[g] # None /\ ~Locked /\ ops < MaxOps /\ c # None /\ n \in Known
    BY <1>3 DEF Accept, MayResolve
  <2>2. /\ rf' = [rf EXCEPT ![n] = c] /\ rec' = [rec EXCEPT ![g] = r]
        /\ wiz' = Refused(g) /\ ops' = ops + 1
        /\ UNCHANGED <<repo, fresh, mac, transports, tnet, gcfg, res, gone, ev, task>>
    BY <1>3 DEF Accept
  <2>3. n \in Nets /\ c \in Configs
    BY <1>0, <2>1, RecordFields, KnownTypes
  <2>4. r \in Record /\ Consistent(r)
    BY <1>0, <2>1, <2>3, SettledType
  <2> HIDE DEF r, n, c
  <2>5. wiz' \in Wizard \cup {None} /\ ops' \in 0..MaxOps
    BY <1>0, <2>1, <2>2, RefusedType DEF TypeOK
  <2>6. TypeOK'
    BY <1>0, <2>2, <2>3, <2>4, <2>5 DEF TypeOK
  <2>7. TaskInv' /\ res' = None
    BY <2>1, <2>2 DEF IInv, TaskInv, Locked
  <2> QED
    BY <2>2, <2>4, <2>6, <2>7, RewriteStep
<1>4. CASE AcceptHost(g)
  <2> DEFINE r == [rec[g] EXCEPT !.pend = TRUE]
  <2>1. rec[g] # None /\ ~Locked /\ ops < MaxOps /\ rec[g].exp # None /\ rec[g].st = "conflict"
    BY <1>4 DEF AcceptHost, MayResolve
  <2>2. /\ rec' = [rec EXCEPT ![g] = r]
        /\ task' = [pc |-> "validate", g |-> None, net |-> rec[g].net, cfg |-> rec[g].exp]
        /\ wiz' = Refused(g) /\ ops' = ops + 1
        /\ UNCHANGED <<netVars, transports, tnet, gcfg, res, gone, ev>>
    BY <1>4 DEF AcceptHost
  <2>3. rec[g].net \in Nets /\ rec[g].exp \in Configs
    BY <1>0, <2>1, RecordFields DEF Consistent
  <2>4. r \in Record /\ Consistent(r)
    BY <1>0, <2>1 DEF Record, Consistent
  <2>5. task' \in Migration /\ task'.pc = "validate"
    BY <2>2, <2>3 DEF Migration
  <2> HIDE DEF r
  <2>6. wiz' \in Wizard \cup {None} /\ ops' \in 0..MaxOps
    BY <1>0, <2>1, <2>2, RefusedType DEF TypeOK
  <2>7. TypeOK'
    BY <1>0, <2>2, <2>4, <2>5, <2>6 DEF TypeOK, netVars
  <2>8. TaskInv' /\ res' = None
    BY <2>1, <2>2, <2>5 DEF TaskInv, Locked
  <2> QED
    BY <2>2, <2>4, <2>7, <2>8, RewriteStep
<1> QED
  BY <1>1, <1>2, <1>3, <1>4

\* create_network, at once or up to the push of the chosen channel.
LEMMA CreateStep ==
    ASSUME IInv, NEW g \in Gateways, NEW c \in Configs, Create(g, c)
    PROVE  IInv'
<1> USE BindAssumption
<1>0. TypeOK /\ rec[g] # None /\ ~Locked /\ res = None /\ ops' \in 0..MaxOps
  BY DEF IInv, TypeOK, Create, MayResolve, Locked
<1>1. UNCHANGED <<transports, gcfg, gone, ev, task>>
  BY DEF Create
<1>2. ASSUME NEW n \in fresh, Created(g, c, n), wiz' = Refused(g), UNCHANGED res
      PROVE  IInv'
  <2>1. n \in Nets
    BY <1>0 DEF TypeOK
  <2>2. rec' = [rec EXCEPT ![g] = Settled(g, n, c)] /\ Settled(g, n, c) \in Record
        /\ Consistent(Settled(g, n, c))
    BY <1>0, <1>2, <2>1, SettledType DEF Created
  <2>3. wiz' \in Wizard \cup {None}
    BY <1>0, <1>2, RefusedType
  <2>4. /\ repo' \in Seq(Nets) /\ fresh' \subseteq Nets /\ mac' \in [Nets -> Gateways \cup {None}]
        /\ rf' \in [Nets -> Configs \cup {None}] /\ tnet' \in [Gateways -> Nets \cup {None}]
        /\ rec' \in [Gateways -> Record \cup {None}]
    BY <1>0, <1>2, CreatedType
  <2>5. TypeOK'
    BY <1>0, <1>1, <1>2, <2>3, <2>4 DEF TypeOK
  <2>6. TaskInv' /\ res' = None
    BY <1>0, <1>1, <1>2 DEF IInv, TaskInv
  <2> QED
    BY <1>2, <2>2, <2>5, <2>6, RewriteStep
<1>3. ASSUME res' = [op |-> "create", g |-> g, net |-> None, cfg |-> c],
             UNCHANGED <<netVars, tnet, rec, wiz>>
      PROVE  IInv'
  <2>1. res' \in Call /\ res'.g = g /\ res'.op = "create"
    BY <1>3 DEF Call
  <2>2. TypeOK'
    BY <1>0, <1>1, <1>3, <2>1 DEF TypeOK, netVars
  <2>3. CallInv'
    BY <1>0, <1>3, <2>1 DEF CallInv
  <2>4. RecInv' /\ TaskInv' /\ WizardIsCurrent'
    BY <1>1, <1>3 DEF IInv, RecInv, TaskInv, WizardIsCurrent
  <2> QED
    BY <2>2, <2>3, <2>4 DEF IInv
<1> QED
  BY <1>2, <1>3 DEF Create

\* rebind: the network moves to the gateway, and the record follows as far as
\* the comparison of the two configs lets it.
LEMMA RebindStepInv ==
    ASSUME IInv, NEW g \in Gateways, NEW n \in Nets, NEW how \in {"ask", "retune", "accept"},
           Rebind(g, n, how)
    PROVE  IInv'
<1> USE BindAssumption
<1> DEFINE c == rec[g].act  e == rf[n]
           p == rec[g].pend /\ e = None
           done == [Settled(g, n, c) EXCEPT !.pend = p]
           left == [wiz EXCEPT !.half = TRUE]
<1>0. TypeOK /\ rec[g] # None /\ ~Locked /\ res = None /\ ops' \in 0..MaxOps /\ MaySwitch(g)
  BY DEF IInv, TypeOK, Rebind, MayResolve, Locked
<1>1. UNCHANGED <<repo, fresh, transports, gcfg, gone, ev, task>> /\ TaskInv'
  BY DEF Rebind, IInv, TaskInv
<1>2. mac' \in [Nets -> Gateways \cup {None}] /\ tnet' \in [Gateways -> Nets \cup {None}]
  BY <1>0 DEF Rebind, Moved, TypeOK
<1>3. rec[g] \in Record /\ c \in Configs \cup {None} /\ e \in Configs \cup {None} /\ p \in BOOLEAN
  BY <1>0, RecordFields DEF TypeOK
\* what is left to show of a step that rewrites the record
<1>4. ASSUME NEW r \in Record, Consistent(r), rec' = [rec EXCEPT ![g] = r],
             wiz' = Refused(g), UNCHANGED res, rf' \in [Nets -> Configs \cup {None}]
      PROVE  IInv'
  <2>1. wiz' \in Wizard \cup {None}
    BY <1>0, <1>4, RefusedType
  <2>2. TypeOK'
    BY <1>0, <1>1, <1>2, <1>4, <2>1 DEF TypeOK
  <2> QED
    BY <1>0, <1>1, <1>4, <2>2, RewriteStep
\* ... and of one that leaves the wizard open
<1>5. ASSUME rec' = [rec EXCEPT ![g] = Half(g, n)], wiz' = left, UNCHANGED rf, c # e,
             res' = None \/ res' = [op |-> "rebind", g |-> g, net |-> n, cfg |-> e],
             res' # None => e # None
      PROVE  IInv'
  <2>1. Half(g, n) \in Record /\ Consistent(Half(g, n)) /\ Half(g, n).exp = e
    BY <1>0, <1>5, HalfType DEF States
  <2>2. rec' \in [Gateways -> Record \cup {None}] /\ rec'[g] = Half(g, n)
        /\ \A h \in Gateways \ {g} : rec'[h] = rec[h]
    BY <1>0, <1>5, <2>1 DEF TypeOK
  <2>3. res' # None => res' \in Call /\ res'.g = g /\ res'.cfg = e
    BY <1>3, <1>5 DEF Call
  <2>8. wiz # None /\ wiz \in Wizard /\ wiz.g = g
    BY <1>0 DEF Rebind, MayResolve, TypeOK
  <2>9. wiz' \in Wizard /\ wiz'.g = g /\ wiz'.saw = wiz.saw /\ wiz'.half
    BY <1>5, <2>8 DEF Wizard
  <2>4. TypeOK'
    BY <1>0, <1>1, <1>2, <1>5, <2>2, <2>3, <2>9 DEF TypeOK
  <2>5. RecInv'
    BY <2>1, <2>2 DEF IInv, RecInv
  <2>6. CallInv'
    BY <2>1, <2>2, <2>3 DEF CallInv
  <2>7. WizardIsCurrent'
    <3>1. wiz.saw \in Record /\ rec[g] \in Record /\ Half(g, n) = [rec[g] EXCEPT !.net = n, !.exp = e]
      BY <1>3, <2>8 DEF Wizard, Half
    <3>2. rec[g] = wiz.saw \/ rec[g] = [wiz.saw EXCEPT !.net = rec[g].net, !.exp = rec[g].exp]
      BY <2>8 DEF IInv, WizardIsCurrent
    <3> DEFINE r == Half(g, n)
    <3>3. r.net = n /\ r.exp = e /\ r = [wiz.saw EXCEPT !.net = n, !.exp = e]
      BY <3>1, <3>2 DEF Record
    <3> HIDE DEF r
    <3>4. rec'[g] # None
      BY <2>1, <2>2
    <3> QED
      BY <2>2, <2>9, <3>3, <3>4 DEF WizardIsCurrent, r
  <2> QED
    BY <1>1, <2>4, <2>5, <2>6, <2>7 DEF IInv
<1>6. /\ done = [Settled(g, n, c) EXCEPT !.pend = @ /\ e = None]
      /\ Half(g, n) = [rec[g] EXCEPT !.net = n, !.exp = e]
  BY <1>3 DEF Settled, Record, Half
<1>7. CASE /\ c # None /\ rf' = [rf EXCEPT ![n] = c] /\ rec' = [rec EXCEPT ![g] = done]
           /\ wiz' = Refused(g) /\ UNCHANGED res
  <2>1. c \in Configs
    BY <1>3, <1>7
  <2>2. done \in Record /\ Consistent(done)
    BY <1>0, <1>3, <2>1, SettledType
  <2>3. rf' \in [Nets -> Configs \cup {None}]
    BY <1>0, <1>7, <2>1 DEF TypeOK
  <2> HIDE DEF done, c
  <2> QED
    BY <1>4, <1>7, <2>2, <2>3
<1>8. CASE /\ c # e /\ rec' = [rec EXCEPT ![g] = Half(g, n)] /\ wiz' = left /\ UNCHANGED <<rf, res>>
  BY <1>0, <1>5, <1>8
<1>9. CASE /\ e = c /\ rec' = [rec EXCEPT ![g] = [Half(g, n) EXCEPT !.st = "bound"]]
           /\ wiz' = Refused(g) /\ UNCHANGED <<rf, res>>
  <2> DEFINE r == [Half(g, n) EXCEPT !.st = "bound"]
  <2>1. r \in Record /\ Consistent(r)
    BY <1>0, <1>9, HalfType DEF States
  <2>2. rf' \in [Nets -> Configs \cup {None}] /\ rec' = [rec EXCEPT ![g] = r]
    BY <1>0, <1>9 DEF TypeOK
  <2> HIDE DEF r
  <2> QED
    BY <1>4, <1>9, <2>1, <2>2
<1>10. CASE /\ e \notin {None, c} /\ rec' = [rec EXCEPT ![g] = Half(g, n)]
            /\ wiz' = left /\ UNCHANGED rf
            /\ res' = IF g \notin Attached THEN None
                      ELSE [op |-> "rebind", g |-> g, net |-> n, cfg |-> e]
  BY <1>5, <1>10
<1>11. CASE /\ e \notin {None, c} /\ rec' = [rec EXCEPT ![g] = [Half(g, n) EXCEPT !.st = "conflict"]]
            /\ wiz' = Refused(g) /\ UNCHANGED <<rf, res>>
  <2> DEFINE r == [Half(g, n) EXCEPT !.st = "conflict"]
  <2>1. r \in Record /\ Consistent(r)
    BY <1>0, <1>11, HalfType DEF States
  <2>2. rf' \in [Nets -> Configs \cup {None}] /\ rec' = [rec EXCEPT ![g] = r]
    BY <1>0, <1>11 DEF TypeOK
  <2> HIDE DEF r
  <2> QED
    BY <1>4, <1>11, <2>1, <2>2
<1>12. RebindStep(g, n, how)
  BY DEF Rebind
<1> HIDE DEF done, left
<1>13. left = [wiz EXCEPT !.half = TRUE]
  BY DEF left
<1> QED
  BY <1>6, <1>7, <1>8, <1>9, <1>10, <1>11, <1>12, <1>13 DEF RebindStep

\* The gateway's answer to the call in flight, or none.
LEMMA PushSteps ==
    ASSUME IInv, PushOk \/ PushFails
    PROVE  IInv'
<1> USE BindAssumption
<1> DEFINE g == res.g  cfg == res.cfg
<1>0. TypeOK /\ res # None /\ res \in Call
  BY DEF IInv, TypeOK, PushOk, PushFails, Locked
<1>1. g \in Gateways /\ cfg \in Configs /\ rec[g] # None
      /\ (res.op # "create" => rec[g].exp = cfg)
  BY <1>0 DEF IInv, CallInv, Call
<1> HIDE DEF g, cfg
<1>2. CASE PushOk
  <2>1. /\ gcfg' \in {gcfg, [gcfg EXCEPT ![g] = cfg]} /\ res' = None /\ wiz' = Refused(g)
        /\ UNCHANGED <<transports, gone, ev, task, ops>>
    BY <1>2 DEF PushOk, g, cfg
  <2>2. gcfg' \in [Gateways -> Configs] /\ wiz' \in Wizard \cup {None} /\ TaskInv'
    BY <1>0, <1>1, <2>1, RefusedType DEF TypeOK, IInv, TaskInv
  <2>3. ASSUME NEW n \in fresh, Created(g, cfg, n)
        PROVE  IInv'
    <3>1. n \in Nets
      BY <1>0 DEF TypeOK
    <3>2. rec' = [rec EXCEPT ![g] = Settled(g, n, cfg)] /\ Settled(g, n, cfg) \in Record
          /\ Consistent(Settled(g, n, cfg))
      BY <1>0, <1>1, <2>3, <3>1, SettledType DEF Created
    <3>3. /\ repo' \in Seq(Nets) /\ fresh' \subseteq Nets /\ mac' \in [Nets -> Gateways \cup {None}]
          /\ rf' \in [Nets -> Configs \cup {None}] /\ tnet' \in [Gateways -> Nets \cup {None}]
          /\ rec' \in [Gateways -> Record \cup {None}]
      BY <1>1, <2>3, CreatedType
    <3>4. TypeOK'
      BY <1>0, <2>1, <2>2, <3>3 DEF TypeOK
    <3> QED
      BY <1>1, <2>1, <2>2, <3>2, <3>4, RewriteStep
  <2>4. ASSUME res.op # "create", UNCHANGED <<netVars, tnet>>,
               rec' = [rec EXCEPT ![g].act = cfg, ![g].st = "bound",
                                  ![g].pend = IF res.op = "retune" THEN FALSE ELSE @]
        PROVE  IInv'
    <3> DEFINE p == IF res.op = "retune" THEN FALSE ELSE rec[g].pend
               r == [rec[g] EXCEPT !.act = cfg, !.st = "bound", !.pend = p]
    <3>1. rec[g] \in Record /\ p \in BOOLEAN
      BY <1>0, <1>1, RecordFields DEF TypeOK
    <3>2. r \in Record /\ r.st = "bound" /\ r.act = cfg /\ r.exp = rec[g].exp
      BY <1>1, <3>1 DEF Record, States
    <3>3. rec' = [rec EXCEPT ![g] = r]
      BY <1>0, <1>1, <2>4, <3>1 DEF TypeOK, Record
    <3> HIDE DEF r
    <3>4. Consistent(r)
      BY <1>1, <2>4, <3>2 DEF Consistent
    <3>5. TypeOK'
      <4>1. rec' \in [Gateways -> Record \cup {None}]
        BY <1>0, <3>2, <3>3 DEF TypeOK
      <4> QED
        BY <1>0, <2>1, <2>2, <2>4, <4>1 DEF TypeOK, netVars
    <3> QED
      BY <1>1, <2>1, <2>2, <3>2, <3>3, <3>4, <3>5, RewriteStep
  <2> QED
    BY <1>2, <2>3, <2>4 DEF PushOk, g, cfg
<1>3. CASE PushFails
  <2>1. gcfg' \in [Gateways -> Configs]
    BY <1>0, <1>1, <1>3 DEF TypeOK, PushFails, cfg
  <2>2. res' = None /\ UNCHANGED <<netVars, transports, tnet, rec, wiz, gone, ev, task, ops>>
    BY <1>3 DEF PushFails
  <2>3. TypeOK'
    BY <1>0, <2>1, <2>2 DEF TypeOK, netVars
  <2> QED
    BY <2>2, <2>3 DEF IInv, RecInv, CallInv, TaskInv, WizardIsCurrent
<1> QED
  BY <1>2, <1>3

\* A migration, from its request to the evaluation it ends with.
LEMMA TaskSteps ==
    ASSUME IInv,
           \/ \E n \in Nets, c \in Configs : Migrate(n, c)
           \/ TaskValidate \/ TaskSwitch \/ TaskSwitchFails \/ TaskReevaluate
    PROVE  IInv'
<1> USE BindAssumption
<1>0. TypeOK /\ (task # None => task \in Migration /\ task.net \in Nets /\ task.cfg \in Configs)
  BY DEF IInv, TypeOK, Migration
<1>1. ASSUME TypeOK', UNCHANGED <<rec, res, wiz>>, TaskInv'
      PROVE  IInv'
  BY <1>1 DEF IInv, RecInv, CallInv, WizardIsCurrent
<1>2. ASSUME NEW n \in Nets, NEW c \in Configs, Migrate(n, c) PROVE IInv'
  <2>1. task' = [pc |-> "validate", g |-> None, net |-> n, cfg |-> c] /\ ops' \in 0..MaxOps
        /\ UNCHANGED <<netVars, transports, tnet, gcfg, rec, wiz, res, gone, ev>>
    BY <1>0, <1>2 DEF Migrate, TypeOK
  <2>2. task' \in Migration /\ task'.pc = "validate"
    BY <2>1 DEF Migration
  <2>3. TypeOK'
    BY <1>0, <2>1, <2>2 DEF TypeOK, netVars
  <2>4. TaskInv'
    BY <2>2 DEF TaskInv
  <2> QED
    BY <1>1, <2>1, <2>3, <2>4
<1>3. CASE TaskValidate
  <2> DEFINE g == IF task.net \in Known THEN TransportFor(task.net) ELSE None
  <2>1. g \in Gateways \cup {None}
    BY <1>0, KnownTypes
  <2>2. /\ task # None
        /\ task' = IF g = None THEN None ELSE [task EXCEPT !.pc = "switch", !.g = g]
        /\ UNCHANGED <<netVars, transports, tnet, gcfg, rec, wiz, res, gone, ev, ops>>
    BY <1>3 DEF TaskValidate
  <2> HIDE DEF g
  <2>3. task' # None => task' \in Migration /\ task'.g \in Gateways
    BY <1>0, <2>1, <2>2 DEF Migration
  <2>4. TypeOK'
    BY <1>0, <2>2, <2>3 DEF TypeOK, netVars
  <2>5. TaskInv'
    BY <2>3 DEF TaskInv
  <2> QED
    BY <1>1, <2>2, <2>4, <2>5
<1>4. CASE TaskSwitch
  <2>1. /\ task # None /\ task.pc = "switch"
        /\ gcfg' \in {gcfg, [gcfg EXCEPT ![task.g] = task.cfg]}
        /\ rf' = [rf EXCEPT ![task.net] = task.cfg]
        /\ task' = [task EXCEPT !.pc = "reeval"]
        /\ UNCHANGED <<repo, fresh, mac, transports, tnet, rec, wiz, res, gone, ev, ops>>
    BY <1>4 DEF TaskSwitch
  <2>2. task.g \in Gateways
    BY <2>1 DEF IInv, TaskInv
  <2>3. task' \in Migration /\ task'.g = task.g
    BY <1>0, <2>1 DEF Migration
  <2>4. gcfg' \in [Gateways -> Configs] /\ rf' \in [Nets -> Configs \cup {None}]
    BY <1>0, <2>1 DEF TypeOK
  <2>5. TypeOK'
    BY <1>0, <2>1, <2>3, <2>4 DEF TypeOK
  <2>6. TaskInv'
    BY <2>2, <2>3 DEF TaskInv
  <2> QED
    BY <1>1, <2>1, <2>5, <2>6
<1>5. CASE TaskSwitchFails
  <2>0. task # None /\ task' = None
        /\ gcfg' \in {gcfg} \cup {[gcfg EXCEPT ![g] = task.cfg] : g \in {task.g} \cap Attached}
    BY <1>5 DEF TaskSwitchFails
  <2> DEFINE cfg == task.cfg
  <2>1. gcfg' \in [Gateways -> Configs] /\ task' = None
    <3>1. cfg \in Configs /\ (gcfg' = gcfg \/ \E g : gcfg' = [gcfg EXCEPT ![g] = cfg])
      BY <1>0, <2>0
    <3> HIDE DEF cfg
    <3>2. gcfg \in [Gateways -> Configs]
      BY <1>0 DEF TypeOK
    <3>3. ASSUME NEW g PROVE [gcfg EXCEPT ![g] = cfg] \in [Gateways -> Configs]
      BY <3>1, <3>2
    <3> QED
      BY <2>0, <3>1, <3>2, <3>3
  <2>2. UNCHANGED <<netVars, transports, tnet, rec, wiz, res, gone, ev, ops>>
    BY <1>5 DEF TaskSwitchFails
  <2>3. TypeOK'
    BY <1>0, <2>1, <2>2 DEF TypeOK, netVars
  <2> QED
    BY <1>1, <2>1, <2>2, <2>3 DEF TaskInv
<1>6. CASE TaskReevaluate
  <2>1. /\ task # None /\ task.pc = "reeval"
        /\ UNCHANGED <<netVars, transports, tnet, gcfg, rec, wiz, res, ops>>
    BY <1>6 DEF TaskReevaluate
  <2>2. task.g \in Gateways /\ Task \in Threads
    BY <2>1 DEF IInv, TaskInv, Threads
  <2>3. CASE Queried(Task, task.g, tnet[task.g]) /\ UNCHANGED <<gone, task>>
    <3>1. ev' \in [Threads -> EvStates]
      BY <1>0, <2>2, <2>3, QueriedType
    <3>2. TypeOK'
      BY <1>0, <2>1, <2>3, <3>1 DEF TypeOK, netVars, EvStates
    <3> QED
      BY <1>1, <2>1, <2>3, <3>2 DEF IInv, TaskInv
  <2>4. CASE gone' = gone \cup {task.g} /\ task' = None /\ UNCHANGED ev
    <3>1. TypeOK'
      BY <1>0, <2>1, <2>2, <2>4 DEF TypeOK, netVars
    <3> QED
      BY <1>1, <2>1, <2>4, <3>1 DEF TaskInv
  <2> QED
    BY <1>6, <2>3, <2>4 DEF TaskReevaluate
<1> QED
  BY <1>2, <1>3, <1>4, <1>5, <1>6

LEMMA NextIInv == IInv /\ [Next]_vars => IInv'
<1> SUFFICES ASSUME IInv, [Next]_vars PROVE IInv'
  OBVIOUS
<1>1. CASE HostStep
  BY <1>1, OutsideSteps, ServiceSteps, PushSteps, TaskSteps DEF HostStep
<1>2. CASE Resolve
  BY <1>2, AnswerSteps, CreateStep, RebindStepInv DEF Resolve
<1>3. CASE UNCHANGED vars
  <2>1. TypeOK'
    BY <1>3 DEF vars, TypeOK, IInv
  <2> QED
    BY <1>3, <2>1, QuietStep DEF vars
<1> QED
  BY <1>1, <1>2, <1>3, OutsideSteps, AnswerSteps, TaskSteps DEF Next

LEMMA Invariance == Spec => []IInv
BY InitIInv, NextIInv, PTL DEF Spec

\* Type correctness of the gateway records, the networks and every thread in
\* between, for any number of gateways, networks, channels and requests.
THEOREM TypeCorrect == Spec => []TypeOK
<1>1. IInv => TypeOK
  BY DEF IInv
<1> QED
  BY Invariance, <1>1, PTL

\* Whatever evaluation, answer, half-done rebind, lost push or detach came in
\* between, GatewayBindService shows bound exactly for equal configs and conflict
\* for different ones, and while a wizard's token matches the record is the one
\* its operator was shown; a rebind left half done with the same token may have
\* changed the network and the config it expects, nothing else.
THEOREM RecordsTrue == Spec => []RecordsAreTrue
<1>1. IInv => RecordsAreTrue
  BY DEF IInv, RecInv, Consistent, RecordsAreTrue, StateFollowsDiff
<1> QED
  BY Invariance, <1>1, PTL

----------------------------------------------------------------------------
(* Networks stay apart                                                     *)

\* Naming g in network n, and in no other known network, keeps claims unique.
LEMMA MovedClaims ==
    ASSUME TypeOK, OneNetworkPerGateway, NEW g \in Gateways, NEW n \in Nets,
           mac' = [m \in Nets |-> IF m = n THEN g
                                  ELSE IF mac[m] = g /\ m \in Known THEN None ELSE mac[m]],
           Known' \subseteq Known \cup {n}
    PROVE  OneNetworkPerGateway'
<1> SUFFICES ASSUME NEW k \in Known', NEW m \in Known', mac'[k] = mac'[m], mac'[k] # None
             PROVE  k = m
  BY DEF OneNetworkPerGateway
<1>1. k \in Nets /\ m \in Nets
  BY KnownTypes
<1>2. \A x \in Known : mac'[x] = g => x = n
  BY KnownTypes, BindAssumption
<1> QED
  BY <1>1, <1>2 DEF OneNetworkPerGateway

\* A network that takes a channel nobody else is on keeps the channels apart.
LEMMA TakenChannel ==
    ASSUME TypeOK, Separate, NEW n \in Nets, NEW c \in Configs \cup {None},
           rf' = [rf EXCEPT ![n] = c], c # None => Occupants(c, n) = {},
           Known' \subseteq Known \cup {n}
    PROVE  Separate'
<1> SUFFICES ASSUME NEW k \in Known', rf'[k] # None, NEW m \in Known' \ {k}, rf'[m] # None,
                    Channel(rf'[m]) = Channel(rf'[k])
             PROVE  FALSE
  BY DEF Separate, Occupants
<1>1. k \in Nets /\ m \in Nets /\ (k # n => k \in Known) /\ (m # n => m \in Known)
  BY KnownTypes
<1>2. rf'[n] = c /\ \A x \in Nets \ {n} : rf'[x] = rf[x]
  BY DEF TypeOK
<1>3. CASE k = n
  BY <1>1, <1>2, <1>3 DEF Occupants
<1>4. CASE m = n
  BY <1>1, <1>2, <1>4 DEF Occupants
<1>5. CASE k # n /\ m # n
  BY <1>1, <1>2, <1>5 DEF Occupants, Separate
<1> QED
  BY <1>3, <1>4, <1>5

\* Fewer networks, the same claims and channels.
LEMMA FewerNetworks ==
    ASSUME Known' \subseteq Known
    PROVE  /\ OneNetworkPerGateway /\ mac' = mac => OneNetworkPerGateway'
           /\ Separate /\ rf' = rf => Separate'
<1>1. OneNetworkPerGateway /\ mac' = mac => OneNetworkPerGateway'
  BY DEF OneNetworkPerGateway
<1>2. Separate /\ rf' = rf => Separate'
  BY DEF Separate, Occupants
<1> QED
  BY <1>1, <1>2

\* What an answer does to the networks.
LEMMA CreatedNetwork ==
    ASSUME TypeOK, NEW g \in Gateways, NEW c \in Configs, NEW n \in fresh, Created(g, c, n)
    PROVE  /\ OneNetworkPerGateway => OneNetworkPerGateway'
           /\ Separate /\ Occupants(c, None) = {} => Separate'
<1>1. n \in Nets /\ repo' = Append(repo, n)
  BY DEF TypeOK, Created
<1>2. Known' = Known \cup {n}
  BY <1>1, AppendIn DEF TypeOK, Known
<1>3. Occupants(c, n) \subseteq Occupants(c, None)
  BY KnownTypes DEF Occupants
<1>4. OneNetworkPerGateway => OneNetworkPerGateway'
  BY <1>1, <1>2, MovedClaims DEF Created
<1>5. Separate /\ Occupants(c, None) = {} => Separate'
  BY <1>1, <1>2, <1>3, TakenChannel DEF Created
<1> QED
  BY <1>4, <1>5

\* The steps that leave the list, the claims and the channels alone.
LEMMA OtherSteps ==
    ASSUME UNCHANGED <<repo, mac, rf>>
    PROVE  ClaimsStayUnique /\ ChannelsStayApart
<1>1. Known' = Known
  BY DEF Known
<1> QED
  BY <1>1, FewerNetworks DEF ClaimsStayUnique, ChannelsStayApart

LEMMA NextApart == ASSUME TypeOK, Next PROVE ClaimsStayUnique /\ ChannelsStayApart
<1>1. ASSUME NEW g \in Gateways,
             Attach(g) \/ Detach(g) \/ Lookup(g) \/ Forget(g) \/ OpenWizard(g) \/ Retune(g)
             \/ AcceptHost(g)
      PROVE  ClaimsStayUnique /\ ChannelsStayApart
  <2>1. UNCHANGED <<repo, mac, rf>>
    BY <1>1 DEF Attach, Detach, Lookup, Forget, OpenWizard, Retune, AcceptHost, netVars
  <2> QED
    BY <2>1, OtherSteps
<1>2. CASE \/ PushFails \/ TaskValidate \/ TaskSwitchFails \/ TaskReevaluate
           \/ \E g \in Gateways, c \in Configs : Reflash(g, c)
           \/ \E n \in Nets, c \in Configs : Migrate(n, c)
  <2>1. UNCHANGED <<repo, mac, rf>>
    BY <1>2 DEF PushFails, TaskValidate, TaskSwitchFails, TaskReevaluate, Reflash, Migrate, netVars
  <2> QED
    BY <2>1, OtherSteps
<1>3. ASSUME NEW g \in Gateways, AutoBind(g)
      PROVE  ClaimsStayUnique /\ ChannelsStayApart
  <2>1. Known' = Known /\ rf' = rf
    BY <1>3 DEF AutoBind, Known
  <2> QED
    BY <1>3, <2>1, FewerNetworks DEF ClaimsStayUnique, ChannelsStayApart
<1>4. CASE (\E a \in Threads : EvalStore(a)) \/ TaskSwitch
  <2>1. Known' = Known /\ mac' = mac
    BY <1>4 DEF EvalStore, TaskSwitch, Known
  <2> QED
    BY <1>4, <2>1, FewerNetworks DEF ClaimsStayUnique, ChannelsStayApart
<1>5. ASSUME NEW g \in Gateways, Accept(g)
      PROVE  ClaimsStayUnique /\ ChannelsStayApart
  <2> DEFINE n == rec[g].net  c == rec[g].act
  <2>1. /\ n \in Known /\ c # None /\ Occupants(c, n) = {} /\ rf' = [rf EXCEPT ![n] = c]
        /\ repo' = repo /\ mac' = mac /\ rec[g] # None
    BY <1>5 DEF Accept, MayResolve
  <2>2. n \in Nets /\ c \in Configs \cup {None} /\ Known' = Known
    BY <2>1, KnownTypes, RecordFields DEF TypeOK, Known
  <2> HIDE DEF n, c
  <2> QED
    BY <2>1, <2>2, FewerNetworks, TakenChannel DEF ClaimsStayUnique, ChannelsStayApart
<1>6. ASSUME NEW g \in Gateways, NEW c \in Configs, Create(g, c)
      PROVE  ClaimsStayUnique /\ ChannelsStayApart
  <2>1. CASE \E n \in fresh : Created(g, c, n)
    <3>1. Occupants(c, None) = {}
      BY <1>6 DEF Create
    <3> QED
      BY <2>1, <3>1, CreatedNetwork DEF ClaimsStayUnique, ChannelsStayApart
  <2>2. CASE UNCHANGED netVars
    BY <2>2, OtherSteps DEF netVars
  <2> QED
    BY <1>6, <2>1, <2>2 DEF Create
<1>7. ASSUME NEW g \in Gateways, NEW n \in Nets, NEW how \in {"ask", "retune", "accept"},
             Rebind(g, n, how)
      PROVE  ClaimsStayUnique /\ ChannelsStayApart
  <2>1. Known' = Known /\ Moved(g, n) /\ rec[g] # None
    BY <1>7 DEF Rebind, MayResolve, Known
  <2>2. OneNetworkPerGateway => OneNetworkPerGateway'
    BY <2>1, MovedClaims DEF Moved
  <2>3. CASE rf' = rf
    BY <2>1, <2>2, <2>3, FewerNetworks DEF ClaimsStayUnique, ChannelsStayApart
  <2>4. CASE rf' # rf
    <3> DEFINE c == rec[g].act
    <3>1. rf' = [rf EXCEPT ![n] = c] /\ Occupants(c, n) = {}
      BY <1>7, <2>4 DEF Rebind, RebindStep
    <3>2. c \in Configs \cup {None}
      BY <2>1, RecordFields DEF TypeOK
    <3> HIDE DEF c
    <3> QED
      BY <2>1, <2>2, <3>1, <3>2, TakenChannel DEF ClaimsStayUnique, ChannelsStayApart
  <2> QED
    BY <2>3, <2>4
<1>8. CASE PushOk
  <2>1. CASE UNCHANGED netVars
    BY <2>1, OtherSteps DEF netVars
  <2>2. CASE res.op = "create" /\ \E n \in fresh : Created(res.g, res.cfg, n)
    <3>1. res.g \in Gateways /\ res.cfg \in Configs
      BY <1>8 DEF PushOk, Locked, TypeOK, Call
    <3>2. OneNetworkPerGateway => OneNetworkPerGateway'
      BY <2>2, <3>1, CreatedNetwork
    <3> QED
      BY <1>8, <3>2 DEF ClaimsStayUnique, ChannelsStayApart
  <2> QED
    BY <1>8, <2>1, <2>2 DEF PushOk
<1>9. ASSUME NEW n \in Nets, NEW c \in Configs \cup {None}, ChangeChannel(n, c)
      PROVE  ClaimsStayUnique /\ ChannelsStayApart
  <2>1. /\ Known' = Known /\ mac' = mac /\ rf' = [rf EXCEPT ![n] = c]
        /\ c # None => Occupants(c, n) = {}
    BY <1>9 DEF ChangeChannel, Known
  <2> QED
    BY <2>1, FewerNetworks, TakenChannel DEF ClaimsStayUnique, ChannelsStayApart
<1>10. ASSUME NEW n \in Nets, DeleteNetwork(n)
       PROVE  ClaimsStayUnique /\ ChannelsStayApart
  <2>1. repo' \in Removed(repo, n) /\ mac' = mac /\ rf' = rf
    BY <1>10 DEF DeleteNetwork
  <2>2. Known' \subseteq Known
    BY <2>1, RemovedIn DEF TypeOK, Known
  <2> QED
    BY <2>1, <2>2, FewerNetworks DEF ClaimsStayUnique, ChannelsStayApart
<1> QED
  BY <1>1, <1>2, <1>3, <1>4, <1>5, <1>6, <1>7, <1>8, <1>9, <1>10 DEF Next, HostStep, Resolve

\* Two networks come to name one gateway only by the connect hook's claim, and to
\* share a channel only by a first-contact adoption, by a migration or by a
\* create_network that was overtaken while it waited; every other answer, route
\* and task step keeps them apart, for any number of gateways and networks.
THEOREM NetworksApart == Spec => NetworksStayApart
<1>1. TypeOK /\ [Next]_vars => [ClaimsStayUnique /\ ChannelsStayApart]_vars
  BY NextApart
<1> QED
  BY TypeCorrect, <1>1, PTL DEF Spec, NetworksStayApart

=============================================================================
