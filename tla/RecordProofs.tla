----------------------------- MODULE RecordProofs -----------------------------
(***************************************************************************)
(* Proofs about the records the host keeps of its nodes, groups, scenes    *)
(* and networks, for any number of each and any number of requests:        *)
(* membership and identity (GroupMembership) and the RF configs of nodes   *)
(* and gateways (RfMigration).                                             *)
(*                                                                         *)
(* GroupMembership.  The inductive invariant adds to TypeOK that a task    *)
(* about to send has a device to send to and that the offset table of a    *)
(* container only names groups of its target.  The edits of the group list *)
(* are facts about sequences: what stands where after a removal and after  *)
(* a stable sort by a permutation.                                         *)
(*                                                                         *)
(* RfMigration.  RecordsLead and JobsTellTheTruth are not inductive: what  *)
(* a job reports depends on what it pushed, to whom and over which         *)
(* gateway, which the steps between its commands have to keep although     *)
(* requests, IDENTIFY events and power cycles come between them            *)
(* (RecordTaken, CurIsHome, PushedFollow, MembersFollow, ScanTuned).       *)
(***************************************************************************)
EXTENDS GroupMembership, RfMigration, SequenceTheorems, FiniteSetTheorems,
        WellFoundedInduction, TLAPS

----------------------------------------------------------------------------
(*                Groups, membership and scene references                 *)
----------------------------------------------------------------------------
\* No element occurs twice in a list.
NoRepeat(s) == \A i, j \in 1 .. Len(s) : s[i] = s[j] => i = j

\* The offset table of a container names some of its target.
TableInTarget == scenes.table \subseteq scenes.target

\* The device a task is about to send to.
CurInv == task.pc = "send" => task.cur \in Devices

IInv == TypeOK /\ CurInv /\ TableInTarget

----------------------------------------------------------------------------
(* Lists of groups                                                         *)

LEMMA IndexTypes == Cardinality(GroupIds) \in Nat /\ Indices \subseteq Nat /\ 0 \in Indices
  BY GroupsAssumption, FS_CardinalityType DEF Indices

\* A list without repetitions is no longer than the set it draws from.
LEMMA ListFits ==
    ASSUME NEW s \in Seq(GroupIds), NoRepeat(s)
    PROVE  Len(s) \in Nat /\ Len(s) <= Cardinality(GroupIds) /\ 0 .. Len(s) \subseteq Indices
<1>1. Len(s) \in Nat /\ s \in [1 .. Len(s) -> GroupIds]
  BY LenProperties
<1>2. IsFiniteSet(1 .. Len(s)) /\ Cardinality(1 .. Len(s)) = Len(s)
  BY <1>1, FS_Interval
<1>3. ~(Cardinality(GroupIds) < Len(s))
  BY <1>1, <1>2, GroupsAssumption, FS_PigeonHole DEF NoRepeat
<1> QED
  BY <1>1, <1>3, IndexTypes DEF Indices

\* A new group still fits.
LEMMA RoomForOne ==
    ASSUME NEW s \in Seq(GroupIds), NoRepeat(s), NEW x \in GroupIds,
           \A i \in 1 .. Len(s) : s[i] # x
    PROVE  /\ Append(s, x) \in Seq(GroupIds) /\ NoRepeat(Append(s, x))
           /\ Len(Append(s, x)) = Len(s) + 1 /\ Len(s) + 1 \in Indices
           /\ \A i \in 1 .. Len(s) : Append(s, x)[i] = s[i]
           /\ Append(s, x)[Len(s) + 1] = x
<1> DEFINE t == Append(s, x)
<1>1. /\ t \in Seq(GroupIds) /\ Len(t) = Len(s) + 1 /\ Len(s) \in Nat
      /\ \A i \in 1 .. Len(s) : t[i] = s[i]
      /\ t[Len(s) + 1] = x
  BY AppendProperties, LenProperties
<1> HIDE DEF t
<1>2. NoRepeat(t)
  BY <1>1 DEF NoRepeat
<1>3. Len(t) \in Indices
  BY <1>1, <1>2, ListFits
<1> QED
  BY <1>1, <1>2, <1>3 DEF t

\* Taking one element out.
Without(s, i) == SubSeq(s, 1, i - 1) \o SubSeq(s, i + 1, Len(s))
LEMMA WithoutOne ==
    ASSUME NEW s \in Seq(GroupIds), NEW i \in 1 .. Len(s)
    PROVE  /\ Without(s, i) \in Seq(GroupIds) /\ Len(Without(s, i)) = Len(s) - 1
           /\ \A j \in 1 .. Len(s) - 1 : Without(s, i)[j] = IF j < i THEN s[j] ELSE s[j + 1]
<1> DEFINE a == SubSeq(s, 1, i - 1)
           b == SubSeq(s, i + 1, Len(s))
<1>1. Len(s) \in Nat /\ i \in Nat /\ 1 <= i /\ i <= Len(s) /\ \A j \in 1 .. Len(s) : s[j] \in GroupIds
  BY LenProperties, ElementOfSeq
<1>2. /\ a \in Seq(GroupIds) /\ Len(a) = i - 1 /\ \A j \in 1 .. i - 1 : a[j] = s[j]
  BY <1>1, SubSeqProperties
<1>3. /\ b \in Seq(GroupIds) /\ Len(b) = Len(s) - i /\ \A j \in 1 .. Len(s) - i : b[j] = s[i + j]
  <2>1. i + 1 \in Int /\ Len(s) \in Int /\ \A j \in i + 1 .. Len(s) : s[j] \in GroupIds
    BY <1>1
  <2>2. /\ b \in Seq(GroupIds)
        /\ Len(b) = IF i + 1 <= Len(s) THEN Len(s) - (i + 1) + 1 ELSE 0
        /\ \A j \in 1 .. Len(s) - (i + 1) + 1 : b[j] = s[(i + 1) + j - 1]
    BY <2>1, SubSeqProperties
  <2> HIDE DEF b
  <2>3. ASSUME NEW j \in 1 .. Len(s) - i PROVE b[j] = s[i + j]
    <3>1. j \in 1 .. Len(s) - (i + 1) + 1 /\ (i + 1) + j - 1 = i + j
      BY <1>1
    <3> QED
      BY <2>2, <3>1
  <2> QED
    BY <1>1, <2>2, <2>3
<1> HIDE DEF a, b
<1>4. /\ a \o b \in Seq(GroupIds) /\ Len(a \o b) = Len(a) + Len(b)
      /\ \A j \in 1 .. Len(a) + Len(b) : (a \o b)[j] = IF j <= Len(a) THEN a[j] ELSE b[j - Len(a)]
  BY <1>2, <1>3, ConcatProperties
<1>5. ASSUME NEW j \in 1 .. Len(s) - 1
      PROVE  (a \o b)[j] = IF j < i THEN s[j] ELSE s[j + 1]
  <2>1. (a \o b)[j] = IF j <= i - 1 THEN a[j] ELSE b[j - (i - 1)]
    <3>1. j \in 1 .. Len(a) + Len(b)
      BY <1>1, <1>2, <1>3
    <3> QED
      BY <1>2, <1>4, <3>1
  <2>2. CASE j < i
    <3>1. j \in 1 .. i - 1 /\ j <= i - 1
      BY <1>1, <2>2
    <3> QED
      BY <1>2, <2>1, <2>2, <3>1
  <2>3. CASE ~(j < i)
    <3>1. j - (i - 1) \in 1 .. Len(s) - i /\ i + (j - (i - 1)) = j + 1 /\ ~(j <= i - 1)
      BY <1>1, <2>3
    <3>2. b[j - (i - 1)] = s[i + (j - (i - 1))]
      BY <1>3, <3>1
    <3> QED
      BY <2>1, <2>3, <3>1, <3>2
  <2> QED
    BY <2>2, <2>3
<1>6. Len(a \o b) = Len(s) - 1
  BY <1>1, <1>2, <1>3, <1>4
<1>7. Without(s, i) = a \o b
  BY DEF Without, a, b
<1> QED
  BY <1>4, <1>5, <1>6, <1>7

\* A one-to-one map of 1 .. n into itself reaches every position.
LEMMA Permutes ==
    ASSUME NEW n \in Nat, NEW f \in [1 .. n -> 1 .. n],
           \A i, j \in 1 .. n : f[i] = f[j] => i = j
    PROVE  \A v \in 1 .. n : \E i \in 1 .. n : f[i] = v
<1>1. IsFiniteSet(1 .. n)
  BY FS_Interval
<1>2. f \in Injection(1 .. n, 1 .. n)
  BY DEF Injection, IsInjective
<1>3. f \in Surjection(1 .. n, 1 .. n)
  BY <1>1, <1>2, FS_Injection
<1> QED
  BY <1>3 DEF Surjection

\* A nonempty set of positions has a first one.
LEMMA LeastPosition ==
    ASSUME NEW I \in SUBSET Nat, I # {}
    PROVE  \E i \in I : \A j \in I : i <= j
<1> DEFINE R == OpToRel(<, Nat)
<1>1. IsWellFoundedOn(R, Nat)
  BY NatLessThanWellFounded
<1> HIDE DEF R
<1>2. \E i \in I : \A j \in I : ~(<<j, i>> \in R)
  BY <1>1, WFMin
<1>3. \A i, j \in Nat : <<j, i>> \in R <=> j < i
  BY DEF R, OpToRel
<1>4. PICK i \in I : \A j \in I : ~(<<j, i>> \in R)
  BY <1>2
<1>5. \A j \in I : ~(j < i)
  BY <1>3, <1>4
<1>6. \A j \in I : i <= j
  BY <1>5
<1> QED
  BY <1>6

----------------------------------------------------------------------------
(* Types                                                                   *)

LEMMA KnownType == ASSUME TypeOK PROVE Known \subseteq Devices /\ InUse \subseteq GroupIds
  BY LenProperties, ElementOfSeq DEF TypeOK, Known, InUse

LEMMA GroupsFit ==
    ASSUME TypeOK
    PROVE  /\ groups \in Seq(GroupIds) /\ NoRepeat(groups) /\ Len(groups) \in Nat
           /\ 0 .. Len(groups) \subseteq Indices
  BY ListFits DEF TypeOK, NoRepeat

\* The network of a group is the network of a member.
LEMMA MemberNetType ==
    ASSUME NEW i, NEW list \in Seq(Devices), NEW g, NEW n \in [Devices -> Bindings]
    PROVE  MemberNet(i, list, g, n) \in Bindings
<1> DEFINE bound == {k \in 1 .. Len(list) : g[list[k]] = i /\ n[list[k]] # NoNet}
           first == CHOOSE k \in bound : \A j \in bound : k <= j
<1>1. CASE bound = {}
  BY <1>1 DEF MemberNet, Bindings
<1>2. CASE bound # {}
  <2>1. Len(list) \in Nat
    BY LenProperties
  <2>2. bound \in SUBSET Nat
    BY <2>1
  <2>3. \E k \in bound : \A j \in bound : k <= j
    BY <1>2, <2>2, LeastPosition
  <2>4. first \in bound
    BY <2>3
  <2>5. list[first] \in Devices
    BY <2>4, ElementOfSeq
  <2>6. MemberNet(i, list, g, n) = n[list[first]]
    BY <1>2 DEF MemberNet
  <2> QED
    BY <2>5, <2>6
<1> QED
  BY <1>1, <1>2

LEMMA ReconciledType ==
    ASSUME TypeOK, NEW S, NEW list \in Seq(Devices), NEW g, NEW n \in [Devices -> Bindings]
    PROVE  Reconciled(S, list, g, n) \in [GroupIds -> Bindings]
  BY MemberNetType DEF Reconciled, TypeOK

\* A mapping of the references keeps them within the indices.
LEMMA RewrittenType ==
    ASSUME TypeOK, TableInTarget, NEW f \in [Indices -> Indices]
    PROVE  /\ Mapped(f) \in Scenes /\ Mapped(f).table \subseteq Mapped(f).target
           /\ Rewritten(f) \in Scenes /\ Rewritten(f).table \subseteq Rewritten(f).target
<1>1. /\ scenes.target \subseteq Indices /\ scenes.table \subseteq Indices
      /\ scenes.child \subseteq Indices /\ scenes.plain \subseteq Indices
      /\ DOMAIN scenes = {"target", "table", "child", "plain"}
  BY DEF TypeOK, Scenes
<1>2. \A S \in SUBSET Indices : {f[v] : v \in S} \subseteq Indices
  OBVIOUS
<1>3. Mapped(f) \in Scenes
  BY <1>1, <1>2 DEF Mapped, Scenes
<1>4. Mapped(f).table \subseteq Mapped(f).target
  BY <1>1 DEF Mapped, TableInTarget
<1> QED
  BY <1>3, <1>4 DEF Rewritten, TypeOK, TableInTarget

LEMMA InitIInv == Init => IInv
<1> SUFFICES ASSUME Init PROVE IInv
  OBVIOUS
<1>1. devs \in Seq(Devices) /\ groups \in Seq(GroupIds) /\ NoRepeat(groups)
  <2>1. PICK k \in 0 .. Cardinality(Devices) : devs \in [1 .. k -> Devices]
    BY DEF Init
  <2>2. PICK m \in Indices :
            /\ groups \in [1 .. m -> GroupIds]
            /\ \A i, j \in 1 .. m : groups[i] = groups[j] => i = j
    BY DEF Init
  <2>3. m \in Nat /\ k \in Nat
    BY DEF Indices
  <2> QED
    BY <2>1, <2>2, <2>3, SeqDef DEF NoRepeat
<1>2. Len(groups) \in Nat /\ 0 .. Len(groups) \subseteq Indices
  BY <1>1, ListFits
<1>3. grp \in [Devices -> Indices] /\ net \in [Devices -> Bindings] /\ nodeGroup \in [Devices -> Indices]
  BY <1>2 DEF Init
<1>4. gnet \in [GroupIds -> Bindings]
  <2>1. ASSUME NEW i PROVE MemberNet(i, devs, grp, net) \in Bindings
    BY <1>1, <1>3, MemberNetType
  <2> QED
    BY <2>1 DEF Init, Bindings
<1>5. scenes \in Scenes /\ TableInTarget
  <2>1. SUBSET (0 .. Len(groups)) \subseteq SUBSET Indices
    BY <1>2
  <2> QED
    BY <2>1 DEF Init, Scenes, TableInTarget
<1>6. task \in Tasks /\ CurInv
  BY IndexTypes DEF Init, NoTask, Tasks, CurInv
<1>7. NoRestore \in RxStates
  BY IndexTypes DEF NoRestore, RxStates
<1> QED
  BY <1>1, <1>3, <1>4, <1>5, <1>6, <1>7, BoundsAssumption DEF Init, IInv, TypeOK, NoRepeat

LEMMA EventType == ASSUME TypeOK, Event PROVE events' \in 0 .. MaxEvents
  BY BoundsAssumption DEF TypeOK, Event

LEMMA SetGroupType ==
    ASSUME TypeOK, NEW d \in Devices, net[d] # NoNet, NEW by \in {"worker", "task"}
    PROVE  SetGroup(d, by) \in Pushes
  BY DEF SetGroup, Pushes, TypeOK, Bindings

\* The RX threads and the workers.
LEMMA RxTypes ==
    ASSUME IInv,
           \/ \E n \in Networks, d \in Devices : RxIdentify(n, d) \/ CooldownExpires(n, d) \/ WorkerStart(n, d)
           \/ \E n \in Networks : RxRead(n) \/ RxRestore(n)
    PROVE  IInv'
<1> USE DEF hostVars, groupVars, restoreVars, nodeVars
<1>1. ASSUME NEW n \in Networks, NEW d \in Devices, RxIdentify(n, d) PROVE IInv'
  <2>1. PICK e \in air :
          /\ e.dev = d /\ e.net = n
          /\ air' = air \ {e}
          /\ devs' = IF d \in Known THEN devs ELSE Append(devs, d)
          /\ net' = [net EXCEPT ![d] = n]
          /\ grp' = [grp EXCEPT ![d] = IF net[d] \in {NoNet, n} THEN Adopted(e)
                                       ELSE Relocated(Adopted(e), net[d], n)]
          /\ LET touched == IF net[d] = NoNet \/ grp'[d] # Adopted(e) THEN {Adopted(e)} ELSE {}
             IN  gnet' = Reconciled(touched, devs', grp', net')
          /\ rx' = IF Restorable(e) THEN [rx EXCEPT ![n].dev = d] ELSE rx
          /\ task' = IF task.pc = "listen" THEN [task EXCEPT !.todo = @ \cup {d}] ELSE task
    BY <1>1 DEF RxIdentify
  <2>2. /\ UNCHANGED << groups, scenes, recent, workers, pushes, nodeGroup, nodeNet, events >>
        /\ online' = online \cup {d}
    BY <1>1 DEF RxIdentify
  <2>3. Adopted(e) \in Indices /\ Relocated(Adopted(e), net[d], n) \in Indices
    BY <2>1, IndexTypes DEF Adopted, Relocated, IInv, TypeOK, Replies
  <2>4. devs' \in Seq(Devices) /\ net' \in [Devices -> Bindings] /\ grp' \in [Devices -> Indices]
    BY <2>1, <2>3, AppendProperties DEF IInv, TypeOK, Bindings
  <2>5. gnet' \in [GroupIds -> Bindings]
    BY <2>1, <2>4, ReconciledType DEF IInv
  <2>6. task' \in Tasks /\ CurInv'
    BY <2>1 DEF IInv, TypeOK, Tasks, CurInv
  <2>7. rx' \in [Networks -> RxStates]
    BY <2>1 DEF IInv, TypeOK, RxStates
  <2> QED
    BY <2>1, <2>2, <2>4, <2>5, <2>6, <2>7 DEF IInv, TypeOK, TableInTarget
<1>2. ASSUME NEW n \in Networks, NEW d \in Devices, CooldownExpires(n, d) PROVE IInv'
  BY <1>2 DEF CooldownExpires, IInv, TypeOK, TableInTarget, CurInv
<1>3. ASSUME NEW n \in Networks, NEW d \in Devices, WorkerStart(n, d) PROVE IInv'
  <2>1. online' \subseteq Devices /\ pushes' \subseteq Pushes /\ workers' \subseteq Networks \X Devices
    BY <1>3, SetGroupType DEF WorkerStart, IInv, TypeOK
  <2> QED
    BY <1>3, <2>1 DEF WorkerStart, IInv, TypeOK, TableInTarget, CurInv
<1>4. ASSUME NEW n \in Networks, RxRestore(n) PROVE IInv'
  <2>1. rx[n].dev \in Devices
    BY <1>4 DEF RxRestore, RxStates, IInv, TypeOK
  <2>2. /\ grp' \in [Devices -> Indices]
        /\ recent' \subseteq Networks \X Devices /\ workers' \subseteq Networks \X Devices
        /\ rx' \in [Networks -> RxStates]
    BY <1>4, <2>1, IndexTypes DEF RxRestore, NoRestore, RxStates, IInv, TypeOK
  <2> QED
    BY <1>4, <2>2 DEF RxRestore, IInv, TypeOK, TableInTarget, CurInv
<1>5. ASSUME NEW n \in Networks, RxRead(n) PROVE IInv'
  <2>1. rx[n].dev \in Devices /\ rx[n] \in RxStates /\ NoRestore \in RxStates
    BY <1>5, IndexTypes DEF RxRead, NoRestore, RxStates, IInv, TypeOK
  <2>2. [rx[n] EXCEPT !.read = TRUE, !.stored = grp[rx[n].dev]] \in RxStates
    BY <2>1 DEF RxStates, IInv, TypeOK
  <2>3. rx' \in [Networks -> RxStates]
    BY <1>5, <2>1, <2>2 DEF RxRead, IInv, TypeOK
  <2> QED
    BY <1>5, <2>3 DEF RxRead, IInv, TypeOK, TableInTarget, CurInv
<1> QED
  BY <1>1, <1>2, <1>3, <1>4, <1>5

\* The calls.
LEMMA PushTypes ==
    ASSUME IInv, NEW p \in pushes, Push(p)
    PROVE  IInv'
<1> USE DEF hostVars, groupVars, restoreVars, nodeVars
<1>1. p \in Pushes /\ p.dev \in Devices /\ p.val \in Indices
  BY DEF IInv, TypeOK, Pushes
<1>2. ASSUME NEW q \in pushes, Returned(q) PROVE task' \in Tasks /\ CurInv'
  BY <1>2 DEF Returned, IInv, TypeOK, Tasks, CurInv
<1>3. CASE PushReaches(p)
  BY <1>1, <1>3 DEF PushReaches, IInv, TypeOK, TableInTarget, CurInv
<1>4. CASE PushAcked(p)
  <2>1. task' \in Tasks /\ CurInv' /\ pushes' \subseteq pushes
    BY <1>2, <1>4 DEF PushAcked
  <2>2. nodeGroup' \in [Devices -> Indices] /\ online' \subseteq Devices
    BY <1>1, <1>4 DEF PushAcked, IInv, TypeOK
  <2> QED
    BY <1>4, <2>1, <2>2 DEF PushAcked, IInv, TypeOK, TableInTarget
<1>6. CASE PushRefused(p)
  <2>1. task' \in Tasks /\ CurInv' /\ pushes' \subseteq pushes /\ online' \subseteq Devices
    BY <1>1, <1>2, <1>6 DEF PushRefused, IInv, TypeOK
  <2> QED
    BY <1>6, <2>1 DEF PushRefused, IInv, TypeOK, TableInTarget
<1>5. CASE PushTimeout(p)
  <2>1. task' \in Tasks /\ CurInv'
    BY <1>2, <1>5 DEF PushTimeout
  <2> QED
    BY <1>5, <2>1 DEF PushTimeout, IInv, TypeOK, TableInTarget
<1> QED
  BY <1>3, <1>4, <1>5, <1>6 DEF Push

\* The task thread.
LEMMA TaskTypes ==
    ASSUME IInv, TaskStep
    PROVE  IInv'
<1> USE DEF hostVars, groupVars, restoreVars, nodeVars
<1>1. CASE DiscoverEnds
  <2>1. task' \in Tasks /\ CurInv'
    BY <1>1 DEF DiscoverEnds, IInv, TypeOK, Tasks, CurInv
  <2> QED
    BY <1>1, <2>1 DEF DiscoverEnds, IInv, TypeOK, TableInTarget
<1>2. CASE TaskSend
  <2>1. task' \in Tasks /\ CurInv' /\ task.cur \in Devices
    <3>1. task \in Tasks /\ task.cur \in Devices
      BY <1>2 DEF TaskSend, IInv, TypeOK, CurInv
    <3>2. task' = [task EXCEPT !.pc = "next", !.cur = NoDev] \/ task' = [task EXCEPT !.pc = "wait"]
      BY <1>2 DEF TaskSend
    <3>3. task' \in Tasks /\ task'.pc # "send"
      BY <3>1, <3>2 DEF Tasks
    <3> QED
      BY <3>1, <3>3 DEF CurInv
  <2>2. pushes' \subseteq Pushes
    BY <1>2, <2>1, SetGroupType DEF TaskSend, IInv, TypeOK
  <2> QED
    BY <1>2, <2>1, <2>2 DEF TaskSend, IInv, TypeOK, TableInTarget
<1>3. CASE TaskDone
  <2>1. gnet' \in [GroupIds -> Bindings]
    BY <1>3, ReconciledType DEF TaskDone, IInv, TypeOK
  <2>2. task' \in Tasks /\ CurInv'
    BY <1>3, IndexTypes DEF TaskDone, NoTask, Tasks, CurInv
  <2> QED
    BY <1>3, <2>1, <2>2 DEF TaskDone, IInv, TypeOK, TableInTarget
<1>4. ASSUME NEW d \in Devices, TaskTake(d) PROVE IInv'
  <2>1. task \in Tasks /\ task.gid \in Indices /\ grp[d] \in Indices
    BY DEF IInv, TypeOK, Tasks
  <2>2. grp' \in [Devices -> Indices]
    BY <1>4, <2>1, IndexTypes DEF TaskTake, Clamped, IInv, TypeOK
  <2>3. PICK pc \in {task.pc, "send"}, cur \in {task.cur, d}, touched \in SUBSET Indices :
            /\ task' = [task EXCEPT !.todo = @ \ {d}, !.touched = touched, !.pc = pc, !.cur = cur]
            /\ pc = "send" => cur = d \/ task.pc = "send"
    <3> DEFINE touched == IF task.kind = "move" THEN task.touched \cup {grp[d], task.gid}
                          ELSE task.touched
    <3>1. touched \in SUBSET Indices
      BY <2>1 DEF Tasks
    <3>2. task' = IF task.skip /\ d \notin online THEN [task EXCEPT !.todo = @ \ {d}, !.touched = touched]
                  ELSE [task EXCEPT !.todo = @ \ {d}, !.touched = touched, !.pc = "send", !.cur = d]
      BY <1>4, <2>1 DEF TaskTake, Tasks
    <3> HIDE DEF touched
    <3>3. CASE task.skip /\ d \notin online
      <4>1. task' = [task EXCEPT !.todo = @ \ {d}, !.touched = touched, !.pc = task.pc, !.cur = task.cur]
        BY <2>1, <3>2, <3>3 DEF Tasks
      <4> QED
        BY <3>1, <4>1
    <3>4. CASE ~(task.skip /\ d \notin online)
      BY <3>1, <3>2, <3>4
    <3> QED
      BY <3>3, <3>4
  <2>4. task' \in Tasks /\ CurInv'
    BY <2>1, <2>3 DEF Tasks, CurInv, IInv
  <2> QED
    BY <1>4, <2>2, <2>4 DEF TaskTake, IInv, TypeOK, TableInTarget
<1> QED
  BY <1>1, <1>2, <1>3, <1>4 DEF TaskStep

\* Nodes.
LEMMA NodeTypes ==
    ASSUME IInv, NEW d \in Devices, Node(d)
    PROVE  IInv'
<1> USE DEF hostVars, groupVars, restoreVars, nodeVars
<1>1. CASE Announce(d)
  BY <1>1 DEF Announce, Replies, IInv, TypeOK, TableInTarget, CurInv
<1>2. CASE Reboot(d)
  BY <1>2, EventType, IndexTypes DEF Reboot, IInv, TypeOK, TableInTarget, CurInv
<1>3. CASE Retune(d)
  BY <1>3, EventType DEF Retune, IInv, TypeOK, TableInTarget, CurInv
<1> QED
  BY <1>1, <1>2, <1>3 DEF Node

----------------------------------------------------------------------------
(* Group edits                                                             *)

\* A group that is appended leaves the others where they are.
LEMMA AppendsFacts ==
    ASSUME TypeOK, NEW x \in GroupIds, Appends(x)
    PROVE  /\ groups' \in Seq(GroupIds) /\ NoRepeat(groups')
           /\ Len(groups') = Len(groups) + 1 /\ Len(groups) + 1 \in Indices
           /\ \A i \in 1 .. Len(groups) : groups'[i] = groups[i]
           /\ gnet' \in [GroupIds -> Bindings] /\ scenes' = scenes
<1>1. \A i \in 1 .. Len(groups) : groups[i] # x
  BY DEF Appends, InUse
<1>2. groups \in Seq(GroupIds) /\ NoRepeat(groups)
  BY GroupsFit
<1>3. gnet' \in [GroupIds -> Bindings] /\ scenes' = scenes /\ groups' = Append(groups, x)
  BY DEF Appends, TypeOK, Bindings
<1> QED
  BY <1>1, <1>2, <1>3, RoomForOne

\* The permutation of a resort and the mapping it gives to the references.
Shuffle(f) ==
    /\ f \in [1 .. Len(groups) -> 1 .. Len(groups)]
    /\ \A i, j \in DOMAIN f : f[i] = f[j] => i = j
    /\ groups' = [i \in DOMAIN f |-> groups[f[i]]]
Mapping(f) ==
    [v \in Indices |-> IF v \in DOMAIN f THEN CHOOSE i \in DOMAIN f : f[i] = v ELSE v]

LEMMA ResortFacts ==
    ASSUME TypeOK, NEW f, Shuffle(f)
    PROVE  /\ groups' \in Seq(GroupIds) /\ NoRepeat(groups') /\ Len(groups') = Len(groups)
           /\ Mapping(f) \in [Indices -> Indices]
           /\ \A v \in 1 .. Len(groups) : /\ Mapping(f)[v] \in 1 .. Len(groups)
                                          /\ groups'[Mapping(f)[v]] = groups[v]
           /\ \A v \in Indices \ (1 .. Len(groups)) : Mapping(f)[v] = v
<1>1. /\ groups \in Seq(GroupIds) /\ NoRepeat(groups) /\ Len(groups) \in Nat
      /\ 0 .. Len(groups) \subseteq Indices
  BY GroupsFit
<1>2. DOMAIN f = 1 .. Len(groups)
  BY DEF Shuffle
<1>3. \A v \in 1 .. Len(groups) : groups[v] \in GroupIds
  BY <1>1, ElementOfSeq
<1>4. groups' \in [1 .. Len(groups) -> GroupIds]
  BY <1>2, <1>3 DEF Shuffle
<1>5. groups' \in Seq(GroupIds) /\ Len(groups') = Len(groups)
  BY <1>1, <1>4, SeqDef
<1>6. NoRepeat(groups')
  BY <1>1, <1>2, <1>5 DEF Shuffle, NoRepeat
<1>7. \A v \in 1 .. Len(groups) : \E i \in 1 .. Len(groups) : f[i] = v
  BY <1>1, <1>2, Permutes DEF Shuffle
<1>8. ASSUME NEW v \in 1 .. Len(groups)
      PROVE  Mapping(f)[v] \in 1 .. Len(groups) /\ groups'[Mapping(f)[v]] = groups[v]
  <2>1. v \in Indices
    BY <1>1
  <2>2. Mapping(f)[v] = CHOOSE i \in 1 .. Len(groups) : f[i] = v
    BY <1>2, <2>1 DEF Mapping
  <2>3. Mapping(f)[v] \in 1 .. Len(groups) /\ f[Mapping(f)[v]] = v
    BY <1>7, <2>2
  <2> QED
    BY <1>2, <2>3 DEF Shuffle
<1>9. \A v \in Indices \ (1 .. Len(groups)) : Mapping(f)[v] = v
  BY <1>2 DEF Mapping
<1>10. Mapping(f) \in [Indices -> Indices]
  <2>1. \A v \in Indices : Mapping(f)[v] \in Indices
    BY <1>1, <1>8, <1>9
  <2> QED
    BY <2>1 DEF Mapping
<1> QED
  BY <1>5, <1>6, <1>8, <1>9, <1>10

\* What a resort does.
LEMMA ResortStep ==
    ASSUME NEW carry \in BOOLEAN, Resort(carry)
    PROVE  \E f : /\ Shuffle(f)
                  /\ grp' = [d \in Devices |-> Mapping(f)[grp[d]]]
                  /\ scenes' = IF carry THEN Rewritten(Mapping(f)) ELSE scenes
  BY DEF Resort, Shuffle, Mapping

\* Deleting the group at index i.
Deleted(i) == [v \in Indices |-> ShiftGroupValue(v, i)]
LEMMA DeleteFacts ==
    ASSUME TypeOK, NEW i \in 1 .. Len(groups), groups' = Without(groups, i)
    PROVE  /\ groups' \in Seq(GroupIds) /\ NoRepeat(groups') /\ Len(groups') = Len(groups) - 1
           /\ Deleted(i) \in [Indices -> Indices]
           /\ \A v \in 1 .. Len(groups) \ {i} : /\ Deleted(i)[v] \in 1 .. Len(groups) - 1
                                                /\ groups'[Deleted(i)[v]] = groups[v]
           /\ Deleted(i)[i] = 0 /\ Deleted(i)[0] = 0
           /\ \A j \in 1 .. Len(groups) - 1 : groups'[j] # groups[i]
           /\ \A c \in Indices : AfterDelete(c, i) = Deleted(i)[c]
<1>1. /\ groups \in Seq(GroupIds) /\ NoRepeat(groups) /\ Len(groups) \in Nat
      /\ 0 .. Len(groups) \subseteq Indices
  BY GroupsFit
<1>2. /\ groups' \in Seq(GroupIds) /\ Len(groups') = Len(groups) - 1
      /\ \A j \in 1 .. Len(groups) - 1 : groups'[j] = IF j < i THEN groups[j] ELSE groups[j + 1]
  BY <1>1, WithoutOne
<1>3. NoRepeat(groups')
  BY <1>1, <1>2 DEF NoRepeat
<1>4. \A c \in Indices : AfterDelete(c, i) = Deleted(i)[c]
  BY DEF AfterDelete, Deleted, ShiftGroupValue
<1>5. i \in Indices /\ 0 \in Indices /\ Deleted(i)[i] = 0 /\ Deleted(i)[0] = 0
  BY <1>1, IndexTypes DEF Deleted, ShiftGroupValue
<1>6. Deleted(i) \in [Indices -> Indices]
  <2>1. ASSUME NEW v \in Indices PROVE ShiftGroupValue(v, i) \in Indices
    BY IndexTypes DEF ShiftGroupValue, Indices
  <2> QED
    BY <2>1 DEF Deleted
<1>7. ASSUME NEW v \in 1 .. Len(groups) \ {i}
      PROVE  Deleted(i)[v] \in 1 .. Len(groups) - 1 /\ groups'[Deleted(i)[v]] = groups[v]
  <2>1. v \in 1 .. Len(groups) /\ v # i /\ v \in Indices
    BY <1>1
  <2>2. Deleted(i)[v] = IF v > i THEN v - 1 ELSE v
    BY <2>1 DEF Deleted, ShiftGroupValue
  <2> QED
    BY <1>1, <1>2, <2>1, <2>2
<1>8. \A j \in 1 .. Len(groups) - 1 : groups'[j] # groups[i]
  BY <1>1, <1>2 DEF NoRepeat
<1> QED
  BY <1>2, <1>3, <1>4, <1>5, <1>6, <1>7, <1>8

\* Requests that start the task, and group edits.
LEMMA WebTypes ==
    ASSUME IInv, Web
    PROVE  IInv'
<1> USE DEF hostVars, groupVars, restoreVars, nodeVars
<1>0. TypeOK /\ TableInTarget /\ NoTask \in Tasks /\ 0 .. Len(groups) \subseteq Indices /\ Len(groups) \in Nat
  BY GroupsFit, IndexTypes DEF IInv, NoTask, Tasks
<1>1. CASE MoveRequest
  <2>1. PICK D \in SUBSET Known, i \in 0 .. Len(groups) :
            task' = [NoTask EXCEPT !.kind = "move", !.todo = D, !.gid = i, !.skip = TRUE]
    BY <1>1 DEF MoveRequest
  <2>2. task' \in Tasks /\ CurInv'
    <3>1. Known \subseteq Devices
      BY <1>0, KnownType
    <3>2. task' \in Tasks /\ task'.pc = "next"
      BY <1>0, <2>1, <3>1 DEF NoTask, Tasks
    <3> QED
      BY <3>2 DEF CurInv
  <2> QED
    BY <1>1, <2>2, EventType DEF MoveRequest, Starts, Request, IInv, TypeOK, TableInTarget
<1>2. CASE ForceRequest
  <2>1. PICK s \in BOOLEAN :
            task' = [NoTask EXCEPT !.kind = "force", !.todo = Known, !.gid = Len(groups), !.skip = s]
    BY <1>2 DEF ForceRequest
  <2>2. task' \in Tasks /\ CurInv'
    <3>1. Known \subseteq Devices
      BY <1>0, KnownType
    <3>2. task' \in Tasks /\ task'.pc = "next"
      <4>1. Len(groups) \in Indices
        BY <1>0
      <4> QED
        BY <1>0, <2>1, <3>1, <4>1 DEF NoTask, Tasks
    <3> QED
      BY <3>2 DEF CurInv
  <2> QED
    BY <1>2, <2>2, EventType DEF ForceRequest, Starts, Request, IInv, TypeOK, TableInTarget
<1>3. ASSUME NEW i \in Indices, Listens(i) PROVE task' \in Tasks /\ CurInv'
  BY <1>0, <1>3 DEF Listens, NoTask, Tasks, CurInv
<1>4. CASE DiscoverRequest
  <2>1. /\ events' \in 0 .. MaxEvents
        /\ UNCHANGED << devs, grp, net, online, rx, recent, workers, pushes, nodeGroup, nodeNet, air >>
    BY <1>0, <1>4, EventType DEF DiscoverRequest, Starts, Request
  <2>2. CASE UNCHANGED groupVars /\ \E i \in 0 .. Len(groups) : Listens(i)
    BY <1>0, <1>3, <2>1, <2>2 DEF IInv, TypeOK, TableInTarget
  <2>3. CASE Listens(Len(groups) + 1) /\ \E x \in GroupIds : Appends(x)
    <3>1. PICK x \in GroupIds : Appends(x)
      BY <2>3
    <3>2. /\ groups' \in Seq(GroupIds) /\ NoRepeat(groups') /\ Len(groups) + 1 \in Indices
          /\ gnet' \in [GroupIds -> Bindings] /\ scenes' = scenes
      BY <1>0, <3>1, AppendsFacts
    <3>3. task' \in Tasks /\ CurInv'
      <4>1. Listens(Len(groups) + 1)
        BY <2>3
      <4> QED
        BY <1>3, <3>2, <4>1
    <3> QED
      BY <1>0, <2>1, <3>2, <3>3 DEF IInv, TypeOK, TableInTarget, NoRepeat
  <2> QED
    BY <1>4, <2>2, <2>3 DEF DiscoverRequest
<1>5. CASE CreateGroup
  <2>1. PICK x \in GroupIds : Appends(x)
    BY <1>5 DEF CreateGroup
  <2>2. /\ groups' \in Seq(GroupIds) /\ NoRepeat(groups')
        /\ gnet' \in [GroupIds -> Bindings] /\ scenes' = scenes
    BY <1>0, <2>1, AppendsFacts
  <2> QED
    BY <1>5, <2>2, EventType DEF CreateGroup, Request, IInv, TypeOK, TableInTarget, NoRepeat,
        CurInv
<1>6. CASE DeleteGroup
  <2>1. PICK i \in 1 .. Len(groups) :
          /\ groups' = Without(groups, i)
          /\ grp' = [d \in Devices |-> AfterDelete(grp[d], i)]
          /\ scenes' = Rewritten(Deleted(i))
    BY <1>6 DEF DeleteGroup, Without, Deleted
  <2>2. /\ groups' \in Seq(GroupIds) /\ NoRepeat(groups') /\ Deleted(i) \in [Indices -> Indices]
        /\ \A c \in Indices : AfterDelete(c, i) = Deleted(i)[c]
    BY <1>0, <2>1, DeleteFacts
  <2>3. grp' \in [Devices -> Indices]
    BY <2>1, <2>2 DEF IInv, TypeOK
  <2>4. scenes' \in Scenes /\ TableInTarget'
    BY <1>0, <2>1, <2>2, RewrittenType DEF TableInTarget
  <2> QED
    BY <1>6, <2>2, <2>3, <2>4, EventType DEF DeleteGroup, Request, IInv, TypeOK, NoRepeat,
        CurInv
<1>7. ASSUME NEW carry \in BOOLEAN, Resort(carry) PROVE IInv'
  <2>1. PICK f : /\ Shuffle(f)
                 /\ grp' = [d \in Devices |-> Mapping(f)[grp[d]]]
                 /\ scenes' = IF carry THEN Rewritten(Mapping(f)) ELSE scenes
    BY <1>7, ResortStep
  <2>2. groups' \in Seq(GroupIds) /\ NoRepeat(groups') /\ Mapping(f) \in [Indices -> Indices]
    BY <1>0, <2>1, ResortFacts
  <2>3. grp' \in [Devices -> Indices]
    BY <2>1, <2>2 DEF IInv, TypeOK
  <2>4. scenes' \in Scenes /\ TableInTarget'
    <3>1. /\ Rewritten(Mapping(f)) \in Scenes
          /\ Rewritten(Mapping(f)).table \subseteq Rewritten(Mapping(f)).target
      BY <1>0, <2>2, RewrittenType
    <3> QED
      BY <1>0, <2>1, <3>1 DEF TableInTarget, TypeOK
  <2> QED
    BY <1>7, <2>2, <2>3, <2>4, EventType DEF Resort, Request, IInv, TypeOK, NoRepeat, CurInv
<1> QED
  BY <1>1, <1>2, <1>4, <1>5, <1>6, <1>7 DEF Web

LEMMA NextIInv == IInv /\ [Next]_vars => IInv'
<1> SUFFICES ASSUME IInv, [Next]_vars PROVE IInv'
  OBVIOUS
<1>1. CASE UNCHANGED vars
  BY <1>1 DEF vars, hostVars, groupVars, restoreVars, nodeVars, IInv, TypeOK, CurInv,
      TableInTarget
<1>2. ASSUME NEW p \in pushes, Push(p) PROVE IInv'
  BY <1>2, PushTypes
<1>3. ASSUME NEW d \in Devices, Node(d) PROVE IInv'
  BY <1>3, NodeTypes
<1> QED
  BY <1>1, <1>2, <1>3, RxTypes, TaskTypes, WebTypes DEF Next

\* Groups change by a new group, a deletion or a resort, and by nothing else.
LEMMA GroupsChange ==
    ASSUME [Next]_vars, groups' # groups
    PROVE  \/ /\ grp' = grp
              /\ \E x \in GroupIds : Appends(x)
           \/ \E i \in 1 .. Len(groups) :
                /\ groups' = Without(groups, i)
                /\ grp' = [d \in Devices |-> AfterDelete(grp[d], i)]
                /\ scenes' = Rewritten(Deleted(i))
           \/ \E carry \in BOOLEAN : Resort(carry)
<1> USE DEF hostVars, groupVars, restoreVars, nodeVars
<1>1. ~ UNCHANGED vars
  BY DEF vars
<1>2. ~ \E n \in Networks : RxRead(n) \/ RxRestore(n)
  BY DEF RxRead, RxRestore
<1>3. ~ \E n \in Networks, d \in Devices : RxIdentify(n, d) \/ CooldownExpires(n, d) \/ WorkerStart(n, d)
  BY DEF RxIdentify, CooldownExpires, WorkerStart
<1>4. ~ \E p \in pushes : Push(p)
  BY DEF Push, PushReaches, PushAcked, PushRefused, PushTimeout
<1>5. ~ TaskStep
  BY DEF TaskStep, DiscoverEnds, TaskSend, TaskDone, TaskTake
<1>6. ~ \E d \in Devices : Node(d)
  BY DEF Node, Announce, Reboot, Retune
<1>7. ~ MoveRequest /\ ~ ForceRequest
  BY DEF MoveRequest, ForceRequest
<1>8. ASSUME CreateGroup \/ DiscoverRequest PROVE grp' = grp /\ \E x \in GroupIds : Appends(x)
  BY <1>8 DEF CreateGroup, DiscoverRequest
<1>9. ASSUME DeleteGroup
      PROVE  \E i \in 1 .. Len(groups) :
                /\ groups' = Without(groups, i)
                /\ grp' = [d \in Devices |-> AfterDelete(grp[d], i)]
                /\ scenes' = Rewritten(Deleted(i))
  BY <1>9 DEF DeleteGroup, Without, Deleted
<1> QED
  BY <1>1, <1>2, <1>3, <1>4, <1>5, <1>6, <1>7, <1>8, <1>9 DEF Next, Web

----------------------------------------------------------------------------
(* Membership                                                              *)

LEMMA KeepsMembership ==
    ASSUME IInv, [Next]_vars, groups' # groups, NEW d \in Known, grp[d] \in 1 .. Len(groups)
    PROVE  IF \E i \in 1 .. Len(groups') : groups'[i] = groups[grp[d]]
           THEN grp'[d] \in 1 .. Len(groups') /\ groups'[grp'[d]] = groups[grp[d]]
           ELSE grp'[d] = 0
<1>0. TypeOK /\ d \in Devices /\ grp[d] \in Indices /\ Len(groups) \in Nat
  BY KnownType, GroupsFit DEF IInv, TypeOK
<1>1. ASSUME grp' = grp, NEW x \in GroupIds, Appends(x)
      PROVE  grp'[d] \in 1 .. Len(groups') /\ groups'[grp'[d]] = groups[grp[d]]
  BY <1>0, <1>1, AppendsFacts
<1>2. ASSUME NEW i \in 1 .. Len(groups), groups' = Without(groups, i),
             grp' = [e \in Devices |-> AfterDelete(grp[e], i)]
      PROVE  IF \E j \in 1 .. Len(groups') : groups'[j] = groups[grp[d]]
             THEN grp'[d] \in 1 .. Len(groups') /\ groups'[grp'[d]] = groups[grp[d]]
             ELSE grp'[d] = 0
  <2>1. /\ Len(groups') = Len(groups) - 1
        /\ \A v \in 1 .. Len(groups) \ {i} : /\ Deleted(i)[v] \in 1 .. Len(groups) - 1
                                             /\ groups'[Deleted(i)[v]] = groups[v]
        /\ Deleted(i)[i] = 0
        /\ \A j \in 1 .. Len(groups) - 1 : groups'[j] # groups[i]
        /\ \A c \in Indices : AfterDelete(c, i) = Deleted(i)[c]
    BY <1>0, <1>2, DeleteFacts
  <2>2. grp'[d] = Deleted(i)[grp[d]]
    BY <1>0, <1>2, <2>1
  <2>3. CASE grp[d] = i
    BY <2>1, <2>2, <2>3
  <2>4. CASE grp[d] # i
    BY <2>1, <2>2, <2>4
  <2> QED
    BY <2>3, <2>4
<1>3. ASSUME NEW carry \in BOOLEAN, Resort(carry)
      PROVE  grp'[d] \in 1 .. Len(groups') /\ groups'[grp'[d]] = groups[grp[d]]
  <2>1. PICK f : Shuffle(f) /\ grp' = [e \in Devices |-> Mapping(f)[grp[e]]]
    BY <1>3, ResortStep
  <2>2. /\ Len(groups') = Len(groups)
        /\ \A v \in 1 .. Len(groups) : /\ Mapping(f)[v] \in 1 .. Len(groups)
                                       /\ groups'[Mapping(f)[v]] = groups[v]
    BY <1>0, <2>1, ResortFacts
  <2> QED
    BY <1>0, <2>1, <2>2
<1> QED
  BY <1>1, <1>2, <1>3, GroupsChange

\* A mapping that follows the groups keeps what a set of references names.
LEMMA NamedMoves ==
    ASSUME TypeOK, NEW f \in [Indices -> Indices], NEW S \in SUBSET (0 .. Len(groups)),
           f[0] \notin 1 .. Len(groups'),
           \A v \in 1 .. Len(groups) : f[v] \in 1 .. Len(groups') => groups'[f[v]] = groups[v],
           \A v \in 1 .. Len(groups) :
              groups[v] \in Named(1 .. Len(groups'), groups') => f[v] \in 1 .. Len(groups')
    PROVE  Named({f[v] : v \in S}, groups') = Named(S, groups) \cap Named(1 .. Len(groups'), groups')
<1>1. Len(groups) \in Nat
  BY GroupsFit
<1>2. ASSUME NEW v \in S, f[v] \in 1 .. Len(groups')
      PROVE  groups'[f[v]] \in Named(S, groups) \cap Named(1 .. Len(groups'), groups')
  <2>1. v \in 1 .. Len(groups)
    BY <1>1, <1>2
  <2>2. groups'[f[v]] = groups[v]
    BY <1>2, <2>1
  <2> QED
    BY <1>2, <2>1, <2>2 DEF Named
<1>3. ASSUME NEW v \in S \cap 1 .. Len(groups), groups[v] \in Named(1 .. Len(groups'), groups')
      PROVE  groups[v] \in Named({f[u] : u \in S}, groups')
  <2>1. f[v] \in 1 .. Len(groups') /\ groups'[f[v]] = groups[v]
    BY <1>3
  <2> QED
    BY <2>1 DEF Named
<1> QED
  BY <1>2, <1>3 DEF Named

\* With the tables in order, every reference is rewritten.
LEMMA AllRewritten ==
    ASSUME TypeOK, TableInTarget, Canonical(scenes), NEW f \in [Indices -> Indices]
    PROVE  Rewritten(f) = Mapped(f)
<1>1. /\ scenes.target \subseteq Indices /\ scenes.table \subseteq scenes.target
      /\ Cardinality(scenes.table) = Cardinality(scenes.target)
  BY DEF TypeOK, Scenes, TableInTarget, Canonical
<1>2. IsFiniteSet(Indices)
  BY IndexTypes, FS_Interval DEF Indices
<1>3. IsFiniteSet(scenes.target)
  BY <1>1, <1>2, FS_Subset
<1>4. scenes.table = scenes.target
  BY <1>1, <1>3, FS_Subset
<1>5. DOMAIN scenes = {"target", "table", "child", "plain"}
  BY DEF TypeOK, Scenes
<1>6. Mapped(f).table = Mapped(f).target
  BY <1>4, <1>5 DEF Mapped
<1> QED
  BY <1>6 DEF Rewritten, Canonical

\* A set of references under a deletion or a resort that carries them along.
LEMMA DeletedNames ==
    ASSUME TypeOK, NEW i \in 1 .. Len(groups), groups' = Without(groups, i),
           NEW S \in SUBSET (0 .. Len(groups))
    PROVE  Named({Deleted(i)[v] : v \in S}, groups')
              = Named(S, groups) \cap Named(1 .. Len(groups'), groups')
<1>1. /\ Len(groups') = Len(groups) - 1 /\ Len(groups) \in Nat
      /\ Deleted(i) \in [Indices -> Indices]
      /\ \A v \in 1 .. Len(groups) \ {i} : /\ Deleted(i)[v] \in 1 .. Len(groups) - 1
                                           /\ groups'[Deleted(i)[v]] = groups[v]
      /\ Deleted(i)[i] = 0 /\ Deleted(i)[0] = 0
      /\ \A j \in 1 .. Len(groups) - 1 : groups'[j] # groups[i]
  BY DeleteFacts, GroupsFit
<1>2. Deleted(i)[0] \notin 1 .. Len(groups')
  BY <1>1
<1>3. \A v \in 1 .. Len(groups) : Deleted(i)[v] \in 1 .. Len(groups') => groups'[Deleted(i)[v]] = groups[v]
  BY <1>1
<1>4. ASSUME NEW v \in 1 .. Len(groups), groups[v] \in Named(1 .. Len(groups'), groups')
      PROVE  Deleted(i)[v] \in 1 .. Len(groups')
  <2>1. v # i
    BY <1>1, <1>4 DEF Named
  <2> QED
    BY <1>1, <2>1
<1> QED
  BY <1>1, <1>2, <1>3, <1>4, NamedMoves

LEMMA ResortedNames ==
    ASSUME TypeOK, NEW f, Shuffle(f), NEW S \in SUBSET (0 .. Len(groups))
    PROVE  Named({Mapping(f)[v] : v \in S}, groups')
              = Named(S, groups) \cap Named(1 .. Len(groups'), groups')
<1>1. /\ Len(groups') = Len(groups) /\ Len(groups) \in Nat
      /\ Mapping(f) \in [Indices -> Indices]
      /\ \A v \in 1 .. Len(groups) : /\ Mapping(f)[v] \in 1 .. Len(groups)
                                     /\ groups'[Mapping(f)[v]] = groups[v]
      /\ \A v \in Indices \ (1 .. Len(groups)) : Mapping(f)[v] = v
  BY ResortFacts, GroupsFit
<1>2. Mapping(f)[0] \notin 1 .. Len(groups')
  BY <1>1, IndexTypes
<1> QED
  BY <1>1, <1>2, NamedMoves

\* Appending a group leaves every reference at its group.
LEMMA AppendedNames ==
    ASSUME TypeOK, NEW x \in GroupIds, Appends(x), NEW S \in SUBSET (0 .. Len(groups))
    PROVE  Named(S, groups') = Named(S, groups) \cap Named(1 .. Len(groups'), groups')
<1>1. /\ Len(groups') = Len(groups) + 1 /\ Len(groups) \in Nat
      /\ \A i \in 1 .. Len(groups) : groups'[i] = groups[i]
  BY AppendsFacts, GroupsFit
<1>2. S \cap 1 .. Len(groups') = S \cap 1 .. Len(groups)
  BY <1>1
<1> QED
  BY <1>1, <1>2 DEF Named

LEMMA FollowGroups ==
    ASSUME IInv, [Next]_vars, groups' # groups, ScenesInOrder, ~ Resort(FALSE), NEW k \in DOMAIN scenes
    PROVE  Named(scenes'[k], groups') = Named(scenes[k], groups) \cap Named(1 .. Len(groups'), groups')
<1>1. TypeOK /\ TableInTarget /\ Canonical(scenes) /\ scenes[k] \in SUBSET (0 .. Len(groups))
  BY DEF IInv, ScenesInOrder
<1>2. \A f : Mapped(f)[k] = {f[v] : v \in scenes[k]}
  BY DEF Mapped
<1>3. ASSUME NEW x \in GroupIds, Appends(x)
      PROVE  Named(scenes'[k], groups') = Named(scenes[k], groups) \cap Named(1 .. Len(groups'), groups')
  BY <1>1, <1>3, AppendsFacts, AppendedNames
<1>4. ASSUME NEW i \in 1 .. Len(groups), groups' = Without(groups, i), scenes' = Rewritten(Deleted(i))
      PROVE  Named(scenes'[k], groups') = Named(scenes[k], groups) \cap Named(1 .. Len(groups'), groups')
  <2>1. scenes' = Mapped(Deleted(i))
    BY <1>1, <1>4, DeleteFacts, AllRewritten
  <2> QED
    BY <1>1, <1>2, <1>4, <2>1, DeletedNames
<1>5. ASSUME Resort(TRUE)
      PROVE  Named(scenes'[k], groups') = Named(scenes[k], groups) \cap Named(1 .. Len(groups'), groups')
  <2>1. PICK f : Shuffle(f) /\ scenes' = Rewritten(Mapping(f))
    BY <1>5, ResortStep
  <2>2. scenes' = Mapped(Mapping(f))
    BY <1>1, <2>1, ResortFacts, AllRewritten
  <2> QED
    BY <1>1, <1>2, <2>1, <2>2, ResortedNames
<1> QED
  BY <1>3, <1>4, <1>5, GroupsChange

\* Only an IDENTIFY reply changes the network of a device.
LEMMA LeavesGroup ==
    ASSUME IInv, [Next]_vars, NEW d \in Known, net[d] # NoNet, net'[d] # net[d],
           grp'[d] \in 1 .. Len(groups')
    PROVE  gnet'[groups'[grp'[d]]] \in {NoNet, net'[d]}
<1> USE DEF hostVars, groupVars, restoreVars, nodeVars
<1>1. ~ UNCHANGED vars
  BY DEF vars
<1>2. ~ \E n \in Networks : RxRead(n) \/ RxRestore(n)
  BY DEF RxRead, RxRestore
<1>3. ~ \E n \in Networks, c \in Devices : CooldownExpires(n, c) \/ WorkerStart(n, c)
  BY DEF CooldownExpires, WorkerStart
<1>4. ~ \E p \in pushes : Push(p)
  BY DEF Push, PushReaches, PushAcked, PushRefused, PushTimeout
<1>5. ~ TaskStep
  BY DEF TaskStep, DiscoverEnds, TaskSend, TaskDone, TaskTake
<1>6. ~ \E c \in Devices : Node(c)
  BY DEF Node, Announce, Reboot, Retune
<1>7. ~ Web
  BY DEF Web, MoveRequest, ForceRequest, DiscoverRequest, CreateGroup, DeleteGroup, Resort
<1>8. PICK n \in Networks, c \in Devices : RxIdentify(n, c)
  BY <1>1, <1>2, <1>3, <1>4, <1>5, <1>6, <1>7 DEF Next
<1>9. PICK e \in air :
          /\ net' = [net EXCEPT ![c] = n]
          /\ grp' = [grp EXCEPT ![c] = IF net[c] \in {NoNet, n} THEN Adopted(e)
                                       ELSE Relocated(Adopted(e), net[c], n)]
          /\ LET touched == IF net[c] = NoNet \/ grp'[c] # Adopted(e) THEN {Adopted(e)} ELSE {}
             IN  gnet' = Reconciled(touched, devs', grp', net')
          /\ groups' = groups
  BY <1>8 DEF RxIdentify
<1>10. c = d /\ d \in Devices /\ net'[d] = n /\ net[d] # n
  BY <1>9, KnownType DEF IInv, TypeOK
<1>11. grp'[d] = IF Foreign(Adopted(e), n) THEN 0 ELSE Adopted(e)
  BY <1>9, <1>10 DEF Relocated, IInv, TypeOK
<1>12. grp'[d] = Adopted(e) /\ ~ Foreign(Adopted(e), n)
  BY <1>9, <1>11, GroupsFit DEF IInv
<1>13. gnet' = Reconciled({}, devs', grp', net')
  BY <1>9, <1>10, <1>12
<1>14. groups[grp'[d]] \in GroupIds
  BY <1>9, ElementOfSeq DEF IInv, TypeOK
<1>15. gnet'[groups[grp'[d]]] = gnet[groups[grp'[d]]]
  BY <1>13, <1>14 DEF Reconciled
<1> QED
  BY <1>9, <1>10, <1>12, <1>15 DEF Foreign

----------------------------------------------------------------------------
(* The theorems                                                            *)

\* Every variable keeps its type: the group list never repeats a group, and no
\* index, of the host, of a node or of a message, exceeds it by more than the
\* groups there can be (the IDENTIFY branch, the task bodies of
\* /api/devices/update-meta, /api/groups/force and /api/discover, the group edits).
THEOREM TypeCorrect == Spec => []TypeOK
<1>1. IInv => TypeOK
  BY DEF IInv
<1> QED
  BY <1>1, InitIInv, NextIInv, PTL DEF Spec

\* Deleting, reordering or creating a group never moves a device to another one
\* (api_groups_delete, api_groups_resort, api_groups_create).
THEOREM MembershipKept == Spec => EditsKeepMembership
<1>1. IInv /\ [Next]_vars =>
        [groups' # groups =>
            \A d \in Known : grp[d] \in 1 .. Len(groups) =>
                IF \E i \in 1 .. Len(groups') : groups'[i] = groups[grp[d]]
                THEN grp'[d] \in 1 .. Len(groups') /\ groups'[grp'[d]] = groups[grp[d]]
                ELSE grp'[d] = 0]_vars
  BY KeepsMembership
<1> QED
  BY <1>1, InitIInv, NextIInv, PTL DEF Spec, EditsKeepMembership

\* Deleting or reordering groups leaves every scene aimed at the same groups
\* (renumber_group_references, remap_group_ids).
THEOREM ScenesFollow == Spec => ScenesFollowGroups
<1>1. IInv /\ [Next]_vars =>
        [groups' # groups /\ ScenesInOrder /\ ~Resort(FALSE) =>
            \A k \in DOMAIN scenes :
                Named(scenes'[k], groups')
                    = Named(scenes[k], groups) \cap Named(1 .. Len(groups'), groups')]_vars
  BY FollowGroups
<1> QED
  BY <1>1, InitIInv, NextIInv, PTL DEF Spec, ScenesFollowGroups

\* A device that turns up on another network does not stay in a group bound
\* elsewhere (update_from_identify, _relocate_device_network).
THEOREM RelocationCorrect == Spec => RelocationLeavesGroup
<1>1. IInv /\ [Next]_vars =>
        [\A d \in Known :
            net[d] # NoNet /\ net'[d] # net[d] /\ grp'[d] \in 1 .. Len(groups')
                => gnet'[groups'[grp'[d]]] \in {NoNet, net'[d]}]_vars
  BY LeavesGroup
<1> QED
  BY <1>1, InitIInv, NextIInv, PTL DEF Spec, RelocationLeavesGroup

----------------------------------------------------------------------------
(*                    RF configs of nodes and gateways                    *)
----------------------------------------------------------------------------
\* The steps each kind of job takes, and what it holds on the way.
StepsOf(kind) ==
    CASE kind = "net" -> {"push", "send", "sent", "switch", "switched", "verify"}
      [] kind = "move" -> {"push", "send", "sent", "save", "flip"}
      [] kind = "scan" -> {"retune", "listen", "save"}
      [] kind = "caseB" -> {"retune", "listen", "push", "send", "sent", "switch", "verify"}
      [] kind = "caseC" -> {"switch", "verify"}

JobShape ==
    job # None =>
        /\ job.pc \in StepsOf(job.kind)
        /\ job.kind # "move" => job.n \in Nets
        /\ job.kind \in {"net", "caseB", "caseC"} => job.c \in Configs
        /\ job.kind = "scan" \/ job.pc = "retune" => job.back \in Configs
        /\ job.pc \in {"send", "sent"} => job.cur \in Devs /\ job.c \in Configs
        /\ job.kind = "move" /\ job.todo # {} => job.c \in Configs
        /\ job.kind = "scan" /\ job.pc = "listen" => job.c \in Configs
        /\ job.kind \in {"scan", "caseC"} => job.todo = {}
        /\ job.pc \in {"save", "flip", "switch", "switched", "verify"} => job.todo = {}

\* A gateway that was rewritten is ahead of its record until the record follows.
NvsAhead == At("switched") => job.n \in drift

\* Until the verification the record names the config.
RecordTaken == At("verify") /\ Running("net") => mem.rf[job.n] = job.c

\* The record of a node in flight was moved before the command went out.
InFlight == At("send") \/ At("sent")
CurIsHome ==
    Running("move") /\ InFlight /\ job.cur \notin job.other => mem.dnet[job.cur] = job.n

\* A node is pushed to once.
PushedOnce ==
    job # None =>
        /\ Running("net") => job.good \cap job.todo = {}
        /\ Running("net") /\ InFlight => job.cur \notin job.good \cup job.todo

\* A node that acknowledged the push runs on the config.
PushedFollow ==
    Running("net") =>
        /\ \A d \in job.good \ job.other : dcfg[d] = job.c
        /\ At("sent") /\ job.got = "ack" /\ job.cur \notin job.other => dcfg[job.cur] = job.c

\* A member of a group that moves is on the target network or still to come.
MembersFollow ==
    Running("move") /\ job.c # None =>
        \A d \in Devs \ job.other :
            mem.grp[d] \in job.groups => mem.dnet[d] = job.n \/ d \in job.todo

\* While a scan listens after a switch that its gateway carried out, the gateway
\* is on the channel, and so is who was heard.
ScanTuned ==
    Running("scan") /\ At("listen") /\ job.n \notin job.other /\ ~job.foreign =>
        live[job.n] = job.c /\ \A d \in job.heard \ job.other : dcfg[d] = job.c

MigrationInv ==
    /\ MigrationTypeOK /\ JobShape
    /\ NvsAhead /\ RestartAgrees
    /\ RecordTaken /\ PushedOnce /\ PushedFollow
    /\ CurIsHome /\ MembersFollow
    /\ ScanTuned

----------------------------------------------------------------------------
(* The records                                                             *)

\* A node that turns up elsewhere: only its own record and group change.
LEMMA RelocatedFacts ==
    ASSUME MigrationTypeOK, NEW d \in Devs, NEW n \in Nets, NEW m \in RelocatedNode(d, n)
    PROVE  /\ m \in HostState
           /\ m.rf = mem.rf
           /\ m.dnet = [mem.dnet EXCEPT ![d] = n]
           /\ m.grp \in {mem.grp, [mem.grp EXCEPT ![d] = None]}
<1> DEFINE g == mem.grp[d]
           leaves == g # None /\ mem.gnet[g] \notin {None, n}
           groups1 == IF leaves THEN [mem.grp EXCEPT ![d] = None] ELSE mem.grp
           dnet == [mem.dnet EXCEPT ![d] = n]
           last == IF mem.rf[n] = None THEN mem.last ELSE [mem.last EXCEPT ![d] = mem.rf[n]]
           nets == IF leaves THEN MemberNets(g, groups1, dnet) ELSE {None}
<1>1. mem \in HostState /\ g \in Opt(Groups)
  BY DEF MigrationTypeOK, HostState
<1>2. PICK x \in nets : m = [mem EXCEPT !.grp = groups1, !.dnet = dnet, !.last = last,
                                        !.gnet = IF leaves THEN [@ EXCEPT ![g] = x] ELSE @]
  BY DEF RelocatedNode
<1>3. groups1 \in [Devs -> Opt(Groups)] /\ dnet \in [Devs -> Nets \cup EthNets]
  BY <1>1 DEF HostState, Opt
<1>4. last \in [Devs -> Opt(Configs)]
  BY <1>1 DEF HostState, Opt
<1>5. x \in Opt(Nets \cup EthNets)
  BY <1>3 DEF MemberNets, Opt
<1>6. (IF leaves THEN [mem.gnet EXCEPT ![g] = x] ELSE mem.gnet) \in [Groups -> Opt(Nets \cup EthNets)]
  BY <1>1, <1>5 DEF HostState
<1> HIDE DEF groups1, dnet, last, leaves, nets
<1>7. m.rf = mem.rf /\ m.dnet = dnet /\ m.grp = groups1 /\ m.last = last
  BY <1>1, <1>2 DEF HostState
<1>8. m \in HostState
  BY <1>1, <1>2, <1>3, <1>4, <1>6 DEF HostState
<1> QED
  BY <1>7, <1>8 DEF groups1, dnet

\* Flipping moves exactly the named nodes.
LEMMA FlippedFacts ==
    ASSUME MigrationTypeOK, NEW S \in SUBSET Devs, NEW n \in Nets \cup EthNets, NEW c \in Opt(Configs)
    PROVE  /\ Flipped(S, n, c) \in HostState
           /\ Flipped(S, n, c).rf = mem.rf /\ Flipped(S, n, c).grp = mem.grp
           /\ \A d \in Devs : Flipped(S, n, c).dnet[d] = IF d \in S THEN n ELSE mem.dnet[d]
  BY DEF MigrationTypeOK, HostState, Flipped

----------------------------------------------------------------------------
(* Types                                                                   *)

LEMMA InitMigration == MigrationInit => MigrationInv
<1> SUFFICES ASSUME MigrationInit PROVE MigrationInv
  OBVIOUS
<1>1. MigrationTypeOK
  BY MigrationAssumption DEF MigrationInit, MigrationTypeOK, HostState, Opt
<1>2. job = None
  BY DEF MigrationInit
<1>3. RestartAgrees
  BY DEF MigrationInit, RestartAgrees
<1> QED
  BY <1>1, <1>2, <1>3
  DEF MigrationInv, JobShape, NvsAhead, RecordTaken, CurIsHome, InFlight, PushedOnce,
      PushedFollow,
      MembersFollow, ScanTuned, At, Running

\* A well-formed job that just started.
LEMMA StartShape ==
    ASSUME MigrationTypeOK, NEW k \in Kinds, NEW p \in Steps, NEW n \in Nets \cup EthNets, NEW c \in Opt(Configs)
    PROVE  NewJob(k, p, n, c) \in Job
  BY DEF NewJob, Job, Opt

\* The answers of nodes and gateways.
LEMMA AnswerTypes ==
    ASSUME MigrationTypeOK, NEW d \in Devs, NEW v \in Opt(Nets), NEW c \in Configs, NEW a \in NodeAnswers(d, v, c)
    PROVE  /\ a.cfg \in Configs /\ a.got \in {"ack", "nak", "none"}
           /\ a.got = "ack" => a.cfg = c
  BY DEF MigrationTypeOK, NodeAnswers

LEMMA RouteType == ASSUME NEW d \in Devs PROVE RouteOf(d) \in Opt(Nets)
  BY DEF RouteOf, Opt

LEMMA RetuneType ==
    ASSUME MigrationTypeOK, NEW n, NEW c \in Configs, NEW a, TuneRadio(n, c, a)
    PROVE  live' \in [Nets -> Configs]
  BY DEF MigrationTypeOK, TuneRadio

LEMMA RewriteType ==
    ASSUME MigrationTypeOK, NEW n, NEW c \in Configs, NEW a, Rewrite(n, c, a)
    PROVE  live' \in [Nets -> Configs] /\ nvs' \in [Nets -> Configs]
  BY RetuneType DEF MigrationTypeOK, Rewrite

\* Counting a request or a start keeps the counters in their bounds.
LEMMA CounterType ==
    ASSUME MigrationTypeOK, OtherOp \/ Enter
    PROVE  ops' \in [jobs : 0 .. MaxJobs, other : 0 .. MaxOps] /\ ops' # ops
  BY MigrationAssumption DEF MigrationTypeOK, OtherOp, Enter

\* The steps of a running job, whatever it is.
LEMMA JobTypes ==
    ASSUME MigrationTypeOK, JobShape, JobStep
    PROVE  MigrationTypeOK' /\ JobShape'
<1> USE DEF radioVars
<1>0. job \in Job /\ job # None
  BY DEF MigrationTypeOK, JobStep, PushConfig, Send, Answered, PushesDone, SwitchGateway,
      RecordSwitch, VerifyEnds,
      CaseBRetune, CaseBHeard, ScanRetune, ScanHeard, ScanRestore, SaveJob, FlipGroups, At, Opt
<1>1. ASSUME NEW d \in Devs, PushConfig(d) PROVE MigrationTypeOK' /\ JobShape'
  <2>1. /\ job.n \in Nets \cup EthNets /\ job.c \in Opt(Configs)
        /\ Running("net") => job.n \in Nets
    BY <1>0 DEF Job, JobShape, Running
  <2>2. mem' \in HostState
    <3>1. {d} \in SUBSET Devs
      BY <1>1
    <3>2. Flipped({d}, job.n, job.c) \in HostState
      BY <2>1, <3>1, FlippedFacts
    <3> QED
      BY <1>1, <3>2 DEF PushConfig, MigrationTypeOK
  <2>3. job' \in Job
    <3> DEFINE via == IF Running("net") THEN job.n ELSE RouteOf(d)
               known == Running("move")
    <3>1. via \in Opt(Nets)
      BY <2>1, RouteType DEF Opt
    <3>2. known \in BOOLEAN
      BY DEF Running
    <3>3. job' = [job EXCEPT !.pc = "send", !.todo = @ \ {d}, !.cur = d, !.known = known, !.via = via]
      BY <1>1 DEF PushConfig
    <3> HIDE DEF via, known
    <3> QED
      BY <1>0, <3>1, <3>2, <3>3 DEF Job, Opt, Steps
  <2>4. JobShape'
    BY <1>0, <1>1, <2>1 DEF PushConfig, Job, JobShape, StepsOf, At, Running, Kinds
  <2> QED
    BY <1>1, <2>2, <2>3, <2>4 DEF MigrationTypeOK, PushConfig, Opt
<1>2. CASE Send
  <2>1. job.cur \in Devs /\ job.c \in Configs /\ job.via \in Opt(Nets)
    BY <1>0, <1>2 DEF Send, At, JobShape, Job
  <2>2. PICK a \in NodeAnswers(job.cur, job.via, job.c) :
            /\ dcfg' = [dcfg EXCEPT ![job.cur] = a.cfg]
            /\ job' = [job EXCEPT !.pc = "sent", !.got = a.got]
    BY <1>2 DEF Send
  <2>3. a.cfg \in Configs /\ a.got \in {"ack", "nak", "none"}
    BY <2>1, AnswerTypes
  <2>4. job' \in Job /\ dcfg' \in [Devs -> Configs]
    BY <1>0, <2>2, <2>3 DEF MigrationTypeOK, Job, Steps
  <2>5. JobShape'
    BY <1>0, <1>2, <2>2 DEF Send, Job, JobShape, StepsOf, At, Kinds
  <2> QED
    BY <1>2, <2>4, <2>5 DEF MigrationTypeOK, Send, Opt
<1>3. CASE Answered
  <2>1. job' \in Job
    BY <1>0, <1>3 DEF Answered, At, JobShape, Job, Opt, Steps
  <2>2. JobShape'
    BY <1>0, <1>3 DEF Answered, Job, JobShape, StepsOf, At, Kinds
  <2> QED
    BY <1>3, <2>1, <2>2 DEF MigrationTypeOK, Answered, Opt
<1>4. CASE PushesDone
  <2>1. job' \in Job
    BY <1>0, <1>4 DEF PushesDone, Job, Steps
  <2>2. JobShape'
    BY <1>0, <1>4 DEF PushesDone, Job, JobShape, StepsOf, At, Kinds, Running
  <2> QED
    BY <1>4, <2>1, <2>2 DEF MigrationTypeOK, PushesDone, Opt
<1>5. CASE SwitchGateway
  <2>1. job.n \in Nets /\ job.c \in Configs
    BY <1>0, <1>5 DEF SwitchGateway, At, JobShape, Job, StepsOf, Kinds
  <2>2. live' \in [Nets -> Configs] /\ nvs' \in [Nets -> Configs] /\ drift' \subseteq Nets
    BY <1>5, <2>1, RewriteType DEF SwitchGateway, MigrationTypeOK
  <2>3. job' \in Opt(Job)
    <3> DEFINE pc == IF Running("net") THEN "switched" ELSE "verify"
    <3>1. pc \in Steps
      BY DEF Steps
    <3>2. job' = None \/ job' = [job EXCEPT !.pc = pc, !.heard = {}]
      BY <1>5 DEF SwitchGateway
    <3> HIDE DEF pc
    <3>3. [job EXCEPT !.pc = pc, !.heard = {}] \in Job
      BY <1>0, <3>1 DEF Job
    <3> QED
      BY <3>2, <3>3 DEF Opt
  <2>4. JobShape'
    BY <1>0, <1>5 DEF SwitchGateway, Job, JobShape, StepsOf, At, Kinds, Running
  <2> QED
    BY <1>5, <2>2, <2>3, <2>4 DEF MigrationTypeOK, SwitchGateway
<1>6. CASE RecordSwitch
  <2>1. mem' \in HostState
    BY <1>0, <1>6 DEF RecordSwitch, MigrationTypeOK, HostState, Job
  <2>2. job' \in Job
    BY <1>0, <1>6 DEF RecordSwitch, Job, Steps
  <2>3. JobShape'
    BY <1>0, <1>6 DEF RecordSwitch, Job, JobShape, StepsOf, At, Kinds
  <2> QED
    BY <1>6, <2>1, <2>2, <2>3 DEF MigrationTypeOK, RecordSwitch, Opt
<1>7. CASE VerifyEnds
  <2>1. mem' \in HostState /\ disk' \in HostState
    <3>1. CASE Running("net") /\ Verified # {}
      <4> DEFINE last == [d \in Devs |-> IF d \in Verified THEN job.c ELSE mem.last[d]]
      <4>1. last \in [Devs -> Opt(Configs)]
        BY <1>0 DEF Job, MigrationTypeOK, HostState
      <4>2. mem' = [mem EXCEPT !.last = last] /\ disk' = mem'
        BY <1>7, <3>1 DEF VerifyEnds
      <4> HIDE DEF last
      <4> QED
        BY <4>1, <4>2 DEF MigrationTypeOK, HostState
    <3> QED
      BY <1>7, <3>1 DEF VerifyEnds, MigrationTypeOK
  <2> QED
    BY <1>7, <2>1 DEF MigrationTypeOK, VerifyEnds, Opt, JobShape
<1>8. CASE CaseBRetune
  <2>1. job.back \in Configs
    BY <1>0, <1>8 DEF CaseBRetune, Running, At, JobShape
  <2>2. live' \in [Nets -> Configs]
    BY <1>8, <2>1, RetuneType DEF CaseBRetune
  <2>3. job' \in Opt(Job)
    <3>1. job' = None \/ job' = [job EXCEPT !.pc = "listen", !.back = None]
      BY <1>8 DEF CaseBRetune
    <3>2. [job EXCEPT !.pc = "listen", !.back = None] \in Job
      BY <1>0 DEF Job, Steps, Opt
    <3> QED
      BY <3>1, <3>2 DEF Opt
  <2>4. JobShape'
    BY <1>0, <1>8 DEF CaseBRetune, Job, JobShape, StepsOf, At, Kinds, Running
  <2> QED
    BY <1>8, <2>2, <2>3, <2>4 DEF MigrationTypeOK, CaseBRetune
<1>9. CASE CaseBHeard
  <2>1. job' \in Job
    BY <1>0, <1>9 DEF CaseBHeard, Job, Steps
  <2>2. JobShape'
    BY <1>0, <1>9 DEF CaseBHeard, Job, JobShape, StepsOf, At, Kinds, Running
  <2> QED
    BY <1>9, <2>1, <2>2 DEF MigrationTypeOK, CaseBHeard, Opt
<1>10. ASSUME NEW c \in Configs, ScanRetune(c) PROVE MigrationTypeOK' /\ JobShape'
  <2>1. live' \in [Nets -> Configs]
    BY <1>10, RetuneType DEF ScanRetune
  <2>2. job' \in Job
    <3>1. PICK f \in BOOLEAN :
              \/ job' = [job EXCEPT !.chans = @ \ {c}, !.pc = "listen", !.c = c, !.heard = {},
                                          !.foreign = f]
              \/ job' = [job EXCEPT !.chans = @ \ {c}]
      BY <1>10 DEF ScanRetune, OthersAnswer
    <3>2. [job EXCEPT !.chans = @ \ {c}, !.pc = "listen", !.c = c, !.heard = {}, !.foreign = f] \in Job
      BY <1>0 DEF Job, Steps, Opt
    <3>3. [job EXCEPT !.chans = @ \ {c}] \in Job
      BY <1>0 DEF Job
    <3> QED
      BY <3>1, <3>2, <3>3
  <2>3. JobShape'
    BY <1>0, <1>10 DEF ScanRetune, Job, JobShape, StepsOf, At, Kinds, Running
  <2> QED
    BY <1>10, <2>1, <2>2, <2>3 DEF MigrationTypeOK, ScanRetune, Opt
<1>11. CASE ScanHeard
  <2>1. mem' \in HostState
    BY <1>0, <1>11 DEF ScanHeard, MigrationTypeOK, HostState, Job
  <2>2. job' \in Job
    <3> DEFINE known == job.known \/ job.heard # {}
    <3>1. known \in BOOLEAN
      OBVIOUS
    <3>2. job' = [job EXCEPT !.pc = "retune", !.known = known, !.c = None, !.heard = {},
                             !.foreign = FALSE]
      BY <1>11 DEF ScanHeard
    <3> HIDE DEF known
    <3> QED
      BY <1>0, <3>1, <3>2 DEF Job, Steps, Opt
  <2>3. JobShape'
    BY <1>0, <1>11 DEF ScanHeard, Job, JobShape, StepsOf, At, Kinds, Running
  <2> QED
    BY <1>11, <2>1, <2>2, <2>3 DEF MigrationTypeOK, ScanHeard, Opt
<1>12. CASE ScanRestore
  <2>1. job.back \in Configs
    BY <1>0, <1>12 DEF ScanRestore, Running, JobShape
  <2>2. live' \in [Nets -> Configs]
    BY <1>12, <2>1, RetuneType DEF ScanRestore
  <2>3. job' \in Job
    BY <1>0, <1>12 DEF ScanRestore, Job, Steps
  <2>4. JobShape'
    BY <1>0, <1>12 DEF ScanRestore, Job, JobShape, StepsOf, At, Kinds, Running, NewJob
  <2> QED
    BY <1>12, <2>2, <2>3, <2>4 DEF MigrationTypeOK, ScanRestore, Opt
<1>13. CASE SaveJob
  <2>1. job' \in Opt(Job)
    BY <1>0, <1>13 DEF SaveJob, Job, Steps, Opt
  <2>2. JobShape'
    BY <1>0, <1>13 DEF SaveJob, Job, JobShape, StepsOf, At, Kinds, Running
  <2> QED
    BY <1>13, <2>1, <2>2 DEF MigrationTypeOK, SaveJob
<1>14. CASE FlipGroups
  <2>1. mem' \in HostState
    BY <1>0, <1>14 DEF FlipGroups, MigrationTypeOK, HostState, Job, Opt
  <2> QED
    BY <1>14, <2>1 DEF MigrationTypeOK, FlipGroups, Opt, JobShape
<1> QED
  BY <1>1, <1>2, <1>3, <1>4, <1>5, <1>6, <1>7, <1>8, <1>9, <1>10, <1>11, <1>12, <1>13, <1>14
  DEF JobStep

\* Starting a job.
LEMMA StartTypes ==
    ASSUME MigrationTypeOK, Start
    PROVE  MigrationTypeOK' /\ JobShape'
<1> USE DEF radioVars
<1>1. ASSUME NEW n \in Nets, NEW c \in Configs, NEW force \in BOOLEAN, StartNet(n, c, force)
      PROVE  MigrationTypeOK' /\ JobShape'
  <2>1. PICK todo \in SUBSET Devs : job' = [NewJob("net", "push", n, c) EXCEPT !.todo = todo]
    BY <1>1 DEF StartNet, StartJob
  <2>2. job' \in Job /\ JobShape'
    BY <2>1 DEF NewJob, Job, Kinds, Steps, Opt, JobShape, StepsOf
  <2> QED
    BY <1>1, <2>2, CounterType DEF StartNet, StartJob, MigrationTypeOK, Opt
<1>2. ASSUME NEW n \in Nets \cup EthNets, NEW gs \in SUBSET Groups, NEW mode \in {"block", "skip", "force"},
             StartMove(n, gs, mode)
      PROVE  MigrationTypeOK' /\ JobShape'
  <2> DEFINE m == IF mem.rf[n] = None THEN [flipped |-> {}, todo |-> {}]
                  ELSE Moving(n, Members(gs), mode = "force")
  <2>1. /\ m.flipped \in SUBSET Devs /\ m.todo \in SUBSET Devs
        /\ m.todo # {} => mem.rf[n] # None
        /\ mem.rf[n] \in Opt(Configs)
    BY DEF Moving, Members, MigrationTypeOK, HostState
  <2>2. /\ mem' = Flipped(m.flipped, n, mem.rf[n])
        /\ job' = [NewJob("move", "push", n, mem.rf[n])
                     EXCEPT !.todo = m.todo, !.groups = gs, !.known = m.flipped # {}]
    BY <1>2 DEF StartMove
  <2> HIDE DEF m
  <2>3. mem' \in HostState
    BY <2>1, <2>2, FlippedFacts
  <2>4. (m.flipped # {}) \in BOOLEAN
    OBVIOUS
  <2>5. job' \in Job
    BY <2>1, <2>2, <2>4 DEF NewJob, Job, Kinds, Steps, Opt
  <2>6. JobShape'
    BY <2>1, <2>2 DEF NewJob, JobShape, StepsOf, Opt
  <2> QED
    BY <1>2, <2>3, <2>5, <2>6, CounterType DEF StartMove, MigrationTypeOK, Opt
<1>3. ASSUME NEW n \in Nets, StartScan(n) PROVE MigrationTypeOK' /\ JobShape'
  <2>1. /\ job' = [NewJob("scan", "retune", n, None) EXCEPT !.back = live[n], !.chans = Configs]
        /\ live[n] \in Configs
    BY <1>3 DEF StartScan, StartJob, Snapshots, MigrationTypeOK
  <2>2. job' \in Job /\ JobShape'
    BY <2>1 DEF NewJob, Job, Kinds, Steps, Opt, JobShape, StepsOf
  <2> QED
    BY <1>3, <2>2, CounterType DEF StartScan, StartJob, MigrationTypeOK, Opt
<1>4. ASSUME NEW old \in Configs, NEW new \in Configs, NEW t \in Targets, StartCaseB(old, new, t)
      PROVE  MigrationTypeOK' /\ JobShape'
  <2>1. job' = [NewJob("caseB", "retune", Primary, new) EXCEPT !.back = old, !.todo = t]
    BY <1>4 DEF StartCaseB, StartJob
  <2>2. job' \in Job /\ JobShape'
    BY <2>1, MigrationAssumption DEF NewJob, Job, Kinds, Steps, Opt, JobShape, StepsOf
  <2> QED
    BY <1>4, <2>2, CounterType DEF StartCaseB, StartJob, MigrationTypeOK, Opt
<1>5. ASSUME NEW c \in Configs, StartCaseC(c) PROVE MigrationTypeOK' /\ JobShape'
  <2>1. job' \in Job /\ JobShape'
    BY <1>5, MigrationAssumption
    DEF StartCaseC, StartJob, NewJob, Job, Kinds, Steps, Opt, JobShape, StepsOf
  <2> QED
    BY <1>5, <2>1, CounterType DEF StartCaseC, StartJob, MigrationTypeOK, Opt
<1> QED
  BY <1>1, <1>2, <1>3, <1>4, <1>5 DEF Start

\* What others do while a job runs: of the job they change only what was heard
\* and what is marked as changed by others.
Untouched ==
    job # None /\ job' # None =>
        /\ job'.kind = job.kind /\ job'.pc = job.pc /\ job'.n = job.n /\ job'.c = job.c
        /\ job'.back = job.back /\ job'.todo = job.todo /\ job'.groups = job.groups
        /\ job'.cur = job.cur /\ job'.got = job.got /\ job'.good = job.good /\ job'.bad = job.bad
        /\ job.other \subseteq job'.other /\ job'.foreign = job.foreign

\* A request that marks what it changed.
LEMMA Marked ==
    ASSUME MigrationTypeOK, NEW S \in SUBSET (Devs \cup Nets), NEW h \in SUBSET Devs,
           job' = IF job = None THEN None
                  ELSE [job EXCEPT !.heard = @ \cup h, !.other = @ \cup S]
    PROVE  /\ job' \in Opt(Job) /\ Untouched /\ (job = None <=> job' = None)
           /\ job # None => job'.other = job.other \cup S /\ job'.heard = job.heard \cup h
<1>1. CASE job = None
  BY <1>1 DEF Opt, Untouched
<1>2. CASE job # None
  <2>1. job \in Job
    BY <1>2 DEF MigrationTypeOK, Opt
  <2>2. job' \in Job
    BY <1>2, <2>1 DEF Job
  <2>3. job'.other = job.other \cup S /\ job'.heard = job.heard \cup h /\ Untouched
    BY <1>2, <2>1 DEF Job, Untouched
  <2> QED
    BY <1>2, <2>2, <2>3, NoJobAssumption DEF Opt
<1> QED
  BY <1>1, <1>2

LEMMA MarkedOther ==
    ASSUME MigrationTypeOK, NEW x \in Devs \cup Nets,
           job' = IF job = None THEN None ELSE [job EXCEPT !.other = @ \cup {x}]
    PROVE  /\ job' \in Opt(Job) /\ Untouched /\ (job = None <=> job' = None)
           /\ job # None => job'.other = job.other \cup {x} /\ job'.heard = job.heard
<1>1. CASE job = None
  BY <1>1 DEF Opt, Untouched
<1>2. CASE job # None
  <2>1. job \in Job
    BY <1>2 DEF MigrationTypeOK, Opt
  <2>2. job' = [job EXCEPT !.heard = @ \cup {}, !.other = @ \cup {x}]
    BY <1>2, <2>1 DEF Job
  <2>3. {} \in SUBSET Devs /\ {x} \in SUBSET (Devs \cup Nets)
    OBVIOUS
  <2>4. /\ job' \in Opt(Job) /\ Untouched /\ (job = None <=> job' = None)
        /\ job'.other = job.other \cup {x} /\ job'.heard = job.heard \cup {}
    BY <1>2, <2>2, <2>3, Marked
  <2> QED
    BY <1>2, <2>4
<1> QED
  BY <1>1, <1>2

\* What a job may rely on while others act: they mark every node and gateway
\* they change, and an answer that a scan collects came over its gateway.
Reliable ==
    /\ Untouched
    /\ job' # None =>
        /\ job # None
        /\ mem'.rf = mem.rf
        /\ \A d \in Devs \ job'.other : mem'.dnet[d] = mem.dnet[d] /\ mem'.grp[d] = mem.grp[d]
        /\ \A d \in Devs \ job'.other : dcfg'[d] = dcfg[d]
        /\ \A n \in Nets \ job'.other : live'[n] = live[n]
        /\ job.kind = "scan" /\ job.pc = "listen" =>
              \A d \in job'.heard \ job.heard : dcfg[d] = live[job.n]

\* The record of no network changes, and NVS only with a mark.
RecordsKept ==
    /\ mem'.rf \in {mem.rf, disk.rf} /\ disk'.rf \in {mem.rf, disk.rf}
    /\ drift \subseteq drift' /\ drift' \subseteq Nets
    /\ \A n \in Nets \ drift' : nvs'[n] = nvs[n]

LEMMA OthersMark ==
    ASSUME MigrationTypeOK, JobShape, Environment
    PROVE  MigrationTypeOK' /\ JobShape' /\ Reliable /\ RecordsKept
<1> USE DEF radioVars
<1>a. ASSUME Untouched, job' # None => job # None PROVE JobShape'
  BY <1>a DEF Untouched, JobShape
<1>1. ASSUME NEW d \in Devs, NEW n \in Nets, Identify(d, n)
      PROVE  MigrationTypeOK' /\ JobShape' /\ Reliable /\ RecordsKept
  <2> DEFINE moved == mem.dnet[d] # n
             h == IF Collects(n) THEN {d} ELSE {}
             S == IF moved THEN {d} ELSE {}
  <2>1. /\ mem' \in HostState /\ mem'.rf = mem.rf
        /\ \A e \in Devs \ {d} : mem'.dnet[e] = mem.dnet[e] /\ mem'.grp[e] = mem.grp[e]
        /\ ~moved => mem' = mem
    <3>1. CASE moved
      <4>1. mem' \in RelocatedNode(d, n)
        BY <1>1, <3>1 DEF Identify
      <4>2. mem.dnet \in [Devs -> Nets \cup EthNets] /\ mem.grp \in [Devs -> Opt(Groups)]
        BY DEF MigrationTypeOK, HostState
      <4>3. /\ mem' \in HostState /\ mem'.rf = mem.rf
            /\ mem'.dnet = [mem.dnet EXCEPT ![d] = n]
            /\ mem'.grp \in {mem.grp, [mem.grp EXCEPT ![d] = None]}
        BY <4>1, RelocatedFacts
      <4> QED
        BY <3>1, <4>2, <4>3
    <3>2. CASE ~moved
      BY <1>1, <3>2 DEF Identify, MigrationTypeOK
    <3> QED
      BY <3>1, <3>2
  <2>2. S \in SUBSET (Devs \cup Nets) /\ h \in SUBSET Devs
    OBVIOUS
  <2>3. job' = IF job = None THEN None ELSE [job EXCEPT !.heard = @ \cup h, !.other = @ \cup S]
    <3>1. CASE job = None
      BY <1>1, <3>1 DEF Identify
    <3>2. CASE job # None
      <4>1. job \in Job
        BY <3>2 DEF MigrationTypeOK, Opt
      <4>2. (IF Collects(n) THEN job.heard \cup {d} ELSE job.heard) = job.heard \cup h
        OBVIOUS
      <4>3. (IF moved THEN job.other \cup {d} ELSE job.other) = job.other \cup S
        OBVIOUS
      <4> QED
        BY <1>1, <3>2, <4>1, <4>2, <4>3 DEF Identify, Job
    <3> QED
      BY <3>1, <3>2
  <2>4. /\ job' \in Opt(Job) /\ Untouched /\ (job = None <=> job' = None)
        /\ job # None => job'.other = job.other \cup S /\ job'.heard = job.heard \cup h
    <3> HIDE DEF S, h
    <3> QED
      BY <2>2, <2>3, Marked
  <2>5. dcfg[d] = live[n] /\ UNCHANGED << disk, dcfg, live, nvs, drift, ops >> /\ reachable' = reachable \cup {d}
    BY <1>1 DEF Identify
  <2>6. MigrationTypeOK'
    BY <2>1, <2>4, <2>5 DEF MigrationTypeOK
  <2>7. job # None /\ job.kind = "scan" /\ job.pc = "listen" =>
            \A e \in job'.heard \ job.heard : dcfg[e] = live[job.n]
    BY <2>4, <2>5 DEF Collects, Running
  <2>8. \A e \in Devs \ S : mem'.dnet[e] = mem.dnet[e] /\ mem'.grp[e] = mem.grp[e]
    BY <2>1
  <2>9. Reliable
    <3> HIDE DEF S, h
    <3> QED
      BY <2>1, <2>4, <2>5, <2>7, <2>8 DEF Reliable
  <2>10. RecordsKept
    BY <2>1, <2>5 DEF RecordsKept, MigrationTypeOK
  <2> QED
    BY <1>a, <2>4, <2>6, <2>9, <2>10
<1>2. ASSUME NEW d \in Devs, Silence(d)
      PROVE  MigrationTypeOK' /\ JobShape' /\ Reliable /\ RecordsKept
  <2>1. UNCHANGED << mem, disk, dcfg, live, nvs, drift, job >> /\ reachable' \subseteq Devs
        /\ ops' \in [jobs : 0 .. MaxJobs, other : 0 .. MaxOps]
    BY <1>2, CounterType DEF Silence, MigrationTypeOK
  <2> QED
    BY <2>1 DEF MigrationTypeOK, JobShape, Reliable, Untouched, RecordsKept
<1>3. ASSUME NEW d \in Devs, NEW c \in Configs, DirectPush(d, c)
      PROVE  MigrationTypeOK' /\ JobShape' /\ Reliable /\ RecordsKept
  <2>1. PICK a \in NodeAnswers(d, RouteOf(d), c) : dcfg' = [dcfg EXCEPT ![d] = a.cfg]
    BY <1>3 DEF DirectPush
  <2>2. dcfg' \in [Devs -> Configs] /\ \A e \in Devs \ {d} : dcfg'[e] = dcfg[e]
    BY <2>1, RouteType, AnswerTypes DEF MigrationTypeOK
  <2>3. job' = IF job = None THEN None ELSE [job EXCEPT !.other = @ \cup {d}]
    BY <1>3 DEF DirectPush
  <2>4. /\ job' \in Opt(Job) /\ Untouched /\ (job = None <=> job' = None)
        /\ job # None => job'.other = job.other \cup {d} /\ job'.heard = job.heard
    BY <2>3, MarkedOther
  <2>5. UNCHANGED << mem, disk, reachable, live, nvs, drift >>
        /\ ops' \in [jobs : 0 .. MaxJobs, other : 0 .. MaxOps]
    BY <1>3, CounterType DEF DirectPush
  <2>6. MigrationTypeOK'
    BY <2>2, <2>4, <2>5 DEF MigrationTypeOK
  <2>7. Reliable
    BY <2>2, <2>4, <2>5 DEF Reliable
  <2>8. RecordsKept
    BY <2>5 DEF RecordsKept, MigrationTypeOK
  <2> QED
    BY <1>a, <2>4, <2>6, <2>7, <2>8
<1>4. ASSUME NEW n \in Nets, NEW c \in Configs, NEW persist \in BOOLEAN, GatewayPush(n, c, persist)
      PROVE  MigrationTypeOK' /\ JobShape' /\ Reliable /\ RecordsKept
  <2>1. PICK a \in GatewayAnswers :
            /\ IF persist THEN Rewrite(n, c, a) ELSE TuneRadio(n, c, a) /\ UNCHANGED nvs
            /\ drift' = IF persist /\ a.done THEN drift \cup {n} ELSE drift
    BY <1>4 DEF GatewayPush
  <2>2. /\ live' \in [Nets -> Configs] /\ nvs' \in [Nets -> Configs]
        /\ \A m \in Nets \ {n} : live'[m] = live[m]
        /\ drift \subseteq drift' /\ drift' \subseteq Nets
        /\ \A m \in Nets \ drift' : nvs'[m] = nvs[m]
    BY <2>1 DEF MigrationTypeOK, Rewrite, TuneRadio
  <2>3. job' = IF job = None THEN None ELSE [job EXCEPT !.other = @ \cup {n}]
    BY <1>4 DEF GatewayPush
  <2>4. /\ job' \in Opt(Job) /\ Untouched /\ (job = None <=> job' = None)
        /\ job # None => job'.other = job.other \cup {n} /\ job'.heard = job.heard
    BY <2>3, MarkedOther
  <2>5. UNCHANGED << mem, disk, reachable, dcfg >>
        /\ ops' \in [jobs : 0 .. MaxJobs, other : 0 .. MaxOps]
    BY <1>4, CounterType DEF GatewayPush
  <2>6. MigrationTypeOK'
    BY <2>2, <2>4, <2>5 DEF MigrationTypeOK
  <2>7. Reliable
    BY <2>2, <2>4, <2>5 DEF Reliable
  <2>8. RecordsKept
    BY <2>2, <2>5 DEF RecordsKept
  <2> QED
    BY <1>a, <2>4, <2>6, <2>7, <2>8
<1>5. ASSUME NEW n \in Nets, PowerCycle(n)
      PROVE  MigrationTypeOK' /\ JobShape' /\ Reliable /\ RecordsKept
  <2>1. live' \in [Nets -> Configs] /\ \A m \in Nets \ {n} : live'[m] = live[m]
    BY <1>5 DEF PowerCycle, MigrationTypeOK
  <2>2. job' = IF job = None THEN None ELSE [job EXCEPT !.other = @ \cup {n}]
    BY <1>5 DEF PowerCycle
  <2>3. /\ job' \in Opt(Job) /\ Untouched /\ (job = None <=> job' = None)
        /\ job # None => job'.other = job.other \cup {n} /\ job'.heard = job.heard
    BY <2>2, MarkedOther
  <2>4. UNCHANGED << mem, disk, reachable, dcfg, nvs, drift >>
        /\ ops' \in [jobs : 0 .. MaxJobs, other : 0 .. MaxOps]
    BY <1>5, CounterType DEF PowerCycle
  <2>5. MigrationTypeOK'
    BY <2>1, <2>3, <2>4 DEF MigrationTypeOK
  <2>6. Reliable
    BY <2>1, <2>3, <2>4 DEF Reliable
  <2>7. RecordsKept
    BY <2>4 DEF RecordsKept, MigrationTypeOK
  <2> QED
    BY <1>a, <2>3, <2>5, <2>6, <2>7
<1>6. ASSUME Crash PROVE MigrationTypeOK' /\ JobShape' /\ Reliable /\ RecordsKept
  <2>1. /\ mem' = disk /\ reachable' = {} /\ job' = None /\ UNCHANGED << disk, dcfg, live, nvs >>
        /\ drift' = drift \cup {n \in Nets : disk.rf[n] # nvs[n]}
        /\ ops' \in [jobs : 0 .. MaxJobs, other : 0 .. MaxOps]
    BY <1>6, CounterType DEF Crash
  <2>2. MigrationTypeOK'
    BY <2>1 DEF MigrationTypeOK, Opt
  <2>3. JobShape' /\ Reliable
    BY <2>1 DEF JobShape, Reliable, Untouched
  <2>4. RecordsKept
    BY <2>1 DEF RecordsKept, MigrationTypeOK
  <2> QED
    BY <2>2, <2>3, <2>4
<1>7. ASSUME OtherSave PROVE MigrationTypeOK' /\ JobShape' /\ Reliable /\ RecordsKept
  <2>1. UNCHANGED << mem, reachable, dcfg, live, nvs, drift, job >> /\ disk' = mem
        /\ ops' \in [jobs : 0 .. MaxJobs, other : 0 .. MaxOps]
    BY <1>7, CounterType DEF OtherSave
  <2> QED
    BY <2>1 DEF MigrationTypeOK, JobShape, Reliable, Untouched, RecordsKept
<1> QED
  BY <1>1, <1>2, <1>3, <1>4, <1>5, <1>6, <1>7 DEF Environment

----------------------------------------------------------------------------
(* The inductive invariant                                                 *)

\* While others act.
LEMMA OthersKeep ==
    ASSUME MigrationInv, Environment
    PROVE  MigrationInv'
<1>1. MigrationTypeOK' /\ JobShape' /\ Reliable /\ RecordsKept
  BY OthersMark DEF MigrationInv
<1> USE <1>1 DEF MigrationInv, Reliable
<1>2. RestartAgrees'
  BY DEF RecordsKept, RestartAgrees
<1>3. CASE job' = None
  BY <1>2, <1>3 DEF NvsAhead, RecordTaken, CurIsHome, InFlight, PushedOnce, PushedFollow,
      MembersFollow, ScanTuned, At, Running
<1>4. CASE job' # None
  <2>1. job # None /\ job \in Job /\ job' \in Job
    BY <1>4 DEF MigrationTypeOK, Opt
  <2>2. NvsAhead'
    BY <1>4 DEF Untouched, RecordsKept, NvsAhead, At
  <2>3. RecordTaken'
    BY <1>4 DEF Untouched, RecordTaken, At, Running
  <2>4. PushedOnce'
    BY <1>4 DEF Untouched, PushedOnce, At, Running, InFlight
  <2>5. PushedFollow'
    <3>1. ASSUME Running("net")' PROVE \A d \in job'.good \ job'.other : dcfg'[d] = job'.c
      BY <1>4, <2>1, <3>1 DEF Untouched, PushedFollow, Running, Job
    <3>2. ASSUME Running("net")', At("sent")', job'.got = "ack", job'.cur \notin job'.other
          PROVE  dcfg'[job'.cur] = job'.c
      BY <1>4, <3>2 DEF Untouched, PushedFollow, At, Running, JobShape
    <3> QED
      BY <3>1, <3>2 DEF PushedFollow
  <2>6. CurIsHome'
    BY <1>4 DEF Untouched, CurIsHome, At, Running, InFlight, JobShape
  <2>7. MembersFollow'
    BY <1>4 DEF Untouched, MembersFollow, Running
  <2>8. ScanTuned'
    <3>1. ASSUME Running("scan")', At("listen")', job'.n \notin job'.other, ~job'.foreign
          PROVE  /\ live'[job'.n] = job'.c
                 /\ \A d \in job'.heard \ job'.other : dcfg'[d] = job'.c
      <4>1. /\ job.kind = "scan" /\ job.pc = "listen" /\ job.n \notin job.other /\ ~job.foreign
            /\ job.n \in Nets /\ job'.n = job.n /\ job'.c = job.c
        BY <1>4, <3>1 DEF Untouched, At, Running, JobShape
      <4>2. live[job.n] = job.c /\ \A d \in job.heard \ job.other : dcfg[d] = job.c
        BY <1>4, <4>1 DEF ScanTuned, At, Running
      <4>3. \A d \in job'.heard \ job.heard : dcfg[d] = live[job.n]
        BY <1>4, <4>1
      <4>4. \A d \in job'.heard \ job'.other : dcfg[d] = job.c
        BY <1>4, <4>2, <4>3 DEF Untouched
      <4>5. job'.heard \subseteq Devs
        BY <2>1 DEF Job
      <4> QED
        BY <1>4, <3>1, <4>1, <4>2, <4>4, <4>5
    <3> QED
      BY <3>1 DEF ScanTuned
  <2> QED
    BY <1>2, <2>2, <2>3, <2>4, <2>5, <2>6, <2>7, <2>8
<1> QED
  BY <1>3, <1>4

\* When a job starts.
LEMMA StartKeeps ==
    ASSUME MigrationInv, Start
    PROVE  MigrationInv'
<1>1. MigrationTypeOK' /\ JobShape'
  BY StartTypes DEF MigrationInv
<1>2. mem'.rf = mem.rf /\ disk' = disk /\ nvs' = nvs /\ drift' = drift
  <2>1. ASSUME NEW n \in Nets \cup EthNets, NEW gs \in SUBSET Groups, NEW mode, StartMove(n, gs, mode)
        PROVE  mem'.rf = mem.rf /\ disk' = disk /\ nvs' = nvs /\ drift' = drift
    BY <2>1 DEF StartMove, Flipped, MigrationInv, MigrationTypeOK, HostState, radioVars
  <2> QED
    BY <2>1 DEF Start, StartNet, StartScan, StartCaseB, StartCaseC, StartJob, radioVars
<1>3. RestartAgrees'
  BY <1>2 DEF MigrationInv, RestartAgrees
<1>4. ASSUME NEW n \in Nets \cup EthNets, NEW gs \in SUBSET Groups, NEW mode, StartMove(n, gs, mode)
      PROVE  MigrationInv'
  <2> DEFINE m == IF mem.rf[n] = None THEN [flipped |-> {}, todo |-> {}]
                  ELSE Moving(n, Members(gs), mode = "force")
  <2>1. /\ mem' = Flipped(m.flipped, n, mem.rf[n])
        /\ job' = [NewJob("move", "push", n, mem.rf[n])
                     EXCEPT !.todo = m.todo, !.groups = gs, !.known = m.flipped # {}]
    BY <1>4 DEF StartMove
  <2>2. /\ m.flipped \in SUBSET Devs /\ mem.rf[n] \in Opt(Configs)
        /\ mem.rf[n] # None =>
              \A d \in Devs : mem.grp[d] \in gs => mem.dnet[d] = n \/ d \in m.flipped \cup m.todo
    BY DEF Moving, Members, MigrationInv, MigrationTypeOK, HostState
  <2> HIDE DEF m
  <2>3. /\ job'.kind = "move" /\ job'.pc = "push" /\ job'.n = n /\ job'.c = mem.rf[n]
        /\ job'.groups = gs /\ job'.todo = m.todo
    BY <2>1 DEF NewJob
  <2>4. /\ mem'.grp = mem.grp
        /\ \A d \in Devs : mem'.dnet[d] = IF d \in m.flipped THEN n ELSE mem.dnet[d]
    <3>1. mem \in HostState
      BY DEF MigrationInv, MigrationTypeOK
    <3> QED
      BY <2>1, <3>1 DEF Flipped, HostState
  <2>5. MembersFollow'
    BY <2>2, <2>3, <2>4 DEF MembersFollow
  <2> QED
    BY <1>1, <1>3, <2>3, <2>5
    DEF MigrationInv, NvsAhead, RecordTaken, CurIsHome, InFlight, PushedOnce, PushedFollow,
        ScanTuned, At, Running
<1>5. CASE \/ \E n \in Nets, c \in Configs, force \in BOOLEAN : StartNet(n, c, force)
           \/ \E n \in Nets : StartScan(n)
           \/ \E old, new \in Configs, t \in Targets : StartCaseB(old, new, t)
           \/ \E c \in Configs : StartCaseC(c)
  <2>1. /\ job'.pc \in {"push", "retune", "switch"} /\ job'.kind # "move"
        /\ job'.good = {} /\ job'.heard = {}
    <3>1. ASSUME NEW n \in Nets, NEW c \in Configs, NEW force \in BOOLEAN, StartNet(n, c, force)
          PROVE  job'.pc = "push" /\ job'.kind = "net" /\ job'.good = {} /\ job'.heard = {}
      BY <3>1 DEF StartNet, StartJob, NewJob
    <3>2. ASSUME NEW n \in Nets, StartScan(n)
          PROVE  job'.pc = "retune" /\ job'.kind = "scan" /\ job'.good = {} /\ job'.heard = {}
      BY <3>2 DEF StartScan, StartJob, NewJob
    <3>3. ASSUME NEW old \in Configs, NEW new \in Configs, NEW t \in Targets, StartCaseB(old, new, t)
          PROVE  job'.pc = "retune" /\ job'.kind = "caseB" /\ job'.good = {} /\ job'.heard = {}
      BY <3>3 DEF StartCaseB, StartJob, NewJob
    <3>4. ASSUME NEW c \in Configs, StartCaseC(c)
          PROVE  job'.pc = "switch" /\ job'.kind = "caseC" /\ job'.good = {} /\ job'.heard = {}
      BY <3>4 DEF StartCaseC, StartJob, NewJob
    <3> QED
      BY <1>5, <3>1, <3>2, <3>3, <3>4
  <2> QED
    BY <1>1, <1>3, <2>1
    DEF MigrationInv, NvsAhead, RecordTaken, CurIsHome, InFlight, PushedOnce, PushedFollow,
        MembersFollow,
        ScanTuned, At, Running
<1> QED
  BY <1>4, <1>5 DEF Start

\* When the job takes a step.
LEMMA JobKeeps ==
    ASSUME MigrationInv, JobStep
    PROVE  MigrationInv'
<1> USE DEF radioVars
<1>0. MigrationTypeOK' /\ JobShape'
  BY JobTypes DEF MigrationInv
<1>1. job \in Job /\ job # None
  BY DEF MigrationInv, MigrationTypeOK, JobStep, PushConfig, Send, Answered, PushesDone,
      SwitchGateway, RecordSwitch, VerifyEnds,
      CaseBRetune, CaseBHeard, ScanRetune, ScanHeard, ScanRestore, SaveJob, FlipGroups, At, Opt
<1>2. mem \in HostState /\ disk \in HostState
  BY DEF MigrationInv, MigrationTypeOK
<1>3. ASSUME job' = None, RestartAgrees' PROVE MigrationInv'
  BY <1>0, <1>3
  DEF MigrationInv, NvsAhead, RecordTaken, CurIsHome, InFlight, PushedOnce, PushedFollow,
      MembersFollow, ScanTuned,
      At, Running
<1>4. ASSUME mem'.rf = mem.rf, disk'.rf \in {mem.rf, disk.rf}, UNCHANGED << nvs, drift >>
      PROVE  RestartAgrees'
  BY <1>4 DEF MigrationInv, RestartAgrees
<1>5. ASSUME NEW d \in Devs, PushConfig(d) PROVE MigrationInv'
  <2>1. /\ At("push") /\ d \in job.todo /\ UNCHANGED << disk, dcfg, live, nvs, drift >>
        /\ job'.kind = job.kind /\ job'.pc = "send" /\ job'.todo = job.todo \ {d} /\ job'.cur = d
        /\ job'.n = job.n /\ job'.c = job.c /\ job'.groups = job.groups
        /\ job'.good = job.good /\ job'.bad = job.bad /\ job'.other = job.other
    BY <1>1, <1>5 DEF PushConfig, Job
  <2>2. /\ mem'.rf = mem.rf /\ mem'.grp = mem.grp
        /\ Running("move") =>
              \A e \in Devs : mem'.dnet[e] = IF e = d THEN job.n ELSE mem.dnet[e]
        /\ ~Running("move") => mem' = mem
    BY <1>2, <1>5 DEF PushConfig, Flipped, HostState
  <2>3. RestartAgrees'
    BY <1>4, <2>1, <2>2
  <2>4. NvsAhead' /\ RecordTaken' /\ ScanTuned'
    BY <2>1 DEF NvsAhead, RecordTaken, ScanTuned, At, Running
  <2>5. CurIsHome'
    BY <1>1, <2>1, <2>2 DEF CurIsHome, At, Running
  <2>6. PushedOnce' /\ PushedFollow'
    BY <1>1, <2>1 DEF MigrationInv, PushedOnce, PushedFollow, At, Running, InFlight
  <2>7. MembersFollow'
    BY <1>1, <2>1, <2>2 DEF MigrationInv, MembersFollow, Running
  <2> QED
    BY <1>0, <2>3, <2>4, <2>5, <2>6, <2>7 DEF MigrationInv
<1>6. CASE Send
  <2>1. PICK a \in NodeAnswers(job.cur, job.via, job.c) :
            /\ dcfg' = [dcfg EXCEPT ![job.cur] = a.cfg]
            /\ job' = [job EXCEPT !.pc = "sent", !.got = a.got]
    BY <1>6 DEF Send
  <2>2. /\ At("send") /\ UNCHANGED << mem, disk, live, nvs, drift >>
        /\ job'.kind = job.kind /\ job'.pc = "sent" /\ job'.todo = job.todo /\ job'.cur = job.cur
        /\ job'.n = job.n /\ job'.c = job.c /\ job'.groups = job.groups /\ job'.got = a.got
        /\ job'.good = job.good /\ job'.bad = job.bad /\ job'.other = job.other
    BY <1>1, <1>6, <2>1 DEF Send, Job
  <2>3. job.cur \in Devs /\ job.c \in Configs /\ job.via \in Opt(Nets)
    BY <1>1, <2>2 DEF MigrationInv, JobShape, At, Job
  <2>4. a.got = "ack" => a.cfg = job.c
    BY <2>3, AnswerTypes DEF MigrationInv
  <2>5. RestartAgrees'
    BY <1>4, <2>2
  <2>6. NvsAhead' /\ RecordTaken' /\ ScanTuned'
    BY <2>2 DEF NvsAhead, RecordTaken, ScanTuned, At, Running
  <2>7. CurIsHome' /\ MembersFollow' /\ PushedOnce'
    BY <1>1, <2>2 DEF MigrationInv, CurIsHome, MembersFollow, PushedOnce, InFlight, At, Running
  <2>8. PushedFollow'
    <3>1. ASSUME Running("net")' PROVE \A d \in job'.good \ job'.other : dcfg'[d] = job'.c
      <4>1. job.cur \notin job.good
        BY <1>1, <2>2, <3>1 DEF MigrationInv, PushedOnce, InFlight, Running
      <4>2. \A d \in job.good \ job.other : dcfg[d] = job.c
        BY <1>1, <2>2, <3>1 DEF MigrationInv, PushedFollow, Running
      <4>3. job.good \subseteq Devs /\ dcfg \in [Devs -> Configs]
        BY <1>1 DEF Job, MigrationInv, MigrationTypeOK
      <4> QED
        BY <2>1, <2>2, <4>1, <4>2, <4>3
    <3>2. job'.got = "ack" => dcfg'[job'.cur] = job'.c
      BY <2>1, <2>2, <2>3, <2>4 DEF MigrationInv, MigrationTypeOK
    <3> QED
      BY <3>1, <3>2 DEF PushedFollow
  <2> QED
    BY <1>0, <2>5, <2>6, <2>7, <2>8 DEF MigrationInv
<1>7. CASE Answered
  <2>1. /\ At("sent") /\ UNCHANGED << mem, disk, dcfg, live, nvs, drift >>
        /\ job'.kind = job.kind /\ job'.pc = "push" /\ job'.todo = job.todo
        /\ job'.n = job.n /\ job'.c = job.c /\ job'.groups = job.groups /\ job'.other = job.other
        /\ job'.good = IF job.got = "ack" THEN job.good \cup {job.cur} ELSE job.good
    BY <1>1, <1>7 DEF Answered, Job
  <2>2. RestartAgrees'
    BY <1>4, <2>1
  <2>3. NvsAhead' /\ RecordTaken' /\ ScanTuned' /\ CurIsHome'
    BY <2>1 DEF NvsAhead, RecordTaken, ScanTuned, CurIsHome, InFlight, At, Running
  <2>4. MembersFollow'
    BY <1>1, <2>1 DEF MigrationInv, MembersFollow, Running
  <2>5. PushedOnce' /\ PushedFollow'
    BY <1>1, <2>1 DEF MigrationInv, PushedOnce, PushedFollow, InFlight, At, Running
  <2> QED
    BY <1>0, <2>2, <2>3, <2>4, <2>5 DEF MigrationInv
<1>8. CASE PushesDone
  <2>1. /\ At("push") /\ UNCHANGED << mem, disk, dcfg, live, nvs, drift >>
        /\ job'.kind = job.kind /\ job'.pc \in {"save", "switch"} /\ job'.todo = job.todo
        /\ job'.n = job.n /\ job'.c = job.c /\ job'.groups = job.groups /\ job'.other = job.other
        /\ job'.good = job.good
    BY <1>1, <1>8 DEF PushesDone, Job
  <2>2. RestartAgrees'
    BY <1>4, <2>1
  <2>3. NvsAhead' /\ RecordTaken' /\ ScanTuned' /\ CurIsHome'
    BY <2>1 DEF NvsAhead, RecordTaken, ScanTuned, CurIsHome, InFlight, At, Running
  <2>4. MembersFollow'
    BY <1>1, <2>1 DEF MigrationInv, MembersFollow, Running
  <2>5. PushedOnce' /\ PushedFollow'
    BY <1>1, <2>1 DEF MigrationInv, PushedOnce, PushedFollow, InFlight, At, Running
  <2> QED
    BY <1>0, <2>2, <2>3, <2>4, <2>5 DEF MigrationInv
<1>9. CASE SwitchGateway
  <2>1. PICK a \in GatewayAnswers :
            /\ Rewrite(job.n, job.c, a)
            /\ drift' = IF a.done \/ (Running("net") /\ a.ok) THEN drift \cup {job.n} ELSE drift
            /\ job' = IF a.ok THEN [job EXCEPT !.pc = IF Running("net") THEN "switched" ELSE "verify",
                                               !.heard = {}]
                      ELSE None
    BY <1>9 DEF SwitchGateway
  <2>2. /\ At("switch") /\ UNCHANGED << mem, disk, dcfg >>
        /\ nvs' = (IF a.done THEN [nvs EXCEPT ![job.n] = job.c] ELSE nvs)
        /\ drift' = IF a.done \/ (Running("net") /\ a.ok) THEN drift \cup {job.n} ELSE drift
    BY <1>9, <2>1 DEF SwitchGateway, Rewrite
  <2>3. RestartAgrees'
    BY <2>2 DEF MigrationInv, RestartAgrees, MigrationTypeOK
  <2>4. CASE ~a.ok
    BY <1>3, <2>1, <2>3, <2>4
  <2>5. CASE a.ok
    <3>1. /\ job'.kind = job.kind /\ job'.pc = (IF job.kind = "net" THEN "switched" ELSE "verify")
          /\ job'.n = job.n /\ job'.c = job.c /\ job'.other = job.other /\ job'.good = job.good
          /\ job'.todo = job.todo
      BY <1>1, <2>1, <2>5 DEF Job, Running
    <3>2. job.kind # "move"
      BY <1>1, <2>2 DEF MigrationInv, JobShape, StepsOf, At
    <3>3. NvsAhead' /\ RecordTaken' /\ ScanTuned' /\ CurIsHome' /\ MembersFollow'
      BY <2>2, <2>5, <3>1, <3>2
      DEF NvsAhead, RecordTaken, ScanTuned, CurIsHome, MembersFollow, InFlight, At, Running
    <3>4. PushedOnce' /\ PushedFollow'
      BY <1>1, <2>2, <3>1 DEF MigrationInv, PushedOnce, PushedFollow, InFlight, At, Running
    <3> QED
      BY <1>0, <2>3, <3>3, <3>4 DEF MigrationInv
  <2> QED
    BY <2>4, <2>5
<1>10. CASE RecordSwitch
  <2>1. /\ At("switched") /\ UNCHANGED << dcfg, live, nvs >>
        /\ job'.kind = job.kind /\ job'.pc = "verify" /\ job'.todo = job.todo
        /\ job'.n = job.n /\ job'.c = job.c /\ job'.other = job.other /\ job'.good = job.good
    BY <1>1, <1>10 DEF RecordSwitch, Job
  <2>2. job.kind = "net" /\ job.n \in Nets
    BY <1>1, <2>1 DEF MigrationInv, JobShape, StepsOf, At, Job, Kinds
  <2>3. /\ mem'.rf = [mem.rf EXCEPT ![job.n] = job.c] /\ disk' = mem' /\ mem'.rf[job.n] = job.c
        /\ drift' = IF nvs[job.n] = job.c THEN drift \ {job.n} ELSE drift
    BY <1>2, <1>10, <2>2 DEF RecordSwitch, HostState
  <2>4. RestartAgrees'
    <3>1. job.n \in drift
      BY <2>1 DEF MigrationInv, NvsAhead
    <3>2. mem.rf \in [Nets \cup EthNets -> Opt(Configs)]
      BY <1>2 DEF HostState
    <3>3. ASSUME NEW n \in Nets \ drift' PROVE mem'.rf[n] = nvs[n]
      <4>1. CASE n = job.n
        BY <2>3, <3>1, <3>3, <4>1
      <4>2. CASE n # job.n
        <5>1. n \notin drift
          BY <2>3, <3>3, <4>2
        <5>2. mem.rf[n] = nvs[n]
          BY <3>3, <5>1 DEF MigrationInv, RestartAgrees
        <5> QED
          BY <2>3, <3>2, <4>2, <5>2
      <4> QED
        BY <4>1, <4>2
    <3> QED
      BY <2>1, <2>3, <3>3 DEF RestartAgrees
  <2>5. NvsAhead' /\ RecordTaken' /\ ScanTuned' /\ CurIsHome' /\ MembersFollow'
    BY <2>1, <2>2, <2>3
    DEF NvsAhead, RecordTaken, ScanTuned, CurIsHome, MembersFollow, InFlight, At, Running
  <2>6. PushedOnce' /\ PushedFollow'
    BY <1>1, <2>1 DEF MigrationInv, PushedOnce, PushedFollow, InFlight, At, Running
  <2> QED
    BY <1>0, <2>4, <2>5, <2>6 DEF MigrationInv
<1>11. CASE VerifyEnds
  <2>1. mem'.rf = mem.rf /\ disk'.rf \in {mem.rf, disk.rf} /\ UNCHANGED << nvs, drift >> /\ job' = None
    BY <1>2, <1>11 DEF VerifyEnds, HostState
  <2> QED
    BY <1>3, <1>4, <2>1
<1>12. CASE CaseBRetune
  <2>1. UNCHANGED << mem, disk, nvs, drift >>
    BY <1>12 DEF CaseBRetune
  <2>2. RestartAgrees'
    BY <1>4, <2>1
  <2>3. CASE job' = None
    BY <1>3, <2>2, <2>3
  <2>4. CASE job' # None
    <3>1. job.kind = "caseB" /\ job'.kind = "caseB" /\ job'.pc = "listen"
      BY <1>1, <1>12, <2>4 DEF CaseBRetune, Running, Job
    <3> QED
      BY <1>0, <2>2, <3>1
      DEF MigrationInv, NvsAhead, RecordTaken, CurIsHome, InFlight, PushedOnce, PushedFollow,
          MembersFollow, ScanTuned,
          At, Running
  <2> QED
    BY <2>3, <2>4
<1>13. CASE CaseBHeard
  <2>1. UNCHANGED << mem, disk, nvs, drift >> /\ job'.kind = "caseB" /\ job'.pc = "push"
    BY <1>1, <1>13 DEF CaseBHeard, Running, Job
  <2>2. RestartAgrees'
    BY <1>4, <2>1
  <2> QED
    BY <1>0, <2>1, <2>2
    DEF MigrationInv, NvsAhead, RecordTaken, CurIsHome, InFlight, PushedOnce, PushedFollow,
        MembersFollow, ScanTuned,
        At, Running
<1>14. ASSUME NEW c \in Configs, ScanRetune(c) PROVE MigrationInv'
  <2>1. PICK a \in GatewayAnswers :
            /\ TuneRadio(job.n, c, a)
            /\ job' = IF a.ok THEN [job EXCEPT !.chans = @ \ {c}, !.pc = "listen", !.c = c,
                                               !.heard = {}, !.foreign = OthersAnswer(a)]
                      ELSE [job EXCEPT !.chans = @ \ {c}]
    BY <1>14 DEF ScanRetune
  <2>2. UNCHANGED << mem, disk, nvs, drift >> /\ At("retune") /\ job.kind = "scan"
    BY <1>14 DEF ScanRetune, Running
  <2>3. /\ job'.kind = "scan" /\ job'.pc = (IF a.ok THEN "listen" ELSE "retune") /\ job'.n = job.n
        /\ a.ok => job'.c = c /\ job'.heard = {} /\ job'.foreign = OthersAnswer(a)
    BY <1>1, <2>1, <2>2 DEF At, Job
  <2>4. job.n \in Nets
    BY <1>1, <2>2 DEF MigrationInv, JobShape
  <2>5. a.done => live'[job.n] = c
    BY <2>1, <2>2, <2>4 DEF TuneRadio, MigrationInv, MigrationTypeOK
  <2>6. RestartAgrees'
    BY <1>4, <2>2
  <2>7. ScanTuned'
    BY <2>3, <2>5 DEF ScanTuned, OthersAnswer, At
  <2> QED
    BY <1>0, <2>3, <2>6, <2>7
    DEF MigrationInv, NvsAhead, RecordTaken, CurIsHome, InFlight, PushedOnce, PushedFollow,
        MembersFollow, At, Running
<1>15. CASE ScanHeard \/ ScanRestore
  <2>1. /\ mem'.rf = mem.rf /\ UNCHANGED << disk, nvs, drift >>
        /\ job'.kind = "scan" /\ job'.pc \in {"retune", "save"}
    BY <1>1, <1>2, <1>15 DEF ScanHeard, ScanRestore, Running, Job, HostState
  <2>2. RestartAgrees'
    BY <1>4, <2>1
  <2> QED
    BY <1>0, <2>1, <2>2
    DEF MigrationInv, NvsAhead, RecordTaken, CurIsHome, InFlight, PushedOnce, PushedFollow,
        MembersFollow, ScanTuned,
        At, Running
<1>16. CASE SaveJob
  <2>1. UNCHANGED << mem, dcfg, live, nvs, drift >> /\ disk' \in {mem, disk} /\ At("save")
    BY <1>16 DEF SaveJob
  <2>2. RestartAgrees'
    BY <1>4, <2>1
  <2>3. CASE ~Running("move")
    <3>1. job' = None
      BY <1>16, <2>3 DEF SaveJob
    <3> QED
      BY <1>3, <2>2, <3>1
  <2>4. CASE Running("move")
    <3>1. /\ job'.kind = "move" /\ job.kind = "move" /\ job'.pc = "flip" /\ job'.n = job.n /\ job'.c = job.c
          /\ job'.todo = job.todo /\ job'.groups = job.groups /\ job'.other = job.other
      BY <1>1, <1>16, <2>4 DEF SaveJob, Running, Job
    <3>2. MembersFollow'
      BY <1>1, <2>1, <3>1 DEF MigrationInv, MembersFollow, Running
    <3> QED
      BY <1>0, <2>2, <3>1, <3>2
      DEF MigrationInv, NvsAhead, RecordTaken, CurIsHome, InFlight, PushedOnce, PushedFollow,
          ScanTuned, At, Running
  <2> QED
    BY <2>3, <2>4
<1>17. CASE FlipGroups
  <2>1. mem'.rf = mem.rf /\ disk' = mem' /\ UNCHANGED << nvs, drift >> /\ job' = None
    BY <1>2, <1>17 DEF FlipGroups, HostState
  <2> QED
    BY <1>3, <1>4, <2>1
<1> QED
  BY <1>5, <1>6, <1>7, <1>8, <1>9, <1>10, <1>11, <1>12, <1>13, <1>14, <1>15, <1>16, <1>17
    DEF JobStep

LEMMA NextMigration == MigrationInv /\ [MigrationNext]_migrationVars => MigrationInv'
<1> SUFFICES ASSUME MigrationInv, [MigrationNext]_migrationVars PROVE MigrationInv'
  OBVIOUS
<1>1. CASE UNCHANGED migrationVars
  BY <1>1 DEF migrationVars, MigrationInv, MigrationTypeOK, JobShape, NvsAhead, RecordTaken,
      RestartAgrees, CurIsHome, InFlight,
      PushedOnce, PushedFollow, MembersFollow, ScanTuned, At, Running
<1> QED
  BY <1>1, JobKeeps, StartKeeps, OthersKeep DEF MigrationNext

----------------------------------------------------------------------------
(* The theorems                                                            *)

\* Every variable keeps its type, and every job its shape (migrate_network_to,
\* migrate_devices_to, migrate_groups_to, scan_region, the repair route).
THEOREM MigrationTypeCorrect == MigrationSpec => []MigrationTypeOK
<1>1. MigrationInv => MigrationTypeOK
  BY DEF MigrationInv
<1> QED
  BY <1>1, InitMigration, NextMigration, PTL DEF MigrationSpec

\* In every state the records name the config that the gateway of a network boots
\* with, unless its NVS was written past the record or the record past its NVS on
\* another request's answer (drift), and the network that a node in flight comes up
\* on, unless it was relocated meanwhile (the save before the reboot wait in
\* migrate_network_to, the flip before the push in migrate_devices_to).
THEOREM RecordsLeadCorrect == MigrationSpec => []RecordsLead
<1>1. MigrationInv => RecordsLead
  BY DEF MigrationInv, RecordsLead, MovedNodeIsHome, CurIsHome, InFlight
<1> QED
  BY <1>1, InitMigration, NextMigration, PTL DEF MigrationSpec

\* Nobody else ends a job or takes it further without a request.
LEMMA JobActs ==
    ASSUME MigrationInv, [MigrationNext]_migrationVars, ops' = ops, job # None, job' = None \/ job'.pc # job.pc
    PROVE  JobStep
<1>1. ~ UNCHANGED migrationVars
  BY DEF migrationVars
<1>2. ~ OtherOp /\ ~ Enter
  BY CounterType DEF MigrationInv
<1>3. ASSUME NEW d \in Devs, NEW n \in Nets, Identify(d, n) PROVE FALSE
  <2>1. job \in Job
    BY DEF MigrationInv, MigrationTypeOK, Opt
  <2>2. PICK h \in SUBSET Devs, o \in SUBSET (Devs \cup Nets) :
            job' = [job EXCEPT !.heard = h, !.other = o]
    <3>1. job' = [job EXCEPT !.heard = IF Collects(n) THEN @ \cup {d} ELSE @,
                             !.other = IF mem.dnet[d] # n THEN @ \cup {d} ELSE @]
      BY <1>3 DEF Identify
    <3>2. /\ (IF Collects(n) THEN job.heard \cup {d} ELSE job.heard) \in SUBSET Devs
          /\ (IF mem.dnet[d] # n THEN job.other \cup {d} ELSE job.other) \in SUBSET (Devs \cup Nets)
      BY <2>1 DEF Job
    <3> QED
      BY <3>1, <3>2
  <2>3. job' \in Job /\ job'.pc = job.pc
    BY <2>1, <2>2 DEF Job
  <2> QED
    BY <2>3, NoJobAssumption
<1>4. ~ Environment
  BY <1>2, <1>3
  DEF Environment, Silence, DirectPush, GatewayPush, PowerCycle, Crash, OtherSave
<1>5. ~ Start
  BY <1>2 DEF Start, StartNet, StartMove, StartScan, StartCaseB, StartCaseC, StartJob
<1> QED
  BY <1>1, <1>4, <1>5 DEF MigrationNext

\* A network migration ends with its report.
LEMMA MovedTrue == ASSUME MigrationInv, [MigrationNext]_migrationVars PROVE OkMeansMoved
<1> SUFFICES ASSUME At("verify"), Running("net"), job' = None, ops' = ops, NetOk
             PROVE  /\ mem'.rf[job.n] = job.c
                    /\ \A d \in job.good \ job.other : dcfg[d] = job.c /\ mem'.last[d] = job.c
                    /\ job.todo = {} /\ job.bad = {}
  BY DEF OkMeansMoved
<1>1. job \in Job /\ job # None /\ job.kind = "net" /\ job.pc = "verify" /\ mem \in HostState
  BY DEF MigrationInv, MigrationTypeOK, At, Running, Opt
<1>2. VerifyEnds
  BY <1>1, JobActs
  DEF JobStep, PushConfig, Send, Answered, PushesDone, SwitchGateway, RecordSwitch,
      CaseBRetune, CaseBHeard,
      ScanRetune, ScanHeard, ScanRestore, SaveJob, FlipGroups, At
<1>3. Verified = job.good /\ job.good \subseteq Devs
  BY <1>1 DEF Verified, NetOk, Job
<1>4. mem'.rf = mem.rf /\ \A d \in job.good : mem'.last[d] = job.c
  BY <1>1, <1>2, <1>3 DEF VerifyEnds, HostState
<1>5. mem.rf[job.n] = job.c
  BY DEF MigrationInv, RecordTaken
<1>6. job.todo = {} /\ \A d \in job.good \ job.other : dcfg[d] = job.c
  BY <1>1 DEF MigrationInv, JobShape, PushedFollow
<1> QED
  BY <1>4, <1>5, <1>6 DEF NetOk

\* A group move ends with the groups.
LEMMA GroupsWhole == ASSUME MigrationInv, [MigrationNext]_migrationVars PROVE GroupMovesWhole
<1> SUFFICES ASSUME At("flip"), job' = None, ops' = ops, job.c # None,
                    NEW d \in Devs \ job.other, mem.grp[d] \in job.groups
             PROVE  mem'.dnet[d] = job.n
  BY DEF GroupMovesWhole
<1>1. job \in Job /\ job # None /\ job.pc = "flip" /\ mem \in HostState
  BY DEF MigrationInv, MigrationTypeOK, At, Opt
<1>2. job.kind = "move" /\ job.todo = {}
  BY <1>1 DEF MigrationInv, JobShape, StepsOf, Job, Kinds
<1>3. FlipGroups
  BY <1>1, JobActs
  DEF JobStep, PushConfig, Send, Answered, PushesDone, SwitchGateway, RecordSwitch, VerifyEnds,
      CaseBRetune,
      CaseBHeard, ScanRetune, ScanHeard, ScanRestore, SaveJob, At
<1>4. mem'.dnet = mem.dnet
  BY <1>1, <1>3 DEF FlipGroups, HostState
<1> QED
  BY <1>1, <1>2, <1>4 DEF MigrationInv, MembersFollow, Running

\* A channel of a scan ends with its answers.
LEMMA ScanTrue == ASSUME MigrationInv, [MigrationNext]_migrationVars PROVE ScanRecordsTruth
<1> SUFFICES ASSUME At("listen"), Running("scan"), ops' = ops, job' # None, job'.pc = "retune",
                    NEW d \in job.heard, ~job.foreign, job.n \notin job.other, d \notin job.other
             PROVE  dcfg[d] = mem'.last[d]
  BY DEF ScanRecordsTruth
<1>1. job \in Job /\ job # None /\ job.kind = "scan" /\ job.pc = "listen" /\ mem \in HostState
  BY DEF MigrationInv, MigrationTypeOK, At, Running, Opt
<1>2. ScanHeard
  BY <1>1, JobActs
  DEF JobStep, PushConfig, Send, Answered, PushesDone, SwitchGateway, RecordSwitch, VerifyEnds,
      CaseBRetune,
      CaseBHeard, ScanRetune, ScanRestore, SaveJob, FlipGroups, At, Running
<1>3. mem'.last[d] = job.c
  BY <1>1, <1>2 DEF ScanHeard, HostState, Job
<1> QED
  BY <1>1, <1>3 DEF MigrationInv, ScanTuned

\* What a migration reports, where a group move leaves its members and whom a scan
\* records is so, for nodes and gateways that nobody else changed meanwhile and, in
\* a scan, unless another request's answer was taken for the switch's own (the
\* result of migrate_network_to, the metadata flips of migrate_devices_to and
\* migrate_groups_to, step 4 of scan_region).
THEOREM JobsCorrect == MigrationSpec => JobsTellTheTruth
<1>1. MigrationInv /\ [MigrationNext]_migrationVars => [OkMeansMoved /\ GroupMovesWhole /\ ScanRecordsTruth]_migrationVars
  BY MovedTrue, GroupsWhole, ScanTrue
<1> QED
  BY <1>1, InitMigration, NextMigration, PTL DEF MigrationSpec, JobsTellTheTruth

================================================================================
