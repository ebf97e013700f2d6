--------------------------- MODULE SceneRunnerProofs ---------------------------
(***************************************************************************)
(* Proofs about SceneRunner and the plans it sends (DispatchPlan), for any *)
(* scenes, any fleet of nodes, groups and networks and any number of       *)
(* request threads: the types, whose broadcast scope is set, what an       *)
(* offset_group container leaves on the nodes and whom its children find,  *)
(* and what the results of a run say.                                      *)
(*                                                                         *)
(* The first half is about the planner: the frames of an effect reach      *)
(* everybody it is for, and of each of the three wire paths of a container *)
(* the last frame a node gets says what the node is meant to store         *)
(* (SetupOfGroups, SetupOfAll), so that it does not matter which one the   *)
(* optimizer chose.  What a sequence does to a node is stated by the last  *)
(* frame that hits it (Sets, Spares), which joins and tails respect, and   *)
(* the cheapest plan of two is one of the two: no induction over the       *)
(* length of a plan is needed.                                             *)
(*                                                                         *)
(* The second half is the inductive invariant.  An undisturbed run is the  *)
(* only one and the scope is its own (HoldsScope); of an effect under way  *)
(* everybody it is for took it or is still to get a frame (StillToHear);   *)
(* of a container under way every node stores what it is meant to, or the  *)
(* frames still to be sent will say so, offset frames before children      *)
(* (StillToSet).  The promises are what is left of these when no frame is. *)
(***************************************************************************)
EXTENDS SceneRunner, SequenceTheorems, FiniteSetTheorems, WellFoundedInduction, TLAPS

-----------------------------------------------------------------------------
(* Sets of group ids and lists of them                                     *)

\* Sets of group ids are finite.
LEMMA SmallSets ==
    ASSUME NEW S \in SUBSET (0 .. 254)
    PROVE  IsFiniteSet(S) /\ Cardinality(S) \in Nat
<1>1. IsFiniteSet(0 .. 254)
  <2>1. \A a, b \in Int : IsFiniteSet(a .. b)
    BY FS_Interval
  <2>2. 0 \in Int /\ 254 \in Int
    OBVIOUS
  <2> QED
    BY <2>1, <2>2, Zenon
<1>2. IsFiniteSet(S)
  BY <1>1, FS_Subset
<1> QED
  BY <1>2, FS_CardinalityType

\* Known groups are group ids.
LEMMA KnownAreIds == KnownGroups \in SUBSET (0 .. 254)
<1>1. \A n \in Nodes : GroupOf[n] \in 0 .. 254
  BY FleetAssumption
<1> QED
  BY <1>1 DEF KnownGroups

\* Ascending lists every element of the set, and each of them once.
LEMMA AscendingFacts ==
    ASSUME NEW S \in SUBSET (0 .. 254)
    PROVE  /\ Cardinality(S) \in Nat /\ DOMAIN Ascending(S) = 1 .. Cardinality(S)
           /\ \A i \in 1 .. Cardinality(S) : Ascending(S)[i] \in S
           /\ \A x \in S : \E i \in 1 .. Cardinality(S) : Ascending(S)[i] = x
           /\ \A i, j \in 1 .. Cardinality(S) : Ascending(S)[i] = Ascending(S)[j] => i = j
<1> DEFINE n == Cardinality(S)
           Below(x) == {y \in S : y < x}
           rank == [x \in S |-> Cardinality(Below(x)) + 1]
<1>1. IsFiniteSet(S) /\ n \in Nat
  BY SmallSets
<1>2. ASSUME NEW x \in S
      PROVE  IsFiniteSet(Below(x)) /\ Cardinality(Below(x)) \in Nat /\ rank[x] \in 1 .. n
  <2>1. Below(x) \in SUBSET S /\ x \in S /\ x \notin Below(x)
    OBVIOUS
  <2> HIDE DEF Below
  <2>2. /\ IsFiniteSet(Below(x)) /\ Cardinality(Below(x)) <= n
        /\ n = Cardinality(Below(x)) => S = Below(x)
    BY <1>1, <2>1, FS_Subset
  <2>3. Cardinality(Below(x)) \in Nat
    BY <2>2, FS_CardinalityType
  <2>4. Cardinality(Below(x)) # n
    BY <2>1, <2>2
  <2>5. rank[x] = Cardinality(Below(x)) + 1
    OBVIOUS
  <2> QED
    BY <1>1, <2>2, <2>3, <2>4, <2>5
<1>3. ASSUME NEW x \in S, NEW y \in S, x < y
      PROVE  rank[x] < rank[y]
  <2>1. Below(x) \in SUBSET Below(y) /\ x \in Below(y) /\ x \notin Below(x)
    <3>1. \A z \in S : z \in Int
      OBVIOUS
    <3>2. \A z \in S : z < x => z < y
      BY <1>3, <3>1
    <3>3. x < y /\ ~(x < x)
      BY <1>3, <3>1
    <3> QED
      BY <3>2, <3>3, Zenon
  <2>2. /\ IsFiniteSet(Below(y)) /\ Cardinality(Below(x)) \in Nat /\ Cardinality(Below(y)) \in Nat
    BY <1>2
  <2>3. rank[x] = Cardinality(Below(x)) + 1 /\ rank[y] = Cardinality(Below(y)) + 1
    OBVIOUS
  <2> HIDE DEF Below, rank
  <2>4. /\ Cardinality(Below(x)) <= Cardinality(Below(y))
        /\ Cardinality(Below(y)) = Cardinality(Below(x)) => Below(y) = Below(x)
    BY <2>1, <2>2, FS_Subset
  <2>5. Cardinality(Below(x)) # Cardinality(Below(y))
    BY <2>1, <2>4
  <2> QED
    BY <2>2, <2>3, <2>4, <2>5
<1>4. \A x, y \in S : rank[x] = rank[y] => x = y
  <2> SUFFICES ASSUME NEW x \in S, NEW y \in S, rank[x] = rank[y], x # y PROVE FALSE
    OBVIOUS
  <2>1. x \in Int /\ y \in Int /\ rank[x] \in Int
    BY <1>2
  <2> HIDE DEF rank
  <2>2. x < y \/ y < x
    BY <2>1
  <2> QED
    BY <1>3, <2>1, <2>2
<1>5. \A i \in 1 .. n : \E x \in S : rank[x] = i
  <2>1. rank \in [S -> 1 .. n]
    BY <1>2
  <2> HIDE DEF rank
  <2>2. rank \in Injection(S, 1 .. n)
    BY <1>4, <2>1 DEF Injection, IsInjective
  <2>3. IsFiniteSet(1 .. n) /\ Cardinality(1 .. n) = n
    BY <1>1, FS_Interval
  <2>4. rank \in Surjection(S, 1 .. n)
    BY <2>2, <2>3, FS_Injection
  <2> QED
    BY <2>4 DEF Surjection
<1> DEFINE f == Ascending(S)
<1>6. DOMAIN f = 1 .. n
  BY DEF Ascending
<1>7. ASSUME NEW i \in 1 .. n PROVE f[i] \in S /\ rank[f[i]] = i
  <2>1. f[i] = CHOOSE x \in S : Cardinality(Below(x)) = i - 1
    BY DEF Ascending
  <2>2. PICK x \in S : rank[x] = i
    BY <1>5
  <2>3. Cardinality(Below(x)) = i - 1
    BY <1>1, <1>2, <2>2
  <2> HIDE DEF Below
  <2>4. f[i] \in S /\ Cardinality(Below(f[i])) = i - 1
    <3> HIDE DEF f
    <3> QED
      BY <2>1, <2>3
  <2>5. rank[f[i]] = (i - 1) + 1
    <3> HIDE DEF f
    <3> QED
      BY <2>4
  <2> QED
    BY <1>1, <2>4, <2>5
<1>8. \A x \in S : rank[x] \in 1 .. n
  BY <1>2
<1> HIDE DEF rank, f
<1>9. \A x \in S : \E i \in 1 .. n : f[i] = x
  BY <1>4, <1>7, <1>8
<1>10. \A i, j \in 1 .. n : f[i] = f[j] => i = j
  BY <1>7
<1> QED
  BY <1>1, <1>6, <1>7, <1>9, <1>10 DEF f

\* The group ids a node can have; 255 is not one of them.
Ids == 0 .. 254

\* The offsets a frame can carry.
Commands ==
  [mode : {"none"}] \cup [mode : {"explicit"}, ms : Int] \cup [mode : {"linear"}, base : Int, step : Int]
    \cup [mode : {"vshape"}, base : Int, step : Int, center : Int]
    \cup [mode : {"modulo"}, base : Int, step : Int, cycle : Nat \ {0}]

\* The frames of a plan; one for a single device goes to the group of the device.
ControlFrames(flag) ==
  {op \in [sender : {"send_control"}, to : Ids \cup {Broadcast}, dev : Nodes \cup {None}, flag : {flag},
           child : BOOLEAN, bad : BOOLEAN] : op.dev # None => op.to = GroupOf[op.dev]}
OffsetFrames ==
  [sender : {"send_offset"}, to : Ids \cup {Broadcast}, dev : {None}, offset : Commands, bad : {FALSE}]
SyncFrames == [sender : {"send_sync"}, to : {Broadcast}, dev : {None}, bad : {FALSE}]
Frames == ControlFrames(TRUE) \cup ControlFrames(FALSE) \cup OffsetFrames \cup SyncFrames

\* Group ids are numbers, and none is the broadcast id.
LEMMA IdFacts ==
  /\ Ids \subseteq Nat /\ Broadcast \notin Ids /\ 0 \in Ids /\ Broadcast # 0
  /\ \A n \in Nodes : GroupOf[n] \in Ids /\ NetworkOf[n] \in Nets /\ n # None
  /\ None \notin Nodes
<1>1. \A n \in Nodes : GroupOf[n] \in Ids
  BY FleetAssumption DEF Ids
<1>2. Ids \subseteq Nat /\ Broadcast \notin Ids /\ 0 \in Ids /\ Broadcast # 0
  BY DEF Ids, Broadcast
<1> QED
  BY <1>1, <1>2, FleetAssumption

\* An offset a node computes is in range.
LEMMA ClampType == \A v \in Int : Clamp(v) \in 0 .. OffsetMax
BY FleetAssumption DEF Clamp

\* Every formula yields an offset in range.
LEMMA EvaluateType ==
    ASSUME NEW o \in Commands, o.mode # "none", NEW g \in Nat
    PROVE  EvaluateOffset(o, g) \in 0 .. OffsetMax
<1>1. CASE o \in [mode : {"explicit"}, ms : Int]
  BY <1>1, ClampType DEF EvaluateOffset
<1>2. CASE o \in [mode : {"linear"}, base : Int, step : Int]
  <2>1. o.base + g * o.step \in Int
    BY <1>2
  <2> QED
    BY <1>2, <2>1, ClampType DEF EvaluateOffset
<1>3. CASE o \in [mode : {"vshape"}, base : Int, step : Int, center : Int]
  <2> DEFINE d == IF g > o.center THEN g - o.center ELSE o.center - g
  <2>1. d \in Int
    BY <1>3
  <2> HIDE DEF d
  <2>2. o.base + d * o.step \in Int
    BY <1>3, <2>1
  <2>3. EvaluateOffset(o, g) = Clamp(o.base + d * o.step)
    BY <1>3 DEF EvaluateOffset, d
  <2> QED
    BY <2>2, <2>3, ClampType
<1>4. CASE o \in [mode : {"modulo"}, base : Int, step : Int, cycle : Nat \ {0}]
  <2> DEFINE d == g % o.cycle
  <2>1. d \in Int
    BY <1>4
  <2> HIDE DEF d
  <2>2. o.base + d * o.step \in Int
    BY <1>4, <2>1
  <2>3. EvaluateOffset(o, g) = Clamp(o.base + d * o.step)
    BY <1>4 DEF EvaluateOffset, d
  <2> QED
    BY <2>2, <2>3, ClampType
<1> QED
  BY <1>1, <1>2, <1>3, <1>4 DEF Commands

\* What a node stores is an offset in range, or nothing.
LEMMA StoredType ==
    ASSUME NEW o \in Commands, NEW n \in Nodes
    PROVE  Stored(n, o) \in 0 .. OffsetMax \cup {Normal}
BY EvaluateType, IdFacts DEF Stored

-----------------------------------------------------------------------------
(* Effects                                                                 *)

\* A frame that a node hears whenever a gateway reaches it.
Reaches(op, n) ==
  \/ op.dev = n
  \/ op.dev = None /\ (op.to = Broadcast \/ (op.to = GroupOf[n] /\ op.to # 0))

\* The nodes a target is for.
Meant(t, n) ==
  \/ t.kind = "broadcast"
  \/ t.kind = "groups" /\ GroupOf[n] \in t.value \ {0}
  \/ t.kind = "device" /\ n = t.value

\* The offset flag of an effect is a boolean.
LEMMA FlagType ==
    ASSUME NEW a \in Effects, NEW force \in BOOLEAN \cup {None}
    PROVE  OffsetFlag(a, force) \in BOOLEAN
BY DEF OffsetFlag, Effects

\* Where an effect goes: frames for the whole target, and for nobody else.
LEMMA TargetFacts ==
    ASSUME NEW t \in Targets, CanonicalTarget(t), ResolveTarget(t) # None
    PROVE  LET at == ResolveTarget(t) IN
           /\ at \in Seq([to : Ids \cup {Broadcast}, dev : Nodes \cup {None}])
           /\ \A i \in 1 .. Len(at) :
                /\ at[i].dev # None => at[i].to = GroupOf[at[i].dev]
                /\ at[i].to = Broadcast => t.kind = "broadcast"
           /\ \A n \in Nodes : Meant(t, n) => \E i \in 1 .. Len(at) : Reaches(at[i], n)
<1> DEFINE at == ResolveTarget(t)
           Pairs == [to : Ids \cup {Broadcast}, dev : Nodes \cup {None}]
<1>1. CASE t \in [kind : {"broadcast"}]
  <2> DEFINE p == [to |-> Broadcast, dev |-> None]
  <2>1. at = <<p>> /\ p \in Pairs
    BY <1>1 DEF ResolveTarget
  <2>2. at \in Seq(Pairs) /\ Len(at) = 1 /\ at[1] = p
    BY <2>1
  <2>3. t.kind = "broadcast"
    BY <1>1
  <2> HIDE DEF at
  <2>4. \A n \in Nodes : Reaches(at[1], n)
    BY <2>2 DEF Reaches
  <2> QED
    BY <2>2, <2>3, <2>4 DEF at
<1>2. CASE t \in [kind : {"groups"}, value : SUBSET Int]
  <2>1. t.kind = "groups" /\ t.value \in SUBSET (0 .. 254)
    BY <1>2 DEF CanonicalTarget
  <2> DEFINE c == Cardinality(t.value)
             g == Ascending(t.value)
  <2>2. /\ c \in Nat /\ DOMAIN g = 1 .. c /\ \A i \in 1 .. c : g[i] \in t.value
        /\ \A x \in t.value : \E i \in 1 .. c : g[i] = x
    BY <2>1, AscendingFacts
  <2>3. at = [i \in DOMAIN g |-> [to |-> g[i], dev |-> None]]
    BY <2>1 DEF ResolveTarget
  <2>4. t.value \subseteq Ids
    BY <2>1 DEF Ids
  <2> HIDE DEF at, g, c
  <2>5. at = [i \in 1 .. c |-> [to |-> g[i], dev |-> None]]
    BY <2>2, <2>3
  <2>6. \A i \in 1 .. c : [to |-> g[i], dev |-> None] \in Pairs
    BY <2>2, <2>4
  <2>7. at \in Seq(Pairs)
    BY <2>2, <2>5, <2>6, IsASeq
  <2>8. Len(at) = c /\ \A i \in 1 .. c : at[i] = [to |-> g[i], dev |-> None]
    BY <2>2, <2>5
  <2>9. \A i \in 1 .. c : at[i].dev = None /\ at[i].to = g[i] /\ at[i].to # Broadcast
    BY <2>2, <2>4, <2>8, IdFacts
  <2>10. ASSUME NEW n \in Nodes, Meant(t, n) PROVE \E i \in 1 .. c : Reaches(at[i], n)
    <3>1. GroupOf[n] \in t.value /\ GroupOf[n] # 0
      BY <2>1, <2>10 DEF Meant
    <3>2. PICK i \in 1 .. c : g[i] = GroupOf[n]
      BY <2>2, <3>1
    <3> QED
      BY <2>9, <3>1, <3>2 DEF Reaches
  <2> QED
    BY <2>7, <2>8, <2>9, <2>10 DEF at
<1>3. CASE t \in [kind : {"device"}, value : Nodes \cup {Ghost}]
  <2>1. t.kind = "device" /\ t.value \in Nodes
    BY <1>3 DEF ResolveTarget
  <2> DEFINE p == [to |-> GroupOf[t.value], dev |-> t.value]
  <2>2. at = <<p>> /\ p \in Pairs
    BY <2>1, IdFacts DEF ResolveTarget
  <2>3. at \in Seq(Pairs) /\ Len(at) = 1 /\ at[1] = p
    BY <2>2
  <2> HIDE DEF at
  <2>4. at[1].dev = t.value /\ at[1].to = GroupOf[t.value] /\ at[1].to # Broadcast
    BY <2>1, <2>3, IdFacts
  <2>5. \A n \in Nodes : Meant(t, n) => Reaches(at[1], n)
    BY <2>1, <2>4 DEF Reaches, Meant
  <2> QED
    BY <2>3, <2>4, <2>5 DEF at
<1> QED
  BY <1>1, <1>2, <1>3 DEF Targets

\* The frames of an effect.
LEMMA EffectPlan ==
    ASSUME NEW a \in Effects, CanonicalTarget(a.target), NEW force \in BOOLEAN \cup {None},
           NEW child \in BOOLEAN
    PROVE  LET p == PlanEffect(a, force, child) IN
           /\ p.degraded \in BOOLEAN /\ p.ops \in Seq(ControlFrames(OffsetFlag(a, force)))
           /\ \A i \in 1 .. Len(p.ops) : p.ops[i].to = Broadcast => a.target.kind = "broadcast"
           /\ ~p.degraded => \A n \in Nodes : Meant(a.target, n) =>
                               \E i \in 1 .. Len(p.ops) : Reaches(p.ops[i], n)
<1> DEFINE p == PlanEffect(a, force, child)
           at == ResolveTarget(a.target)
           F == ControlFrames(OffsetFlag(a, force))
           op(i) == [sender |-> "send_control", to |-> at[i].to, dev |-> at[i].dev,
                     flag |-> OffsetFlag(a, force), child |-> child, bad |-> a.bad]
<1>1. CASE at = None \/ a.preset = "gone"
  <2>1. p = [ops |-> << >>, degraded |-> TRUE]
    BY <1>1 DEF PlanEffect, Degraded
  <2>2. p.ops = << >> /\ p.degraded = TRUE /\ Len(p.ops) = 0 /\ p.ops \in Seq(F)
    BY <2>1, EmptySeq
  <2> HIDE DEF p, F
  <2>3. p.degraded /\ p.degraded \in BOOLEAN
    BY <2>2
  <2>4. \A i \in 1 .. Len(p.ops) : p.ops[i].to = Broadcast => a.target.kind = "broadcast"
    BY <2>2
  <2> QED
    BY <2>2, <2>3, <2>4 DEF F, p
<1>2. CASE at # None /\ a.preset # "gone"
  <2>1. a.target \in Targets /\ a.bad \in BOOLEAN
    BY DEF Effects
  <2>2. /\ at \in Seq([to : Ids \cup {Broadcast}, dev : Nodes \cup {None}])
        /\ \A i \in 1 .. Len(at) :
             /\ at[i].dev # None => at[i].to = GroupOf[at[i].dev]
             /\ at[i].to = Broadcast => a.target.kind = "broadcast"
        /\ \A n \in Nodes : Meant(a.target, n) => \E i \in 1 .. Len(at) : Reaches(at[i], n)
    BY <1>2, <2>1, TargetFacts
  <2>3. p = [ops |-> [i \in DOMAIN at |-> op(i)], degraded |-> FALSE]
    BY <1>2 DEF PlanEffect, Plan
  <2> DEFINE n0 == Len(at)
  <2> HIDE DEF at, p
  <2>4. n0 \in Nat /\ DOMAIN at = 1 .. n0 /\ \A i \in 1 .. n0 : at[i] \in [to : Ids \cup {Broadcast}, dev : Nodes \cup {None}]
    BY <2>2, LenProperties, ElementOfSeq
  <2>5. p.ops = [i \in 1 .. n0 |-> op(i)] /\ p.degraded = FALSE
    BY <2>3, <2>4
  <2>6. \A i \in 1 .. n0 : op(i) \in F
    BY <2>1, <2>2, <2>4 DEF ControlFrames
  <2> HIDE DEF n0, F
  <2>7. p.ops \in Seq(F) /\ Len(p.ops) = n0
    <3>1. [i \in 1 .. n0 |-> op(i)] \in Seq(F)
      BY <2>4, <2>6, IsASeq
    <3> QED
      BY <2>4, <2>5, <3>1
  <2>8. \A i \in 1 .. n0 : p.ops[i].to = at[i].to /\ p.ops[i].dev = at[i].dev
    BY <2>5
  <2>9. \A i \in 1 .. n0 : p.ops[i].to = Broadcast => a.target.kind = "broadcast"
    BY <2>2, <2>8 DEF n0
  <2>10. \A n \in Nodes : Meant(a.target, n) => \E i \in 1 .. n0 : Reaches(p.ops[i], n)
    BY <2>2, <2>8 DEF Reaches, n0
  <2>11. p.degraded \in BOOLEAN /\ p.ops \in Seq(F)
    BY <2>5, <2>7
  <2>12. \A i \in 1 .. Len(p.ops) : p.ops[i].to = Broadcast => a.target.kind = "broadcast"
    BY <2>7, <2>9
  <2>13. ~p.degraded => \A n \in Nodes : Meant(a.target, n) => \E i \in 1 .. Len(p.ops) : Reaches(p.ops[i], n)
    BY <2>7, <2>10
  <2> QED
    BY <2>11, <2>12, <2>13 DEF F, p
<1> QED
  BY <1>1, <1>2

\* A nonempty set of positions has a first one.
LEMMA LeastPosition ==
    ASSUME NEW I \in SUBSET Nat, I # {}
    PROVE  \E i \in I : \A j \in I : i <= j
<1> DEFINE R == OpToRel(<, Nat)
<1>1. IsWellFoundedOn(R, Nat)
  BY NatLessThanWellFounded
<1> HIDE DEF R
<1>2. \E i \in I : \A j \in I : ~(<<j, i>> \in R)
  BY <1>1, WFMin
<1>3. \A i, j \in Nat : <<j, i>> \in R <=> j < i
  BY DEF R, OpToRel
<1>4. PICK i \in I : \A j \in I : ~(<<j, i>> \in R)
  BY <1>2
<1>5. \A j \in I : ~(j < i)
  BY <1>3, <1>4
<1>6. \A j \in I : i <= j
  BY <1>5
<1> QED
  BY <1>6

\* Joined lists hold what the lists hold.
LEMMA FlattenType ==
    ASSUME NEW X, NEW s \in Seq(Seq(X)), s # << >>
    PROVE  FlattenSeq(s) \in Seq(X)
<1> DEFINE n == Len(s)
           Rec(f, k) == \A i \in 1 .. k : f[i] = IF i = 1 THEN s[i] ELSE f[i - 1] \o s[i]
           Bad == {k \in 1 .. n : ~ \E f \in [1 .. k -> Seq(X)] : Rec(f, k)}
<1>1. n \in Nat /\ n > 0 /\ \A i \in 1 .. n : s[i] \in Seq(X)
  BY EmptySeq, LenProperties, ElementOfSeq
<1>2. Bad = {}
  <2> SUFFICES ASSUME Bad # {} PROVE FALSE
    OBVIOUS
  <2>1. PICK k \in Bad : \A j \in Bad : k <= j
    <3>1. Bad \in SUBSET Nat
      OBVIOUS
    <3> HIDE DEF Bad
    <3> QED
      BY <3>1, LeastPosition
  <2>2. k \in 1 .. n
    OBVIOUS
  <2>3. k # 1
    <3> DEFINE f == [i \in 1 .. 1 |-> s[i]]
    <3>1. f \in [1 .. 1 -> Seq(X)] /\ Rec(f, 1)
      BY <1>1
    <3> QED
      BY <3>1
  <2>4. PICK g \in [1 .. k - 1 -> Seq(X)] : Rec(g, k - 1)
    <3>1. k - 1 \in 1 .. n /\ ~(k <= k - 1)
      BY <1>1, <2>2, <2>3
    <3>2. k - 1 \notin Bad
      <4> HIDE DEF Bad
      <4> QED
        BY <2>1, <3>1
    <3> QED
      BY <3>1, <3>2
  <2> DEFINE h == [i \in 1 .. k |-> IF i = k THEN g[k - 1] \o s[k] ELSE g[i]]
  <2>5. g[k - 1] \in Seq(X) /\ s[k] \in Seq(X)
    BY <1>1, <2>2, <2>3
  <2>6. g[k - 1] \o s[k] \in Seq(X)
    BY <2>5, ConcatProperties
  <2>7. h \in [1 .. k -> Seq(X)]
    BY <2>6, <2>2
  <2>8. Rec(h, k)
    <3> SUFFICES ASSUME NEW i \in 1 .. k PROVE h[i] = IF i = 1 THEN s[i] ELSE h[i - 1] \o s[i]
      OBVIOUS
    <3>1. CASE i = k
      <4>1. h[i] = g[k - 1] \o s[k]
        BY <3>1
      <4>2. h[i - 1] = g[i - 1]
        BY <3>1, <2>2, <2>3, <1>1
      <4> QED
        BY <3>1, <4>1, <4>2, <2>3
    <3>2. CASE i # k
      <4>1. i \in 1 .. k - 1 /\ h[i] = g[i]
        BY <3>2, <2>2, <1>1
      <4>2. i # 1 => h[i - 1] = g[i - 1]
        BY <4>1, <2>2, <1>1
      <4> QED
        BY <4>1, <4>2, <2>4
    <3> QED
      BY <3>1, <3>2
  <2> QED
    BY <2>7, <2>8
<1>3. PICK f \in [1 .. n -> Seq(X)] : Rec(f, n)
  <2>1. n \in 1 .. n
    BY <1>1
  <2> QED
    BY <1>2, <2>1
<1>4. f = [i \in 1 .. n |-> IF i = 1 THEN s[i] ELSE f[i - 1] \o s[i]]
  BY <1>3, <1>1
<1> DEFINE e == CHOOSE e : e = [i \in 1 .. n |-> IF i = 1 THEN s[i] ELSE e[i - 1] \o s[i]]
<1>5. e = [i \in 1 .. n |-> IF i = 1 THEN s[i] ELSE e[i - 1] \o s[i]]
  BY <1>4
<1>6. FlattenSeq(s) = e[n]
  BY <1>1 DEF FlattenSeq
<1> HIDE DEF e
<1> DEFINE Odd == {k \in 1 .. n : e[k] \notin Seq(X)}
<1>7. Odd = {}
  <2> SUFFICES ASSUME Odd # {} PROVE FALSE
    OBVIOUS
  <2>1. PICK k \in Odd : \A j \in Odd : k <= j
    <3>1. Odd \in SUBSET Nat
      OBVIOUS
    <3> HIDE DEF Odd
    <3> QED
      BY <3>1, LeastPosition
  <2>2. k \in 1 .. n /\ e[k] = IF k = 1 THEN s[k] ELSE e[k - 1] \o s[k]
    BY <1>5
  <2>3. k # 1 => e[k - 1] \in Seq(X)
    <3> SUFFICES ASSUME k # 1 PROVE k - 1 \in 1 .. n /\ k - 1 \notin Odd
      OBVIOUS
    <3>1. k - 1 \in 1 .. n /\ ~(k <= k - 1)
      BY <2>2, <1>1
    <3> HIDE DEF Odd
    <3> QED
      BY <2>1, <3>1
  <2>4. e[k] \in Seq(X)
    <3>1. CASE k = 1
      BY <3>1, <1>1, <2>2
    <3>2. CASE k # 1
      BY <3>2, <1>1, <2>2, <2>3, ConcatProperties
    <3> QED
      BY <3>1, <3>2
  <2> QED
    BY <2>4
<1>8. n \in 1 .. n
  BY <1>1
<1>9. e[n] \in Seq(X)
  BY <1>7, <1>8
<1> QED
  BY <1>6, <1>9

-----------------------------------------------------------------------------
(* Offset frames                                                           *)

\* One frame for each group, with its value.
LEMMA OffsetOpsFacts ==
    ASSUME NEW G \in SUBSET Ids, NEW value \in [G -> Commands]
    PROVE  LET s == OffsetOps(value) IN
           /\ s \in Seq(OffsetFrames) /\ Len(s) = Cardinality(G)
           /\ \A i \in 1 .. Len(s) : s[i].to \in G /\ s[i].offset = value[s[i].to]
           /\ \A g \in G : \E i \in 1 .. Len(s) : s[i].to = g
           /\ \A i, j \in 1 .. Len(s) : s[i].to = s[j].to => i = j
<1> DEFINE s == OffsetOps(value)
           g == Ascending(G)
           c == Cardinality(G)
<1>1. /\ c \in Nat /\ DOMAIN g = 1 .. c /\ \A i \in 1 .. c : g[i] \in G
      /\ \A x \in G : \E i \in 1 .. c : g[i] = x
      /\ \A i, j \in 1 .. c : g[i] = g[j] => i = j
  <2>1. G \in SUBSET (0 .. 254)
    BY DEF Ids
  <2> QED
    BY <2>1, AscendingFacts
<1>2. s = [i \in DOMAIN g |-> OffsetOp(g[i], value[g[i]])]
  BY DEF OffsetOps
<1> HIDE DEF s, g, c
<1>3. s = [i \in 1 .. c |-> OffsetOp(g[i], value[g[i]])]
  BY <1>1, <1>2
<1>4. \A i \in 1 .. c : OffsetOp(g[i], value[g[i]]) \in OffsetFrames
  <2>1. \A x \in G : x \in Ids /\ value[x] \in Commands
    OBVIOUS
  <2> QED
    BY <1>1, <2>1 DEF OffsetOp, OffsetFrames
<1>5. s \in Seq(OffsetFrames)
  <2>1. [i \in 1 .. c |-> OffsetOp(g[i], value[g[i]])] \in Seq(OffsetFrames)
    BY <1>1, <1>4, IsASeq
  <2> QED
    BY <1>3, <2>1
<1>6. Len(s) = c
  BY <1>1, <1>3
<1>7. \A i \in 1 .. c : s[i].to = g[i] /\ s[i].offset = value[g[i]]
  BY <1>3 DEF OffsetOp
<1>8. \A i \in 1 .. Len(s) : s[i].to \in G /\ s[i].offset = value[s[i].to]
  BY <1>1, <1>6, <1>7
<1>9. \A x \in G : \E i \in 1 .. Len(s) : s[i].to = x
  BY <1>1, <1>6, <1>7
<1>10. \A i, j \in 1 .. Len(s) : s[i].to = s[j].to => i = j
  BY <1>1, <1>6, <1>7
<1> QED
  BY <1>5, <1>6, <1>8, <1>9, <1>10 DEF s, c

\* An offset frame that is for a node, and the last one of a list.
Hits(op, n) == op.sender = "send_offset" /\ (op.to = Broadcast \/ op.to = GroupOf[n])
LastHit(ops, i, n) ==
  i \in 1 .. Len(ops) /\ Hits(ops[i], n) /\ \A j \in i + 1 .. Len(ops) : ~Hits(ops[j], n)

\* What a list of offset frames does to a node, as the last one that is for it says.
Sets(ops, n, v) == \E i \in 1 .. Len(ops) : LastHit(ops, i, n) /\ Stored(n, ops[i].offset) = v
Spares(ops, n) == \A i \in 1 .. Len(ops) : ~Hits(ops[i], n)

\* One frame per group: a node stores what the value of its group says, and other nodes are spared.
LEMMA OffsetOpsEffect ==
    ASSUME NEW G \in SUBSET Ids, NEW value \in [G -> Commands], NEW n \in Nodes
    PROVE  /\ GroupOf[n] \in G => Sets(OffsetOps(value), n, Stored(n, value[GroupOf[n]]))
           /\ GroupOf[n] \notin G => Spares(OffsetOps(value), n)
<1> DEFINE s == OffsetOps(value)
<1>1. /\ s \in Seq(OffsetFrames)
      /\ \A i \in 1 .. Len(s) : s[i].to \in G /\ s[i].offset = value[s[i].to]
      /\ \A g \in G : \E i \in 1 .. Len(s) : s[i].to = g
      /\ \A i, j \in 1 .. Len(s) : s[i].to = s[j].to => i = j
  BY OffsetOpsFacts
<1> HIDE DEF s
<1>2. Len(s) \in Nat /\ \A i \in 1 .. Len(s) : s[i].sender = "send_offset" /\ s[i].to # Broadcast
  <2>1. Len(s) \in Nat /\ \A i \in 1 .. Len(s) : s[i] \in OffsetFrames
    BY <1>1, LenProperties, ElementOfSeq
  <2>2. \A op \in OffsetFrames : op.sender = "send_offset"
    BY DEF OffsetFrames
  <2>3. \A x \in G : x # Broadcast
    BY IdFacts
  <2> QED
    BY <1>1, <2>1, <2>2, <2>3
<1>3. \A i \in 1 .. Len(s) : Hits(s[i], n) <=> s[i].to = GroupOf[n]
  BY <1>2 DEF Hits
<1>4. ASSUME GroupOf[n] \in G PROVE Sets(s, n, Stored(n, value[GroupOf[n]]))
  <2>1. PICK i \in 1 .. Len(s) : s[i].to = GroupOf[n]
    BY <1>1, <1>4
  <2>2. \A j \in i + 1 .. Len(s) : ~Hits(s[j], n)
    BY <1>1, <1>2, <1>3, <2>1
  <2>3. LastHit(s, i, n)
    BY <1>3, <2>1, <2>2 DEF LastHit
  <2> QED
    BY <1>1, <2>1, <2>3 DEF Sets
<1>5. GroupOf[n] \notin G => Spares(s, n)
  BY <1>1, <1>3 DEF Spares
<1> QED
  BY <1>4, <1>5 DEF s

\* The offset a container gives a node.
Wanted(o, n) ==
  CASE o.mode = "none" -> Normal
    [] o.mode = "explicit" -> TableValue(o, GroupOf[n])
    [] OTHER -> EvaluateOffset(o, GroupOf[n])

\* The values of a valid table are in range.
LEMMA TableType ==
    ASSUME NEW o \in Offsets, NEW t, CanonicalOffset(o, t), o.mode = "explicit", NEW g
    PROVE  TableValue(o, g) \in 0 .. OffsetMax
<1> DEFINE at == {i \in DOMAIN o.values : o.values[i].id = g}
<1>1. o.values \in Seq([id : Int, ms : Int])
  BY DEF Offsets
<1>2. \A i \in DOMAIN o.values : o.values[i].ms \in 0 .. OffsetMax
  BY DEF CanonicalOffset
<1>3. CASE at = {}
  BY <1>3, FleetAssumption DEF TableValue
<1>4. CASE at # {}
  <2> DEFINE n == Len(o.values)
             back == {n - i : i \in at}
  <2>1. n \in Nat /\ at \subseteq 1 .. n
    BY <1>1, LenProperties
  <2> HIDE DEF at, n
  <2>2. back \in SUBSET Nat /\ back # {}
    BY <1>4, <2>1
  <2>3. PICK k \in back : \A j \in back : k <= j
    <3> HIDE DEF back
    <3> QED
      BY <2>2, LeastPosition
  <2>4. PICK x \in at : k = n - x
    BY <2>3
  <2>5. \A y \in at : n - x <= n - y
    BY <2>3, <2>4
  <2>6. \A y \in at : x >= y
    BY <2>1, <2>5
  <2>7. Max(at) \in at
    BY <2>6 DEF Max
  <2>8. TableValue(o, g) = o.values[Max(at)].ms
    BY <1>4 DEF TableValue, at
  <2> QED
    BY <1>2, <2>7, <2>8 DEF at
<1> QED
  BY <1>3, <1>4

\* A formula is sent as it is.
LEMMA FormulaIsCommand ==
    ASSUME NEW o \in Offsets, o.mode \notin {"none", "explicit"}
    PROVE  o \in Commands
BY DEF Offsets, Commands

\* What a node is meant to store is an offset in range, or nothing.
LEMMA WantedType ==
    ASSUME NEW o \in Offsets, NEW t, CanonicalOffset(o, t), NEW n \in Nodes
    PROVE  IF o.mode = "none" THEN Wanted(o, n) = Normal ELSE Wanted(o, n) \in 0 .. OffsetMax
<1>1. CASE o.mode = "none"
  BY <1>1 DEF Wanted
<1>2. CASE o.mode = "explicit"
  BY <1>2, TableType DEF Wanted
<1>3. CASE o.mode \notin {"none", "explicit"}
  <2>1. o \in Commands /\ GroupOf[n] \in Nat
    BY <1>3, FormulaIsCommand, IdFacts
  <2> QED
    BY <1>3, <2>1, EvaluateType DEF Wanted
<1> QED
  BY <1>1, <1>2, <1>3

\* An explicit value in range is stored as it is.
LEMMA ExplicitStored ==
    ASSUME NEW v \in 0 .. OffsetMax, NEW n
    PROVE  Explicit(v) \in Commands /\ OffsetBytes(Explicit(v)) = 4 /\ Stored(n, Explicit(v)) = v
<1>1. v \in Int /\ OffsetMax \in Nat
  BY FleetAssumption
<1>2. Clamp(v) = v
  BY <1>1 DEF Clamp
<1> QED
  BY <1>1, <1>2 DEF Explicit, Commands, OffsetBytes, Stored, EvaluateOffset

\* A clear leaves nothing stored.
LEMMA ClearStored == \A n : Clear \in Commands /\ Stored(n, Clear) = Normal
BY DEF Clear, Commands, Stored

-----------------------------------------------------------------------------
(* The wire paths                                                          *)

\* The groups of a container.
GroupsOf(t) == IF t.kind = "broadcast" THEN KnownGroups ELSE t.value

\* A container is for group ids.
LEMMA GroupsOfType ==
    ASSUME NEW t \in Targets, CanonicalTarget(t), t.kind # "device"
    PROVE  /\ t.kind \in {"broadcast", "groups"} /\ GroupsOf(t) \in SUBSET Ids
           /\ t.kind = "groups" => GroupsOf(t) = t.value /\ t.value # {}
           /\ t.kind = "broadcast" => GroupsOf(t) = KnownGroups
BY KnownAreIds DEF Targets, CanonicalTarget, GroupsOf, Ids

\* B: every group of the container is given the value it is meant to have; only a
\* clear for all nodes is sent as the explicit value 0.
LEMMA PerGroup ==
    ASSUME NEW t \in Targets, CanonicalTarget(t), t.kind # "device",
           NEW o \in Offsets, CanonicalOffset(o, t), GroupsOf(t) # {}
    PROVE  \E value \in [GroupsOf(t) -> Commands] :
             /\ StrategyB(t, o) = <<OffsetOps(value)>>
             /\ IF t.kind = "broadcast" /\ o.mode = "none"
                THEN \A g \in GroupsOf(t) : OffsetBytes(value[g]) = 4
                ELSE \A n \in Nodes : GroupOf[n] \in GroupsOf(t) => Stored(n, value[GroupOf[n]]) = Wanted(o, n)
<1> DEFINE G == GroupsOf(t)
           command(g) == CASE o.mode = "explicit" -> Explicit(TableValue(o, g))
                           [] o.mode = "none" /\ t.kind = "groups" -> Clear
                           [] OTHER -> Explicit(EvaluateOffset(o, g))
           value == [g \in G |-> command(g)]
<1>0. StrategyB(t, o) = <<OffsetOps(value)>>
  BY DEF StrategyB, GroupsOf
<1>1. G \in SUBSET Ids /\ \A g \in G : g \in Nat
  BY GroupsOfType, IdFacts
<1> HIDE DEF G
<1>2. CASE o.mode = "explicit"
  <2>1. \A g \in G : command(g) = Explicit(TableValue(o, g))
    BY <1>2
  <2>2. \A g \in G : TableValue(o, g) \in 0 .. OffsetMax
    BY <1>2, TableType
  <2>3. value \in [G -> Commands]
    BY <2>1, <2>2, ExplicitStored
  <2>4. ASSUME NEW n \in Nodes, GroupOf[n] \in G PROVE Stored(n, value[GroupOf[n]]) = Wanted(o, n)
    <3>1. value[GroupOf[n]] = Explicit(TableValue(o, GroupOf[n]))
      BY <2>1, <2>4
    <3>2. Wanted(o, n) = TableValue(o, GroupOf[n])
      BY <1>2 DEF Wanted
    <3> QED
      BY <2>2, <2>4, <3>1, <3>2, ExplicitStored
  <2> HIDE DEF value
  <2> QED
    BY <1>0, <1>2, <2>3, <2>4 DEF G
<1>3. CASE o.mode = "none" /\ t.kind = "groups"
  <2>1. \A g \in G : command(g) = Clear
    BY <1>3
  <2>2. value \in [G -> Commands]
    BY <2>1, ClearStored
  <2>3. \A n \in Nodes : GroupOf[n] \in G => Stored(n, value[GroupOf[n]]) = Wanted(o, n)
    BY <1>3, <2>1, ClearStored DEF Wanted
  <2> HIDE DEF value
  <2> QED
    BY <1>0, <1>3, <2>2, <2>3 DEF G
<1>4. CASE o.mode = "none" /\ t.kind # "groups"
  <2>1. \A g \in G : command(g) = Explicit(0)
    BY <1>4 DEF EvaluateOffset
  <2>2. Explicit(0) \in Commands /\ OffsetBytes(Explicit(0)) = 4
    BY FleetAssumption, ExplicitStored
  <2>3. value \in [G -> Commands] /\ \A g \in G : OffsetBytes(value[g]) = 4
    BY <2>1, <2>2
  <2>4. t.kind = "broadcast"
    BY <1>4, GroupsOfType
  <2> HIDE DEF value
  <2> QED
    BY <1>0, <1>4, <2>3, <2>4 DEF G
<1>5. CASE o.mode \notin {"none", "explicit"}
  <2>1. \A g \in G : command(g) = Explicit(EvaluateOffset(o, g))
    BY <1>5
  <2>2. \A g \in G : EvaluateOffset(o, g) \in 0 .. OffsetMax
    BY <1>1, <1>5, FormulaIsCommand, EvaluateType
  <2>3. value \in [G -> Commands]
    BY <2>1, <2>2, ExplicitStored
  <2>4. ASSUME NEW n \in Nodes, GroupOf[n] \in G PROVE Stored(n, value[GroupOf[n]]) = Wanted(o, n)
    <3>1. value[GroupOf[n]] = Explicit(EvaluateOffset(o, GroupOf[n]))
      BY <2>1, <2>4
    <3>2. Wanted(o, n) = EvaluateOffset(o, GroupOf[n])
      BY <1>5 DEF Wanted
    <3> QED
      BY <2>2, <2>4, <3>1, <3>2, ExplicitStored
  <2> HIDE DEF value
  <2> QED
    BY <1>0, <1>5, <2>3, <2>4 DEF G
<1> QED
  BY <1>2, <1>3, <1>4, <1>5

\* Of one or two plans the cheaper one is sent, the first of equals.
LEMMA BytesType ==
    ASSUME NEW ops \in Seq(OffsetFrames)
    PROVE  Len(ops) \in Nat /\ Bytes(ops) \in Int
<1> DEFINE at(n) == {i \in DOMAIN ops : OffsetBytes(ops[i].offset) = n}
<1>1. Len(ops) \in Nat /\ DOMAIN ops = 1 .. Len(ops)
  BY LenProperties
<1>2. ASSUME NEW n PROVE Cardinality(at(n)) \in Nat
  <2>1. at(n) \in SUBSET (1 .. Len(ops)) /\ IsFiniteSet(1 .. Len(ops))
    BY <1>1, FS_Interval
  <2> QED
    BY <2>1, FS_Subset, FS_CardinalityType
<1>3. Bytes(ops) = 2 * Cardinality(at(2)) + 4 * Cardinality(at(4)) + 6 * Cardinality(at(6)) + 7 * Cardinality(at(7))
  BY DEF Bytes
<1> HIDE DEF at
<1>4. Cardinality(at(2)) \in Int /\ Cardinality(at(4)) \in Int /\ Cardinality(at(6)) \in Int /\ Cardinality(at(7)) \in Int
  BY <1>2
<1> QED
  BY <1>1, <1>3, <1>4

Best(plans) ==
  plans[CHOOSE i \in DOMAIN plans : \A j \in DOMAIN plans :
          /\ ~Cheaper(plans[j], plans[i])
          /\ j < i => Cheaper(plans[i], plans[j])]

\* Of two plans the cheaper one is chosen, the first of equals.
LEMMA BestOfTwo ==
    ASSUME NEW p \in Seq(OffsetFrames), NEW q \in Seq(OffsetFrames)
    PROVE  /\ Best(<<p>>) = p
           /\ IF Cheaper(q, p) THEN Best(<<p, q>>) = q ELSE Best(<<p, q>>) = p
<1>1. Len(p) \in Int /\ Len(q) \in Int /\ Bytes(p) \in Int /\ Bytes(q) \in Int
  BY BytesType
<1>2. ~Cheaper(p, p) /\ ~Cheaper(q, q) /\ (Cheaper(q, p) => ~Cheaper(p, q))
  BY <1>1 DEF Cheaper
<1>3. Best(<<p>>) = p
  <2> DEFINE a == <<p>>
             good(i) == \A j \in DOMAIN a : ~Cheaper(a[j], a[i]) /\ (j < i => Cheaper(a[i], a[j]))
  <2>1. DOMAIN a = {1} /\ a[1] = p
    OBVIOUS
  <2> HIDE DEF a
  <2>2. good(1)
    BY <1>2, <2>1
  <2>3. (CHOOSE i \in DOMAIN a : good(i)) = 1
    BY <2>1, <2>2
  <2>4. Best(a) = a[CHOOSE i \in DOMAIN a : good(i)]
    BY DEF Best
  <2>5. Best(a) = p
    BY <2>1, <2>3, <2>4
  <2> QED
    BY <2>5 DEF a
<1>4. IF Cheaper(q, p) THEN Best(<<p, q>>) = q ELSE Best(<<p, q>>) = p
  <2> DEFINE a == <<p, q>>
             good(i) == \A j \in DOMAIN a : ~Cheaper(a[j], a[i]) /\ (j < i => Cheaper(a[i], a[j]))
             best == CHOOSE i \in DOMAIN a : good(i)
  <2>1. DOMAIN a = {1, 2} /\ a[1] = p /\ a[2] = q
    OBVIOUS
  <2> HIDE DEF a
  <2>2. Best(a) = a[best]
    BY DEF Best
  <2>3. CASE Cheaper(q, p)
    <3>1. good(2) /\ ~good(1)
      BY <1>2, <2>1, <2>3
    <3> HIDE DEF good
    <3>2. best = 2
      BY <2>1, <3>1
    <3> QED
      BY <2>1, <2>2, <2>3, <3>2 DEF a
  <2>4. CASE ~Cheaper(q, p)
    <3>1. good(1) /\ ~good(2)
      BY <1>2, <2>1, <2>4
    <3> HIDE DEF good
    <3>2. best = 1
      BY <2>1, <3>1
    <3> QED
      BY <2>1, <2>2, <2>4, <3>2 DEF a
  <2> QED
    BY <2>3, <2>4
<1> QED
  BY <1>3, <1>4

\* Joined lists: what the second one says of a node counts.
LEMMA JoinedLists ==
    ASSUME NEW X, NEW p \in Seq(X), NEW q \in Seq(X), NEW n
    PROVE  /\ \A v : Sets(q, n, v) => Sets(p \o q, n, v)
           /\ \A v : Sets(p, n, v) /\ Spares(q, n) => Sets(p \o q, n, v)
           /\ Spares(p, n) /\ Spares(q, n) => Spares(p \o q, n)
<1> DEFINE r == p \o q
<1>1. /\ Len(p) \in Nat /\ Len(q) \in Nat /\ Len(r) = Len(p) + Len(q)
      /\ \A i \in 1 .. Len(p) + Len(q) : r[i] = IF i <= Len(p) THEN p[i] ELSE q[i - Len(p)]
  BY ConcatProperties, LenProperties
<1> HIDE DEF r
<1>2. \A i \in 1 .. Len(p) : i \in 1 .. Len(r) /\ r[i] = p[i]
  BY <1>1
<1>3. \A i \in 1 .. Len(q) : i + Len(p) \in 1 .. Len(r) /\ r[i + Len(p)] = q[i]
  <2> SUFFICES ASSUME NEW i \in 1 .. Len(q) PROVE i + Len(p) \in 1 .. Len(r) /\ r[i + Len(p)] = q[i]
    OBVIOUS
  <2>1. i + Len(p) \in 1 .. Len(p) + Len(q) /\ ~(i + Len(p) <= Len(p)) /\ (i + Len(p)) - Len(p) = i
    BY <1>1
  <2> QED
    BY <1>1, <2>1
<1>4. \A j \in 1 .. Len(r) : \/ j \in 1 .. Len(p) /\ r[j] = p[j]
                             \/ j - Len(p) \in 1 .. Len(q) /\ r[j] = q[j - Len(p)] /\ ~(j <= Len(p))
  BY <1>1
<1>5. ASSUME NEW v, Sets(q, n, v) PROVE Sets(r, n, v)
  <2>1. PICK i \in 1 .. Len(q) : LastHit(q, i, n) /\ Stored(n, q[i].offset) = v
    BY <1>5 DEF Sets
  <2>2. \A j \in i + 1 .. Len(q) : ~Hits(q[j], n)
    BY <2>1 DEF LastHit
  <2>3. ASSUME NEW j \in (i + Len(p)) + 1 .. Len(r) PROVE ~Hits(r[j], n)
    <3>1. j - Len(p) \in i + 1 .. Len(q) /\ j \in 1 .. Len(r) /\ ~(j <= Len(p))
      BY <1>1
    <3> QED
      BY <1>4, <2>2, <3>1
  <2>4. LastHit(r, i + Len(p), n)
    BY <1>3, <2>1, <2>3 DEF LastHit
  <2> QED
    BY <1>3, <2>1, <2>4 DEF Sets
<1>6. ASSUME NEW v, Sets(p, n, v), Spares(q, n) PROVE Sets(r, n, v)
  <2>1. PICK i \in 1 .. Len(p) : LastHit(p, i, n) /\ Stored(n, p[i].offset) = v
    BY <1>6 DEF Sets
  <2>2. \A j \in i + 1 .. Len(p) : ~Hits(p[j], n)
    BY <2>1 DEF LastHit
  <2>3. ASSUME NEW j \in i + 1 .. Len(r) PROVE ~Hits(r[j], n)
    <3>1. j \in 1 .. Len(r) /\ (j <= Len(p) => j \in i + 1 .. Len(p))
      BY <1>1
    <3>2. CASE j <= Len(p)
      BY <1>2, <2>2, <3>1, <3>2
    <3>3. CASE ~(j <= Len(p))
      BY <1>1, <1>4, <1>6, <3>1, <3>3 DEF Spares
    <3> QED
      BY <3>2, <3>3
  <2>4. LastHit(r, i, n)
    BY <1>2, <2>1, <2>3 DEF LastHit
  <2> QED
    BY <1>2, <2>1, <2>4 DEF Sets
<1>7. Spares(p, n) /\ Spares(q, n) => Spares(r, n)
  BY <1>4 DEF Spares
<1> QED
  BY <1>5, <1>6, <1>7 DEF r

\* One frame to everybody.
LEMMA OneFrame ==
    ASSUME NEW o \in Commands
    PROVE  /\ <<OffsetOp(Broadcast, o)>> \in Seq(OffsetFrames)
           /\ \A n : Sets(<<OffsetOp(Broadcast, o)>>, n, Stored(n, o))
<1> DEFINE x == OffsetOp(Broadcast, o)
           s == <<x>>
<1>1. x \in OffsetFrames /\ x.sender = "send_offset" /\ x.to = Broadcast /\ x.offset = o
  BY DEF OffsetOp, OffsetFrames
<1>2. s \in Seq(OffsetFrames) /\ Len(s) = 1 /\ s[1] = x
  BY <1>1
<1> HIDE DEF x, s
<1>3. \A n : LastHit(s, 1, n) /\ Stored(n, s[1].offset) = Stored(n, o)
  BY <1>1, <1>2 DEF LastHit, Hits
<1>4. \A n : Sets(s, n, Stored(n, o))
  BY <1>2, <1>3 DEF Sets
<1> QED
  BY <1>2, <1>4 DEF s, x

\* A frame for everybody never clears.
ClearsGroups(s) == \A i \in 1 .. Len(s) : s[i].to = Broadcast => s[i].offset.mode # "none"

\* C: the formula for everybody and a clear for each other group.
LEMMA FormulaAndClears ==
    ASSUME NEW t \in Targets, CanonicalTarget(t), t.kind = "groups",
           NEW o \in Offsets, o.mode \notin {"none", "explicit"}, KnownGroups # {}
    PROVE  \E s \in Seq(OffsetFrames) :
             /\ StrategyC(t, o) = <<s>> /\ ClearsGroups(s)
             /\ \A n \in Nodes : IF GroupOf[n] \in t.value THEN Sets(s, n, Wanted(o, n)) ELSE Sets(s, n, Normal)
<1> DEFINE G == KnownGroups \ t.value
           value == [g \in G |-> Clear]
           p == <<OffsetOp(Broadcast, o)>>
           q == OffsetOps(value)
<1>1. StrategyC(t, o) = <<p \o q>>
  BY DEF StrategyC
<1>2. G \in SUBSET Ids /\ value \in [G -> Commands]
  BY KnownAreIds, ClearStored DEF Ids
<1>3. o \in Commands
  BY FormulaIsCommand
<1>4. p \in Seq(OffsetFrames) /\ \A n : Sets(p, n, Stored(n, o))
  BY <1>3, OneFrame
<1>5. q \in Seq(OffsetFrames)
  BY <1>2, OffsetOpsFacts
<1>6. ASSUME NEW n \in Nodes
      PROVE  IF GroupOf[n] \in t.value THEN Sets(p \o q, n, Wanted(o, n)) ELSE Sets(p \o q, n, Normal)
  <2>1. CASE GroupOf[n] \in t.value
    <3>1. Spares(q, n)
      BY <1>2, <2>1, OffsetOpsEffect
    <3>2. Stored(n, o) = Wanted(o, n)
      BY DEF Stored, Wanted
    <3>3. Sets(p, n, Wanted(o, n))
      BY <1>4, <3>2
    <3> HIDE DEF p, q
    <3> QED
      BY <1>4, <1>5, <2>1, <3>1, <3>3, JoinedLists
  <2>2. CASE GroupOf[n] \notin t.value
    <3>1. GroupOf[n] \in G /\ value[GroupOf[n]] = Clear
      BY <2>2 DEF KnownGroups
    <3>2. Sets(q, n, Stored(n, value[GroupOf[n]]))
      BY <1>2, <3>1, OffsetOpsEffect
    <3>3. Sets(q, n, Normal)
      BY <3>1, <3>2, ClearStored
    <3> HIDE DEF p, q
    <3> QED
      BY <1>4, <1>5, <2>2, <3>3, JoinedLists
  <2> QED
    BY <2>1, <2>2
<1> HIDE DEF p, q
<1>7. /\ p \o q \in Seq(OffsetFrames) /\ Len(p \o q) = Len(p) + Len(q) /\ Len(p) \in Nat /\ Len(q) \in Nat
      /\ \A i \in 1 .. Len(p) + Len(q) : (p \o q)[i] = IF i <= Len(p) THEN p[i] ELSE q[i - Len(p)]
  BY <1>4, <1>5, ConcatProperties, LenProperties
<1>8. Len(p) = 1 /\ p[1].offset = o
  BY DEF p, OffsetOp
<1>9. \A i \in 1 .. Len(q) : q[i].to # Broadcast
  <2>1. \A i \in 1 .. Len(q) : q[i].to \in G
    <3>1. \A i \in 1 .. Len(OffsetOps(value)) : OffsetOps(value)[i].to \in G
      BY <1>2, OffsetOpsFacts
    <3> QED
      BY <3>1 DEF q
  <2> QED
    BY <1>2, <2>1, IdFacts
<1>10. ClearsGroups(p \o q)
  <2> SUFFICES ASSUME NEW i \in 1 .. Len(p) + Len(q), (p \o q)[i].to = Broadcast
               PROVE  (p \o q)[i].offset.mode # "none"
    BY <1>7 DEF ClearsGroups
  <2>1. CASE i = 1
    BY <1>7, <1>8, <2>1
  <2>2. CASE i # 1
    <3>1. i - Len(p) \in 1 .. Len(q) /\ ~(i <= Len(p))
      BY <1>7, <1>8, <2>2
    <3> QED
      BY <1>7, <1>9, <3>1
  <2> QED
    BY <2>1, <2>2
<1> QED
  BY <1>1, <1>6, <1>7, <1>10

\* Lists of one and of two plans, joined with empty ones.
LEMMA ShortLists ==
  /\ \A x : << >> \o <<x>> \o << >> = <<x>> /\ <<x>> # << >>
  /\ \A x, y : << >> \o <<x>> \o <<y>> = <<x, y>> /\ <<x>> \o <<y>> \o << >> = <<x, y>> /\ <<x, y>> # << >>
<1>1. ASSUME NEW x, NEW y PROVE << >> \o <<x>> = <<x>> /\ <<x>> \o << >> = <<x>> /\ <<x, y>> \o << >> = <<x, y>>
  <2>1. <<x>> \in Seq({x, y}) /\ <<x, y>> \in Seq({x, y})
    OBVIOUS
  <2> QED
    BY <2>1, ConcatEmptySeq
<1>2. ASSUME NEW x, NEW y PROVE <<x>> \o <<y>> = <<x, y>>
  <2>1. <<x>> \in Seq({x, y}) /\ <<y>> \in Seq({x, y}) /\ <<x, y>> \in Seq({x, y})
    OBVIOUS
  <2>2. /\ <<x>> \o <<y>> \in Seq({x, y}) /\ Len(<<x>> \o <<y>>) = 2
        /\ \A i \in 1 .. 2 : (<<x>> \o <<y>>)[i] = <<x, y>>[i]
    <3>1. Len(<<x>>) = 1 /\ Len(<<y>>) = 1
      OBVIOUS
    <3>2. /\ <<x>> \o <<y>> \in Seq({x, y}) /\ Len(<<x>> \o <<y>>) = Len(<<x>>) + Len(<<y>>)
          /\ \A i \in 1 .. Len(<<x>>) + Len(<<y>>) : (<<x>> \o <<y>>)[i] = IF i <= Len(<<x>>) THEN <<x>>[i] ELSE <<y>>[i - Len(<<x>>)]
      BY <2>1, ConcatProperties
    <3> QED
      BY <3>1, <3>2
  <2>3. Len(<<x, y>>) = 2
    OBVIOUS
  <2> QED
    BY <2>1, <2>2, <2>3, SeqEqual
<1> QED
  BY <1>1, <1>2

\* What the offset frames of a container do, whichever path is the cheapest.
LEMMA SetupOfGroups ==
    ASSUME NEW t \in Targets, CanonicalTarget(t), t.kind = "groups", NEW o \in Offsets, CanonicalOffset(o, t)
    PROVE  LET s == PlanOffsetSetup(t, o) IN
           /\ s \in Seq(OffsetFrames) /\ ClearsGroups(s)
           /\ \A n \in Nodes : IF GroupOf[n] \in t.value THEN Sets(s, n, Wanted(o, n))
                               ELSE Spares(s, n) \/ Sets(s, n, Normal)
<1> DEFINE Good(s) == /\ s \in Seq(OffsetFrames) /\ ClearsGroups(s)
                      /\ \A n \in Nodes : IF GroupOf[n] \in t.value THEN Sets(s, n, Wanted(o, n))
                                          ELSE Spares(s, n) \/ Sets(s, n, Normal)
<1>1. GroupsOf(t) = t.value /\ GroupsOf(t) # {} /\ GroupsOf(t) \in SUBSET Ids
  BY GroupsOfType
<1>2. PICK value \in [GroupsOf(t) -> Commands] :
        /\ StrategyB(t, o) = <<OffsetOps(value)>>
        /\ \A n \in Nodes : GroupOf[n] \in GroupsOf(t) => Stored(n, value[GroupOf[n]]) = Wanted(o, n)
  BY <1>1, PerGroup
<1> DEFINE b == OffsetOps(value)
<1>3. b \in Seq(OffsetFrames) /\ ClearsGroups(b)
  <2>1. b \in Seq(OffsetFrames) /\ \A i \in 1 .. Len(b) : b[i].to \in GroupsOf(t)
    BY <1>1, <1>2, OffsetOpsFacts
  <2> QED
    BY <1>1, <2>1, IdFacts DEF ClearsGroups
<1>4. \A n \in Nodes : IF GroupOf[n] \in t.value THEN Sets(b, n, Wanted(o, n)) ELSE Spares(b, n)
  BY <1>1, <1>2, OffsetOpsEffect
<1>5. Good(b)
  BY <1>3, <1>4
<1>6. StrategyA(t, o) = << >>
  BY DEF StrategyA
<1> DEFINE plans == StrategyA(t, o) \o StrategyB(t, o) \o StrategyC(t, o)
<1>7. PlanOffsetSetup(t, o) = IF plans = << >> THEN << >> ELSE Best(plans)
  BY DEF PlanOffsetSetup, Best
<1> HIDE DEF b, Good
<1>8. CASE o.mode \in {"none", "explicit"} \/ KnownGroups = {}
  <2>1. StrategyC(t, o) = << >>
    BY <1>8 DEF StrategyC
  <2>2. plans = <<b>>
    BY <1>2, <1>6, <2>1, ShortLists DEF b
  <2>3. PlanOffsetSetup(t, o) = Best(<<b>>)
    BY <1>7, <2>2, ShortLists
  <2>4. PlanOffsetSetup(t, o) = b
    BY <1>3, <2>3, BestOfTwo
  <2> QED
    BY <1>5, <2>4 DEF Good
<1>9. CASE o.mode \notin {"none", "explicit"} /\ KnownGroups # {}
  <2>1. PICK c \in Seq(OffsetFrames) :
          /\ StrategyC(t, o) = <<c>> /\ ClearsGroups(c)
          /\ \A n \in Nodes : IF GroupOf[n] \in t.value THEN Sets(c, n, Wanted(o, n)) ELSE Sets(c, n, Normal)
    BY <1>9, FormulaAndClears
  <2>2. Good(c)
    BY <2>1 DEF Good
  <2>3. plans = <<b, c>>
    BY <1>2, <1>6, <2>1, ShortLists DEF b
  <2>4. PlanOffsetSetup(t, o) = Best(<<b, c>>)
    BY <1>7, <2>3, ShortLists
  <2>5. Best(<<b, c>>) \in {b, c}
    BY <1>3, <2>1, BestOfTwo
  <2> QED
    BY <1>5, <2>2, <2>4, <2>5 DEF Good
<1> QED
  BY <1>8, <1>9

\* The bytes of a list of one frame.
LEMMA OneFrameBytes ==
    ASSUME NEW s \in Seq(OffsetFrames), Len(s) = 1, OffsetBytes(s[1].offset) \in {2, 4}
    PROVE  Bytes(s) = OffsetBytes(s[1].offset)
<1> DEFINE b == OffsetBytes(s[1].offset)
           at(n) == {i \in DOMAIN s : OffsetBytes(s[i].offset) = n}
<1>1. DOMAIN s = {1}
  BY LenProperties
<1>2. /\ at(6) = {} /\ at(7) = {}
      /\ b = 2 => at(2) = {1} /\ at(4) = {}
      /\ b = 4 => at(2) = {} /\ at(4) = {1}
  BY <1>1
<1>3. Bytes(s) = 2 * Cardinality(at(2)) + 4 * Cardinality(at(4)) + 6 * Cardinality(at(6)) + 7 * Cardinality(at(7))
  BY DEF Bytes
<1>4. Cardinality({1}) = 1 /\ Cardinality({}) = 0
  BY FS_Singleton, FS_EmptySet
<1> HIDE DEF at, b
<1>5. b \in {2, 4}
  BY DEF b
<1>6. Cardinality(at(6)) = 0 /\ Cardinality(at(7)) = 0
  BY <1>2, <1>4, <1>5
<1>7. CASE b = 2
  <2>1. Cardinality(at(2)) = 1 /\ Cardinality(at(4)) = 0
    BY <1>2, <1>4, <1>7
  <2> QED
    BY <1>3, <1>6, <1>7, <2>1 DEF b
<1>8. CASE b = 4
  <2>1. Cardinality(at(2)) = 0 /\ Cardinality(at(4)) = 1
    BY <1>2, <1>4, <1>8
  <2> QED
    BY <1>3, <1>6, <1>8, <2>1 DEF b
<1> QED
  BY <1>5, <1>7, <1>8

\* A container for everybody: whatever path was chosen, every node stores what it is
\* meant to, unless group 0 is the only one known.
LEMMA SetupOfAll ==
    ASSUME NEW t \in Targets, t.kind = "broadcast", NEW o \in Offsets, CanonicalOffset(o, t)
    PROVE  LET s == PlanOffsetSetup(t, o) IN
           /\ s \in Seq(OffsetFrames)
           /\ KnownGroups # {0} =>
                /\ \A n \in Nodes : Sets(s, n, Wanted(o, n))
                /\ \A i \in 1 .. Len(s) : s[i].to # 0
<1> DEFINE Good(s) == /\ s \in Seq(OffsetFrames)
                      /\ KnownGroups # {0} =>
                           /\ \A n \in Nodes : Sets(s, n, Wanted(o, n))
                           /\ \A i \in 1 .. Len(s) : s[i].to # 0
           a == <<OffsetOp(Broadcast, o)>>
           plans == StrategyA(t, o) \o StrategyB(t, o) \o StrategyC(t, o)
<1>1. o.mode # "explicit" /\ GroupsOf(t) = KnownGroups /\ KnownGroups \in SUBSET Ids
      /\ CanonicalTarget(t) /\ t.kind # "device"
  BY KnownAreIds DEF CanonicalOffset, CanonicalTarget, GroupsOf, Ids
<1>2. o \in Commands
  BY <1>1 DEF Offsets, Commands
<1>3. a \in Seq(OffsetFrames) /\ (\A n : Sets(a, n, Stored(n, o)))
  BY <1>2, OneFrame
<1>4. \A n \in Nodes : Stored(n, o) = Wanted(o, n)
  BY <1>1 DEF Stored, Wanted
<1>5. Len(a) = 1 /\ a[1] = OffsetOp(Broadcast, o) /\ a[1].to = Broadcast /\ a[1].offset = o
  BY DEF OffsetOp
<1>6. Good(a)
  <2>1. \A n \in Nodes : Sets(a, n, Wanted(o, n))
    BY <1>3, <1>4
  <2>2. \A i \in 1 .. Len(a) : a[i].to # 0
    BY <1>5, IdFacts
  <2> HIDE DEF a
  <2> QED
    BY <1>3, <2>1, <2>2
<1>7. StrategyA(t, o) = <<a>> /\ StrategyC(t, o) = << >>
  BY <1>1 DEF StrategyA, StrategyC
<1>8. PlanOffsetSetup(t, o) = IF plans = << >> THEN << >> ELSE Best(plans)
  BY DEF PlanOffsetSetup, Best
<1> HIDE DEF a, Good
<1>9. CASE KnownGroups = {}
  <2>1. StrategyB(t, o) = << >>
    BY <1>1, <1>9 DEF StrategyB, GroupsOf
  <2>2. plans = <<a>>
    <3>1. <<a>> \o << >> = <<a>>
      BY <1>3, ConcatEmptySeq, ShortLists
    <3> QED
      BY <1>7, <2>1, <3>1
  <2>3. PlanOffsetSetup(t, o) = Best(<<a>>)
    BY <1>8, <2>2, ShortLists
  <2>4. PlanOffsetSetup(t, o) = a
    BY <1>3, <2>3, BestOfTwo
  <2> QED
    BY <1>6, <2>4 DEF Good
<1>10. CASE KnownGroups # {}
  <2>1. PICK value \in [GroupsOf(t) -> Commands] :
          /\ StrategyB(t, o) = <<OffsetOps(value)>>
          /\ IF o.mode = "none" THEN \A g \in GroupsOf(t) : OffsetBytes(value[g]) = 4
             ELSE \A n \in Nodes : GroupOf[n] \in GroupsOf(t) => Stored(n, value[GroupOf[n]]) = Wanted(o, n)
    BY <1>1, <1>10, PerGroup
  <2> DEFINE b == OffsetOps(value)
  <2>2. /\ b \in Seq(OffsetFrames) /\ Len(b) = Cardinality(KnownGroups)
        /\ \A i \in 1 .. Len(b) : b[i].to \in KnownGroups /\ b[i].offset = value[b[i].to]
    BY <1>1, <2>1, OffsetOpsFacts
  <2>3. \A n \in Nodes : Sets(b, n, Stored(n, value[GroupOf[n]]))
    BY <1>1, <2>1, OffsetOpsEffect DEF KnownGroups
  <2> HIDE DEF b
  <2>4. plans = <<a, b>>
    BY <1>7, <2>1, ShortLists DEF b
  <2>5. PlanOffsetSetup(t, o) = Best(<<a, b>>)
    BY <1>8, <2>4, ShortLists
  <2>6. CASE ~Cheaper(b, a)
    <3>1. PlanOffsetSetup(t, o) = a
      BY <1>3, <2>2, <2>5, <2>6, BestOfTwo
    <3> QED
      BY <1>6, <3>1 DEF Good
  <2>7. CASE Cheaper(b, a)
    <3>1. PlanOffsetSetup(t, o) = b
      BY <1>3, <2>2, <2>5, <2>7, BestOfTwo
    <3>2. IsFiniteSet(KnownGroups) /\ Cardinality(KnownGroups) \in Nat
      BY KnownAreIds, SmallSets
    <3>3. Cardinality(KnownGroups) # 0
      BY <1>10, <3>2, FS_EmptySet
    <3>4. Len(b) = 1 /\ Bytes(b) < Bytes(a)
      BY <1>5, <2>2, <2>7, <3>2, <3>3 DEF Cheaper
    <3>5. PICK g : KnownGroups = {g}
      BY <2>2, <3>2, <3>4, FS_Singleton
    <3>6. o.mode # "none"
      <4> SUFFICES ASSUME o.mode = "none" PROVE FALSE
        OBVIOUS
      <4>1. OffsetBytes(b[1].offset) = 4
        BY <1>1, <2>1, <2>2, <3>4
      <4>2. OffsetBytes(a[1].offset) = 2
        BY <1>5 DEF OffsetBytes
      <4>3. Bytes(b) = 4 /\ Bytes(a) = 2
        BY <1>3, <1>5, <2>2, <3>4, <4>1, <4>2, OneFrameBytes
      <4> QED
        BY <3>4, <4>3
    <3>7. \A n \in Nodes : Sets(b, n, Wanted(o, n))
      BY <1>1, <2>1, <2>3, <3>6 DEF KnownGroups
    <3>8. KnownGroups # {0} => \A i \in 1 .. Len(b) : b[i].to # 0
      BY <2>2, <3>5
    <3> QED
      BY <2>2, <3>1, <3>7, <3>8 DEF Good
  <2> QED
    BY <2>6, <2>7
<1> QED
  BY <1>9, <1>10 DEF Good

-----------------------------------------------------------------------------
(* Plans                                                                   *)

\* A list of frames is of one kind.
LEMMA FrameKinds ==
  /\ \A op \in Frames : op.to \in Ids \cup {Broadcast} /\ op.dev \in Nodes \cup {None}
  /\ \A op \in Frames : op.dev # None => op.to = GroupOf[op.dev] /\ op.to # Broadcast
  /\ \A flag \in BOOLEAN : \A op \in ControlFrames(flag) : op.sender = "send_control" /\ op.flag = flag /\ op \in Frames
  /\ \A op \in OffsetFrames : op.sender = "send_offset" /\ op.dev = None /\ op.offset \in Commands /\ op.bad = FALSE /\ op \in Frames
  /\ \A op \in SyncFrames : op.sender = "send_sync" /\ op.to = Broadcast /\ op.dev = None /\ op \in Frames
  /\ \A op \in Frames : op.sender = "send_offset" => op \in OffsetFrames
  /\ \A op \in Frames : op.sender = "send_control" => op.flag \in BOOLEAN /\ op \in ControlFrames(op.flag)
<1>1. \A flag \in BOOLEAN : \A op \in ControlFrames(flag) :
        /\ op.to \in Ids \cup {Broadcast} /\ op.dev \in Nodes \cup {None}
        /\ op.dev # None => op.to = GroupOf[op.dev] /\ op.to # Broadcast
        /\ op.sender = "send_control" /\ op.flag = flag /\ op \in Frames
  BY IdFacts DEF ControlFrames, Frames
<1>2. \A op \in OffsetFrames :
        /\ op.to \in Ids \cup {Broadcast} /\ op.dev = None
        /\ op.sender = "send_offset" /\ op.offset \in Commands /\ op.bad = FALSE /\ op \in Frames
  BY DEF OffsetFrames, Frames
<1>3. \A op \in SyncFrames : op.sender = "send_sync" /\ op.to = Broadcast /\ op.dev = None /\ op \in Frames
  BY DEF SyncFrames, Frames
<1> QED
  BY <1>1, <1>2, <1>3 DEF Frames

\* A container: offset frames, then effects that are all for nodes with an offset
\* or all for nodes without.
LEMMA ContainerPlan ==
    ASSUME NEW a \in Actions, CanonicalAction(a), a.kind = "offset_group"
    PROVE  LET setup == PlanOffsetSetup(a.target, a.offset)
               flag == a.offset.mode # "none"
           IN /\ setup \in Seq(OffsetFrames) /\ flag \in BOOLEAN
              /\ \E children \in Seq(ControlFrames(flag)) : PlanAction(a).ops = setup \o children
              /\ PlanAction(a).degraded \in BOOLEAN
<1> DEFINE setup == PlanOffsetSetup(a.target, a.offset)
           flag == a.offset.mode # "none"
           plans == [i \in DOMAIN a.actions |-> PlanEffect(a.actions[i], flag, TRUE)]
           lists == [i \in DOMAIN plans |-> plans[i].ops]
           F == ControlFrames(flag)
           n == Len(a.actions)
<1>1. a.target \in Targets /\ a.offset \in Offsets /\ a.actions \in Seq(Effects)
  BY DEF Actions, Effects
<1>2. /\ CanonicalTarget(a.target) /\ a.target.kind # "device" /\ CanonicalOffset(a.offset, a.target)
      /\ \A i \in DOMAIN a.actions : CanonicalTarget(a.actions[i].target)
  BY DEF CanonicalAction, CanonicalChild
<1>3. setup \in Seq(OffsetFrames)
  <2>1. a.target.kind \in {"broadcast", "groups"}
    BY <1>1, <1>2, GroupsOfType
  <2> QED
    BY <1>1, <1>2, <2>1, SetupOfGroups, SetupOfAll
<1>4. n \in Nat /\ DOMAIN a.actions = 1 .. n /\ \A i \in 1 .. n : a.actions[i] \in Effects
  BY <1>1, LenProperties, ElementOfSeq
<1>5. flag \in BOOLEAN
  OBVIOUS
<1>6. PlanAction(a) = [ops |-> setup \o FlattenSeq(lists), degraded |-> \E i \in DOMAIN plans : plans[i].degraded]
  BY DEF PlanAction, PlanOffsetGroup
<1> HIDE DEF setup, flag, n
<1>7. \A e \in Effects : OffsetFlag(e, flag) = flag
  BY <1>5, FleetAssumption DEF OffsetFlag
<1>8. \A i \in 1 .. n : PlanEffect(a.actions[i], flag, TRUE).ops \in Seq(F)
  <2> SUFFICES ASSUME NEW i \in 1 .. n PROVE PlanEffect(a.actions[i], flag, TRUE).ops \in Seq(F)
    OBVIOUS
  <2>1. a.actions[i] \in Effects /\ CanonicalTarget(a.actions[i].target)
    BY <1>2, <1>4
  <2> DEFINE e == a.actions[i]
  <2> HIDE DEF e
  <2>2. PlanEffect(e, flag, TRUE).ops \in Seq(ControlFrames(OffsetFlag(e, flag)))
    BY <1>5, <2>1, EffectPlan DEF e
  <2> QED
    BY <1>7, <2>1, <2>2 DEF e
<1> DEFINE list(i) == PlanEffect(a.actions[i], flag, TRUE).ops
<1>9. lists = [i \in 1 .. n |-> list(i)]
  BY <1>4
<1>10. lists \in Seq(Seq(F))
  <2> HIDE DEF F
  <2>1. \A i \in 1 .. n : list(i) \in Seq(F)
    BY <1>8
  <2> HIDE DEF list, lists
  <2>2. [i \in 1 .. n |-> list(i)] \in Seq(Seq(F))
    BY <1>4, <2>1, IsASeq
  <2> QED
    BY <1>9, <2>2
<1> HIDE DEF F, lists, plans
<1>11. FlattenSeq(lists) \in Seq(F)
  <2>1. CASE lists = << >>
    <3>1. FlattenSeq(lists) = << >>
      BY <2>1 DEF FlattenSeq
    <3> QED
      BY <3>1
  <2>2. CASE lists # << >>
    BY <1>10, <2>2, FlattenType
  <2> QED
    BY <2>1, <2>2
<1>12. PlanAction(a).ops = setup \o FlattenSeq(lists) /\ PlanAction(a).degraded \in BOOLEAN
  BY <1>6
<1>13. \E children \in Seq(F) : PlanAction(a).ops = setup \o children
  BY <1>11, <1>12
<1> QED
  BY <1>3, <1>5, <1>12, <1>13 DEF setup, flag, F

-----------------------------------------------------------------------------
(* The inductive invariant                                                 *)

Scopes == [scope : ((SUBSET Nets) \ {{}}) \cup {None}, blocked : BOOLEAN]
OffsetsOfNodes == [Nodes -> 0 .. OffsetMax \cup {Normal}]
Outcomes == {"ok", "error", "degraded"}
RunRecords ==
  [pc : {"plan", "send"}, key : DOMAIN Scenes, i : Nat, ops : Seq(Frames), took : SUBSET Nodes,
   good : Outcomes, res : Seq(Outcomes \cup {"skipped"}), prev : Scopes, outer : Scopes \cup {None},
   alone : BOOLEAN, before : OffsetsOfNodes]
AirRecords == [by : Runs, op : Frames, nets : SUBSET Nets, up : SUBSET Nets, took : SUBSET Nodes]

RunTypes ==
  /\ scope \in ((SUBSET Nets) \ {{}}) \cup {None} /\ blocked \in BOOLEAN /\ mixed \in BOOLEAN
  /\ up \in Seq(Nets) /\ (\A i, j \in 1 .. Len(up) : up[i] = up[j] => i = j)
  /\ off \in OffsetsOfNodes /\ run \in [Runs -> RunRecords \cup {Idle}]
  /\ air \in AirRecords \cup {None}

\* Where a run stands in its scene.
InStep(r) ==
  /\ CanonicalScene(SceneOf(r)) /\ run[r].i \in 1 .. Len(SceneOf(r).actions) + 1
  /\ Len(run[r].res) = run[r].i - 1
  /\ run[r].pc = "send" => run[r].i \in 1 .. Len(SceneOf(r).actions)
  /\ IF run[r].pc = "send" /\ Narrowed(Action(r)) THEN run[r].outer # None ELSE run[r].outer = None
  /\ run[r].good = "degraded" => run[r].ops = << >>

\* The results so far: nothing comes after an error of a scene that stops.
ResultsSoFar(r) ==
  /\ \A j \in 1 .. Len(run[r].res) :
       run[r].res[j] = "skipped" <=> SceneOf(r).stop /\ \E k \in 1 .. j - 1 : run[r].res[k] = "error"
  /\ run[r].i <= Len(SceneOf(r).actions) /\ SceneOf(r).stop =>
       \A j \in 1 .. Len(run[r].res) : run[r].res[j] # "error"

\* The scope of a scene, and of a container that names groups.
Scope(nets, refuses) == [scope |-> IF nets = {} THEN None ELSE nets, blocked |-> refuses /\ nets = {}]
OwnScope(r) == Scope(SceneNetworks(SceneOf(r)), SceneOf(r).scope # None)
ContainerScope(r) == Scope(TargetNetworks(Action(r).target, None), FALSE)
Now == [scope |-> scope, blocked |-> blocked]
HoldsScope(r) ==
  IF run[r].outer = None THEN Now = OwnScope(r)
  ELSE run[r].outer = OwnScope(r) /\ Now = ContainerScope(r)

\* An effect under way: who it is for took it or is still to get a frame.
StillToHear(r) ==
  LET a == Action(r) IN
  run[r].pc = "send" /\ run[r].good = "ok" /\ a.kind = "effect" =>
    /\ off = run[r].before
    /\ \A i \in 1 .. Len(run[r].ops) :
         /\ run[r].ops[i] \in ControlFrames(OffsetFlag(a, None))
         /\ run[r].ops[i].to = Broadcast => a.target.kind = "broadcast"
    /\ \A n \in Nodes :
         /\ NetworkOf[n] \in Attached /\ OffsetFlag(a, None) = (run[r].before[n] # Normal)
         /\ Meant(a.target, n) /\ (a.target.kind = "broadcast" => InScene(SceneOf(r), NetworkOf[n]))
         => n \in run[r].took \/ \E i \in 1 .. Len(run[r].ops) : Reaches(run[r].ops[i], n)

\* A container under way: its offset frames come first, and what they still have to
\* say to a node, or have said, is what the node is meant to store.
StillToSet(r) ==
  LET a == Action(r)
      ops == run[r].ops
  IN run[r].pc = "send" /\ run[r].good # "degraded" /\ Selects(a) =>
       /\ \A i \in 1 .. Len(ops) : ops[i] \in OffsetFrames \cup ControlFrames(a.offset.mode # "none")
       /\ \A i, j \in 1 .. Len(ops) : i < j /\ ops[j] \in OffsetFrames => ops[i] \in OffsetFrames
       /\ ~Narrowed(a) => \A i \in 1 .. Len(ops) : ops[i] \in OffsetFrames => ops[i].to # 0
       /\ Narrowed(a) => \A i \in 1 .. Len(ops) :
            ops[i] \in OffsetFrames /\ ops[i].to = Broadcast => ops[i].offset.mode # "none"
       /\ \A n \in Participants(r, a) :
            \/ Sets(ops, n, Wanted(a.offset, n))
            \/ Spares(ops, n) /\ off[n] = Wanted(a.offset, n)
       /\ Narrowed(a) => \A n \in Nodes \ Participants(r, a) : GroupOf[n] # 0 =>
            IF NetworkOf[n] \in Attached
            THEN Sets(ops, n, Normal) \/ (Spares(ops, n) /\ off[n] \in {run[r].before[n], Normal})
            ELSE off[n] = run[r].before[n]

Undisturbed(r) == Active = {r} /\ HoldsScope(r) /\ StillToHear(r) /\ StillToSet(r)

\* Runs that never overlapped gave the scope back each time.
Unmixed ==
  ~mixed => /\ Active = {} => scope = None /\ blocked = FALSE
            /\ \A r \in Active : Active = {r} /\ run[r].prev = [scope |-> None, blocked |-> FALSE]

IInv ==
  /\ RunTypes /\ Unmixed
  /\ \A r \in Active : InStep(r) /\ ResultsSoFar(r) /\ (run[r].alone => Undisturbed(r))
  /\ air # None => air.nets \subseteq air.up /\ run[air.by].pc = "send"
  /\ BroadcastInScope /\ ChildrenFindParticipants

-----------------------------------------------------------------------------
(* Networks                                                                *)

\* The members of a group are on one network, which is the network of the group.
LEMMA GroupNetworkFacts ==
    ASSUME NEW g
    PROVE  /\ GroupNetwork(g) \in Nets \cup {None}
           /\ GroupNetwork(g) # None => g # 0 /\ \E n \in Nodes : GroupOf[n] = g /\ NetworkOf[n] = GroupNetwork(g)
           /\ \A n \in Nodes : GroupOf[n] = g /\ g # 0 => GroupNetwork(g) = NetworkOf[n]
           /\ None \notin Nets
<1> DEFINE nets == {NetworkOf[n] : n \in {m \in Nodes : GroupOf[m] = g}}
<1>1. /\ \A n \in Nodes : NetworkOf[n] \in Nets
      /\ \A m, n \in Nodes : GroupOf[m] = GroupOf[n] /\ GroupOf[m] # 0 => NetworkOf[m] = NetworkOf[n]
      /\ None \notin Nets
  BY FleetAssumption
<1>2. CASE g = 0 \/ nets = {}
  BY <1>1, <1>2 DEF GroupNetwork
<1>3. CASE g # 0 /\ nets # {}
  <2>1. GroupNetwork(g) = CHOOSE x \in nets : TRUE
    BY <1>3 DEF GroupNetwork
  <2>2. GroupNetwork(g) \in nets
    BY <1>3, <2>1
  <2>3. PICK n \in Nodes : GroupOf[n] = g /\ NetworkOf[n] = GroupNetwork(g)
    BY <2>2
  <2> HIDE DEF nets
  <2> QED
    BY <1>1, <1>3, <2>3
<1> QED
  BY <1>2, <1>3

\* The networks of a target are those of the nodes it is for.
LEMMA TargetNets ==
    ASSUME NEW t \in Targets
    PROVE  /\ TargetNetworks(t, None) \in SUBSET Nets
           /\ \A x \in Nets : x \in TargetNetworks(t, None) <=> Touches(t, x)
           /\ t.kind # "broadcast" => \A p : TargetNetworks(t, p) = TargetNetworks(t, None)
           /\ \A p : p # None /\ t.kind = "broadcast" => TargetNetworks(t, p) = p
<1>1. CASE t \in [kind : {"broadcast"}]
  BY <1>1 DEF TargetNetworks, Touches
<1>2. CASE t \in [kind : {"groups"}, value : SUBSET Int]
  <2>1. t.kind = "groups"
    BY <1>2
  <2>2. \A p : TargetNetworks(t, p) = {GroupNetwork(g) : g \in t.value} \ {None}
    BY <2>1 DEF TargetNetworks
  <2>3. TargetNetworks(t, None) \in SUBSET Nets
    BY <2>2, GroupNetworkFacts
  <2>4. ASSUME NEW x \in Nets, x \in TargetNetworks(t, None) PROVE Touches(t, x)
    <3>1. PICK g \in t.value : x = GroupNetwork(g) /\ GroupNetwork(g) # None
      BY <2>2, <2>4
    <3>2. g # 0 /\ \E n \in Nodes : GroupOf[n] = g /\ NetworkOf[n] = x
      BY <3>1, GroupNetworkFacts
    <3> QED
      BY <2>1, <3>2 DEF Touches
  <2>5. ASSUME NEW x \in Nets, Touches(t, x) PROVE x \in TargetNetworks(t, None)
    <3>1. PICK n \in Nodes : NetworkOf[n] = x /\ GroupOf[n] \in t.value \ {0}
      BY <2>1, <2>5 DEF Touches
    <3>2. GroupNetwork(GroupOf[n]) = x /\ x # None
      BY <3>1, GroupNetworkFacts
    <3> QED
      BY <2>2, <3>1, <3>2
  <2> QED
    BY <2>1, <2>2, <2>3, <2>4, <2>5
<1>3. CASE t \in [kind : {"device"}, value : Nodes \cup {Ghost}]
  <2>1. t.kind = "device"
    BY <1>3
  <2>2. \A p : TargetNetworks(t, p) = IF t.value \in Nodes THEN {NetworkOf[t.value]} ELSE {}
    BY <2>1 DEF TargetNetworks
  <2>3. \A n \in Nodes : NetworkOf[n] \in Nets
    BY IdFacts
  <2> QED
    BY <2>1, <2>2, <2>3 DEF Touches
<1> QED
  BY <1>1, <1>2, <1>3 DEF Targets

\* The networks of an action are those its own target or a target of one of its
\* children touches; a child for everybody is for the container's networks.
LEMMA ActionNets ==
    ASSUME NEW a \in Actions
    PROVE  /\ ActionNetworks(a) \in SUBSET Nets
           /\ \A x \in Nets : x \in ActionNetworks(a) <=>
                /\ a.kind \in {"effect", "offset_group"}
                /\ \/ Touches(a.target, x)
                   \/ a.kind = "offset_group" /\ \E j \in DOMAIN a.actions :
                        a.actions[j].target.kind # "broadcast" /\ Touches(a.actions[j].target, x)
<1>1. CASE a.kind = "effect"
  <2>1. a.target \in Targets
    BY <1>1 DEF Actions, Effects
  <2>2. ActionNetworks(a) = TargetNetworks(a.target, None)
    BY <1>1 DEF ActionNetworks
  <2> QED
    BY <1>1, <2>1, <2>2, TargetNets
<1>2. CASE a.kind = "offset_group"
  <2>1. a.target \in Targets /\ a.actions \in Seq(Effects)
    BY <1>2 DEF Actions, Effects
  <2> DEFINE own == TargetNetworks(a.target, None)
             of(i) == TargetNetworks(a.actions[i].target, own)
  <2>2. ActionNetworks(a) = own \cup UNION {of(i) : i \in DOMAIN a.actions}
    BY <1>2 DEF ActionNetworks
  <2>3. own \in SUBSET Nets /\ \A x \in Nets : x \in own <=> Touches(a.target, x)
    BY <2>1, TargetNets
  <2>4. own # None
    BY <2>3, FleetAssumption
  <2>5. \A i \in DOMAIN a.actions : a.actions[i].target \in Targets
    <3>1. \A i \in DOMAIN a.actions : a.actions[i] \in Effects
      BY <2>1, LenProperties, ElementOfSeq
    <3> QED
      BY <3>1 DEF Effects
  <2> HIDE DEF own
  <2>6. ASSUME NEW i \in DOMAIN a.actions
        PROVE  /\ of(i) \in SUBSET Nets
               /\ \A x \in Nets : IF a.actions[i].target.kind = "broadcast" THEN of(i) = own
                                  ELSE x \in of(i) <=> Touches(a.actions[i].target, x)
    <3>1. a.actions[i].target \in Targets
      BY <2>5
    <3>2. CASE a.actions[i].target.kind = "broadcast"
      <4>1. of(i) = own
        BY <2>4, <3>1, <3>2, TargetNets
      <4> HIDE DEF of
      <4> QED
        BY <2>3, <3>2, <4>1
    <3>3. CASE a.actions[i].target.kind # "broadcast"
      <4>1. of(i) = TargetNetworks(a.actions[i].target, None)
        BY <3>1, <3>3, TargetNets
      <4> QED
        BY <3>1, <3>3, <4>1, TargetNets
    <3> QED
      BY <3>2, <3>3
  <2> HIDE DEF of
  <2>7. ActionNetworks(a) \in SUBSET Nets
    BY <2>2, <2>3, <2>6
  <2>8. ASSUME NEW x \in Nets
        PROVE  x \in ActionNetworks(a) <=>
                 \/ Touches(a.target, x)
                 \/ \E j \in DOMAIN a.actions : a.actions[j].target.kind # "broadcast" /\ Touches(a.actions[j].target, x)
    <3>1. x \in ActionNetworks(a) <=> x \in own \/ \E i \in DOMAIN a.actions : x \in of(i)
      BY <2>2
    <3>2. ASSUME NEW i \in DOMAIN a.actions, x \in of(i), x \notin own
          PROVE  a.actions[i].target.kind # "broadcast" /\ Touches(a.actions[i].target, x)
      BY <2>6, <3>2
    <3>3. ASSUME NEW i \in DOMAIN a.actions, a.actions[i].target.kind # "broadcast", Touches(a.actions[i].target, x)
          PROVE  x \in of(i)
      BY <2>6, <3>3
    <3> QED
      BY <2>3, <3>1, <3>2, <3>3
  <2> QED
    BY <1>2, <2>7, <2>8
<1>3. CASE a.kind \notin {"effect", "offset_group"}
  BY <1>3 DEF ActionNetworks
<1> QED
  BY <1>1, <1>2, <1>3

\* The networks of a scene are those it is for.
LEMMA SceneNets ==
    ASSUME NEW k \in DOMAIN Scenes
    PROVE  /\ SceneNetworks(Scenes[k]) \in SUBSET Nets /\ ScopeOf[k] = SceneNetworks(Scenes[k])
           /\ \A x \in Nets : x \in SceneNetworks(Scenes[k]) <=> InScene(Scenes[k], x)
<1> DEFINE s == Scenes[k]
<1>1. \A i \in DOMAIN s.actions : s.actions[i] \in Actions
  BY ScenesAssumption, LenProperties, ElementOfSeq
<1>2. ScopeOf[k] = SceneNetworks(s)
  BY DEF ScopeOf
<1> HIDE DEF s
<1>3. CASE s.scope = None
  <2>1. SceneNetworks(s) = UNION {ActionNetworks(s.actions[i]) : i \in DOMAIN s.actions}
    BY <1>3 DEF SceneNetworks
  <2>2. SceneNetworks(s) \in SUBSET Nets
    BY <1>1, <2>1, ActionNets
  <2>3. ASSUME NEW x \in Nets PROVE x \in SceneNetworks(s) <=> InScene(s, x)
    <3>1. x \in SceneNetworks(s) <=> \E i \in DOMAIN s.actions : x \in ActionNetworks(s.actions[i])
      BY <2>1
    <3> DEFINE In(i) == LET a == s.actions[i] IN
                        /\ a.kind \in {"effect", "offset_group"}
                        /\ \/ Touches(a.target, x)
                           \/ a.kind = "offset_group" /\ \E j \in DOMAIN a.actions :
                                a.actions[j].target.kind # "broadcast" /\ Touches(a.actions[j].target, x)
    <3>2. InScene(s, x) <=> \E i \in DOMAIN s.actions : In(i)
      BY <1>3 DEF InScene
    <3>3. \A i \in DOMAIN s.actions : x \in ActionNetworks(s.actions[i]) <=> In(i)
      BY <1>1, ActionNets
    <3> HIDE DEF In
    <3> QED
      BY <3>1, <3>2, <3>3
  <2> QED
    BY <1>2, <2>2, <2>3 DEF s
<1>4. CASE s.scope # None
  BY <1>2, <1>4 DEF SceneNetworks, InScene, s
<1> QED
  BY <1>3, <1>4

-----------------------------------------------------------------------------
(* Frames on the air                                                       *)

\* Attached gateways are networks.
LEMMA AttachedType ==
    ASSUME RunTypes
    PROVE  Attached \in SUBSET Nets /\ FirstUp \in SUBSET Attached
<1>1. up \in Seq(Nets) /\ Len(up) \in Nat /\ DOMAIN up = 1 .. Len(up) /\ \A i \in 1 .. Len(up) : up[i] \in Nets
  BY LenProperties, ElementOfSeq DEF RunTypes
<1>2. Attached = {up[i] : i \in 1 .. Len(up)}
  BY <1>1 DEF Attached, ToSet
<1>3. up # << >> => Len(up) # 0
  BY <1>1, EmptySeq
<1> QED
  BY <1>1, <1>2, <1>3 DEF FirstUp

\* A frame leaves by attached gateways, one for a node that a gateway reaches by that
\* gateway at least, and a broadcast in a scope by the gateways of the scope.
LEMMA RouteFacts ==
    ASSUME RunTypes, NEW op \in Frames
    PROVE  /\ Route(op) \in SUBSET Attached
           /\ \A n \in Nodes : Reaches(op, n) /\ op.to # Broadcast /\ NetworkOf[n] \in Attached => NetworkOf[n] \in Route(op)
           /\ op.to = Broadcast /\ scope # None => Route(op) = scope \cap Attached
           /\ op \notin SyncFrames /\ op.to = Broadcast /\ scope = None => Route(op) = FirstUp
<1>1. Attached \in SUBSET Nets /\ FirstUp \in SUBSET Attached
  BY AttachedType
<1>2. op.dev \in Nodes \cup {None} /\ (op.dev # None => op.to # Broadcast) /\ op.to \in Ids \cup {Broadcast}
  BY FrameKinds
<1>3. None \notin Nodes /\ \A n \in Nodes : GroupOf[n] # Broadcast
  BY IdFacts
<1>4. CASE op.dev # None
  <2>1. Route(op) = IF NetworkOf[op.dev] \in Attached THEN {NetworkOf[op.dev]}
                    ELSE IF Len(up) > 1 THEN {} ELSE FirstUp
    BY <1>4 DEF Route
  <2>2. \A n \in Nodes : Reaches(op, n) => n = op.dev
    BY <1>4 DEF Reaches
  <2> QED
    BY <1>1, <1>2, <1>4, <2>1, <2>2
<1>5. CASE op.dev = None /\ op.to # Broadcast
  <2>1. Route(op) = IF GroupNetwork(op.to) \in Attached THEN {GroupNetwork(op.to)} ELSE FirstUp
    BY <1>5 DEF Route
  <2>2. \A n \in Nodes : Reaches(op, n) => op.to = GroupOf[n] /\ op.to # 0
    BY <1>3, <1>5 DEF Reaches
  <2>3. \A n \in Nodes : Reaches(op, n) => GroupNetwork(op.to) = NetworkOf[n]
    BY <2>2, GroupNetworkFacts
  <2> QED
    BY <1>1, <1>5, <2>1, <2>3
<1>6. CASE op.dev = None /\ op.to = Broadcast /\ scope # None
  <2>1. Route(op) = scope \cap Attached
    BY <1>6 DEF Route
  <2> QED
    BY <1>6, <2>1
<1>7. CASE op.dev = None /\ op.to = Broadcast /\ scope = None
  <2>1. Route(op) = IF op.sender = "send_sync" THEN Attached ELSE FirstUp
    BY <1>7 DEF Route
  <2>2. op \in SyncFrames \/ op.sender # "send_sync"
    BY FrameKinds DEF Frames
  <2> QED
    BY <1>1, <1>7, <2>1, <2>2
<1> QED
  BY <1>2, <1>4, <1>5, <1>6, <1>7

\* The first frame is sent: what the others still have to say.
LEMMA HeadOfList ==
    ASSUME NEW X, NEW s \in Seq(X), s # << >>, NEW n
    PROVE  /\ Len(s) \in Nat \ {0} /\ Len(Tail(s)) = Len(s) - 1 /\ Head(s) = s[1]
           /\ \A i \in 1 .. Len(Tail(s)) : Tail(s)[i] = s[i + 1] /\ i + 1 \in 1 .. Len(s)
           /\ \A v : Sets(s, n, v) =>
                \/ Sets(Tail(s), n, v)
                \/ Hits(s[1], n) /\ Stored(n, s[1].offset) = v /\ Spares(Tail(s), n)
           /\ Spares(s, n) => ~Hits(s[1], n) /\ Spares(Tail(s), n)
<1> DEFINE q == Tail(s)
<1>1. Len(s) \in Nat \ {0} /\ Len(q) = Len(s) - 1 /\ Head(s) = s[1] /\ \A i \in 1 .. Len(q) : q[i] = s[i + 1]
  BY HeadTailProperties, EmptySeq
<1> HIDE DEF q
<1>2. \A i \in 1 .. Len(q) : q[i] = s[i + 1] /\ i + 1 \in 1 .. Len(s)
  BY <1>1
<1>3. ASSUME NEW v, Sets(s, n, v)
      PROVE  Sets(q, n, v) \/ (Hits(s[1], n) /\ Stored(n, s[1].offset) = v /\ Spares(q, n))
  <2>1. PICK i \in 1 .. Len(s) : LastHit(s, i, n) /\ Stored(n, s[i].offset) = v
    BY <1>3 DEF Sets
  <2>2. Hits(s[i], n) /\ \A j \in i + 1 .. Len(s) : ~Hits(s[j], n)
    BY <2>1 DEF LastHit
  <2>3. CASE i = 1
    <3>1. \A j \in 1 .. Len(q) : j + 1 \in i + 1 .. Len(s)
      BY <1>1, <2>3
    <3>2. Spares(q, n)
      BY <1>2, <2>2, <3>1 DEF Spares
    <3> QED
      BY <2>1, <2>2, <2>3, <3>2
  <2>4. CASE i # 1
    <3>1. i - 1 \in 1 .. Len(q) /\ (i - 1) + 1 = i
      BY <1>1, <2>4
    <3>2. q[i - 1] = s[i]
      BY <1>2, <3>1
    <3>3. \A j \in (i - 1) + 1 .. Len(q) : j \in 1 .. Len(q) /\ j + 1 \in i + 1 .. Len(s)
      BY <1>1, <3>1
    <3>4. LastHit(q, i - 1, n)
      BY <1>2, <2>2, <3>1, <3>2, <3>3 DEF LastHit
    <3> QED
      BY <2>1, <3>1, <3>2, <3>4 DEF Sets
  <2> QED
    BY <2>3, <2>4
<1>4. Spares(s, n) => ~Hits(s[1], n) /\ Spares(q, n)
  <2>1. 1 \in 1 .. Len(s)
    BY <1>1
  <2> QED
    BY <1>2, <2>1 DEF Spares
<1> QED
  BY <1>1, <1>2, <1>3, <1>4 DEF q

\* The frames of any action.
LEMMA PlanType ==
    ASSUME NEW a \in Actions, CanonicalAction(a)
    PROVE  PlanAction(a).ops \in Seq(Frames) /\ PlanAction(a).degraded \in BOOLEAN
<1>1. CASE a.kind = "effect"
  <2>1. a \in Effects /\ CanonicalTarget(a.target)
    BY <1>1 DEF Actions, CanonicalAction
  <2>2. PlanAction(a) = PlanEffect(a, None, FALSE)
    BY <1>1 DEF PlanAction
  <2>3. OffsetFlag(a, None) \in BOOLEAN
    BY <2>1, FlagType
  <2>4. PlanAction(a).degraded \in BOOLEAN /\ PlanAction(a).ops \in Seq(ControlFrames(OffsetFlag(a, None)))
    BY <2>1, <2>2, EffectPlan
  <2>5. ControlFrames(OffsetFlag(a, None)) \subseteq Frames
    BY <2>3, FrameKinds
  <2> QED
    BY <2>4, <2>5, SeqMonotonic
<1>2. CASE a.kind = "offset_group"
  <2> DEFINE setup == PlanOffsetSetup(a.target, a.offset)
             flag == a.offset.mode # "none"
  <2>1. setup \in Seq(OffsetFrames) /\ flag \in BOOLEAN /\ PlanAction(a).degraded \in BOOLEAN
    BY <1>2, ContainerPlan
  <2>2. PICK children \in Seq(ControlFrames(flag)) : PlanAction(a).ops = setup \o children
    BY <1>2, ContainerPlan
  <2> HIDE DEF setup, flag
  <2>3. OffsetFrames \subseteq Frames /\ ControlFrames(flag) \subseteq Frames
    BY <2>1, FrameKinds
  <2>4. setup \in Seq(Frames) /\ children \in Seq(Frames)
    BY <2>1, <2>3, SeqMonotonic
  <2> QED
    BY <2>1, <2>2, <2>4, ConcatProperties
<1>3. CASE a.kind = "sync"
  <2> DEFINE op == [sender |-> "send_sync", to |-> Broadcast, dev |-> None, bad |-> FALSE]
  <2>1. PlanAction(a) = [ops |-> <<op>>, degraded |-> FALSE]
    BY <1>3 DEF PlanAction, Plan
  <2>2. op \in Frames
    BY DEF Frames, SyncFrames
  <2> HIDE DEF op
  <2> QED
    BY <2>1, <2>2
<1>4. CASE a.kind = "delay"
  <2>1. PlanAction(a) = [ops |-> << >>, degraded |-> FALSE]
    BY <1>4 DEF PlanAction, Plan
  <2> QED
    BY <2>1, EmptySeq
<1>5. a.kind \in {"effect", "offset_group", "sync", "delay"}
  BY DEF Actions, Effects
<1> QED
  BY <1>1, <1>2, <1>3, <1>4, <1>5

-----------------------------------------------------------------------------
(* Runs                                                                    *)

\* The scopes of runs and containers are scopes.
LEMMA ScopeTypes ==
  /\ None \notin Scopes
  /\ \A nets \in SUBSET Nets : \A b \in BOOLEAN : Scope(nets, b) \in Scopes
  /\ \A x \in Scopes : x.scope \in ((SUBSET Nets) \ {{}}) \cup {None} /\ x.blocked \in BOOLEAN
<1>1. Scopes \subseteq Saved
  BY DEF Scopes, Saved
<1>2. None \notin Scopes
  BY <1>1, ScenesAssumption
<1>3. \A x \in Scopes : x.scope \in ((SUBSET Nets) \ {{}}) \cup {None} /\ x.blocked \in BOOLEAN
  BY DEF Scopes
<1>4. ASSUME NEW nets \in SUBSET Nets, NEW b \in BOOLEAN PROVE Scope(nets, b) \in Scopes
  <2>1. (IF nets = {} THEN None ELSE nets) \in ((SUBSET Nets) \ {{}}) \cup {None}
    <3>1. CASE nets = {}
      BY <3>1
    <3>2. CASE nets # {}
      <4>1. nets \in (SUBSET Nets) \ {{}}
        BY <3>2
      <4> QED
        BY <3>2, <4>1, Zenon
    <3> QED
      BY <3>1, <3>2
  <2>2. (b /\ nets = {}) \in BOOLEAN
    OBVIOUS
  <2> QED
    BY <2>1, <2>2 DEF Scope, Scopes
<1> QED
  BY <1>2, <1>3, <1>4

\* A run under way is a record of its own.
LEMMA RunRecord ==
    ASSUME RunTypes
    PROVE  /\ \A r \in Runs : IF r \in Active THEN run[r] \in RunRecords ELSE run[r] = Idle /\ run[r].pc = "idle"
           /\ Active \in SUBSET Runs
           /\ \A x \in RunRecords : x.pc # "idle"
BY DEF RunTypes, Active, RunRecords, Idle

\* Scenes have known shapes, and the actions of a valid scene are valid.
LEMMA SceneTypes ==
    ASSUME NEW k \in DOMAIN Scenes
    PROVE  /\ Scenes[k].stop \in BOOLEAN /\ Scenes[k].actions \in Seq(Actions)
           /\ Len(Scenes[k].actions) \in Nat
           /\ \A i \in 1 .. Len(Scenes[k].actions) :
                Scenes[k].actions[i] \in Actions /\ (CanonicalScene(Scenes[k]) => CanonicalAction(Scenes[k].actions[i]))
<1>1. Scenes[k].stop \in BOOLEAN /\ Scenes[k].actions \in Seq(Actions)
  BY ScenesAssumption
<1>2. /\ Len(Scenes[k].actions) \in Nat /\ DOMAIN Scenes[k].actions = 1 .. Len(Scenes[k].actions)
      /\ \A i \in 1 .. Len(Scenes[k].actions) : Scenes[k].actions[i] \in Actions
  BY <1>1, LenProperties, ElementOfSeq
<1> QED
  BY <1>1, <1>2 DEF CanonicalScene

\* What a step leaves of a run that does not take it.
SameAction(x) == run'[x].pc = run[x].pc /\ run'[x].key = run[x].key /\ run'[x].i = run[x].i /\ run'[x].before = run[x].before
SameRun(x) ==
  /\ SameAction(x) /\ run'[x].ops = run[x].ops /\ run'[x].took = run[x].took /\ run'[x].good = run[x].good
  /\ run'[x].res = run[x].res /\ run'[x].prev = run[x].prev /\ run'[x].outer = run[x].outer

\* A step leaves a run it does not touch in step.
LEMMA Bystander ==
    ASSUME NEW x, SameRun(x), InStep(x), ResultsSoFar(x)
    PROVE  InStep(x)' /\ ResultsSoFar(x)'
BY DEF SameRun, SameAction, InStep, ResultsSoFar, SceneOf, Action

\* An undisturbed run is the only one, and what it has done stands as long as
\* nothing but its mark changes.
LEMMA UndisturbedKept ==
    ASSUME NEW x, SameRun(x), Undisturbed(x), Active' = Active, UNCHANGED <<scope, blocked, up, off>>
    PROVE  Undisturbed(x)'
<1>1. SceneOf(x)' = SceneOf(x) /\ Action(x)' = Action(x) /\ Attached' = Attached
  BY DEF SameRun, SameAction, SceneOf, Action, Attached
<1>2. HoldsScope(x)'
  BY <1>1 DEF Undisturbed, HoldsScope, SameRun, Now, OwnScope, ContainerScope
<1>3. StillToHear(x)'
  BY <1>1 DEF Undisturbed, StillToHear, SameRun, SameAction
<1>4. StillToSet(x)'
  <2>1. \A a : Participants(x, a)' = Participants(x, a)
    BY <1>1 DEF Participants
  <2> QED
    BY <1>1, <2>1 DEF Undisturbed, StillToSet, SameRun, SameAction
<1> QED
  BY <1>2, <1>3, <1>4 DEF Undisturbed

\* The frame on the air tells the same as long as its action goes on.
AirInv ==
  /\ air # None => air.nets \subseteq air.up /\ run[air.by].pc = "send"
  /\ BroadcastInScope /\ ChildrenFindParticipants

\* What was said of the last frame stays said while its run goes on unmarked.
LEMMA AirKept ==
    ASSUME AirInv, air' = air,
           air # None => SameAction(air.by) /\ (run'[air.by].alone => run[air.by].alone /\ up' = up)
    PROVE  AirInv'
<1>1. CASE air = None
  BY <1>1 DEF AirInv, BroadcastInScope, ChildrenFindParticipants
<1>2. CASE air # None
  <2>1. /\ SceneOf(air.by)' = SceneOf(air.by) /\ Action(air.by)' = Action(air.by)
        /\ run'[air.by].pc = run[air.by].pc /\ run'[air.by].before = run[air.by].before
    BY <1>2 DEF SameAction, SceneOf, Action
  <2>2. air.nets \subseteq air.up /\ run'[air.by].pc = "send"
    BY <1>2, <2>1 DEF AirInv
  <2>3. BroadcastInScope'
    BY <1>2, <2>1 DEF AirInv, BroadcastInScope
  <2>4. ASSUME run'[air.by].alone PROVE \A a : Participants(air.by, a)' = Participants(air.by, a)
    BY <1>2, <2>1, <2>4 DEF Participants, Attached
  <2>5. ChildrenFindParticipants'
    BY <1>2, <2>1, <2>4 DEF AirInv, ChildrenFindParticipants
  <2> QED
    BY <2>2, <2>3, <2>5 DEF AirInv
<1> QED
  BY <1>1, <1>2

\* Nothing is claimed when no frame is out.
LEMMA NoAir == ASSUME air' = None PROVE AirInv'
BY DEF AirInv, BroadcastInScope, ChildrenFindParticipants

\* Runs that are disturbed lose their mark and nothing else.
LEMMA DisturbedType ==
    ASSUME NEW f \in [Runs -> RunRecords \cup {Idle}]
    PROVE  /\ Disturbed(f) \in [Runs -> RunRecords \cup {Idle}]
           /\ \A r \in Runs : IF f[r].pc = "idle" THEN Disturbed(f)[r] = f[r]
                              ELSE f[r] \in RunRecords /\ Disturbed(f)[r] = [f[r] EXCEPT !.alone = FALSE]
<1>1. \A r \in Runs : f[r].pc # "idle" => f[r] \in RunRecords
  BY DEF Idle
<1>2. \A x \in RunRecords : [x EXCEPT !.alone = FALSE] \in RunRecords
  BY DEF RunRecords
<1> QED
  BY <1>1, <1>2 DEF Disturbed

\* A disturbed run is the same run, without its claim.
LEMMA DisturbedRun ==
    ASSUME RunTypes, run' = Disturbed(run)
    PROVE  /\ run' \in [Runs -> RunRecords \cup {Idle}] /\ Active' = Active
           /\ \A r \in Active : SameRun(r) /\ run'[r].alone = FALSE
<1>1. /\ run \in [Runs -> RunRecords \cup {Idle}] /\ Active \in SUBSET Runs
      /\ \A r \in Active : run[r] \in RunRecords /\ run[r].pc # "idle"
  BY RunRecord DEF RunTypes, Active
<1>2. /\ run' \in [Runs -> RunRecords \cup {Idle}]
      /\ \A r \in Runs : IF run[r].pc = "idle" THEN run'[r] = run[r] ELSE run'[r] = [run[r] EXCEPT !.alone = FALSE]
  BY <1>1, DisturbedType
<1>3. \A r \in Active : SameRun(r) /\ run'[r].alone = FALSE
  BY <1>1, <1>2 DEF SameRun, SameAction, RunRecords
<1>4. Active' = Active
  BY <1>1, <1>2, <1>3 DEF Active, SameRun, SameAction
<1> QED
  BY <1>2, <1>3, <1>4

\* The parts of the invariant.
LEMMA Parts ==
  /\ IInv <=> /\ RunTypes /\ Unmixed /\ AirInv
              /\ \A r \in Active : InStep(r) /\ ResultsSoFar(r) /\ (run[r].alone => Undisturbed(r))
BY DEF IInv, AirInv

\* The frame on the air belongs to a run.
LEMMA AirType ==
    ASSUME IInv, air # None
    PROVE  air \in AirRecords /\ air.by \in Active
BY DEF IInv, RunTypes, AirRecords, Active

-----------------------------------------------------------------------------
(* Gateways come and go                                                    *)

\* When the gateways change, no run keeps its claim.
LEMMA GatewayChange ==
    ASSUME IInv, run' = Disturbed(run), UNCHANGED <<scope, blocked, off, air, mixed>>,
           up' \in Seq(Nets), \A i, j \in 1 .. Len(up') : up'[i] = up'[j] => i = j
    PROVE  IInv'
<1>1. RunTypes /\ Unmixed /\ AirInv /\ \A r \in Active : InStep(r) /\ ResultsSoFar(r)
  BY Parts
<1>2. /\ run' \in [Runs -> RunRecords \cup {Idle}] /\ Active' = Active
      /\ \A r \in Active : SameRun(r) /\ run'[r].alone = FALSE
  BY <1>1, DisturbedRun
<1>3. RunTypes'
  BY <1>1, <1>2 DEF RunTypes
<1>4. Unmixed'
  BY <1>1, <1>2 DEF Unmixed, SameRun
<1>5. AirInv'
  BY <1>1, <1>2, AirType, AirKept DEF SameRun
<1>6. \A r \in Active : InStep(r)' /\ ResultsSoFar(r)'
  BY <1>1, <1>2, Bystander
<1> QED
  BY <1>2, <1>3, <1>4, <1>5, <1>6 DEF IInv, AirInv

\* A gateway is attached.
LEMMA GatewayComesStep ==
    ASSUME IInv, NEW x \in Nets, GatewayComes(x)
    PROVE  IInv'
<1>1. up \in Seq(Nets) /\ Len(up) \in Nat /\ DOMAIN up = 1 .. Len(up)
      /\ \A i, j \in 1 .. Len(up) : up[i] = up[j] => i = j
  BY LenProperties DEF IInv, RunTypes
<1>2. \A i \in 1 .. Len(up) : up[i] # x
  BY <1>1 DEF GatewayComes, Attached, ToSet
<1>3. /\ up' \in Seq(Nets) /\ Len(up') = Len(up) + 1
      /\ (\A i \in 1 .. Len(up) : up'[i] = up[i]) /\ up'[Len(up) + 1] = x
  BY <1>1, AppendProperties DEF GatewayComes
<1>4. \A i, j \in 1 .. Len(up') : up'[i] = up'[j] => i = j
  BY <1>1, <1>2, <1>3
<1> QED
  BY <1>3, <1>4, GatewayChange DEF GatewayComes

\* A list of gateways without one of them still repeats none.
LEMMA WithoutOne ==
    ASSUME NEW s \in Seq(Nets), \A i, j \in 1 .. Len(s) : s[i] = s[j] => i = j, NEW k \in 1 .. Len(s)
    PROVE  /\ RemoveAt(s, k) \in Seq(Nets)
           /\ \A i, j \in 1 .. Len(RemoveAt(s, k)) : RemoveAt(s, k)[i] = RemoveAt(s, k)[j] => i = j
<1> DEFINE a == SubSeq(s, 1, k - 1)
           b == SubSeq(s, k + 1, Len(s))
           r == RemoveAt(s, k)
<1>1. Len(s) \in Nat /\ k \in Nat /\ 1 <= k /\ k <= Len(s) /\ \A j \in 1 .. Len(s) : s[j] \in Nets
  BY LenProperties, ElementOfSeq
<1>2. a \in Seq(Nets) /\ Len(a) = k - 1 /\ \A j \in 1 .. k - 1 : a[j] = s[j]
  BY <1>1, SubSeqProperties
<1>3. b \in Seq(Nets) /\ Len(b) = Len(s) - k /\ \A j \in 1 .. Len(s) - k : b[j] = s[k + j]
  <2>1. k + 1 \in Int /\ Len(s) \in Int /\ \A j \in k + 1 .. Len(s) : s[j] \in Nets
    BY <1>1
  <2>2. /\ b \in Seq(Nets)
        /\ Len(b) = IF k + 1 <= Len(s) THEN Len(s) - (k + 1) + 1 ELSE 0
        /\ \A j \in 1 .. Len(s) - (k + 1) + 1 : b[j] = s[(k + 1) + j - 1]
    BY <2>1, SubSeqProperties
  <2> HIDE DEF b
  <2>3. ASSUME NEW j \in 1 .. Len(s) - k PROVE b[j] = s[k + j]
    <3>1. j \in 1 .. Len(s) - (k + 1) + 1 /\ (k + 1) + j - 1 = k + j
      BY <1>1
    <3> QED
      BY <2>2, <3>1
  <2> QED
    BY <1>1, <2>2, <2>3
<1>4. r = a \o b
  BY DEF RemoveAt
<1> HIDE DEF a, b, r
<1>5. /\ r \in Seq(Nets) /\ Len(r) = Len(s) - 1
      /\ \A j \in 1 .. Len(s) - 1 : r[j] = IF j <= k - 1 THEN a[j] ELSE b[j - (k - 1)]
  <2>1. /\ a \o b \in Seq(Nets) /\ Len(a \o b) = Len(a) + Len(b)
        /\ \A j \in 1 .. Len(a) + Len(b) : (a \o b)[j] = IF j <= Len(a) THEN a[j] ELSE b[j - Len(a)]
    <3>1. a \in Seq(Nets) /\ b \in Seq(Nets)
      BY <1>2, <1>3
    <3> QED
      BY <3>1, ConcatProperties
  <2>2. Len(a) + Len(b) = Len(s) - 1
    BY <1>1, <1>2, <1>3
  <2> QED
    BY <1>2, <1>4, <2>1, <2>2
<1> DEFINE at(j) == IF j <= k - 1 THEN j ELSE j + 1
<1>6. \A j \in 1 .. Len(s) - 1 : at(j) \in 1 .. Len(s) /\ r[j] = s[at(j)]
  <2> SUFFICES ASSUME NEW j \in 1 .. Len(s) - 1 PROVE at(j) \in 1 .. Len(s) /\ r[j] = s[at(j)]
    OBVIOUS
  <2>1. CASE j <= k - 1
    BY <1>1, <1>2, <1>5, <2>1
  <2>2. CASE ~(j <= k - 1)
    <3>1. j - (k - 1) \in 1 .. Len(s) - k /\ k + (j - (k - 1)) = j + 1 /\ at(j) = j + 1
      BY <1>1, <2>2
    <3>2. b[j - (k - 1)] = s[k + (j - (k - 1))]
      BY <1>3, <3>1
    <3> QED
      BY <1>1, <1>5, <2>2, <3>1, <3>2
  <2> QED
    BY <2>1, <2>2
<1>7. \A i, j \in 1 .. Len(s) - 1 : at(i) = at(j) => i = j
  BY <1>1
<1> HIDE DEF at
<1>8. \A i, j \in 1 .. Len(r) : r[i] = r[j] => i = j
  BY <1>5, <1>6, <1>7
<1> QED
  BY <1>5, <1>8 DEF r

\* A gateway is lost.
LEMMA GatewayGoesStep ==
    ASSUME IInv, NEW x \in Nets, GatewayGoes(x)
    PROVE  IInv'
<1>1. up \in Seq(Nets) /\ DOMAIN up = 1 .. Len(up) /\ \A i, j \in 1 .. Len(up) : up[i] = up[j] => i = j
  BY LenProperties DEF IInv, RunTypes
<1>2. PICK k \in 1 .. Len(up) : up' = RemoveAt(up, k)
  BY <1>1 DEF GatewayGoes
<1>3. up' \in Seq(Nets) /\ \A i, j \in 1 .. Len(up') : up'[i] = up'[j] => i = j
  BY <1>1, <1>2, WithoutOne
<1> QED
  BY <1>3, GatewayChange DEF GatewayGoes

-----------------------------------------------------------------------------
(* The start and the end of a run                                          *)

\* A run begins.
LEMMA BeginStep ==
    ASSUME IInv, NEW r \in Runs, NEW k \in DOMAIN Scenes, Begin(r, k)
    PROVE  IInv'
<1> DEFINE nets == ScopeOf[k]
           rec == [pc |-> "plan", key |-> k, i |-> 1, ops |-> <<>>, took |-> {}, good |-> "ok", res |-> <<>>,
                   prev |-> [scope |-> scope, blocked |-> blocked], outer |-> None,
                   alone |-> TRUE, before |-> off]
           new == [run EXCEPT ![r] = rec]
<1>1. RunTypes /\ Unmixed /\ AirInv
      /\ \A x \in Active : InStep(x) /\ ResultsSoFar(x) /\ (run[x].alone => Undisturbed(x))
  BY Parts
<1>2. /\ run[r].pc = "idle" /\ CanonicalScene(Scenes[k])
      /\ scope' = (IF nets = {} THEN None ELSE nets) /\ blocked' = (Scenes[k].scope # None /\ nets = {})
      /\ run' = (IF Active = {} THEN new ELSE Disturbed(new))
      /\ mixed' = (mixed \/ Active # {}) /\ UNCHANGED <<up, off, air, events>>
  BY DEF Begin
<1>3. nets \in SUBSET Nets /\ nets = SceneNetworks(Scenes[k])
  BY SceneNets
<1>4. rec \in RunRecords /\ rec.pc # "idle"
  <2>1. [scope |-> scope, blocked |-> blocked] \in Scopes /\ off \in OffsetsOfNodes
    BY <1>1 DEF RunTypes, Scopes
  <2>2. << >> \in Seq(Frames) /\ << >> \in Seq(Outcomes \cup {"skipped"})
    BY EmptySeq
  <2> QED
    BY <2>1, <2>2 DEF RunRecords, Outcomes
<1>5. /\ run \in [Runs -> RunRecords \cup {Idle}] /\ new \in [Runs -> RunRecords \cup {Idle}]
      /\ new[r] = rec /\ \A x \in Runs : x # r => new[x] = run[x]
  BY <1>1, <1>4 DEF RunTypes
<1> HIDE DEF new
<1>6. /\ run' \in [Runs -> RunRecords \cup {Idle}]
      /\ (IF Active = {} THEN run'[r] = rec ELSE run'[r] = [rec EXCEPT !.alone = FALSE])
      /\ \A x \in Active : x \in Runs /\ SameRun(x) /\ run'[x].alone = FALSE
      /\ \A x \in Runs : x \notin Active /\ x # r => run'[x].pc = "idle"
  <2>1. /\ \A x \in Active : x \in Runs /\ x # r /\ run[x].pc # "idle" /\ run[x] \in RunRecords
        /\ \A x \in Runs : x \notin Active => run[x].pc = "idle"
    BY <1>1, <1>2, RunRecord DEF Active
  <2>2. CASE Active = {}
    <3>1. run' = new
      BY <1>2, <2>2
    <3> QED
      BY <1>5, <2>1, <2>2, <3>1
  <2>3. CASE Active # {}
    <3>1. run' = Disturbed(new)
      BY <1>2, <2>3
    <3>2. /\ run' \in [Runs -> RunRecords \cup {Idle}]
          /\ \A x \in Runs : IF new[x].pc = "idle" THEN run'[x] = new[x]
                             ELSE new[x] \in RunRecords /\ run'[x] = [new[x] EXCEPT !.alone = FALSE]
      BY <1>5, <3>1, DisturbedType
    <3>3. (IF Active = {} THEN run'[r] = rec ELSE run'[r] = [rec EXCEPT !.alone = FALSE])
      BY <1>4, <1>5, <2>3, <3>2
    <3>4. ASSUME NEW x \in Active PROVE SameRun(x) /\ run'[x].alone = FALSE
      <4>1. run'[x] = [run[x] EXCEPT !.alone = FALSE] /\ run[x] \in RunRecords
        BY <1>5, <2>1, <3>2
      <4> QED
        BY <4>1 DEF SameRun, SameAction, RunRecords
    <3>5. \A x \in Runs : x \notin Active /\ x # r => run'[x].pc = "idle"
      BY <1>5, <2>1, <3>2
    <3> QED
      BY <2>1, <3>2, <3>3, <3>4, <3>5
  <2> QED
    BY <2>2, <2>3
<1>7. /\ run'[r].pc = "plan" /\ run'[r].key = k /\ run'[r].i = 1 /\ run'[r].ops = << >> /\ run'[r].good = "ok"
      /\ run'[r].res = << >> /\ run'[r].prev = [scope |-> scope, blocked |-> blocked] /\ run'[r].outer = None
      /\ run'[r].alone => Active = {}
  BY <1>6
<1> HIDE DEF nets, rec
<1>8. Active' = Active \cup {r} /\ r \notin Active
  BY <1>2, <1>6, <1>7 DEF Active, SameRun, SameAction
<1>9. RunTypes'
  <2>1. scope' \in ((SUBSET Nets) \ {{}}) \cup {None} /\ blocked' \in BOOLEAN /\ mixed' \in BOOLEAN
    BY <1>1, <1>2, <1>3 DEF RunTypes
  <2> QED
    BY <1>1, <1>2, <1>6, <2>1 DEF RunTypes
<1>10. Unmixed'
  <2> SUFFICES ASSUME mixed' = FALSE PROVE Active' = {r} /\ run'[r].prev = [scope |-> None, blocked |-> FALSE]
    BY <1>1, <1>2, <1>8 DEF Unmixed, RunTypes
  <2>1. mixed = FALSE /\ Active = {}
    BY <1>1, <1>2 DEF RunTypes
  <2> QED
    BY <1>1, <1>7, <1>8, <2>1 DEF Unmixed
<1>11. AirInv'
  BY <1>1, <1>2, <1>6, AirType, AirKept DEF SameRun
<1>12. SceneOf(r)' = Scenes[k]
  BY <1>7 DEF SceneOf
<1>13. InStep(r)'
  <2>1. Len(Scenes[k].actions) \in Nat /\ Len(<< >>) = 0
    BY SceneTypes
  <2>2. 1 \in 1 .. Len(Scenes[k].actions) + 1
    BY <2>1
  <2> QED
    BY <1>2, <1>7, <1>12, <2>1, <2>2 DEF InStep
<1>14. ResultsSoFar(r)'
  <2>1. \A j \in 1 .. Len(<< >>) : FALSE
    OBVIOUS
  <2> QED
    BY <1>7, <2>1 DEF ResultsSoFar
<1>15. run'[r].alone => Undisturbed(r)'
  <2> SUFFICES ASSUME Active = {} PROVE Undisturbed(r)'
    BY <1>7
  <2>1. HoldsScope(r)'
    <3>1. Now' = Scope(nets, Scenes[k].scope # None)
      BY <1>2, <1>3 DEF Now, Scope, nets
    <3>2. OwnScope(r)' = Scope(nets, Scenes[k].scope # None)
      BY <1>3, <1>12 DEF OwnScope
    <3> QED
      BY <1>7, <3>1, <3>2 DEF HoldsScope
  <2>2. StillToHear(r)' /\ StillToSet(r)'
    BY <1>7 DEF StillToHear, StillToSet
  <2> QED
    BY <1>8, <2>1, <2>2 DEF Undisturbed
<1>16. \A x \in Active : InStep(x)' /\ ResultsSoFar(x)' /\ ~run'[x].alone
  BY <1>1, <1>6, Bystander
<1>17. \A x \in Active' : InStep(x)' /\ ResultsSoFar(x)' /\ (run'[x].alone => Undisturbed(x)')
  BY <1>8, <1>13, <1>14, <1>15, <1>16
<1> QED
  BY <1>9, <1>10, <1>11, <1>17 DEF IInv, AirInv

\* A run ends and puts the scope back.
LEMMA FinishStep ==
    ASSUME IInv, NEW r \in Runs, Finish(r)
    PROVE  IInv'
<1>1. RunTypes /\ Unmixed /\ AirInv
      /\ \A x \in Active : InStep(x) /\ ResultsSoFar(x) /\ (run[x].alone => Undisturbed(x))
  BY Parts
<1>2. /\ run[r].pc = "plan" /\ scope' = run[r].prev.scope /\ blocked' = run[r].prev.blocked
      /\ run' = [run EXCEPT ![r] = Idle] /\ UNCHANGED <<up, off, air, counters, mixed>>
  BY DEF Finish
<1>3. r \in Active /\ run[r] \in RunRecords
  BY <1>1, <1>2, RunRecord DEF Active
<1>4. /\ run' \in [Runs -> RunRecords \cup {Idle}] /\ run'[r] = Idle
      /\ \A x \in Runs : x # r => run'[x] = run[x] /\ SameRun(x) /\ run'[x].alone = run[x].alone
  BY <1>1, <1>2 DEF RunTypes, SameRun, SameAction
<1>5. Active' = Active \ {r} /\ \A x \in Active : x \in Runs
  BY <1>4 DEF Active, Idle
<1>6. RunTypes'
  <2>1. run[r].prev \in Scopes
    BY <1>3 DEF RunRecords
  <2>2. scope' \in ((SUBSET Nets) \ {{}}) \cup {None} /\ blocked' \in BOOLEAN
    BY <1>2, <2>1, ScopeTypes
  <2> QED
    BY <1>1, <1>2, <1>4, <2>2 DEF RunTypes
<1>7. Unmixed'
  <2> SUFFICES ASSUME ~mixed PROVE Active' = {} /\ scope' = None /\ blocked' = FALSE
    BY <1>2 DEF Unmixed
  <2>1. Active = {r} /\ run[r].prev = [scope |-> None, blocked |-> FALSE]
    BY <1>1, <1>3 DEF Unmixed
  <2> QED
    BY <1>2, <1>5, <2>1
<1>8. AirInv'
  <2>1. air # None => air.by # r /\ air.by \in Runs
    BY <1>1, <1>2, AirType DEF AirInv, Active
  <2> QED
    BY <1>1, <1>2, <1>4, <2>1, AirKept DEF SameRun
<1>9. ASSUME NEW x \in Active' PROVE InStep(x)' /\ ResultsSoFar(x)' /\ ~run'[x].alone
  <2>1. x \in Active /\ x # r /\ x \in Runs
    BY <1>5
  <2>2. ~run[x].alone
    BY <1>1, <1>3, <2>1 DEF Undisturbed
  <2> QED
    BY <1>1, <1>4, <2>1, <2>2, Bystander
<1> QED
  BY <1>6, <1>7, <1>8, <1>9 DEF IInv, AirInv

-----------------------------------------------------------------------------
(* An action is planned                                                    *)

\* The frames of a container when nothing of it is sent yet.
LEMMA ContainerStart ==
    ASSUME NEW a \in Actions, CanonicalAction(a), a.kind = "offset_group"
    PROVE  LET ops == PlanAction(a).ops IN
           /\ ops \in Seq(Frames)
           /\ \A i \in 1 .. Len(ops) : ops[i] \in OffsetFrames \cup ControlFrames(a.offset.mode # "none")
           /\ \A i, j \in 1 .. Len(ops) : i < j /\ ops[j] \in OffsetFrames => ops[i] \in OffsetFrames
           /\ Narrowed(a) =>
                /\ \A n \in Nodes : IF GroupOf[n] \in a.target.value THEN Sets(ops, n, Wanted(a.offset, n))
                                    ELSE Spares(ops, n) \/ Sets(ops, n, Normal)
                /\ \A i \in 1 .. Len(ops) :
                     ops[i] \in OffsetFrames /\ ops[i].to = Broadcast => ops[i].offset.mode # "none"
           /\ ~Narrowed(a) /\ KnownGroups # {0} =>
                /\ \A n \in Nodes : Sets(ops, n, Wanted(a.offset, n))
                /\ \A i \in 1 .. Len(ops) : ops[i] \in OffsetFrames => ops[i].to # 0
<1> DEFINE ops == PlanAction(a).ops
           s == PlanOffsetSetup(a.target, a.offset)
           flag == a.offset.mode # "none"
           t == a.target
           o == a.offset
<1>1. s \in Seq(OffsetFrames) /\ flag \in BOOLEAN
  BY ContainerPlan
<1>2. PICK c \in Seq(ControlFrames(flag)) : ops = s \o c
  BY ContainerPlan
<1>3. t \in Targets /\ o \in Offsets /\ CanonicalTarget(t) /\ t.kind # "device" /\ CanonicalOffset(o, t)
  BY DEF Actions, Effects, CanonicalAction
<1>4. t.kind \in {"broadcast", "groups"} /\ (Narrowed(a) <=> t.kind = "groups")
  BY <1>3, GroupsOfType DEF Narrowed
<1> HIDE DEF ops, s, flag
<1>5. OffsetFrames \subseteq Frames /\ ControlFrames(flag) \subseteq Frames
  BY <1>1, FrameKinds
<1>6. s \in Seq(Frames) /\ c \in Seq(Frames)
  BY <1>1, <1>2, <1>5, SeqMonotonic
<1>7. /\ ops \in Seq(Frames) /\ Len(ops) = Len(s) + Len(c) /\ Len(s) \in Nat /\ Len(c) \in Nat
      /\ \A i \in 1 .. Len(s) + Len(c) : ops[i] = IF i <= Len(s) THEN s[i] ELSE c[i - Len(s)]
  BY <1>2, <1>6, ConcatProperties, LenProperties
<1>8. /\ \A i \in 1 .. Len(s) : s[i] \in OffsetFrames
      /\ \A i \in 1 .. Len(c) : c[i] \in ControlFrames(flag)
  BY <1>1, <1>2, ElementOfSeq
<1>9. \A op \in ControlFrames(flag) : op \notin OffsetFrames /\ op.sender # "send_offset"
  BY <1>1, FrameKinds
<1>10. \A i \in 1 .. Len(ops) : IF i <= Len(s) THEN i \in 1 .. Len(s) /\ ops[i] = s[i] /\ ops[i] \in OffsetFrames
                                ELSE ops[i] \in ControlFrames(flag) /\ ops[i] \notin OffsetFrames
  <2> SUFFICES ASSUME NEW i \in 1 .. Len(ops)
               PROVE IF i <= Len(s) THEN i \in 1 .. Len(s) /\ ops[i] = s[i] /\ ops[i] \in OffsetFrames
                     ELSE ops[i] \in ControlFrames(flag) /\ ops[i] \notin OffsetFrames
    OBVIOUS
  <2>1. CASE i <= Len(s)
    BY <1>7, <1>8, <2>1
  <2>2. CASE ~(i <= Len(s))
    <3>1. i - Len(s) \in 1 .. Len(c) /\ ops[i] = c[i - Len(s)]
      BY <1>7, <2>2
    <3> QED
      BY <1>8, <1>9, <2>2, <3>1
  <2> QED
    BY <2>1, <2>2
<1>11. \A n : Spares(c, n)
  BY <1>8, <1>9 DEF Spares, Hits
<1>12. /\ \A n, v : Sets(s, n, v) => Sets(ops, n, v)
       /\ \A n : Spares(s, n) => Spares(ops, n)
  BY <1>2, <1>6, <1>11, JoinedLists
<1>13. \A i \in 1 .. Len(ops) : ops[i] \in OffsetFrames \cup ControlFrames(flag)
  BY <1>10
<1>14. \A i, j \in 1 .. Len(ops) : i < j /\ ops[j] \in OffsetFrames => ops[i] \in OffsetFrames
  <2> SUFFICES ASSUME NEW i \in 1 .. Len(ops), NEW j \in 1 .. Len(ops), i < j, ops[j] \in OffsetFrames
               PROVE ops[i] \in OffsetFrames
    OBVIOUS
  <2>1. j <= Len(s)
    BY <1>10
  <2>2. i <= Len(s)
    BY <1>7, <2>1
  <2> QED
    BY <1>10, <2>2
<1>15. CASE t.kind = "groups"
  <2>1. /\ ClearsGroups(s)
        /\ \A n \in Nodes : IF GroupOf[n] \in t.value THEN Sets(s, n, Wanted(o, n)) ELSE Spares(s, n) \/ Sets(s, n, Normal)
    BY <1>3, <1>15, SetupOfGroups DEF s
  <2>2. \A n \in Nodes : IF GroupOf[n] \in t.value THEN Sets(ops, n, Wanted(o, n)) ELSE Spares(ops, n) \/ Sets(ops, n, Normal)
    BY <1>12, <2>1
  <2>3. \A i \in 1 .. Len(ops) : ops[i] \in OffsetFrames /\ ops[i].to = Broadcast => ops[i].offset.mode # "none"
    BY <1>10, <2>1 DEF ClearsGroups
  <2> HIDE DEF t, o
  <2> QED
    BY <1>4, <1>7, <1>13, <1>14, <1>15, <2>2, <2>3 DEF ops, flag, t, o
<1>16. CASE t.kind = "broadcast"
  <2>1. KnownGroups # {0} => (\A n \in Nodes : Sets(s, n, Wanted(o, n))) /\ \A i \in 1 .. Len(s) : s[i].to # 0
    BY <1>3, <1>16, SetupOfAll DEF s
  <2>2. KnownGroups # {0} => /\ \A n \in Nodes : Sets(ops, n, Wanted(o, n))
                             /\ \A i \in 1 .. Len(ops) : ops[i] \in OffsetFrames => ops[i].to # 0
    BY <1>10, <1>12, <2>1
  <2> HIDE DEF t, o
  <2> QED
    BY <1>4, <1>7, <1>13, <1>14, <1>16, <2>2 DEF ops, flag, t, o
<1> QED
  BY <1>4, <1>15, <1>16

\* An action is planned.
LEMMA PlansStep ==
    ASSUME IInv, NEW r \in Runs, Plans(r)
    PROVE  IInv'
<1> DEFINE a == Action(r)
           plan == PlanAction(a)
           nets == TargetNetworks(a.target, None)
           outer == IF Narrowed(a) THEN Now ELSE None
           good == IF plan.degraded THEN "degraded"
                   ELSE IF a.kind = "offset_group" /\ plan.ops = <<>> THEN "error" ELSE "ok"
           ops == IF plan.degraded THEN <<>> ELSE plan.ops
<1>1. RunTypes /\ Unmixed /\ AirInv
      /\ \A x \in Active : InStep(x) /\ ResultsSoFar(x) /\ (run[x].alone => Undisturbed(x))
  BY Parts
<1>2. run[r].pc = "plan" /\ run[r].i <= Len(SceneOf(r).actions)
  BY DEF Plans
<1>3. r \in Active /\ run[r] \in RunRecords /\ run[r].key \in DOMAIN Scenes
  BY <1>1, <1>2, RunRecord DEF Active, RunRecords
<1>4. /\ run[r].i \in 1 .. Len(SceneOf(r).actions) /\ DOMAIN SceneOf(r).actions = 1 .. Len(SceneOf(r).actions)
      /\ a \in Actions /\ CanonicalAction(a)
  <2>1. run[r].i \in 1 .. Len(SceneOf(r).actions) + 1 /\ CanonicalScene(SceneOf(r))
    BY <1>1, <1>3 DEF InStep
  <2>2. /\ Len(SceneOf(r).actions) \in Nat /\ SceneOf(r).actions \in Seq(Actions)
        /\ \A i \in 1 .. Len(SceneOf(r).actions) :
             SceneOf(r).actions[i] \in Actions /\ (CanonicalScene(SceneOf(r)) => CanonicalAction(SceneOf(r).actions[i]))
    BY <1>3, SceneTypes DEF SceneOf
  <2>3. run[r].i \in 1 .. Len(SceneOf(r).actions)
    BY <1>2, <2>1, <2>2
  <2>4. DOMAIN SceneOf(r).actions = 1 .. Len(SceneOf(r).actions)
    BY <2>2, LenProperties
  <2> QED
    BY <2>1, <2>2, <2>3, <2>4 DEF Action
<1>5. PlanOf[run[r].key][run[r].i] = plan
  BY <1>3, <1>4 DEF PlanOf, SceneOf, Action
<1>6. plan.ops \in Seq(Frames) /\ plan.degraded \in BOOLEAN
  BY <1>4, PlanType
<1>7. nets \in SUBSET Nets \/ ~Narrowed(a)
  <2>1. Narrowed(a) => a.target \in Targets
    BY <1>4 DEF Narrowed, Actions, Effects
  <2> QED
    BY <2>1, TargetNets
<1>8. /\ run' = [run EXCEPT ![r] = [@ EXCEPT !.pc = "send", !.ops = ops, !.took = {}, !.good = good,
                                             !.outer = outer, !.before = off]]
      /\ IF Narrowed(a) THEN scope' = (IF nets = {} THEN None ELSE nets) /\ blocked' = FALSE
         ELSE UNCHANGED <<scope, blocked>>
      /\ air' = None /\ UNCHANGED <<up, off, counters, mixed>>
  BY <1>5 DEF Plans, Now
<1>9. ops \in Seq(Frames) /\ good \in Outcomes /\ (good = "degraded" => ops = << >>)
  BY <1>6, EmptySeq DEF Outcomes
<1>10. Now \in Scopes /\ outer \in Scopes \cup {None} /\ off \in OffsetsOfNodes
       /\ (IF Narrowed(a) THEN outer # None ELSE outer = None)
  BY <1>1, ScopeTypes DEF RunTypes, Now, Scopes
<1> HIDE DEF a, plan, nets, outer, good, ops
<1>11. /\ run' \in [Runs -> RunRecords \cup {Idle}]
       /\ run'[r].pc = "send" /\ run'[r].ops = ops /\ run'[r].took = {} /\ run'[r].good = good
       /\ run'[r].outer = outer /\ run'[r].before = off
       /\ run'[r].key = run[r].key /\ run'[r].i = run[r].i /\ run'[r].res = run[r].res
       /\ run'[r].prev = run[r].prev /\ run'[r].alone = run[r].alone
       /\ \A x \in Runs : x # r => run'[x] = run[x] /\ SameRun(x) /\ run'[x].alone = run[x].alone
  <2> DEFINE rec == [run[r] EXCEPT !.pc = "send", !.ops = ops, !.took = {}, !.good = good,
                                   !.outer = outer, !.before = off]
  <2>1. rec \in RunRecords
    BY <1>3, <1>9, <1>10 DEF RunRecords
  <2>2. /\ rec.pc = "send" /\ rec.ops = ops /\ rec.took = {} /\ rec.good = good /\ rec.outer = outer /\ rec.before = off
        /\ rec.key = run[r].key /\ rec.i = run[r].i /\ rec.res = run[r].res
        /\ rec.prev = run[r].prev /\ rec.alone = run[r].alone
    BY <1>3 DEF RunRecords
  <2>3. run' = [run EXCEPT ![r] = rec] /\ run \in [Runs -> RunRecords \cup {Idle}]
    BY <1>1, <1>8 DEF RunTypes
  <2> HIDE DEF rec
  <2>4. /\ run' \in [Runs -> RunRecords \cup {Idle}] /\ run'[r] = rec
        /\ \A x \in Runs : x # r => run'[x] = run[x]
    BY <2>1, <2>3
  <2> QED
    BY <2>2, <2>4 DEF SameRun, SameAction
<1>12. Active' = Active /\ Active \in SUBSET Runs
  BY <1>3, <1>11 DEF Active
<1>13. RunTypes'
  <2>1. scope' \in ((SUBSET Nets) \ {{}}) \cup {None} /\ blocked' \in BOOLEAN
    BY <1>1, <1>7, <1>8 DEF RunTypes
  <2> QED
    BY <1>1, <1>8, <1>11, <2>1 DEF RunTypes
<1>14. Unmixed'
  <2>1. \A x \in Active : run'[x].prev = run[x].prev
    BY <1>11, <1>12
  <2> QED
    BY <1>1, <1>3, <1>8, <1>12, <2>1 DEF Unmixed
<1>15. SceneOf(r)' = SceneOf(r) /\ Action(r)' = a
  BY <1>11 DEF SceneOf, Action, a
<1>16. InStep(r)'
  BY <1>1, <1>3, <1>4, <1>9, <1>10, <1>11, <1>15 DEF InStep
<1>17. ResultsSoFar(r)'
  BY <1>1, <1>3, <1>11, <1>15 DEF ResultsSoFar
<1>18. ASSUME run'[r].alone PROVE Undisturbed(r)'
  <2>1. Active = {r} /\ HoldsScope(r) /\ run[r].outer = None
    BY <1>1, <1>2, <1>3, <1>11, <1>18 DEF Undisturbed, InStep
  <2>2. HoldsScope(r)'
    <3>1. Now = OwnScope(r) /\ OwnScope(r)' = OwnScope(r)
      BY <1>15, <2>1 DEF HoldsScope, OwnScope
    <3>2. CASE Narrowed(a)
      <4>1. Now' = Scope(nets, FALSE)
        BY <1>8, <3>2 DEF Now, Scope
      <4>2. ContainerScope(r)' = Scope(nets, FALSE)
        BY <1>15 DEF ContainerScope, nets
      <4>3. run'[r].outer = OwnScope(r)' /\ run'[r].outer # None
        BY <1>10, <1>11, <3>1, <3>2 DEF outer
      <4> QED
        BY <4>1, <4>2, <4>3 DEF HoldsScope
    <3>3. CASE ~Narrowed(a)
      <4>1. Now' = Now /\ run'[r].outer = None
        BY <1>8, <1>11, <3>3 DEF Now, outer
      <4> QED
        BY <3>1, <4>1 DEF HoldsScope
    <3> QED
      BY <3>2, <3>3
  <2>3. StillToHear(r)'
    <3> SUFFICES ASSUME good = "ok", a.kind = "effect"
                 PROVE  /\ \A i \in 1 .. Len(ops) :
                             /\ ops[i] \in ControlFrames(OffsetFlag(a, None))
                             /\ ops[i].to = Broadcast => a.target.kind = "broadcast"
                        /\ \A n \in Nodes : Meant(a.target, n) => \E i \in 1 .. Len(ops) : Reaches(ops[i], n)
      BY <1>8, <1>11, <1>15 DEF StillToHear
    <3>1. a \in Effects /\ CanonicalTarget(a.target)
      BY <1>4 DEF Actions, CanonicalAction, a
    <3>2. plan = PlanEffect(a, None, FALSE) /\ ~plan.degraded /\ ops = plan.ops
      BY DEF PlanAction, plan, good, ops
    <3>3. /\ ops \in Seq(ControlFrames(OffsetFlag(a, None)))
          /\ \A i \in 1 .. Len(ops) : ops[i].to = Broadcast => a.target.kind = "broadcast"
          /\ \A n \in Nodes : Meant(a.target, n) => \E i \in 1 .. Len(ops) : Reaches(ops[i], n)
      BY <3>1, <3>2, EffectPlan
    <3> QED
      BY <3>3, ElementOfSeq
  <2>4. StillToSet(r)'
    <3> DEFINE P == {n \in Nodes : NetworkOf[n] \in Attached' /\ IF Narrowed(a) THEN GroupOf[n] \in a.target.value \ {0}
                                                                 ELSE InScene(SceneOf(r), NetworkOf[n])}
    <3>0. Participants(r, Action(r))' = P
      BY <1>15 DEF Participants, Narrowed
    <3> SUFFICES ASSUME good # "degraded", Selects(a)
                 PROVE  /\ \A i \in 1 .. Len(ops) : ops[i] \in OffsetFrames \cup ControlFrames(a.offset.mode # "none")
                        /\ \A i, j \in 1 .. Len(ops) : i < j /\ ops[j] \in OffsetFrames => ops[i] \in OffsetFrames
                        /\ ~Narrowed(a) => \A i \in 1 .. Len(ops) : ops[i] \in OffsetFrames => ops[i].to # 0
                        /\ Narrowed(a) => \A i \in 1 .. Len(ops) :
                             ops[i] \in OffsetFrames /\ ops[i].to = Broadcast => ops[i].offset.mode # "none"
                        /\ \A n \in P : Sets(ops, n, Wanted(a.offset, n))
                        /\ Narrowed(a) => \A n \in Nodes \ P : GroupOf[n] # 0 /\ NetworkOf[n] \in Attached' =>
                             Sets(ops, n, Normal) \/ Spares(ops, n)
      BY <1>8, <1>11, <1>15, <3>0 DEF StillToSet
    <3>1. a.kind = "offset_group" /\ (Narrowed(a) \/ KnownGroups # {0}) /\ ops = plan.ops
      BY <1>6 DEF Selects, good, ops
    <3>2. /\ \A i \in 1 .. Len(ops) : ops[i] \in OffsetFrames \cup ControlFrames(a.offset.mode # "none")
          /\ \A i, j \in 1 .. Len(ops) : i < j /\ ops[j] \in OffsetFrames => ops[i] \in OffsetFrames
          /\ Narrowed(a) =>
               /\ \A n \in Nodes : IF GroupOf[n] \in a.target.value THEN Sets(ops, n, Wanted(a.offset, n))
                                   ELSE Spares(ops, n) \/ Sets(ops, n, Normal)
               /\ \A i \in 1 .. Len(ops) :
                    ops[i] \in OffsetFrames /\ ops[i].to = Broadcast => ops[i].offset.mode # "none"
          /\ ~Narrowed(a) /\ KnownGroups # {0} =>
               /\ \A n \in Nodes : Sets(ops, n, Wanted(a.offset, n))
               /\ \A i \in 1 .. Len(ops) : ops[i] \in OffsetFrames => ops[i].to # 0
      BY <1>4, <3>1, ContainerStart DEF a, plan
    <3>3. \A n \in P : n \in Nodes /\ (Narrowed(a) => GroupOf[n] \in a.target.value)
      OBVIOUS
    <3>4. \A n \in Nodes : n \notin P /\ Narrowed(a) /\ GroupOf[n] # 0 /\ NetworkOf[n] \in Attached'
                            => GroupOf[n] \notin a.target.value
      OBVIOUS
    <3> QED
      BY <3>1, <3>2, <3>3, <3>4
  <2> QED
    BY <1>12, <2>1, <2>2, <2>3, <2>4 DEF Undisturbed
<1>19. ASSUME NEW x \in Active, x # r PROVE InStep(x)' /\ ResultsSoFar(x)' /\ ~run'[x].alone
  <2>1. x \in Runs /\ ~run[x].alone
    BY <1>1, <1>3, <1>12, <1>19 DEF Undisturbed
  <2> QED
    BY <1>1, <1>11, <1>19, <2>1, Bystander
<1>20. \A x \in Active' : InStep(x)' /\ ResultsSoFar(x)' /\ (run'[x].alone => Undisturbed(x)')
  BY <1>12, <1>16, <1>17, <1>18, <1>19
<1> QED
  BY <1>8, <1>13, <1>14, <1>20, NoAir DEF IInv, AirInv

-----------------------------------------------------------------------------
(* The end of an action                                                    *)

Results == Outcomes \cup {"skipped"}

\* A list of results of a scene tells what was skipped.
Tells(res, s) == \A j \in 1 .. Len(res) : res[j] = "skipped" <=> s.stop /\ \E k \in 1 .. j - 1 : res[k] = "error"
NoError(res) == \A j \in 1 .. Len(res) : res[j] # "error"

\* The results an action adds: its own, and skipped for the rest of a scene that
\* stops on its error.
LEMMA ResultsOfEnd ==
    ASSUME NEW res \in Seq(Results), NEW good \in Outcomes, NEW q \in Seq({"skipped"}), NEW s, Tells(res, s),
           s.stop => NoError(res), Len(q) # 0 => s.stop /\ good = "error"
    PROVE  LET new == Append(res, good) \o q IN
           /\ new \in Seq(Results) /\ Len(new) = Len(res) + 1 + Len(q) /\ Tells(new, s)
           /\ s.stop /\ good # "error" => NoError(new)
<1> DEFINE p == Append(res, good)
           new == p \o q
           i == Len(res) + 1
           last == i + Len(q)
<1>1. Len(res) \in Nat /\ Len(q) \in Nat /\ \A j \in 1 .. Len(q) : q[j] = "skipped"
  BY ElementOfSeq, LenProperties
<1>2. good \in Results /\ good # "skipped" /\ q \in Seq(Results)
  <2>1. {"skipped"} \subseteq Results
    BY DEF Results
  <2> QED
    BY <2>1, SeqMonotonic DEF Results, Outcomes
<1>3. /\ p \in Seq(Results) /\ Len(p) = i /\ p[i] = good /\ \A j \in 1 .. Len(res) : p[j] = res[j]
  BY <1>2, AppendProperties
<1> HIDE DEF p, new
<1>4. new \in Seq(Results) /\ Len(new) = last /\ \A j \in 1 .. last : new[j] = IF j <= i THEN p[j] ELSE q[j - i]
  <2>1. /\ p \o q \in Seq(Results) /\ Len(p \o q) = Len(p) + Len(q)
        /\ \A j \in 1 .. Len(p) + Len(q) : (p \o q)[j] = IF j <= Len(p) THEN p[j] ELSE q[j - Len(p)]
    BY <1>2, <1>3, ConcatProperties
  <2> QED
    BY <1>3, <2>1 DEF new
<1>5. \A j \in 1 .. last : /\ j < i => new[j] = res[j] /\ j \in 1 .. Len(res)
                           /\ j = i => new[j] = good
                           /\ j > i => new[j] = "skipped" /\ Len(q) # 0
  <2> SUFFICES ASSUME NEW j \in 1 .. last
               PROVE  /\ j < i => new[j] = res[j] /\ j \in 1 .. Len(res)
                      /\ j = i => new[j] = good
                      /\ j > i => new[j] = "skipped" /\ Len(q) # 0
    OBVIOUS
  <2>1. CASE j < i
    BY <1>1, <1>3, <1>4, <2>1
  <2>2. CASE j = i
    BY <1>1, <1>3, <1>4, <2>2
  <2>3. CASE j > i
    <3>1. j - i \in 1 .. Len(q) /\ ~(j <= i)
      BY <1>1, <2>3
    <3> QED
      BY <1>1, <1>4, <2>3, <3>1
  <2> QED
    BY <1>1, <2>1, <2>2, <2>3
<1>6. ASSUME NEW j \in 1 .. last
      PROVE  new[j] = "skipped" <=> s.stop /\ \E k \in 1 .. j - 1 : new[k] = "error"
  <2>1. CASE j < i
    <3>1. \A k \in 1 .. j - 1 : k \in 1 .. last /\ k < i
      BY <1>1, <2>1
    <3>2. \A k \in 1 .. j - 1 : new[k] = res[k]
      BY <1>5, <3>1
    <3>3. new[j] = res[j] /\ j \in 1 .. Len(res)
      BY <1>5, <2>1
    <3> QED
      BY <3>2, <3>3 DEF Tells
  <2>2. CASE j = i
    <3>1. \A k \in 1 .. j - 1 : k \in 1 .. last /\ k < i
      BY <1>1, <2>2
    <3>2. \A k \in 1 .. j - 1 : new[k] = res[k] /\ k \in 1 .. Len(res)
      BY <1>5, <3>1
    <3>3. new[j] # "skipped"
      BY <1>2, <1>5, <2>2
    <3> QED
      BY <3>2, <3>3 DEF NoError
  <2>3. CASE j > i
    <3>1. i \in 1 .. j - 1 /\ i \in 1 .. last
      BY <1>1, <2>3
    <3>2. new[j] = "skipped" /\ Len(q) # 0 /\ new[i] = good
      BY <1>5, <2>3, <3>1
    <3> QED
      BY <3>1, <3>2
  <2> QED
    BY <1>1, <2>1, <2>2, <2>3
<1>7. ASSUME s.stop, good # "error", NEW j \in 1 .. last PROVE new[j] # "error"
  <2>1. Len(q) = 0 /\ j <= i
    BY <1>1, <1>7
  <2> QED
    BY <1>1, <1>5, <1>7, <2>1 DEF NoError
<1> HIDE DEF i, last
<1>8. Tells(new, s) /\ (s.stop /\ good # "error" => NoError(new))
  BY <1>4, <1>6, <1>7 DEF Tells, NoError
<1> QED
  BY <1>4, <1>8 DEF new, p, i, last

\* An action ends.
LEMMA EndActionStep ==
    ASSUME IInv, NEW r \in Runs, EndAction(r)
    PROVE  IInv'
<1> DEFINE n == Len(SceneOf(r).actions)
           stop == Stops(r)
           new == Append(run[r].res, run[r].good) \o (IF stop THEN Skipped(n - run[r].i) ELSE <<>>)
           next == IF stop THEN n + 1 ELSE run[r].i + 1
<1>1. RunTypes /\ Unmixed /\ AirInv
      /\ \A x \in Active : InStep(x) /\ ResultsSoFar(x) /\ (run[x].alone => Undisturbed(x))
  BY Parts
<1>2. /\ run[r].pc = "send" /\ air' = None /\ UNCHANGED <<up, off, counters, mixed>>
      /\ IF run[r].outer = None THEN UNCHANGED <<scope, blocked>>
         ELSE scope' = run[r].outer.scope /\ blocked' = run[r].outer.blocked
      /\ run' = [run EXCEPT ![r] = [@ EXCEPT !.pc = "plan", !.outer = None, !.i = next, !.res = new]]
  <2>1. /\ run[r].pc = "send" /\ air' = None /\ UNCHANGED <<up, off, counters, mixed>>
        /\ IF run[r].outer = None THEN UNCHANGED <<scope, blocked>>
           ELSE scope' = run[r].outer.scope /\ blocked' = run[r].outer.blocked
    BY DEF EndAction
  <2>2. run' = [run EXCEPT ![r] = [@ EXCEPT !.pc = "plan", !.outer = None, !.i = next, !.res = new]]
    BY DEF EndAction
  <2> QED
    BY <2>1, <2>2
<1>3. r \in Active /\ run[r] \in RunRecords /\ run[r].key \in DOMAIN Scenes
  BY <1>1, <1>2, RunRecord DEF Active, RunRecords
<1>4. n \in Nat /\ run[r].i \in 1 .. n /\ SceneOf(r).stop \in BOOLEAN /\ CanonicalScene(SceneOf(r))
      /\ Len(run[r].res) = run[r].i - 1
  BY <1>1, <1>2, <1>3, SceneTypes DEF InStep, SceneOf
<1>5. run[r].res \in Seq(Outcomes \cup {"skipped"}) /\ run[r].good \in Outcomes /\ run[r].outer \in Scopes \cup {None}
  BY <1>3 DEF RunRecords
<1>6. stop \in BOOLEAN /\ (stop <=> SceneOf(r).stop /\ run[r].good = "error")
  BY <1>4 DEF Stops
<1>7. /\ \A j \in 1 .. Len(run[r].res) :
           run[r].res[j] = "skipped" <=> SceneOf(r).stop /\ \E k \in 1 .. j - 1 : run[r].res[k] = "error"
      /\ SceneOf(r).stop => \A j \in 1 .. Len(run[r].res) : run[r].res[j] # "error"
  BY <1>1, <1>3, <1>4 DEF ResultsSoFar
<1> HIDE DEF n, stop
<1>8. /\ new \in Seq(Outcomes \cup {"skipped"}) /\ Len(new) = next - 1 /\ next \in 1 .. n + 1
      /\ \A j \in 1 .. Len(new) : new[j] = "skipped" <=> SceneOf(r).stop /\ \E k \in 1 .. j - 1 : new[k] = "error"
      /\ next <= n /\ SceneOf(r).stop => \A j \in 1 .. Len(new) : new[j] # "error"
  <2> DEFINE q == IF stop THEN Skipped(n - run[r].i) ELSE <<>>
  <2>1. n - run[r].i \in Nat
    BY <1>4
  <2>2. q \in Seq({"skipped"}) /\ Len(q) = IF stop THEN n - run[r].i ELSE 0
    <3>1. CASE stop
      <4>1. q = [j \in 1 .. (n - run[r].i) |-> "skipped"]
        BY <3>1 DEF Skipped
      <4>2. [j \in 1 .. (n - run[r].i) |-> "skipped"] \in Seq({"skipped"})
        BY <2>1, IsASeq
      <4> HIDE DEF q
      <4>3. Len(q) = n - run[r].i
        BY <2>1, <4>1
      <4> QED
        BY <3>1, <4>1, <4>2, <4>3
    <3>2. CASE ~stop
      BY <3>2, EmptySeq
    <3> QED
      BY <3>1, <3>2
  <2>3. Len(q) # 0 => SceneOf(r).stop /\ run[r].good = "error"
    BY <1>6, <2>2
  <2>4. /\ run[r].res \in Seq(Results) /\ run[r].good \in Outcomes
        /\ Tells(run[r].res, SceneOf(r)) /\ (SceneOf(r).stop => NoError(run[r].res))
    BY <1>5, <1>7 DEF Results, Tells, NoError
  <2>5. new = Append(run[r].res, run[r].good) \o q
    OBVIOUS
  <2> HIDE DEF q, new
  <2>6. /\ new \in Seq(Results) /\ Len(new) = Len(run[r].res) + 1 + Len(q) /\ Tells(new, SceneOf(r))
        /\ SceneOf(r).stop /\ run[r].good # "error" => NoError(new)
    BY <2>2, <2>3, <2>4, <2>5, ResultsOfEnd
  <2>7. Len(new) = next - 1 /\ next \in 1 .. n + 1
    <3>1. Len(new) = run[r].i + Len(q)
      BY <1>4, <2>6
    <3>2. CASE stop
      BY <1>4, <2>2, <3>1, <3>2
    <3>3. CASE ~stop
      BY <1>4, <2>2, <3>1, <3>3
    <3> QED
      BY <1>6, <3>2, <3>3
  <2>8. next <= n /\ SceneOf(r).stop => run[r].good # "error"
    BY <1>4, <1>6
  <2> HIDE DEF next
  <2> QED
    BY <2>6, <2>7, <2>8 DEF Results, Tells, NoError
<1> HIDE DEF new, next
<1>9. /\ run' \in [Runs -> RunRecords \cup {Idle}]
      /\ run'[r].pc = "plan" /\ run'[r].outer = None /\ run'[r].i = next /\ run'[r].res = new
      /\ run'[r].key = run[r].key /\ run'[r].ops = run[r].ops /\ run'[r].good = run[r].good
      /\ run'[r].prev = run[r].prev /\ run'[r].alone = run[r].alone
      /\ \A x \in Runs : x # r => run'[x] = run[x] /\ SameRun(x) /\ run'[x].alone = run[x].alone
  <2> DEFINE rec == [run[r] EXCEPT !.pc = "plan", !.outer = None, !.i = next, !.res = new]
  <2>1. next \in Nat
    BY <1>4, <1>8
  <2>2. rec \in RunRecords
    BY <1>3, <1>8, <2>1 DEF RunRecords
  <2>3. /\ rec.pc = "plan" /\ rec.outer = None /\ rec.i = next /\ rec.res = new
        /\ rec.key = run[r].key /\ rec.ops = run[r].ops /\ rec.good = run[r].good
        /\ rec.prev = run[r].prev /\ rec.alone = run[r].alone
    BY <1>3 DEF RunRecords
  <2>4. run' = [run EXCEPT ![r] = rec] /\ run \in [Runs -> RunRecords \cup {Idle}]
    BY <1>1, <1>2 DEF RunTypes
  <2> HIDE DEF rec
  <2>5. /\ run' \in [Runs -> RunRecords \cup {Idle}] /\ run'[r] = rec
        /\ \A x \in Runs : x # r => run'[x] = run[x]
    BY <2>2, <2>4
  <2> QED
    BY <2>3, <2>5 DEF SameRun, SameAction
<1>10. Active' = Active /\ Active \in SUBSET Runs
  BY <1>3, <1>9 DEF Active
<1>11. RunTypes'
  <2>1. scope' \in ((SUBSET Nets) \ {{}}) \cup {None} /\ blocked' \in BOOLEAN
    BY <1>1, <1>2, <1>5, ScopeTypes DEF RunTypes
  <2> QED
    BY <1>1, <1>2, <1>9, <2>1 DEF RunTypes
<1>12. Unmixed'
  <2>1. \A x \in Active : run'[x].prev = run[x].prev
    BY <1>9, <1>10
  <2> QED
    BY <1>1, <1>2, <1>3, <1>10, <2>1 DEF Unmixed
<1>13. SceneOf(r)' = SceneOf(r)
  BY <1>9 DEF SceneOf
<1>14. InStep(r)'
  BY <1>1, <1>3, <1>4, <1>8, <1>9, <1>13 DEF InStep, n
<1>15. ResultsSoFar(r)'
  BY <1>8, <1>9, <1>13 DEF ResultsSoFar, n
<1>16. ASSUME run'[r].alone PROVE Undisturbed(r)'
  <2>1. Active = {r} /\ HoldsScope(r)
    BY <1>1, <1>3, <1>9, <1>16 DEF Undisturbed
  <2>2. OwnScope(r)' = OwnScope(r)
    BY <1>13 DEF OwnScope
  <2>3. Now' = OwnScope(r)
    <3>1. CASE run[r].outer = None
      BY <1>2, <2>1, <3>1 DEF HoldsScope, Now
    <3>2. CASE run[r].outer # None
      BY <1>2, <2>1, <3>2 DEF HoldsScope, Now, OwnScope, Scope
    <3> QED
      BY <3>1, <3>2
  <2>4. HoldsScope(r)'
    BY <1>9, <2>2, <2>3 DEF HoldsScope
  <2>5. StillToHear(r)' /\ StillToSet(r)'
    BY <1>9 DEF StillToHear, StillToSet
  <2> QED
    BY <1>10, <2>1, <2>4, <2>5 DEF Undisturbed
<1>17. ASSUME NEW x \in Active, x # r PROVE InStep(x)' /\ ResultsSoFar(x)' /\ ~run'[x].alone
  <2>1. x \in Runs /\ ~run[x].alone
    BY <1>1, <1>3, <1>10, <1>17 DEF Undisturbed
  <2> QED
    BY <1>1, <1>9, <1>17, <2>1, Bystander
<1>18. \A x \in Active' : InStep(x)' /\ ResultsSoFar(x)' /\ (run'[x].alone => Undisturbed(x)')
  BY <1>10, <1>14, <1>15, <1>16, <1>17
<1> QED
  BY <1>2, <1>11, <1>12, <1>18, NoAir DEF IInv, AirInv

-----------------------------------------------------------------------------
(* A frame is sent                                                         *)

\* What a step inside an action leaves alone: where the run stands, and the other runs.
LEMMA ActionGoesOn ==
    ASSUME IInv, NEW r \in Runs, run[r].pc = "send", NEW rec \in RunRecords, rec.pc = "send",
           rec.key = run[r].key, rec.i = run[r].i, rec.res = run[r].res, rec.prev = run[r].prev,
           rec.outer = run[r].outer, rec.before = run[r].before, rec.alone = run[r].alone,
           rec.good = "degraded" => rec.ops = << >>,
           run' = [run EXCEPT ![r] = rec] \/ run' = Disturbed([run EXCEPT ![r] = rec]),
           UNCHANGED <<scope, blocked, up, mixed>>, off' \in OffsetsOfNodes, air' \in AirRecords \cup {None}
    PROVE  /\ RunTypes' /\ Unmixed' /\ Active' = Active /\ r \in Active
           /\ SameAction(r) /\ run'[r].ops = rec.ops /\ run'[r].took = rec.took /\ run'[r].good = rec.good
           /\ SceneOf(r)' = SceneOf(r) /\ Action(r)' = Action(r) /\ Attached' = Attached
           /\ \A x \in Active : InStep(x)' /\ ResultsSoFar(x)' /\ SameAction(x) /\ (x # r => ~run'[x].alone)
           /\ run'[r].alone => /\ Undisturbed(r) /\ HoldsScope(r)' /\ Active = {r}
                               /\ run' = [run EXCEPT ![r] = rec]
<1> DEFINE new == [run EXCEPT ![r] = rec]
<1>1. RunTypes /\ Unmixed
      /\ \A x \in Active : InStep(x) /\ ResultsSoFar(x) /\ (run[x].alone => Undisturbed(x))
  BY Parts
<1>2. r \in Active /\ run[r] \in RunRecords /\ Active \in SUBSET Runs
  BY <1>1, RunRecord DEF Active
<1>3. new \in [Runs -> RunRecords \cup {Idle}] /\ new[r] = rec /\ \A x \in Runs : x # r => new[x] = run[x]
  BY <1>1 DEF RunTypes
<1> DEFINE Kept(x) ==
             /\ SameAction(x) /\ run'[x].res = run[x].res /\ run'[x].prev = run[x].prev /\ run'[x].outer = run[x].outer
             /\ run'[x].alone => run[x].alone /\ run' = new
             /\ x # r => SameRun(x)
<1>5. /\ run' \in [Runs -> RunRecords \cup {Idle}] /\ \A x \in Runs : run'[x].pc = run[x].pc
      /\ run'[r].ops = rec.ops /\ run'[r].took = rec.took /\ run'[r].good = rec.good
      /\ \A x \in Active : Kept(x)
  <2>1. CASE run' = new
    <3>1. run' \in [Runs -> RunRecords \cup {Idle}] /\ run'[r] = rec /\ \A x \in Runs : x # r => run'[x] = run[x]
      BY <1>3, <2>1
    <3> HIDE DEF new
    <3> QED
      BY <1>2, <2>1, <3>1 DEF SameRun, SameAction
  <2>2. CASE run' # new
    <3>1. /\ Disturbed(new) \in [Runs -> RunRecords \cup {Idle}]
          /\ \A x \in Runs : IF new[x].pc = "idle" THEN Disturbed(new)[x] = new[x]
                             ELSE new[x] \in RunRecords /\ Disturbed(new)[x] = [new[x] EXCEPT !.alone = FALSE]
      BY <1>3, DisturbedType
    <3>2. /\ run' \in [Runs -> RunRecords \cup {Idle}]
          /\ \A x \in Runs : IF new[x].pc = "idle" THEN run'[x] = new[x]
                             ELSE new[x] \in RunRecords /\ run'[x] = [new[x] EXCEPT !.alone = FALSE]
      BY <2>2, <3>1
    <3> HIDE DEF new
    <3>3. run'[r] = [rec EXCEPT !.alone = FALSE]
      BY <1>3, <3>2
    <3>4. /\ run'[r].ops = rec.ops /\ run'[r].took = rec.took /\ run'[r].good = rec.good /\ run'[r].pc = "send"
          /\ SameAction(r) /\ run'[r].res = run[r].res /\ run'[r].prev = run[r].prev
          /\ run'[r].outer = run[r].outer /\ run'[r].alone = FALSE
      BY <3>3 DEF RunRecords, SameAction
    <3>5. ASSUME NEW x \in Runs, x # r PROVE run'[x].pc = run[x].pc /\ (x \in Active => SameRun(x) /\ run'[x].alone = FALSE)
      <4>1. IF run[x].pc = "idle" THEN run'[x] = run[x]
            ELSE run[x] \in RunRecords /\ run'[x] = [run[x] EXCEPT !.alone = FALSE]
        BY <1>3, <3>2, <3>5
      <4> QED
        BY <4>1 DEF Active, RunRecords, SameRun, SameAction
    <3> QED
      BY <1>2, <3>2, <3>4, <3>5 DEF SameRun
  <2> QED
    BY <2>1, <2>2
<1> HIDE DEF new
<1>6. Active' = Active
  BY <1>5 DEF Active
<1>7. RunTypes'
  BY <1>1, <1>5 DEF RunTypes
<1>8. Unmixed'
  <2>1. \A x \in Active : run'[x].prev = run[x].prev
    BY <1>5
  <2> QED
    BY <1>1, <1>6, <2>1 DEF Unmixed
<1>9. SceneOf(r)' = SceneOf(r) /\ Action(r)' = Action(r) /\ Attached' = Attached
  BY <1>2, <1>5 DEF SceneOf, Action, Attached, SameAction
<1>10. ASSUME NEW x \in Active PROVE InStep(x)' /\ ResultsSoFar(x)' /\ (x # r => ~run'[x].alone)
  <2>1. CASE x = r
    <3>1. InStep(r)'
      BY <1>1, <1>2, <1>5, <1>9 DEF InStep, SameAction
    <3>2. ResultsSoFar(r)'
      BY <1>1, <1>2, <1>5, <1>9 DEF ResultsSoFar, SameAction
    <3> QED
      BY <2>1, <3>1, <3>2
  <2>2. CASE x # r
    <3>1. ~run'[x].alone
      BY <1>1, <1>2, <1>5, <1>10, <2>2 DEF Undisturbed
    <3> QED
      BY <1>1, <1>5, <1>10, <2>2, <3>1, Bystander
  <2> QED
    BY <2>1, <2>2
<1>11. ASSUME run'[r].alone
       PROVE  Undisturbed(r) /\ HoldsScope(r)' /\ Active = {r} /\ run' = new
  <2>1. Undisturbed(r) /\ run' = new
    BY <1>1, <1>2, <1>5, <1>11
  <2>2. HoldsScope(r)'
    <3>1. OwnScope(r)' = OwnScope(r) /\ ContainerScope(r)' = ContainerScope(r) /\ Now' = Now
      BY <1>9 DEF OwnScope, ContainerScope, Now
    <3> QED
      BY <1>2, <1>5, <2>1, <3>1 DEF HoldsScope, Undisturbed
  <2> QED
    BY <2>1, <2>2 DEF Undisturbed
<1> QED
  BY <1>2, <1>5, <1>6, <1>7, <1>8, <1>9, <1>10, <1>11 DEF new

\* Offset frames come first: behind another one there are none.
LEMMA NoOffsetsLeft ==
    ASSUME NEW r, StillToSet(r), run[r].pc = "send", run[r].good # "degraded", Selects(Action(r)),
           run[r].ops \in Seq(Frames), run[r].ops # << >>, run[r].ops[1] \notin OffsetFrames
    PROVE  /\ \A i \in 1 .. Len(run[r].ops) : /\ run[r].ops[i] \notin OffsetFrames
                                              /\ run[r].ops[i] \in ControlFrames(Action(r).offset.mode # "none")
           /\ \A n : Spares(run[r].ops, n)
           /\ \A n, v : ~Sets(run[r].ops, n, v)
<1> DEFINE ops == run[r].ops
<1>1. Len(ops) \in Nat /\ 1 \in 1 .. Len(ops) /\ \A i \in 1 .. Len(ops) : ops[i] \in Frames
  BY ElementOfSeq, EmptySeq, LenProperties
<1>2. /\ \A i \in 1 .. Len(ops) : ops[i] \in OffsetFrames \cup ControlFrames(Action(r).offset.mode # "none")
      /\ \A i, j \in 1 .. Len(ops) : i < j /\ ops[j] \in OffsetFrames => ops[i] \in OffsetFrames
  BY DEF StillToSet
<1> HIDE DEF ops
<1>3. \A i \in 1 .. Len(ops) : ops[i] \notin OffsetFrames
  <2> SUFFICES ASSUME NEW i \in 1 .. Len(ops) PROVE ops[i] \notin OffsetFrames
    OBVIOUS
  <2>1. i = 1 \/ 1 < i
    BY <1>1
  <2> QED
    BY <1>1, <1>2, <2>1 DEF ops
<1>4. \A i \in 1 .. Len(ops) : \A n : ~Hits(ops[i], n)
  BY <1>1, <1>3, FrameKinds DEF Hits
<1>5. (\A n : Spares(ops, n)) /\ \A n, v : ~Sets(ops, n, v)
  BY <1>4 DEF Spares, Sets, LastHit
<1> QED
  BY <1>2, <1>3, <1>5 DEF ops

\* What was set stays set while frames are left out or sent that set nothing.
LEMMA OffsetsStand ==
    ASSUME NEW r, StillToSet(r), run[r].pc = "send", run[r].good # "degraded", run[r].ops \in Seq(Frames),
           run[r].ops # << >>, run[r].ops[1] \notin OffsetFrames, SameAction(r), Action(r)' = Action(r),
           SceneOf(r)' = SceneOf(r), UNCHANGED <<up, off>>,
           run'[r].ops = Tail(run[r].ops) \/ run'[r].ops = << >>
    PROVE  StillToSet(r)'
<1> DEFINE ops == run[r].ops
           new == run'[r].ops
           a == Action(r)
<1>1. Participants(r, a)' = Participants(r, a)
  BY DEF Participants, Attached
<1> SUFFICES ASSUME Selects(a)
             PROVE  /\ \A i \in 1 .. Len(new) : new[i] \notin OffsetFrames /\ new[i] \in ControlFrames(a.offset.mode # "none")
                    /\ \A n \in Participants(r, a) : Spares(new, n) /\ off[n] = Wanted(a.offset, n)
                    /\ Narrowed(a) => \A n \in Nodes \ Participants(r, a) : GroupOf[n] # 0 =>
                         IF NetworkOf[n] \in Attached
                         THEN Spares(new, n) /\ off[n] \in {run[r].before[n], Normal}
                         ELSE off[n] = run[r].before[n]
  BY <1>1 DEF StillToSet, SameAction, Attached
<1>2. /\ \A i \in 1 .. Len(ops) : ops[i] \notin OffsetFrames /\ ops[i] \in ControlFrames(a.offset.mode # "none")
      /\ \A n : Spares(ops, n)
      /\ \A n, v : ~Sets(ops, n, v)
  BY NoOffsetsLeft
<1>3. /\ \A n \in Participants(r, a) : Spares(ops, n) /\ off[n] = Wanted(a.offset, n)
      /\ Narrowed(a) => \A n \in Nodes \ Participants(r, a) : GroupOf[n] # 0 =>
           IF NetworkOf[n] \in Attached THEN off[n] \in {run[r].before[n], Normal}
           ELSE off[n] = run[r].before[n]
  BY <1>2 DEF StillToSet
<1>4. \A i \in 1 .. Len(new) : \E j \in 1 .. Len(ops) : new[i] = ops[j]
  <2>1. CASE new = Tail(ops)
    <3>1. \A i \in 1 .. Len(Tail(ops)) : Tail(ops)[i] = ops[i + 1] /\ i + 1 \in 1 .. Len(ops)
      BY HeadOfList
    <3> HIDE DEF ops, new
    <3> QED
      BY <2>1, <3>1
  <2>2. CASE new = << >>
    <3>1. Len(new) = 0
      BY <2>2, EmptySeq
    <3> HIDE DEF ops, new
    <3> QED
      BY <3>1
  <2> QED
    BY <2>1, <2>2
<1> HIDE DEF ops, new, a
<1>5. /\ \A i \in 1 .. Len(new) : new[i] \notin OffsetFrames /\ new[i] \in ControlFrames(a.offset.mode # "none")
      /\ \A n : Spares(new, n)
  <2>1. \A n : \A j \in 1 .. Len(ops) : ~Hits(ops[j], n)
    BY <1>2 DEF Spares
  <2> QED
    BY <1>2, <1>4, <2>1 DEF Spares
<1> QED
  BY <1>3, <1>5

\* Bad parameters raise.
LEMMA SendRaisesStep ==
    ASSUME IInv, NEW r \in Runs, SendRaises(r)
    PROVE  IInv'
<1> DEFINE ops == IF Head(run[r].ops).to = Broadcast /\ blocked THEN Tail(run[r].ops) ELSE << >>
           rec == [run[r] EXCEPT !.good = "error", !.ops = ops]
<1>1. RunTypes /\ AirInv /\ \A x \in Active : run[x].alone => Undisturbed(x)
  BY Parts
<1>2. /\ run[r].pc = "send" /\ run[r].ops # << >> /\ Head(run[r].ops).bad
      /\ run' = [run EXCEPT ![r] = rec]
      /\ UNCHANGED <<scope, blocked, up, off, air, counters, mixed>>
  BY DEF SendRaises
<1>3. r \in Active /\ run[r] \in RunRecords
  BY <1>1, <1>2, RunRecord DEF Active
<1>4. run[r].ops \in Seq(Frames) /\ run[r].good # "degraded"
  BY <1>2, <1>3 DEF RunRecords, IInv, InStep
<1>5. Head(run[r].ops) = run[r].ops[1] /\ ops \in Seq(Frames) /\ run[r].ops[1] \notin OffsetFrames
  <2>1. Head(run[r].ops) = run[r].ops[1] /\ Tail(run[r].ops) \in Seq(Frames) /\ run[r].ops[1] \in Frames
    BY <1>2, <1>4, HeadTailProperties, ElementOfSeq, EmptySeq, LenProperties
  <2> QED
    BY <1>2, <2>1, FrameKinds, EmptySeq
<1>6. (ops = Tail(run[r].ops) \/ ops = << >>) /\ "error" \in Outcomes
  BY DEF Outcomes
<1> HIDE DEF ops
<1>7. /\ rec \in RunRecords /\ rec.pc = "send" /\ rec.ops = ops /\ rec.good = "error"
      /\ rec.key = run[r].key /\ rec.i = run[r].i /\ rec.res = run[r].res /\ rec.prev = run[r].prev
      /\ rec.outer = run[r].outer /\ rec.before = run[r].before /\ rec.alone = run[r].alone
  BY <1>2, <1>3, <1>5, <1>6 DEF RunRecords
<1> HIDE DEF rec
<1>8. off' \in OffsetsOfNodes /\ air' \in AirRecords \cup {None} /\ UNCHANGED <<scope, blocked, up, mixed, off, air>>
  BY <1>1, <1>2 DEF RunTypes
<1>9. /\ RunTypes' /\ Unmixed' /\ Active' = Active /\ SameAction(r)
      /\ run'[r].ops = ops /\ run'[r].good = "error" /\ SceneOf(r)' = SceneOf(r) /\ Action(r)' = Action(r)
      /\ \A x \in Active : InStep(x)' /\ ResultsSoFar(x)' /\ SameAction(x) /\ (x # r => ~run'[x].alone)
      /\ run'[r].alone => Undisturbed(r) /\ HoldsScope(r)' /\ Active = {r}
  BY <1>2, <1>7, <1>8, ActionGoesOn
<1>10. AirInv'
  <2>1. ASSUME air # None, run'[air.by].alone PROVE run[air.by].alone
    <3>1. air.by \in Active
      BY <2>1, AirType
    <3>2. air.by = r
      BY <1>9, <2>1, <3>1
    <3> QED
      BY <1>3, <1>7, <1>2, <1>1, <2>1, <3>2 DEF RunTypes
  <2>2. air # None => SameAction(air.by)
    BY <1>9, AirType
  <2> QED
    BY <1>1, <1>8, <2>1, <2>2, AirKept
<1>11. ASSUME run'[r].alone PROVE Undisturbed(r)'
  <2>1. StillToHear(r)'
    BY <1>9 DEF StillToHear
  <2>2. StillToSet(r)'
    BY <1>2, <1>4, <1>5, <1>6, <1>8, <1>9, <1>11, OffsetsStand DEF Undisturbed
  <2> QED
    BY <1>9, <1>11, <2>1, <2>2 DEF Undisturbed
<1> QED
  BY <1>9, <1>10, <1>11 DEF IInv, AirInv

\* The networks a broadcast of the action under way is for, and the scope that is set.
Wants(r) == {x \in Nets : IF Narrowed(Action(r)) THEN Touches(Action(r).target, x) ELSE InScene(SceneOf(r), x)}

\* While an undisturbed run sends, the scope is made of the networks meant.
LEMMA ScopeNow ==
    ASSUME RunTypes, NEW r \in Active, InStep(r), run[r].pc = "send", HoldsScope(r)
    PROVE  /\ Wants(r) # {} => scope = Wants(r) /\ blocked = FALSE
           /\ Wants(r) = {} /\ blocked = FALSE => Narrowed(Action(r)) \/ SceneOf(r).scope = None
<1> DEFINE a == Action(r)
           k == run[r].key
<1>1. run[r].key \in DOMAIN Scenes /\ run[r] \in RunRecords
  BY RunRecord DEF RunRecords
<1>2. a \in Actions
  <2>1. run[r].i \in 1 .. Len(SceneOf(r).actions)
    BY DEF InStep
  <2> QED
    BY <1>1, <2>1, SceneTypes DEF SceneOf, Action
<1>3. CASE Narrowed(a)
  <2>1. a.target \in Targets
    BY <1>2, <1>3 DEF Narrowed, Actions, Effects
  <2>2. TargetNetworks(a.target, None) = Wants(r)
    <3>1. /\ TargetNetworks(a.target, None) \in SUBSET Nets
          /\ \A x \in Nets : x \in TargetNetworks(a.target, None) <=> Touches(a.target, x)
      BY <2>1, TargetNets
    <3> HIDE DEF a
    <3> QED
      BY <1>3, <3>1 DEF Wants, a
  <2>3. run[r].outer # None
    BY <1>3 DEF InStep
  <2>4. Now = Scope(Wants(r), FALSE)
    BY <2>2, <2>3 DEF HoldsScope, ContainerScope
  <2>5. scope = (IF Wants(r) = {} THEN None ELSE Wants(r)) /\ blocked = (FALSE /\ Wants(r) = {})
    BY <2>4 DEF Now, Scope
  <2> QED
    BY <1>3, <2>5
<1>4. CASE ~Narrowed(a)
  <2>1. SceneNetworks(SceneOf(r)) = Wants(r)
    <3>1. /\ SceneNetworks(Scenes[k]) \in SUBSET Nets
          /\ \A x \in Nets : x \in SceneNetworks(Scenes[k]) <=> InScene(Scenes[k], x)
      BY <1>1, SceneNets
    <3> HIDE DEF a
    <3> QED
      BY <1>4, <3>1 DEF Wants, SceneOf, a
  <2>2. run[r].outer = None
    BY <1>4 DEF InStep
  <2>3. Now = Scope(Wants(r), SceneOf(r).scope # None)
    BY <2>1, <2>2 DEF HoldsScope, OwnScope
  <2>4. /\ scope = (IF Wants(r) = {} THEN None ELSE Wants(r))
        /\ blocked = (SceneOf(r).scope # None /\ Wants(r) = {})
    BY <2>3 DEF Now, Scope
  <2> QED
    BY <2>4
<1> QED
  BY <1>3, <1>4

\* A frame that is refused, and the gateways of one that is not.
Refused(op) == op.to = Broadcast /\ blocked
Ways(op) == IF Refused(op) THEN {} ELSE Route(op)

\* A frame finds every node it is for that a gateway reaches and the action is for.
LEMMA FrameFinds ==
    ASSUME RunTypes, NEW r \in Active, InStep(r), run[r].pc = "send", HoldsScope(r),
           NEW op \in Frames, NEW n \in Nodes, NetworkOf[n] \in Attached, Reaches(op, n),
           op.to = Broadcast => NetworkOf[n] \in Wants(r)
    PROVE  NetworkOf[n] \in Ways(op) /\ n \in Addressed(op, Ways(op))
<1>1. /\ Route(op) \in SUBSET Attached
      /\ Reaches(op, n) /\ op.to # Broadcast /\ NetworkOf[n] \in Attached => NetworkOf[n] \in Route(op)
      /\ op.to = Broadcast /\ scope # None => Route(op) = scope \cap Attached
  BY RouteFacts
<1>2. op.dev # None => op.to = GroupOf[op.dev] /\ op.to # Broadcast
  BY FrameKinds
<1>3. NetworkOf[n] \in Ways(op)
  <2>1. CASE op.to # Broadcast
    BY <1>1, <2>1 DEF Ways, Refused
  <2>2. CASE op.to = Broadcast
    <3>1. scope = Wants(r) /\ blocked = FALSE
      BY <2>2, ScopeNow
    <3>2. scope # None
      <4>1. Wants(r) \in SUBSET Nets
        BY DEF Wants
      <4> QED
        BY <3>1, <4>1, FleetAssumption
    <3>3. Route(op) = scope \cap Attached /\ ~Refused(op)
      BY <1>1, <2>2, <3>1, <3>2 DEF Refused
    <3> QED
      BY <2>2, <3>1, <3>3 DEF Ways
  <2> QED
    BY <2>1, <2>2
<1>4. n \in Addressed(op, Ways(op))
  <2>1. (op.to = Broadcast \/ op.to = GroupOf[n]) /\ (op.dev = None \/ op.dev = n)
    BY <1>2, IdFacts DEF Reaches
  <2> QED
    BY <1>3, <2>1 DEF Addressed
<1> QED
  BY <1>3, <1>4

\* A frame leaves by attached gateways.
LEMMA WaysType == ASSUME RunTypes, NEW op \in Frames PROVE Ways(op) \in SUBSET Attached /\ Attached \in SUBSET Nets
BY RouteFacts, AttachedType DEF Ways

\* The networks of the nodes a container is for are among those it is sent on.
LEMMA ParticipantsWanted ==
    ASSUME NEW r, NEW n \in Participants(r, Action(r))
    PROVE  n \in Nodes /\ NetworkOf[n] \in Attached /\ NetworkOf[n] \in Wants(r)
<1>1. n \in Nodes /\ NetworkOf[n] \in Attached /\ NetworkOf[n] \in Nets
  BY IdFacts DEF Participants
<1>2. CASE Narrowed(Action(r))
  <2>1. Touches(Action(r).target, NetworkOf[n])
    BY <1>1, <1>2 DEF Participants, Touches, Narrowed
  <2> QED
    BY <1>1, <1>2, <2>1 DEF Wants
<1>3. CASE ~Narrowed(Action(r))
  BY <1>1, <1>3 DEF Participants, Wants
<1> QED
  BY <1>1, <1>2, <1>3

\* The first frame of an undisturbed run is sent and nothing of it is lost.
Sends(r) ==
  LET op == run[r].ops[1]
      at == Addressed(op, Ways(op))
  IN /\ run[r].pc = "send" /\ run[r].ops \in Seq(Frames) /\ run[r].ops # << >>
     /\ run'[r].ops = Tail(run[r].ops) /\ run'[r].good \in {run[r].good, "error"}
     /\ run'[r].took = run[r].took \cup (IF op.sender = "send_control" THEN Takes(op, Ways(op)) ELSE {})
     /\ off' = IF op.sender = "send_offset"
               THEN [n \in Nodes |-> IF n \in at THEN Stored(n, op.offset) ELSE off[n]] ELSE off
     /\ SameAction(r) /\ Action(r)' = Action(r) /\ SceneOf(r)' = SceneOf(r) /\ up' = up

\* Everybody an effect is for took this frame or is still to get one.
LEMMA HearsOn ==
    ASSUME RunTypes, NEW r \in Active, InStep(r), Undisturbed(r), Sends(r)
    PROVE  StillToHear(r)'
<1> DEFINE ops == run[r].ops
           op == ops[1]
           a == Action(r)
           flag == OffsetFlag(a, None)
<1>1. /\ run[r].pc = "send" /\ ops \in Seq(Frames) /\ ops # << >> /\ run'[r].ops = Tail(ops) /\ SameAction(r)
      /\ Action(r)' = a /\ SceneOf(r)' = SceneOf(r) /\ Attached' = Attached
  BY DEF Sends, Attached
<1> SUFFICES ASSUME run'[r].good = "ok", a.kind = "effect"
             PROVE  /\ off' = run[r].before
                    /\ \A i \in 1 .. Len(Tail(ops)) :
                         /\ Tail(ops)[i] \in ControlFrames(flag)
                         /\ Tail(ops)[i].to = Broadcast => a.target.kind = "broadcast"
                    /\ \A n \in Nodes :
                         /\ NetworkOf[n] \in Attached /\ flag = (run[r].before[n] # Normal)
                         /\ Meant(a.target, n) /\ (a.target.kind = "broadcast" => InScene(SceneOf(r), NetworkOf[n]))
                         => n \in run'[r].took \/ \E i \in 1 .. Len(Tail(ops)) : Reaches(Tail(ops)[i], n)
  BY <1>1 DEF StillToHear, SameAction
<1>2. run[r].good = "ok"
  BY DEF Sends
<1>3. /\ off = run[r].before
      /\ \A i \in 1 .. Len(ops) : /\ ops[i] \in ControlFrames(flag)
                                  /\ ops[i].to = Broadcast => a.target.kind = "broadcast"
      /\ \A n \in Nodes :
           /\ NetworkOf[n] \in Attached /\ flag = (run[r].before[n] # Normal)
           /\ Meant(a.target, n) /\ (a.target.kind = "broadcast" => InScene(SceneOf(r), NetworkOf[n]))
           => n \in run[r].took \/ \E i \in 1 .. Len(ops) : Reaches(ops[i], n)
  BY <1>1, <1>2 DEF Undisturbed, StillToHear
<1>4. /\ Len(ops) \in Nat \ {0} /\ Len(Tail(ops)) = Len(ops) - 1
      /\ \A i \in 1 .. Len(Tail(ops)) : Tail(ops)[i] = ops[i + 1] /\ i + 1 \in 1 .. Len(ops)
  BY <1>1, HeadOfList
<1>5. 1 \in 1 .. Len(ops) /\ op \in ControlFrames(flag) /\ op \in Frames
  <2>1. 1 \in 1 .. Len(ops)
    BY <1>4
  <2> QED
    BY <1>1, <1>3, <2>1, ElementOfSeq
<1>6. op.sender = "send_control" /\ op.flag = flag
  BY <1>5 DEF ControlFrames
<1>7. off' = off /\ run'[r].took = run[r].took \cup Takes(op, Ways(op))
  BY <1>6 DEF Sends
<1> HIDE DEF op, ops, flag
<1>8. ASSUME NEW n \in Nodes, NetworkOf[n] \in Attached, flag = (run[r].before[n] # Normal), Meant(a.target, n),
             a.target.kind = "broadcast" => InScene(SceneOf(r), NetworkOf[n])
      PROVE  n \in run'[r].took \/ \E i \in 1 .. Len(Tail(ops)) : Reaches(Tail(ops)[i], n)
  <2>1. CASE n \in run[r].took
    BY <1>7, <2>1
  <2>2. CASE \E i \in 1 .. Len(ops) : Reaches(ops[i], n)
    <3>1. PICK i \in 1 .. Len(ops) : Reaches(ops[i], n)
      BY <2>2
    <3>2. CASE i = 1
      <4>1. Reaches(op, n) /\ (op.to = Broadcast => a.target.kind = "broadcast")
        BY <1>3, <1>5, <3>1, <3>2 DEF op
      <4>2. op.to = Broadcast => NetworkOf[n] \in Wants(r)
        <5>1. ~Narrowed(a)
          BY DEF Narrowed
        <5> QED
          BY <1>8, <4>1, <5>1, IdFacts DEF Wants
      <4>3. HoldsScope(r)
        BY DEF Undisturbed
      <4>4. n \in Addressed(op, Ways(op))
        BY <1>1, <1>5, <1>8, <4>1, <4>2, <4>3, FrameFinds
      <4>5. n \in Takes(op, Ways(op))
        BY <1>3, <1>6, <1>8, <4>4 DEF Takes
      <4> QED
        BY <1>7, <4>5
    <3>3. CASE i # 1
      <4>1. i - 1 \in 1 .. Len(Tail(ops)) /\ (i - 1) + 1 = i
        BY <1>4, <3>3
      <4>2. Tail(ops)[i - 1] = ops[i]
        BY <1>4, <4>1
      <4> QED
        BY <3>1, <4>1, <4>2
    <3> QED
      BY <3>2, <3>3
  <2> QED
    BY <1>3, <1>8, <2>1, <2>2
<1>9. \A i \in 1 .. Len(Tail(ops)) : /\ Tail(ops)[i] \in ControlFrames(flag)
                                     /\ Tail(ops)[i].to = Broadcast => a.target.kind = "broadcast"
  BY <1>3, <1>4
<1> QED
  BY <1>3, <1>7, <1>8, <1>9

\* What is said to a node by the last frame it gets is what it is left with.
LEMMA SetsOn ==
    ASSUME RunTypes, NEW r \in Active, InStep(r), Undisturbed(r), Sends(r), Selects(Action(r)),
           run[r].ops[1] \in OffsetFrames, run[r].good # "degraded"
    PROVE  StillToSet(r)'
<1> DEFINE ops == run[r].ops
           op == ops[1]
           new == Tail(ops)
           a == Action(r)
           at == Addressed(op, Ways(op))
<1>1. /\ run[r].pc = "send" /\ ops \in Seq(Frames) /\ ops # << >> /\ run'[r].ops = new /\ SameAction(r)
      /\ Action(r)' = a /\ SceneOf(r)' = SceneOf(r) /\ Attached' = Attached
  BY DEF Sends, Attached
<1>2. Participants(r, a)' = Participants(r, a)
  BY <1>1 DEF Participants
<1> SUFFICES /\ \A i \in 1 .. Len(new) : new[i] \in OffsetFrames \cup ControlFrames(a.offset.mode # "none")
             /\ \A i, j \in 1 .. Len(new) : i < j /\ new[j] \in OffsetFrames => new[i] \in OffsetFrames
             /\ ~Narrowed(a) => \A i \in 1 .. Len(new) : new[i] \in OffsetFrames => new[i].to # 0
             /\ Narrowed(a) => \A i \in 1 .. Len(new) :
                  new[i] \in OffsetFrames /\ new[i].to = Broadcast => new[i].offset.mode # "none"
             /\ \A n \in Participants(r, a) :
                  Sets(new, n, Wanted(a.offset, n)) \/ (Spares(new, n) /\ off'[n] = Wanted(a.offset, n))
             /\ Narrowed(a) => \A n \in Nodes \ Participants(r, a) : GroupOf[n] # 0 =>
                  IF NetworkOf[n] \in Attached
                  THEN Sets(new, n, Normal) \/ (Spares(new, n) /\ off'[n] \in {run[r].before[n], Normal})
                  ELSE off'[n] = run[r].before[n]
  BY <1>1, <1>2 DEF StillToSet, SameAction
<1>3. /\ \A i \in 1 .. Len(ops) : ops[i] \in OffsetFrames \cup ControlFrames(a.offset.mode # "none")
      /\ \A i, j \in 1 .. Len(ops) : i < j /\ ops[j] \in OffsetFrames => ops[i] \in OffsetFrames
      /\ ~Narrowed(a) => \A i \in 1 .. Len(ops) : ops[i] \in OffsetFrames => ops[i].to # 0
      /\ Narrowed(a) => \A i \in 1 .. Len(ops) :
           ops[i] \in OffsetFrames /\ ops[i].to = Broadcast => ops[i].offset.mode # "none"
      /\ \A n \in Participants(r, a) :
           Sets(ops, n, Wanted(a.offset, n)) \/ (Spares(ops, n) /\ off[n] = Wanted(a.offset, n))
      /\ Narrowed(a) => \A n \in Nodes \ Participants(r, a) : GroupOf[n] # 0 =>
           IF NetworkOf[n] \in Attached
           THEN Sets(ops, n, Normal) \/ (Spares(ops, n) /\ off[n] \in {run[r].before[n], Normal})
           ELSE off[n] = run[r].before[n]
  BY <1>1 DEF Undisturbed, StillToSet
<1>4. /\ Len(ops) \in Nat \ {0} /\ Len(new) = Len(ops) - 1
      /\ \A i \in 1 .. Len(new) : new[i] = ops[i + 1] /\ i + 1 \in 1 .. Len(ops)
  BY <1>1, HeadOfList
<1>5. /\ \A n : \A v : Sets(ops, n, v) =>
           Sets(new, n, v) \/ (Hits(op, n) /\ Stored(n, op.offset) = v /\ Spares(new, n))
      /\ \A n : Spares(ops, n) => ~Hits(op, n) /\ Spares(new, n)
  BY <1>1, HeadOfList
<1>6. op \in Frames /\ op.sender = "send_offset" /\ op.dev = None /\ op.offset \in Commands
  BY FrameKinds
<1>7. /\ ~Narrowed(a) => op.to # 0
      /\ Narrowed(a) => (op.to = Broadcast => op.offset.mode # "none")
  <2>1. 1 \in 1 .. Len(ops)
    BY <1>4
  <2> QED
    BY <1>3, <2>1
<1>8. /\ \A n \in Nodes : off'[n] = IF n \in at THEN Stored(n, op.offset) ELSE off[n]
      /\ \A n \in at : n \in Nodes /\ Hits(op, n) /\ NetworkOf[n] \in Attached
  <2>1. Ways(op) \in SUBSET Attached
    BY <1>6, WaysType
  <2>2. off' = [n \in Nodes |-> IF n \in at THEN Stored(n, op.offset) ELSE off[n]]
    BY <1>6 DEF Sends
  <2>3. \A n \in at : n \in Nodes /\ Hits(op, n) /\ NetworkOf[n] \in Attached
    BY <1>6, <2>1 DEF Addressed, Hits
  <2> HIDE DEF at
  <2> QED
    BY <2>2, <2>3
<1>9. HoldsScope(r)
  BY DEF Undisturbed
<1> HIDE DEF ops, new, op, at
<1>10. ASSUME NEW n \in Participants(r, a)
       PROVE  Sets(new, n, Wanted(a.offset, n)) \/ (Spares(new, n) /\ off'[n] = Wanted(a.offset, n))
  <2>1. n \in Nodes /\ NetworkOf[n] \in Attached /\ NetworkOf[n] \in Wants(r)
    BY ParticipantsWanted
  <2>2. CASE Sets(ops, n, Wanted(a.offset, n))
    <3> SUFFICES ASSUME Hits(op, n), Stored(n, op.offset) = Wanted(a.offset, n), Spares(new, n)
                 PROVE  off'[n] = Wanted(a.offset, n)
      BY <1>5, <2>2
    <3>1. Reaches(op, n)
      <4>1. Narrowed(a) => GroupOf[n] # 0
        BY DEF Participants
      <4> QED
        BY <1>6, <1>7, <4>1 DEF Hits, Reaches
    <3>2. n \in at
      BY <1>1, <1>6, <1>9, <2>1, <3>1, FrameFinds DEF at
    <3> QED
      BY <1>8, <2>1, <3>2
  <2>3. CASE Spares(ops, n) /\ off[n] = Wanted(a.offset, n)
    BY <1>5, <1>8, <2>1, <2>3
  <2> QED
    BY <1>3, <2>2, <2>3
<1>11. ASSUME Narrowed(a), NEW n \in Nodes \ Participants(r, a), GroupOf[n] # 0
       PROVE  IF NetworkOf[n] \in Attached
              THEN Sets(new, n, Normal) \/ (Spares(new, n) /\ off'[n] \in {run[r].before[n], Normal})
              ELSE off'[n] = run[r].before[n]
  <2>1. CASE NetworkOf[n] \in Attached /\ Sets(ops, n, Normal)
    <3> SUFFICES ASSUME Hits(op, n), Stored(n, op.offset) = Normal, Spares(new, n)
                 PROVE  off'[n] = Normal
      BY <1>5, <2>1
    <3>1. op.to # Broadcast
      <4> SUFFICES ASSUME op.to = Broadcast PROVE FALSE
        OBVIOUS
      <4>1. op.offset.mode # "none"
        BY <1>7, <1>11
      <4>2. EvaluateOffset(op.offset, GroupOf[n]) \in 0 .. OffsetMax
        BY <1>6, <4>1, EvaluateType, IdFacts
      <4>3. Stored(n, op.offset) = EvaluateOffset(op.offset, GroupOf[n])
        BY <4>1 DEF Stored
      <4> QED
        BY <4>2, <4>3, ScenesAssumption
    <3>2. Reaches(op, n)
      BY <1>6, <1>11, <3>1 DEF Hits, Reaches
    <3>3. n \in at
      BY <1>1, <1>6, <1>9, <2>1, <3>1, <3>2, FrameFinds DEF at
    <3> QED
      BY <1>8, <3>3
  <2>2. CASE NetworkOf[n] \in Attached /\ Spares(ops, n) /\ off[n] \in {run[r].before[n], Normal}
    BY <1>5, <1>8, <2>2
  <2>3. CASE NetworkOf[n] \notin Attached /\ off[n] = run[r].before[n]
    BY <1>8, <2>3
  <2> QED
    BY <1>3, <1>11, <2>1, <2>2, <2>3
<1>12. /\ \A i \in 1 .. Len(new) : new[i] \in OffsetFrames \cup ControlFrames(a.offset.mode # "none")
       /\ ~Narrowed(a) => \A i \in 1 .. Len(new) : new[i] \in OffsetFrames => new[i].to # 0
       /\ Narrowed(a) => \A i \in 1 .. Len(new) :
            new[i] \in OffsetFrames /\ new[i].to = Broadcast => new[i].offset.mode # "none"
  BY <1>3, <1>4
<1>13. ASSUME NEW i \in 1 .. Len(new), NEW j \in 1 .. Len(new), i < j, new[j] \in OffsetFrames
       PROVE  new[i] \in OffsetFrames
  <2>1. i + 1 \in 1 .. Len(ops) /\ j + 1 \in 1 .. Len(ops) /\ i + 1 < j + 1
    BY <1>4, <1>13
  <2> QED
    BY <1>3, <1>4, <1>13, <2>1
<1> QED
  BY <1>10, <1>11, <1>12, <1>13

\* The frame that goes on the air.
LEMMA NewOnAir ==
    ASSUME RunTypes, NEW r \in Active, InStep(r), run[r].pc = "send", run[r].ops \in Seq(Frames), run[r].ops # << >>,
           NEW sent \in SUBSET Ways(run[r].ops[1]), NEW took,
           took = IF run[r].ops[1].sender = "send_control" THEN Takes(run[r].ops[1], sent) ELSE {},
           Ways(run[r].ops[1]) # {},
           air' = [by |-> r, op |-> run[r].ops[1], nets |-> Ways(run[r].ops[1]), up |-> Attached, took |-> took],
           SameAction(r), Action(r)' = Action(r), SceneOf(r)' = SceneOf(r), Attached' = Attached,
           run'[r].alone => Undisturbed(r) /\ sent = Ways(run[r].ops[1])
    PROVE  AirInv'
<1> DEFINE op == run[r].ops[1]
           a == Action(r)
<1>1. op \in Frames
  BY ElementOfSeq, EmptySeq, LenProperties
<1>2. Ways(op) \in SUBSET Attached /\ Ways(op) = Route(op) /\ ~Refused(op) /\ Attached \in SUBSET Nets
  BY <1>1, WaysType DEF Ways
<1>3. /\ air' # None => /\ air'.by = r /\ air'.op = op /\ air'.nets = Ways(op)
                         /\ air'.up = Attached /\ air'.took = took
      /\ run'[r].pc = "send"
  BY DEF SameAction
<1> HIDE DEF op
<1>4. BroadcastInScope'
  <2> SUFFICES ASSUME air' # None, op.to = Broadcast, run'[r].alone
               PROVE  /\ Wants(r) # {} => Ways(op) = Wants(r) \cap Attached
                      /\ Wants(r) = {} => Narrowed(a) \/ SceneOf(r).scope = None
    <3>1. Wants(r)' = Wants(r)
      BY DEF Wants
    <3> QED
      BY <1>3, <3>1 DEF BroadcastInScope, Wants
  <2>1. HoldsScope(r) /\ blocked # TRUE
    BY <1>2 DEF Undisturbed, Refused
  <2>2. blocked = FALSE
    BY <2>1 DEF RunTypes
  <2>3. /\ Wants(r) # {} => scope = Wants(r)
        /\ Wants(r) = {} => Narrowed(a) \/ SceneOf(r).scope = None
    BY <2>1, <2>2, ScopeNow
  <2>4. ASSUME Wants(r) # {} PROVE Ways(op) = Wants(r) \cap Attached
    <3>1. scope = Wants(r) /\ Wants(r) \in SUBSET Nets
      BY <2>3, <2>4 DEF Wants
    <3>2. scope # None
      BY <3>1, FleetAssumption
    <3> QED
      BY <1>1, <1>2, <3>1, <3>2, RouteFacts
  <2> QED
    BY <2>3, <2>4
<1>5. ChildrenFindParticipants'
  <2>1. Participants(r, a)' = Participants(r, a)
    BY DEF Participants
  <2> SUFFICES ASSUME op.sender = "send_control", run'[r].alone, Selects(a), op.to = Broadcast, a.offset.mode # "none"
               PROVE  /\ Participants(r, a) \subseteq took
                      /\ \A n \in took \ Participants(r, a) : Narrowed(a) /\ GroupOf[n] # 0 => run[r].before[n] # Normal
    BY <1>3, <2>1 DEF ChildrenFindParticipants, SameAction
  <2>2. /\ took = Takes(op, Ways(op)) /\ HoldsScope(r) /\ StillToSet(r) /\ run[r].good # "degraded"
    BY DEF Undisturbed, InStep, op
  <2>3. op \notin OffsetFrames
    BY FrameKinds
  <2>4. /\ 1 \in 1 .. Len(run[r].ops)
        /\ \A i \in 1 .. Len(run[r].ops) : run[r].ops[i] \in ControlFrames(a.offset.mode # "none")
        /\ \A n : Spares(run[r].ops, n)
        /\ \A n, v : ~Sets(run[r].ops, n, v)
    <3>1. 1 \in 1 .. Len(run[r].ops)
      BY EmptySeq, LenProperties
    <3>2. run[r].ops[1] \notin OffsetFrames
      BY <2>3 DEF op
    <3> QED
      BY <2>2, <3>1, <3>2, NoOffsetsLeft
  <2>5. op.flag = TRUE /\ op.dev = None
    <3>1. op \in ControlFrames(TRUE)
      BY <2>4 DEF op
    <3> QED
      BY <1>1, <3>1, FrameKinds
  <2>6. /\ \A n \in Participants(r, a) : off[n] = Wanted(a.offset, n)
        /\ Narrowed(a) => \A n \in Nodes \ Participants(r, a) : GroupOf[n] # 0 /\ NetworkOf[n] \in Attached =>
             off[n] \in {run[r].before[n], Normal}
    BY <2>2, <2>4 DEF StillToSet
  <2>7. a \in Actions /\ CanonicalAction(a)
    <3>1. run[r].i \in 1 .. Len(SceneOf(r).actions) /\ CanonicalScene(SceneOf(r)) /\ run[r].key \in DOMAIN Scenes
      BY RunRecord DEF InStep, RunRecords
    <3> QED
      BY <3>1, SceneTypes DEF SceneOf, Action
  <2>8. ASSUME NEW n \in Participants(r, a) PROVE n \in took
    <3>1. n \in Nodes /\ NetworkOf[n] \in Attached /\ NetworkOf[n] \in Wants(r)
      BY ParticipantsWanted
    <3>2. Reaches(op, n)
      BY <2>5 DEF Reaches
    <3>3. n \in Addressed(op, Ways(op))
      BY <1>1, <2>2, <3>1, <3>2, FrameFinds
    <3>4. off[n] # Normal
      <4>1. a.kind = "offset_group"
        BY DEF Selects
      <4>2. a.offset \in Offsets /\ CanonicalOffset(a.offset, a.target)
        BY <2>7, <4>1 DEF Actions, Effects, CanonicalAction
      <4>3. Wanted(a.offset, n) \in 0 .. OffsetMax
        BY <3>1, <4>2, WantedType
      <4> QED
        BY <2>6, <4>3, ScenesAssumption
    <3> QED
      BY <2>2, <2>5, <3>1, <3>3, <3>4 DEF Takes
  <2>9. ASSUME NEW n \in took \ Participants(r, a), Narrowed(a), GroupOf[n] # 0 PROVE run[r].before[n] # Normal
    <3>1. n \in Nodes /\ NetworkOf[n] \in Attached /\ off[n] # Normal
      BY <1>2, <2>2, <2>5, <2>9 DEF Takes, Addressed
    <3> QED
      BY <2>6, <2>9, <3>1
  <2> QED
    BY <2>8, <2>9
<1> QED
  BY <1>2, <1>3, <1>4, <1>5 DEF AirInv

\* A frame is sent.
LEMMA SendOpStep ==
    ASSUME IInv, NEW r \in Runs, NEW F \in SUBSET Nets, SendOp(r, F)
    PROVE  IInv'
<1> DEFINE op == Head(run[r].ops)
           nets == Ways(op)
           sent == nets \ F
           took == IF op.sender = "send_control" THEN Takes(op, sent) ELSE {}
           fine == ~Refused(op) /\ (nets # {} \/ op.sender = "send_sync")
           good == IF fine THEN run[r].good ELSE "error"
           rec == [run[r] EXCEPT !.ops = Tail(run[r].ops), !.took = run[r].took \cup took, !.good = good]
           new == [run EXCEPT ![r] = rec]
<1>1. RunTypes /\ AirInv /\ \A x \in Active : InStep(x) /\ (run[x].alone => Undisturbed(x))
  BY Parts
<1>2. /\ run[r].pc = "send" /\ run[r].ops # << >> /\ F \subseteq nets
      /\ run' = IF F = {} THEN new ELSE Disturbed(new)
      /\ off' = IF op.sender = "send_offset"
                THEN [n \in Nodes |-> IF n \in Addressed(op, sent) THEN Stored(n, op.offset) ELSE off[n]] ELSE off
      /\ air' = IF nets = {} THEN air
                ELSE [by |-> r, op |-> op, nets |-> nets, up |-> Attached, took |-> took]
      /\ UNCHANGED <<scope, blocked, up, started, mixed>>
  BY DEF SendOp, Ways, Refused
<1>3. r \in Active /\ run[r] \in RunRecords
  BY <1>1, <1>2, RunRecord DEF Active
<1>4. run[r].ops \in Seq(Frames) /\ run[r].good # "degraded" /\ run[r].good \in Outcomes /\ run[r].took \in SUBSET Nodes
  BY <1>1, <1>2, <1>3 DEF RunRecords, InStep
<1>5. op = run[r].ops[1] /\ Tail(run[r].ops) \in Seq(Frames) /\ op \in Frames
  BY <1>2, <1>4, HeadTailProperties, ElementOfSeq, EmptySeq, LenProperties
<1> HIDE DEF op
<1>6. nets \in SUBSET Attached /\ Attached \in SUBSET Nets /\ sent \in SUBSET nets
  BY <1>1, <1>5, WaysType
<1>7. took \in SUBSET Nodes /\ good \in {run[r].good, "error"} /\ good \in Outcomes /\ good # "degraded"
  BY <1>4 DEF Takes, Addressed, Outcomes
<1>8. off' \in OffsetsOfNodes
  <2>1. off \in OffsetsOfNodes
    BY <1>1 DEF RunTypes
  <2>2. op.sender = "send_offset" => \A n \in Nodes : Stored(n, op.offset) \in 0 .. OffsetMax \cup {Normal}
    BY <1>5, FrameKinds, StoredType
  <2> QED
    BY <1>2, <2>1, <2>2 DEF OffsetsOfNodes
<1>9. air' \in AirRecords \cup {None}
  <2>1. [by |-> r, op |-> op, nets |-> nets, up |-> Attached, took |-> took] \in AirRecords
    BY <1>5, <1>6, <1>7 DEF AirRecords
  <2> QED
    BY <1>1, <1>2, <2>1 DEF RunTypes
<1> HIDE DEF nets, sent, took, good
<1>10. /\ rec \in RunRecords /\ rec.pc = "send" /\ rec.ops = Tail(run[r].ops) /\ rec.good = good
       /\ rec.took = run[r].took \cup took
       /\ rec.key = run[r].key /\ rec.i = run[r].i /\ rec.res = run[r].res /\ rec.prev = run[r].prev
       /\ rec.outer = run[r].outer /\ rec.before = run[r].before /\ rec.alone = run[r].alone
  BY <1>2, <1>3, <1>4, <1>5, <1>7 DEF RunRecords
<1> HIDE DEF rec
<1>11. run' = [run EXCEPT ![r] = rec] \/ run' = Disturbed([run EXCEPT ![r] = rec])
  BY <1>2
<1>12. /\ RunTypes' /\ Unmixed' /\ Active' = Active /\ SameAction(r)
       /\ run'[r].ops = Tail(run[r].ops) /\ run'[r].good = good /\ run'[r].took = run[r].took \cup took
       /\ SceneOf(r)' = SceneOf(r) /\ Action(r)' = Action(r) /\ Attached' = Attached
       /\ \A x \in Active : InStep(x)' /\ ResultsSoFar(x)' /\ SameAction(x) /\ (x # r => ~run'[x].alone)
       /\ run'[r].alone => Undisturbed(r) /\ HoldsScope(r)' /\ Active = {r} /\ run' = new
  <2>1. rec.good = "degraded" => rec.ops = << >>
    BY <1>7, <1>10
  <2> QED
    BY <1>2, <1>7, <1>8, <1>9, <1>10, <1>11, <2>1, ActionGoesOn
<1>13. run'[r].alone => F = {}
  <2> SUFFICES ASSUME F # {} PROVE run'[r].alone = FALSE
    OBVIOUS
  <2>1. new \in [Runs -> RunRecords \cup {Idle}] /\ new[r] = rec
    BY <1>1, <1>10 DEF RunTypes
  <2>2. IF new[r].pc = "idle" THEN Disturbed(new)[r] = new[r] ELSE Disturbed(new)[r] = [new[r] EXCEPT !.alone = FALSE]
    BY <2>1, DisturbedType
  <2> HIDE DEF new
  <2>3. run'[r] = [rec EXCEPT !.alone = FALSE]
    BY <1>2, <1>10, <2>1, <2>2
  <2> QED
    BY <1>10, <2>3 DEF RunRecords
<1> HIDE DEF new
<1>14. run'[r].alone => sent = nets
  BY <1>13 DEF sent
<1>15. AirInv'
  <2>1. CASE nets = {}
    <3>1. ASSUME air # None, run'[air.by].alone PROVE run[air.by].alone
      <4>1. air.by \in Active
        BY <3>1, AirType
      <4>2. air.by = r
        BY <1>12, <3>1, <4>1
      <4> QED
        BY <1>1, <1>3, <1>10, <1>12, <3>1, <4>2 DEF new, RunTypes
    <3>2. air # None => SameAction(air.by)
      BY <1>12, AirType
    <3> QED
      BY <1>1, <1>2, <2>1, <3>1, <3>2, AirKept
  <2>2. CASE nets # {}
    <3>1. air' = [by |-> r, op |-> op, nets |-> nets, up |-> Attached, took |-> took]
      BY <1>2, <2>2
    <3>2. took = IF op.sender = "send_control" THEN Takes(op, sent) ELSE {}
      BY DEF took
    <3> QED
      BY <1>1, <1>2, <1>3, <1>4, <1>5, <1>6, <1>12, <1>14, <2>2, <3>1, <3>2, NewOnAir DEF nets
  <2> QED
    BY <2>1, <2>2
<1>16. ASSUME run'[r].alone PROVE Undisturbed(r)'
  <2>1. Undisturbed(r) /\ sent = nets /\ InStep(r)
    BY <1>1, <1>3, <1>12, <1>14, <1>16
  <2>2. Sends(r)
    BY <1>2, <1>4, <1>5, <1>7, <1>12, <2>1 DEF Sends, took, nets
  <2>3. StillToHear(r)'
    BY <1>1, <1>3, <2>1, <2>2, HearsOn
  <2>4. StillToSet(r)'
    <3>1. CASE ~Selects(Action(r))
      BY <1>12, <3>1 DEF StillToSet
    <3>2. CASE Selects(Action(r)) /\ op \in OffsetFrames
      BY <1>1, <1>3, <1>4, <1>5, <2>1, <2>2, <3>2, SetsOn
    <3>3. CASE op \notin OffsetFrames
      <4>1. off' = off
        BY <1>2, <1>5, <3>3, FrameKinds
      <4> QED
        BY <1>2, <1>4, <1>5, <1>12, <2>1, <3>3, <4>1, OffsetsStand DEF Undisturbed
    <3> QED
      BY <3>1, <3>2, <3>3
  <2> QED
    BY <1>12, <1>16, <2>3, <2>4 DEF Undisturbed
<1> QED
  BY <1>12, <1>15, <1>16 DEF IInv, AirInv

-----------------------------------------------------------------------------
(* The theorems                                                            *)

\* Gateways in some order: a list without repetitions.
LEMMA UpLists ==
  UNION {SetToSeqs(S) : S \in SUBSET Nets} = {s \in Seq(Nets) : \A i, j \in 1 .. Len(s) : s[i] = s[j] => i = j}
<1>1. ASSUME NEW S \in SUBSET Nets, NEW s \in SetToSeqs(S)
      PROVE  s \in Seq(Nets) /\ \A i, j \in 1 .. Len(s) : s[i] = s[j] => i = j
  <2> DEFINE n == Cardinality(S)
  <2>1. n \in Nat
    BY FleetAssumption, FS_Subset, FS_CardinalityType
  <2>2. s \in [1 .. n -> S] /\ \A i, j \in 1 .. n : i # j => s[i] # s[j]
    BY DEF SetToSeqs
  <2> HIDE DEF n
  <2>3. s \in Seq(Nets) /\ Len(s) = n
    BY <2>1, <2>2, SeqDef, LenProperties
  <2> QED
    BY <2>2, <2>3
<1>2. ASSUME NEW s \in Seq(Nets), \A i, j \in 1 .. Len(s) : s[i] = s[j] => i = j
      PROVE  \E S \in SUBSET Nets : s \in SetToSeqs(S)
  <2> DEFINE n == Len(s)
             S == {s[i] : i \in 1 .. n}
  <2>1. n \in Nat /\ s \in [1 .. n -> Nets]
    BY LenProperties
  <2> HIDE DEF n
  <2>2. S \in SUBSET Nets /\ s \in [1 .. n -> S]
    BY <2>1
  <2>3. \A t \in S : \E i \in 1 .. n : s[i] = t
    OBVIOUS
  <2> HIDE DEF S
  <2>4. s \in Bijection(1 .. n, S)
    BY <1>2, <2>2, <2>3 DEF Bijection, Injection, Surjection, IsInjective, n
  <2>5. Cardinality(S) = n
    BY <2>1, <2>4, FS_CountingElements DEF ExistsBijection
  <2>6. s \in SetToSeqs(S)
    BY <1>2, <2>2, <2>5 DEF SetToSeqs, n
  <2> QED
    BY <2>2, <2>6
<1> QED
  BY <1>1, <1>2

\* The invariant holds at first.
LEMMA InitInv == Init => IInv
<1> SUFFICES ASSUME Init PROVE IInv
  OBVIOUS
<1>1. Active = {} /\ run \in [Runs -> RunRecords \cup {Idle}]
  BY DEF Init, Active, Idle
<1>2. scope = None /\ blocked = FALSE /\ mixed = FALSE /\ air = None /\ off \in OffsetsOfNodes
  BY DEF Init, OffsetsOfNodes
<1>3. up \in Seq(Nets) /\ \A i, j \in 1 .. Len(up) : up[i] = up[j] => i = j
  BY UpLists DEF Init
<1>4. RunTypes
  BY <1>1, <1>2, <1>3 DEF RunTypes
<1>5. Unmixed
  BY <1>1, <1>2 DEF Unmixed
<1>6. BroadcastInScope /\ ChildrenFindParticipants
  BY <1>2 DEF BroadcastInScope, ChildrenFindParticipants
<1> QED
  BY <1>1, <1>2, <1>4, <1>5, <1>6 DEF IInv

\* It survives when nothing changes.
LEMMA StutterInv == IInv /\ UNCHANGED vars => IInv'
<1> SUFFICES ASSUME IInv, UNCHANGED vars PROVE IInv'
  OBVIOUS
<1>1. UNCHANGED <<scope, blocked, up, run, off, air, mixed>>
  BY DEF vars
<1>2. RunTypes /\ Unmixed /\ AirInv
      /\ \A x \in Active : InStep(x) /\ ResultsSoFar(x) /\ (run[x].alone => Undisturbed(x))
  BY Parts
<1>3. Active' = Active /\ \A x : SameRun(x) /\ run'[x].alone = run[x].alone
  BY <1>1 DEF Active, SameRun, SameAction
<1>4. RunTypes' /\ Unmixed'
  BY <1>1, <1>2, <1>3 DEF RunTypes, Unmixed
<1>5. AirInv'
  BY <1>1, <1>2, <1>3, AirKept DEF SameRun
<1>6. \A x \in Active : InStep(x)' /\ ResultsSoFar(x)'
  BY <1>2, <1>3, Bystander
<1>7. \A x \in Active : run'[x].alone => Undisturbed(x)'
  BY <1>1, <1>2, <1>3, UndisturbedKept
<1> QED
  BY <1>3, <1>4, <1>5, <1>6, <1>7 DEF IInv, AirInv

\* Every step keeps it.
LEMMA NextInv == IInv /\ [Next]_vars => IInv'
<1> SUFFICES ASSUME IInv, [Next]_vars PROVE IInv'
  OBVIOUS
<1>1. ASSUME NEW r \in Runs, NEW k \in DOMAIN Scenes, Begin(r, k) PROVE IInv'
  BY <1>1, BeginStep
<1>2. ASSUME NEW r \in Runs, RunStep(r) PROVE IInv'
  BY <1>2, PlansStep, SendOpStep, SendRaisesStep, EndActionStep, FinishStep DEF RunStep
<1>3. ASSUME NEW x \in Nets, GatewayComes(x) \/ GatewayGoes(x) PROVE IInv'
  BY <1>3, GatewayComesStep, GatewayGoesStep
<1>4. CASE UNCHANGED vars
  BY <1>4, StutterInv
<1> QED
  BY <1>1, <1>2, <1>3, <1>4 DEF Next

\* It always holds.
LEMMA InvHolds == Spec => []IInv
BY InitInv, NextInv, PTL DEF Spec

\* Nothing is left to send: what was to be set is set, and who was to hear has heard.
LEMMA NothingLeft == \A n : (\A v : ~Sets(<< >>, n, v)) /\ ~(\E i \in 1 .. Len(<< >>) : Reaches(<< >>[i], n))
<1>1. 1 .. Len(<< >>) = {}
  BY EmptySeq
<1> QED
  BY <1>1 DEF Sets

\* The variables and the records of the runs keep their types, and each run has a
\* result for each action it has ended (SceneRunnerService.run).
THEOREM TypeCorrect == Spec => []TypeOK
<1>1. IInv => TypeOK
  <2> SUFFICES ASSUME IInv PROVE TypeOK
    OBVIOUS
  <2>1. RunTypes /\ \A r \in Active : InStep(r)
    BY Parts
  <2>2. up \in UNION {SetToSeqs(S) : S \in SUBSET Nets}
    BY <2>1, UpLists DEF RunTypes
  <2>3. ASSUME NEW r \in Active
        PROVE  /\ run[r].pc \in {"plan", "send"} /\ run[r].i \in 1 .. Len(SceneOf(r).actions) + 1
               /\ run[r].good \in {"ok", "error", "degraded"} /\ run[r].took \subseteq Nodes
               /\ Len(run[r].res) = run[r].i - 1
    BY <2>1, <2>3, RunRecord DEF RunRecords, InStep, Outcomes
  <2>4. off \in [Nodes -> 0 .. OffsetMax \cup {Normal}]
    BY <2>1 DEF RunTypes, OffsetsOfNodes
  <2>5. scope \in ((SUBSET Nets) \ {{}}) \cup {None} /\ blocked \in BOOLEAN /\ mixed \in BOOLEAN
    BY <2>1 DEF RunTypes
  <2>6. air # None => air.nets \subseteq air.up /\ run[air.by].pc = "send"
    BY DEF IInv
  <2> QED
    BY <2>2, <2>3, <2>4, <2>5, <2>6 DEF TypeOK
<1> QED
  BY <1>1, InvHolds, PTL

\* The broadcast scope is that of the run that sends and of the container under way,
\* and none is left behind (run and its finally clause, _run_offset_group).
THEOREM ScopeCorrect == Spec => []ScopeIsOwn
<1>1. IInv => ScopeIsOwn
  BY DEF IInv, Unmixed, ScopeIsOwn, ScopeReleased
<1> QED
  BY <1>1, InvHolds, PTL

\* After a container every node it is for has the offset it is meant to have, on
\* whichever wire path, and its children find those nodes and no others (plan_offset_setup).
THEOREM ContainerCorrect == Spec => []ContainerSelects
<1>1. IInv => ContainerSelects
  <2> SUFFICES ASSUME IInv PROVE ContainerIsExact
    BY DEF ContainerSelects, IInv
  <2> SUFFICES ASSUME NEW r \in Active, run[r].pc = "send", run[r].ops = << >>, run[r].good = "ok", run[r].alone,
                      Selects(Action(r)), NEW n \in Nodes
               PROVE  LET a == Action(r) IN
                      IF n \in Participants(r, a) THEN off[n] = Wanted(a.offset, n)
                      ELSE Narrowed(a) /\ GroupOf[n] # 0 => off[n] \in {run[r].before[n], Normal}
    BY DEF ContainerIsExact, Wanted
  <2>1. StillToSet(r)
    BY Parts DEF Undisturbed
  <2> QED
    BY <2>1, NothingLeft DEF StillToSet
<1> QED
  BY <1>1, InvHolds, PTL

\* An effect reported as ok was taken by every node it is for, and the results tell
\* what was skipped (SceneRunnerService.run, _dispatch).
THEOREM ResultsCorrect == Spec => []ResultsAreTrue
<1>1. IInv => OkMeansHeard
  <2> SUFFICES ASSUME IInv, NEW r \in Active, run[r].pc = "send", run[r].ops = << >>, run[r].good = "ok", run[r].alone,
                      Action(r).kind = "effect", NEW n \in Nodes, NetworkOf[n] \in Attached,
                      OffsetFlag(Action(r), None) = (run[r].before[n] # Normal),
                      CASE Action(r).target.kind = "broadcast" -> InScene(SceneOf(r), NetworkOf[n])
                        [] Action(r).target.kind = "groups" -> GroupOf[n] \in Action(r).target.value \ {0}
                        [] Action(r).target.kind = "device" -> n = Action(r).target.value
               PROVE  n \in run[r].took
    BY DEF OkMeansHeard
  <2>1. StillToHear(r) /\ InStep(r) /\ run[r].key \in DOMAIN Scenes
    BY Parts, RunRecord DEF Undisturbed, RunRecords
  <2>2. Action(r).target.kind \in {"broadcast", "groups", "device"}
    <3>1. run[r].i \in 1 .. Len(SceneOf(r).actions)
      BY <2>1 DEF InStep
    <3>2. Action(r) \in Actions
      BY <2>1, <3>1, SceneTypes DEF SceneOf, Action
    <3> QED
      BY <3>2 DEF Actions, Effects, Targets
  <2>3. /\ Meant(Action(r).target, n)
        /\ Action(r).target.kind = "broadcast" => InScene(SceneOf(r), NetworkOf[n])
    BY <2>2 DEF Meant
  <2> QED
    BY <2>1, <2>3, NothingLeft DEF StillToHear
<1>2. IInv => ResultsTell
  <2> SUFFICES ASSUME IInv, NEW r \in Active, run[r].pc = "plan", run[r].i > Len(SceneOf(r).actions)
               PROVE  /\ Len(run[r].res) = Len(SceneOf(r).actions)
                      /\ \A j \in DOMAIN run[r].res :
                           run[r].res[j] = "skipped" <=> SceneOf(r).stop /\ \E k \in 1 .. j - 1 : run[r].res[k] = "error"
    BY DEF ResultsTell
  <2>1. InStep(r) /\ ResultsSoFar(r) /\ run[r].key \in DOMAIN Scenes /\ run[r].res \in Seq(Outcomes \cup {"skipped"})
    BY Parts, RunRecord DEF RunRecords
  <2>2. Len(SceneOf(r).actions) \in Nat
    BY <2>1, SceneTypes DEF SceneOf
  <2>3. Len(run[r].res) = Len(SceneOf(r).actions)
    BY <2>1, <2>2 DEF InStep
  <2>4. DOMAIN run[r].res = 1 .. Len(run[r].res)
    BY <2>1, LenProperties
  <2> QED
    BY <2>1, <2>3, <2>4 DEF ResultsSoFar
<1>3. IInv => ResultsAreTrue
  BY <1>1, <1>2 DEF ResultsAreTrue
<1> QED
  BY <1>3, InvHolds, PTL

=============================================================================
