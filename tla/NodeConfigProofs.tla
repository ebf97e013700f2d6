---------------------------- MODULE NodeConfigProofs ----------------------------
(***************************************************************************)
(* Proofs about NodeConfig for any threads, nodes, inputs and retries.     *)
(*                                                                         *)
(* An ACK names neither option nor attempt, so the properties are not      *)
(* inductive: what an ACK will do depends on the stash and on every frame  *)
(* and answer still under way.  The invariant collects, for a node whose   *)
(* writes never overlapped, the writes that can still reach it (Live): at  *)
(* most one (OneWrite), the one the stash is for (StashInv), carried out   *)
(* once an answer says so (AckInv, GotInv).  MirrorInv says which answer   *)
(* on its way will make each bit of the mirror right.                      *)
(***************************************************************************)
EXTENDS NodeConfig, SequenceTheorems, TLAPS

Kinds == {"config", "special", "startblock", "reset", "clear"}
Values(o) == {v \in InputValues : v <= MaxValue(o)}

\* The writes of an operation of each kind.
ClearShape(s) ==
    /\ \A i \in 1 .. Len(s) :
          /\ s[i].opt \in {"persist", "forget"}
          /\ s[i].opt = "persist" => s[i].val = 0
          /\ s[i].opt = "forget" => /\ i > 1 /\ Len(s) # Len(DeviceList)
                                    /\ s[i - 1].opt = "persist" /\ s[i - 1].dev = s[i].dev
    /\ Len(s) # Len(DeviceList) =>
          \A i \in 1 .. Len(s) : s[i].opt = "persist" /\ i + 2 <= Len(s) => s[i + 2].opt = "persist"

Shape(kind, s) ==
    /\ s \in Seq(Writes) /\ s # << >>
    /\ \A i \in 1 .. Len(s) : s[i].val \in Values(s[i].opt)
    /\ kind = "config" => Len(s) = 1 /\ s[1].opt \in Bits \cup {"forget"}
    /\ kind = "special" => Len(s) = 1 /\ s[1].opt \in Keys
    /\ kind = "startblock" => Len(s) = 2 /\ s[1].opt = "slots" /\ s[2].opt = "first" /\ s[1].dev = s[2].dev
    /\ kind = "reset" => Len(s) = 1 /\ s[1].opt = "reset" /\ s[1].val = 0
    /\ kind = "clear" => ClearShape(s)

----------------------------------------------------------------------------
(* Values and requests                                                     *)

LEMMA InputTypes ==
    /\ InputValues \subseteq Nat /\ {0, 1} \subseteq InputValues
    /\ \A o \in Options : Values(o) \subseteq InputValues
    /\ \A o \in Options : MaxValue(o) \in Nat
BY InputsAssumption DEF InputValues, Values, MaxValue, Wide, Bits, Keys, Options

\* What the node reads from a frame, and the stash of a bit, is what was asked for.
LEMMA PackUnpack ==
    ASSUME NEW o \in Options, NEW v \in Values(o)
    PROVE  /\ Unpack(o, Pack(o, v)) = v
           /\ o \in Bits => Pack(o, v)[1] = v /\ v \in {0, 1}
           /\ Pack(o, v)[1] \in 0 .. 255 /\ v % 65536 = v
<1>1. v \in Nat /\ v <= MaxValue(o)
  BY InputTypes DEF Values
<1>2. CASE o \in Wide
  <2>1. v <= 65535 /\ o \notin Bits
    BY <1>1, <1>2 DEF MaxValue, Wide, Bits
  <2>2. Pack(o, v)[1] = v % 256 /\ Pack(o, v)[2] = (v \div 256) % 256
    BY <1>2 DEF Pack
  <2>3. (v % 256) + 256 * ((v \div 256) % 256) = v /\ v % 256 \in 0 .. 255 /\ v % 65536 = v
    BY <1>1, <2>1
  <2> QED
    BY <1>2, <2>1, <2>2, <2>3 DEF Unpack
<1>3. CASE o \notin Wide
  <2>1. v <= 255 /\ (o \in Bits => v \in {0, 1})
    BY <1>1, <1>3 DEF MaxValue
  <2>2. Pack(o, v)[1] = v % 256
    BY <1>3 DEF Pack
  <2>3. v % 256 = v /\ v % 65536 = v
    BY <1>1, <2>1
  <2> QED
    BY <1>1, <1>3, <2>1, <2>2, <2>3 DEF Unpack
<1> QED
  BY <1>2, <1>3

LEMMA RequestsDomain == DOMAIN Requests = Kinds
BY DEF Requests, Kinds

\* The inputs for a set of options are valid writes.
LEMMA AskedShape ==
    ASSUME NEW d \in Devices, NEW S \in SUBSET Options, NEW w \in Asked(d, S)
    PROVE  w \in Writes /\ w.dev = d /\ w.opt \in S /\ w.val \in Values(w.opt)
<1>1. PICK x \in Inputs : x.opt \in S /\ Valid(x) /\ w = Write(d, x.opt, x.val)
  BY DEF Asked
<1>2. x.val \in Nat /\ x.val \in InputValues
  BY InputsAssumption DEF InputValues
<1> QED
  BY <1>1, <1>2 DEF Write, Writes, Valid, Values

LEMMA OneShape ==
    ASSUME NEW w \in Writes
    PROVE  << w >> \in Seq(Writes) /\ << w >> # << >> /\ Len(<< w >>) = 1 /\ << w >>[1] = w
OBVIOUS

LEMMA ClearStepsShape ==
    ASSUME NEW forget \in BOOLEAN, DeviceList # << >>
    PROVE  Shape("clear", ClearSteps(forget))
<1> DEFINE s == ClearSteps(forget)  n == Len(DeviceList)
<1>1. n \in Nat \ {0} /\ \A i \in 1 .. n : DeviceList[i] \in Devices
  BY DevicesAssumption
<1>2. {"persist", "forget"} \subseteq Options /\ 0 \in Values("persist") /\ 1 \in Values("forget")
  BY InputTypes DEF Options, Bits, Values, MaxValue, Wide
<1>3. \A d \in Devices : Write(d, "persist", 0) \in Writes /\ Write(d, "forget", 1) \in Writes
  BY <1>2, InputTypes DEF Write, Writes
<1>4. \A d : /\ Write(d, "persist", 0).opt = "persist" /\ Write(d, "persist", 0).val = 0
             /\ Write(d, "persist", 0).dev = d /\ Write(d, "forget", 1).dev = d
             /\ Write(d, "forget", 1).opt = "forget" /\ Write(d, "forget", 1).val = 1
  BY DEF Write
<1>5. CASE forget
  <2>1. s = [i \in 1 .. 2 * n |-> IF i % 2 = 1 THEN Write(DeviceList[(i + 1) \div 2], "persist", 0)
                                  ELSE Write(DeviceList[i \div 2], "forget", 1)]
    BY <1>5 DEF ClearSteps
  <2>2. 2 * n \in Nat /\ 2 * n # n /\ 2 * n >= 2
    BY <1>1
  <2>3. ASSUME NEW i \in 1 .. 2 * n
        PROVE  /\ i % 2 = 1 => (i + 1) \div 2 \in 1 .. n
               /\ i % 2 # 1 => i \div 2 \in 1 .. n /\ i > 1 /\ (i - 1) % 2 = 1 /\ ((i - 1) + 1) \div 2 = i \div 2
               /\ i % 2 = 1 => (i + 2) % 2 = 1
    BY <1>1
  <2> HIDE DEF s, n
  <2>4. \A i \in 1 .. 2 * n : s[i] \in Writes
    BY <1>1, <1>3, <2>1, <2>3
  <2>5. s \in Seq(Writes) /\ Len(s) = 2 * n
    <3>1. s \in [1 .. 2 * n -> Writes]
      BY <2>1, <2>4
    <3> QED
      BY <2>2, <3>1
  <2>6. \A i \in 1 .. 2 * n : /\ i % 2 = 1 => s[i] = Write(DeviceList[(i + 1) \div 2], "persist", 0)
                              /\ i % 2 # 1 => s[i] = Write(DeviceList[i \div 2], "forget", 1)
    BY <2>1
  <2>7. ASSUME NEW i \in 1 .. Len(s)
        PROVE  /\ s[i].opt \in {"persist", "forget"} /\ s[i].val \in Values(s[i].opt)
               /\ s[i].opt = "persist" => s[i].val = 0 /\ i % 2 = 1
               /\ s[i].opt = "forget" => i > 1 /\ s[i - 1].opt = "persist" /\ s[i - 1].dev = s[i].dev
    <3>1. CASE i % 2 = 1
      BY <1>2, <1>4, <2>5, <2>6, <3>1
    <3>2. CASE i % 2 # 1
      <4>1. i - 1 \in 1 .. 2 * n /\ (i - 1) % 2 = 1 /\ i > 1 /\ ((i - 1) + 1) \div 2 = i \div 2
        BY <2>2, <2>3, <2>5, <3>2
      <4>2. s[i - 1] = Write(DeviceList[i \div 2], "persist", 0) /\ s[i] = Write(DeviceList[i \div 2], "forget", 1)
        BY <2>5, <2>6, <3>2, <4>1
      <4> QED
        BY <1>2, <1>4, <4>1, <4>2
    <3> QED
      BY <3>1, <3>2
  <2>8. ASSUME NEW i \in 1 .. Len(s), s[i].opt = "persist", i + 2 <= Len(s)
        PROVE  s[i + 2].opt = "persist"
    <3>1. i % 2 = 1
      BY <2>7, <2>8
    <3>2. i + 2 \in 1 .. 2 * n /\ (i + 2) % 2 = 1
      BY <2>3, <2>5, <2>8, <3>1
    <3> QED
      BY <1>4, <2>6, <3>2
  <2>9. ClearShape(s)
    BY <2>2, <2>5, <2>7, <2>8 DEF ClearShape, n
  <2> QED
    BY <2>2, <2>5, <2>7, <2>9 DEF Shape, s
<1>6. CASE ~forget
  <2>1. s = [i \in 1 .. n |-> Write(DeviceList[i], "persist", 0)]
    BY <1>6, DevicesAssumption DEF ClearSteps
  <2> HIDE DEF s
  <2>2. s \in Seq(Writes) /\ Len(s) = n /\ \A i \in 1 .. n : s[i] = Write(DeviceList[i], "persist", 0)
    <3>1. s \in [1 .. n -> Writes]
      BY <1>1, <1>3, <2>1
    <3> QED
      BY <1>1, <2>1, <3>1
  <2>3. ClearShape(s)
    BY <1>4, <2>2 DEF ClearShape
  <2> QED
    BY <1>1, <1>2, <1>4, <2>2, <2>3 DEF Shape, s
<1> QED
  BY <1>5, <1>6

LEMMA RequestsShape ==
    ASSUME NEW kind \in Kinds, NEW s \in Requests[kind]
    PROVE  Shape(kind, s)
<1>0. Bits \cup {"forget"} \subseteq Options /\ Keys \subseteq Options /\ "reset" \in Options
  BY DEF Options
<1>1. CASE kind = "config"
  <2>1. PICK d \in Devices : \E w \in Asked(d, Bits \cup {"forget"}) : s = << w >>
    BY <1>1 DEF Requests, ConfigSteps
  <2>2. PICK w \in Asked(d, Bits \cup {"forget"}) : s = << w >>
    BY <2>1
  <2> QED
    <3>1. w \in Writes /\ w.opt \in Bits \cup {"forget"} /\ w.val \in Values(w.opt)
      BY <1>0, AskedShape
    <3> QED
      BY <1>1, <2>2, <3>1, OneShape DEF Shape
<1>2. CASE kind = "special"
  <2>1. PICK d \in Devices : \E w \in Asked(d, Keys) : s = << w >>
    BY <1>2 DEF Requests, SpecialSteps
  <2>2. PICK w \in Asked(d, Keys) : s = << w >>
    BY <2>1
  <2> QED
    <3>1. w \in Writes /\ w.opt \in Keys /\ w.val \in Values(w.opt)
      BY <1>0, AskedShape
    <3> QED
      BY <1>2, <2>2, <3>1, OneShape DEF Shape
<1>3. CASE kind = "startblock"
  <2>1. PICK d \in Devices : \E v \in Asked(d, {"slots"}), w \in Asked(d, {"first"}) : s = << v, w >>
    BY <1>3 DEF Requests, StartblockSteps
  <2>2. PICK v \in Asked(d, {"slots"}), w \in Asked(d, {"first"}) : s = << v, w >>
    BY <2>1
  <2>3. v \in Writes /\ v.dev = d /\ v.opt = "slots" /\ v.val \in Values(v.opt)
    BY AskedShape DEF Options, Keys
  <2>4. w \in Writes /\ w.dev = d /\ w.opt = "first" /\ w.val \in Values(w.opt)
    BY AskedShape DEF Options, Keys
  <2>5. s \in Seq(Writes) /\ Len(s) = 2 /\ s[1] = v /\ s[2] = w
    BY <2>2, <2>3, <2>4
  <2>6. \A i \in 1 .. Len(s) : s[i].val \in Values(s[i].opt)
    <3>1. 1 .. Len(s) = {1, 2}
      BY <2>5
    <3> QED
      BY <2>3, <2>4, <2>5, <3>1
  <2>7. s # << >>
    BY <2>2
  <2> QED
    BY <1>3, <2>3, <2>4, <2>5, <2>6, <2>7 DEF Shape
<1>4. CASE kind = "reset"
  <2>1. PICK d \in Devices : s = << Write(d, "reset", 0) >>
    BY <1>4 DEF Requests, ResetSteps
  <2>2. Write(d, "reset", 0) \in Writes /\ Write(d, "reset", 0).opt = "reset" /\ Write(d, "reset", 0).val = 0
    BY <1>0, InputTypes DEF Write, Writes
  <2>3. 0 \in Values("reset")
    BY InputTypes DEF Values, MaxValue, Wide, Bits
  <2> QED
    BY <1>4, <2>1, <2>2, <2>3, OneShape DEF Shape
<1>5. CASE kind = "clear"
  <2>1. PICK forget \in BOOLEAN : DeviceList # << >> /\ s = ClearSteps(forget)
    BY <1>5 DEF Requests
  <2> QED
    BY <1>5, <2>1, ClearStepsShape
<1> QED
  BY <1>1, <1>2, <1>3, <1>4, <1>5 DEF Kinds

----------------------------------------------------------------------------
(* The inductive invariant                                                 *)

Answers == [type : {"ack"}, status : {"ok", "nak"}]
             \cup [type : {"status"}, config : [Bits -> {0, 1}]]
JobType == [kind : Kinds \cup {None}, steps : Seq(Writes), i : Nat, pc : Steps,
            attempt : 1 .. MaxAttempts, id : Nat, got : {None, "ok", "nak"}]
FrameOK(f) == f.dev \in Devices /\ f.opt \in Options /\ \E v \in Values(f.opt) : f.data = Pack(f.opt, v)

HostTypes ==
    /\ job \in [Callers -> JobType] /\ running \in Callers \cup {None}
    /\ stash \in [Devices -> [opt : Options, val : 0 .. 255] \cup {None}]
    /\ \A d \in Devices : stash[d] # None /\ stash[d].opt \in Bits => stash[d].val \in {0, 1}
    /\ config \in [Devices -> [Bits -> {0, 1}]]
    /\ specials \in [Devices -> [Keys -> InputValues]]
    /\ readback \in [dev : Devices, key : Keys, val : InputValues] \cup {None}
    /\ released \subseteq Devices /\ kept \subseteq Devices
NodeTypes ==
    /\ node \in [Devices -> [Bits \cup Keys -> InputValues]]
    /\ \A d \in Devices, r \in Bits \cup Keys : node[d][r] \in Values(r)
    /\ \A f \in air : FrameOK(f)
    /\ up \in [Devices -> Seq(Answers)] /\ matched \in [Devices -> BOOLEAN]
    /\ \A d \in Devices : matched[d] => up[d] # << >> /\ up[d][1].type = "ack"
HistTypes == unheard \in [Devices -> SUBSET Bits] /\ disturbed \subseteq Devices /\ writes \in Nat
Types == HostTypes /\ NodeTypes /\ HistTypes

\* A thread that is not idle carries out an operation; it stores what a special
\* operation wrote after the last ACK only.
JobOK(j) ==
    j.pc # "idle" =>
        /\ j.kind \in Kinds /\ Shape(j.kind, j.steps) /\ j.i \in 1 .. Len(j.steps)
        /\ j.pc = "stash" => j.got = None
        /\ j.pc = "store" => j.kind \notin {"config", "clear"} /\ j.got = "ok" /\ j.i = Len(j.steps)
JobInv == \A c \in Callers : JobOK(job[c])

\* The writes that can still reach a node: frames on the air, and writes a
\* thread may send again.
Sending(c, d) == job[c].pc \in {"send", "wait", "store"} /\ Current(c).dev = d
Frame(f) == [opt |-> f.opt, val |-> Unpack(f.opt, f.data), id |-> f.id]
Own(c) == [opt |-> Current(c).opt, val |-> Current(c).val, id |-> job[c].id]
Live(d) == {Frame(f) : f \in {g \in air : g.dev = d}}
             \cup {Own(c) : c \in {b \in Callers : Sending(b, d)}}

\* A write has been carried out and nothing else has overwritten it.
Effect(regs, x) ==
    /\ x.opt \in Bits \cup Keys => regs[x.opt] = x.val
    /\ x.opt = "reset" => regs["wled"] = 0

IsOk(a) == a.type = "ack" /\ a.status = "ok"
Pending(d, b) == stash[d] # None /\ stash[d].opt = b

OneWrite(d) == \A x, y \in Live(d) : x = y
StashInv(d) ==
    \A x \in Live(d) :
        /\ stash[d] # None => stash[d].opt = x.opt /\ (x.opt \in Bits => stash[d].val = x.val)
        /\ stash[d] = None /\ x.opt \in Bits => node[d][x.opt] = x.val /\ x.opt \notin unheard[d]

\* An ACK on its way tells of a write that was carried out; its bit is then as
\* the stash says, and later reports agree.
AckInv(d) ==
    (\E i \in DOMAIN up[d] : IsOk(up[d][i]))
       => \A x \in Live(d) : x.id \in executed /\ Effect(node[d], x)
PendInv(d) ==
    \A b \in Bits : Pending(d, b) =>
        \A i \in DOMAIN up[d] : IsOk(up[d][i]) =>
            /\ node[d][b] = stash[d].val /\ b \notin unheard[d]
            /\ \A j \in DOMAIN up[d] :
                  j > i /\ up[d][j].type = "status" => up[d][j].config[b] = node[d][b]

\* A later answer in the queue sets the bit again.
Covered(d, b, i) ==
    \E j \in DOMAIN up[d] :
        j > i /\ (up[d][j].type = "status" \/ (IsOk(up[d][j]) /\ Pending(d, b)))
MirrorInv(d) ==
    \A b \in Bits \ unheard[d] :
        /\ ~Covered(d, b, 0) => config[d][b] = node[d][b]
        /\ \A i \in DOMAIN up[d] :
              up[d][i].type = "status" /\ ~Covered(d, b, i) => up[d][i].config[b] = node[d][b]

GotInv(d) ==
    \A c \in Callers : Sending(c, d) /\ job[c].got = "ok"
        => job[c].id \in executed /\ Effect(node[d], Own(c))

\* The second write of a pair is only begun after the first was acknowledged,
\* which then still holds.
SecondAt(j) == j.i > 1 /\ (j.kind = "startblock" \/ (j.kind = "clear" /\ j.steps[j.i].opt = "forget"))
Before(c) == job[c].steps[job[c].i - 1]
SecondInv(d) ==
    \A c \in Callers : job[c].pc # "idle" /\ SecondAt(job[c]) /\ Current(c).dev = d =>
        /\ Effect(node[d], Before(c))
        /\ job[c].pc = "stash" => \A x \in Live(d) : x.opt = Before(c).opt /\ x.val = Before(c).val

ReleasedInv(d) ==
    d \in released => node[d]["persist"] = 0 /\ \A x \in Live(d) : x.opt = "persist" => x.val = 0

Calm(d) == /\ OneWrite(d) /\ StashInv(d) /\ AckInv(d) /\ PendInv(d) /\ MirrorInv(d)
           /\ GotInv(d) /\ SecondInv(d) /\ ReleasedInv(d)
CalmInv == \A d \in Devices \ disturbed : Calm(d)

IInv == Types /\ JobInv /\ CalmInv

----------------------------------------------------------------------------
(* What a thread is at                                                     *)

LEMMA CurrentType ==
    ASSUME Types, JobInv, NEW c \in Callers, job[c].pc # "idle"
    PROVE  /\ job[c] \in JobType /\ Current(c) \in Writes
           /\ Current(c).dev \in Devices /\ Current(c).opt \in Options
           /\ Current(c).val \in Values(Current(c).opt)
           /\ job[c].i \in 1 .. Len(job[c].steps) /\ Len(job[c].steps) \in Nat
           /\ DOMAIN job[c].steps = 1 .. Len(job[c].steps)
<1>1. job[c] \in JobType /\ Shape(job[c].kind, job[c].steps) /\ job[c].i \in 1 .. Len(job[c].steps)
  BY DEF Types, HostTypes, JobInv, JobOK
<1>2. job[c].steps \in Seq(Writes) /\ Current(c).val \in Values(Current(c).opt)
  BY <1>1 DEF Shape, Current
<1>3. Current(c) \in Writes
  BY <1>1, <1>2 DEF Current
<1> QED
  BY <1>1, <1>2, <1>3 DEF Writes

\* What the end of a write makes of its thread.
Ended(c, j) ==
    /\ j.pc \in {"idle", "store", "stash"}
    /\ j.pc # "idle" => j.kind = job[c].kind /\ j.steps = job[c].steps /\ j.id = job[c].id
    /\ j.pc = "store" => /\ j.i = job[c].i /\ j.i = Len(j.steps) /\ j.got = "ok" /\ job[c].got = "ok"
                         /\ j.kind \notin {"config", "clear"}
    /\ j.pc = "stash" => /\ j.got = None /\ j.i \in 1 .. Len(j.steps)
                         /\ SecondAt(j) => j.i = job[c].i + 1 /\ job[c].got = "ok"

\* The devices a thread may list as cleared at the end of a write.
MayRelease(c) ==
    {d \in {Current(c).dev} :
        /\ job[c].pc # "idle" /\ job[c].kind = "clear"
        /\ Current(c).opt = "forget" \/ (Current(c).opt = "persist" /\ job[c].got = "ok")}

LEMMA NoJobType == NoJob \in JobType /\ NoJob.pc = "idle"
BY BoundAssumption DEF NoJob, JobType, Steps

LEMMA AdvanceEnds ==
    ASSUME Types, JobInv, NEW c \in Callers, job[c].pc # "idle", NEW k \in Nat, Advance(c, k),
           k >= 1,
           k <= Len(job[c].steps) /\ k > 1
             /\ (job[c].kind = "startblock" \/ (job[c].kind = "clear" /\ job[c].steps[k].opt = "forget"))
             => k = job[c].i + 1 /\ job[c].got = "ok"
    PROVE  /\ \E j \in JobType : job' = [job EXCEPT ![c] = j] /\ Ended(c, j)
           /\ running' \in Callers \cup {None}
<1>0. /\ job[c] \in JobType /\ Len(job[c].steps) \in Nat
      /\ DOMAIN job[c].steps = 1 .. Len(job[c].steps) /\ running \in Callers \cup {None}
  BY CurrentType DEF Types, HostTypes
<1>1. CASE k \in DOMAIN job[c].steps
  <2> DEFINE j == [job[c] EXCEPT !.i = k, !.pc = "stash", !.attempt = 1, !.got = None]
  <2>1. job' = [job EXCEPT ![c] = j] /\ running' = running
    BY <1>1 DEF Advance
  <2>2. /\ j \in JobType /\ j.pc = "stash" /\ j.kind = job[c].kind /\ j.steps = job[c].steps
        /\ j.id = job[c].id /\ j.got = None /\ j.i = k
    <3>1. 1 \in 1 .. MaxAttempts /\ "stash" \in Steps
      BY BoundAssumption DEF Steps
    <3> QED
      BY <1>0, <3>1 DEF JobType
  <2> HIDE DEF j
  <2>3. Ended(c, j)
    BY <1>0, <1>1, <2>2 DEF Ended, SecondAt
  <2> QED
    BY <1>0, <2>1, <2>2, <2>3
<1>2. CASE k \notin DOMAIN job[c].steps
  <2>1. job' = [job EXCEPT ![c] = NoJob] /\ running' = IF running = c THEN None ELSE running
    BY <1>2 DEF Advance, Ends
  <2>2. Ended(c, NoJob)
    BY NoJobType DEF Ended
  <2> QED
    BY <1>0, <2>1, <2>2, NoJobType
<1> QED
  BY <1>1, <1>2

LEMMA EndWriteCases ==
    ASSUME Types, JobInv, NEW c \in Callers, NEW outcome \in {"ok", "no", "raised"},
           job[c].pc \in {"stash", "send", "wait"},
           outcome = "ok" => job[c].kind = "config" \/ job[c].got = "ok", EndWrite(c, outcome)
    PROVE  /\ \E j \in JobType : job' = [job EXCEPT ![c] = j] /\ Ended(c, j)
           /\ released' \subseteq released \cup MayRelease(c)
           /\ running' \in Callers \cup {None} /\ kept' \subseteq Devices
<1> DEFINE s == job[c].steps  i == job[c].i  w == Current(c)
<1>0. /\ job[c] \in JobType /\ job[c].pc # "idle" /\ job[c].kind \in Kinds /\ Shape(job[c].kind, s)
      /\ i \in 1 .. Len(s) /\ Len(s) \in Nat /\ w = s[i] /\ w.dev \in Devices
      /\ running \in Callers \cup {None} /\ kept \subseteq Devices
  BY CurrentType DEF Types, HostTypes, JobInv, JobOK, Current
<1>1. CASE job[c].kind = "clear"
  <2> DEFINE last == w.opt = "forget" \/ Len(s) = Len(DeviceList)
             lost == outcome = "raised" \/ (outcome = "no" /\ w.opt = "persist")
             k == IF last \/ ~lost THEN i + 1 ELSE i + 2
  <2>1. /\ released' = IF last /\ ~lost THEN released \cup {w.dev} ELSE released
        /\ kept' = IF lost THEN kept \cup {w.dev} ELSE kept
        /\ Advance(c, k)
    BY <1>1 DEF EndWrite, EndClear
  <2>2. ClearShape(s)
    BY <1>0, <1>1 DEF Shape
  <2>3. ~lost /\ w.opt = "persist" => job[c].got = "ok"
    BY <1>1
  <2>4. w.opt \in {"persist", "forget"} /\ (w.opt = "forget" => Len(s) # Len(DeviceList))
    BY <1>0, <2>2 DEF ClearShape
  <2>5. ASSUME k <= Len(s), s[k].opt = "forget"
        PROVE  k = i + 1 /\ job[c].got = "ok"
    <3>0. k \in 1 .. Len(s)
      BY <1>0, <2>5
    <3>1. Len(s) # Len(DeviceList) /\ s[k - 1].opt = "persist"
      BY <2>2, <2>5, <3>0 DEF ClearShape
    <3>2. CASE last \/ ~lost
      <4>1. k = i + 1 /\ s[i].opt = "persist"
        BY <1>0, <3>1, <3>2
      <4> QED
        BY <1>0, <2>3, <3>1, <3>2, <4>1
    <3>3. CASE ~(last \/ ~lost)
      <4>1. k = i + 2 /\ w.opt = "persist"
        BY <2>4, <3>3
      <4>2. s[i + 2].opt = "persist"
        BY <1>0, <2>2, <2>5, <3>1, <4>1 DEF ClearShape
      <4> QED
        BY <2>5, <4>1, <4>2
    <3> QED
      BY <3>2, <3>3
  <2>6. k \in Nat /\ k >= 1
    <3>1. k = i + 1 \/ k = i + 2
      OBVIOUS
    <3> HIDE DEF k
    <3> QED
      BY <1>0, <3>1
  <2> HIDE DEF k
  <2>7. /\ \E j \in JobType : job' = [job EXCEPT ![c] = j] /\ Ended(c, j)
        /\ running' \in Callers \cup {None}
    BY <1>0, <1>1, <2>1, <2>5, <2>6, AdvanceEnds
  <2>8. released' \subseteq released \cup MayRelease(c)
    <3>1. CASE last /\ ~lost
      BY <1>0, <1>1, <2>1, <2>3, <2>4, <3>1 DEF MayRelease
    <3>2. CASE ~(last /\ ~lost)
      BY <2>1, <3>2
    <3> QED
      BY <3>1, <3>2
  <2> QED
    BY <1>0, <2>1, <2>7, <2>8
<1>2. CASE job[c].kind # "clear"
  <2>0. released' = released /\ kept' = kept
    BY <1>2 DEF EndWrite
  <2>1. CASE job[c].kind = "config" \/ outcome # "ok"
    <3>1. job' = [job EXCEPT ![c] = NoJob] /\ running' = IF running = c THEN None ELSE running
      BY <1>2, <2>1 DEF EndWrite, Ends
    <3>2. Ended(c, NoJob)
      BY NoJobType DEF Ended
    <3> QED
      BY <1>0, <2>0, <3>1, <3>2, NoJobType
  <2>2. CASE job[c].kind # "config" /\ outcome = "ok" /\ i < Len(s)
    <3>1. Advance(c, i + 1) /\ job[c].got = "ok"
      BY <1>2, <2>2 DEF EndWrite
    <3>2. i + 1 \in Nat /\ i + 1 >= 1
      BY <1>0
    <3> QED
      BY <1>0, <2>0, <3>1, <3>2, AdvanceEnds
  <2>3. CASE job[c].kind # "config" /\ outcome = "ok" /\ ~(i < Len(s))
    <3> DEFINE j == [job[c] EXCEPT !.pc = "store"]
    <3>1. job' = [job EXCEPT ![c] = j] /\ running' = running /\ job[c].got = "ok" /\ i = Len(s)
      BY <1>0, <1>2, <2>3 DEF EndWrite
    <3>2. /\ j \in JobType /\ j.pc = "store" /\ j.kind = job[c].kind /\ j.steps = s /\ j.id = job[c].id
          /\ j.got = job[c].got /\ j.i = i
      BY <1>0 DEF JobType, Steps
    <3> HIDE DEF j
    <3>3. Ended(c, j)
      BY <1>2, <2>3, <3>1, <3>2 DEF Ended
    <3> QED
      BY <1>0, <2>0, <3>1, <3>2, <3>3
  <2> QED
    BY <2>1, <2>2, <2>3
<1> QED
  BY <1>1, <1>2

LEMMA InitIInv == Init => IInv
<1> SUFFICES ASSUME Init PROVE IInv
  OBVIOUS
<1>1. HostTypes
  <2>1. job \in [Callers -> JobType] /\ running \in Callers \cup {None} /\ readback = None
        /\ released \subseteq Devices /\ kept \subseteq Devices
    BY NoJobType DEF Init
  <2>2. /\ stash \in [Devices -> [opt : Options, val : 0 .. 255] \cup {None}]
        /\ \A d \in Devices : stash[d] = None
        /\ config \in [Devices -> [Bits -> {0, 1}]] /\ specials \in [Devices -> [Keys -> InputValues]]
    BY InputTypes DEF Init
  <2> QED
    BY <2>1, <2>2 DEF HostTypes
<1>2. NodeTypes
  <2>1. ASSUME NEW d \in Devices, NEW r \in Bits \cup Keys PROVE node[d][r] \in Values(r)
    <3>1. node[d][r] = IF r \in Bits THEN 1 ELSE 0
      BY DEF Init
    <3> QED
      BY <3>1, InputTypes DEF Values, MaxValue, Wide, Bits, Keys
  <2>2. node \in [Devices -> [Bits \cup Keys -> InputValues]]
    BY InputTypes DEF Init
  <2>3. up \in [Devices -> Seq(Answers)] /\ matched = [d \in Devices |-> FALSE] /\ air = {}
    BY DEF Init
  <2> QED
    BY <2>1, <2>2, <2>3 DEF NodeTypes
<1>3. HistTypes
  BY DEF Init, HistTypes
<1>4. JobInv
  BY NoJobType DEF Init, JobInv, JobOK
<1>5. ASSUME NEW d \in Devices PROVE Calm(d)
  <2>1. Live(d) = {}
    BY NoJobType DEF Init, Live, Sending
  <2>2. up[d] = << >> /\ DOMAIN up[d] = {} /\ stash[d] = None /\ released = {}
    BY DEF Init
  <2>3. MirrorInv(d)
    BY <2>2 DEF Init, MirrorInv
  <2>4. GotInv(d) /\ SecondInv(d)
    BY NoJobType DEF Init, GotInv, SecondInv, Sending
  <2> QED
    BY <2>1, <2>2, <2>3, <2>4
       DEF Calm, OneWrite, StashInv, AckInv, PendInv, Pending, ReleasedInv
<1> QED
  BY <1>1, <1>2, <1>3, <1>4, <1>5 DEF IInv, Types, CalmInv

----------------------------------------------------------------------------
(* Steps of a thread that begin no write                                   *)

\* Nothing new is under way to the node, and nothing of it has changed.
LEMMA StillCalm ==
    ASSUME NEW d \in Devices, Calm(d), Live(d)' \subseteq Live(d), executed \subseteq executed',
           stash'[d] = stash[d], config'[d] = config[d], node'[d] = node[d], up'[d] = up[d],
           unheard'[d] = unheard[d]
    PROVE  OneWrite(d)' /\ StashInv(d)' /\ AckInv(d)' /\ PendInv(d)' /\ MirrorInv(d)'
<1>1. OneWrite(d)' /\ StashInv(d)'
  BY DEF Calm, OneWrite, StashInv
<1>2. AckInv(d)'
  BY DEF Calm, AckInv
<1>3. PendInv(d)'
  BY DEF Calm, PendInv, Pending
<1>4. \A b, i : Covered(d, b, i)' <=> Covered(d, b, i)
  BY DEF Covered, Pending
<1>5. MirrorInv(d)'
  BY <1>4 DEF Calm, MirrorInv
<1> QED
  BY <1>1, <1>2, <1>3, <1>5

\* A thread goes on without beginning a write; the second write of a pair comes
\* after the ACK of the first.
Moves(c, j) ==
    /\ j.pc \in {"send", "wait", "store"} =>
          /\ job[c].pc \in {"send", "wait"} /\ j.kind = job[c].kind /\ j.steps = job[c].steps
          /\ j.i = job[c].i /\ j.id = job[c].id /\ (j.got = "ok" => job[c].got = "ok")
    /\ j.pc = "stash" /\ SecondAt(j) =>
          /\ job[c].pc \in {"send", "wait"} /\ job[c].got = "ok"
          /\ j.kind = job[c].kind /\ j.steps = job[c].steps
          /\ j.i = job[c].i + 1 /\ j.i \in 1 .. Len(j.steps)
    /\ j.pc \in Steps

LEMMA EndedMoves ==
    ASSUME JobInv, NEW c \in Callers, job[c].pc \in {"stash", "send", "wait"}, NEW j, Ended(c, j)
    PROVE  Moves(c, j)
BY CallersAssumption DEF JobInv, JobOK, Ended, Moves, Steps

LEMMA MovesCalm ==
    ASSUME IInv, NEW c \in Callers, NEW j, Moves(c, j), job' = [job EXCEPT ![c] = j],
           \A f \in air' : f \in air \/ (Sending(c, f.dev) /\ Frame(f) = Own(c)),
           released' \subseteq released \cup MayRelease(c),
           UNCHANGED << stash, config, node, up, executed, unheard, disturbed >>
    PROVE  CalmInv'
<1> SUFFICES ASSUME NEW d \in Devices, d \notin disturbed PROVE Calm(d)'
  BY DEF CalmInv
<1>0. Types /\ JobInv /\ Calm(d)
  BY DEF IInv, CalmInv
<1>1. job'[c] = j /\ \A b \in Callers \ {c} : job'[b] = job[b]
  BY <1>0 DEF Types, HostTypes
<1>2. \A b \in Callers \ {c} : /\ Current(b)' = Current(b) /\ Own(b)' = Own(b) /\ Before(b)' = Before(b)
                               /\ Sending(b, d)' <=> Sending(b, d)
  BY <1>1 DEF Current, Own, Before, Sending
<1>3. Sending(c, d)' => Sending(c, d) /\ Own(c)' = Own(c)
  BY <1>1 DEF Moves, Sending, Own, Current
<1>4. Live(d)' \subseteq Live(d)
  <2> SUFFICES ASSUME NEW x \in Live(d)' PROVE x \in Live(d)
    OBVIOUS
  <2>1. ASSUME NEW f \in air', f.dev = d, x = Frame(f) PROVE x \in Live(d)
    BY <2>1 DEF Live, Frame
  <2>2. ASSUME NEW b \in Callers, Sending(b, d)', x = Own(b)' PROVE x \in Live(d)
    BY <1>2, <1>3, <2>2 DEF Live
  <2>3. \A f : Frame(f)' = Frame(f)
    BY DEF Frame
  <2> QED
    BY <2>1, <2>2, <2>3 DEF Live
<1>5. OneWrite(d)' /\ StashInv(d)' /\ AckInv(d)' /\ PendInv(d)' /\ MirrorInv(d)'
  BY <1>0, <1>4, StillCalm
<1>6. GotInv(d)'
  <2> SUFFICES ASSUME NEW b \in Callers, Sending(b, d)', job'[b].got = "ok"
               PROVE  job'[b].id \in executed' /\ Effect(node'[d], Own(b)')
    BY DEF GotInv, Effect
  <2>1. Sending(b, d) /\ job[b].got = "ok" /\ job'[b].id = job[b].id /\ Own(b)' = Own(b)
    <3>1. CASE b # c
      BY <1>1, <1>2, <3>1
    <3>2. CASE b = c
      BY <1>1, <1>3, <3>2 DEF Moves, Sending
    <3> QED
      BY <3>1, <3>2
  <2> QED
    BY <1>0, <2>1 DEF Calm, GotInv
<1>7. SecondInv(d)'
  <2> SUFFICES ASSUME NEW b \in Callers, job'[b].pc # "idle", SecondAt(job'[b]), Current(b)'.dev = d
               PROVE  /\ Effect(node[d], Before(b)')
                      /\ job'[b].pc = "stash" => \A x \in Live(d)' : x.opt = Before(b)'.opt /\ x.val = Before(b)'.val
    BY DEF SecondInv, Effect, SecondAt
  <2>1. CASE b # c
    BY <1>0, <1>1, <1>2, <1>4, <2>1 DEF Calm, SecondInv
  <2>2. CASE b = c /\ j.pc = "stash"
    <3>1. /\ job[c].pc \in {"send", "wait"} /\ job[c].got = "ok" /\ j.steps = job[c].steps
          /\ j.i = job[c].i + 1 /\ j.kind = job[c].kind
      BY <1>1, <2>2 DEF Moves
    <3>2. job[c].pc # "idle" /\ job[c].i \in Nat /\ Shape(job[c].kind, job[c].steps)
          /\ job[c].i \in 1 .. Len(job[c].steps)
      BY <1>0, <3>1, CurrentType DEF JobInv, JobOK
    <3>3. Before(c)' = Current(c)
      BY <1>1, <3>1, <3>2 DEF Before, Current
    <3>4. Current(c).dev = d
      <4>1. j.steps[j.i].dev = d /\ SecondAt(j) /\ j.i \in 1 .. Len(j.steps)
        BY <1>1, <2>2 DEF Current, Moves
      <4>2. CASE j.kind = "startblock"
        <5>1. j.i = 2 /\ job[c].i = 1
          BY <3>1, <3>2, <4>1, <4>2 DEF Shape, SecondAt
        <5> QED
          BY <3>1, <3>2, <4>1, <4>2, <5>1 DEF Shape, Current
      <4>3. CASE j.kind = "clear" /\ j.steps[j.i].opt = "forget"
        <5>1. job[c].steps[job[c].i + 1].dev = d /\ job[c].i = j.i - 1
          BY <3>1, <3>2, <4>1
        <5> QED
          BY <3>1, <3>2, <4>1, <4>3, <5>1 DEF Shape, ClearShape, Current
      <4> QED
        BY <4>1, <4>2, <4>3 DEF SecondAt
    <3>5. Sending(c, d) /\ Own(c) \in Live(d)
      BY <3>1, <3>4 DEF Sending, Live
    <3>6. Effect(node[d], Own(c)) /\ Own(c).opt = Current(c).opt /\ Own(c).val = Current(c).val
      BY <1>0, <3>1, <3>5 DEF Calm, GotInv, Own
    <3>7. \A x \in Live(d)' : x = Own(c)
      BY <1>0, <1>4, <3>5 DEF Calm, OneWrite
    <3> QED
      BY <2>2, <3>3, <3>6, <3>7 DEF Effect
  <2>3. CASE b = c /\ j.pc # "stash"
    <3>1. j.pc \in {"send", "wait", "store"}
      BY <1>1, <2>3 DEF Moves, Steps
    <3>2. /\ job[c].pc \in {"send", "wait"} /\ SecondAt(job[c]) /\ Current(c)' = Current(c)
          /\ Before(c)' = Before(c)
      BY <1>1, <2>3, <3>1 DEF Moves, SecondAt, Current, Before
    <3> QED
      BY <1>0, <1>1, <2>3, <3>2 DEF Calm, SecondInv
  <2> QED
    BY <2>1, <2>2, <2>3
<1>8. ReleasedInv(d)'
  <2> SUFFICES ASSUME d \in released'
               PROVE  node[d]["persist"] = 0 /\ \A x \in Live(d)' : x.opt = "persist" => x.val = 0
    BY DEF ReleasedInv
  <2>1. CASE d \in released
    BY <1>0, <1>4, <2>1 DEF Calm, ReleasedInv
  <2>2. CASE d \in MayRelease(c)
    <3>1. /\ d = Current(c).dev /\ job[c].pc # "idle" /\ job[c].kind = "clear"
          /\ Current(c).opt = "forget" \/ (Current(c).opt = "persist" /\ job[c].got = "ok")
      BY <2>2 DEF MayRelease
    <3>2. ClearShape(job[c].steps) /\ job[c].i \in 1 .. Len(job[c].steps) /\ Current(c) = job[c].steps[job[c].i]
          /\ Len(job[c].steps) \in Nat
      BY <1>0, <3>1, CurrentType DEF JobInv, JobOK, Shape, Current
    <3>3. job[c].pc \in {"send", "wait", "store"} => Own(c) \in Live(d)
      BY <3>1 DEF Live, Sending
    <3>4. Own(c).opt = Current(c).opt /\ Own(c).val = Current(c).val
      BY DEF Own
    <3>5. job[c].pc \in {"stash", "send", "wait", "store"}
      BY <1>0, <3>1 DEF Types, HostTypes, JobType, Steps
    <3>6. CASE Current(c).opt = "forget"
      <4>1. /\ SecondAt(job[c]) /\ Before(c).opt = "persist" /\ Before(c).val = 0
        BY <3>1, <3>2, <3>6 DEF SecondAt, Before, ClearShape
      <4>2. /\ Effect(node[d], Before(c))
            /\ job[c].pc = "stash" => \A x \in Live(d) : x.opt = Before(c).opt /\ x.val = Before(c).val
        BY <1>0, <3>1, <4>1 DEF Calm, SecondInv
      <4>3. node[d]["persist"] = 0
        BY <4>1, <4>2 DEF Effect, Bits
      <4>4. ASSUME NEW x \in Live(d)', x.opt = "persist" PROVE x.val = 0
        <5>1. CASE job[c].pc = "stash"
          BY <1>4, <4>1, <4>2, <4>4, <5>1
        <5>2. CASE job[c].pc # "stash"
          BY <1>0, <1>4, <3>3, <3>4, <3>5, <3>6, <4>4, <5>2 DEF Calm, OneWrite
        <5> QED
          BY <5>1, <5>2
      <4> QED
        BY <4>3, <4>4
    <3>7. CASE Current(c).opt = "persist" /\ job[c].got = "ok"
      <4>1. job[c].pc # "stash"
        BY <1>0, <3>1, <3>7, CallersAssumption DEF JobInv, JobOK
      <4>2. Sending(c, d) /\ Own(c) \in Live(d) /\ Current(c).val = 0
        BY <3>1, <3>2, <3>3, <3>5, <3>7, <4>1 DEF Sending, ClearShape
      <4>3. node[d]["persist"] = 0
        BY <1>0, <3>4, <3>7, <4>2 DEF Calm, GotInv, Effect, Bits
      <4> QED
        BY <1>0, <1>4, <3>4, <4>2, <4>3 DEF Calm, OneWrite
    <3> QED
      BY <3>1, <3>6, <3>7
  <2> QED
    BY <2>1, <2>2
<1> QED
  BY <1>5, <1>6, <1>7, <1>8 DEF Calm

\* Such a step keeps the invariant.
LEMMA ThreadStep ==
    ASSUME IInv, NEW c \in Callers, NEW j \in JobType, JobOK(j), Moves(c, j),
           job' = [job EXCEPT ![c] = j],
           \A f \in air' : f \in air \/ (Sending(c, f.dev) /\ Frame(f) = Own(c) /\ FrameOK(f)),
           released' \subseteq released \cup MayRelease(c), running' \in Callers \cup {None},
           kept' \subseteq Devices, specials' \in [Devices -> [Keys -> InputValues]],
           UNCHANGED << stash, config, readback, node, up, matched, executed, unheard, disturbed, writes >>
    PROVE  IInv'
<1>0. Types /\ JobInv
  BY DEF IInv
<1>1. HostTypes'
  <2>1. job' \in [Callers -> JobType]
    BY <1>0 DEF Types, HostTypes
  <2>2. MayRelease(c) \subseteq Devices
    BY <1>0, CurrentType DEF MayRelease
  <2> QED
    BY <1>0, <2>1, <2>2 DEF Types, HostTypes
<1>2. NodeTypes' /\ HistTypes'
  BY <1>0 DEF Types, NodeTypes, HistTypes, FrameOK
<1>3. JobInv'
  BY <1>0 DEF JobInv, Types, HostTypes
<1>4. CalmInv'
  BY MovesCalm
<1> QED
  BY <1>1, <1>2, <1>3, <1>4 DEF IInv, Types

LEMMA EndWriteStep ==
    ASSUME IInv, NEW c \in Callers, NEW outcome \in {"ok", "no", "raised"},
           job[c].pc \in {"stash", "send", "wait"},
           outcome = "ok" => job[c].kind = "config" \/ job[c].got = "ok", EndWrite(c, outcome),
           \A f \in air' : f \in air \/ (Sending(c, f.dev) /\ Frame(f) = Own(c) /\ FrameOK(f)),
           UNCHANGED << stash, config, specials, readback, node, up, matched, executed, unheard,
                        disturbed, writes >>
    PROVE  IInv'
<1>0. Types /\ JobInv
  BY DEF IInv
<1>1. /\ \E j \in JobType : job' = [job EXCEPT ![c] = j] /\ Ended(c, j)
      /\ released' \subseteq released \cup MayRelease(c)
      /\ running' \in Callers \cup {None} /\ kept' \subseteq Devices
  BY <1>0, EndWriteCases
<1>2. PICK j \in JobType : job' = [job EXCEPT ![c] = j] /\ Ended(c, j)
  BY <1>1
<1>3. Moves(c, j)
  BY <1>0, <1>2, EndedMoves
<1>4. JobOK(j)
  <2>1. /\ job[c].kind \in Kinds /\ Shape(job[c].kind, job[c].steps)
        /\ job[c].i \in 1 .. Len(job[c].steps)
    BY <1>0 DEF JobInv, JobOK
  <2> QED
    BY <1>2, <2>1 DEF Ended, JobOK
<1>5. specials' \in [Devices -> [Keys -> InputValues]]
  BY <1>0 DEF Types, HostTypes
<1> QED
  BY <1>1, <1>2, <1>3, <1>4, <1>5, ThreadStep

LEMMA BeginStep == ASSUME IInv, NEW c \in Callers, Begin(c) PROVE IInv'
<1>0. Types
  BY DEF IInv
<1>1. PICK kind \in DOMAIN Requests : \E s \in Requests[kind] :
          /\ job' = [job EXCEPT ![c] = [NoJob EXCEPT !.kind = kind, !.steps = s, !.i = 1, !.pc = "stash"]]
          /\ running' = IF kind \in {"special", "clear"} THEN c ELSE running
          /\ released' = IF kind = "clear" THEN {} ELSE released
          /\ kept' = IF kind = "clear" THEN {} ELSE kept
  BY DEF Begin
<1>2. PICK s \in Requests[kind] :
          /\ job' = [job EXCEPT ![c] = [NoJob EXCEPT !.kind = kind, !.steps = s, !.i = 1, !.pc = "stash"]]
          /\ running' = IF kind \in {"special", "clear"} THEN c ELSE running
          /\ released' = IF kind = "clear" THEN {} ELSE released
          /\ kept' = IF kind = "clear" THEN {} ELSE kept
  BY <1>1
<1> DEFINE j == [NoJob EXCEPT !.kind = kind, !.steps = s, !.i = 1, !.pc = "stash"]
<1>3. kind \in Kinds /\ Shape(kind, s)
  BY RequestsDomain, RequestsShape
<1>4. s \in Seq(Writes) /\ Len(s) \in Nat /\ 1 \in 1 .. Len(s)
  BY <1>3 DEF Shape
<1>5. /\ j \in JobType /\ j.pc = "stash" /\ j.kind = kind /\ j.steps = s /\ j.i = 1 /\ j.got = None
  <2>1. NoJob.got = None /\ "stash" \in Steps
    BY DEF NoJob, Steps
  <2>2. NoJob \in JobType
    BY NoJobType
  <2> QED
    BY <1>3, <1>4, <2>1, <2>2 DEF JobType
<1>6. job' = [job EXCEPT ![c] = j]
  BY <1>2
<1> HIDE DEF j
<1>7. JobOK(j) /\ Moves(c, j)
  BY <1>3, <1>4, <1>5 DEF JobOK, Moves, SecondAt, Steps
<1>8. /\ released' \subseteq released \cup MayRelease(c) /\ running' \in Callers \cup {None}
      /\ kept' \subseteq Devices /\ specials' \in [Devices -> [Keys -> InputValues]]
  BY <1>0, <1>2 DEF Types, HostTypes, Begin
<1>9. UNCHANGED << stash, config, readback, node, up, matched, executed, unheard, disturbed, writes, air >>
  BY DEF Begin
<1> QED
  BY <1>5, <1>6, <1>7, <1>8, <1>9, ThreadStep

LEMMA RefuseStep == ASSUME IInv, NEW c \in Callers, Refuse(c) \/ SendRaises(c) PROVE IInv'
<1>1. UNCHANGED << stash, config, specials, readback, node, up, matched, executed, unheard,
                   disturbed, writes, air >>
  BY DEF Refuse, SendRaises, histVars
<1>2. CASE Refuse(c)
  <2>1. job[c].pc = "stash" /\ EndWrite(c, "no")
    BY <1>2 DEF Refuse
  <2> QED
    BY <1>1, <2>1, EndWriteStep
<1>3. CASE SendRaises(c)
  <2>1. job[c].pc = "send" /\ EndWrite(c, "raised")
    BY <1>3 DEF SendRaises
  <2> QED
    BY <1>1, <2>1, EndWriteStep
<1> QED
  BY <1>2, <1>3

LEMMA SendStep == ASSUME IInv, NEW c \in Callers, Send(c) PROVE IInv'
<1> DEFINE w == Current(c)
           frame == [dev |-> w.dev, opt |-> w.opt, data |-> Pack(w.opt, w.val), id |-> job[c].id,
                     attempt |-> job[c].attempt]
<1>0. /\ Types /\ JobInv /\ job[c].pc = "send" /\ job[c] \in JobType
      /\ w.dev \in Devices /\ w.opt \in Options /\ w.val \in Values(w.opt)
  BY CurrentType DEF IInv, Send
<1>1. Sending(c, frame.dev) /\ Frame(frame) = Own(c) /\ FrameOK(frame)
  BY <1>0, PackUnpack DEF Sending, Frame, Own, FrameOK
<1>2. air' = air \/ air' = air \cup {frame}
  BY DEF Send
<1>3. \A f \in air' : f \in air \/ (Sending(c, f.dev) /\ Frame(f) = Own(c) /\ FrameOK(f))
  BY <1>1, <1>2
<1>4. UNCHANGED << stash, config, specials, readback, node, up, matched, executed, unheard,
                   disturbed, writes >>
  BY DEF Send, histVars
<1> HIDE DEF frame
<1>5. CASE Waits(c)
  <2> DEFINE j == [job[c] EXCEPT !.pc = "wait"]
  <2>1. job' = [job EXCEPT ![c] = j] /\ UNCHANGED << running, released, kept >>
    BY <1>5 DEF Send
  <2>2. /\ j \in JobType /\ j.pc = "wait" /\ j.kind = job[c].kind /\ j.steps = job[c].steps
        /\ j.i = job[c].i /\ j.id = job[c].id /\ j.got = job[c].got
    BY <1>0 DEF JobType, Steps
  <2> HIDE DEF j
  <2>3. JobOK(j) /\ Moves(c, j)
    BY <1>0, <2>2 DEF JobInv, JobOK, Moves, Steps
  <2>4. /\ released' \subseteq released \cup MayRelease(c) /\ running' \in Callers \cup {None}
        /\ kept' \subseteq Devices /\ specials' \in [Devices -> [Keys -> InputValues]]
    BY <1>0, <1>4, <2>1 DEF Types, HostTypes
  <2> QED
    BY <1>3, <1>4, <2>1, <2>2, <2>3, <2>4, ThreadStep
<1>6. CASE ~Waits(c)
  <2>1. EndWrite(c, "ok") /\ job[c].kind = "config"
    BY <1>6 DEF Send, Waits
  <2> QED
    BY <1>0, <1>3, <1>4, <2>1, EndWriteStep
<1> QED
  BY <1>5, <1>6

LEMMA WaitEndsStep == ASSUME IInv, NEW c \in Callers, WaitEnds(c) PROVE IInv'
<1>0. Types /\ JobInv /\ job[c].pc = "wait" /\ job[c] \in JobType
  BY CurrentType DEF IInv, WaitEnds
<1>1. UNCHANGED << stash, config, specials, readback, node, up, matched, executed, unheard,
                   disturbed, writes, air >>
  BY DEF WaitEnds, histVars
<1>2. CASE job[c].got = None /\ job[c].attempt < MaxAttempts
  <2> DEFINE n == job[c].attempt + 1
             j == [job[c] EXCEPT !.pc = "send", !.attempt = n]
  <2>1. job' = [job EXCEPT ![c] = j] /\ UNCHANGED << running, released, kept >>
    BY <1>0, <1>2 DEF WaitEnds, Types, HostTypes
  <2>2. /\ j \in JobType /\ j.pc = "send" /\ j.kind = job[c].kind /\ j.steps = job[c].steps
        /\ j.i = job[c].i /\ j.id = job[c].id /\ j.got = job[c].got
    <3>1. job[c].attempt \in 1 .. MaxAttempts
      BY <1>0 DEF JobType
    <3>2. n \in 1 .. MaxAttempts /\ "send" \in Steps
      BY <1>2, <3>1, BoundAssumption DEF Steps
    <3> HIDE DEF n
    <3> QED
      BY <1>0, <3>2 DEF JobType
  <2> HIDE DEF j
  <2>3. JobOK(j) /\ Moves(c, j)
    BY <1>0, <2>2 DEF JobInv, JobOK, Moves, Steps
  <2>4. /\ released' \subseteq released \cup MayRelease(c) /\ running' \in Callers \cup {None}
        /\ kept' \subseteq Devices /\ specials' \in [Devices -> [Keys -> InputValues]]
    BY <1>0, <1>1, <2>1 DEF Types, HostTypes
  <2> QED
    BY <1>1, <2>1, <2>2, <2>3, <2>4, ThreadStep
<1>3. CASE ~(job[c].got = None /\ job[c].attempt < MaxAttempts)
  <2>1. (EndWrite(c, "ok") /\ job[c].got = "ok") \/ EndWrite(c, "no")
    BY <1>3 DEF WaitEnds, Acknowledged
  <2> QED
    BY <1>0, <1>1, <2>1, EndWriteStep
<1> QED
  BY <1>2, <1>3

LEMMA WrittenType ==
    ASSUME NEW K, NEW regs \in [K -> InputValues], NEW o, NEW v \in InputValues
    PROVE  Written(regs, o, v) \in [K -> InputValues]
BY InputTypes DEF Written

LEMMA StoreStep == ASSUME IInv, NEW c \in Callers, Store(c) PROVE IInv'
<1> DEFINE s == job[c].steps  d == Current(c).dev
<1>0. /\ Types /\ JobInv /\ job[c].pc = "store" /\ d \in Devices /\ job[c].kind \in Kinds
      /\ Shape(job[c].kind, s) /\ job[c].kind \notin {"config", "clear"}
  BY CurrentType DEF IInv, Store, JobInv, JobOK
<1>1. Len(s) \in {1, 2} /\ s \in Seq(Writes) /\ \A i \in 1 .. Len(s) : s[i].val \in Values(s[i].opt)
  BY <1>0 DEF Shape, Kinds
<1>2. \A i \in 1 .. Len(s) : i \in DOMAIN s /\ s[i].val % 65536 \in InputValues
  <2> SUFFICES ASSUME NEW i \in 1 .. Len(s) PROVE i \in DOMAIN s /\ s[i].val % 65536 \in InputValues
    OBVIOUS
  <2>1. s[i] \in Writes /\ s[i].val \in Values(s[i].opt) /\ i \in DOMAIN s
    BY <1>1
  <2>2. s[i].opt \in Options /\ s[i].val \in InputValues
    BY <2>1 DEF Writes
  <2>3. s[i].val % 65536 = s[i].val
    BY <2>1, <2>2, PackUnpack
  <2> QED
    BY <2>1, <2>2, <2>3
<1>3. Stored(specials[d], s) \in [Keys -> InputValues]
  <2> DEFINE V(i) == s[i].val % 65536
  <2>1. ASSUME NEW v \in [Keys -> InputValues] PROVE Stored(v, s) \in [Keys -> InputValues]
    <3>1. CASE Len(s) = 1
      <4>1. Stored(v, s) = Written(v, s[1].opt, V(1)) /\ V(1) \in InputValues
        BY <1>2, <3>1 DEF Stored
      <4> HIDE DEF V
      <4> QED
        BY <4>1, WrittenType
    <3>2. CASE Len(s) = 2
      <4>1. /\ Stored(v, s) = Written(Written(v, s[1].opt, V(1)), s[2].opt, V(2))
            /\ V(1) \in InputValues /\ V(2) \in InputValues
        BY <1>2, <3>2 DEF Stored
      <4> HIDE DEF V
      <4>2. Written(v, s[1].opt, V(1)) \in [Keys -> InputValues]
        BY <4>1, WrittenType
      <4> QED
        BY <4>1, <4>2, WrittenType
    <3> QED
      BY <1>1, <3>1, <3>2
  <2> QED
    BY <1>0, <2>1 DEF Types, HostTypes
<1>4. specials' \in [Devices -> [Keys -> InputValues]]
  <2>1. specials' = [specials EXCEPT ![d] = Stored(specials[d], s)]
    BY <1>0 DEF Store, Types, HostTypes
  <2> QED
    BY <1>0, <1>3, <2>1 DEF Types, HostTypes
<1>5. /\ job' = [job EXCEPT ![c] = NoJob] /\ running' \in Callers \cup {None}
      /\ UNCHANGED << stash, config, readback, released, kept, node, air, up, matched, executed,
                      unheard, disturbed, writes >>
  BY <1>0 DEF Store, Ends, histVars, Types, HostTypes
<1>6. JobOK(NoJob) /\ Moves(c, NoJob) /\ kept' \subseteq Devices
  BY <1>0, <1>5, NoJobType DEF JobOK, Moves, Steps, Types, HostTypes
<1> QED
  BY <1>4, <1>5, <1>6, NoJobType, ThreadStep

\* The dialog of a browser touches nothing a write depends on.
LEMMA DialogStep == ASSUME IInv, ReadBack \/ Import PROVE IInv'
<1>0. Types /\ JobInv /\ CalmInv
  BY DEF IInv
<1>1. UNCHANGED << job, running, stash, config, released, kept, node, air, up, matched, executed,
                   unheard, disturbed, writes >>
  BY DEF ReadBack, Import, histVars
<1>2. readback' \in [dev : Devices, key : Keys, val : InputValues] \cup {None}
  <2>1. CASE Import
    BY <2>1 DEF Import
  <2>2. CASE ReadBack
    <3>1. PICK d \in Devices, k \in Keys :
             readback' = [dev |-> d, key |-> k, val |-> Unpack(k, Pack(k, node[d][k]))]
      BY <2>2 DEF ReadBack
    <3>2. node[d][k] \in Values(k) /\ k \in Options
      BY <1>0 DEF Types, NodeTypes, Options
    <3>3. Unpack(k, Pack(k, node[d][k])) \in InputValues
      BY <3>2, PackUnpack, InputTypes
    <3> QED
      BY <3>1, <3>3
  <2> QED
    BY <2>1, <2>2
<1>3. specials' \in [Devices -> [Keys -> InputValues]]
  <2>1. CASE ReadBack
    BY <1>0, <2>1 DEF ReadBack, Types, HostTypes
  <2>2. CASE Import
    <3>1. readback.dev \in Devices /\ readback.key \in Keys /\ readback.val \in InputValues
      BY <1>0, <2>2 DEF Import, Types, HostTypes
    <3>2. specials' = [specials EXCEPT ![readback.dev] =
                          [specials[readback.dev] EXCEPT ![readback.key] = readback.val]]
      BY <1>0, <2>2 DEF Import, Types, HostTypes
    <3> QED
      BY <1>0, <3>1, <3>2 DEF Types, HostTypes
  <2> QED
    BY <2>1, <2>2
<1>4. Types'
  BY <1>0, <1>1, <1>2, <1>3 DEF Types, HostTypes, NodeTypes, HistTypes, FrameOK
<1>5. JobInv'
  BY <1>0, <1>1 DEF JobInv
<1>6. CalmInv'
  <2> SUFFICES ASSUME NEW d \in Devices \ disturbed PROVE Calm(d)'
    BY <1>1 DEF CalmInv
  <2>0. Calm(d)
    BY <1>0 DEF CalmInv
  <2>1. Live(d)' = Live(d)
    BY <1>1 DEF Live, Frame, Own, Sending, Current
  <2>2. OneWrite(d)' /\ StashInv(d)' /\ AckInv(d)' /\ PendInv(d)' /\ MirrorInv(d)'
    BY <1>1, <2>0, <2>1, StillCalm
  <2>3. GotInv(d)' /\ SecondInv(d)' /\ ReleasedInv(d)'
    BY <1>1, <2>0, <2>1 DEF Calm, GotInv, SecondInv, ReleasedInv, Sending, Own, Current, Before, Effect, SecondAt
  <2> QED
    BY <2>2, <2>3 DEF Calm
<1> QED
  BY <1>4, <1>5, <1>6 DEF IInv

----------------------------------------------------------------------------
(* Steps at one device leave the others calm                               *)

LEMMA OtherCalm ==
    ASSUME NEW d \in Devices, Calm(d),
           \A b \in Callers : job'[b] = job[b] \/ Current(b)'.dev # d,
           \A f \in air' : f.dev = d => f \in air,
           d \in released' => d \in released, executed \subseteq executed',
           stash'[d] = stash[d], config'[d] = config[d], node'[d] = node[d], up'[d] = up[d],
           unheard'[d] = unheard[d]
    PROVE  Calm(d)'
<1>1. ASSUME NEW b \in Callers, job'[b] = job[b]
      PROVE  Current(b)' = Current(b) /\ Own(b)' = Own(b) /\ Before(b)' = Before(b)
             /\ (Sending(b, d)' <=> Sending(b, d))
  BY <1>1 DEF Current, Own, Before, Sending
<1>2. ASSUME NEW b \in Callers, Sending(b, d)' PROVE job'[b] = job[b] /\ Sending(b, d) /\ Own(b)' = Own(b)
  BY <1>1, <1>2 DEF Sending
<1>3. Live(d)' \subseteq Live(d)
  BY <1>2 DEF Live, Frame
<1>4. OneWrite(d)' /\ StashInv(d)' /\ AckInv(d)' /\ PendInv(d)' /\ MirrorInv(d)'
  BY <1>3, StillCalm
<1>5. GotInv(d)'
  BY <1>2 DEF Calm, GotInv, Effect
<1>6. SecondInv(d)'
  <2> SUFFICES ASSUME NEW b \in Callers, job'[b].pc # "idle", SecondAt(job'[b]), Current(b)'.dev = d
               PROVE  /\ Effect(node[d], Before(b)')
                      /\ job'[b].pc = "stash" => \A x \in Live(d)' : x.opt = Before(b)'.opt /\ x.val = Before(b)'.val
    BY DEF SecondInv, Effect, SecondAt
  <2>1. job'[b] = job[b] /\ Current(b)' = Current(b) /\ Before(b)' = Before(b)
    BY <1>1
  <2> QED
    BY <1>3, <2>1 DEF Calm, SecondInv
<1>7. ReleasedInv(d)'
  BY <1>3 DEF Calm, ReleasedInv
<1> QED
  BY <1>4, <1>5, <1>6, <1>7 DEF Calm

----------------------------------------------------------------------------
(* A write begins                                                          *)

LEMMA StashStep == ASSUME IInv, NEW c \in Callers, Stash(c) PROVE IInv'
<1> DEFINE w == Current(c)
           n == writes + 1
           j == [job[c] EXCEPT !.pc = "send", !.id = n]
           s == [opt |-> w.opt, val |-> Pack(w.opt, w.val)[1]]
<1>0. Types /\ JobInv /\ CalmInv /\ job[c].pc = "stash" /\ job[c].got = None
  BY DEF IInv, Stash, JobInv, JobOK
<1>1. /\ job[c] \in JobType /\ w \in Writes /\ w.dev \in Devices /\ w.opt \in Options
      /\ w.val \in Values(w.opt) /\ writes \in Nat
  BY <1>0, CurrentType DEF Types, HistTypes
<1>2. /\ job' = [job EXCEPT ![c] = j] /\ stash' = [stash EXCEPT ![w.dev] = s]
      /\ disturbed' = IF Outstanding(w.dev) \/ \E b \in Callers \ {c} : Using(b, w.dev)
                      THEN disturbed \cup {w.dev} ELSE disturbed
      /\ released' = released \ {x \in {w.dev} : w.opt = "persist" /\ w.val = 1}
      /\ UNCHANGED << running, config, specials, readback, kept, node, air, up, matched, executed, unheard >>
      /\ writes' = writes + 1
  BY <1>0 DEF Stash, Types, HostTypes
<1>3. /\ j \in JobType /\ j.pc = "send" /\ j.kind = job[c].kind /\ j.steps = job[c].steps
      /\ j.i = job[c].i /\ j.id = writes + 1 /\ j.got = None
  <2>1. n \in Nat /\ "send" \in Steps
    BY <1>1 DEF Steps
  <2> HIDE DEF n
  <2>2. /\ j \in JobType /\ j.pc = "send" /\ j.kind = job[c].kind /\ j.steps = job[c].steps
        /\ j.i = job[c].i /\ j.id = n /\ j.got = job[c].got
    BY <1>1, <2>1 DEF JobType
  <2> QED
    BY <1>0, <2>2 DEF n
<1>4. s \in [opt : Options, val : 0 .. 255] /\ s.opt = w.opt /\ (w.opt \in Bits => s.val = w.val /\ w.val \in {0, 1})
      /\ s # None
  BY <1>1, PackUnpack, CallersAssumption
<1> HIDE DEF j, s
<1>5. /\ job'[c] = j /\ \A b \in Callers \ {c} : job'[b] = job[b]
      /\ stash'[w.dev] = s /\ \A d \in Devices : d # w.dev => stash'[d] = stash[d]
  BY <1>0, <1>1, <1>2 DEF Types, HostTypes
<1>6. /\ Current(c)' = w /\ Before(c)' = Before(c) /\ Own(c)' = [opt |-> w.opt, val |-> w.val, id |-> writes + 1]
  BY <1>3, <1>5 DEF Current, Before, Own
<1>7. \A b \in Callers \ {c} : /\ Current(b)' = Current(b) /\ Before(b)' = Before(b)
                               /\ Own(b)' = Own(b) /\ \A d : Sending(b, d)' <=> Sending(b, d)
  BY <1>5 DEF Current, Before, Own, Sending
<1>8. Types'
  <2>1. /\ job' \in [Callers -> JobType] /\ stash' \in [Devices -> [opt : Options, val : 0 .. 255] \cup {None}]
        /\ \A d \in Devices : stash'[d] # None /\ stash'[d].opt \in Bits => stash'[d].val \in {0, 1}
    BY <1>0, <1>1, <1>2, <1>3, <1>4, <1>5 DEF Types, HostTypes
  <2>2. HistTypes' /\ released' \subseteq Devices
    BY <1>0, <1>1, <1>2 DEF Types, HostTypes, HistTypes
  <2>3. HostTypes'
    BY <1>0, <1>2, <2>1, <2>2 DEF Types, HostTypes
  <2>4. NodeTypes'
    BY <1>0, <1>2 DEF Types, NodeTypes, FrameOK
  <2> QED
    BY <2>2, <2>3, <2>4 DEF Types
<1>9. JobInv'
  <2>1. JobOK(j)
    BY <1>0, <1>3 DEF JobInv, JobOK
  <2> QED
    BY <1>0, <1>5, <2>1 DEF JobInv
<1>10. ASSUME NEW d \in Devices, d \notin disturbed', d # w.dev PROVE Calm(d)'
  <2>1. Calm(d) /\ (d \in released' => d \in released) /\ stash'[d] = stash[d]
    BY <1>0, <1>2, <1>5, <1>10 DEF CalmInv
  <2>2. \A b \in Callers : job'[b] = job[b] \/ Current(b)'.dev # d
    BY <1>5, <1>6, <1>10
  <2> QED
    BY <1>2, <2>1, <2>2, OtherCalm
<1>11. ASSUME NEW d \in Devices, d \notin disturbed', d = w.dev PROVE Calm(d)'
  <2>0. /\ Calm(d) /\ \A f \in air : f.dev # d
        /\ \A i \in DOMAIN up[d] : up[d][i].type # "ack"
        /\ \A b \in Callers \ {c} : ~Using(b, d)
    BY <1>0, <1>2, <1>11 DEF CalmInv, Outstanding
  <2>1. \A b \in Callers \ {c} : ~Sending(b, d)
    BY <2>0 DEF Using, Sending
  <2>2. Live(d)' = {Own(c)'}
    <3>1. Sending(c, d)'
      BY <1>3, <1>5, <1>6, <1>11 DEF Sending
    <3>2. air' = air
      BY <1>2
    <3> QED
      BY <1>7, <2>0, <2>1, <3>1, <3>2 DEF Live
  <2>3. OneWrite(d)' /\ StashInv(d)'
    BY <1>4, <1>5, <1>6, <1>11, <2>2 DEF OneWrite, StashInv
  <2>4. \A i \in DOMAIN up[d] : ~IsOk(up[d][i])
    BY <2>0 DEF IsOk
  <2>5. AckInv(d)' /\ PendInv(d)'
    BY <1>2, <2>4 DEF AckInv, PendInv, IsOk
  <2>6. MirrorInv(d)'
    <3>1. \A b, i : Covered(d, b, i)' <=> Covered(d, b, i)
      BY <1>2, <2>4 DEF Covered, IsOk
    <3> QED
      BY <1>2, <2>0, <3>1 DEF Calm, MirrorInv
  <2>7. GotInv(d)'
    BY <1>3, <1>5, <1>7, <2>1, CallersAssumption DEF GotInv
  <2>8. SecondInv(d)'
    <3> SUFFICES ASSUME NEW b \in Callers, job'[b].pc # "idle", SecondAt(job'[b]), Current(b)'.dev = d
                 PROVE  Effect(node[d], Before(b)') /\ job'[b].pc # "stash"
      BY <1>2 DEF SecondInv, Effect, SecondAt
    <3>1. b = c
      BY <1>5, <1>7, <2>0 DEF Using, SecondAt
    <3>2. SecondAt(job[c])
      BY <1>3, <1>5, <3>1 DEF SecondAt
    <3> QED
      BY <1>0, <1>3, <1>5, <1>6, <1>11, <2>0, <3>1, <3>2 DEF Calm, SecondInv
  <2>9. ReleasedInv(d)'
    BY <1>2, <1>4, <1>6, <1>11, <2>0, <2>2 DEF Calm, ReleasedInv, Bits
  <2> QED
    BY <2>3, <2>5, <2>6, <2>7, <2>8, <2>9 DEF Calm
<1> QED
  BY <1>8, <1>9, <1>10, <1>11 DEF IInv, CalmInv

----------------------------------------------------------------------------
(* The RX thread                                                           *)

LEMMA RxMatchStep == ASSUME IInv, NEW d \in Devices, RxMatch(d) PROVE IInv'
<1> DEFINE a == Head(up[d])
<1>0. Types /\ JobInv /\ CalmInv /\ up[d] \in Seq(Answers) /\ up[d] # << >> /\ a.type = "ack"
  BY DEF IInv, Types, NodeTypes, RxMatch
<1>1. 1 \in DOMAIN up[d] /\ a = up[d][1] /\ a \in Answers /\ a.status \in {"ok", "nak"}
  <2>1. 1 \in DOMAIN up[d] /\ a = up[d][1] /\ a \in Answers
    BY <1>0
  <2> QED
    BY <1>0, <2>1 DEF Answers
<1>2. UNCHANGED << running, stash, config, specials, readback, released, kept, node, air, up, executed,
                   unheard, disturbed, writes >> /\ matched' = [matched EXCEPT ![d] = TRUE]
  BY DEF RxMatch, histVars
<1>3. CASE UNCHANGED job
  <2>1. Types'
    BY <1>0, <1>1, <1>2, <1>3 DEF Types, HostTypes, NodeTypes, HistTypes, FrameOK
  <2>2. ASSUME NEW e \in Devices \ disturbed PROVE Calm(e)'
    BY <1>0, <1>2, <1>3, OtherCalm DEF CalmInv
  <2> QED
    BY <1>0, <1>2, <1>3, <2>1, <2>2 DEF IInv, JobInv, CalmInv
<1>4. CASE \E c \in Waiters(d) : job' = [job EXCEPT ![c].got = a.status]
  <2>0. PICK c \in Waiters(d) : job' = [job EXCEPT ![c].got = a.status]
    BY <1>4
  <2> DEFINE j == [job[c] EXCEPT !.got = a.status]
  <2>1. /\ c \in Callers /\ job[c].pc \in {"send", "wait"} /\ Current(c).dev = d
        /\ job[c] \in JobType /\ job' = [job EXCEPT ![c] = j]
    BY <1>0, <2>0 DEF Waiters, Types, HostTypes
  <2>2. /\ j \in JobType /\ j.pc = job[c].pc /\ j.kind = job[c].kind /\ j.steps = job[c].steps
        /\ j.i = job[c].i /\ j.id = job[c].id /\ j.got = a.status
    BY <1>1, <2>1 DEF JobType
  <2> HIDE DEF j
  <2>3. job'[c] = j /\ \A b \in Callers \ {c} : job'[b] = job[b]
    BY <1>0, <2>1 DEF Types, HostTypes
  <2>4. \A b \in Callers : /\ job'[b].pc = job[b].pc /\ job'[b].kind = job[b].kind
                          /\ job'[b].steps = job[b].steps /\ job'[b].i = job[b].i /\ job'[b].id = job[b].id
    BY <2>2, <2>3
  <2>5. ASSUME NEW b \in Callers
        PROVE  /\ Current(b)' = Current(b) /\ Before(b)' = Before(b) /\ Own(b)' = Own(b)
               /\ SecondAt(job'[b]) <=> SecondAt(job[b])
               /\ Sending(b, d)' <=> Sending(b, d)
    BY <2>4 DEF Current, Before, Own, SecondAt, Sending
  <2>6. Types'
    <3>1. job' \in [Callers -> JobType]
      BY <1>0, <2>1, <2>2 DEF Types, HostTypes
    <3> QED
      BY <1>0, <1>1, <1>2, <3>1 DEF Types, HostTypes, NodeTypes, HistTypes, FrameOK
  <2>7. JobInv'
    <3>1. JobOK(j)
      BY <1>0, <2>1, <2>2 DEF JobInv, JobOK
    <3> QED
      BY <1>0, <2>3, <3>1 DEF JobInv
  <2>8. ASSUME NEW e \in Devices \ disturbed, e # d PROVE Calm(e)'
    <3>1. \A b \in Callers : job'[b] = job[b] \/ Current(b)'.dev # e
      BY <2>1, <2>3, <2>5, <2>8
    <3> QED
      BY <1>0, <1>2, <3>1, OtherCalm DEF CalmInv
  <2>9. ASSUME d \notin disturbed PROVE Calm(d)'
    <3>0. Calm(d)
      BY <1>0, <2>9 DEF CalmInv
    <3>1. Live(d)' = Live(d)
      BY <1>2, <2>5 DEF Live, Frame
    <3>2. OneWrite(d)' /\ StashInv(d)' /\ AckInv(d)' /\ PendInv(d)' /\ MirrorInv(d)'
      BY <1>2, <3>0, <3>1, StillCalm
    <3>3. GotInv(d)'
      <4> SUFFICES ASSUME NEW b \in Callers, Sending(b, d), job'[b].got = "ok"
                   PROVE  job[b].id \in executed /\ Effect(node[d], Own(b))
        BY <1>2, <2>4, <2>5 DEF GotInv, Effect
      <4>1. CASE b # c
        BY <2>3, <3>0, <4>1 DEF Calm, GotInv
      <4>2. CASE b = c
        <5>1. IsOk(up[d][1])
          BY <1>0, <1>1, <2>2, <2>3, <4>2 DEF IsOk
        <5>2. Own(b) \in Live(d) /\ Own(b).id = job[b].id
          BY DEF Live, Own
        <5> QED
          BY <1>1, <3>0, <5>1, <5>2 DEF Calm, AckInv
      <4> QED
        BY <4>1, <4>2
    <3>4. SecondInv(d)'
      BY <1>2, <2>4, <2>5, <3>0, <3>1 DEF Calm, SecondInv, Effect
    <3>5. ReleasedInv(d)'
      BY <1>2, <3>0, <3>1 DEF Calm, ReleasedInv
    <3> QED
      BY <3>2, <3>3, <3>4, <3>5 DEF Calm
  <2> QED
    BY <1>2, <2>6, <2>7, <2>8, <2>9 DEF IInv, CalmInv
<1> QED
  BY <1>3, <1>4 DEF RxMatch

\* The threads and the air stay as they are.
LEMMA SameWrites ==
    ASSUME NEW d, UNCHANGED job, \A f \in air' : f.dev = d => f \in air, Calm(d), node'[d] = node[d],
           executed \subseteq executed', d \in released' => d \in released
    PROVE  /\ Live(d)' \subseteq Live(d) /\ OneWrite(d)'
           /\ GotInv(d)' /\ SecondInv(d)' /\ ReleasedInv(d)'
<1>1. Live(d)' \subseteq Live(d)
  BY DEF Live, Frame, Own, Current, Sending
<1>2. OneWrite(d)' /\ GotInv(d)' /\ SecondInv(d)'
  BY <1>1 DEF Calm, OneWrite, GotInv, SecondInv, Sending, Own, Current, Before, Effect
<1>3. ReleasedInv(d)'
  BY <1>1 DEF Calm, ReleasedInv
<1> QED
  BY <1>1, <1>2, <1>3

LEMMA TailFacts ==
    ASSUME NEW q \in Seq(Answers), q # << >>
    PROVE  /\ Tail(q) \in Seq(Answers) /\ 1 \in DOMAIN q /\ Head(q) = q[1] /\ q[1] \in Answers
           /\ \A i \in DOMAIN Tail(q) : i \in Nat /\ i >= 1 /\ i + 1 \in DOMAIN q /\ Tail(q)[i] = q[i + 1]
           /\ \A i \in DOMAIN q : i \in Nat /\ (i > 1 => i - 1 \in DOMAIN Tail(q) /\ Tail(q)[i - 1] = q[i])
<1>1. Len(q) \in Nat \ {0} /\ Tail(q) \in Seq(Answers) /\ Len(Tail(q)) = Len(q) - 1 /\ Head(q) = q[1]
  OBVIOUS
<1>2. DOMAIN q = 1 .. Len(q) /\ DOMAIN Tail(q) = 1 .. Len(q) - 1
  BY <1>1
<1>3. \A i \in 1 .. Len(q) - 1 : Tail(q)[i] = q[i + 1]
  BY <1>1
<1>4. 1 \in DOMAIN q /\ q[1] \in Answers
  BY <1>1, <1>2
<1>5. \A i \in DOMAIN Tail(q) : i \in Nat /\ i >= 1 /\ i + 1 \in DOMAIN q /\ Tail(q)[i] = q[i + 1]
  BY <1>1, <1>2, <1>3
<1>6. \A i \in DOMAIN q : i \in Nat /\ (i > 1 => i - 1 \in DOMAIN Tail(q) /\ Tail(q)[i - 1] = q[i])
  BY <1>1, <1>2, <1>3
<1> QED
  BY <1>1, <1>4, <1>5, <1>6

\* Taking the head off the queue keeps what is said of the answers behind it.
LEMMA ShiftCalm ==
    ASSUME NEW d \in Devices, Calm(d), up[d] \in Seq(Answers), up[d] # << >>, up'[d] = Tail(up[d]),
           Live(d)' \subseteq Live(d), node'[d] = node[d], unheard'[d] = unheard[d], executed' = executed,
           stash'[d] = stash[d]
    PROVE  /\ StashInv(d)' /\ AckInv(d)' /\ PendInv(d)'
           /\ \A b : \A i \in Nat : Covered(d, b, i)' <=> Covered(d, b, i + 1)
           /\ \A b \in Bits \ unheard[d], i \in DOMAIN up'[d] :
                 up'[d][i].type = "status" /\ ~Covered(d, b, i)' => up'[d][i].config[b] = node[d][b]
<1> DEFINE q == up[d]  t == Tail(up[d])
<1>0. /\ up'[d] = t /\ \A i \in DOMAIN t : i \in Nat /\ i >= 1 /\ i + 1 \in DOMAIN q /\ t[i] = q[i + 1]
      /\ \A i \in DOMAIN q : i \in Nat /\ (i > 1 => i - 1 \in DOMAIN t /\ t[i - 1] = q[i])
  BY TailFacts
<1> HIDE DEF t
<1>1. StashInv(d)'
  BY DEF Calm, StashInv
<1>2. AckInv(d)'
  BY <1>0 DEF Calm, AckInv, IsOk
<1>3. PendInv(d)'
  <2> SUFFICES ASSUME NEW b \in Bits, Pending(d, b), NEW i \in DOMAIN t, IsOk(t[i])
               PROVE  /\ node[d][b] = stash[d].val /\ b \notin unheard[d]
                      /\ \A k \in DOMAIN t : k > i /\ t[k].type = "status" => t[k].config[b] = node[d][b]
    <3>1. \A b : Pending(d, b)' <=> Pending(d, b)
      BY DEF Pending
    <3>2. \A a : IsOk(a)' <=> IsOk(a)
      BY DEF IsOk
    <3>3. up'[d] = t /\ node'[d] = node[d] /\ stash'[d] = stash[d] /\ unheard'[d] = unheard[d]
      BY <1>0
    <3> QED
      BY <3>1, <3>2, <3>3 DEF PendInv
  <2>1. i + 1 \in DOMAIN q /\ IsOk(q[i + 1])
    BY <1>0
  <2>2. /\ node[d][b] = stash[d].val /\ b \notin unheard[d]
        /\ \A k \in DOMAIN q : k > i + 1 /\ q[k].type = "status" => q[k].config[b] = node[d][b]
    BY <2>1 DEF Calm, PendInv
  <2>3. ASSUME NEW k \in DOMAIN t, k > i, t[k].type = "status" PROVE t[k].config[b] = node[d][b]
    <3>1. k + 1 \in DOMAIN q /\ k + 1 > i + 1 /\ q[k + 1] = t[k]
      BY <1>0, <2>3
    <3> QED
      BY <2>2, <2>3, <3>1
  <2> QED
    BY <2>2, <2>3
<1>4. ASSUME NEW b, NEW i \in Nat PROVE Covered(d, b, i)' <=> Covered(d, b, i + 1)
  <2>1. Pending(d, b)' <=> Pending(d, b)
    BY DEF Pending
  <2>2. ASSUME Covered(d, b, i)' PROVE Covered(d, b, i + 1)
    <3>1. PICK k \in DOMAIN t : k > i /\ (t[k].type = "status" \/ (IsOk(t[k]) /\ Pending(d, b)))
      BY <1>0, <2>1, <2>2 DEF Covered, IsOk
    <3>2. k + 1 \in DOMAIN q /\ k + 1 > i + 1 /\ q[k + 1] = t[k]
      BY <1>0, <3>1
    <3> QED
      BY <3>1, <3>2 DEF Covered
  <2>3. ASSUME Covered(d, b, i + 1) PROVE Covered(d, b, i)'
    <3>1. PICK k \in DOMAIN q : k > i + 1 /\ (q[k].type = "status" \/ (IsOk(q[k]) /\ Pending(d, b)))
      BY <2>3 DEF Covered
    <3>2. k - 1 \in DOMAIN t /\ k - 1 > i /\ t[k - 1] = q[k]
      BY <1>0, <3>1
    <3> QED
      BY <1>0, <2>1, <3>1, <3>2 DEF Covered, IsOk
  <2> QED
    BY <2>2, <2>3
<1>5. ASSUME NEW b \in Bits \ unheard[d], NEW i \in DOMAIN t, t[i].type = "status", ~Covered(d, b, i)'
      PROVE  t[i].config[b] = node[d][b]
  <2>1. i + 1 \in DOMAIN q /\ q[i + 1] = t[i] /\ i \in Nat
    BY <1>0
  <2>2. ~Covered(d, b, i + 1)
    BY <1>4, <1>5, <2>1
  <2> QED
    BY <1>5, <2>1, <2>2 DEF Calm, MirrorInv
<1> QED
  BY <1>0, <1>1, <1>2, <1>3, <1>4, <1>5

LEMMA HandleStatusStep == ASSUME IInv, NEW d \in Devices, HandleStatus(d) PROVE IInv'
<1>0. /\ Types /\ JobInv /\ CalmInv /\ up[d] \in Seq(Answers) /\ up[d] # << >> /\ up[d][1].type = "status"
      /\ ~matched[d]
  BY TailFacts DEF IInv, Types, NodeTypes, HandleStatus
<1>1. /\ config' = [config EXCEPT ![d] = up[d][1].config] /\ up' = [up EXCEPT ![d] = Tail(up[d])]
      /\ UNCHANGED << job, running, stash, specials, readback, released, kept, node, air, matched, executed,
                      unheard, disturbed, writes >>
  BY <1>0, TailFacts DEF HandleStatus, histVars, Types, NodeTypes, HostTypes
<1>2. Types'
  <2>1. up[d][1].config \in [Bits -> {0, 1}]
    BY <1>0, TailFacts DEF Answers
  <2>2. config' \in [Devices -> [Bits -> {0, 1}]] /\ up' \in [Devices -> Seq(Answers)]
    BY <1>0, <1>1, <2>1, TailFacts DEF Types, HostTypes, NodeTypes
  <2>3. \A e \in Devices : matched'[e] => up'[e] # << >> /\ up'[e][1].type = "ack"
    BY <1>0, <1>1 DEF Types, NodeTypes
  <2> QED
    BY <1>0, <1>1, <2>2, <2>3 DEF Types, HostTypes, NodeTypes, HistTypes, FrameOK
<1>3. JobInv'
  BY <1>0, <1>1 DEF JobInv
<1>4. ASSUME NEW e \in Devices \ disturbed, e # d PROVE Calm(e)'
  BY <1>0, <1>1, <1>4, OtherCalm DEF CalmInv, Types, HostTypes, NodeTypes
<1>5. ASSUME d \notin disturbed PROVE Calm(d)'
  <2>0. Calm(d) /\ up'[d] = Tail(up[d]) /\ config'[d] = up[d][1].config
    BY <1>0, <1>1, <1>5 DEF CalmInv, Types, HostTypes, NodeTypes
  <2>1. /\ Live(d)' \subseteq Live(d) /\ OneWrite(d)' /\ GotInv(d)' /\ SecondInv(d)' /\ ReleasedInv(d)'
    BY <1>1, <2>0, SameWrites
  <2>2. /\ StashInv(d)' /\ AckInv(d)' /\ PendInv(d)'
        /\ \A b : \A i \in Nat : Covered(d, b, i)' <=> Covered(d, b, i + 1)
        /\ \A b \in Bits \ unheard[d], i \in DOMAIN up'[d] :
              up'[d][i].type = "status" /\ ~Covered(d, b, i)' => up'[d][i].config[b] = node[d][b]
    BY <1>0, <1>1, <2>0, <2>1, ShiftCalm
  <2>3. ASSUME NEW b \in Bits \ unheard[d], ~Covered(d, b, 0)' PROVE config'[d][b] = node[d][b]
    <3>1. ~Covered(d, b, 0 + 1)
      BY <2>2, <2>3
    <3>2. 0 + 1 = 1 /\ 1 \in DOMAIN up[d]
      BY <1>0, TailFacts
    <3> QED
      BY <1>0, <2>0, <3>1, <3>2 DEF Calm, MirrorInv
  <2>4. MirrorInv(d)'
    BY <1>1, <2>2, <2>3 DEF MirrorInv
  <2> QED
    BY <2>1, <2>2, <2>4 DEF Calm
<1> QED
  BY <1>1, <1>2, <1>3, <1>4, <1>5 DEF IInv, CalmInv

LEMMA WrittenBits ==
    ASSUME NEW regs, Bits \subseteq DOMAIN regs, NEW o, NEW v, NEW b \in Bits
    PROVE  Written(regs, o, v)[b] = IF b = o THEN v ELSE regs[b]
BY DEF Written, Bits

LEMMA HandleAckStep == ASSUME IInv, NEW d \in Devices, HandleAck(d) PROVE IInv'
<1> DEFINE pops == IsOk(up[d][1]) /\ stash[d] # None
<1>0. /\ Types /\ JobInv /\ CalmInv /\ up[d] \in Seq(Answers) /\ up[d] # << >> /\ up[d][1].type = "ack"
      /\ Head(up[d]) = up[d][1]
  BY TailFacts DEF IInv, Types, NodeTypes, HandleAck
<1>1. /\ up' = [up EXCEPT ![d] = Tail(up[d])] /\ matched' = [matched EXCEPT ![d] = FALSE]
      /\ UNCHANGED << job, running, specials, readback, released, kept, node, air, executed, unheard,
                      disturbed, writes >>
  BY <1>0 DEF HandleAck, histVars, Types, NodeTypes
<1>2. /\ pops => /\ stash' = [stash EXCEPT ![d] = None]
                 /\ config' = [config EXCEPT ![d] = Written(config[d], stash[d].opt, stash[d].val)]
      /\ ~pops => UNCHANGED << stash, config >>
  BY <1>0 DEF HandleAck, IsOk, ApplyConfigUpdate, Types, HostTypes
<1> HIDE DEF pops
<1>a. config[d] \in [Bits -> {0, 1}] /\ Bits \subseteq DOMAIN config[d]
      /\ (stash[d] # None => stash[d] \in [opt : Options, val : 0 .. 255])
  BY <1>0 DEF Types, HostTypes
<1>3. Types'
  <2>1. /\ stash' \in [Devices -> [opt : Options, val : 0 .. 255] \cup {None}]
        /\ \A e \in Devices : stash'[e] # None /\ stash'[e].opt \in Bits => stash'[e].val \in {0, 1}
    <3>1. CASE pops
      BY <1>0, <1>2, <3>1 DEF Types, HostTypes
    <3>2. CASE ~pops
      BY <1>0, <1>2, <3>2 DEF Types, HostTypes
    <3> QED
      BY <3>1, <3>2
  <2>2. config' \in [Devices -> [Bits -> {0, 1}]]
    <3>1. CASE ~pops
      BY <1>0, <1>2, <3>1 DEF Types, HostTypes
    <3>2. CASE pops
      <4>1. stash[d] # None /\ (stash[d].opt \in Bits => stash[d].val \in {0, 1})
        BY <1>0, <3>2 DEF pops, Types, HostTypes
      <4>2. Written(config[d], stash[d].opt, stash[d].val) \in [Bits -> {0, 1}]
        BY <1>a, <4>1 DEF Written
      <4> QED
        BY <1>0, <1>2, <3>2, <4>2 DEF Types, HostTypes
    <3> QED
      BY <3>1, <3>2
  <2>3. up' \in [Devices -> Seq(Answers)]
    BY <1>0, <1>1, TailFacts DEF Types, NodeTypes
  <2>4. \A e \in Devices : matched'[e] => up'[e] # << >> /\ up'[e][1].type = "ack"
    BY <1>0, <1>1 DEF Types, NodeTypes
  <2> QED
    BY <1>0, <1>1, <2>1, <2>2, <2>3, <2>4 DEF Types, HostTypes, NodeTypes, HistTypes, FrameOK
<1>4. JobInv'
  BY <1>0, <1>1 DEF JobInv
<1>5. ASSUME NEW e \in Devices \ disturbed, e # d PROVE Calm(e)'
  <2>1. stash'[e] = stash[e] /\ config'[e] = config[e] /\ up'[e] = up[e]
    BY <1>0, <1>1, <1>2, <1>5 DEF Types, HostTypes, NodeTypes
  <2> QED
    BY <1>0, <1>1, <1>5, <2>1, OtherCalm DEF CalmInv
<1>6. ASSUME d \notin disturbed PROVE Calm(d)'
  <2>0. Calm(d) /\ up'[d] = Tail(up[d]) /\ 1 \in DOMAIN up[d]
    BY <1>0, <1>1, <1>6, TailFacts DEF CalmInv, Types, NodeTypes
  <2>1. /\ Live(d)' \subseteq Live(d) /\ OneWrite(d)' /\ GotInv(d)' /\ SecondInv(d)' /\ ReleasedInv(d)'
    BY <1>1, <2>0, SameWrites
  <2>2. CASE ~pops
    <3>1. stash'[d] = stash[d] /\ config'[d] = config[d]
      BY <1>2, <2>2
    <3>2. /\ StashInv(d)' /\ AckInv(d)' /\ PendInv(d)'
          /\ \A b : \A i \in Nat : Covered(d, b, i)' <=> Covered(d, b, i + 1)
          /\ \A b \in Bits \ unheard[d], i \in DOMAIN up'[d] :
                up'[d][i].type = "status" /\ ~Covered(d, b, i)' => up'[d][i].config[b] = node[d][b]
      BY <1>0, <1>1, <2>0, <2>1, <3>1, ShiftCalm
    <3>3. ASSUME NEW b \in Bits \ unheard[d], ~Covered(d, b, 0)' PROVE config'[d][b] = node[d][b]
      <4>1. ~Covered(d, b, 0 + 1)
        BY <3>2, <3>3
      <4>2. ~(IsOk(up[d][1]) /\ Pending(d, b)) /\ up[d][1].type # "status"
        BY <1>0, <2>2 DEF pops, Pending
      <4>3. \A k \in DOMAIN up[d] : k > 0 => k > 1 \/ k = 1
        BY <1>0, TailFacts
      <4>4. ~Covered(d, b, 0)
        BY <4>1, <4>2, <4>3 DEF Covered
      <4> QED
        BY <2>0, <3>1, <4>4 DEF Calm, MirrorInv
    <3>4. MirrorInv(d)'
      BY <1>1, <3>2, <3>3 DEF MirrorInv
    <3> QED
      BY <2>1, <3>2, <3>4 DEF Calm
  <2>3. CASE pops
    <3> DEFINE q == up[d]  t == Tail(up[d])  s == stash[d]
    <3>0. /\ IsOk(q[1]) /\ s # None /\ s.opt \in Options
          /\ stash'[d] = None /\ config'[d] = Written(config[d], s.opt, s.val) /\ up'[d] = t
      BY <1>0, <1>2, <1>a, <2>0, <2>3 DEF pops, Types, HostTypes
    <3>1. \A i \in DOMAIN t : i \in Nat /\ i >= 1 /\ i + 1 \in DOMAIN q /\ t[i] = q[i + 1]
      BY <1>0, TailFacts
    <3>2. \A i \in DOMAIN q : i \in Nat /\ (i > 1 => i - 1 \in DOMAIN t /\ t[i - 1] = q[i])
      BY <1>0, TailFacts
    <3> HIDE DEF t, s
    <3>3. \A b : Pending(d, b) <=> s.opt = b
      BY <3>0 DEF Pending, s
    <3>4. \A b : ~Pending(d, b)'
      BY <3>0 DEF Pending
    <3>5. ASSUME NEW b \in Bits, s.opt = b
          PROVE  /\ node[d][b] = s.val /\ b \notin unheard[d]
                 /\ \A k \in DOMAIN q : k > 1 /\ q[k].type = "status" => q[k].config[b] = node[d][b]
      BY <2>0, <3>0, <3>3, <3>5 DEF Calm, PendInv, s
    <3>6. StashInv(d)'
      <4> SUFFICES ASSUME NEW x \in Live(d), x.opt \in Bits
                   PROVE  node[d][x.opt] = x.val /\ x.opt \notin unheard[d]
        BY <1>1, <2>1, <3>0 DEF StashInv
      <4>1. s.opt = x.opt
        BY <2>0, <3>0 DEF Calm, StashInv, s
      <4>2. Effect(node[d], x)
        BY <2>0, <3>0 DEF Calm, AckInv
      <4> QED
        BY <3>5, <4>1, <4>2 DEF Effect
    <3>7. AckInv(d)'
      BY <1>1, <2>0, <2>1, <3>0, <3>1 DEF Calm, AckInv, IsOk
    <3>8. PendInv(d)'
      BY <3>4 DEF PendInv
    <3>9. \A b, i : Covered(d, b, i)' <=> \E k \in DOMAIN t : k > i /\ t[k].type = "status"
      BY <3>0, <3>4 DEF Covered
    <3>10. ASSUME NEW b \in Bits \ unheard[d], ~Covered(d, b, 0)' PROVE config'[d][b] = node[d][b]
      <4>1. config'[d][b] = IF b = s.opt THEN s.val ELSE config[d][b]
        BY <1>a, <3>0, WrittenBits
      <4>2. CASE b = s.opt
        BY <3>5, <4>1, <4>2
      <4>3. CASE b # s.opt
        <5>1. ASSUME NEW k \in DOMAIN q, q[k].type = "status" PROVE FALSE
          <6>1. k > 1
            BY <1>0, <3>2, <5>1
          <6>2. k - 1 \in DOMAIN t /\ t[k - 1].type = "status" /\ k - 1 > 0
            BY <3>2, <5>1, <6>1
          <6> QED
            BY <3>9, <3>10, <6>2
        <5>2. ~Covered(d, b, 0)
          BY <3>3, <4>3, <5>1 DEF Covered
        <5> QED
          BY <2>0, <4>1, <4>3, <5>2 DEF Calm, MirrorInv
      <4> QED
        BY <4>2, <4>3
    <3>11. ASSUME NEW b \in Bits \ unheard[d], NEW i \in DOMAIN t, t[i].type = "status", ~Covered(d, b, i)'
           PROVE  t[i].config[b] = node[d][b]
      <4>1. i \in Nat /\ i >= 1 /\ i + 1 \in DOMAIN q /\ t[i] = q[i + 1]
        BY <3>1
      <4>2. CASE b = s.opt
        BY <3>5, <3>11, <4>1, <4>2
      <4>3. CASE b # s.opt
        <5>1. ASSUME NEW k \in DOMAIN q, k > i + 1, q[k].type = "status" PROVE FALSE
          <6>1. k - 1 \in DOMAIN t /\ t[k - 1].type = "status" /\ k - 1 > i
            BY <3>2, <4>1, <5>1
          <6> QED
            BY <3>9, <3>11, <6>1
        <5>2. ~Covered(d, b, i + 1)
          BY <3>3, <4>3, <5>1 DEF Covered
        <5> QED
          BY <2>0, <3>11, <4>1, <5>2 DEF Calm, MirrorInv
      <4> QED
        BY <4>2, <4>3
    <3>12. MirrorInv(d)'
      BY <1>1, <3>0, <3>10, <3>11 DEF MirrorInv
    <3> QED
      BY <2>1, <3>6, <3>7, <3>8, <3>12 DEF Calm
  <2> QED
    BY <2>2, <2>3
<1> QED
  BY <1>1, <1>3, <1>4, <1>5, <1>6 DEF IInv, CalmInv

----------------------------------------------------------------------------
(* The nodes                                                               *)

LEMMA AppendFacts ==
    ASSUME NEW q \in Seq(Answers), NEW a \in Answers
    PROVE  /\ Append(q, a) \in Seq(Answers) /\ Append(q, a) # << >>
           /\ Len(q) \in Nat /\ DOMAIN q = 1 .. Len(q)
           /\ DOMAIN Append(q, a) = 1 .. Len(q) + 1 /\ Append(q, a)[Len(q) + 1] = a
           /\ \A i \in DOMAIN q : Append(q, a)[i] = q[i]
OBVIOUS

\* An answer at the end of the queue leaves its head, so what the RX thread is
\* looking at stays there.
LEMMA AppendTypes ==
    ASSUME Types, NEW d \in Devices, NEW a \in Answers, up' = [up EXCEPT ![d] = Append(up[d], a)],
           matched' = matched
    PROVE  /\ up' \in [Devices -> Seq(Answers)]
           /\ \A e \in Devices : matched'[e] => up'[e] # << >> /\ up'[e][1].type = "ack"
<1>1. up \in [Devices -> Seq(Answers)] /\ up[d] \in Seq(Answers)
  BY DEF Types, NodeTypes
<1>2. up' \in [Devices -> Seq(Answers)]
  BY <1>1, AppendFacts
<1>3. ASSUME NEW e \in Devices, matched[e] PROVE up'[e] # << >> /\ up'[e][1].type = "ack"
  <2>1. up[e] # << >> /\ up[e][1].type = "ack" /\ up[e] \in Seq(Answers)
    BY <1>3 DEF Types, NodeTypes
  <2>2. 1 \in DOMAIN up[e]
    BY <2>1, TailFacts
  <2>3. CASE e = d
    BY <1>1, <2>1, <2>2, <2>3, AppendFacts
  <2>4. CASE e # d
    BY <1>1, <2>1, <2>4
  <2> QED
    BY <2>3, <2>4
<1> QED
  BY <1>2, <1>3

LEMMA NodeReportsStep == ASSUME IInv, NEW d \in Devices, NodeReports(d) PROVE IInv'
<1> DEFINE a == [type |-> "status", config |-> [b \in Bits |-> node[d][b]]]  q == up[d]  n == Len(q)
<1>0. Types /\ JobInv /\ CalmInv /\ q \in Seq(Answers)
  BY DEF IInv, Types, NodeTypes
<1>1. a \in Answers /\ a.type = "status" /\ \A b \in Bits : a.config[b] = node[d][b]
  <2>1. \A b \in Bits : node[d][b] \in {0, 1}
    <3> SUFFICES ASSUME NEW b \in Bits PROVE node[d][b] \in {0, 1}
      OBVIOUS
    <3>1. node[d][b] \in Values(b) /\ b \in Options
      BY <1>0 DEF Types, NodeTypes, Options
    <3> QED
      BY <3>1, PackUnpack
  <2> QED
    BY <2>1 DEF Answers
<1>2. /\ up' = [up EXCEPT ![d] = Append(q, a)] /\ unheard' = [unheard EXCEPT ![d] = {}]
      /\ UNCHANGED << hostVars, node, air, matched, executed, disturbed, writes >>
  BY <1>0 DEF NodeReports, Types, NodeTypes
<1> HIDE DEF a
<1>3. Types'
  <2>1. /\ up' \in [Devices -> Seq(Answers)]
        /\ \A e \in Devices : matched'[e] => up'[e] # << >> /\ up'[e][1].type = "ack"
    BY <1>0, <1>1, <1>2, AppendTypes
  <2> QED
    BY <1>0, <1>2, <2>1 DEF Types, HostTypes, NodeTypes, HistTypes, FrameOK, hostVars
<1>4. JobInv'
  BY <1>0, <1>2 DEF JobInv, hostVars
<1>5. ASSUME NEW e \in Devices \ disturbed, e # d PROVE Calm(e)'
  BY <1>0, <1>2, <1>5, OtherCalm DEF CalmInv, Types, NodeTypes, HistTypes, hostVars
<1>6. ASSUME d \notin disturbed PROVE Calm(d)'
  <2>0. /\ Calm(d) /\ up'[d] = Append(q, a) /\ unheard'[d] = {} /\ stash'[d] = stash[d]
        /\ node'[d] = node[d] /\ executed' = executed
    BY <1>0, <1>2, <1>6 DEF CalmInv, Types, NodeTypes, HistTypes, hostVars
  <2>1. /\ Live(d)' \subseteq Live(d) /\ OneWrite(d)' /\ GotInv(d)' /\ SecondInv(d)' /\ ReleasedInv(d)'
    BY <1>2, <2>0, SameWrites DEF hostVars
  <2>2. /\ n \in Nat /\ DOMAIN q = 1 .. n /\ DOMAIN up'[d] = 1 .. n + 1 /\ up'[d][n + 1] = a
        /\ \A i \in 1 .. n : up'[d][i] = q[i]
    BY <1>0, <1>1, <2>0, AppendFacts
  <2> HIDE DEF n, q
  <2>3. StashInv(d)'
    BY <2>0, <2>1 DEF Calm, StashInv
  <2>4. \A i \in 1 .. n + 1 : IsOk(up'[d][i]) => i \in 1 .. n /\ IsOk(q[i])
    BY <1>1, <2>2 DEF IsOk
  <2>5. AckInv(d)'
    BY <2>0, <2>1, <2>2, <2>4 DEF Calm, AckInv, IsOk, q
  <2>6. PendInv(d)'
    <3> SUFFICES ASSUME NEW b \in Bits, Pending(d, b), NEW i \in 1 .. n + 1, IsOk(up'[d][i])
                 PROVE  /\ node[d][b] = stash[d].val
                        /\ \A j \in 1 .. n + 1 : j > i /\ up'[d][j].type = "status" => up'[d][j].config[b] = node[d][b]
      <4>1. \A b : Pending(d, b)' <=> Pending(d, b)
        BY <2>0 DEF Pending
      <4>2. \A x : IsOk(x)' <=> IsOk(x)
        BY DEF IsOk
      <4> QED
        BY <2>0, <2>2, <4>1, <4>2 DEF PendInv
    <3>1. i \in 1 .. n /\ IsOk(q[i])
      BY <2>4
    <3>2. /\ node[d][b] = stash[d].val
          /\ \A j \in 1 .. n : j > i /\ q[j].type = "status" => q[j].config[b] = node[d][b]
      BY <2>0, <2>2, <3>1 DEF Calm, PendInv, q
    <3>3. ASSUME NEW j \in 1 .. n + 1, j > i, up'[d][j].type = "status" PROVE up'[d][j].config[b] = node[d][b]
      <4>1. CASE j = n + 1
        BY <1>1, <2>2, <4>1
      <4>2. CASE j # n + 1
        <5>1. j \in 1 .. n
          BY <2>2, <4>2
        <5> QED
          BY <2>2, <3>2, <3>3, <5>1
      <4> QED
        BY <4>1, <4>2
    <3> QED
      BY <3>2, <3>3
  <2>7. MirrorInv(d)'
    <3>1. n + 1 \in 1 .. n + 1 /\ \A i \in 0 .. n : n + 1 > i
      BY <2>2
    <3>2. \A b : \A i \in 0 .. n : Covered(d, b, i)'
      BY <1>1, <2>2, <3>1 DEF Covered
    <3>3. 0 \in 0 .. n /\ \A i \in 1 .. n + 1 : i \in 0 .. n \/ i = n + 1
      BY <2>2
    <3> QED
      BY <1>1, <2>0, <2>2, <3>2, <3>3 DEF MirrorInv
  <2> QED
    BY <2>1, <2>3, <2>5, <2>6, <2>7 DEF Calm
<1> QED
  BY <1>2, <1>3, <1>4, <1>5, <1>6 DEF IInv, CalmInv

LEMMA SecondOptions ==
    ASSUME Types, JobInv, NEW c \in Callers, job[c].pc # "idle", SecondAt(job[c])
    PROVE  Before(c).opt \in {"slots", "persist"} /\ Current(c).opt \in {"first", "forget"}
<1>1. /\ Shape(job[c].kind, job[c].steps) /\ job[c].i \in 1 .. Len(job[c].steps) /\ job[c].i > 1
      /\ Len(job[c].steps) \in Nat
  BY CurrentType DEF JobInv, JobOK, SecondAt
<1>2. CASE job[c].kind = "startblock"
  <2>1. job[c].i = 2 /\ job[c].i - 1 = 1
    BY <1>1, <1>2 DEF Shape
  <2> QED
    BY <1>1, <1>2, <2>1 DEF Shape, Before, Current
<1>3. CASE job[c].kind = "clear" /\ job[c].steps[job[c].i].opt = "forget"
  BY <1>1, <1>3 DEF Shape, ClearShape, Before, Current
<1> QED
  BY <1>2, <1>3 DEF SecondAt

\* What is left to say of the node that answers: how its registers, the answer
\* and the forgotten answer change what the mirror is to become.
LEMMA AnswerCalm ==
    ASSUME IInv, NEW d \in Devices \ disturbed, NEW f \in air, f.dev = d,
           NEW status \in {"ok", "nak"}, NEW lost \in BOOLEAN,
           node'[d] = (IF status = "ok" THEN Written(node[d], f.opt, Unpack(f.opt, f.data)) ELSE node[d]),
           executed' = (IF status = "ok" THEN executed \cup {f.id} ELSE executed),
           up'[d] = (IF lost THEN up[d] ELSE Append(up[d], [type |-> "ack", status |-> status])),
           unheard'[d] = (IF lost /\ node'[d] # node[d] THEN unheard[d] \cup ({f.opt} \cap Bits)
                          ELSE IF ~lost /\ status = "ok" THEN unheard[d] \ {f.opt} ELSE unheard[d]),
           air' \subseteq air,
           UNCHANGED << job, stash, config, released >>
    PROVE  Calm(d)'
<1> SUFFICES ASSUME NEW regs, node'[d] = regs,
                    regs = (IF status = "ok" THEN Written(node[d], f.opt, Unpack(f.opt, f.data)) ELSE node[d]),
                    unheard'[d] = (IF lost /\ regs # node[d] THEN unheard[d] \cup ({f.opt} \cap Bits)
                                   ELSE IF ~lost /\ status = "ok" THEN unheard[d] \ {f.opt} ELSE unheard[d])
             PROVE  Calm(d)'
  OBVIOUS
<1> DEFINE v == Unpack(f.opt, f.data)  o == f.opt  x0 == Frame(f)  q == up[d]  n == Len(q)
           a == [type |-> "ack", status |-> status]
<1>0. /\ Types /\ JobInv /\ Calm(d) /\ q \in Seq(Answers) /\ x0 \in Live(d)
      /\ x0.opt = o /\ x0.val = v /\ x0.id = f.id /\ o \in Options
      /\ DOMAIN node[d] = Bits \cup Keys /\ node[d] \in [Bits \cup Keys -> InputValues]
  BY DEF IInv, CalmInv, Types, NodeTypes, Live, Frame, FrameOK
<1>1. Live(d)' \subseteq Live(d)
  BY DEF Live, Frame, Own, Current, Sending
<1>2. \A x \in Live(d) : x = x0
  BY <1>0 DEF Calm, OneWrite
<1>3. /\ stash[d] # None => stash[d].opt = o /\ (o \in Bits => stash[d].val = v)
      /\ stash[d] = None /\ o \in Bits => node[d][o] = v /\ o \notin unheard[d]
  BY <1>0 DEF Calm, StashInv
<1>4. a \in Answers /\ a.type = "ack" /\ a.status = status
  BY DEF Answers
<1>5. \A r \in Bits \cup Keys :
          regs[r] = IF status = "nak" THEN node[d][r]
                    ELSE IF r = o THEN v ELSE IF o = "reset" /\ r = "wled" THEN 0 ELSE node[d][r]
  BY <1>0 DEF Written
<1>6. /\ \A r \in Bits : r # o => regs[r] = node[d][r]
      /\ status = "ok" => Effect(regs, x0)
  <2>1. "wled" \notin Bits /\ "wled" \in Keys /\ "reset" \notin Bits \cup Keys
    BY DEF Bits, Keys
  <2> QED
    BY <1>0, <1>5, <2>1 DEF Effect
<1>7. o \in Bits /\ node[d][o] = v => regs = node[d]
  <2> SUFFICES ASSUME o \in Bits, node[d][o] = v, status = "ok" PROVE regs = node[d]
    OBVIOUS
  <2>1. o # "reset"
    BY DEF Bits
  <2>2. regs = [r \in Bits \cup Keys |-> IF r = o THEN v ELSE IF o = "reset" /\ r = "wled" THEN 0 ELSE node[d][r]]
    BY <1>0 DEF Written
  <2>3. \A r \in Bits \cup Keys : regs[r] = node[d][r]
    BY <2>1, <2>2
  <2> QED
    BY <1>0, <2>2, <2>3
<1>8. status = "nak" => regs = node[d]
  OBVIOUS
<1>9. /\ \A b \in Bits : b # o => (b \in unheard'[d] <=> b \in unheard[d])
      /\ regs = node[d] => unheard'[d] \subseteq unheard[d]
      /\ regs = node[d] /\ lost => unheard'[d] = unheard[d]
      /\ status = "nak" => unheard'[d] = unheard[d]
      /\ o \in Bits /\ o \notin unheard'[d] /\ lost => regs = node[d]
      /\ status = "ok" /\ ~lost => o \notin unheard'[d]
  BY <1>8
<1>10. /\ n \in Nat /\ DOMAIN q = 1 .. n
       /\ DOMAIN up'[d] = IF lost THEN 1 .. n ELSE 1 .. n + 1
       /\ \A i \in 1 .. n : up'[d][i] = q[i]
       /\ ~lost => up'[d][n + 1] = a
  <2>1. CASE lost
    BY <1>0, <1>4, <2>1, AppendFacts
  <2>2. CASE ~lost
    BY <1>0, <1>4, <2>2, AppendFacts
  <2> QED
    BY <2>1, <2>2
<1> HIDE DEF a, q, n
<1>11. /\ \A i \in DOMAIN up'[d] : i \in 1 .. n \/ (i = n + 1 /\ ~lost)
       /\ \A i \in 1 .. n : i \in DOMAIN up'[d]
  BY <1>10
<1>12. /\ \A b : Pending(d, b)' <=> Pending(d, b)
       /\ \A x : IsOk(x)' <=> IsOk(x)
       /\ \A b \in Bits : Pending(d, b) => b = o /\ stash[d].val = v
  BY <1>3 DEF Pending, IsOk
<1>13. OneWrite(d)'
  BY <1>0, <1>1 DEF Calm, OneWrite
<1>14. StashInv(d)'
  <2>1. stash[d] = None /\ o \in Bits => regs = node[d] /\ node[d][o] = v /\ o \notin unheard'[d]
    BY <1>3, <1>7, <1>9
  <2> QED
    BY <1>0, <1>1, <1>2, <1>3, <2>1 DEF StashInv
<1>15. AckInv(d)'
  <2> SUFFICES ASSUME NEW i \in DOMAIN up'[d], IsOk(up'[d][i])
               PROVE  x0.id \in executed' /\ Effect(regs, x0)
    BY <1>1, <1>2, <1>12 DEF AckInv, Effect
  <2>1. CASE status = "ok"
    BY <1>0, <1>6, <2>1
  <2>2. CASE status = "nak"
    <3>1. i \in 1 .. n /\ IsOk(q[i])
      BY <1>4, <1>10, <1>11, <2>2 DEF IsOk
    <3> QED
      BY <1>0, <1>8, <1>10, <2>2, <3>1 DEF Calm, AckInv, q
  <2> QED
    BY <2>1, <2>2
<1>16. PendInv(d)'
  <2> SUFFICES ASSUME NEW b \in Bits, Pending(d, b), NEW i \in DOMAIN up'[d], IsOk(up'[d][i])
               PROVE  /\ regs[b] = stash[d].val /\ b \notin unheard'[d]
                      /\ \A j \in DOMAIN up'[d] :
                            j > i /\ up'[d][j].type = "status" => up'[d][j].config[b] = regs[b]
    BY <1>12 DEF PendInv
  <2>1. b = o /\ stash[d].val = v
    BY <1>12
  <2>2. CASE i \in 1 .. n
    <3>1. IsOk(q[i])
      BY <1>10, <2>2
    <3>2. /\ node[d][b] = v /\ b \notin unheard[d]
          /\ \A j \in 1 .. n : j > i /\ q[j].type = "status" => q[j].config[b] = node[d][b]
      BY <1>0, <1>10, <2>1, <2>2, <3>1 DEF Calm, PendInv, q
    <3>3. regs = node[d] /\ b \notin unheard'[d]
      BY <1>7, <1>9, <2>1, <3>2
    <3>4. \A j \in DOMAIN up'[d] : up'[d][j].type = "status" => j \in 1 .. n /\ q[j].type = "status" /\ up'[d][j] = q[j]
      BY <1>4, <1>10, <1>11
    <3> QED
      BY <2>1, <3>2, <3>3, <3>4
  <2>3. CASE i = n + 1 /\ ~lost
    <3>1. status = "ok"
      BY <1>4, <1>10, <2>3 DEF IsOk
    <3>2. regs[b] = v /\ b \notin unheard'[d]
      BY <1>5, <1>9, <2>1, <2>3, <3>1
    <3>3. \A j \in DOMAIN up'[d] : ~(j > i)
      BY <1>10, <1>11, <2>3
    <3> QED
      BY <2>1, <3>2, <3>3
  <2> QED
    BY <1>11, <2>2, <2>3
<1>17. MirrorInv(d)'
  <2> SUFFICES ASSUME NEW b \in Bits, b \notin unheard'[d]
               PROVE  /\ ~Covered(d, b, 0)' => config[d][b] = regs[b]
                      /\ \A i \in DOMAIN up'[d] :
                            up'[d][i].type = "status" /\ ~Covered(d, b, i)' => up'[d][i].config[b] = regs[b]
    BY DEF MirrorInv
  <2>1. CASE regs[b] = node[d][b] /\ b \notin unheard[d] /\ ~(Pending(d, b) /\ status = "ok" /\ ~lost)
    <3>1. \A i : Covered(d, b, i)' <=> Covered(d, b, i)
      <4> SUFFICES ASSUME NEW i PROVE Covered(d, b, i)' <=> Covered(d, b, i)
        OBVIOUS
      <4>1. ASSUME NEW j \in DOMAIN up'[d], up'[d][j].type = "status" \/ (IsOk(up'[d][j]) /\ Pending(d, b))
            PROVE  j \in 1 .. n /\ up'[d][j] = q[j]
        BY <1>4, <1>10, <1>11, <2>1, <4>1 DEF IsOk
      <4>2. Covered(d, b, i)' => Covered(d, b, i)
        BY <1>10, <1>12, <4>1 DEF Covered, q
      <4>3. Covered(d, b, i) => Covered(d, b, i)'
        BY <1>10, <1>11, <1>12 DEF Covered, q
      <4> QED
        BY <4>2, <4>3
    <3>2. \A i \in DOMAIN up'[d] : up'[d][i].type = "status" => i \in 1 .. n /\ up'[d][i] = q[i]
      BY <1>4, <1>10, <1>11
    <3> QED
      BY <1>0, <1>10, <2>1, <3>1, <3>2 DEF Calm, MirrorInv, q
  <2>2. CASE Pending(d, b) /\ status = "ok" /\ ~lost
    <3>1. n + 1 \in DOMAIN up'[d] /\ IsOk(up'[d][n + 1])
      BY <1>4, <1>10, <2>2 DEF IsOk
    <3>2. \A i \in 0 .. n : Covered(d, b, i)'
      BY <1>10, <1>12, <2>2, <3>1 DEF Covered
    <3>3. 0 \in 0 .. n /\ \A i \in 1 .. n : i \in 0 .. n
      BY <1>10
    <3>4. \A i \in DOMAIN up'[d] : up'[d][i].type = "status" => i \in 1 .. n
      BY <1>4, <1>10, <1>11
    <3> QED
      BY <3>2, <3>3, <3>4
  <2>3. CASE ~(regs[b] = node[d][b] /\ b \notin unheard[d])
    <3>1. b = o
      BY <1>6, <1>9, <2>3
    <3>2. status = "ok" /\ ~lost
      BY <1>8, <1>9, <2>3, <3>1
    <3>3. stash[d] # None
      BY <1>3, <1>7, <2>3, <3>1
    <3>4. Pending(d, b)
      BY <1>3, <3>1, <3>3 DEF Pending
    <3> QED
      BY <2>2, <3>2, <3>4
  <2> QED
    BY <2>1, <2>2, <2>3
<1>18. GotInv(d)'
  <2> SUFFICES ASSUME NEW b \in Callers, Sending(b, d), job[b].got = "ok"
               PROVE  job[b].id \in executed' /\ Effect(regs, Own(b))
    BY DEF GotInv, Sending, Own, Current, Effect
  <2>1. Own(b) = x0 /\ Own(b).id = job[b].id
    BY <1>2 DEF Live, Own
  <2>2. job[b].id \in executed /\ Effect(node[d], Own(b))
    BY <1>0 DEF Calm, GotInv
  <2> QED
    BY <1>6, <1>8, <2>1, <2>2
<1>19. SecondInv(d)'
  <2> SUFFICES ASSUME NEW b \in Callers, job[b].pc # "idle", SecondAt(job[b]), Current(b).dev = d
               PROVE  Effect(regs, Before(b))
    BY <1>0, <1>1 DEF Calm, SecondInv, Effect, SecondAt, Current, Before
  <2>1. Effect(node[d], Before(b))
        /\ (job[b].pc = "stash" => x0.opt = Before(b).opt /\ x0.val = Before(b).val)
    BY <1>0 DEF Calm, SecondInv
  <2>2. Before(b).opt \in {"slots", "persist"} /\ Current(b).opt \in {"first", "forget"}
    BY <1>0, SecondOptions
  <2>3. CASE status = "nak"
    BY <1>8, <2>1, <2>3
  <2>4. CASE status = "ok" /\ job[b].pc = "stash"
    BY <1>6, <2>1, <2>4 DEF Effect
  <2>5. CASE status = "ok" /\ job[b].pc # "stash"
    <3>1. job[b].pc \in {"send", "wait", "store"}
      BY <1>0, <2>5 DEF Types, HostTypes, JobType, Steps
    <3>2. Own(b) = x0 /\ Own(b).opt = Current(b).opt
      BY <1>2, <3>1 DEF Live, Own, Sending
    <3>3. o # Before(b).opt /\ o # "reset" /\ Before(b).opt # "reset" /\ Before(b).opt \in Bits \cup Keys
      BY <1>0, <2>2, <3>2 DEF Bits, Keys
    <3>4. regs[Before(b).opt] = node[d][Before(b).opt]
      BY <1>5, <3>3
    <3> QED
      BY <2>1, <3>3, <3>4 DEF Effect
  <2> QED
    BY <2>3, <2>4, <2>5
<1>20. ReleasedInv(d)'
  <2> SUFFICES ASSUME d \in released PROVE regs["persist"] = 0 /\ \A x \in Live(d)' : x.opt = "persist" => x.val = 0
    BY DEF ReleasedInv
  <2>1. node[d]["persist"] = 0 /\ \A x \in Live(d) : x.opt = "persist" => x.val = 0
    BY <1>0 DEF Calm, ReleasedInv
  <2>2. "persist" \in Bits /\ "persist" # "wled"
    BY DEF Bits
  <2>3. regs["persist"] = 0
    BY <1>0, <1>5, <2>1, <2>2
  <2> QED
    BY <1>1, <2>1, <2>3
<1> QED
  BY <1>13, <1>14, <1>15, <1>16, <1>17, <1>18, <1>19, <1>20 DEF Calm

LEMMA NodeAnswersStep == ASSUME IInv, NEW f \in air, NodeAnswers(f) PROVE IInv'
<1> DEFINE d == f.dev  v == Unpack(f.opt, f.data)
<1>0. /\ Types /\ JobInv /\ CalmInv /\ d \in Devices /\ f.opt \in Options
      /\ \E x \in Values(f.opt) : f.data = Pack(f.opt, x)
  BY DEF IInv, Types, NodeTypes, FrameOK
<1>1. v \in Values(f.opt) /\ v \in InputValues
  BY <1>0, PackUnpack, InputTypes
<1>2. PICK status \in {"ok", "nak"}, lost \in BOOLEAN :
        LET regs == IF status = "ok" THEN Written(node[d], f.opt, v) ELSE node[d]
        IN  /\ node' = [node EXCEPT ![d] = regs]
            /\ executed' = IF status = "ok" THEN executed \cup {f.id} ELSE executed
            /\ up' = IF lost THEN up ELSE [up EXCEPT ![d] = Append(up[d], [type |-> "ack", status |-> status])]
            /\ unheard' = [unheard EXCEPT ![d] =
                  IF lost /\ regs # node[d] THEN unheard[d] \cup ({f.opt} \cap Bits)
                  ELSE IF ~lost /\ status = "ok" THEN unheard[d] \ {f.opt} ELSE unheard[d]]
  BY <1>0 DEF NodeAnswers, Types, NodeTypes, HistTypes
<1> DEFINE regs == IF status = "ok" THEN Written(node[d], f.opt, v) ELSE node[d]
           a == [type |-> "ack", status |-> status]
           heard == IF lost /\ regs # node[d] THEN unheard[d] \cup ({f.opt} \cap Bits)
                    ELSE IF ~lost /\ status = "ok" THEN unheard[d] \ {f.opt} ELSE unheard[d]
<1>3. /\ node' = [node EXCEPT ![d] = regs] /\ unheard' = [unheard EXCEPT ![d] = heard]
      /\ up' = (IF lost THEN up ELSE [up EXCEPT ![d] = Append(up[d], a)])
      /\ executed' = (IF status = "ok" THEN executed \cup {f.id} ELSE executed)
      /\ UNCHANGED << job, running, stash, config, specials, readback, released, kept, matched, disturbed, writes >>
      /\ air' = air \ {f}
  BY <1>2 DEF NodeAnswers, hostVars
<1>4. /\ node'[d] = regs /\ unheard'[d] = heard /\ executed \subseteq executed' /\ air' \subseteq air
      /\ up'[d] = (IF lost THEN up[d] ELSE Append(up[d], a))
      /\ \A e \in Devices : e # d => node'[e] = node[e] /\ unheard'[e] = unheard[e] /\ up'[e] = up[e]
  BY <1>0, <1>3 DEF Types, NodeTypes, HistTypes
<1>5. a \in Answers
  BY DEF Answers
<1>6. regs \in [Bits \cup Keys -> InputValues] /\ \A r \in Bits \cup Keys : regs[r] \in Values(r)
  <2>1. node[d] \in [Bits \cup Keys -> InputValues] /\ \A r \in Bits \cup Keys : node[d][r] \in Values(r)
    BY <1>0 DEF Types, NodeTypes
  <2>2. Written(node[d], f.opt, v) \in [Bits \cup Keys -> InputValues]
    BY <1>1, <2>1, WrittenType
  <2>3. 0 \in Values("wled")
    BY InputTypes DEF Values, MaxValue, Wide
  <2>4. \A r \in Bits \cup Keys : Written(node[d], f.opt, v)[r] \in Values(r)
    BY <1>1, <2>1, <2>3 DEF Written
  <2> QED
    BY <2>1, <2>2, <2>4
<1>7. heard \in SUBSET Bits
  BY <1>0 DEF Types, HistTypes
<1>8. /\ up' \in [Devices -> Seq(Answers)]
      /\ \A e \in Devices : matched'[e] => up'[e] # << >> /\ up'[e][1].type = "ack"
  <2>1. CASE lost
    BY <1>0, <1>3, <2>1 DEF Types, NodeTypes
  <2>2. CASE ~lost
    <3>1. up' = [up EXCEPT ![d] = Append(up[d], a)] /\ matched' = matched
      BY <1>3, <2>2
    <3> HIDE DEF a
    <3> QED
      BY <1>0, <1>5, <3>1, AppendTypes
  <2> QED
    BY <2>1, <2>2
<1> HIDE DEF regs, heard
<1>9. Types'
  <2>1. HostTypes'
    BY <1>0, <1>3 DEF Types, HostTypes
  <2>2. NodeTypes'
    BY <1>0, <1>3, <1>4, <1>6, <1>8 DEF Types, NodeTypes, FrameOK
  <2>3. HistTypes'
    BY <1>0, <1>3, <1>7 DEF Types, HistTypes
  <2> QED
    BY <2>1, <2>2, <2>3 DEF Types
<1>10. JobInv'
  BY <1>0, <1>3 DEF JobInv
<1>11. ASSUME NEW e \in Devices \ disturbed, e # d PROVE Calm(e)'
  BY <1>0, <1>3, <1>4, <1>11, OtherCalm DEF CalmInv
<1>12. ASSUME NEW e \in Devices \ disturbed, f.dev = e PROVE Calm(e)'
  <2>1. /\ node'[e] = (IF status = "ok" THEN Written(node[e], f.opt, Unpack(f.opt, f.data)) ELSE node[e])
        /\ unheard'[e] = (IF lost /\ node'[e] # node[e] THEN unheard[e] \cup ({f.opt} \cap Bits)
                          ELSE IF ~lost /\ status = "ok" THEN unheard[e] \ {f.opt} ELSE unheard[e])
        /\ up'[e] = (IF lost THEN up[e] ELSE Append(up[e], [type |-> "ack", status |-> status]))
    BY <1>4, <1>12 DEF regs, heard
  <2>2. UNCHANGED << job, stash, config, released >> /\ air' \subseteq air
        /\ executed' = (IF status = "ok" THEN executed \cup {f.id} ELSE executed)
    BY <1>3, <1>4
  <2> QED
    BY <1>12, <2>1, <2>2, AnswerCalm
<1> QED
  BY <1>3, <1>9, <1>10, <1>11, <1>12 DEF IInv, CalmInv

----------------------------------------------------------------------------
(* The theorems                                                            *)

LEMMA NextIInv == IInv /\ [Next]_vars => IInv'
<1> SUFFICES ASSUME IInv, [Next]_vars PROVE IInv'
  OBVIOUS
<1>1. ASSUME NEW c \in Callers, Caller(c) PROVE IInv'
  BY <1>1, BeginStep, StashStep, RefuseStep, SendStep, WaitEndsStep, StoreStep DEF Caller
<1>2. ASSUME NEW d \in Devices, Rx(d) \/ NodeReports(d) PROVE IInv'
  BY <1>2, RxMatchStep, HandleAckStep, HandleStatusStep, NodeReportsStep DEF Rx
<1>3. ASSUME NEW f \in air, NodeAnswers(f) PROVE IInv'
  BY <1>3, NodeAnswersStep
<1>4. CASE ReadBack \/ Import
  BY <1>4, DialogStep
<1>5. CASE UNCHANGED vars
  <2>1. /\ UNCHANGED << job, running, stash, config, specials, readback, released, kept >>
        /\ UNCHANGED << node, air, up, matched, executed, unheard, disturbed, writes >>
    BY <1>5 DEF vars, hostVars, histVars
  <2>2. Types' /\ JobInv'
    BY <2>1 DEF IInv, Types, HostTypes, NodeTypes, HistTypes, FrameOK, JobInv
  <2>3. ASSUME NEW d \in Devices \ disturbed PROVE Calm(d)'
    BY <2>1, <2>3, OtherCalm DEF IInv, CalmInv
  <2> QED
    BY <2>1, <2>2, <2>3 DEF IInv, CalmInv
<1> QED
  BY <1>1, <1>2, <1>3, <1>4, <1>5 DEF Next

LEMMA Invariance == Spec => []IInv
BY InitIInv, NextIInv, PTL DEF Spec

\* Threads, stash, mirror, registers and queues have their types, and a thread
\* that works is at one of the writes of its operation.
THEOREM TypeCorrect == Spec => []TypeOK
<1>1. IInv => TypeOK
  <2> SUFFICES ASSUME IInv PROVE TypeOK
    OBVIOUS
  <2>0. Types /\ JobInv
    BY DEF IInv
  <2>1. ASSUME NEW c \in Callers
        PROVE  /\ job[c].pc \in Steps /\ job[c].attempt \in 1 .. MaxAttempts
               /\ job[c].got \in {None, "ok", "nak"}
               /\ job[c].pc # "idle" => job[c].i \in DOMAIN job[c].steps /\ Current(c) \in Writes
    BY <2>0, CurrentType DEF Types, HostTypes, JobType
  <2> QED
    BY <2>0, <2>1 DEF TypeOK, Types, HostTypes, NodeTypes, HistTypes
<1> QED
  BY <1>1, Invariance, PTL

\* As long as writes to a node do not overlap, the configByte mirror says what
\* the node holds, except for a bit whose answer was lost: no retry, refused
\* option or left-over stash entry of handle_ack_event puts another value there.
THEOREM MirrorTrue == Spec => []MirrorExplained
<1>1. IInv => MirrorExplained
  <2> SUFFICES ASSUME IInv, NEW d \in Devices \ disturbed, up[d] = << >>, NEW b \in Bits \ unheard[d]
               PROVE  config[d][b] = node[d][b]
    BY DEF MirrorExplained
  <2>1. DOMAIN up[d] = {}
    OBVIOUS
  <2>2. ~Covered(d, b, 0)
    BY <2>1 DEF Covered
  <2> QED
    BY <2>2 DEF IInv, CalmInv, Calm, MirrorInv
<1> QED
  BY <1>1, Invariance, PTL

\* What the host tells of an undisturbed write is true, although an ACK names
\* no request: an acknowledged write was carried out, and a device on the
\* cleared list of clear-master-persist is released on the node.
THEOREM AnswersTrue == Spec => []AnswersAreTrue
<1>1. IInv => AnswersAreTrue
  <2> SUFFICES ASSUME IInv PROVE AnswersAreTrue
    OBVIOUS
  <2>1. AcknowledgedIsExecuted
    <3> SUFFICES ASSUME NEW c \in Callers, job[c].pc = "wait", job[c].got = "ok",
                        Current(c).dev \notin disturbed
                 PROVE  job[c].id \in executed
      BY DEF AcknowledgedIsExecuted, Acknowledged
    <3>1. Current(c).dev \in Devices /\ Sending(c, Current(c).dev)
      BY CurrentType DEF IInv, Sending
    <3> QED
      BY <3>1 DEF IInv, CalmInv, Calm, GotInv
  <2>2. ClearedIsReleased
    BY DEF IInv, CalmInv, Calm, ReleasedInv, ClearedIsReleased, Types, HostTypes
  <2> QED
    BY <2>1, <2>2 DEF AnswersAreTrue
<1> QED
  BY <1>1, Invariance, PTL

\* What do_special_config, the startblock service and sendWledResetOverrides
\* store after the last ACK is what the node holds at that time, for every
\* register the operation wrote.
THEOREM StoredTrue == Spec => StoredIsOnNode
<1> DEFINE Touched(c) == IF job[c].kind = "reset" THEN {"wled"}
                         ELSE {job[c].steps[i].opt : i \in DOMAIN job[c].steps}
<1>1. ASSUME IInv, NEW c \in Callers, Store(c), Current(c).dev \notin disturbed, NEW k \in Touched(c)
      PROVE  specials'[Current(c).dev][k] = node[Current(c).dev][k]
  <2> DEFINE d == Current(c).dev  s == job[c].steps  regs == specials[d]  V(i) == s[i].val % 65536
  <2>0. /\ Types /\ JobInv /\ d \in Devices /\ Calm(d) /\ job[c].pc = "store" /\ job[c].kind \in Kinds
        /\ Shape(job[c].kind, s) /\ job[c].kind \notin {"config", "clear"} /\ job[c].got = "ok"
        /\ job[c].i = Len(s) /\ DOMAIN s = 1 .. Len(s)
    BY <1>1, CurrentType DEF IInv, CalmInv, Store, JobInv, JobOK
  <2>1. Effect(node[d], Own(c)) /\ Own(c).opt = Current(c).opt /\ Own(c).val = Current(c).val
    BY <2>0 DEF Calm, GotInv, Sending, Own
  <2>2. specials'[d] = Stored(regs, s) /\ regs \in [Keys -> InputValues] /\ DOMAIN regs = Keys
    BY <1>1, <2>0 DEF Store, Types, HostTypes
  <2>3. \A i \in DOMAIN s : V(i) = s[i].val
    <3> SUFFICES ASSUME NEW i \in DOMAIN s PROVE V(i) = s[i].val
      OBVIOUS
    <3>1. s[i] \in Writes /\ s[i].val \in Values(s[i].opt)
      BY <2>0 DEF Shape
    <3> QED
      BY <3>1, PackUnpack DEF Writes
  <2>4. CASE job[c].kind = "startblock"
    <3>1. /\ Len(s) = 2 /\ s[1].opt = "slots" /\ s[2].opt = "first" /\ Current(c) = s[2] /\ Before(c) = s[1]
          /\ DOMAIN s = {1, 2} /\ SecondAt(job[c])
      BY <2>0, <2>4 DEF Shape, Current, Before, SecondAt
    <3>2. specials'[d] = Written(Written(regs, "slots", s[1].val), "first", s[2].val)
      <4>1. specials'[d] = Written(Written(regs, s[1].opt, V(1)), s[2].opt, V(2))
        BY <2>2, <3>1 DEF Stored
      <4> QED
        BY <2>3, <3>1, <4>1
    <3>3. specials'[d]["slots"] = s[1].val /\ specials'[d]["first"] = s[2].val
      BY <2>2, <3>2 DEF Written, Keys
    <3>4. Effect(node[d], Before(c))
      BY <2>0, <3>1 DEF Calm, SecondInv
    <3>5. node[d]["slots"] = s[1].val /\ node[d]["first"] = s[2].val
      BY <2>1, <3>1, <3>4 DEF Effect, Keys
    <3>6. k = "slots" \/ k = "first"
      BY <2>4, <3>1
    <3> QED
      BY <3>3, <3>5, <3>6
  <2>5. CASE job[c].kind \in {"special", "reset"}
    <3>1. Len(s) = 1 /\ Current(c) = s[1] /\ DOMAIN s = {1}
      BY <2>0, <2>5 DEF Shape, Current
    <3>2. specials'[d] = Written(regs, s[1].opt, s[1].val)
      <4>1. specials'[d] = Written(regs, s[1].opt, V(1))
        BY <2>2, <3>1 DEF Stored
      <4> QED
        BY <2>3, <3>1, <4>1
    <3>3. CASE job[c].kind = "special"
      <4>1. k = s[1].opt /\ k \in Keys
        BY <2>0, <3>1, <3>3 DEF Shape
      <4> QED
        BY <2>1, <2>2, <3>1, <3>2, <4>1 DEF Written, Effect
    <3>4. CASE job[c].kind = "reset"
      <4>1. k = "wled" /\ k \in Keys /\ s[1].opt = "reset" /\ s[1].val = 0
        BY <2>0, <3>4 DEF Shape, Keys
      <4> QED
        BY <2>1, <2>2, <3>1, <3>2, <4>1 DEF Written, Effect
    <3> QED
      BY <2>5, <3>3, <3>4
  <2> QED
    BY <2>0, <2>4, <2>5 DEF Kinds
<1>2. IInv /\ [Next]_vars
        => [\A c \in Callers :
              LET d == Current(c).dev
                  touched == IF job[c].kind = "reset" THEN {"wled"}
                             ELSE {job[c].steps[i].opt : i \in DOMAIN job[c].steps}
              IN  Store(c) /\ d \notin disturbed
                    => \A k \in touched : specials'[d][k] = node[d][k]]_vars
  BY <1>1
<1> QED
  BY <1>2, Invariance, PTL DEF Spec, StoredIsOnNode

================================================================================
