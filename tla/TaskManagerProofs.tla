------------------------- MODULE TaskManagerProofs -------------------------
(***************************************************************************)
(* Proofs about TaskManager for any number of gateways, browsers, tasks    *)
(* and events.                                                             *)
(*                                                                         *)
(* TasksApart needs to know whose task the record is: a runner in its body *)
(* is the runner of the current, running task, and nobody runs between     *)
(* start and the spawn of its thread (RunnerInv); a cancel event set or    *)
(* about to be set belongs to the current or to an earlier task            *)
(* (CancelInv).  BrowserIsCurrent needs that whatever a browser lacks is   *)
(* still owed to it by some thread (Fresh).                                *)
(***************************************************************************)
EXTENDS TaskManager, FiniteSetTheorems, TLAPS

ReaderStates == {Idle} \cup [pc : {"read", "error"}] \cup [pc : {"write"}, rx : 0 .. MaxEvents]
Mails == {Idle} \cup [pc : {"snap"}] \cup [pc : {"put"}, snap : Snapshot, to : SUBSET Clients]
Registrations == [pc : {"idle", "added", "open", "closed"}] \cup [pc : {"first"}, snap : Snapshot]
Cancels == {Idle} \cup [pc : {"set"}, event : Ids]

\* The variables, those included that TypeOK says little about.
Types ==
  /\ task \in TaskRecord \cup {None} /\ age \in Nat /\ fired \in SUBSET Ids
  /\ run \in [Ids -> {"none", "body", "ended"}] /\ http \in {"idle", "spawn"}
  /\ canc \in Cancels /\ rdr \in [Readers -> ReaderStates] /\ mail \in [Threads -> Mails]
  /\ clients \in SUBSET Clients /\ reg \in [Clients -> Registrations]
  /\ view \in [Clients -> Snapshot] /\ late \in SUBSET Clients /\ events \in 0 .. MaxEvents

\* Readers that saw the task and have not read its counter.
Counting == {r \in Readers : rdr[r].pc = "read"}

\* Every counted reply and every progress update is an event, so the bound on
\* events bounds the counters.
Counted ==
  /\ task # None => task.steps <= events /\ task.rx + Cardinality(Counting) <= events
  /\ \A r \in Readers : rdr[r].pc = "write" => rdr[r].rx + Cardinality(Counting) <= events

\* A reader that is counting, or about to note an error, saw a task.
ReaderInv == \A r \in Readers : rdr[r].pc # "idle" => task # None

\* No record is younger than the task record.
AgeInv ==
  /\ \A c \in Clients : view[c].age <= age
  /\ \A c \in Clients : reg[c].pc = "first" => reg[c].snap.age <= age
  /\ \A t \in Threads : mail[t].pc = "put" => mail[t].snap.age <= age

\* Whose task the record is.
RunnerInv ==
  /\ http = "spawn" => Running /\ run[task.id] = "none"
  /\ \A i \in Ids : run[i] = "body" => http = "idle" /\ Running /\ task.id = i
  /\ \A i \in Ids : run[i] # "none" => task # None /\ i <= task.id

\* Whose cancel event is set, or is about to be.
Cancelled == fired \cup (IF canc.pc = "set" THEN {canc.event} ELSE {})
CancelInv == \A i \in Cancelled : task # None /\ i <= task.id /\ (i = task.id => task.cancel)

\* Some thread is going to send browser c the current record.
Owed(c) ==
  \/ canc.pc = "set"
  \/ \E t \in Threads : \/ mail[t].pc = "snap"
                        \/ mail[t].pc = "put" /\ c \in mail[t].to /\ mail[t].snap.age = age

\* What a registered browser lacks is still owed to it.
Fresh(c) == view[c].age = age \/ c \in late \/ Owed(c)
BrowserInv ==
  \A c \in Clients :
    /\ c \in clients <=> reg[c].pc \in {"added", "first", "open"}
    /\ reg[c].pc = "first" => reg[c].snap.age = age \/ Fresh(c)
    /\ reg[c].pc = "open" => Fresh(c)

IInv == Types /\ Counted /\ ReaderInv /\ AgeInv /\ RunnerInv /\ CancelInv /\ BrowserInv

----------------------------------------------------------------------------
(* Types                                                                   *)

LEMMA RecordTypes ==
    /\ Idle \in ReaderStates /\ Idle \in Mails /\ Idle \in Registrations /\ Idle \in Cancels
    /\ [pc |-> "snap"] \in Mails
    /\ \A s \in {"added", "open", "closed"} : [pc |-> s] \in Registrations
    /\ \A s \in {"read", "error"} : [pc |-> s] \in ReaderStates
BY DEF Idle, ReaderStates, Mails, Registrations, Cancels

\* A change of the record is typed and leaves a broadcast owed by its thread.
LEMMA ChangeTypes ==
    ASSUME Types, NEW t \in Threads, NEW new \in TaskRecord, Change(t, new)
    PROVE  /\ task' \in TaskRecord \cup {None} /\ task' # None /\ age' \in Nat
           /\ mail' \in [Threads -> Mails] /\ mail'[t].pc = "snap"
           /\ \A u \in Threads \ {t} : mail'[u] = mail[u]
BY RecordTypes, TaskAssumption DEF Types, Change

\* Now is a snapshot, and what TakeSnapshot makes of it is mail.
LEMMA NowTypes ==
    ASSUME Types
    PROVE  /\ Now \in Snapshot
           /\ [pc |-> "put", snap |-> Now, to |-> Clients] \in Mails
           /\ [pc |-> "first", snap |-> Now] \in Registrations
<1>1. Now \in Snapshot
  BY DEF Types, Now, Snapshot
<1> QED
  BY <1>1 DEF Mails, Registrations

\* The record after each change of one of its fields.
LEMMA FieldTypes ==
    ASSUME Types, Counted, task # None
    PROVE  /\ task \in TaskRecord /\ task.id \in Ids
           /\ events < MaxEvents => [task EXCEPT !.steps = @ + 1] \in TaskRecord
           /\ \A st \in {"done", "error"} :
                [task EXCEPT !.st = st, !.err = @ \/ st = "error"] \in TaskRecord
           /\ [task EXCEPT !.cancel = TRUE] \in TaskRecord
           /\ \A n \in 0 .. MaxEvents : [task EXCEPT !.rx = n] \in TaskRecord
           /\ [task EXCEPT !.err = TRUE] \in TaskRecord
<1>1. task \in TaskRecord /\ task.id \in Ids
  BY DEF Types, TaskRecord
<1>2. events < MaxEvents => task.steps + 1 \in 0 .. MaxEvents
  BY <1>1, TaskAssumption DEF Counted, Types, TaskRecord
<1>3. events < MaxEvents => [task EXCEPT !.steps = @ + 1] \in TaskRecord
  BY <1>1, <1>2 DEF TaskRecord
<1>4. ASSUME NEW st \in {"done", "error"}
      PROVE  [task EXCEPT !.st = st, !.err = @ \/ st = "error"] \in TaskRecord
  <2>1. (task.err \/ st = "error") \in BOOLEAN
    OBVIOUS
  <2> QED
    BY <1>1, <2>1 DEF TaskRecord
<1> QED
  BY <1>1, <1>3, <1>4 DEF TaskRecord

\* Counting readers are finitely many.
LEMMA CountingFinite ==
    IsFiniteSet(Counting) /\ Cardinality(Counting) \in Nat
<1>1. Counting \subseteq Readers
  BY DEF Counting
<1> QED
  BY <1>1, TaskAssumption, FS_Subset, FS_CardinalityType

----------------------------------------------------------------------------
(* The initial states                                                      *)

LEMMA InitIInv == Init => IInv
<1> SUFFICES ASSUME Init PROVE IInv
  OBVIOUS
<1>1. [task |-> None, age |-> 0] \in Snapshot
  BY DEF Snapshot
<1>2. Types
  BY <1>1, RecordTypes, TaskAssumption DEF Init, Types
<1>3. \A r \in Readers : rdr[r].pc = "idle"
  BY DEF Init, Idle
<1>4. \A t \in Threads : mail[t].pc = "idle"
  BY DEF Init, Idle
<1>5. \A c \in Clients : reg[c].pc = "idle" /\ view[c].age = 0
  BY DEF Init, Idle
<1>6. task = None /\ age = 0 /\ fired = {} /\ http = "idle" /\ canc.pc = "idle" /\ clients = {}
      /\ \A i \in Ids : run[i] = "none"
  BY DEF Init, Idle
<1>7. Counted /\ ReaderInv /\ RunnerInv /\ CancelInv
  BY <1>3, <1>6 DEF Counted, ReaderInv, RunnerInv, CancelInv, Cancelled
<1>8. AgeInv /\ BrowserInv
  BY <1>4, <1>5, <1>6 DEF AgeInv, BrowserInv
<1> QED
  BY <1>2, <1>7, <1>8 DEF IInv

----------------------------------------------------------------------------
(* The steps                                                               *)

LEMMA NextTypes == ASSUME IInv, Next PROVE Types'
<1> USE DEF IInv
<1>0. \A r \in Readers : r \in Threads
  BY DEF Threads
<1>1. ASSUME NEW i \in Ids, Progress(i) PROVE Types'
  <2>1. task # None /\ i \in Threads
    BY <1>1 DEF Progress, RunnerInv, Running, Threads
  <2>2. [task EXCEPT !.steps = @ + 1] \in TaskRecord
    BY <1>1, <2>1, FieldTypes DEF Progress
  <2> QED
    BY <1>1, <2>1, <2>2, ChangeTypes, TaskAssumption DEF Progress, Types, clientVars
<1>2. ASSUME NEW i \in Ids, NEW st \in {"done", "error"}, Finish(i, st) PROVE Types'
  <2>1. task # None /\ i \in Threads
    BY <1>2 DEF Finish, RunnerInv, Running, Threads
  <2>2. [task EXCEPT !.st = st, !.err = @ \/ st = "error"] \in TaskRecord
    BY <2>1, FieldTypes
  <2> QED
    BY <1>2, <2>1, <2>2, ChangeTypes DEF Finish, Types, clientVars
<1>3. ASSUME NEW t \in Threads, TakeSnapshot(t) PROVE Types'
  BY <1>3, NowTypes DEF TakeSnapshot, Types, clientVars
<1>4. ASSUME NEW t \in Threads, NEW c \in Clients, PutNowait(t, c) PROVE Types'
  <2>1. mail[t] \in [pc : {"put"}, snap : Snapshot, to : SUBSET Clients]
    BY <1>4 DEF PutNowait, Types, Mails, Idle
  <2>2. view' \in [Clients -> Snapshot] /\ late' \in SUBSET Clients
    BY <1>4, <2>1 DEF PutNowait, Put, Types
  <2>3. [mail[t] EXCEPT !.to = mail[t].to \ {c}] \in Mails
    BY <2>1 DEF Mails
  <2>4. CASE mail[t].to = {c}
    BY <1>4, <2>2, <2>4, RecordTypes DEF PutNowait, Types
  <2>5. CASE mail[t].to # {c}
    BY <1>4, <2>2, <2>3, <2>5 DEF PutNowait, Types
  <2> QED
    BY <2>4, <2>5
<1>5. CASE Start
  <2>1. NewTask(NextId) \in TaskRecord
    BY <1>5, TaskAssumption DEF Start, NewTask, TaskRecord
  <2> QED
    BY <1>5, <2>1, ChangeTypes DEF Start, Threads, Types, clientVars
<1>6. CASE Spawn
  BY <1>6 DEF Spawn, Types, clientVars
<1>7. CASE Cancel
  <2>1. task # None /\ task.id \in Ids /\ [task EXCEPT !.cancel = TRUE] \in TaskRecord
    BY <1>7, FieldTypes DEF Cancel, Running
  <2>2. canc' \in Cancels
    BY <1>7, <2>1 DEF Cancel, Cancels
  <2> QED
    BY <1>7, <2>1, <2>2, TaskAssumption DEF Cancel, Types, clientVars
<1>8. CASE CancelSet
  <2>1. canc.event \in Ids
    BY <1>8 DEF CancelSet, Types, Cancels, Idle
  <2> QED
    BY <1>8, <2>1, RecordTypes DEF CancelSet, Types, clientVars, Threads
<1>9. ASSUME NEW c \in Clients, Register(c) \/ Disconnect(c) PROVE Types'
  <2>1. [task |-> None, age |-> 0] \in Snapshot
    BY DEF Snapshot
  <2> QED
    BY <1>9, <2>1, RecordTypes DEF Register, Disconnect, Types
<1>10. ASSUME NEW c \in Clients, RegisterSnapshot(c) PROVE Types'
  BY <1>10, NowTypes DEF RegisterSnapshot, Types
<1>11. ASSUME NEW c \in Clients, RegisterPut(c) PROVE Types'
  <2>1. reg[c].snap \in Snapshot
    BY <1>11 DEF RegisterPut, Types, Registrations
  <2>2. view' \in [Clients -> Snapshot] /\ late' \in SUBSET Clients
    BY <1>11, <2>1 DEF RegisterPut, Put, Types
  <2> QED
    BY <1>11, <2>2, RecordTypes DEF RegisterPut, Types
<1>12. ASSUME NEW r \in Readers, CountSees(r) \/ ErrorSees(r) PROVE Types'
  BY <1>12, RecordTypes, TaskAssumption DEF CountSees, ErrorSees, Types, clientVars
<1>13. ASSUME NEW r \in Readers, CountReads(r) PROVE Types'
  <2>1. task # None
    BY <1>13 DEF CountReads, ReaderInv
  <2>2. r \in Counting
    BY <1>13 DEF CountReads, Counting
  <2>3. Cardinality(Counting) \in Nat \ {0}
    BY <2>2, CountingFinite, FS_EmptySet
  <2>4. task.rx + 1 \in 0 .. MaxEvents
    BY <2>1, <2>3, FieldTypes, TaskAssumption DEF Counted, TaskRecord, Types
  <2>5. [pc |-> "write", rx |-> task.rx + 1] \in ReaderStates
    BY <2>4 DEF ReaderStates
  <2> QED
    BY <1>13, <2>5 DEF CountReads, Types, clientVars
<1>14. ASSUME NEW r \in Readers, CountWrites(r) PROVE Types'
  <2>1. task # None /\ rdr[r].rx \in 0 .. MaxEvents
    BY <1>14 DEF CountWrites, ReaderInv, Types, ReaderStates, Idle
  <2>2. [task EXCEPT !.rx = rdr[r].rx] \in TaskRecord
    BY <2>1, FieldTypes
  <2> QED
    BY <1>0, <1>14, <2>2, ChangeTypes, RecordTypes DEF CountWrites, Types, clientVars
<1>15. ASSUME NEW r \in Readers, ErrorWrites(r) PROVE Types'
  <2>1. task # None
    BY <1>15 DEF ErrorWrites, ReaderInv
  <2>2. [task EXCEPT !.err = TRUE] \in TaskRecord
    BY <2>1, FieldTypes
  <2> QED
    BY <1>0, <1>15, <2>2, ChangeTypes, RecordTypes DEF ErrorWrites, Types, clientVars
<1> QED
  BY <1>1, <1>2, <1>3, <1>4, <1>5, <1>6, <1>7, <1>8, <1>9, <1>10, <1>11, <1>12, <1>13, <1>14, <1>15
  DEF Next, RunnerStep, Broadcasting, Request, Reading

\* Whose task the record is, whose cancel events are set and what the readers saw:
\* only the steps below touch what these say.
LEMMA NextTask == ASSUME IInv, Next PROVE (ReaderInv /\ RunnerInv /\ CancelInv)'
<1> USE DEF IInv
<1>0. Types'
  BY NextTypes
<1>1. CASE UNCHANGED <<task, run, http, fired, canc, rdr>>
  BY <1>1 DEF ReaderInv, RunnerInv, CancelInv, Cancelled, Running
<1>2. ASSUME NEW i \in Ids, Progress(i) PROVE (ReaderInv /\ RunnerInv /\ CancelInv)'
  <2>1. task # None /\ task' = [task EXCEPT !.steps = @ + 1] /\ task \in TaskRecord
    BY <1>2, FieldTypes DEF Progress, Change, RunnerInv, Running
  <2>2. task' # None /\ task'.id = task.id /\ task'.st = task.st /\ task'.cancel = task.cancel
    BY <1>2, <2>1, FieldTypes, TaskAssumption DEF TaskRecord, Progress
  <2> QED
    BY <1>2, <2>1, <2>2 DEF Progress, ReaderInv, RunnerInv, CancelInv, Cancelled, Running
<1>3. ASSUME NEW i \in Ids, NEW st \in {"done", "error"}, Finish(i, st)
      PROVE  (ReaderInv /\ RunnerInv /\ CancelInv)'
  <2>1. task # None /\ task.id = i /\ http = "idle"
    BY <1>3 DEF Finish, RunnerInv, Running
  <2>2. task' = [task EXCEPT !.st = st, !.err = @ \/ st = "error"]
    BY <1>3 DEF Finish, Change
  <2>3. task' # None /\ task'.id = task.id /\ task'.cancel = task.cancel
    BY <2>1, <2>2, FieldTypes, TaskAssumption DEF TaskRecord
  <2>4. \A j \in Ids : run'[j] # "body"
    BY <1>3, <2>1 DEF Finish, RunnerInv, Types
  <2>5. i <= task.id
    BY <2>1 DEF Ids
  <2> QED
    BY <1>3, <2>1, <2>3, <2>4, <2>5 DEF Finish, ReaderInv, RunnerInv, CancelInv, Cancelled, Types
<1>4. CASE Start
  <2>1. task' = NewTask(NextId) /\ NextId \in Ids /\ task' # None
    <3>1. NewTask(NextId) \in TaskRecord
      BY <1>4, TaskAssumption DEF Start, NewTask, TaskRecord
    <3> QED
      BY <1>4, <3>1, TaskAssumption DEF Start, Change
  <2>2. task'.id = NextId /\ task'.st = "running"
    BY <2>1 DEF NewTask
  <2>3. task # None => task.id \in Nat /\ NextId = task.id + 1
    BY FieldTypes DEF NextId, Ids
  <2>4. \A i \in Ids : run[i] # "body"
    BY <1>4 DEF Start, RunnerInv
  <2>5. run[NextId] = "none"
    BY <2>1, <2>3, TaskAssumption DEF RunnerInv, Ids
  <2>6. RunnerInv'
    BY <1>4, <2>1, <2>2, <2>3, <2>4, <2>5 DEF Start, RunnerInv, Running, Ids
  <2>7. fired' = fired /\ canc' = canc
    BY <1>4 DEF Start
  <2>8. Cancelled \subseteq Ids
    BY DEF Cancelled, Types, Cancels, Idle
  <2>9. CancelInv'
    BY <2>1, <2>2, <2>3, <2>7, <2>8 DEF CancelInv, Cancelled, Ids
  <2> QED
    BY <1>4, <2>1, <2>6, <2>9 DEF Start, ReaderInv
<1>5. CASE Spawn
  <2>1. Running /\ task.id \in Ids /\ \A i \in Ids : run[i] # "body"
    BY <1>5, FieldTypes DEF Spawn, RunnerInv, Running
  <2>2. RunnerInv'
    BY <1>5, <2>1 DEF Spawn, RunnerInv, Running, Types, Ids
  <2> QED
    BY <1>5, <2>2 DEF Spawn, ReaderInv, CancelInv, Cancelled
<1>6. CASE Cancel
  <2>1. Running /\ task # None
    BY <1>6 DEF Cancel, Running
  <2>2. task' = [task EXCEPT !.cancel = TRUE]
    BY <1>6 DEF Cancel
  <2>3. task' # None /\ task'.id = task.id /\ task'.st = task.st /\ task'.cancel /\ task.id \in Ids
    <3>1. task \in TaskRecord /\ task' \in TaskRecord
      BY <2>1, <2>2, FieldTypes
    <3> QED
      BY <2>2, <3>1, TaskAssumption DEF TaskRecord
  <2>4. Cancelled' \subseteq Cancelled \cup {task.id}
    BY <1>6 DEF Cancel, Cancelled
  <2>5. CancelInv'
    BY <2>1, <2>3, <2>4 DEF CancelInv, Ids
  <2> QED
    BY <1>6, <2>1, <2>3, <2>5 DEF Cancel, ReaderInv, RunnerInv, Running
<1>7. CASE CancelSet
  <2>1. Cancelled' = Cancelled
    BY <1>7 DEF CancelSet, Cancelled, Idle
  <2> QED
    BY <1>7, <2>1 DEF CancelSet, ReaderInv, RunnerInv, Running, CancelInv
<1>8. ASSUME NEW r \in Readers, CountSees(r) \/ ErrorSees(r)
      PROVE  (ReaderInv /\ RunnerInv /\ CancelInv)'
  BY <1>8 DEF CountSees, ErrorSees, ReaderInv, RunnerInv, CancelInv, Cancelled, Running
<1>9. ASSUME NEW r \in Readers, CountReads(r) PROVE (ReaderInv /\ RunnerInv /\ CancelInv)'
  BY <1>9 DEF CountReads, ReaderInv, RunnerInv, CancelInv, Cancelled, Running
<1>10. ASSUME NEW r \in Readers, CountWrites(r) \/ ErrorWrites(r)
       PROVE  (ReaderInv /\ RunnerInv /\ CancelInv)'
  <2>1. task # None
    BY <1>10 DEF CountWrites, ErrorWrites, ReaderInv
  <2>2. \/ task' = [task EXCEPT !.rx = rdr[r].rx]
        \/ task' = [task EXCEPT !.err = TRUE]
    BY <1>10 DEF CountWrites, ErrorWrites, Change
  <2>3. rdr[r].pc = "write" => rdr[r].rx \in 0 .. MaxEvents
    BY DEF Types, ReaderStates, Idle
  <2>4. task' # None
    <3>1. task' \in TaskRecord
      BY <1>10, <2>1, <2>3, FieldTypes DEF CountWrites, ErrorWrites, Change
    <3> QED
      BY <3>1, TaskAssumption
  <2>5. task'.id = task.id /\ task'.st = task.st /\ task'.cancel = task.cancel
    BY <2>1, <2>2, FieldTypes DEF TaskRecord
  <2> QED
    BY <1>10, <2>1, <2>4, <2>5
    DEF CountWrites, ErrorWrites, ReaderInv, RunnerInv, CancelInv, Cancelled, Running
<1>11. ASSUME NEW c \in Clients, Register(c) \/ RegisterSnapshot(c) \/ RegisterPut(c) \/ Disconnect(c)
       PROVE  UNCHANGED <<task, run, http, fired, canc, rdr>>
  BY <1>11 DEF Register, RegisterSnapshot, RegisterPut, Disconnect
<1>12. Broadcasting => UNCHANGED <<task, run, http, fired, canc, rdr>>
  BY DEF Broadcasting, TakeSnapshot, PutNowait
<1> QED
  BY <1>1, <1>2, <1>3, <1>4, <1>5, <1>6, <1>7, <1>8, <1>9, <1>10, <1>11, <1>12
  DEF Next, RunnerStep, Request, Reading

\* The counters stay below the number of events.
LEMMA NextCounted == ASSUME IInv, Next PROVE Counted'
<1> USE DEF IInv
<1>0. /\ Cardinality(Counting) \in Nat /\ events \in Nat
      /\ task # None => task \in TaskRecord /\ task.steps \in Nat /\ task.rx \in Nat
      /\ \A r \in Readers : rdr[r].pc = "write" => rdr[r].rx \in Nat
  BY CountingFinite, FieldTypes DEF Types, TaskRecord, ReaderStates, Idle
<1>1. CASE UNCHANGED <<task, rdr, events>>
  BY <1>1 DEF Counted, Counting
<1>2. ASSUME NEW i \in Ids, Progress(i) PROVE Counted'
  <2>1. task # None /\ task' = [task EXCEPT !.steps = @ + 1]
    BY <1>2 DEF Progress, Change, RunnerInv, Running
  <2>2. task'.steps = task.steps + 1 /\ task'.rx = task.rx
    BY <1>0, <2>1 DEF TaskRecord
  <2>3. Counting' = Counting
    BY <1>2 DEF Progress, Counting
  <2> QED
    BY <1>0, <1>2, <2>1, <2>2, <2>3 DEF Progress, Counted
<1>3. ASSUME NEW i \in Ids, NEW st \in {"done", "error"}, Finish(i, st) PROVE Counted'
  <2>1. task # None /\ task' = [task EXCEPT !.st = st, !.err = @ \/ st = "error"]
    BY <1>3 DEF Finish, Change, RunnerInv, Running
  <2>2. task'.steps = task.steps /\ task'.rx = task.rx
    BY <1>0, <2>1 DEF TaskRecord
  <2> QED
    BY <1>3, <2>1, <2>2 DEF Finish, Counted, Counting
<1>4. CASE Start
  <2>1. task'.steps = 0 /\ task'.rx = 0
    BY <1>4 DEF Start, Change, NewTask
  <2>2. Cardinality(Counting) <= events
    <3>1. CASE task = None
      <4>1. Counting = {}
        BY <3>1 DEF Counting, ReaderInv
      <4> QED
        BY <1>0, <4>1, FS_EmptySet
    <3> QED
      BY <1>0, <3>1 DEF Counted
  <2> QED
    BY <1>0, <1>4, <2>1, <2>2 DEF Start, Counted, Counting
<1>5. CASE Cancel
  <2>1. task # None /\ task' = [task EXCEPT !.cancel = TRUE]
    BY <1>5 DEF Cancel, Running
  <2>2. task'.steps = task.steps /\ task'.rx = task.rx
    BY <1>0, <2>1 DEF TaskRecord
  <2>3. Counting' = Counting
    BY <1>5 DEF Cancel, Counting
  <2> QED
    BY <1>0, <1>5, <2>1, <2>2, <2>3 DEF Cancel, Counted
<1>6. ASSUME NEW r \in Readers, CountSees(r) PROVE Counted'
  <2>1. Counting' = Counting \cup {r} /\ r \notin Counting
    BY <1>6 DEF CountSees, Counting, Types
  <2>2. Cardinality(Counting') = Cardinality(Counting) + 1
    BY <2>1, CountingFinite, FS_AddElement
  <2>3. \A q \in Readers : rdr'[q].pc = "write" => rdr[q].pc = "write" /\ rdr'[q].rx = rdr[q].rx
    BY <1>6 DEF CountSees, Types
  <2> QED
    BY <1>0, <1>6, <2>2, <2>3 DEF CountSees, Counted
<1>7. ASSUME NEW r \in Readers, CountReads(r) PROVE Counted'
  <2>1. Counting' = Counting \ {r} /\ r \in Counting
    BY <1>7 DEF CountReads, Counting, Types
  <2>2. Cardinality(Counting') = Cardinality(Counting) - 1
    BY <2>1, CountingFinite, FS_RemoveElement
  <2>3. task # None
    BY <1>7 DEF CountReads, ReaderInv
  <2>4. rdr'[r].rx = task.rx + 1 /\ \A q \in Readers \ {r} : rdr'[q] = rdr[q]
    BY <1>7 DEF CountReads, Types
  <2> QED
    BY <1>0, <1>7, <2>2, <2>3, <2>4 DEF CountReads, Counted
<1>8. ASSUME NEW r \in Readers, CountWrites(r) PROVE Counted'
  <2>1. Counting' = Counting
    BY <1>8 DEF CountWrites, Counting, Types, Idle
  <2>2. task # None /\ task' = [task EXCEPT !.rx = rdr[r].rx]
    BY <1>8 DEF CountWrites, Change, ReaderInv
  <2>3. task'.steps = task.steps /\ task'.rx = rdr[r].rx
    BY <1>0, <2>2 DEF TaskRecord
  <2>4. \A q \in Readers : rdr'[q].pc = "write" => rdr'[q] = rdr[q]
    BY <1>8 DEF CountWrites, Types, Idle
  <2> QED
    BY <1>8, <2>1, <2>2, <2>3, <2>4 DEF CountWrites, Counted
<1>9. ASSUME NEW r \in Readers, ErrorSees(r) PROVE Counted'
  <2>1. Counting' = Counting
    BY <1>9 DEF ErrorSees, Counting, Types
  <2>2. \A q \in Readers : rdr'[q].pc = "write" => rdr'[q] = rdr[q]
    BY <1>9 DEF ErrorSees, Types
  <2> QED
    BY <1>0, <1>9, <2>1, <2>2 DEF ErrorSees, Counted
<1>10. ASSUME NEW r \in Readers, ErrorWrites(r) PROVE Counted'
  <2>1. Counting' = Counting
    BY <1>10 DEF ErrorWrites, Counting, Types, Idle
  <2>2. task # None /\ task' = [task EXCEPT !.err = TRUE]
    BY <1>10 DEF ErrorWrites, Change, ReaderInv
  <2>3. task'.steps = task.steps /\ task'.rx = task.rx
    BY <1>0, <2>2 DEF TaskRecord
  <2>4. \A q \in Readers : rdr'[q].pc = "write" => rdr'[q] = rdr[q]
    BY <1>10 DEF ErrorWrites, Types, Idle
  <2> QED
    BY <1>10, <2>1, <2>2, <2>3, <2>4 DEF ErrorWrites, Counted
<1>11. ASSUME NEW c \in Clients, Register(c) \/ RegisterSnapshot(c) \/ RegisterPut(c) \/ Disconnect(c)
       PROVE  UNCHANGED <<task, rdr, events>>
  BY <1>11 DEF Register, RegisterSnapshot, RegisterPut, Disconnect
<1>12. Broadcasting \/ Spawn \/ CancelSet => UNCHANGED <<task, rdr, events>>
  BY DEF Broadcasting, TakeSnapshot, PutNowait, Spawn, CancelSet
<1> QED
  BY <1>1, <1>2, <1>3, <1>4, <1>5, <1>6, <1>7, <1>8, <1>9, <1>10, <1>11, <1>12
  DEF Next, RunnerStep, Request, Reading

----------------------------------------------------------------------------
(* Browsers                                                                *)

LEMMA SnapshotAges ==
    ASSUME Types
    PROVE  /\ age \in Nat /\ \A c \in Clients : view[c].age \in Nat
           /\ \A c \in Clients : reg[c].pc = "first" => reg[c].snap.age \in Nat
           /\ \A u \in Threads : mail[u].pc = "put" => mail[u].snap.age \in Nat
<1>1. \A s \in Snapshot : s.age \in Nat
  BY DEF Snapshot
<1>2. \A c \in Clients : view[c] \in Snapshot
  BY DEF Types
<1>3. \A c \in Clients : reg[c].pc = "first" => reg[c].snap \in Snapshot
  BY DEF Types, Registrations
<1>4. \A u \in Threads : mail[u].pc = "put" => mail[u].snap \in Snapshot
  BY DEF Types, Mails, Idle
<1> QED
  BY <1>1, <1>2, <1>3, <1>4 DEF Types

\* A change of the record is owed to every browser.
LEMMA ChangeOwed ==
    ASSUME IInv, Types', UNCHANGED <<clients, reg, view, late>>, age' = age + 1,
           canc' = canc,
           NEW t \in Threads, mail'[t].pc = "snap", \A u \in Threads \ {t} : mail'[u] = mail[u]
    PROVE  (AgeInv /\ BrowserInv)'
<1>1. \A c \in Clients : Fresh(c)'
  BY DEF Fresh, Owed
<1>2. BrowserInv'
  BY <1>1 DEF IInv, BrowserInv
<1>3. /\ age \in Nat /\ \A c \in Clients : view[c].age \in Nat
      /\ \A c \in Clients : reg[c].pc = "first" => reg[c].snap.age \in Nat
      /\ \A u \in Threads : mail[u].pc = "put" => mail[u].snap.age \in Nat
  BY SnapshotAges DEF IInv
<1>4. AgeInv'
  BY <1>3 DEF IInv, AgeInv
<1> QED
  BY <1>2, <1>4

\* What a browser is sent leaves it current, overtaken, or still owed.
LEMMA PutFresh ==
    ASSUME NEW c \in Clients, NEW s, s.age \in Nat, s.age <= age, age' = age, age \in Nat,
           view \in [Clients -> Snapshot], view[c].age \in Nat, Put(c, s),
           s.age = age \/ Fresh(c)
    PROVE  view'[c].age = age' \/ c \in late' \/ (Owed(c) /\ s.age # age)
BY DEF Put, Fresh

LEMMA NextBrowser == ASSUME IInv, Next PROVE (AgeInv /\ BrowserInv)'
<1> USE DEF IInv
<1>0. Types'
  BY NextTypes
<1>1. ASSUME NEW t \in Threads, NEW new, Change(t, new), UNCHANGED <<canc, clientVars>>
      PROVE  (AgeInv /\ BrowserInv)'
  <2>1. mail'[t].pc = "snap" /\ \A u \in Threads \ {t} : mail'[u] = mail[u]
    BY <1>1 DEF Change, Types
  <2> QED
    BY <1>0, <1>1, <2>1, ChangeOwed DEF Change, clientVars
<1>2. CASE UNCHANGED <<age, canc, mail, clientVars>>
  BY <1>2 DEF AgeInv, BrowserInv, Fresh, Owed, clientVars
<1>3. ASSUME NEW t \in Threads, TakeSnapshot(t) PROVE (AgeInv /\ BrowserInv)'
  <2>1. /\ mail'[t].pc = "put" /\ mail'[t].snap.age = age /\ mail'[t].to = Clients
        /\ \A u \in Threads \ {t} : mail'[u] = mail[u]
    BY <1>3 DEF TakeSnapshot, Types, Now
  <2>2. \A c \in Clients : Fresh(c)'
    BY <1>3, <2>1 DEF Fresh, Owed, TakeSnapshot
  <2> QED
    BY <1>3, <2>1, <2>2, SnapshotAges DEF AgeInv, BrowserInv, TakeSnapshot, clientVars
<1>4. ASSUME NEW t \in Threads, NEW c \in Clients, PutNowait(t, c) PROVE (AgeInv /\ BrowserInv)'
  <2>1. /\ mail[t].pc = "put" /\ mail[t].snap.age \in Nat /\ mail[t].snap.age <= age
        /\ age \in Nat /\ view[c].age \in Nat /\ age' = age /\ canc' = canc
    BY <1>4, SnapshotAges DEF PutNowait, AgeInv
  <2>2. \A u \in Threads \ {t} : mail'[u] = mail[u]
    BY <1>4 DEF PutNowait, Types
  <2>3. \/ mail'[t].pc = "idle"
        \/ /\ mail'[t].pc = "put" /\ mail'[t].snap = mail[t].snap
           /\ mail'[t].to = mail[t].to \ {c}
    <3>1. mail[t] \in [pc : {"put"}, snap : Snapshot, to : SUBSET Clients]
      BY <2>1 DEF Types, Mails, Idle
    <3> QED
      BY <1>4, <3>1 DEF PutNowait, Types, Idle
  <2>4. mail'[t].pc = "idle" => mail[t].to = {c}
    BY <1>4, <2>1 DEF PutNowait, Types
  <2>5. ASSUME NEW d \in Clients, d # c PROVE Owed(d)' <=> Owed(d)
    BY <2>1, <2>2, <2>3, <2>4, <2>5 DEF Owed
  <2>6. Owed(c) /\ mail[t].snap.age # age => Owed(c)'
    BY <2>1, <2>2, <2>3 DEF Owed
  <2>7. c \in clients => view' = [view EXCEPT ![c] = mail[t].snap]
    BY <1>4 DEF PutNowait, Put
  <2>8. \A d \in Clients \ {c} : view'[d] = view[d] /\ (d \in late' <=> d \in late)
    BY <1>4 DEF PutNowait, Put, Types
  <2>9. \A d \in Clients \ {c} : Fresh(d)' <=> Fresh(d)
    BY <2>1, <2>5, <2>8 DEF Fresh
  <2>10. c \in clients /\ (mail[t].snap.age = age \/ Fresh(c)) => Fresh(c)'
    BY <1>4, <2>1, <2>6, PutFresh DEF PutNowait, Types, Fresh
  <2>11. UNCHANGED <<clients, reg>>
    BY <1>4 DEF PutNowait
  <2>12. BrowserInv'
    BY <2>1, <2>9, <2>10, <2>11 DEF BrowserInv
  <2>13. AgeInv'
    BY <1>4, <2>1, <2>2, <2>3, <2>7, <2>8, <2>11 DEF AgeInv, Types, PutNowait
  <2> QED
    BY <2>12, <2>13
<1>5. CASE Cancel
  <2>1. \A c \in Clients : Fresh(c)'
    BY <1>5 DEF Cancel, Fresh, Owed
  <2> QED
    BY <1>5, <2>1, SnapshotAges DEF Cancel, AgeInv, BrowserInv, clientVars
<1>6. CASE CancelSet
  <2>1. mail'[Canceller].pc = "snap" /\ \A u \in Threads \ {Canceller} : mail'[u] = mail[u]
    BY <1>6 DEF CancelSet, Types, Threads
  <2>2. \A c \in Clients : Fresh(c)'
    BY <2>1 DEF Fresh, Owed, Threads
  <2> QED
    BY <1>6, <2>1, <2>2 DEF CancelSet, AgeInv, BrowserInv, clientVars
<1>7. ASSUME NEW c \in Clients, Register(c) PROVE (AgeInv /\ BrowserInv)'
  <2>1. \A d \in Clients : Fresh(d)' <=> Fresh(d)
    BY <1>7 DEF Register, Fresh, Owed
  <2>2. reg'[c].pc = "added" /\ \A d \in Clients \ {c} : reg'[d] = reg[d]
    BY <1>7 DEF Register, Types
  <2> QED
    BY <1>7, <2>1, <2>2 DEF Register, AgeInv, BrowserInv
<1>8. ASSUME NEW c \in Clients, RegisterSnapshot(c) PROVE (AgeInv /\ BrowserInv)'
  <2>1. \A d \in Clients : Fresh(d)' <=> Fresh(d)
    BY <1>8 DEF RegisterSnapshot, Fresh, Owed
  <2>2. /\ reg'[c].pc = "first" /\ reg'[c].snap.age = age /\ age' = age /\ age \in Nat
        /\ \A d \in Clients \ {c} : reg'[d] = reg[d]
    BY <1>8 DEF RegisterSnapshot, Types, Now
  <2> QED
    BY <1>8, <2>1, <2>2 DEF RegisterSnapshot, AgeInv, BrowserInv
<1>9. ASSUME NEW c \in Clients, RegisterPut(c) PROVE (AgeInv /\ BrowserInv)'
  <2>1. /\ age \in Nat /\ reg[c].snap.age \in Nat /\ reg[c].snap.age <= age
        /\ view[c].age \in Nat /\ age' = age /\ canc' = canc /\ mail' = mail
    BY <1>9, SnapshotAges DEF RegisterPut, AgeInv
  <2>2. \A d \in Clients : Owed(d)' <=> Owed(d)
    BY <2>1 DEF Owed
  <2>3. \A d \in Clients \ {c} : view'[d] = view[d] /\ (d \in late' <=> d \in late)
    BY <1>9 DEF RegisterPut, Put, Types
  <2>4. \A d \in Clients \ {c} : Fresh(d)' <=> Fresh(d)
    BY <2>1, <2>2, <2>3 DEF Fresh
  <2>5. reg[c].snap.age = age \/ Fresh(c)
    BY <1>9 DEF RegisterPut, BrowserInv
  <2>6. Fresh(c)'
    BY <1>9, <2>1, <2>2, <2>5, PutFresh DEF RegisterPut, Fresh, Types
  <2>7. reg'[c].pc = "open" /\ \A d \in Clients \ {c} : reg'[d] = reg[d]
    BY <1>9 DEF RegisterPut, Types
  <2>8. BrowserInv'
    BY <1>9, <2>1, <2>4, <2>6, <2>7 DEF RegisterPut, BrowserInv
  <2>9. view'[c] = reg[c].snap
    BY <1>9 DEF RegisterPut, Put, Types
  <2> QED
    BY <1>9, <2>1, <2>3, <2>7, <2>8, <2>9 DEF RegisterPut, AgeInv
<1>10. ASSUME NEW c \in Clients, Disconnect(c) PROVE (AgeInv /\ BrowserInv)'
  <2>1. reg'[c].pc = "closed" /\ \A d \in Clients \ {c} : reg'[d] = reg[d]
    BY <1>10 DEF Disconnect, Types
  <2>2. /\ view'[c].age = 0
        /\ \A d \in Clients \ {c} : view'[d] = view[d] /\ (d \in late' <=> d \in late)
    BY <1>10 DEF Disconnect, Types
  <2>3. \A d \in Clients \ {c} : Fresh(d)' <=> Fresh(d)
    BY <1>10, <2>2 DEF Disconnect, Fresh, Owed
  <2> QED
    BY <1>10, <2>1, <2>2, <2>3 DEF Disconnect, AgeInv, BrowserInv, Types
<1>11. RunnerStep => \E t \in Threads : \E new : Change(t, new) /\ UNCHANGED <<canc, clientVars>>
  BY DEF RunnerStep, Progress, Finish, Threads
<1>12. Start => \E t \in Threads : \E new : Change(t, new) /\ UNCHANGED <<canc, clientVars>>
  BY DEF Start, Threads
<1>13. ASSUME NEW r \in Readers, CountWrites(r) \/ ErrorWrites(r)
       PROVE  \E t \in Threads : \E new : Change(t, new) /\ UNCHANGED <<canc, clientVars>>
  BY <1>13 DEF CountWrites, ErrorWrites, Threads
<1>14. ASSUME NEW r \in Readers, CountSees(r) \/ CountReads(r) \/ ErrorSees(r)
       PROVE  UNCHANGED <<age, canc, mail, clientVars>>
  BY <1>14 DEF CountSees, CountReads, ErrorSees
<1>15. Spawn => UNCHANGED <<age, canc, mail, clientVars>>
  BY DEF Spawn
<1> QED
  BY <1>1, <1>2, <1>3, <1>4, <1>5, <1>6, <1>7, <1>8, <1>9, <1>10, <1>11, <1>12, <1>13, <1>14, <1>15
  DEF Next, Broadcasting, Request, Reading

----------------------------------------------------------------------------
(* Theorems                                                                *)

LEMMA NextIInv == IInv /\ [Next]_vars => IInv'
<1>1. ASSUME IInv, Next PROVE IInv'
  BY <1>1, NextTypes, NextTask, NextCounted, NextBrowser DEF IInv
<1>2. ASSUME IInv, UNCHANGED vars PROVE IInv'
  BY <1>2 DEF vars, clientVars, IInv, Types, Counted, Counting, ReaderInv, AgeInv, RunnerInv, Running,
              CancelInv, Cancelled, BrowserInv, Fresh, Owed
<1> QED
  BY <1>1, <1>2

LEMMA Invariance == Spec => []IInv
BY InitIInv, NextIInv, PTL DEF Spec

\* The task record, the snapshots on their way and what browsers hold are what
\* TypeOK says, and the counters of a task stay within the events there were.
THEOREM TypeCorrect == Spec => []TypeOK
<1>1. IInv => TypeOK
  <2> SUFFICES ASSUME IInv PROVE TypeOK
    OBVIOUS
  <2>1. \A t \in Threads : mail[t].pc \in {"idle", "snap", "put"}
    BY DEF IInv, Types, Mails, Idle
  <2>2. \A c \in Clients : view[c].task \in TaskRecord \cup {None} /\ view[c].age \in 0 .. age
    BY DEF IInv, Types, AgeInv, Snapshot
  <2> QED
    BY <2>1, <2>2 DEF IInv, Types, TypeOK
<1> QED
  BY <1>1, Invariance, PTL

\* Whatever the routes saw before they called start, two runner threads are never
\* at work together, and a cancel that comes as its task ends stops no other one.
THEOREM TasksAreApart == Spec => []TasksApart
<1>1. IInv => TasksApart
  BY DEF IInv, Types, RunnerInv, CancelInv, Cancelled, TasksApart, OneRunner, CancelIsOwn
<1> QED
  BY <1>1, Invariance, PTL

\* Although the snapshot and the puts of a broadcast run under no lock, a connected
\* browser shows the current record once no broadcast is under way, unless the
\* last record it was sent was overtaken by a newer one.
THEOREM BrowsersAreCurrent == Spec => []BrowserIsCurrent
<1>1. IInv => BrowserIsCurrent
  <2> SUFFICES ASSUME IInv, \A t \in Threads : mail[t].pc = "idle", canc.pc = "idle"
               PROVE  \A c \in Clients : reg[c].pc = "open" => view[c].age = age \/ c \in late
    BY DEF BrowserIsCurrent
  <2>1. \A c \in Clients : ~Owed(c)
    BY DEF Owed
  <2> QED
    BY <2>1 DEF IInv, BrowserInv, Fresh
<1> QED
  BY <1>1, Invariance, PTL

=============================================================================
