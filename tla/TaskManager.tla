---------------------------- MODULE TaskManager ----------------------------
(***************************************************************************)
(* The one background task of the web layer and what browsers see of it:   *)
(* TaskManager (start, update, request_cancel and the runner thread),      *)
(* SSEBridge.broadcast, the registration of a browser on /api/events, and  *)
(* the gateway reader threads that count replies into the running task.    *)
(*                                                                         *)
(* A change of the task record is made under the manager's lock; the       *)
(* snapshot that is sent is taken in a second critical section, and it is  *)
(* put into the browsers' queues after that, under no lock at all.  A      *)
(* browser's queue is FIFO, so what it ends up showing is the last record  *)
(* put into it.  age counts the changes of the record and tells an old     *)
(* snapshot from a newer one; it is not part of the program.               *)
(***************************************************************************)
EXTENDS Naturals, FiniteSets

CONSTANTS Readers,  \* RX reader threads, one per gateway
          Clients,  \* browsers
          None,     \* Python's None
          Http, Canceller, \* two request threads
          MaxTasks, \* bound on tasks started
          MaxEvents \* bound on progress updates, cancels and gateway events

Ids == 1 .. MaxTasks
Threads == Readers \cup {Http, Canceller} \cup Ids  \* the runner thread of a task is its id
TaskRecord == [id : Ids, st : {"running", "done", "error"}, steps : 0 .. MaxEvents,
               cancel : BOOLEAN, rx : 0 .. MaxEvents, err : BOOLEAN]
Snapshot == [task : TaskRecord \cup {None}, age : Nat]
Idle == [pc |-> "idle"]

ASSUME TaskAssumption ==
  /\ {MaxTasks, MaxEvents} \subseteq Nat /\ IsFiniteSet(Readers)
  /\ None \notin Readers \cup Clients \cup {Http, Canceller} \cup TaskRecord

VARIABLES task,    \* TaskManager._task
          age,     \* changes of the task record so far
          fired,   \* ids of the tasks whose cancel event is set
          run,     \* per task: where its runner thread is
          http,    \* the request thread that starts tasks
          canc,    \* the request thread that cancels
          rdr,     \* per reader: the event it is counting
          mail,    \* per thread: the broadcast it has to make
          clients, \* SSEBridge._clients
          reg,     \* per browser: its registration
          view,    \* per browser: the record it was sent last
          late,    \* browsers that were sent an older record after a newer one
          events   \* progress updates, cancels and gateway events so far

vars == <<task, age, fired, run, http, canc, rdr, mail, clients, reg, view, late, events>>
clientVars == <<clients, reg, view, late>>

Running == task # None /\ task.st = "running"
Now == [task |-> task, age |-> age]

Init ==
  /\ task = None /\ age = 0 /\ fired = {} /\ run = [i \in Ids |-> "none"]
  /\ http = "idle" /\ canc = Idle /\ rdr = [r \in Readers |-> Idle]
  /\ mail = [t \in Threads |-> Idle]
  /\ clients = {} /\ reg = [c \in Clients |-> Idle]
  /\ view = [c \in Clients |-> [task |-> None, age |-> 0]]
  /\ late = {} /\ events = 0

-----------------------------------------------------------------------------
\* Broadcasts.

\* the record changes under the lock, and the thread owes a broadcast
Change(t, new) ==
  /\ task' = new /\ age' = age + 1
  /\ mail' = [mail EXCEPT ![t] = [pc |-> "snap"]]

Free(t) == mail[t].pc = "idle"

\* snapshot() of the thread, in a critical section of its own
TakeSnapshot(t) ==
  /\ mail[t].pc = "snap"
  /\ mail' = [mail EXCEPT ![t] = [pc |-> "put", snap |-> Now, to |-> Clients]]
  /\ UNCHANGED <<task, age, fired, run, http, canc, rdr, clientVars, events>>

\* browser c is sent the record s
Put(c, s) ==
  /\ view' = [view EXCEPT ![c] = s]
  /\ late' = IF s.age < view[c].age THEN late \cup {c}
             ELSE IF s.age = age THEN late \ {c} ELSE late

\* broadcast: the record goes to the registered browsers one after the other,
\* without a lock.  The copy of the set of clients and the put into one queue are
\* one step: a browser that comes in between is one that came after, and nobody
\* reads the queue of one that left in between.
PutNowait(t, c) ==
  /\ mail[t].pc = "put" /\ c \in mail[t].to
  /\ IF c \in clients THEN Put(c, mail[t].snap) ELSE UNCHANGED <<view, late>>
  /\ mail' = [mail EXCEPT ![t] = IF @.to = {c} THEN Idle ELSE [@ EXCEPT !.to = mail[t].to \ {c}]]
  /\ UNCHANGED <<task, age, fired, run, http, canc, rdr, clients, reg, events>>

\* /api/events: the queue joins the set first ...
Register(c) ==
  /\ reg[c].pc = "idle"
  /\ clients' = clients \cup {c} /\ reg' = [reg EXCEPT ![c] = [pc |-> "added"]]
  /\ UNCHANGED <<task, age, fired, run, http, canc, rdr, mail, view, late, events>>

\* ... then the current record is read ...
RegisterSnapshot(c) ==
  /\ reg[c].pc = "added"
  /\ reg' = [reg EXCEPT ![c] = [pc |-> "first", snap |-> Now]]
  /\ UNCHANGED <<task, age, fired, run, http, canc, rdr, mail, clients, view, late, events>>

\* ... and put as the first one of this browser
RegisterPut(c) ==
  /\ reg[c].pc = "first"
  /\ Put(c, reg[c].snap)
  /\ reg' = [reg EXCEPT ![c] = [pc |-> "open"]]
  /\ UNCHANGED <<task, age, fired, run, http, canc, rdr, mail, clients, events>>

\* the stream ends and its finally clause drops the queue
Disconnect(c) ==
  /\ reg[c].pc = "open"
  /\ clients' = clients \ {c} /\ reg' = [reg EXCEPT ![c] = [pc |-> "closed"]]
  /\ view' = [view EXCEPT ![c] = [task |-> None, age |-> 0]] /\ late' = late \ {c}
  /\ UNCHANGED <<task, age, fired, run, http, canc, rdr, mail, events>>

-----------------------------------------------------------------------------
\* Starting, running and cancelling.

NewTask(i) == [id |-> i, st |-> "running", steps |-> 0, cancel |-> FALSE, rx |-> 0, err |-> FALSE]
NextId == IF task = None THEN 1 ELSE task.id + 1

\* start: one running task only, tested and set under the lock; it gets a fresh
\* cancel event
Start ==
  /\ http = "idle" /\ Free(Http) /\ ~Running /\ NextId \in Ids
  /\ Change(Http, NewTask(NextId))
  /\ http' = "spawn"
  /\ UNCHANGED <<fired, run, canc, rdr, clientVars, events>>

\* the runner thread starts after the broadcast
Spawn ==
  /\ http = "spawn" /\ Free(Http)
  /\ http' = "idle" /\ run' = [run EXCEPT ![task.id] = "body"]
  /\ UNCHANGED <<task, age, fired, canc, rdr, mail, clientVars, events>>

\* target_fn reports progress; after a cancel it may go on doing so until it polls
\* is_cancel_requested
Progress(i) ==
  /\ run[i] = "body" /\ Free(i) /\ events < MaxEvents
  /\ Change(i, [task EXCEPT !.steps = @ + 1]) /\ events' = events + 1
  /\ UNCHANGED <<fired, run, http, canc, rdr, clientVars>>

\* Mutant of Finish: the end is written past update() and not sent.
FinishUnsent(i, st) ==
  /\ run[i] = "body" /\ Free(i)
  /\ task' = [task EXCEPT !.st = st] /\ run' = [run EXCEPT ![i] = "ended"]
  /\ UNCHANGED <<age, fired, http, canc, rdr, mail, clientVars, events>>

\* target_fn returns (done, also after a cancel) or raises (error)
Finish(i, st) ==
  /\ run[i] = "body" /\ Free(i)
  /\ Change(i, [task EXCEPT !.st = st, !.err = @ \/ st = "error"])
  /\ run' = [run EXCEPT ![i] = "ended"]
  /\ UNCHANGED <<fired, http, canc, rdr, clientVars, events>>

\* request_cancel: the flag, and the event of this very task, under the lock
Cancel ==
  /\ canc.pc = "idle" /\ Free(Canceller) /\ Running /\ ~task.cancel /\ events < MaxEvents
  /\ task' = [task EXCEPT !.cancel = TRUE] /\ age' = age + 1
  /\ canc' = [pc |-> "set", event |-> task.id] /\ events' = events + 1
  /\ UNCHANGED <<fired, run, http, rdr, mail, clientVars>>

\* Mutant of CancelSet: the event is read once the lock is released.
CancelSetCurrent ==
  /\ canc.pc = "set"
  /\ fired' = fired \cup {task.id} /\ canc' = Idle
  /\ mail' = [mail EXCEPT ![Canceller] = [pc |-> "snap"]]
  /\ UNCHANGED <<task, age, run, http, rdr, clientVars, events>>

\* after the lock: the event is set and the flag broadcast
CancelSet ==
  /\ canc.pc = "set"
  /\ fired' = fired \cup {canc.event} /\ canc' = Idle
  /\ mail' = [mail EXCEPT ![Canceller] = [pc |-> "snap"]]
  /\ UNCHANGED <<task, age, run, http, rdr, clientVars, events>>

-----------------------------------------------------------------------------
\* Gateway events: SSEBridge.on_transport_event, without the master state.

\* a reply or an RX window: the reader sees a running task ...
CountSees(r) ==
  /\ rdr[r].pc = "idle" /\ Free(r) /\ Running /\ events < MaxEvents
  /\ events' = events + 1
  /\ rdr' = [rdr EXCEPT ![r] = [pc |-> "read"]]
  /\ UNCHANGED <<task, age, fired, run, http, canc, mail, clientVars>>

\* ... reads its counter ...
CountReads(r) ==
  /\ rdr[r].pc = "read"
  /\ rdr' = [rdr EXCEPT ![r] = [pc |-> "write", rx |-> task.rx + 1]]
  /\ UNCHANGED <<task, age, fired, run, http, canc, mail, clientVars, events>>

\* ... and writes it back, into whatever task is there by now
CountWrites(r) ==
  /\ rdr[r].pc = "write"
  /\ Change(r, [task EXCEPT !.rx = rdr[r].rx])
  /\ rdr' = [rdr EXCEPT ![r] = Idle]
  /\ UNCHANGED <<fired, run, http, canc, clientVars, events>>

\* EV_ERROR: the reader sees a running task ...
ErrorSees(r) ==
  /\ rdr[r].pc = "idle" /\ Free(r) /\ Running /\ events < MaxEvents
  /\ events' = events + 1
  /\ rdr' = [rdr EXCEPT ![r] = [pc |-> "error"]]
  /\ UNCHANGED <<task, age, fired, run, http, canc, mail, clientVars>>

\* ... and writes last_error
ErrorWrites(r) ==
  /\ rdr[r].pc = "error"
  /\ Change(r, [task EXCEPT !.err = TRUE])
  /\ rdr' = [rdr EXCEPT ![r] = Idle]
  /\ UNCHANGED <<fired, run, http, canc, clientVars, events>>

-----------------------------------------------------------------------------
RunnerStep ==
  \E i \in Ids : Progress(i) \/ \E st \in {"done", "error"} : Finish(i, st)

Broadcasting ==
  \/ \E t \in Threads : TakeSnapshot(t)
  \/ \E t \in Threads, c \in Clients : PutNowait(t, c)

Request ==
  \/ Start \/ Spawn \/ Cancel \/ CancelSet
  \/ \E c \in Clients : Register(c) \/ RegisterSnapshot(c) \/ RegisterPut(c) \/ Disconnect(c)

Reading ==
  \E r \in Readers : CountSees(r) \/ CountReads(r) \/ CountWrites(r) \/ ErrorSees(r) \/ ErrorWrites(r)

Next == RunnerStep \/ Broadcasting \/ Request \/ Reading

\* Threads that have begun something go on; nobody has to send requests.
Fairness ==
  /\ WF_vars(RunnerStep) /\ WF_vars(Broadcasting)
  /\ WF_vars(Spawn \/ CancelSet \/ \E r \in Readers : CountReads(r) \/ CountWrites(r) \/ ErrorWrites(r))

Spec == Init /\ [][Next]_vars
FairSpec == Spec /\ Fairness

-----------------------------------------------------------------------------
\* Every variable holds what its declaration says.
TypeOK ==
  /\ task \in TaskRecord \cup {None} /\ age \in Nat /\ fired \subseteq Ids
  /\ run \in [Ids -> {"none", "body", "ended"}] /\ http \in {"idle", "spawn"}
  /\ \A t \in Threads : mail[t].pc \in {"idle", "snap", "put"}
  /\ clients \subseteq Clients /\ late \subseteq Clients
  /\ \A c \in Clients : view[c].task \in TaskRecord \cup {None} /\ view[c].age \in 0 .. age
  /\ events \in 0 .. MaxEvents

\* Two runner threads never work at the same time, whatever the routes' own
\* is_running() tests saw (start tests again under its lock).
OneRunner == \A i, j \in Ids : run[i] = "body" /\ run[j] = "body" => i = j

\* A task whose cancel event is set was asked to stop: a cancel that comes as
\* its task ends never stops the next one (request_cancel takes the event under
\* the lock, start makes a new one).
CancelIsOwn == task # None /\ task.id \in fired => task.cancel

\* Tasks are kept apart: neither their runners nor their cancels overlap.
TasksApart == OneRunner /\ CancelIsOwn

\* Once no broadcast is under way, a connected browser shows the current record
\* unless the last record it was sent was overtaken by a newer one on the way.
BrowserIsCurrent ==
  (\A t \in Threads : mail[t].pc = "idle") /\ canc.pc = "idle" =>
    \A c \in Clients : reg[c].pc = "open" => view[c].age = age \/ c \in late

\* The end of a task reaches every browser that stays connected, unless a record
\* sent before it came in after it.
EndIsShown ==
  \A c \in Clients, i \in Ids :
    (task # None /\ task.id = i /\ task.st # "running" /\ reg[c].pc = "open")
      ~> (\/ reg[c].pc # "open" \/ c \in late
          \/ view[c].task # None /\ (view[c].task.id > i \/ view[c].task.st # "running"))

\* A browser that stays follows the task to its end, unless overtaken.
BrowserFollows == []BrowserIsCurrent /\ EndIsShown

=============================================================================
