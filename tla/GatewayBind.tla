---------------------------- MODULE GatewayBind ----------------------------
(***************************************************************************)
(* Which gateway drives which RF network: the connect hook of the          *)
(* controller (_bind_transport_to_network), the bind records of            *)
(* GatewayBindService (evaluate, forget, resolve and its five actions),    *)
(* the network routes of the web API (change channel, delete, migrate) and *)
(* the gateway side of an RF migration task.                               *)
(*                                                                         *)
(* evaluate asks the gateway for its RF config without holding the         *)
(* service's lock and stores the verdict later under the lock; resolve     *)
(* holds the lock while it waits for the gateway to accept a new config.   *)
(* The web routes and the connect hook take no part in that lock.  An RF   *)
(* config is a member of Configs, and two configs clash when they are on   *)
(* the same channel (frequency closer than 500 kHz, same sync word).       *)
(***************************************************************************)
EXTENDS Naturals, Sequences, FiniteSets, SequencesExt

CONSTANTS Gateways,   \* ident_mac of the gateways
          Nets,       \* ids RL_Network records can get
          Configs,    \* RF configs
          Channel(_), \* the channel of a config
          None,       \* Python's None
          Task,       \* the task manager's worker thread
          Start,      \* the networks of the state file, in list order
          MaxOps      \* bound on operator requests, unpluggings and reflashings

Threads == Gateways \cup {Task}    \* the attach thread of a gateway, the task
States == {"pending", "bound", "conflict", "unbound"}
Record == [st : States, net : Nets \cup {None}, act : Configs \cup {None},
           exp : Configs \cup {None}, pend : BOOLEAN]
Wizard == [g : Gateways, saw : Record, half : BOOLEAN]
Call == [op : {"retune", "create", "rebind"}, g : Gateways, net : Nets \cup {None}, cfg : Configs]
Migration == [pc : {"validate", "switch", "reeval"}, g : Gateways \cup {None}, net : Nets, cfg : Configs]

ASSUME BindAssumption ==
  /\ None \notin Gateways \cup Nets \cup Configs \cup Record \cup Wizard \cup Call \cup Migration
  /\ Task \notin Gateways
  /\ Start \in Seq(Nets)
  /\ MaxOps \in Nat

VARIABLES repo,       \* network_repository: the ids in list order
          fresh,      \* ids no network has had yet
          mac,        \* RL_Network.gateway_mac
          rf,         \* RL_Network.rf_config
          transports, \* controller._transports, as ident_macs
          tnet,       \* transport.network_id
          gcfg,       \* the RF config a gateway holds in its NVS
          rec,        \* GatewayBindService._records
          wiz,        \* the wizard an operator has open
          res,        \* the resolve call that waits inside the lock
          gone,       \* gateways whose record a thread is about to forget
          ev,         \* per thread: its progress through attach and evaluate
          task,       \* the RF migration the task manager runs
          ops         \* operator requests, unpluggings and reflashings so far

vars == <<repo, fresh, mac, rf, transports, tnet, gcfg, rec, wiz, res, gone, ev, task, ops>>
netVars == <<repo, fresh, mac, rf>>

Idle == [pc |-> "idle", g |-> None, net |-> None, act |-> None]

Attached == Range(transports)
Known == Range(repo)

\* validate_networks_separation / occupants_of: the other networks on a channel
Occupants(c, n) == {m \in Known \ {n} : rf[m] # None /\ Channel(rf[m]) = Channel(c)}

\* the first member of a list that is in S
First(s, S) ==
  LET hits == {i \in DOMAIN s : s[i] \in S}
  IN IF hits = {} THEN None ELSE s[CHOOSE i \in hits : \A j \in hits : i <= j]

\* list.remove
Removed(s, x) == {RemoveAt(s, i) : i \in {j \in DOMAIN s : s[j] = x}}

\* repository.get_by_gateway_mac: the first network that names the gateway
Claimed(g) == First(repo, {n \in Known : mac[n] = g})

\* controller.transport_for_network: the stamp on a transport first, the
\* network's gateway_mac next, and the only transport of an unbound network
TransportFor(n) ==
  LET stamped == First(transports, {g \in Attached : tnet[g] = n})
  IN CASE stamped # None -> stamped
       [] stamped = None /\ (n \notin Known \/ mac[n] = None) ->
            IF Len(transports) = 1 THEN Head(transports) ELSE None
       [] OTHER -> First(transports, {mac[n]})

Separate == \A n \in Known : rf[n] # None => Occupants(rf[n], n) = {}
OneNetworkPerGateway ==
  \A m, n \in Known : mac[m] = mac[n] /\ mac[m] # None => m = n

-----------------------------------------------------------------------------
\* The host starts with a loaded state file and no gateway attached yet.
Init ==
  /\ repo = Start /\ fresh = Nets \ Range(Start)
  /\ mac \in [Nets -> Gateways \cup {None}] /\ rf \in [Nets -> Configs \cup {None}]
  /\ \A n \in fresh : mac[n] = None /\ rf[n] = None
  /\ Separate /\ OneNetworkPerGateway
  /\ transports = <<>> /\ tnet = [g \in Gateways |-> None]
  /\ gcfg \in [Gateways -> Configs]
  /\ rec = [g \in Gateways |-> None] /\ wiz = None /\ res = None /\ gone = {}
  /\ ev = [a \in Threads |-> Idle] /\ task = None /\ ops = 0

Locked == res # None

\* Mutant of Refused: the record keeps its token.
RefusedKeepsToken(g) == wiz

\* The wizard is the record an operator was shown, with its token; half says
\* that a rebind with this token has been left half done.  Once the token is
\* regenerated its requests are refused: the wizard is gone.
Refused(g) == IF wiz # None /\ wiz.g = g THEN None ELSE wiz

-----------------------------------------------------------------------------
\* Gateways come and go.

\* _attach_transport: the opened transport joins the list, not yet stamped
Attach(g) ==
  /\ g \notin Attached /\ ev[g].pc = "idle"
  /\ transports' = Append(transports, g) /\ tnet' = [tnet EXCEPT ![g] = None]
  /\ ev' = [ev EXCEPT ![g] = [Idle EXCEPT !.pc = "lookup", !.g = g]]
  /\ UNCHANGED <<repo, fresh, mac, rf, gcfg, rec, wiz, res, gone, task, ops>>

\* what query_gateway_rf_config can return: the gateway's config, or None when
\* both attempts time out
Answers(g) == {None} \cup {gcfg[h] : h \in {g} \cap Attached}

\* evaluate up to the lock: the network the transport carries, and the answer
Queried(a, g, n) ==
  \E act \in Answers(g) :
    ev' = [ev EXCEPT ![a] = [pc |-> "store", g |-> g, act |-> act,
                             net |-> IF n \in Known THEN n ELSE None]]

\* Mutant of Lookup: a known gateway is stamped but not evaluated.
LookupNoEvaluate(g) ==
  LET n == Claimed(g) IN
  /\ ev[g].pc = "lookup"
  /\ tnet' = [tnet EXCEPT ![g] = n]
  /\ ev' = [ev EXCEPT ![g] = IF n = None THEN [@ EXCEPT !.pc = "auto"] ELSE Idle]
  /\ UNCHANGED <<repo, fresh, mac, rf, transports, gcfg, rec, wiz, res, gone, task, ops>>

\* _bind_transport_to_network: a network names the gateway already, or ...
Lookup(g) ==
  LET n == Claimed(g) IN
  /\ ev[g].pc = "lookup"
  /\ tnet' = [tnet EXCEPT ![g] = n]
  /\ IF n = None THEN ev' = [ev EXCEPT ![g].pc = "auto"] ELSE Queried(g, g, n)
  /\ UNCHANGED <<repo, fresh, mac, rf, transports, gcfg, rec, wiz, res, gone, task, ops>>

\* ... the only transport claims the first network without a gateway
AutoBind(g) ==
  LET n == IF Len(transports) <= 1 THEN First(repo, {m \in Known : mac[m] = None}) ELSE None
  IN /\ ev[g].pc = "auto"
     /\ mac' = IF n = None THEN mac ELSE [mac EXCEPT ![n] = g]
     /\ tnet' = [tnet EXCEPT ![g] = n]
     /\ Queried(g, g, n)
     /\ UNCHANGED <<repo, fresh, rf, transports, gcfg, rec, wiz, res, gone, task, ops>>

\* _rf_diff: some field differs; nothing differs when neither side is known
RfDiff(act, exp) == act # exp

Verdict(net, act, exp) ==
  CASE net = None -> "unbound"
    [] net # None /\ exp = None -> "bound"          \* first contact
    [] net # None /\ exp # None /\ act = None -> "pending"
    [] OTHER -> IF ~RfDiff(act, exp) THEN "bound" ELSE "conflict"

\* evaluate inside the lock; a network without a channel adopts the gateway's
EvalStore(a) ==
  LET g == ev[a].g  n == ev[a].net  act == ev[a].act
      exp == IF n = None THEN None ELSE rf[n]
      adopt == n # None /\ exp = None
  IN /\ ev[a].pc = "store" /\ ~Locked
     /\ rf' = IF adopt THEN [rf EXCEPT ![n] = act] ELSE rf
     /\ rec' = [rec EXCEPT ![g] = [st |-> Verdict(n, act, exp), net |-> n, act |-> act,
                                   exp |-> IF adopt THEN act ELSE exp, pend |-> FALSE]]
     /\ wiz' = Refused(g)
     /\ ev' = [ev EXCEPT ![a] = Idle]
     /\ task' = IF a = Task THEN None ELSE task
     /\ UNCHANGED <<repo, fresh, mac, transports, tnet, gcfg, res, gone, ops>>

\* the transport dies: it leaves the list, its record is forgotten after that
Detach(g) ==
  /\ g \in Attached /\ ops < MaxOps
  /\ transports' \in Removed(transports, g) /\ gone' = gone \cup {g}
  /\ ops' = ops + 1
  /\ UNCHANGED <<repo, fresh, mac, rf, tnet, gcfg, rec, wiz, res, ev, task>>

Forget(g) ==
  /\ g \in gone /\ ~Locked
  /\ gone' = gone \ {g}
  /\ rec' = [rec EXCEPT ![g] = None] /\ wiz' = Refused(g)
  /\ UNCHANGED <<repo, fresh, mac, rf, transports, tnet, gcfg, res, ev, task, ops>>

\* the gateway was reflashed or used elsewhere while it was unplugged
Reflash(g, c) ==
  /\ g \notin Attached /\ gcfg[g] # c /\ ops < MaxOps
  /\ gcfg' = [gcfg EXCEPT ![g] = c] /\ ops' = ops + 1
  /\ UNCHANGED <<repo, fresh, mac, rf, transports, tnet, rec, wiz, res, gone, ev, task>>

-----------------------------------------------------------------------------
\* The operator's answers: POST /api/gateways/<ident>/resolve.

OpenWizard(g) ==
  /\ rec[g] # None /\ rec[g].st \in {"conflict", "unbound"}
  /\ wiz' = [g |-> g, saw |-> rec[g], half |-> FALSE]
  /\ UNCHANGED <<netVars, transports, tnet, gcfg, rec, res, gone, ev, task, ops>>

\* resolve's own tests: a known gateway, and the token the wizard was opened with
MayResolve(g) ==
  /\ ~Locked /\ rec[g] # None /\ ops < MaxOps
  /\ wiz # None /\ wiz.g = g

Settled(g, n, cfg) == [rec[g] EXCEPT !.st = "bound", !.net = n, !.act = cfg, !.exp = cfg]
MaySwitch(g) == rec[g].st \in {"unbound", "conflict"}

\* retune_gateway: wait for the gateway to take the network's config
Retune(g) ==
  /\ MayResolve(g) /\ rec[g].st = "conflict" /\ rec[g].exp # None /\ g \in Attached
  /\ res' = [op |-> "retune", g |-> g, net |-> rec[g].net, cfg |-> rec[g].exp]
  /\ ops' = ops + 1
  /\ UNCHANGED <<netVars, transports, tnet, gcfg, rec, wiz, gone, ev, task>>

\* Mutant of Accept: the channel is adopted without looking for occupants.
AcceptUnchecked(g) ==
  LET n == rec[g].net  c == rec[g].act IN
  /\ MayResolve(g) /\ rec[g].st = "conflict" /\ c # None /\ n \in Known
  /\ rf' = [rf EXCEPT ![n] = c]
  /\ rec' = [rec EXCEPT ![g] = [Settled(g, n, c) EXCEPT !.pend = FALSE]]
  /\ wiz' = Refused(g)
  /\ ops' = ops + 1
  /\ UNCHANGED <<repo, fresh, mac, transports, tnet, gcfg, res, gone, ev, task>>

\* accept_gateway: the network takes the gateway's config unless it is occupied
Accept(g) ==
  LET n == rec[g].net  c == rec[g].act IN
  /\ MayResolve(g) /\ rec[g].st = "conflict" /\ c # None
  /\ n \in Known /\ Occupants(c, n) = {}
  /\ rf' = [rf EXCEPT ![n] = c]
  /\ rec' = [rec EXCEPT ![g] = [Settled(g, n, c) EXCEPT !.pend = FALSE]]
  /\ wiz' = Refused(g)
  /\ ops' = ops + 1
  /\ UNCHANGED <<repo, fresh, mac, transports, tnet, gcfg, res, gone, ev, task>>

\* accept_host: keep the network's config and start a migration towards it
AcceptHost(g) ==
  /\ MayResolve(g) /\ rec[g].st = "conflict" /\ rec[g].exp # None /\ task = None
  /\ rec' = [rec EXCEPT ![g].pend = TRUE] /\ wiz' = Refused(g)
  /\ task' = [pc |-> "validate", g |-> None, net |-> rec[g].net, cfg |-> rec[g].exp]
  /\ ops' = ops + 1
  /\ UNCHANGED <<netVars, transports, tnet, gcfg, res, gone, ev>>

\* the network of a create_network request, appended and bound
Created(g, c, n) ==
  /\ fresh' = fresh \ {n} /\ repo' = Append(repo, n) /\ rf' = [rf EXCEPT ![n] = c]
  /\ mac' = [m \in Nets |-> IF m = n THEN g
                            ELSE IF mac[m] = g /\ m \in Known THEN None ELSE mac[m]]
  /\ tnet' = IF g \in Attached THEN [tnet EXCEPT ![g] = n] ELSE tnet
  /\ rec' = [rec EXCEPT ![g] = Settled(g, n, c)]

\* create_network on the gateway's own channel, or on a chosen one: a push first
Create(g, c) ==
  /\ MayResolve(g) /\ MaySwitch(g) /\ rec[g].act # None
  /\ Occupants(c, None) = {} /\ fresh # {}
  /\ ops' = ops + 1
  /\ \/ /\ ~RfDiff(rec[g].act, c)
        /\ \E n \in fresh : Created(g, c, n)
        /\ wiz' = Refused(g) /\ UNCHANGED res
     \/ /\ RfDiff(rec[g].act, c) /\ g \in Attached
        /\ res' = [op |-> "create", g |-> g, net |-> None, cfg |-> c]
        /\ UNCHANGED <<netVars, tnet, rec, wiz>>
  /\ UNCHANGED <<transports, gcfg, gone, ev, task>>

\* rebind, up to the comparison of the two configs: nothing undoes this part
Moved(g, n) ==
  /\ mac' = [m \in Nets |-> IF m = n THEN g
                            ELSE IF mac[m] = g /\ m \in Known THEN None ELSE mac[m]]
  /\ tnet' = IF g \in Attached THEN [tnet EXCEPT ![g] = n] ELSE tnet

\* what rebind leaves in the record, and what it does to the network's config
RebindStep(g, n, how) ==
  LET c == rec[g].act  e == rf[n]
      done == [Settled(g, n, c) EXCEPT !.pend = @ /\ e = None]
      half == [rec[g] EXCEPT !.net = n, !.exp = e]
      free == Occupants(c, n) = {}
      left == [wiz EXCEPT !.half = TRUE]    \* the token is not regenerated
  IN \/ /\ c # None /\ (e = None \/ (e # c /\ how = "accept")) /\ free  \* adopt
        /\ rf' = [rf EXCEPT ![n] = c] /\ rec' = [rec EXCEPT ![g] = done]
        /\ wiz' = Refused(g) /\ UNCHANGED res
     \/ /\ \/ c # None /\ (e = None \/ (e # c /\ how = "accept")) /\ ~free
           \/ c = None /\ e # None /\ how = "accept"                   \* refused
        /\ rec' = [rec EXCEPT ![g] = half] /\ wiz' = left /\ UNCHANGED <<rf, res>>
     \/ /\ e = c                                                        \* match
        /\ rec' = [rec EXCEPT ![g] = [half EXCEPT !.st = "bound"]]
        /\ wiz' = Refused(g) /\ UNCHANGED <<rf, res>>
     \/ /\ e \notin {None, c} /\ how = "retune"                         \* push
        /\ rec' = [rec EXCEPT ![g] = half] /\ wiz' = left /\ UNCHANGED rf
        /\ res' = IF g \notin Attached THEN None
                  ELSE [op |-> "rebind", g |-> g, net |-> n, cfg |-> e]
     \/ /\ e \notin {None, c} /\ how = "ask"
        /\ rec' = [rec EXCEPT ![g] = [half EXCEPT !.st = "conflict"]]
        /\ wiz' = Refused(g) /\ UNCHANGED <<rf, res>>

Rebind(g, n, how) ==
  /\ MayResolve(g) /\ MaySwitch(g) /\ n \in Known
  /\ Moved(g, n) /\ RebindStep(g, n, how)
  /\ ops' = ops + 1
  /\ UNCHANGED <<repo, fresh, transports, gcfg, gone, ev, task>>

\* The first EV_RF_CHANGED that reads RF_CHANGE_OK counts as the answer: the
\* gateway stored the config and reboots, or another request was answered.
PushOk ==
  LET g == res.g IN
  /\ Locked /\ g \in Attached
  /\ gcfg' \in {gcfg, [gcfg EXCEPT ![g] = res.cfg]} /\ res' = None
  /\ wiz' = Refused(g)
  /\ \/ /\ res.op = "create" /\ \E n \in fresh : Created(g, res.cfg, n)
     \/ /\ res.op # "create"
        /\ rec' = [rec EXCEPT ![g].act = res.cfg, ![g].st = "bound",
                              ![g].pend = IF res.op = "retune" THEN FALSE ELSE @]
        /\ UNCHANGED <<netVars, tnet>>
  /\ UNCHANGED <<transports, gone, ev, task, ops>>

\* it refuses, or its answer is lost after it has stored the config
PushFails ==
  /\ Locked /\ res' = None
  /\ gcfg' \in {gcfg} \cup {[gcfg EXCEPT ![g] = res.cfg] : g \in {res.g} \cap Attached}
  /\ UNCHANGED <<netVars, transports, tnet, rec, wiz, gone, ev, task, ops>>

-----------------------------------------------------------------------------
\* The network routes of the web API and the migration task.

\* PUT /api/networks/<id>: refused when another network is on the channel
ChangeChannel(n, c) ==
  /\ ops < MaxOps /\ n \in Known /\ rf[n] # c
  /\ c # None => Occupants(c, n) = {}
  /\ rf' = [rf EXCEPT ![n] = c] /\ ops' = ops + 1
  /\ UNCHANGED <<repo, fresh, mac, transports, tnet, gcfg, rec, wiz, res, gone, ev, task>>

\* DELETE /api/networks/<id>: the record of its gateway is forgotten, no more
DeleteNetwork(n) ==
  /\ ops < MaxOps /\ n \in Known /\ Len(repo) > 1
  /\ repo' \in Removed(repo, n)
  /\ gone' = gone \cup ({mac[n]} \ {None})
  /\ ops' = ops + 1
  /\ UNCHANGED <<fresh, mac, rf, transports, tnet, gcfg, rec, wiz, res, ev, task>>

\* POST /api/networks/<id>/migrate: any target, one task at a time
Migrate(n, c) ==
  /\ ops < MaxOps /\ task = None /\ n \in Known
  /\ task' = [pc |-> "validate", g |-> None, net |-> n, cfg |-> c]
  /\ ops' = ops + 1
  /\ UNCHANGED <<netVars, transports, tnet, gcfg, rec, wiz, res, gone, ev>>

\* migrate_network_to finds the network and the transport that carries it
TaskValidate ==
  LET g == IF task.net \in Known THEN TransportFor(task.net) ELSE None IN
  /\ task # None /\ task.pc = "validate"
  /\ task' = IF g = None THEN None ELSE [task EXCEPT !.pc = "switch", !.g = g]
  /\ UNCHANGED <<netVars, transports, tnet, gcfg, rec, wiz, res, gone, ev, ops>>

\* the switch is reported done, by its own answer or by another request's, and
\* the network's record follows
TaskSwitch ==
  /\ task # None /\ task.pc = "switch" /\ task.g \in Attached
  /\ gcfg' \in {gcfg, [gcfg EXCEPT ![task.g] = task.cfg]}
  /\ rf' = [rf EXCEPT ![task.net] = task.cfg]
  /\ task' = [task EXCEPT !.pc = "reeval"]
  /\ UNCHANGED <<repo, fresh, mac, transports, tnet, rec, wiz, res, gone, ev, ops>>

\* the switch is refused or unanswered: the task ends without re_evaluate
TaskSwitchFails ==
  /\ task # None /\ task.pc = "switch" /\ task' = None
  /\ gcfg' \in {gcfg} \cup {[gcfg EXCEPT ![g] = task.cfg] : g \in {task.g} \cap Attached}
  /\ UNCHANGED <<netVars, transports, tnet, rec, wiz, res, gone, ev, ops>>

\* re_evaluate: an attached gateway is evaluated, a lost one forgotten
TaskReevaluate ==
  /\ task # None /\ task.pc = "reeval" /\ ev[Task].pc = "idle"
  /\ \/ /\ task.g \in Attached
        /\ Queried(Task, task.g, tnet[task.g])
        /\ UNCHANGED <<gone, task>>
     \/ /\ task.g \notin Attached
        /\ gone' = gone \cup {task.g} /\ task' = None /\ UNCHANGED ev
  /\ UNCHANGED <<netVars, transports, tnet, gcfg, rec, wiz, res, ops>>

-----------------------------------------------------------------------------
Resolve ==
  \E g \in Gateways :
    \/ Retune(g) \/ Accept(g) \/ AcceptHost(g)
    \/ \E c \in Configs : Create(g, c)
    \/ \E n \in Nets, how \in {"ask", "retune", "accept"} : Rebind(g, n, how)

HostStep ==
  \/ \E g \in Gateways : Lookup(g) \/ AutoBind(g) \/ Forget(g)
  \/ \E a \in Threads : EvalStore(a)
  \/ PushOk \/ PushFails
  \/ TaskValidate \/ TaskSwitch \/ TaskSwitchFails \/ TaskReevaluate

Next ==
  \/ HostStep
  \/ Resolve
  \/ \E g \in Gateways : Attach(g) \/ Detach(g) \/ OpenWizard(g)
  \/ \E g \in Gateways, c \in Configs : Reflash(g, c)
  \/ \E n \in Nets, c \in Configs \cup {None} : ChangeChannel(n, c)
  \/ \E n \in Nets : DeleteNetwork(n)
  \/ \E n \in Nets, c \in Configs : Migrate(n, c)

Spec == Init /\ [][Next]_vars

\* Every thread goes on: a wait for the gateway has a timeout, and the lock is
\* free again when it ends.  Weak fairness is enough for a thread that waits for
\* the lock because requests are bounded here; without the bound it assumes that
\* answers do not hold the lock for ever.
Fairness ==
  /\ \A g \in Gateways :
       WF_vars(Lookup(g) \/ AutoBind(g) \/ EvalStore(g)) /\ WF_vars(Forget(g))
  /\ WF_vars(PushOk \/ PushFails)
  /\ WF_vars(TaskValidate \/ TaskSwitch \/ TaskSwitchFails \/ TaskReevaluate
             \/ EvalStore(Task))

FairSpec == Spec /\ Fairness

-----------------------------------------------------------------------------
TypeOK ==
  /\ repo \in Seq(Nets) /\ fresh \subseteq Nets
  /\ mac \in [Nets -> Gateways \cup {None}] /\ rf \in [Nets -> Configs \cup {None}]
  /\ transports \in Seq(Gateways) /\ tnet \in [Gateways -> Nets \cup {None}]
  /\ gcfg \in [Gateways -> Configs]
  /\ rec \in [Gateways -> Record \cup {None}]
  /\ wiz \in Wizard \cup {None} /\ res \in Call \cup {None}
  /\ gone \subseteq Gateways
  /\ ev \in [Threads -> [pc : {"idle", "lookup", "auto", "store"},
                         g : Gateways \cup {None}, net : Nets \cup {None},
                         act : Configs \cup {None}]]
  /\ task \in Migration \cup {None}
  /\ ops \in 0..MaxOps

\* A record says bound exactly when it has nothing to ask the operator, and
\* conflict only while the two configs it shows differ - through every answer,
\* half-done rebind and late evaluation.
StateFollowsDiff ==
  \A g \in Gateways : rec[g] # None =>
    /\ rec[g].st = "bound" => rec[g].act = rec[g].exp
    /\ rec[g].st = "conflict" => rec[g].act # rec[g].exp

\* "a stale wizard cannot override a re-evaluated record" (api_gateway_resolve):
\* while a wizard's token matches, its gateway's record is the one the operator
\* was shown, whatever thread evaluated, answered or forgot it in between.  Only
\* a rebind that was left half done with the same token (refused, or its push
\* failed) has moved the record on to its network and that network's config.
WizardIsCurrent ==
  wiz # None =>
    /\ rec[wiz.g] # None
    /\ rec[wiz.g] = IF wiz.half
                    THEN [wiz.saw EXCEPT !.net = rec[wiz.g].net, !.exp = rec[wiz.g].exp]
                    ELSE wiz.saw

\* The same without the exception: no wizard's token matches any record but the
\* one it was opened on.
WizardIsFresh == wiz # None => rec[wiz.g] = wiz.saw

\* "a gateway is never claimed by two networks at once": no answer, route or task
\* makes two networks name one gateway.  The connect hook can: it looks the
\* gateway up and claims a free network outside the service's lock.
ClaimsStayUnique ==
  OneNetworkPerGateway /\ ~OneNetworkPerGateway' => \E g \in Gateways : AutoBind(g)

\* Two networks come to share a channel only by a first-contact adoption, by a
\* migration, or by a create_network whose channel check was overtaken while it
\* waited for the gateway; no other answer and no route does that.
ChannelsStayApart ==
  Separate /\ ~Separate' => (\E a \in Threads : EvalStore(a)) \/ TaskSwitch \/ PushOk

\* Gateways and channels keep to one network each, but for the paths named above.
NetworksStayApart == [][ClaimsStayUnique /\ ChannelsStayApart]_vars

\* What the service shows of a gateway is consistent, and an answer that is let
\* through was given to the record as it stands, half-done rebinds excepted.
RecordsAreTrue == StateFollowsDiff /\ WizardIsCurrent

\* "the Stage 3 multi-network path routes via the explicit RL_Network.gateway_mac
\* binding" (transport_for_device): traffic of a network leaves through the
\* attached, stamped gateway that the network names.
RouteIsOwner ==
  \A n \in Known : \A g \in Attached :
    mac[n] = g /\ tnet[g] = n => TransportFor(n) = g

\* An attached gateway gets its verdict, however long an answer holds the lock.
AttachIsEvaluated == \A g \in Gateways : ev[g].pc = "lookup" ~> rec[g] # None

\* A migration task ends: it never waits for the lock of the answer that
\* started it.
MigrationEnds == task # None ~> task = None

\* Nobody waits for ever for the lock an answer holds while it waits for a gateway.
LockIsFreed == AttachIsEvaluated /\ MigrationEnds

\* "the gateway-bind state machine will re-evaluate any transport whose ident_mac
\* matched the deleted network's gateway_mac" (api_network_delete)
DeletedIsReevaluated ==
  \A g \in Gateways : (g \in Attached /\ rec[g] = None) ~> (rec[g] # None \/ g \notin Attached)
=============================================================================
