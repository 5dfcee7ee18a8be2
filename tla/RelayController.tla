-------------------------- MODULE RelayController --------------------------
(***************************************************************************)
(* The relay controller of one node next to the store it polls, and what   *)
(* it leaves in the network namespaces of the node's pods: a relay         *)
(* instance process, the socat it runs, and an nftables rule that sends    *)
(* the traffic of a container port to that socat.                          *)
(*                                                                         *)
(* StartRelay answers before a goroutine has launched socat and added the  *)
(* rule.  What a call does that reaches an instance in the middle of that  *)
(* is the matter of module RelayInstance; here it leaves any mixture.      *)
(*                                                                         *)
(* An instance and its socat are processes of their own, and the rule      *)
(* lives in the kernel: when the instance dies, socat and the rule stay;   *)
(* when the controller's container dies, all its processes die and the     *)
(* rules stay.                                                             *)
(***************************************************************************)
EXTENDS ListProtections

CONSTANTS
  LocalPods,   \* the pods on the controller's node
  MaxVersion,  \* bound: state versions the store goes through
  MaxFaults    \* bound: calls that fail, pods that start anew, deaths of
               \* instances and of the controller

ASSUME RelayAssumption ==
  /\ LocalPods \subseteq Pods
  /\ MaxVersion \in Nat /\ MaxFaults \in Nat

VARIABLES
  pc,            \* where the controller is
  stateVersion,  \* c.stateVersion, 0 for the empty string
  list, todo,    \* ListProtections so far, hosts whose ports are missing
  pending,       \* listed hosts not handled yet
  cur,           \* the host being handled
  specs,         \* its relay instance specs not handled yet, by pod
  relay,         \* relay[p]: what runs in the network namespace of pod p
  missed,        \* history: pods a failure or an unversioned change concerns
  dirty,         \* history: pods in which a crash left socat or a rule
  raced,         \* history: pods in which a call met a launch
  faults         \* failures so far

controllerVars == <<pc, stateVersion, list, todo, pending, cur, specs>>
vars == <<db, version, pc, stateVersion, list, todo, pending, cur, specs,
          relay, missed, dirty, raced, faults>>

\* RelayOptions, as far as protections differ in them.
Options == [number: ContainerPorts, proxy: ProxyPorts]

ASSUME OptionsAssumption == None \notin Options

discoverRelayOptions(row) == [number |-> row.number, proxy |-> row.proxy]

\* proc: the instance process; conf: its options; cmd: whether it launches a
\* socat or one it launched runs; socat: what the socat in the namespace
\* forwards; rule: the container port whose traffic is redirected.
Relays ==
  [proc: {"none", "starting", "up"}, conf: Options \cup {None},
   cmd: {"none", "launching", "running"}, socat: Options \cup {None},
   rule: ContainerPorts \cup {None}]

Fresh == [proc |-> "none", conf |-> None, cmd |-> "none", socat |-> None,
          rule |-> None]

Init ==
  /\ StoreInit
  /\ pc = "sleep" /\ stateVersion = 0 /\ list = EmptyList /\ todo = {}
  /\ pending = {} /\ cur = None /\ specs = {}
  /\ relay = [p \in LocalPods |-> Fresh]
  /\ missed = {} /\ dirty = {} /\ raced = {} /\ faults = 0

\* The pods behind host h.
PodsOf(d, h) ==
  IF d.ingresses[h] = None THEN {}
  ELSE LET eps == d.endpoints[d.ingresses[h]] IN {eps[ip] : ip \in Keys(eps)}

HostsOf(d, p) == {h \in Hosts : p \in PodsOf(d, h)}

-----------------------------------------------------------------------------
\* The API server commits a statement.  The trigger on upstreams compares
\* addresses, so another pod behind a known address is no new version.  The
\* mirror policy of an upstream is nothing a relay depends on and is left alone.
StoreNext ==
  /\ version < MaxVersion
  /\ Statement /\ db'.mirrored = db.mirrored
  /\ missed' = IF version' # version THEN missed
               ELSE missed \cup {p \in LocalPods : HostsOf(db', p) # HostsOf(db, p)}
  /\ UNCHANGED <<controllerVars, relay, dirty, faults, raced>>

-----------------------------------------------------------------------------
(* Controller.Run: poll and list, with protections of every mode.          *)

StateVersionChanged ==
  /\ pc = "sleep" /\ stateVersion # version
  /\ stateVersion' = version
  /\ pc' = "protections"
  /\ missed' = {}
  /\ UNCHANGED <<storeVars, list, todo, pending, cur, specs, relay, dirty,
                 faults, raced>>

QueryProtections ==
  /\ pc = "protections"
  /\ list' = ProtectionRows(db, Modes)
  /\ pc' = "ingresses"
  /\ UNCHANGED <<storeVars, stateVersion, todo, pending, cur, specs, relay,
                 missed, dirty, faults, raced>>

QueryIngresses ==
  /\ pc = "ingresses"
  /\ list' = WithIngresses(db, list)
  /\ pc' = "upstreams"
  /\ UNCHANGED <<storeVars, stateVersion, todo, pending, cur, specs, relay,
                 missed, dirty, faults, raced>>

QueryUpstreams ==
  /\ pc = "upstreams"
  /\ list' = WithUpstreams(db, list)
  /\ todo' = WithoutPorts(list)
  /\ pc' = "ports"
  /\ UNCHANGED <<storeVars, stateVersion, pending, cur, specs, relay, missed,
                 dirty, faults, raced>>

QueryPorts(h) ==
  LET found == PortsFound(db, list, h)
  IN /\ pc = "ports" /\ h \in todo
     /\ \E f \in found \cup {None} :
          IsFirst(f, found) /\ list' = WithPorts(list, h, found, f)
     /\ todo' = todo \ {h}
     /\ UNCHANGED <<storeVars, pc, stateVersion, pending, cur, specs, relay,
                    missed, dirty, faults, raced>>

\* The reply arrives.
GotList ==
  /\ pc = "ports" /\ todo = {}
  /\ pending' = Listed(list)
  /\ pc' = "specs"
  /\ UNCHANGED <<storeVars, stateVersion, list, todo, cur, specs, relay, missed,
                 dirty, faults, raced>>

\* ListProtections fails; the version stays recorded.
ListProtectionsFails ==
  /\ pc \in {"protections", "ingresses", "upstreams", "ports"}
  /\ faults < MaxFaults
  /\ pc' = "sleep" /\ list' = EmptyList /\ todo' = {}
  /\ missed' = LocalPods
  /\ faults' = faults + 1
  /\ UNCHANGED <<storeVars, stateVersion, pending, cur, specs, relay, dirty,
                 raced>>

-----------------------------------------------------------------------------
(* The instances of one protection after the other.                        *)

\* getRelayInstanceSpecs: the endpoints on this node whose pod and container
\* can be looked up; none when the protection is on without container port.
\* Rows come from SQL and endpoints from a Go map, hence in any order.
getRelayInstanceSpecs(h, lost) ==
  LET entry == list[h]
      pods == {entry.eps[ip] : ip \in Keys(entry.eps)} \cap LocalPods
  IN /\ pc = "specs" /\ specs = {} /\ h \in pending
     /\ lost \subseteq pods
     /\ lost = {} \/ faults < MaxFaults
     /\ specs' = IF entry.mode = "ON" /\ entry.first = None THEN {}
                 ELSE pods \ lost
     /\ cur' = h /\ pending' = pending \ {h}
     /\ missed' = missed \cup lost
     /\ faults' = IF lost = {} THEN faults ELSE faults + 1
     /\ UNCHANGED <<storeVars, pc, stateVersion, list, todo, relay, dirty,
                    raced>>

\* Mutant: the nft table is not deleted.
StopRelayKeepsRule(s) ==
  [s EXCEPT !.cmd = "none", !.socat = IF s.cmd = "running" THEN None ELSE @]

\* StopRelay: the socat the instance started is killed and the nft table
\* deleted.  In an instance that never got options the handler panics after
\* that, which the HTTP server answers with an error.
StopRelay(s) ==
  [s EXCEPT !.cmd = "none", !.rule = None,
            !.socat = IF s.cmd = "running" THEN None ELSE @]

\* StartRelay: Configure, which stops the relay if its options changed, and
\* start, which launches socat unless the one it launched runs.
StartRelay(s, o) ==
  LET c == IF s.conf \in {None, o} THEN s ELSE StopRelay(s)
  IN [c EXCEPT !.conf = o,
               !.cmd = IF @ = "running" THEN @ ELSE "launching"]

\* The goroutine of startInternal.  A socat that finds its port taken exits,
\* and rules that are there already stay as they are.
Launched(s) ==
  [s EXCEPT !.cmd = IF s.socat = None THEN "running" ELSE "none",
            !.socat = IF @ = None THEN s.conf ELSE @,
            !.rule = IF @ = None THEN s.conf.number ELSE @]

\* An instance that is called, or dies, while it launches socat.
Torn(s) ==
  {[s EXCEPT !.socat = t, !.rule = n] :
     t \in {s.socat, s.conf}, n \in {s.rule, s.conf.number}}

TornCall(s, o) ==
  UNION {{t, [t EXCEPT !.conf = o], [t EXCEPT !.conf = o, !.cmd = "none"]} :
           t \in Torn(s) \cup Torn([s EXCEPT !.conf = o])
                   \cup Torn([s EXCEPT !.rule = None])}

CurOptions == discoverRelayOptions(list[cur].first)

HandledSpec(p) == specs' = specs \ {p}

\* StartSpec of a pod whose instance answers; also the call of startRelay
\* that ends StartSpec when the instance had to be started.
StartSpec(p) ==
  /\ pc = "specs" /\ p \in specs /\ list[cur].mode = "ON"
  /\ relay[p].proc = "up" /\ relay[p].cmd # "launching"
  /\ relay' = [relay EXCEPT ![p] = StartRelay(@, CurOptions)]
  /\ HandledSpec(p)
  /\ UNCHANGED <<storeVars, pc, stateVersion, list, todo, pending, cur, missed,
                 dirty, faults, raced>>

\* runRelayBinary; the controller then sleeps for two seconds.
runRelayBinary(p) ==
  /\ pc = "specs" /\ p \in specs /\ list[cur].mode = "ON"
  /\ relay[p].proc = "none"
  /\ relay' = [relay EXCEPT ![p].proc = "starting"]
  /\ UNCHANGED <<storeVars, controllerVars, missed, dirty, faults, raced>>

\* The instance opens its API port.
InstanceUp(p) ==
  /\ relay[p].proc = "starting"
  /\ relay' = [relay EXCEPT ![p].proc = "up"]
  /\ UNCHANGED <<storeVars, controllerVars, missed, dirty, faults, raced>>

\* Mutant: StopSpec waits for the instance to answer.
StopSpecWaits(p) ==
  /\ pc = "specs" /\ p \in specs /\ list[cur].mode = "OFF"
  /\ relay[p].proc = "up"
  /\ relay' = [relay EXCEPT ![p] = StopRelay(@)]
  /\ HandledSpec(p)
  /\ UNCHANGED <<storeVars, pc, stateVersion, list, todo, pending, cur, missed,
                 dirty, faults, raced>>

\* StopSpec, which does nothing when no instance answers.
StopSpec(p) ==
  /\ pc = "specs" /\ p \in specs /\ list[cur].mode = "OFF"
  /\ relay[p].cmd # "launching"
  /\ relay' = [relay EXCEPT ![p] = IF @.proc = "up" THEN StopRelay(@) ELSE @]
  /\ HandledSpec(p)
  /\ UNCHANGED <<storeVars, pc, stateVersion, list, todo, pending, cur, missed,
                 dirty, faults, raced>>

\* StartRelay or StopRelay while the instance launches socat.
CallMeetsLaunch(p) ==
  LET o == IF list[cur].mode = "ON" THEN CurOptions ELSE relay[p].conf
  IN /\ pc = "specs" /\ p \in specs
     /\ relay[p].cmd = "launching"
     /\ \E t \in TornCall(relay[p], o) : relay' = [relay EXCEPT ![p] = t]
     /\ HandledSpec(p)
     /\ raced' = raced \cup {p}
     /\ UNCHANGED <<storeVars, pc, stateVersion, list, todo, pending, cur, missed, dirty,
                    faults>>

\* What fails for a pod is not tried again for this version.  The binary
\* does not start, two seconds were too short for it and startRelay returns
\* nil without a call, or a call fails, before or after it had its effect.
SpecFails(p) ==
  LET s == relay[p]
      called == IF s.proc # "up" \/ s.cmd = "launching" THEN s
                ELSE IF list[cur].mode = "ON" THEN StartRelay(s, CurOptions)
                ELSE StopRelay(s)
  IN /\ pc = "specs" /\ p \in specs
     /\ faults < MaxFaults
     /\ \E t \in {s, called} : relay' = [relay EXCEPT ![p] = t]
     /\ faults' = faults + 1
     /\ missed' = missed \cup {p}
     /\ HandledSpec(p)
     /\ UNCHANGED <<storeVars, pc, stateVersion, list, todo, pending, cur, dirty,
                    raced>>

\* All protections are handled.
Sleep ==
  /\ pc = "specs" /\ specs = {} /\ pending = {}
  /\ pc' = "sleep" /\ list' = EmptyList /\ cur' = None
  /\ UNCHANGED <<storeVars, stateVersion, todo, pending, specs, relay, missed,
                 dirty, faults, raced>>

-----------------------------------------------------------------------------
(* Pods, instances and the controller come and go.                         *)

\* The goroutine startInternal has started comes to its end.
Launch(p) ==
  /\ relay[p].cmd = "launching"
  /\ relay' = [relay EXCEPT ![p] = Launched(@)]
  /\ UNCHANGED <<storeVars, controllerVars, missed, dirty, faults, raced>>

\* The health monitor cannot reach the gateway and starts socat anew.
ProxyFails(p) ==
  /\ relay[p].cmd = "running" /\ faults < MaxFaults
  /\ relay' = [relay EXCEPT ![p].cmd = "launching", ![p].socat = None,
                            ![p].rule = None]
  /\ faults' = faults + 1
  /\ UNCHANGED <<storeVars, controllerVars, missed, dirty, raced>>

\* Pod p starts anew in a new network namespace; the old instance sees that
\* its own is gone and exits.
PodRestarts(p) ==
  /\ faults < MaxFaults
  /\ relay' = [relay EXCEPT ![p] = Fresh]
  /\ missed' = missed \cup {p} /\ dirty' = dirty \ {p} /\ raced' = raced \ {p}
  /\ faults' = faults + 1
  /\ UNCHANGED <<storeVars, controllerVars>>

MayLeave(p) == IF relay[p].cmd = "launching" THEN Torn(relay[p]) ELSE {relay[p]}

InstanceDies(p) ==
  /\ relay[p].proc # "none" /\ faults < MaxFaults
  /\ \E t \in MayLeave(p) :
       /\ relay' = [relay EXCEPT ![p] = [Fresh EXCEPT !.socat = t.socat,
                                                     !.rule = t.rule]]
       /\ dirty' = IF t.socat # None \/ t.rule # None THEN dirty \cup {p}
                   ELSE dirty
  /\ missed' = missed \cup {p}
  /\ faults' = faults + 1
  /\ UNCHANGED <<storeVars, controllerVars, raced>>

\* The controller's container is replaced: NewController.
NewController ==
  /\ faults < MaxFaults
  /\ pc' = "sleep" /\ stateVersion' = 0 /\ list' = EmptyList /\ todo' = {}
  /\ pending' = {} /\ cur' = None /\ specs' = {}
  /\ \E left \in [LocalPods -> ContainerPorts \cup {None}] :
       /\ \A p \in LocalPods : \E t \in MayLeave(p) : left[p] = t.rule
       /\ relay' = [p \in LocalPods |-> [Fresh EXCEPT !.rule = left[p]]]
       /\ dirty' = {p \in LocalPods : left[p] # None}
  /\ missed' = {} /\ raced' = {}
  /\ faults' = faults + 1
  /\ UNCHANGED storeVars

-----------------------------------------------------------------------------
Controller ==
  \/ StateVersionChanged \/ QueryProtections \/ QueryIngresses \/ QueryUpstreams
  \/ \E h \in Hosts : QueryPorts(h)
  \/ GotList
  \/ \E h \in Hosts, lost \in SUBSET LocalPods : getRelayInstanceSpecs(h, lost)
  \/ \E p \in LocalPods :
       StartSpec(p) \/ runRelayBinary(p) \/ StopSpec(p) \/ CallMeetsLaunch(p)
  \/ Sleep

Own ==
  \/ Controller
  \/ \E p \in LocalPods : InstanceUp(p) \/ Launch(p)
  \/ ListProtectionsFails
  \/ \E p \in LocalPods :
       SpecFails(p) \/ ProxyFails(p) \/ PodRestarts(p) \/ InstanceDies(p)
  \/ NewController

Next == StoreNext \/ Own

Spec == Init /\ [][Next]_vars

\* The controller's loop runs, a started instance opens its port, a launch
\* comes to its end, and failures are finitely many.
Fairness ==
  /\ WF_vars(Controller)
  /\ \A p \in LocalPods : WF_vars(InstanceUp(p)) /\ WF_vars(Launch(p))

FairSpec == Spec /\ Fairness

-----------------------------------------------------------------------------
(* What the controller must provide.                                       *)

\* The controller's state and what runs in the pods is well formed; an
\* instance runs a socat only with options, and socat is then that one.
TypeOK ==
  /\ StoreTypeOK
  /\ pc \in {"sleep", "protections", "ingresses", "upstreams", "ports", "specs"}
  /\ stateVersion \in 0..version
  /\ list \in Lists /\ todo \subseteq Listed(list)
  /\ pending \subseteq Listed(list) /\ cur \in Hosts \cup {None}
  /\ specs \subseteq LocalPods
  /\ relay \in [LocalPods -> Relays]
  /\ \A p \in LocalPods :
       relay[p].cmd = "running" => relay[p].conf # None /\ relay[p].socat # None
  /\ missed \cup dirty \cup raced \subseteq LocalPods
  /\ faults \in 0..MaxFaults

ProtectedHosts(p) ==
  {h \in HostsOf(db, p) : db.modes[h] = "ON" /\ ContainerPortRows(db, h) # {}}

UnprotectedHosts(p) == {h \in HostsOf(db, p) : db.modes[h] = "OFF"}

\* Pod p is relayed by the tables: its traffic for a container port of a
\* host that is switched on goes to that port's listener of the gateway.  A
\* pod of hosts that are all switched off is left alone.  A pod of hosts
\* some of which are on and some off is relayed or not, as the last of them
\* in the list would have it.
Relayed(p) ==
  /\ ProtectedHosts(p) # {} /\ UnprotectedHosts(p) = {}
       => \E h \in ProtectedHosts(p) : \E row \in ContainerPortRows(db, h) :
            /\ relay[p].proc = "up" /\ relay[p].socat = discoverRelayOptions(row)
            /\ relay[p].rule = row.number
  /\ UnprotectedHosts(p) # {} /\ (\A h \in HostsOf(db, p) : db.modes[h] # "ON")
       => relay[p].rule = None

Spared(p) == p \in missed \cup dirty \cup raced

\* When the controller sleeps with the current version recorded, every pod
\* of the node that no failure, crash, race or unversioned change concerns, and
\* that has no launch under way, is relayed as the tables say.
RelaysCurrent ==
  pc = "sleep" /\ stateVersion = version
    => \A p \in LocalPods :
         Spared(p) \/ relay[p].cmd = "launching" \/ Relayed(p)

\* Once the store is left alone the pods end up that way: the controller's
\* loop over protections and specs always comes to its end, past whatever
\* failed for one of them.
RelaysConverge == <>[](\A p \in LocalPods : Spared(p) \/ Relayed(p))

\* StartSpec "will clean up previous instance and start a new one"
\* (instancespec.go): after a launch the pod is relayed with the options the
\* instance was given last.
StartSpecCleansUp ==
  [][\A p \in LocalPods \ raced :
       Launch(p) => /\ relay'[p].socat = relay[p].conf
                    /\ relay'[p].rule = relay[p].conf.number]_vars

-----------------------------------------------------------------------------
(* The inductive invariant behind TypeOK and RelaysCurrent.                *)

ListedPods(h) == {list[h].eps[ip] : ip \in Keys(list[h].eps)}

\* What the controller works on is well founded: it only holds specs of a
\* listed host that it can start or stop, and knows of no port without proxy.
ControllerInv ==
  /\ pc # "ports" => todo = {}
  /\ pc # "specs" => pending = {} /\ specs = {}
  /\ specs # {} =>
       /\ cur \in Listed(list) \ pending
       /\ specs \subseteq ListedPods(cur)
       /\ list[cur].mode = "ON" => list[cur].first # None
  /\ \A h \in Listed(list) :
       /\ list[h].first # None => list[h].first.proxy # None
       /\ list[h].svc # None => list[h].svc = db.ingresses[h]

\* What was read for host h agrees with the tables, for the pods that no
\* unversioned change concerns.
ReadAgrees(h) ==
  /\ h \in Listed(list) <=> db.modes[h] # None
  /\ h \in Listed(list) =>
       /\ list[h].mode = db.modes[h]
       /\ pc \in {"ingresses", "upstreams"}
            => list[h].first = None /\ Keys(list[h].eps) = {}
       /\ pc # "ingresses" /\ ContainerPortRows(db, h) # {}
            => list[h].svc = db.ingresses[h]
       /\ pc = "upstreams" /\ list[h].svc = None
            => PodsOf(db, h) \cap LocalPods \subseteq missed
       /\ pc \in {"ports", "specs"} =>
            /\ h \notin todo => IsFirst(list[h].first, ContainerPortRows(db, h))
            /\ \A p \in LocalPods \ missed :
                 p \in ListedPods(h) <=> p \in PodsOf(db, h)

ListInv ==
  pc \notin {"sleep", "protections"} /\ stateVersion = version
    => \A h \in Hosts : ReadAgrees(h)

\* A relay as an instance may leave it: with options once it launches.
Sound(s) ==
  /\ s \in Relays
  /\ s.cmd # "none" => s.conf # None
  /\ s.cmd = "running" => s.socat # None

\* What is in the namespace is what the instance believes to run there.
Clean(s) ==
  /\ s.proc # "up" => s.cmd = "none"
  /\ s.cmd = "running" => s.socat = s.conf /\ s.rule = s.conf.number
  /\ s.cmd # "running" => s.socat = None /\ s.rule = None

InstanceInv(p) ==
  /\ Sound(relay[p])
  /\ p \notin dirty \cup raced => Clean(relay[p])

\* Host h needs nothing more for pod p under the recorded version.
Handled(h, p) ==
  \/ pc = "sleep"
  \/ pc = "specs" /\ h \notin pending /\ ~ (h = cur /\ p \in specs)

\* The instance of p was told to relay a container port of a protected host.
Told(p) ==
  /\ relay[p].proc = "up" /\ relay[p].cmd # "none"
  /\ \E h \in ProtectedHosts(p) : \E row \in ContainerPortRows(db, h) :
       relay[p].conf = discoverRelayOptions(row)

HandledInv(p) ==
  stateVersion = version /\ ~ Spared(p) =>
    /\ UnprotectedHosts(p) = {} /\ (\E h \in ProtectedHosts(p) : Handled(h, p))
         => Told(p)
    /\ (\A h \in HostsOf(db, p) : db.modes[h] # "ON")
         /\ (\E h \in UnprotectedHosts(p) : Handled(h, p))
         => relay[p].cmd = "none"

IInv ==
  /\ TypeOK /\ StoreInv /\ ControllerInv /\ ListInv
  /\ \A p \in LocalPods : InstanceInv(p) /\ HandledInv(p)

\* The options that some row of the table ports stands for.
KnownOptions == {discoverRelayOptions(r) : r \in db.ports}

\* What the controller read, what an instance was told and what its socat
\* does stems from a row that is in the table, however stale it is.
FromTables ==
  /\ \A h \in Listed(list) : list[h].first # None => list[h].first \in db.ports
  /\ \A p \in LocalPods :
       {relay[p].conf, relay[p].socat} \subseteq KnownOptions \cup {None}
=============================================================================
