--------------------------- MODULE ControlPlane ---------------------------
(***************************************************************************)
(* The gateway's EnvoyControlPlane next to the store it polls: the watcher *)
(* goroutine (startApiIngressWatcher), the channel resourcesCh, the        *)
(* snapshot generator goroutine (startSnapshotGenerator), and Envoy, which *)
(* runs in a container of its own and keeps its configuration when the     *)
(* control plane restarts.  ListProtections is several statements at the   *)
(* API server, each in its own transaction, so store steps come in between.*)
(***************************************************************************)
EXTENDS EnvoyState, Sequences

CONSTANTS
  MaxVersion,  \* bound: state versions the store goes through
  MaxFaults    \* bound: failed calls and restarts of the gateway

ASSUME BoundsAssumption == MaxVersion \in Nat /\ MaxFaults \in Nat

VARIABLES
  pc,            \* where the watcher goroutine is
  stateVersion,  \* p.stateVersion, 0 for the empty string
  list,          \* what the queries of ListProtections returned so far
  todo,          \* listed hosts whose ports are not queried yet
  built,         \* resources the watcher is sending
  resourcesCh,   \* the buffered channel
  gen,           \* resources the generator received and works on
  snapshot,      \* the snapshot cache's entry for node-1
  envoy,         \* the configuration Envoy runs with
  missed,        \* history: the list for stateVersion failed
  panicked,      \* history: buildResources panicked
  faults         \* failures so far

watcherVars == <<pc, stateVersion, list, todo, built>>
generatorVars == <<resourcesCh, gen, snapshot>>
vars == <<db, version, pc, stateVersion, list, todo, built, resourcesCh, gen,
          snapshot, envoy, missed, panicked, faults>>

\* make(chan map[resource.Type][]types.Resource, 1)
ResourcesChCap == 1

\* No resources: an empty hand, no snapshot yet.
NoResources ==
  [stamp |-> 0, listeners |-> [h \in Hosts |-> None],
   clusters |-> [h \in Hosts |-> None], mirrors |-> {}]

Listing == {"protections", "ingresses", "upstreams", "ports", "reply"}

Init ==
  /\ StoreInit
  /\ pc = "sleep" /\ stateVersion = 0 /\ list = EmptyList /\ todo = {}
  /\ built = NoResources /\ resourcesCh = <<>> /\ gen = NoResources
  /\ snapshot = NoResources /\ envoy = NoResources
  /\ missed = FALSE /\ panicked = FALSE /\ faults = 0

-----------------------------------------------------------------------------
(* The API server commits a statement (ApiServer!ImplementsStatements).    *)

StoreNext ==
  /\ version < MaxVersion
  /\ Statement
  /\ UNCHANGED <<watcherVars, generatorVars, envoy, missed, panicked, faults>>

-----------------------------------------------------------------------------
(* The watcher goroutine.                                                  *)

\* stateVersionChanged returns true.  The new version is recorded before the
\* protections are listed.
StateVersionChanged ==
  /\ pc = "sleep" /\ stateVersion # version
  /\ stateVersion' = version
  /\ pc' = "protections"
  /\ missed' = FALSE
  /\ UNCHANGED <<storeVars, list, todo, built, generatorVars, envoy, panicked,
                 faults>>

\* stateVersionChanged returns false: the call fails, or the version is the
\* recorded one.  Neither changes anything but the count of failures.
GetStateVersionFails ==
  /\ pc = "sleep" /\ faults < MaxFaults
  /\ faults' = faults + 1
  /\ UNCHANGED <<storeVars, watcherVars, generatorVars, envoy, missed, panicked>>

\* ListProtections with mode ON, query by query.
QueryProtections ==
  /\ pc = "protections"
  /\ list' = ProtectionRows(db, {"ON"})
  /\ pc' = "ingresses"
  /\ UNCHANGED <<storeVars, stateVersion, todo, built, generatorVars, envoy,
                 missed, panicked, faults>>

QueryIngresses ==
  /\ pc = "ingresses"
  /\ list' = WithIngresses(db, list)
  /\ pc' = "upstreams"
  /\ UNCHANGED <<storeVars, stateVersion, todo, built, generatorVars, envoy,
                 missed, panicked, faults>>

QueryUpstreams ==
  /\ pc = "upstreams"
  /\ list' = WithUpstreams(db, list)
  /\ todo' = WithoutPorts(list)
  /\ pc' = "ports"
  /\ UNCHANGED <<storeVars, stateVersion, built, generatorVars, envoy, missed,
                 panicked, faults>>

QueryPorts(h) ==
  LET found == PortsFound(db, list, h)
  IN /\ pc = "ports" /\ h \in todo
     /\ \E f \in found \cup {None} :
          IsFirst(f, found) /\ list' = WithPorts(list, h, found, f)
     /\ todo' = todo \ {h}
     /\ UNCHANGED <<storeVars, pc, stateVersion, built, generatorVars, envoy,
                    missed, panicked, faults>>

QueriesDone ==
  /\ pc = "ports" /\ todo = {}
  /\ pc' = "reply"
  /\ UNCHANGED <<storeVars, stateVersion, list, todo, built, generatorVars,
                 envoy, missed, panicked, faults>>

\* ListProtections fails at the database or on the way: the watcher logs
\* and goes back to sleep with the new version recorded.
ListProtectionsFails ==
  /\ pc \in Listing /\ faults < MaxFaults
  /\ pc' = "sleep" /\ list' = EmptyList /\ todo' = {}
  /\ missed' = TRUE
  /\ faults' = faults + 1
  /\ UNCHANGED <<storeVars, stateVersion, built, generatorVars, envoy, panicked>>

\* The reply arrives and buildResources returns.
BuildResources ==
  /\ pc = "reply" /\ ~ buildPanics(list)
  /\ built' = buildResources(list, stateVersion)
  /\ pc' = "send" /\ list' = EmptyList
  /\ UNCHANGED <<storeVars, stateVersion, todo, generatorVars, envoy, missed,
                 panicked, faults>>

\* Mutant: a goroutine per send, so that a later one may come first.
SendResourcesUnordered ==
  /\ pc = "send"
  /\ resourcesCh' \in {Append(resourcesCh, built), <<built>> \o resourcesCh}
  /\ built' = NoResources
  /\ pc' = "sleep"
  /\ UNCHANGED <<storeVars, stateVersion, list, todo, gen, snapshot, envoy,
                 missed, panicked, faults>>

\* Mutant: a select with a default, which drops what does not fit.
SendResourcesDropping ==
  /\ pc = "send"
  /\ resourcesCh' = IF Len(resourcesCh) < ResourcesChCap
                    THEN Append(resourcesCh, built) ELSE resourcesCh
  /\ built' = NoResources
  /\ pc' = "sleep"
  /\ UNCHANGED <<storeVars, stateVersion, list, todo, gen, snapshot, envoy,
                 missed, panicked, faults>>

\* p.resourcesCh <- resources: blocks while the channel is full.
SendResources ==
  /\ pc = "send" /\ Len(resourcesCh) < ResourcesChCap
  /\ resourcesCh' = Append(resourcesCh, built)
  /\ built' = NoResources
  /\ pc' = "sleep"
  /\ UNCHANGED <<storeVars, stateVersion, list, todo, gen, snapshot, envoy,
                 missed, panicked, faults>>

-----------------------------------------------------------------------------
(* The process dies and the kubelet starts it again: NewEnvoyControlPlane. *)

NewEnvoyControlPlane ==
  /\ pc' = "sleep" /\ stateVersion' = 0 /\ list' = EmptyList /\ todo' = {}
  /\ built' = NoResources /\ resourcesCh' = <<>> /\ gen' = NoResources
  /\ snapshot' = NoResources /\ missed' = FALSE

BuildPanics ==
  /\ pc = "reply" /\ buildPanics(list)
  /\ NewEnvoyControlPlane
  /\ panicked' = TRUE
  /\ UNCHANGED <<storeVars, envoy, faults>>

Restart ==
  /\ faults < MaxFaults
  /\ NewEnvoyControlPlane
  /\ faults' = faults + 1
  /\ UNCHANGED <<storeVars, envoy, panicked>>

-----------------------------------------------------------------------------
(* The generator goroutine and Envoy.                                      *)

ReceiveResources ==
  /\ gen = NoResources /\ resourcesCh # <<>>
  /\ gen' = Head(resourcesCh)
  /\ resourcesCh' = Tail(resourcesCh)
  /\ UNCHANGED <<storeVars, watcherVars, snapshot, envoy, missed, panicked,
                 faults>>

\* NewSnapshot, Consistent and SetSnapshot.  Routes are inline and clusters
\* static, so the snapshot refers to no other resource and is consistent.
SetSnapshot ==
  /\ gen # NoResources
  /\ snapshot' = gen
  /\ gen' = NoResources
  /\ UNCHANGED <<storeVars, watcherVars, resourcesCh, envoy, missed, panicked,
                 faults>>

\* Mutant: the stream is answered once.
EnvoyFetchesOnce ==
  /\ snapshot # NoResources /\ envoy = NoResources
  /\ envoy' = snapshot
  /\ UNCHANGED <<storeVars, watcherVars, generatorVars, missed, panicked, faults>>

\* Envoy's stream is answered from the snapshot cache.
EnvoyFetches ==
  /\ snapshot # NoResources /\ envoy # snapshot
  /\ envoy' = snapshot
  /\ UNCHANGED <<storeVars, watcherVars, generatorVars, missed, panicked, faults>>

-----------------------------------------------------------------------------
Watcher ==
  \/ StateVersionChanged \/ QueryProtections \/ QueryIngresses \/ QueryUpstreams
  \/ \E h \in Hosts : QueryPorts(h)
  \/ QueriesDone \/ BuildResources \/ SendResources \/ BuildPanics

Generator == ReceiveResources \/ SetSnapshot

Fault == GetStateVersionFails \/ ListProtectionsFails \/ Restart

Own == Watcher \/ Generator \/ EnvoyFetches \/ Fault

Next == StoreNext \/ Own

Spec == Init /\ [][Next]_vars

\* The Go scheduler runs both goroutines, Envoy keeps its stream open, and
\* the failures are finitely many; nothing obliges the store's clients.
Fairness ==
  /\ WF_vars(Watcher) /\ WF_vars(Generator) /\ WF_vars(EnvoyFetches)

FairSpec == Spec /\ Fairness

-----------------------------------------------------------------------------
(* What the gateway must provide.                                          *)

\* The state of the watcher, the generator, the cache and Envoy is well
\* formed; in particular the channel of cp.go holds one item at most.
TypeOK ==
  /\ StoreTypeOK
  /\ pc \in {"sleep", "send"} \cup Listing
  /\ stateVersion \in Nat
  /\ list \in Lists /\ todo \subseteq Listed(list)
  /\ todo # {} => pc = "ports"
  /\ built \in Resources /\ gen \in Resources /\ snapshot \in Resources
  /\ envoy \in Resources
  /\ resourcesCh \in Seq(Resources) /\ Len(resourcesCh) <= ResourcesChCap
  /\ missed \in BOOLEAN /\ panicked \in BOOLEAN /\ faults \in 0..MaxFaults

\* By the tables d, host h is protected by r: r listens on the proxy port of
\* a container port of h, with the id of h, the WAF filter and the desired
\* state of h, and forwards to every address of the upstream on every
\* container port.
Protects(d, r, h) ==
  /\ r.listeners[h] # None /\ r.clusters[h] # None
  /\ \E row \in ContainerPortRows(d, h) : r.listeners[h].port = row.proxy
  /\ r.listeners[h].hcm.id = h /\ r.listeners[h].hcm.xproc = "ext_proc"
  /\ r.listeners[h].hcm.hops = d.desired[h]
  /\ r.clusters[h] = Keys(d.endpoints[d.ingresses[h]])
                       \X {row.number : row \in ContainerPortRows(d, h)}

\* r is the configuration for the tables d: every host that is switched on
\* and has a container port is protected, and no host is listened for but
\* one that is switched on.
InSync(d, r) ==
  \A h \in Hosts :
    /\ d.modes[h] = "ON" /\ ContainerPortRows(d, h) # {} => Protects(d, r, h)
    /\ r.listeners[h] # None => d.modes[h] = "ON"

Idle == pc = "sleep" /\ resourcesCh = <<>> /\ gen = NoResources

\* When the watcher sleeps, nothing is under way to the cache, the recorded
\* version is the current one and its list did not fail, then the snapshot
\* is the configuration for the current tables.  ListProtections reads them
\* in several statements and the watcher never reads twice for one version:
\* this holds only because every change the configuration depends on comes
\* with a new version (triggers.sql) and the version is read first (cp.go).
FreshWhenQuiescent ==
  Idle /\ stateVersion = version /\ ~ missed => InSync(db, snapshot)

\* Envoy never goes back to resources listed under an earlier version, even
\* across restarts of the control plane: the channel keeps the order of
\* startApiIngressWatcher's sends, one generator consumes it, and a restarted
\* control plane serves nothing before it listed again.
EnvoyNeverOlder == [][envoy'.stamp >= envoy.stamp]_vars

\* No panic in buildResources: utils.go says of a protection whose
\* application has no ingress that it is skipped.
NoPanic == ~ panicked

\* A protection that is switched on for an application without an ingress
\* makes every attempt of buildResources panic.
Orphan == \E h \in Hosts : db.modes[h] = "ON" /\ db.ingresses[h] = None

\* Once the store is left alone and no failure swallowed a version, Envoy
\* ends up with the configuration for the tables and stays with it: no
\* version is skipped for good by startApiIngressWatcher, and its blocking
\* send and the generator do not wait for each other.
EnvoyConverges == <>[](missed \/ Orphan \/ InSync(db, envoy))

-----------------------------------------------------------------------------
(* The inductive invariant behind FreshWhenQuiescent and EnvoyNeverOlder.  *)

\* The recorded version is a version the store has had; while the watcher
\* works it is a real one, and the ingresses it read have not moved since.
WatcherInv ==
  /\ stateVersion <= version
  /\ pc # "sleep" => stateVersion > 0
  /\ pc = "send" => built.stamp = stateVersion
  /\ \A h \in Listed(list) :
       list[h].svc # None => list[h].svc = db.ingresses[h]

\* What was read for host h agrees with the tables.
ReadAgrees(h) ==
  /\ h \in Listed(list) <=> db.modes[h] = "ON"
  /\ h \in Listed(list) =>
       /\ list[h].mode = "ON" /\ list[h].desired = db.desired[h]
       /\ ContainerPortRows(db, h) # {} =>
            /\ pc # "ingresses" => list[h].svc = db.ingresses[h]
            /\ pc \in {"ports", "reply"} =>
                 Keys(list[h].eps) = Keys(db.endpoints[db.ingresses[h]])
            /\ pc \in {"ports", "reply"} /\ h \notin todo =>
                 /\ list[h].rows = ContainerPortRows(db, h)
                 /\ list[h].first \in ContainerPortRows(db, h)

\* As long as the version stands, so does all that was read under it.
ListInv ==
  pc \in Listing \ {"protections"} /\ stateVersion = version
    => \A h \in Hosts : ReadAgrees(h)

\* The newest resources on their way to Envoy, or already with the cache.
Latest ==
  IF resourcesCh # <<>> THEN Head(resourcesCh)
  ELSE IF gen # NoResources THEN gen ELSE snapshot

LatestInv ==
  /\ pc = "send" /\ stateVersion = version => InSync(db, built)
  /\ pc = "sleep" /\ stateVersion = version /\ ~ missed => InSync(db, Latest)

\* Resources move towards Envoy in the order of their stamps.
StampInv ==
  /\ envoy.stamp <= version
  /\ pc # "sleep" => envoy.stamp <= stateVersion
  /\ snapshot # NoResources => envoy.stamp <= snapshot.stamp
  /\ snapshot.stamp <= stateVersion
  /\ gen # NoResources =>
       /\ gen.stamp > 0 /\ gen.stamp <= stateVersion
       /\ envoy.stamp <= gen.stamp /\ snapshot.stamp <= gen.stamp
  /\ resourcesCh # <<>> =>
       /\ Head(resourcesCh).stamp > 0 /\ Head(resourcesCh).stamp <= stateVersion
       /\ envoy.stamp <= Head(resourcesCh).stamp
       /\ snapshot.stamp <= Head(resourcesCh).stamp
       /\ gen.stamp <= Head(resourcesCh).stamp

IInv == TypeOK /\ StoreInv /\ WatcherInv /\ ListInv /\ LatestInv /\ StampInv

\* Every listener of r has the port that some row of the table ports has for
\* its host.
KnownPorts(r) ==
  \A h \in Hosts :
    r.listeners[h] # None =>
      \E row \in db.ports : row.host = h /\ row.proxy = r.listeners[h].port

\* What the watcher read, what is on its way and what Envoy listens for stems
\* from rows that are in the table, however stale it is.
FromTables ==
  /\ \A h \in Listed(list) :
       list[h].first # None => list[h].first \in {r \in db.ports : r.host = h}
  /\ KnownPorts(built) /\ KnownPorts(gen) /\ KnownPorts(snapshot)
  /\ KnownPorts(envoy)
  /\ resourcesCh # <<>> => KnownPorts(Head(resourcesCh))
=============================================================================
