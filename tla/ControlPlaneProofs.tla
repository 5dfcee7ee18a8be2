------------------------ MODULE ControlPlaneProofs ------------------------
(***************************************************************************)
(* Proofs about ControlPlane, for every set of hosts, services, addresses  *)
(* and ports, any number of versions and any number of failures.           *)
(***************************************************************************)
EXTENDS ControlPlane, StoreProofs

\* Nothing built yet is well formed.
LEMMA NoResourcesType == NoResources \in Resources /\ EmptyList \in Lists
BY DEF NoResources, Resources, EmptyList, Lists

\* A listed protection with a container port has a well formed listener.
LEMMA ListenerType ==
  ASSUME NEW l \in Lists, NEW h \in Listed(l), l[h].first # None
  PROVE  [port |-> l[h].first.proxy, hcm |-> httpConnectionManager(h, l[h])]
           \in Listeners
<1>1. h \in Hosts /\ l[h] \in ListEntries
  BY DEF Listed, Lists
<1>2. l[h].first \in PortRows
  BY <1>1 DEF ListEntries, ContainerRows
<1>3. httpConnectionManager(h, l[h]) \in Managers
  BY <1>1 DEF httpConnectionManager, wafieXprocFilter, Managers, ListEntries
<1> QED BY <1>2, <1>3 DEF Listeners, PortRows

\* A listed protection has a well formed cluster.
LEMMA ClusterType ==
  ASSUME NEW l \in Lists, NEW h \in Listed(l)
  PROVE  containerPortsEndpoints(l[h]) \in LoadAssignments
<1>1. l[h] \in ListEntries
  BY DEF Listed, Lists
<1>2. Keys(l[h].eps) \subseteq IPs /\ l[h].rows \subseteq ContainerRows
  BY <1>1 DEF ListEntries, Keys
<1>3. {r.number : r \in l[h].rows} \subseteq ContainerPorts
  BY <1>2 DEF ContainerRows
<1> QED BY <1>2, <1>3 DEF containerPortsEndpoints, LoadAssignments

\* buildResources turns a well formed list into well formed resources.
LEMMA BuildResourcesType ==
  ASSUME NEW l \in Lists, NEW stamp \in Nat
  PROVE  buildResources(l, stamp) \in Resources
<1>1. listeners(l) \in [Hosts -> Listeners \cup {None}]
  BY ListenerType DEF listeners, protectionContainerPort
<1>2. clusters(l) \in [Hosts -> {None} \cup LoadAssignments]
  BY ClusterType DEF clusters
<1>3. mirroredClusters(l) \subseteq Hosts
  BY DEF mirroredClusters, Listed
<1> QED BY <1>1, <1>2, <1>3 DEF buildResources, Resources

\* Each query of ListProtections leaves the list well formed.
LEMMA QueryProtectionsType ==
  ASSUME StoreTypeOK, QueryProtections
  PROVE  list' \in Lists
BY ProtectionRowsEffect DEF QueryProtections, Modes

(* The query of the ingresses fills a list in and keeps it a list.         *)
LEMMA QueryIngressesType ==
  ASSUME StoreTypeOK, list \in Lists, QueryIngresses
  PROVE  list' \in Lists
BY WithIngressesEffect DEF QueryIngresses

(* So does the query of the upstreams, and it adds and drops no entry.     *)
LEMMA QueryUpstreamsType ==
  ASSUME StoreTypeOK, list \in Lists, QueryUpstreams
  PROVE  list' \in Lists /\ Listed(list') = Listed(list)
BY WithUpstreamsEffect DEF QueryUpstreams

(* So does the query of the ports of one entry.                            *)
LEMMA QueryPortsType ==
  ASSUME StoreTypeOK, list \in Lists, todo \subseteq Listed(list),
         NEW h \in Hosts, QueryPorts(h)
  PROVE  list' \in Lists /\ Listed(list') = Listed(list)
<1>1. PICK f \in PortsFound(db, list, h) \cup {None} :
        list' = WithPorts(list, h, PortsFound(db, list, h), f)
  BY DEF QueryPorts
<1>2. h \in Listed(list)
  BY DEF QueryPorts
<1> QED BY <1>1, <1>2, WithPortsEffect

\* The initial state is well formed.
LEMMA TypeInit == Init => TypeOK
<1> SUFFICES ASSUME Init PROVE TypeOK
  OBVIOUS
<1>1. StoreTypeOK /\ list \in Lists /\ todo \subseteq Listed(list)
  BY StoreInitInv, NoResourcesType DEF Init
<1>2. /\ built \in Resources /\ gen \in Resources /\ snapshot \in Resources
      /\ envoy \in Resources
  BY NoResourcesType DEF Init
<1>3. resourcesCh \in Seq(Resources) /\ Len(resourcesCh) <= ResourcesChCap
  BY DEF Init, ResourcesChCap
<1>4. /\ pc \in {"sleep", "send"} \cup Listing /\ stateVersion \in Nat
      /\ todo # {} => pc = "ports"
  BY DEF Init
<1>5. missed \in BOOLEAN /\ panicked \in BOOLEAN
  BY Zenon DEF Init
<1>6. faults \in 0..MaxFaults
  <2>1. faults = 0
    BY DEF Init
  <2> QED BY <2>1, BoundsAssumption DEF BoundsAssumption
<1> QED BY <1>1, <1>2, <1>3, <1>4, <1>5, <1>6 DEF TypeOK

\* Every step keeps the types: one case per action.
LEMMA TypeNext == ASSUME TypeOK, [Next]_vars PROVE TypeOK'
<1> USE DEF TypeOK, Listing, StoreTypeOK
<1>0. NoResources \in Resources /\ EmptyList \in Lists
  BY NoResourcesType
<1>1. CASE StoreNext
  BY <1>1, StatementType DEF StoreNext, watcherVars, generatorVars
<1>2. CASE StateVersionChanged
  BY Zenon, <1>2 DEF StateVersionChanged, storeVars, generatorVars, StoreTypeOK
<1>3. CASE QueryProtections
  BY <1>3, QueryProtectionsType DEF QueryProtections, storeVars, generatorVars
<1>4. CASE QueryIngresses
  BY <1>4, QueryIngressesType DEF QueryIngresses, storeVars, generatorVars
<1>5. CASE QueryUpstreams
  BY <1>5, QueryUpstreamsType
  DEF QueryUpstreams, WithoutPorts, storeVars, generatorVars
<1>6. CASE \E h \in Hosts : QueryPorts(h)
  BY <1>6, QueryPortsType DEF QueryPorts, storeVars, generatorVars
<1>7. CASE QueriesDone
  BY <1>7 DEF QueriesDone, storeVars, generatorVars
<1>8. CASE ListProtectionsFails
  <2>1. faults' \in 0..MaxFaults
    BY <1>8, BoundsAssumption DEF ListProtectionsFails, BoundsAssumption
  <2> QED BY <1>0, <1>8, <2>1
          DEF ListProtectionsFails, storeVars, generatorVars
<1>9. CASE BuildResources
  <2>1. built' \in Resources
    BY <1>9, BuildResourcesType DEF BuildResources
  <2>2. todo = {}
    BY <1>9 DEF BuildResources
  <2> QED BY <1>0, <1>9, <2>1, <2>2
          DEF BuildResources, storeVars, generatorVars
<1>10. CASE SendResources
  <2>1. /\ resourcesCh' \in Seq(Resources)
        /\ Len(resourcesCh') <= ResourcesChCap
    BY <1>10 DEF SendResources, ResourcesChCap
  <2> QED BY <1>0, <1>10, <2>1 DEF SendResources, storeVars
<1>11. ASSUME NewEnvoyControlPlane, UNCHANGED <<storeVars, envoy>>,
              panicked' \in BOOLEAN, faults' \in 0..MaxFaults
       PROVE  TypeOK'
  <2>1. /\ resourcesCh' \in Seq(Resources)
        /\ Len(resourcesCh') <= ResourcesChCap
    BY <1>11 DEF NewEnvoyControlPlane, ResourcesChCap
  <2> QED BY Zenon, <1>0, <1>11, <2>1 DEF NewEnvoyControlPlane, storeVars
<1>12. CASE BuildPanics
  BY <1>11, <1>12 DEF BuildPanics
<1>13. CASE Restart
  <2>1. faults' \in 0..MaxFaults
    BY <1>13, BoundsAssumption DEF Restart, BoundsAssumption
  <2> QED BY <1>11, <1>13, <2>1 DEF Restart
<1>14. CASE GetStateVersionFails
  <2>1. faults' \in 0..MaxFaults
    BY <1>14, BoundsAssumption DEF GetStateVersionFails, BoundsAssumption
  <2> QED BY <1>14, <2>1
          DEF GetStateVersionFails, storeVars, watcherVars, generatorVars
<1>15. CASE ReceiveResources
  <2>1. /\ gen' \in Resources /\ resourcesCh' \in Seq(Resources)
        /\ Len(resourcesCh') <= ResourcesChCap
    BY <1>15 DEF ReceiveResources, ResourcesChCap
  <2> QED BY <1>15, <2>1 DEF ReceiveResources, storeVars, watcherVars
<1>16. CASE SetSnapshot
  BY <1>0, <1>16 DEF SetSnapshot, storeVars, watcherVars
<1>17. CASE EnvoyFetches
  BY <1>17 DEF EnvoyFetches, storeVars, watcherVars, generatorVars
<1>18. CASE UNCHANGED vars
  BY <1>18 DEF vars, StoreTypeOK
<1> QED BY Zenon, <1>1, <1>2, <1>3, <1>4, <1>5, <1>6, <1>7, <1>8, <1>9, <1>10, <1>12,
           <1>13, <1>14, <1>15, <1>16, <1>17, <1>18
        DEF Next, Own, Watcher, Generator, Fault

\* Every state the gateway reaches is well formed; resourcesCh never holds
\* more than make(chan ..., 1) gives it room for.
THEOREM TypeCorrect == Spec => []TypeOK
<1>1. Init => TypeOK
  BY TypeInit
<1>2. TypeOK /\ [Next]_vars => TypeOK'
  BY TypeNext
<1> QED BY <1>1, <1>2, PTL DEF Spec


-----------------------------------------------------------------------------
(* What FreshWhenQuiescent and EnvoyNeverOlder rest on.                    *)

\* A configuration stays in sync as long as the version stands.
LEMMA InSyncStable ==
  ASSUME StoreTypeOK, StoreInv, Statement, version' = version, NEW r,
         InSync(db, r)
  PROVE  InSync(db', r)
<1> SUFFICES ASSUME NEW h \in Hosts
             PROVE  /\ db'.modes[h] = "ON" /\ ContainerPortRows(db', h) # {}
                         => Protects(db', r, h)
                    /\ r.listeners[h] # None => db'.modes[h] = "ON"
  BY DEF InSync
<1>1. /\ db'.modes[h] = db.modes[h] /\ db'.desired[h] = db.desired[h]
      /\ ContainerPortRows(db', h) = ContainerPortRows(db, h)
      /\ ContainerPortRows(db, h) # {}
           => Keys(db'.endpoints[db'.ingresses[h]])
                = Keys(db.endpoints[db.ingresses[h]])
  BY StatementCovered
<1> QED BY <1>1 DEF InSync, Protects

\* Nothing listens before the first version, and nothing has to.
LEMMA InSyncAtFirst ==
  ASSUME StoreTypeOK, FirstVersion, version = 0
  PROVE  InSync(db, NoResources)
<1>1. \A h \in Hosts : db.modes[h] = None
  BY DEF FirstVersion
<1>2. \A h \in Hosts : NoResources.listeners[h] = None
  BY DEF NoResources
<1>3. None # "ON"
  BY StoreAssumption DEF StoreAssumption
<1> QED BY <1>1, <1>2, <1>3 DEF InSync

\* A list that agrees with the tables makes a configuration in sync.
LEMMA BuildInSync ==
  ASSUME TypeOK, StoreInv, pc = "reply", \A h \in Hosts : ReadAgrees(h)
  PROVE  InSync(db, buildResources(list, stateVersion))
<1> DEFINE r == buildResources(list, stateVersion)
<1>1. r.listeners = listeners(list) /\ r.clusters = clusters(list)
  BY DEF buildResources
<1> HIDE DEF r
<1> SUFFICES ASSUME NEW h \in Hosts
             PROVE  /\ db.modes[h] = "ON" /\ ContainerPortRows(db, h) # {}
                         => Protects(db, r, h)
                    /\ r.listeners[h] # None => db.modes[h] = "ON"
  BY DEF InSync, r
<1>2. r.listeners[h] # None => db.modes[h] = "ON"
  BY <1>1 DEF listeners, ReadAgrees
<1>3. ASSUME db.modes[h] = "ON", ContainerPortRows(db, h) # {}
      PROVE  Protects(db, r, h)
  <2>1. /\ h \in Listed(list) /\ list[h].mode = "ON"
        /\ list[h].desired = db.desired[h]
        /\ list[h].svc = db.ingresses[h]
        /\ Keys(list[h].eps) = Keys(db.endpoints[db.ingresses[h]])
        /\ list[h].rows = ContainerPortRows(db, h)
        /\ list[h].first \in ContainerPortRows(db, h)
    BY <1>3 DEF ReadAgrees, TypeOK
  <2>2. list[h].first # None
    BY <2>1, RowAssumption
    DEF RowAssumption, ContainerPortRows, ListedPorts, TypeOK, StoreTypeOK, Tables
  <2>3. db.ingresses[h] # None
    BY <1>3 DEF StoreInv, ForeignKeys, ContainerPortRows, ListedPorts
  <2>4. r.listeners[h] = [port |-> list[h].first.proxy,
                          hcm |-> httpConnectionManager(h, list[h])]
    BY <1>1, <2>1, <2>2 DEF listeners, protectionContainerPort
  <2>5. r.clusters[h] = containerPortsEndpoints(list[h])
    BY <1>1, <2>1, <2>3 DEF clusters, shouldSkipProtection
  <2>6. r.listeners[h] # None /\ r.clusters[h] # None
    BY <2>1, <2>2, <2>4, <2>5, ListenerType, ClusterType, ResourceAssumption
    DEF ResourceAssumption, TypeOK
  <2>7. r.clusters[h] = Keys(db.endpoints[db.ingresses[h]])
                          \X {row.number : row \in ContainerPortRows(db, h)}
    BY <2>1, <2>5 DEF containerPortsEndpoints
  <2>8. r.listeners[h].port = list[h].first.proxy
    BY <2>4
  <2>9. r.listeners[h].hcm = httpConnectionManager(h, list[h])
    BY <2>4
  <2>10. /\ r.listeners[h].hcm.id = h /\ r.listeners[h].hcm.xproc = "ext_proc"
         /\ r.listeners[h].hcm.hops = db.desired[h]
    BY <2>1, <2>9 DEF httpConnectionManager, wafieXprocFilter
  <2> QED BY <2>1, <2>6, <2>7, <2>8, <2>10 DEF Protects
<1> QED BY <1>2, <1>3
-----------------------------------------------------------------------------
(* Each part of IInv is kept by every step.                                *)

\* Only the API server writes to the store.
LEMMA StoreFrame ==
  ASSUME [Next]_vars PROVE StoreNext \/ UNCHANGED storeVars
BY DEF Next, Own, Watcher, Generator, Fault, StateVersionChanged, QueryProtections,
       QueryIngresses, QueryUpstreams, QueryPorts, QueriesDone, BuildResources,
       SendResources, BuildPanics, ReceiveResources, SetSnapshot, EnvoyFetches,
       GetStateVersionFails, ListProtectionsFails, Restart, vars, storeVars

\* The constraints of the tables.
LEMMA StoreInvNext ==
  ASSUME TypeOK, StoreInv, [Next]_vars PROVE StoreInv'
<1>1. CASE StoreNext
  BY <1>1, StatementInv DEF StoreNext, TypeOK
<1>2. CASE UNCHANGED storeVars
  BY <1>2 DEF storeVars, StoreInv, ForeignKeys, PortKeys, FirstVersion, PortRow
<1> QED BY <1>1, <1>2, StoreFrame

\* WatcherInv: the version only grows, and ingresses do not move.
LEMMA WatcherInvNext ==
  ASSUME TypeOK, WatcherInv, [Next]_vars PROVE WatcherInv'
<1> USE DEF WatcherInv
<1>0. version \in Nat /\ stateVersion \in Nat
  BY DEF TypeOK, StoreTypeOK
<1>1. CASE StoreNext
  <2>1. /\ version' \in Nat /\ version' >= version
        /\ \A h \in Hosts : db.ingresses[h] # None
                              => db'.ingresses[h] = db.ingresses[h]
    BY <1>1, StatementMonotonic DEF StoreNext, TypeOK
  <2> QED BY <1>0, <1>1, <2>1 DEF StoreNext, watcherVars, Listed
<1>2. CASE StateVersionChanged
  BY <1>0, <1>2 DEF StateVersionChanged, storeVars
<1>3. CASE QueryProtections
  <2>1. \A h \in Hosts : list'[h] # None => list'[h].svc = None
    BY <1>3 DEF QueryProtections, ProtectionRows
  <2> QED BY <1>3, <2>1 DEF QueryProtections, storeVars, Listed
<1>4. CASE QueryIngresses
  <2>1. \A h \in Hosts : list'[h] # None => list'[h].svc = db.ingresses[h]
    BY <1>4 DEF QueryIngresses, WithIngresses, TypeOK, Lists, Listed, ListEntries
  <2> QED BY <1>4, <2>1 DEF QueryIngresses, storeVars, Listed
<1>5. CASE QueryUpstreams
  <2>1. \A h \in Listed(list') : h \in Listed(list) /\ list'[h].svc = list[h].svc
    BY Zenon, <1>5 DEF QueryUpstreams, WithUpstreams, TypeOK, Lists, Listed, ListEntries
  <2> QED BY <1>5, <2>1 DEF QueryUpstreams, storeVars
<1>6. CASE \E h \in Hosts : QueryPorts(h)
  <2> PICK h \in Hosts : QueryPorts(h)
    BY <1>6
  <2>1. Listed(list') = Listed(list)
    BY QueryPortsType DEF TypeOK
  <2>2. \A x \in Listed(list') : list'[x].svc = list[x].svc
    BY <2>1 DEF QueryPorts, WithPorts, TypeOK, Lists, Listed, ListEntries
  <2> QED BY <2>1, <2>2 DEF QueryPorts, storeVars
<1>7. CASE QueriesDone
  BY <1>7 DEF QueriesDone, storeVars
<1>8. CASE ListProtectionsFails
  BY <1>8 DEF ListProtectionsFails, storeVars, EmptyList, Listed
<1>9. CASE BuildResources
  BY <1>9 DEF BuildResources, buildResources, storeVars, EmptyList, Listed
<1>10. CASE SendResources
  BY <1>10 DEF SendResources, storeVars
<1>11. CASE BuildPanics \/ Restart
  BY <1>0, <1>11 DEF BuildPanics, Restart, NewEnvoyControlPlane, storeVars,
                     EmptyList, Listed
<1>12. CASE UNCHANGED <<storeVars, watcherVars>>
  BY <1>12 DEF storeVars, watcherVars
<1>13. CASE GetStateVersionFails \/ Generator \/ EnvoyFetches \/ UNCHANGED vars
  BY <1>12, <1>13 DEF GetStateVersionFails, Generator, ReceiveResources,
                      SetSnapshot, EnvoyFetches, vars, storeVars, watcherVars
<1> QED BY <1>1, <1>2, <1>3, <1>4, <1>5, <1>6, <1>7, <1>8, <1>9, <1>10, <1>11,
           <1>13 DEF Next, Own, Watcher, Fault

\* ListInv: a statement that would invalidate what was read changes the
\* version; a query reads what is there.
LEMMA ListInvNext ==
  ASSUME TypeOK, StoreInv, WatcherInv, ListInv, [Next]_vars PROVE ListInv'
<1>0. version \in Nat /\ stateVersion \in Nat
  BY DEF TypeOK, StoreTypeOK
<1> SUFFICES ASSUME (pc \in Listing \ {"protections"})', stateVersion' = version',
                    NEW h \in Hosts
             PROVE  ReadAgrees(h)'
  BY DEF ListInv
<1> USE DEF Listing
<1>1. CASE StoreNext
  <2>1. version' >= version /\ version' \in Nat
    BY <1>1, StatementMonotonic DEF StoreNext, TypeOK
  <2>2. /\ UNCHANGED <<pc, stateVersion, list, todo>>
        /\ version' = version /\ stateVersion = version
    BY <1>0, <1>1, <2>1 DEF StoreNext, watcherVars, WatcherInv
  <2>3. ReadAgrees(h)
    BY <2>2 DEF ListInv
  <2>4. /\ db'.modes[h] = db.modes[h] /\ db'.desired[h] = db.desired[h]
        /\ ContainerPortRows(db', h) = ContainerPortRows(db, h)
        /\ ContainerPortRows(db, h) # {}
             => /\ db'.ingresses[h] = db.ingresses[h]
                /\ Keys(db'.endpoints[db'.ingresses[h]])
                     = Keys(db.endpoints[db.ingresses[h]])
    BY <1>1, <2>2, StatementCovered DEF StoreNext, TypeOK
  <2> QED BY <2>2, <2>3, <2>4 DEF ReadAgrees
<1>2. CASE QueryProtections
  <2>1. pc' = "ingresses" /\ db' = db
    BY <1>2 DEF QueryProtections, storeVars
  <2> DEFINE e == [mode |-> db.modes[h], desired |-> db.desired[h], svc |-> None,
                   eps |-> [ip \in IPs |-> None], mirrored |-> FALSE,
                   rows |-> {}, first |-> None]
  <2>2. list'[h] = IF db.modes[h] \notin {"ON"} THEN None ELSE e
    BY <1>2 DEF QueryProtections, ProtectionRows
  <2>3. list' \in Lists
    BY <1>2, QueryProtectionsType DEF TypeOK
  <2>4. h \in Listed(list') <=> db.modes[h] = "ON"
    <3>1. db.modes[h] = "ON" => e \in ListEntries
      BY DEF ListEntries, TypeOK, StoreTypeOK, Tables, Modes, Endpoints
    <3>2. db.modes[h] = "ON" => e # None
      BY Zenon, <3>1, EntryAssumption DEF EntryAssumption
    <3> QED BY <2>2, <3>2 DEF Listed
  <2>5. h \in Listed(list') => list'[h].mode = "ON" /\ list'[h].desired = db.desired[h]
    BY <2>2, <2>4
  <2> QED BY <2>1, <2>4, <2>5 DEF ReadAgrees
<1>3. CASE QueryIngresses
  <2>1. /\ pc = "ingresses" /\ pc' = "upstreams" /\ db' = db /\ todo' = todo
        /\ version' = version /\ stateVersion' = stateVersion
    BY <1>3 DEF QueryIngresses, storeVars
  <2>2. ReadAgrees(h)
    BY <2>1 DEF ListInv
  <2>3. list' \in Lists
    BY <1>3, QueryIngressesType DEF TypeOK
  <2>4. list'[h] = IF h \notin Listed(list) THEN None
                   ELSE [list[h] EXCEPT !.svc = db.ingresses[h]]
    BY <1>3 DEF QueryIngresses, WithIngresses
  <2>5. h \in Listed(list) => list[h] \in ListEntries
    BY DEF TypeOK, Lists, Listed
  <2>6. h \in Listed(list) => [list[h] EXCEPT !.svc = db.ingresses[h]] \in ListEntries
    BY <2>5 DEF ListEntries, TypeOK, StoreTypeOK, Tables
  <2>7. h \in Listed(list') <=> h \in Listed(list)
    BY <2>4, <2>6, EntryAssumption DEF Listed, EntryAssumption
  <2>8. h \in Listed(list) =>
          /\ list'[h].mode = list[h].mode /\ list'[h].desired = list[h].desired
          /\ list'[h].svc = db.ingresses[h]
    BY <2>4, <2>5 DEF ListEntries
  <2> QED BY <2>1, <2>2, <2>7, <2>8 DEF ReadAgrees
<1>4. CASE QueryUpstreams
  <2>1. /\ pc = "upstreams" /\ pc' = "ports" /\ db' = db
        /\ version' = version /\ stateVersion' = stateVersion
        /\ todo' = {x \in Listed(list) : list[x].svc # None}
    BY <1>4 DEF QueryUpstreams, WithoutPorts, storeVars
  <2>2. ReadAgrees(h)
    BY <2>1 DEF ListInv
  <2>3. Listed(list') = Listed(list)
    BY <1>4, QueryUpstreamsType DEF TypeOK
  <2>4. list'[h] =
          IF h \notin Listed(list) \/ list[h].svc = None THEN list[h]
          ELSE [list[h] EXCEPT !.eps = db.endpoints[list[h].svc],
                               !.mirrored = db.mirrored[list[h].svc]]
    BY Zenon, <1>4 DEF QueryUpstreams, WithUpstreams
  <2>5. h \in Listed(list) => list[h] \in ListEntries
    BY DEF TypeOK, Lists, Listed
  <2>6. h \in Listed(list) =>
          /\ list'[h].mode = list[h].mode /\ list'[h].desired = list[h].desired
          /\ list'[h].svc = list[h].svc
          /\ list[h].svc # None => list'[h].eps = db.endpoints[list[h].svc]
    BY <2>4, <2>5 DEF ListEntries
  <2>7. ContainerPortRows(db, h) # {} => db.ingresses[h] # None
    BY DEF StoreInv, ForeignKeys, ContainerPortRows, ListedPorts
  <2> QED BY <2>1, <2>2, <2>3, <2>6, <2>7 DEF ReadAgrees
<1>5. CASE \E x \in Hosts : QueryPorts(x)
  <2> PICK x \in Hosts : QueryPorts(x)
    BY <1>5
  <2>1. /\ pc = "ports" /\ pc' = "ports" /\ db' = db /\ x \in todo
        /\ version' = version /\ stateVersion' = stateVersion
        /\ todo' = todo \ {x}
    BY DEF QueryPorts, storeVars
  <2>2. ReadAgrees(h)
    BY <2>1 DEF ListInv
  <2>3. Listed(list') = Listed(list) /\ x \in Listed(list)
    BY <2>1, QueryPortsType DEF TypeOK
  <2> DEFINE rows == PortsFound(db, list, x)
  <2>4. PICK f \in rows \cup {None} :
          /\ rows # {} => f \in rows
          /\ list' = [list EXCEPT ![x].rows = rows, ![x].first = f]
    BY Zenon DEF QueryPorts, IsFirst, WithPorts
  <2>5. CASE h # x
    <3>1. list'[h] = list[h]
      BY <2>4, <2>5 DEF TypeOK, Lists
    <3> QED BY <2>1, <2>2, <2>3, <2>5, <3>1 DEF ReadAgrees
  <2>6. CASE h = x
    <3>1. list[h] \in ListEntries
      BY <2>3, <2>6 DEF TypeOK, Lists, Listed
    <3>2. list'[h] = [list[h] EXCEPT !.rows = rows, !.first = f]
      BY <2>4, <2>6 DEF TypeOK, Lists
    <3>3. /\ list'[h].mode = list[h].mode /\ list'[h].desired = list[h].desired
          /\ list'[h].svc = list[h].svc /\ list'[h].eps = list[h].eps
          /\ list'[h].rows = rows /\ list'[h].first = f
      BY <3>1, <3>2 DEF ListEntries
    <3>4. ContainerPortRows(db, h) # {} => rows = ContainerPortRows(db, h)
      BY <2>1, <2>2, <2>3, <2>6
      DEF ReadAgrees, ContainerPortRows, ListedPorts, PortsFound
    <3>5. rows # {} => f \in rows
      BY <2>4
    <3> HIDE DEF rows
    <3> QED BY <2>1, <2>2, <2>3, <2>6, <3>3, <3>4, <3>5 DEF ReadAgrees
  <2> QED BY <2>5, <2>6
<1>6. CASE QueriesDone
  <2>1. /\ pc = "ports" /\ pc' = "reply" /\ db' = db /\ list' = list
        /\ todo = {} /\ todo' = todo
        /\ version' = version /\ stateVersion' = stateVersion
    BY <1>6 DEF QueriesDone, storeVars
  <2>2. ReadAgrees(h)
    BY <2>1 DEF ListInv
  <2> QED BY <2>1, <2>2 DEF ReadAgrees
<1>7. CASE UNCHANGED <<storeVars, watcherVars>>
  <2>1. ReadAgrees(h)
    BY <1>7 DEF ListInv, storeVars, watcherVars
  <2> QED BY <1>7, <2>1 DEF ReadAgrees, storeVars, watcherVars
<1>8. CASE GetStateVersionFails \/ Generator \/ EnvoyFetches \/ UNCHANGED vars
  BY <1>7, <1>8 DEF GetStateVersionFails, Generator, ReceiveResources,
                    SetSnapshot, EnvoyFetches, vars, storeVars, watcherVars
<1>9. CASE \/ StateVersionChanged \/ BuildResources \/ SendResources
           \/ BuildPanics \/ ListProtectionsFails \/ Restart
  BY <1>9 DEF StateVersionChanged, BuildResources, SendResources, BuildPanics,
              ListProtectionsFails, Restart, NewEnvoyControlPlane
<1> QED BY <1>1, <1>2, <1>3, <1>4, <1>5, <1>6, <1>8, <1>9
        DEF Next, Own, Watcher, Fault

\* LatestInv: resources in sync stay so while the version stands, and every
\* hand-over keeps the newest ones the newest.
LEMMA LatestInvNext ==
  ASSUME TypeOK, StoreInv, WatcherInv, ListInv, LatestInv, StampInv, [Next]_vars
  PROVE  LatestInv'
<1>0. version \in Nat /\ stateVersion \in Nat
  BY DEF TypeOK, StoreTypeOK
<1>1. CASE StoreNext
  <2>1. version' >= version /\ version' \in Nat
    BY <1>1, StatementMonotonic DEF StoreNext, TypeOK
  <2>2. UNCHANGED <<pc, stateVersion, built, resourcesCh, gen, snapshot, missed>>
    BY <1>1 DEF StoreNext, watcherVars, generatorVars
  <2>3. Latest' = Latest
    BY <2>2 DEF Latest
  <2>4. stateVersion = version' => version' = version /\ stateVersion = version
    BY <1>0, <2>1 DEF WatcherInv
  <2>5. ASSUME version' = version, NEW r, InSync(db, r) PROVE InSync(db', r)
    BY <1>1, <2>5, InSyncStable DEF StoreNext, TypeOK
  <2> QED BY <2>2, <2>3, <2>4, <2>5 DEF LatestInv
<1>2. CASE BuildResources
  <2>1. stateVersion = version => InSync(db, buildResources(list, stateVersion))
    BY <1>2, BuildInSync DEF BuildResources, ListInv, Listing
  <2> QED BY <1>2, <2>1 DEF BuildResources, LatestInv, storeVars
<1>3. CASE SendResources
  <2>1. resourcesCh' = Append(resourcesCh, built) /\ resourcesCh = <<>>
    BY <1>3 DEF SendResources, ResourcesChCap, TypeOK
  <2>2. resourcesCh' # <<>> /\ Head(resourcesCh') = built
    BY <2>1 DEF TypeOK
  <2>3. Latest' = built
    BY <2>2 DEF Latest
  <2> QED BY <1>3, <2>3 DEF SendResources, LatestInv, storeVars
<1>4. CASE ReceiveResources
  <2>1. resourcesCh' = <<>> /\ gen' = Head(resourcesCh) /\ resourcesCh # <<>>
    BY <1>4 DEF ReceiveResources, ResourcesChCap, TypeOK
  <2>2. gen' # NoResources
    BY <2>1 DEF StampInv, NoResources
  <2>3. Latest' = Latest
    BY <2>1, <2>2 DEF Latest
  <2> QED BY <1>4, <2>3 DEF ReceiveResources, LatestInv, storeVars, watcherVars
<1>5. CASE SetSnapshot
  <2>1. Latest' = Latest
    BY <1>5 DEF SetSnapshot, Latest
  <2> QED BY <1>5, <2>1 DEF SetSnapshot, LatestInv, storeVars, watcherVars
<1>6. CASE BuildPanics \/ Restart
  <2>1. /\ pc' = "sleep" /\ stateVersion' = 0 /\ UNCHANGED <<db, version>>
        /\ resourcesCh' = <<>> /\ gen' = NoResources /\ snapshot' = NoResources
    BY <1>6 DEF BuildPanics, Restart, NewEnvoyControlPlane, storeVars
  <2>2. Latest' = NoResources
    BY <2>1 DEF Latest
  <2>3. version = 0 => InSync(db, NoResources)
    BY InSyncAtFirst DEF TypeOK, StoreInv
  <2> QED BY <2>1, <2>2, <2>3 DEF LatestInv
<1>7. CASE \/ StateVersionChanged \/ QueryProtections \/ QueryIngresses
           \/ QueryUpstreams \/ (\E h \in Hosts : QueryPorts(h)) \/ QueriesDone
           \/ ListProtectionsFails
  BY <1>7 DEF StateVersionChanged, QueryProtections, QueryIngresses,
              QueryUpstreams, QueryPorts, QueriesDone, ListProtectionsFails,
              LatestInv
<1>8. CASE GetStateVersionFails \/ EnvoyFetches \/ UNCHANGED vars
  <2>1. UNCHANGED <<db, version, pc, stateVersion, built, resourcesCh, gen,
                    snapshot, missed>>
    BY <1>8 DEF GetStateVersionFails, EnvoyFetches, vars, storeVars, watcherVars,
                generatorVars
  <2>2. Latest' = Latest
    BY <2>1 DEF Latest
  <2> QED BY <2>1, <2>2 DEF LatestInv
<1> QED BY <1>1, <1>2, <1>3, <1>4, <1>5, <1>6, <1>7, <1>8
        DEF Next, Own, Watcher, Generator, Fault

\* StampInv, and with it the step EnvoyNeverOlder allows.
LEMMA StampInvNext ==
  ASSUME TypeOK, TypeOK', WatcherInv, StampInv, [Next]_vars
  PROVE  StampInv' /\ envoy'.stamp >= envoy.stamp
<1>0. /\ version \in Nat /\ stateVersion \in Nat /\ NoResources.stamp = 0
      /\ version' \in Nat /\ stateVersion' \in Nat
      /\ \A r \in Resources : r.stamp \in Nat
  BY DEF TypeOK, StoreTypeOK, NoResources, Resources
<1> DEFINE head == Head(resourcesCh)
<1>00. /\ envoy \in Resources /\ snapshot \in Resources /\ gen \in Resources
       /\ built \in Resources /\ (resourcesCh # <<>> => head \in Resources)
  BY DEF TypeOK
<1>1. CASE StoreNext
  <2>1. version' >= version
    BY <1>1, StatementMonotonic DEF StoreNext, TypeOK
  <2> QED BY <1>0, <1>00, <1>1, <2>1
          DEF StoreNext, StampInv, watcherVars, generatorVars
<1>2. CASE StateVersionChanged
  BY <1>0, <1>00, <1>2 DEF StateVersionChanged, StampInv, WatcherInv, storeVars,
                           generatorVars
<1>3. CASE SendResources
  <2>1. resourcesCh' = Append(resourcesCh, built) /\ resourcesCh = <<>>
    BY <1>3 DEF SendResources, ResourcesChCap, TypeOK
  <2>2. resourcesCh' # <<>> /\ Head(resourcesCh') = built
    BY <2>1 DEF TypeOK
  <2>3. built.stamp = stateVersion /\ stateVersion > 0 /\ envoy.stamp <= stateVersion
    BY <1>3 DEF SendResources, WatcherInv, StampInv
  <2> QED BY <1>0, <1>00, <1>3, <2>2, <2>3 DEF SendResources, StampInv, storeVars
<1>4. CASE ReceiveResources
  <2>1. resourcesCh' = <<>> /\ gen' = head /\ resourcesCh # <<>>
    BY <1>4 DEF ReceiveResources, ResourcesChCap, TypeOK
  <2> QED BY <1>0, <1>00, <1>4, <2>1
          DEF ReceiveResources, StampInv, storeVars, watcherVars
<1>5. CASE SetSnapshot
  BY <1>0, <1>00, <1>5 DEF SetSnapshot, StampInv, storeVars, watcherVars
<1>6. CASE EnvoyFetches
  BY <1>0, <1>00, <1>6 DEF EnvoyFetches, StampInv, WatcherInv, storeVars,
                           watcherVars, generatorVars
<1>7. CASE BuildPanics \/ Restart
  BY <1>0, <1>00, <1>7 DEF BuildPanics, Restart, NewEnvoyControlPlane, StampInv,
                           storeVars
<1>8. CASE \/ QueryProtections \/ QueryIngresses \/ QueryUpstreams
           \/ (\E h \in Hosts : QueryPorts(h)) \/ QueriesDone \/ BuildResources
           \/ ListProtectionsFails \/ GetStateVersionFails \/ UNCHANGED vars
  <2>1. /\ UNCHANGED <<version, stateVersion, resourcesCh, gen, snapshot, envoy>>
        /\ pc' # "sleep" => pc # "sleep"
    BY <1>8 DEF QueryProtections, QueryIngresses, QueryUpstreams, QueryPorts,
                QueriesDone, BuildResources, ListProtectionsFails,
                GetStateVersionFails, vars, storeVars, watcherVars, generatorVars
  <2> QED BY <1>0, <1>00, <2>1 DEF StampInv
<1> QED BY <1>1, <1>2, <1>3, <1>4, <1>5, <1>6, <1>7, <1>8
        DEF Next, Own, Watcher, Generator, Fault

-----------------------------------------------------------------------------
\* IInv holds of the initial state and every step keeps it.
LEMMA IInvInvariant == Spec => []IInv
<1>1. Init => IInv
  <2> SUFFICES ASSUME Init PROVE IInv
    OBVIOUS
  <2>1. TypeOK /\ StoreTypeOK /\ StoreInv
    BY TypeInit, StoreInitInv DEF Init
  <2>2. /\ pc = "sleep" /\ stateVersion = 0 /\ version = 0
        /\ resourcesCh = <<>> /\ gen = NoResources /\ snapshot = NoResources
        /\ envoy = NoResources /\ list = EmptyList
    BY DEF Init, StoreInit
  <2>3. NoResources.stamp = 0
    BY DEF NoResources
  <2>4. WatcherInv
    BY <2>2 DEF WatcherInv, Listed, EmptyList
  <2>5. ListInv
    BY <2>2 DEF ListInv, Listing
  <2>6. LatestInv
    BY <2>1, <2>2, InSyncAtFirst DEF LatestInv, Latest, StoreInv
  <2>7. StampInv
    BY <2>2, <2>3 DEF StampInv
  <2> QED BY <2>1, <2>4, <2>5, <2>6, <2>7 DEF IInv
<1>2. IInv /\ [Next]_vars => IInv'
  BY TypeNext, StoreInvNext, WatcherInvNext, ListInvNext, LatestInvNext,
     StampInvNext DEF IInv
<1> QED BY <1>1, <1>2, PTL DEF Spec

\* A gateway at rest, with the current version recorded and listed, serves
\* the configuration for the current tables, however the statements of the
\* API server fell between the queries of ListProtections.
THEOREM Freshness == Spec => []FreshWhenQuiescent
<1>1. IInv => FreshWhenQuiescent
  <2> SUFFICES ASSUME IInv, Idle, stateVersion = version, ~ missed
               PROVE  InSync(db, snapshot)
    BY DEF FreshWhenQuiescent
  <2>1. Latest = snapshot
    BY DEF Idle, Latest
  <2> QED BY <2>1 DEF Idle, IInv, LatestInv
<1> QED BY <1>1, IInvInvariant, PTL

\* Envoy never goes back to resources of an earlier version, also when the
\* control plane restarts with an empty cache.
THEOREM NeverOlder == Spec => EnvoyNeverOlder
<1>1. IInv /\ [Next]_vars => [envoy'.stamp >= envoy.stamp]_vars
  BY TypeNext, StampInvNext DEF IInv
<1> QED BY <1>1, IInvInvariant, PTL DEF Spec, EnvoyNeverOlder

-----------------------------------------------------------------------------
(* Where the ports of the listeners come from.                             *)

\* What the watcher read stems from the table.
LEMMA ListFromTables ==
  ASSUME IInv, FromTables, [Next]_vars
  PROVE  /\ db.ports \subseteq db'.ports
         /\ \A h \in Listed(list') : list'[h].first # None
              => list'[h].first \in {r \in db'.ports : r.host = h}
<1>0. /\ StoreTypeOK /\ StoreInv /\ list \in Lists /\ todo \subseteq Listed(list)
      /\ \A h \in Listed(list) : list[h].first # None
           => list[h].first \in {r \in db.ports : r.host = h}
      /\ \A h \in Listed(list) : h \in Hosts /\ list[h] \in ListEntries
  BY DEF IInv, TypeOK, FromTables, Lists, Listed
<1>1. db.ports \subseteq db'.ports
  <2>1. CASE StoreNext
    BY <1>0, <2>1, StatementPorts DEF StoreNext, StoreInv
  <2>2. CASE UNCHANGED storeVars
    BY <2>2 DEF storeVars
  <2> QED BY <2>1, <2>2, StoreFrame
<1>2. CASE list' = list
  BY <1>0, <1>1, <1>2
<1>3. CASE QueryProtections
  <2>1. \A h \in Listed(list') : list'[h].first = None
    BY <1>3 DEF QueryProtections, ProtectionRows, Listed
  <2> QED BY <1>1, <2>1
<1>4. CASE QueryIngresses
  <2>1. \A h \in Listed(list') :
          h \in Listed(list) /\ list'[h].first = list[h].first
    BY <1>0, <1>4 DEF QueryIngresses, WithIngresses, Listed, ListEntries
  <2> QED BY <1>0, <1>1, <2>1
<1>5. CASE QueryUpstreams
  <2>1. Listed(list') = Listed(list)
    BY <1>0, <1>5, QueryUpstreamsType
  <2>2. \A h \in Listed(list) : list'[h].first = list[h].first
    BY Zenon, <1>0, <1>5 DEF QueryUpstreams, WithUpstreams, ListEntries
  <2> QED BY <1>0, <1>1, <2>1, <2>2
<1>6. ASSUME NEW h \in Hosts, QueryPorts(h)
      PROVE  \A x \in Listed(list') : list'[x].first # None
               => list'[x].first \in {r \in db'.ports : r.host = x}
  <2>1. Listed(list') = Listed(list) /\ h \in Listed(list)
    BY <1>0, <1>6, QueryPortsType DEF QueryPorts
  <2>2. PICK f \in PortsFound(db, list, h) \cup {None} :
          list' = [list EXCEPT ![h].rows = PortsFound(db, list, h), ![h].first = f]
    BY Zenon, <1>6 DEF QueryPorts, WithPorts
  <2>3. /\ list'[h].first = f
        /\ \A x \in Hosts \ {h} : list'[x] = list[x]
    BY <1>0, <2>1, <2>2 DEF Lists, ListEntries
  <2> QED BY <1>0, <1>1, <2>1, <2>3 DEF PortsFound, Listed
<1>7. CASE list' = EmptyList
  <2>1. Listed(list') = {}
    BY <1>7 DEF EmptyList, Listed
  <2> QED BY <1>1, <2>1
<1> QED
  BY <1>1, <1>2, <1>3, <1>4, <1>5, <1>6, <1>7
  DEF Next, Own, Watcher, Generator, Fault, StoreNext, StateVersionChanged,
      QueriesDone, BuildResources, SendResources, BuildPanics, ReceiveResources,
      SetSnapshot, EnvoyFetches, GetStateVersionFails, ListProtectionsFails,
      Restart, NewEnvoyControlPlane, watcherVars, vars

\* buildResources takes the port of a listener from the row that was read.
LEMMA BuildFromTables ==
  ASSUME TypeOK, FromTables PROVE KnownPorts(buildResources(list, stateVersion))
<1> DEFINE r == buildResources(list, stateVersion)
<1>1. r.listeners = listeners(list)
  BY DEF buildResources
<1> HIDE DEF r
<1> SUFFICES ASSUME NEW h \in Hosts, listeners(list)[h] # None
             PROVE  \E row \in db.ports :
                      row.host = h /\ row.proxy = listeners(list)[h].port
  BY <1>1 DEF KnownPorts, r
<1>2. /\ h \in Listed(list) /\ list[h].first # None
      /\ listeners(list)[h].port = list[h].first.proxy
  BY DEF listeners, protectionContainerPort
<1> QED BY <1>2 DEF FromTables

\* What is on its way, and what Envoy listens for, stems from the table.
LEMMA FromTablesNext == ASSUME IInv, FromTables, [Next]_vars PROVE FromTables'
<1>0. /\ TypeOK /\ KnownPorts(built) /\ KnownPorts(gen) /\ KnownPorts(snapshot)
      /\ KnownPorts(envoy)
      /\ resourcesCh # <<>> => KnownPorts(Head(resourcesCh))
  BY DEF IInv, FromTables
<1> DEFINE After(r) == \A h \in Hosts :
             r.listeners[h] # None =>
               \E row \in db'.ports : row.host = h /\ row.proxy = r.listeners[h].port
<1>1. ASSUME NEW r, KnownPorts(r) PROVE After(r)
  BY <1>1, ListFromTables DEF KnownPorts
<1>2. KnownPorts(NoResources)
  BY DEF KnownPorts, NoResources
<1>3. ASSUME built' \in {built, NoResources, buildResources(list, stateVersion)},
             gen' \in {gen, NoResources} \/ (resourcesCh # <<>> /\ gen' = Head(resourcesCh)),
             snapshot' \in {snapshot, NoResources, gen},
             envoy' \in {envoy, snapshot},
             resourcesCh' # <<>> =>
               \/ Head(resourcesCh') = built
               \/ resourcesCh # <<>> /\ Head(resourcesCh') = Head(resourcesCh)
      PROVE  FromTables'
  <2>1. KnownPorts(buildResources(list, stateVersion))
    BY <1>0, BuildFromTables
  <2> HIDE DEF After
  <2>2. built' \in {built, NoResources, buildResources(list, stateVersion)}
          => After(built')
    BY <1>0, <1>1, <1>2, <2>1
  <2>3. After(built') /\ After(gen') /\ After(snapshot') /\ After(envoy')
    BY <1>0, <1>1, <1>2, <1>3, <2>2
  <2>4. resourcesCh' # <<>> => After(Head(resourcesCh'))
    BY <1>0, <1>1, <1>3, <2>3
  <2>5. /\ KnownPorts(built)' /\ KnownPorts(gen)' /\ KnownPorts(snapshot)'
        /\ KnownPorts(envoy)'
    BY <2>3 DEF After, KnownPorts
  <2>6. resourcesCh' # <<>> => KnownPorts(Head(resourcesCh))'
    BY <2>4 DEF After, KnownPorts
  <2> QED BY <2>5, <2>6, ListFromTables DEF FromTables
<1>4. CASE SendResources
  <2>1. resourcesCh \in Seq(Resources) /\ built \in Resources /\ Len(resourcesCh) = 0
    BY <1>0, <1>4 DEF SendResources, TypeOK, ResourcesChCap
  <2>2. Head(Append(resourcesCh, built)) = built
    BY <2>1
  <2> QED BY <1>3, <1>4, <2>2 DEF SendResources
<1>5. CASE ReceiveResources
  <2>1. resourcesCh' = <<>>
    BY <1>0, <1>5 DEF ReceiveResources, TypeOK, ResourcesChCap
  <2> QED BY <1>3, <1>5, <2>1 DEF ReceiveResources, watcherVars
<1>6. CASE SetSnapshot \/ EnvoyFetches
  BY <1>3, <1>6 DEF SetSnapshot, EnvoyFetches, watcherVars, generatorVars
<1>7. CASE BuildPanics \/ Restart
  BY <1>3, <1>7 DEF BuildPanics, Restart, NewEnvoyControlPlane
<1>8. CASE BuildResources
  BY <1>3, <1>8 DEF BuildResources, generatorVars
<1>9. CASE UNCHANGED <<built, generatorVars, envoy>>
  BY <1>3, <1>9 DEF generatorVars
<1> QED
  BY <1>4, <1>5, <1>6, <1>7, <1>8, <1>9
  DEF Next, Own, Watcher, Generator, Fault, StoreNext, StateVersionChanged,
      QueryProtections, QueryIngresses, QueryUpstreams, QueryPorts, QueriesDone,
      GetStateVersionFails, ListProtectionsFails, watcherVars, vars, generatorVars

\* However stale, however often restarted: Envoy only ever listens, for a
\* host, on a proxy port that a row of the table has for that host.
THEOREM GatewayFromTables == Spec => []FromTables
<1>1. Init => FromTables
  BY DEF Init, FromTables, KnownPorts, NoResources, EmptyList, Listed
<1>2. IInv /\ FromTables /\ [Next]_vars => FromTables'
  BY FromTablesNext
<1> QED BY <1>1, <1>2, IInvInvariant, PTL DEF Spec
=============================================================================
