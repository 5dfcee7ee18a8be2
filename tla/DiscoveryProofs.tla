-------------------------- MODULE DiscoveryProofs --------------------------
(***************************************************************************)
(* Proofs about the discovery agent: its lists and requests are well       *)
(* formed, the upstream syncer makes no route, for any number of services, *)
(* changes and failures; and the container port it finds is the right one, *)
(* for every service Kubernetes accepts.                                   *)
(***************************************************************************)
EXTENDS Discovery, FiniteSetTheorems, SequenceTheorems, WellFoundedInduction,
        TLAPS

USE DEF Addresses

\* The agent starts without lists and requests.
LEMMA InitIInv == Init => IInv
<1> SUFFICES ASSUME Init PROVE IInv
  OBVIOUS
<1>1. TypeOK
  <2>1. Cardinality(request) = 0
    BY FS_EmptySet DEF Init
  <2> QED BY <2>1, DiscoveryAssumption DEF Init, TypeOK, Events
<1>2. RequestInv /\ ListsInv
  BY DEF Init, RequestInv, ListsInv
<1>3. ports = [s \in Svcs |-> ports[s]]
  BY DEF Init
<1> QED BY <1>1, <1>2, <1>3 DEF IInv

\* UpstreamRepository.Save keeps endpoints to routes.
LEMMA SaveUpstreamEffect ==
  ASSUME TypeOK, NEW s \in Svcs, NEW ips \in Addresses, SaveUpstream(s, ips)
  PROVE  /\ routes' = routes \cup {s} /\ routes' \subseteq Svcs
         /\ stored' \in [Svcs -> Addresses]
         /\ \A t \in Svcs : stored'[t] # {} => t \in routes' \/ stored[t] # {}
  BY DEF SaveUpstream, TypeOK

\* The informer's and the syncer's variables when neither takes a step.
LEMMA SyncerKept ==
  ASSUME IInv, UNCHANGED syncer, routes \subseteq routes'
  PROVE  /\ ListsInv' /\ informer' \in [Svcs -> Addresses]
         /\ epsCh' \in Seq(Events) /\ Len(epsCh') <= EpsChCap
         /\ updaterCh' \in Seq(SUBSET Svcs) /\ Len(updaterCh') <= UpdaterChCap
         /\ svcFqdnCache' \subseteq Svcs
  BY DEF IInv, TypeOK, syncer, ListsInv

\* Changes in the cluster concern the agent only when it looks.
LEMMA ClusterStep ==
  ASSUME IInv, NEW s \in Svcs,
         \/ NewIngress(s) \/ IngressDeleted(s)
         \/ \E ips \in Addresses : SliceChanges(s, ips)
         \/ \E spec \in Specs : ServiceChanges(s, spec)
  PROVE  IInv'
<1>1. UNCHANGED <<syncer, request, routes, stored, ports, faults>>
  BY DEF NewIngress, IngressDeleted, SliceChanges, ServiceChanges
<1>2. changes' \in 0..MaxChanges
  BY DiscoveryAssumption
  DEF IInv, TypeOK, NewIngress, IngressDeleted, SliceChanges, ServiceChanges
<1>3. /\ ingresses' \subseteq Svcs /\ services' \in [Svcs -> Specs]
      /\ slices' \in [Svcs -> Addresses]
  BY DEF IInv, TypeOK, NewIngress, IngressDeleted, SliceChanges, ServiceChanges
<1>4. TypeOK'
  BY Zenon, <1>1, <1>2, <1>3, SyncerKept DEF IInv, TypeOK
<1>5. RequestInv' /\ ListsInv'
  BY <1>1, SyncerKept DEF IInv, RequestInv
<1> QED BY <1>1, <1>4, <1>5 DEF IInv

\* The endpoint slice informer queues slices, and no list of services.
LEMMA DeliverStep ==
  ASSUME IInv, NEW s \in Svcs, DeliverSlice(s)
  PROVE  IInv'
<1>1. informer' \in [Svcs -> Addresses]
  BY Zenon DEF IInv, TypeOK, DeliverSlice
<1>2. epsCh' \in Seq(Events) /\ Len(epsCh') <= EpsChCap
  <2>1. [svc |-> s, ips |-> informer'[s]] \in Events
    BY <1>1 DEF Events
  <2> QED BY <2>1, DiscoveryAssumption DEF IInv, TypeOK, DeliverSlice
<1>3. UNCHANGED <<cluster, updaterCh, svcFqdnCache, request, routes, stored,
                  ports, changes, faults>>
  BY DEF DeliverSlice
<1>4. TypeOK'
  BY <1>1, <1>2, <1>3 DEF IInv, TypeOK, cluster
<1>5. RequestInv' /\ ListsInv'
  BY <1>3 DEF IInv, RequestInv, ListsInv
<1> QED BY <1>3, <1>4, <1>5 DEF IInv

\* The upstream syncer saves endpoints of services its list knows of, which are
\* routes already.
LEMMA SliceStep ==
  ASSUME IInv, SyncSlice
  PROVE  IInv' /\ routes' = routes
<1> DEFINE event == Head(epsCh)
<1>1. event \in Events /\ epsCh' \in Seq(Events) /\ Len(epsCh') <= EpsChCap
  BY DiscoveryAssumption DEF IInv, TypeOK, SyncSlice
<1>2. event.svc \in Svcs /\ event.ips \in Addresses
  BY <1>1 DEF Events
<1>3. /\ routes' = routes /\ stored' \in [Svcs -> Addresses]
      /\ \A t \in Svcs : stored'[t] # {} => t \in routes
      /\ faults' \in 0..MaxFaults
  <2>1. CASE shouldProtect(event.svc) /\ SaveUpstream(event.svc, event.ips) /\ UNCHANGED faults
    <3>1. event.svc \in routes
      BY <2>1 DEF shouldProtect, IInv, ListsInv
    <3>2. /\ routes' = routes \cup {event.svc} /\ stored' \in [Svcs -> Addresses]
          /\ \A t \in Svcs : stored'[t] # {} => t \in routes' \/ stored[t] # {}
      BY <1>2, <2>1, SaveUpstreamEffect DEF IInv
    <3> QED BY <2>1, <3>1, <3>2 DEF IInv, TypeOK
  <2>2. CASE UNCHANGED <<routes, stored>>
             /\ (UNCHANGED faults \/ (faults < MaxFaults /\ faults' = faults + 1))
    BY <2>2, DiscoveryAssumption DEF IInv, TypeOK
  <2> QED BY <2>1, <2>2 DEF SyncSlice
<1>4. UNCHANGED <<cluster, informer, updaterCh, svcFqdnCache, request, ports, changes>>
  BY DEF SyncSlice
<1>5. TypeOK'
  BY <1>1, <1>3, <1>4 DEF IInv, TypeOK, cluster
<1>6. RequestInv' /\ ListsInv'
  BY <1>3, <1>4 DEF IInv, RequestInv, ListsInv
<1> QED BY <1>3, <1>4, <1>5, <1>6 DEF IInv

\* The list of services is one the API server gave; another is asked for.
LEMMA ListsStep ==
  ASSUME IInv, SyncCache \/ runUpstreamSvcFqdnCache
  PROVE  IInv' /\ routes' = routes
<1>1. UNCHANGED <<cluster, informer, epsCh, request, routes, stored, ports,
                  changes, faults>>
  BY DEF SyncCache, runUpstreamSvcFqdnCache
<1>2. CASE SyncCache
  <2>1. /\ updaterCh' \in Seq(SUBSET Svcs) /\ Len(updaterCh') <= UpdaterChCap
        /\ svcFqdnCache' \subseteq Svcs
    BY <1>2, DiscoveryAssumption DEF IInv, TypeOK, SyncCache
  <2>2. ListsInv'
    <3>1. svcFqdnCache' \subseteq routes
      BY <1>2 DEF IInv, TypeOK, SyncCache, ListsInv
    <3>2. \A i \in DOMAIN updaterCh' : updaterCh'[i] = updaterCh[i + 1] /\ i + 1 \in DOMAIN updaterCh
      BY <1>2 DEF IInv, TypeOK, SyncCache
    <3> QED BY <1>1, <3>1, <3>2 DEF IInv, ListsInv
  <2>3. TypeOK' /\ RequestInv'
    BY <1>1, <2>1 DEF IInv, TypeOK, RequestInv, cluster
  <2> QED BY <1>1, <2>2, <2>3 DEF IInv
<1>3. CASE runUpstreamSvcFqdnCache
  <2>1. /\ updaterCh' \in Seq(SUBSET Svcs) /\ Len(updaterCh') <= UpdaterChCap
        /\ svcFqdnCache' \subseteq Svcs
    BY <1>3, DiscoveryAssumption DEF IInv, TypeOK, runUpstreamSvcFqdnCache
  <2>2. ListsInv'
    <3>1. \A i \in DOMAIN updaterCh' :
             updaterCh'[i] = routes \/ (i \in DOMAIN updaterCh /\ updaterCh'[i] = updaterCh[i])
      BY <1>3 DEF IInv, TypeOK, runUpstreamSvcFqdnCache
    <3> QED BY <1>1, <1>3, <3>1 DEF IInv, ListsInv, runUpstreamSvcFqdnCache
  <2>3. TypeOK' /\ RequestInv'
    BY <1>1, <2>1 DEF IInv, TypeOK, RequestInv, cluster
  <2> QED BY <1>1, <2>2, <2>3 DEF IInv
<1> QED BY <1>1, <1>2, <1>3

\* What normalize and createUpstream leave alone, and the request they make.
LEMMA RequestStep ==
  ASSUME IInv, UNCHANGED <<cluster, syncer, routes, stored, ports, changes>>,
         UNCHANGED faults \/ (faults < MaxFaults /\ faults' = faults + 1),
         NEW s \in Svcs, NEW port, NEW ips \in Addresses,
         NEW next \in {"endpoints", "send"},
         port = NotFound => ips = {} /\ next = "send",
         request' = {[svc |-> s, port |-> port, ips |-> ips, next |-> next]}
  PROVE  IInv'
<1>1. faults' \in 0..MaxFaults
  BY DiscoveryAssumption DEF IInv, TypeOK
<1>2. Cardinality(request') <= 1
  <2>1. Cardinality(request') = 1
    BY Zenon, FS_Singleton
  <2> QED BY <2>1
<1>3. \A r \in request' : /\ r.svc = s /\ r.port = port /\ r.ips = ips /\ r.next = next
                          /\ r = [svc |-> r.svc, port |-> r.port, ips |-> r.ips, next |-> r.next]
  OBVIOUS
<1>4. TypeOK'
  <2>1. \A r \in request' : /\ r.svc \in Svcs /\ r.ips \in Addresses
                            /\ r.next \in {"endpoints", "send"}
                            /\ r.port = NotFound => r.ips = {}
    BY <1>3
  <2> QED BY <1>1, <1>2, <2>1, SyncerKept DEF IInv, TypeOK, cluster
<1>5. RequestInv'
  BY <1>3 DEF RequestInv
<1> QED BY <1>4, <1>5, SyncerKept DEF IInv

\* The request discoverEndpoints makes of one.
LEMMA WithEndpoints ==
  ASSUME NEW r, NEW found,
         r = [svc |-> r.svc, port |-> r.port, ips |-> r.ips, next |-> r.next]
  PROVE  /\ [r EXCEPT !.ips = found, !.next = "send"]
              = [svc |-> r.svc, port |-> r.port, ips |-> found, next |-> "send"]
         /\ [r EXCEPT !.next = "send"]
              = [svc |-> r.svc, port |-> r.port, ips |-> r.ips, next |-> "send"]
<1>1. r \in [svc: {r.svc}, port: {r.port}, ips: {r.ips}, next: {r.next}]
  OBVIOUS
<1> DEFINE a == [r EXCEPT !.ips = found, !.next = "send"]
           b == [r EXCEPT !.next = "send"]
<1>2. /\ a \in [svc: {r.svc}, port: {r.port}, ips: {found}, next: {"send"}]
      /\ b \in [svc: {r.svc}, port: {r.port}, ips: {r.ips}, next: {"send"}]
  BY Zenon, <1>1
<1> HIDE DEF a, b
<1>3. /\ a = [svc |-> r.svc, port |-> r.port, ips |-> found, next |-> "send"]
      /\ b = [svc |-> r.svc, port |-> r.port, ips |-> r.ips, next |-> "send"]
  BY <1>2
<1> QED BY <1>3 DEF a, b

\* normalize: endpoints are looked up after a container port was found.
LEMMA NormalizeStep ==
  ASSUME IInv, discoverEndpoints \/ \E s \in Svcs : discoverContainerPorts(s)
  PROVE  IInv' /\ routes' = routes
<1>1. ASSUME NEW s \in Svcs, discoverContainerPorts(s)
      PROVE  IInv' /\ routes' = routes
  <2> DEFINE found == getContainerPortBySvcPort(services[s],
                        SlicePorts(services[s], Pod, slices[s]), Backend[s])
             next == IF found = NotFound THEN "send" ELSE "endpoints"
  <2>1. UNCHANGED <<cluster, syncer, routes, stored, ports, changes>>
    BY <1>1 DEF discoverContainerPorts
  <2>2. CASE request' = {[svc |-> s, port |-> found, ips |-> {}, next |-> next]}
             /\ UNCHANGED faults
    <3> HIDE DEF found
    <3> QED BY Zenon, <2>1, <2>2, RequestStep
  <2>3. CASE request' = {[svc |-> s, port |-> NotFound, ips |-> {}, next |-> "send"]}
             /\ faults < MaxFaults /\ faults' = faults + 1
    BY Zenon, <2>1, <2>3, RequestStep
  <2> QED BY <1>1, <2>2, <2>3 DEF discoverContainerPorts
<1>2. CASE discoverEndpoints
  <2>1. PICK r \in request :
          /\ r.next = "endpoints"
          /\ \/ request' = {[r EXCEPT !.ips = slices[r.svc], !.next = "send"]}
                /\ UNCHANGED faults
             \/ request' = {[r EXCEPT !.next = "send"]}
                /\ faults < MaxFaults /\ faults' = faults + 1
          /\ UNCHANGED <<cluster, syncer, routes, stored, ports, changes>>
    BY Zenon, <1>2 DEF discoverEndpoints
  <2>2. /\ r = [svc |-> r.svc, port |-> r.port, ips |-> r.ips, next |-> r.next]
        /\ r.svc \in Svcs /\ r.ips \in Addresses /\ r.port # NotFound
    BY Zenon, <2>1 DEF IInv, TypeOK, RequestInv
  <2>3. slices[r.svc] \in Addresses
    BY <2>2 DEF IInv, TypeOK
  <2>4. \/ request' = {[svc |-> r.svc, port |-> r.port, ips |-> slices[r.svc], next |-> "send"]}
        \/ request' = {[svc |-> r.svc, port |-> r.port, ips |-> r.ips, next |-> "send"]}
    <3>1. /\ [r EXCEPT !.ips = slices[r.svc], !.next = "send"]
               = [svc |-> r.svc, port |-> r.port, ips |-> slices[r.svc], next |-> "send"]
          /\ [r EXCEPT !.next = "send"]
               = [svc |-> r.svc, port |-> r.port, ips |-> r.ips, next |-> "send"]
      BY Zenon, <2>2, WithEndpoints
    <3> QED BY Zenon, <2>1, <3>1
  <2> QED BY <2>1, <2>2, <2>3, <2>4, RequestStep
<1> QED BY <1>1, <1>2

\* CreateRoute makes a route of the request's service.
LEMMA CreateStep ==
  ASSUME IInv, CreateRoute
  PROVE  IInv' /\ routes \subseteq routes' /\ routes' \ routes \subseteq {r.svc : r \in request}
<1>1. PICK r \in request :
        /\ r.next = "send" /\ request' = {}
        /\ \/ /\ SaveUpstream(r.svc, r.ips) /\ UNCHANGED faults
              /\ ports' = [ports EXCEPT ![r.svc] = @ \cup ({r.port} \ {NotFound})]
           \/ /\ faults < MaxFaults /\ faults' = faults + 1
              /\ UNCHANGED <<routes, stored, ports>>
        /\ UNCHANGED <<cluster, syncer, changes>>
  BY DEF CreateRoute
<1>2. r.svc \in Svcs /\ r.ips \in Addresses
  BY Zenon, <1>1 DEF IInv, TypeOK
<1>3. /\ routes \subseteq routes' /\ routes' \ routes \subseteq {r.svc}
      /\ routes' \subseteq Svcs /\ stored' \in [Svcs -> Addresses]
      /\ ports' = [s \in Svcs |-> ports'[s]]
      /\ \A s \in Svcs : stored'[s] # {} \/ ports'[s] # {} => s \in routes'
      /\ faults' \in 0..MaxFaults
  <2>1. CASE /\ SaveUpstream(r.svc, r.ips) /\ UNCHANGED faults
             /\ ports' = [ports EXCEPT ![r.svc] = @ \cup ({r.port} \ {NotFound})]
    <3>1. /\ routes' = routes \cup {r.svc} /\ routes' \subseteq Svcs
          /\ stored' \in [Svcs -> Addresses]
          /\ \A t \in Svcs : stored'[t] # {} => t \in routes' \/ stored[t] # {}
      BY <1>2, <2>1, SaveUpstreamEffect DEF IInv
    <3>2. /\ ports' = [s \in Svcs |-> ports'[s]]
          /\ \A s \in Svcs : s # r.svc => ports'[s] = ports[s]
      BY Zenon, <1>2, <2>1 DEF IInv
    <3> QED BY <2>1, <3>1, <3>2 DEF IInv, TypeOK
  <2>2. CASE /\ faults < MaxFaults /\ faults' = faults + 1
             /\ UNCHANGED <<routes, stored, ports>>
    BY <2>2, DiscoveryAssumption DEF IInv, TypeOK
  <2> QED BY <1>1, <2>1, <2>2
<1>4. TypeOK'
  <2>1. Cardinality(request') <= 1
    BY <1>1, FS_EmptySet
  <2> QED BY <1>1, <1>3, <2>1, SyncerKept DEF IInv, TypeOK, cluster
<1>5. RequestInv' /\ ListsInv'
  BY <1>1, <1>3, SyncerKept DEF RequestInv
<1> QED BY <1>1, <1>3, <1>4, <1>5 DEF IInv

\* Every step keeps the invariant, and makes no route but a request's.
LEMMA Inductive ==
  ASSUME IInv, [Next]_vars
  PROVE  IInv' /\ routes' \ routes \subseteq {r.svc : r \in request}
<1>1. ASSUME NEW s \in Svcs,
             \/ NewIngress(s) \/ IngressDeleted(s)
             \/ \E ips \in Addresses : SliceChanges(s, ips)
             \/ \E spec \in Specs : ServiceChanges(s, spec)
      PROVE  IInv' /\ routes' = routes
  BY Zenon, <1>1, ClusterStep
  DEF NewIngress, IngressDeleted, SliceChanges, ServiceChanges
<1>2. ASSUME NEW s \in Svcs, DeliverSlice(s)
      PROVE  IInv' /\ routes' = routes
  BY <1>2, DeliverStep DEF DeliverSlice
<1>3. CASE UNCHANGED vars
  <2>1. TypeOK'
    BY <1>3 DEF IInv, TypeOK, vars
  <2>2. RequestInv' /\ ListsInv'
    BY <1>3 DEF IInv, RequestInv, ListsInv, vars
  <2> QED BY <1>3, <2>1, <2>2 DEF IInv, vars
<1> QED
  BY <1>1, <1>2, <1>3, SliceStep, ListsStep, NormalizeStep, CreateStep DEF Next

\* The agent's lists name routes only, and its requests are well formed.
THEOREM Invariant == Spec => []IInv
  BY InitIInv, Inductive, PTL DEF Spec

\* In every behaviour the agent's channels keep to their capacity and the API
\* server has endpoints and ports only of routes, for any number of services.
THEOREM TypeCorrect == Spec => []TypeOK
<1>1. IInv => TypeOK
  BY DEF IInv
<1> QED BY <1>1, Invariant, PTL

\* The upstream syncer, whose UpdateRoute saves an upstream it does not find,
\* makes no route, however old its list of services is: only createUpstream
\* does, for the service of its request.
THEOREM SyncerMakesNoRoutes == Spec => OnlyIngressesMakeRoutes
<1>1. IInv /\ [Next]_vars => [routes' \ routes \subseteq {r.svc : r \in request}]_vars
  BY Inductive
<1> QED BY <1>1, Invariant, PTL DEF Spec, OnlyIngressesMakeRoutes

-----------------------------------------------------------------------------
(* The container port behind an ingress.                                   *)

\* The least of a set of indices.
LEMMA MinOf ==
  ASSUME NEW S \in SUBSET Nat, S # {}
  PROVE  Min(S) \in S /\ \A y \in S : Min(S) <= y
<1> DEFINE R == OpToRel(<, Nat)
<1>1. IsWellFoundedOn(R, Nat)
  BY Zenon, NatLessThanWellFounded
<1> HIDE DEF R
<1>2. PICK x \in S : \A y \in S : ~ (<<y, x>> \in R)
  BY Zenon, <1>1, WFMin
<1>3. \A y \in S : ~ (y < x)
  BY Zenon, <1>2 DEF R, OpToRel
<1>4. \A y \in S : x <= y
  BY <1>3
<1> QED BY Zenon, <1>4 DEF Min

\* slicePort is the port of the first entry that has the number or the name.
LEMMA FirstInSlice ==
  ASSUME NEW slice, Len(slice) \in Nat, NEW kPort
  PROVE  LET Matching(i) == slice[i].Port = kPort.IntVal \/ slice[i].Name = kPort.StrVal
         IN \/ /\ slicePort(slice, kPort) = NotFound
               /\ \A i \in 1..Len(slice) : ~ Matching(i)
            \/ \E i \in 1..Len(slice) :
                 /\ Matching(i) /\ slicePort(slice, kPort) = slice[i].Port
                 /\ \A j \in 1..Len(slice) : Matching(j) => i <= j
<1> DEFINE I == {i \in 1..Len(slice) : slice[i].Port = kPort.IntVal \/ slice[i].Name = kPort.StrVal}
<1>1. slicePort(slice, kPort) = LET i == IF I # {} THEN Min(I) ELSE 0
                                IN IF i = 0 THEN NotFound ELSE slice[i].Port
  BY DEF slicePort, SelectInSeq
<1>2. CASE I = {}
  BY <1>1, <1>2
<1>3. CASE I # {}
  <2>1. Min(I) \in I /\ \A j \in I : Min(I) <= j
    <3>1. I \in SUBSET Nat
      OBVIOUS
    <3> HIDE DEF I
    <3> QED BY Zenon, <1>3, <3>1, MinOf
  <2>2. slicePort(slice, kPort) = slice[Min(I)].Port
    BY <1>1, <1>3, <2>1
  <2> QED BY Zenon, <2>1, <2>2
<1> QED BY <1>2, <1>3

\* getContainerPortBySvcPort is what the loop finds at the first port of the
\* service at which it finds anything.
LEMMA FirstOfService ==
  ASSUME NEW service, Len(service) \in Nat, NEW slice, NEW kPort
  PROVE  LET found == getContainerPortBySvcPort(service, slice, kPort)
         IN \/ /\ found = NotFound
               /\ \A i \in 1..Len(service) : portFound(service[i], slice, kPort) = NotFound
            \/ \E i \in 1..Len(service) :
                 found = portFound(service[i], slice, kPort) /\ found # NotFound
<1> DEFINE I == {i \in 1..Len(service) : portFound(service[i], slice, kPort) # NotFound}
<1>1. getContainerPortBySvcPort(service, slice, kPort)
        = LET i == IF I # {} THEN Min(I) ELSE 0
          IN IF i = 0 THEN NotFound ELSE portFound(service[i], slice, kPort)
  BY DEF getContainerPortBySvcPort, SelectInSeq
<1>2. CASE I = {}
  BY <1>1, <1>2
<1>3. CASE I # {}
  <2>1. Min(I) \in I
    <3>1. I \in SUBSET Nat
      OBVIOUS
    <3> HIDE DEF I
    <3> QED BY Zenon, <1>3, <3>1, MinOf
  <2>2. getContainerPortBySvcPort(service, slice, kPort) = portFound(service[Min(I)], slice, kPort)
    BY <1>1, <1>3, <2>1
  <2> QED BY Zenon, <2>1, <2>2
<1> QED BY <1>2, <1>3

\* The slice of a service with endpoints has an entry for every port.
LEMMA SliceOf ==
  ASSUME NEW service, NEW pod, ServiceAccepted(service, pod)
  PROVE  LET slice == SlicePorts(service, pod, {"ip"})
         IN /\ Len(slice) = Len(service)
            /\ \A i \in 1..Len(service) :
                 slice[i].Name = service[i].Name
                 /\ slice[i].Port = Resolve(service[i].TargetPort, pod)
<1> DEFINE slice == SlicePorts(service, pod, {"ip"})
<1>1. slice = [i \in 1..Len(service) |-> [Name |-> service[i].Name,
                                          Port |-> Resolve(service[i].TargetPort, pod)]]
  BY Zenon DEF SlicePorts, ServiceAccepted
<1>2. Len(slice) = Len(service)
  <2> DEFINE n == Len(service)
             S == {slice[i] : i \in 1..n}
  <2>1. n \in Nat
    BY Zenon DEF ServiceAccepted
  <2>2. DOMAIN slice = 1..n /\ slice \in [1..n -> S]
    BY <1>1
  <2> HIDE DEF n, S, slice
  <2>3. slice \in Seq(S)
    BY <2>1, <2>2
  <2>4. Len(slice) \in Nat /\ 1..Len(slice) = 1..n
    BY <2>2, <2>3
  <2> QED BY <2>1, <2>4 DEF n
<1> QED BY <1>1, <1>2

\* The cases of the loop's body.
LEMMA AtPort ==
  ASSUME NEW p, NEW slice, NEW kPort
  PROVE  /\ p.Name # kPort.StrVal /\ p.Port # kPort.IntVal
              => portFound(p, slice, kPort) = NotFound
         /\ (p.Name = kPort.StrVal \/ p.Port = kPort.IntVal) /\ p.TargetPort.IntVal # 0
              => portFound(p, slice, kPort) = p.TargetPort.IntVal
         /\ (p.Name = kPort.StrVal \/ p.Port = kPort.IntVal) /\ p.TargetPort.IntVal = 0
              => portFound(p, slice, kPort) = slicePort(slice, kPort)
  BY DEF portFound

\* getContainerPortBySvcPort: for every service and every reference to one of
\* its ports that Kubernetes accepts, the port found is the container port of
\* the backend the ingress names.  With a number for a named port whose target
\* is a name too, it is a container port of the service, if one is found.
THEOREM ContainerPortFound ==
  ASSUME NEW service, NEW pod, ServiceAccepted(service, pod),
         NEW kPort, IngressAccepted(kPort)
  PROVE  FoundRight(service, pod, kPort)
<1> DEFINE slice == SlicePorts(service, pod, {"ip"})
           found == getContainerPortBySvcPort(service, slice, kPort)
           Target(i) == Resolve(service[i].TargetPort, pod)
<1>0. Len(service) \in Nat /\ DOMAIN service = 1..Len(service)
  BY Zenon DEF ServiceAccepted
<1>1. /\ Len(slice) = Len(service)
      /\ \A i \in 1..Len(service) : slice[i].Name = service[i].Name /\ slice[i].Port = Target(i)
  BY SliceOf
<1> HIDE DEF slice
<1>2. ASSUME NEW i \in DOMAIN service, portFound(service[i], slice, kPort) # NotFound
      PROVE  \E j \in DOMAIN service : portFound(service[i], slice, kPort) = Target(j)
  <2>1. CASE service[i].TargetPort.IntVal # 0
    BY <1>2, <2>1, AtPort DEF Resolve
  <2>2. CASE service[i].TargetPort.IntVal = 0
    <3>1. portFound(service[i], slice, kPort) = slicePort(slice, kPort)
      BY <1>2, <2>2, AtPort
    <3> QED BY <1>0, <1>1, <1>2, <3>1, FirstInSlice
  <2> QED BY <2>1, <2>2
<1>3. found # NotFound => \E j \in DOMAIN service : found = Target(j)
  BY <1>0, <1>2, FirstOfService
<1>4. ASSUME NEW i \in DOMAIN service, IsBackend(service[i], kPort),
             kPort.StrVal # "" \/ service[i].TargetPort.IntVal # 0 \/ service[i].Name = ""
      PROVE  found = Target(i)
  <2>1. \A j \in DOMAIN service :
          j # i => service[j].Name # kPort.StrVal /\ service[j].Port # kPort.IntVal
    BY Zenon, <1>4 DEF ServiceAccepted, IngressAccepted, IsBackend
  <2>2. \A j \in DOMAIN service : j # i => portFound(service[j], slice, kPort) = NotFound
    BY <2>1, AtPort
  <2>3. portFound(service[i], slice, kPort) = Target(i)
    <3>1. service[i].Name = kPort.StrVal \/ service[i].Port = kPort.IntVal
      BY Zenon, <1>4 DEF IsBackend
    <3>2. CASE service[i].TargetPort.IntVal # 0
      BY <3>1, <3>2, AtPort DEF Resolve
    <3>3. CASE service[i].TargetPort.IntVal = 0
      <4>1. portFound(service[i], slice, kPort) = slicePort(slice, kPort)
        BY <3>1, <3>3, AtPort
      <4>2. slice[i].Name = kPort.StrVal
        BY Zenon, <1>0, <1>1, <1>4, <3>3 DEF IsBackend, IngressAccepted
      <4>3. \A j \in DOMAIN service :
              slice[j].Port = kPort.IntVal \/ slice[j].Name = kPort.StrVal
                => slice[j].Port = Target(i)
        BY Zenon, <1>0, <1>1, <1>4, <2>1, <3>3
        DEF ServiceAccepted, IngressAccepted, IsBackend
      <4>4. PICK j \in DOMAIN service :
              /\ slice[j].Port = kPort.IntVal \/ slice[j].Name = kPort.StrVal
              /\ slicePort(slice, kPort) = slice[j].Port
        <5>1. i \in 1..Len(slice) /\ Len(slice) \in Nat
          BY Zenon, <1>0, <1>1, <1>4
        <5> QED BY Zenon, <1>0, <1>1, <4>2, <5>1, FirstInSlice
      <4> QED BY <4>1, <4>3, <4>4
    <3> QED BY <3>2, <3>3
  <2>4. Target(i) # NotFound
    BY Zenon DEF ServiceAccepted, NotFound
  <2> QED BY <1>0, <2>2, <2>3, <2>4, FirstOfService
<1> QED BY Zenon, <1>3, <1>4 DEF FoundRight, slice
=============================================================================
