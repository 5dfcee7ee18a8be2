----------------------------- MODULE Discovery -----------------------------
(***************************************************************************)
(* The discovery agent: how the endpoints of a service get from Kubernetes *)
(* to the API server.  Two informers race to write them:                   *)
(*   the ingress informer, whose handler looks an ingress's service and    *)
(*     endpoints up, one after the other, and creates the route;           *)
(*   the endpoint slice informer, whose handler queues the slice for the   *)
(*     upstream syncer, which updates routes that a list refreshed every   *)
(*     ten seconds knows of.                                               *)
(* Informers hand every object to their handlers again every 30 seconds.   *)
(*                                                                         *)
(* Services have one endpoint slice.  Kubernetes and the API server are    *)
(* present by what the agent reads and writes there.                       *)
(***************************************************************************)
EXTENDS ServicePorts, FiniteSets

CONSTANTS
  Svcs, IPs,
  Specs,         \* the forms a service may have: sequences of ports
  FirstSpec,     \* the one every service has at first
  Backend,       \* Backend[s]: the port of s that ingresses refer to
  Pod,           \* Pod[name]: the number of the pods' container port of that name
  EpsChCap,      \* bound: slices in EpsCh (5) and in the informer's queue for
                 \* the handler that waits for room in it (any number)
  UpdaterChCap,  \* lists in svcFqdnCacheUpdaterCh (5), and the one whose sender
                 \* waits for room in it
  MaxChanges,    \* bound: changes in the cluster
  MaxFaults      \* bound: calls that fail

ASSUME DiscoveryAssumption ==
  /\ FirstSpec \in Specs
  /\ EpsChCap \in Nat \ {0} /\ UpdaterChCap \in Nat \ {0}
  /\ MaxChanges \in Nat /\ MaxFaults \in Nat

VARIABLES
  ingresses,     \* services that some ingress has as its backend
  services,      \* services[s]: the ports of s
  slices,        \* slices[s]: the addresses in the slice of s
  informer,      \* informer[s]: the slice the informer has in its store
  epsCh,         \* EpsCh and what waits to enter it
  updaterCh,     \* svcFqdnCacheUpdaterCh and what waits to enter it
  svcFqdnCache,
  request,       \* the CreateRoute request the ingress handler will send
  routes,        \* upstreams in the API server
  stored,        \* stored[s]: their endpoints
  ports,         \* ports[s]: the container ports of their ingresses
  changes, faults

vars == <<ingresses, services, slices, informer, epsCh, updaterCh, svcFqdnCache,
          request, routes, stored, ports, changes, faults>>
cluster == <<ingresses, services, slices>>
syncer == <<informer, epsCh, updaterCh, svcFqdnCache>>

Addresses == SUBSET IPs

Events == [svc: Svcs, ips: Addresses]

Init ==
  /\ ingresses = {}
  /\ services = [s \in Svcs |-> FirstSpec]
  /\ slices = [s \in Svcs |-> {}]
  /\ informer = [s \in Svcs |-> {}]
  /\ epsCh = <<>> /\ updaterCh = <<>> /\ svcFqdnCache = {}
  /\ request = {}
  /\ routes = {} /\ stored = [s \in Svcs |-> {}] /\ ports = [s \in Svcs |-> {}]
  /\ changes = 0 /\ faults = 0

\* Mutant: the endpoints are saved and the upstream is not.
SaveUpstreamColumn(s, ips) ==
  /\ stored' = [stored EXCEPT ![s] = IF ips = {} THEN @ ELSE ips]
  /\ UNCHANGED routes

\* UpstreamRepository.Save: without endpoints, the column is omitted.
SaveUpstream(s, ips) ==
  /\ routes' = routes \cup {s}
  /\ stored' = [stored EXCEPT ![s] = IF ips = {} THEN @ ELSE ips]

-----------------------------------------------------------------------------
(* The cluster.                                                            *)

NewIngress(s) ==
  /\ changes < MaxChanges /\ s \notin ingresses
  /\ ingresses' = ingresses \cup {s}
  /\ changes' = changes + 1
  /\ UNCHANGED <<services, slices, syncer, request, routes, stored, ports, faults>>

\* DeleteFunc does nothing: the route stays.
IngressDeleted(s) ==
  /\ changes < MaxChanges /\ s \in ingresses
  /\ ingresses' = ingresses \ {s}
  /\ changes' = changes + 1
  /\ UNCHANGED <<services, slices, syncer, request, routes, stored, ports, faults>>

ServiceChanges(s, spec) ==
  /\ changes < MaxChanges /\ spec # services[s]
  /\ services' = [services EXCEPT ![s] = spec]
  /\ changes' = changes + 1
  /\ UNCHANGED <<ingresses, slices, syncer, request, routes, stored, ports, faults>>

\* Pods come and go.
SliceChanges(s, ips) ==
  /\ changes < MaxChanges /\ ips # slices[s]
  /\ slices' = [slices EXCEPT ![s] = ips]
  /\ changes' = changes + 1
  /\ UNCHANGED <<ingresses, services, syncer, request, routes, stored, ports, faults>>

-----------------------------------------------------------------------------
(* The endpoint slice informer and the upstream syncer.                    *)

\* Mutant: resyncs are off and a change that is seen is handled once.
DeliverSliceOnce(s) ==
  /\ Len(epsCh) < EpsChCap
  /\ informer[s] # slices[s]
  /\ informer' = [informer EXCEPT ![s] = slices[s]]
  /\ epsCh' = Append(epsCh, [svc |-> s, ips |-> informer'[s]])
  /\ UNCHANGED <<cluster, updaterCh, svcFqdnCache, request, routes, stored, ports,
                 changes, faults>>

\* AddFunc and UpdateFunc, for a change that is seen or for the resync, which
\* delivers what the informer has.
DeliverSlice(s) ==
  /\ Len(epsCh) < EpsChCap
  /\ informer' \in {informer, [informer EXCEPT ![s] = slices[s]]}
  /\ epsCh' = Append(epsCh, [svc |-> s, ips |-> informer'[s]])
  /\ UNCHANGED <<cluster, updaterCh, svcFqdnCache, request, routes, stored, ports,
                 changes, faults>>

\* The watch catches up.
Seen(s) == DeliverSlice(s) /\ informer'[s] = slices[s]

\* Mutant: every service that has a slice is synchronized.
shouldProtectAll(s) == TRUE

shouldProtect(s) == s \in svcFqdnCache

\* RunUpstreamIPsSyncer, a slice: UpdateRoute, unless it fails.
SyncSlice ==
  LET event == Head(epsCh)
  IN /\ epsCh # <<>>
     /\ epsCh' = Tail(epsCh)
     /\ \/ /\ shouldProtect(event.svc)
           /\ SaveUpstream(event.svc, event.ips)
           /\ UNCHANGED faults
        \/ /\ ~shouldProtect(event.svc)
           /\ UNCHANGED <<routes, stored, faults>>
        \/ /\ shouldProtect(event.svc) /\ faults < MaxFaults
           /\ faults' = faults + 1
           /\ UNCHANGED <<routes, stored>>
     /\ UNCHANGED <<cluster, informer, updaterCh, svcFqdnCache, request, ports,
                    changes>>

\* RunUpstreamIPsSyncer, a new list of services.
SyncCache ==
  /\ updaterCh # <<>>
  /\ svcFqdnCache' = Head(updaterCh)
  /\ updaterCh' = Tail(updaterCh)
  /\ UNCHANGED <<cluster, informer, epsCh, request, routes, stored, ports,
                 changes, faults>>

\* One round of runUpstreamSvcFqdnCache; one that fails changes nothing.
runUpstreamSvcFqdnCache ==
  /\ Len(updaterCh) < UpdaterChCap
  /\ updaterCh' = Append(updaterCh, routes)
  /\ UNCHANGED <<cluster, informer, epsCh, svcFqdnCache, request, routes, stored,
                 ports, changes, faults>>

-----------------------------------------------------------------------------
(* The ingress informer.                                                   *)

\* createUpstream hands the ingress to normalize, which asks Kubernetes for the
\* service and, for a named target, for its slice.  Without a container port, or
\* when a call fails, the request is sent as it is.
discoverContainerPorts(s) ==
  LET slicePorts == SlicePorts(services[s], Pod, slices[s])
      found == getContainerPortBySvcPort(services[s], slicePorts, Backend[s])
      next == IF found = NotFound THEN "send" ELSE "endpoints"
  IN /\ s \in ingresses /\ request = {}
     /\ \/ request' = {[svc |-> s, port |-> found, ips |-> {}, next |-> next]}
           /\ UNCHANGED faults
        \/ request' = {[svc |-> s, port |-> NotFound, ips |-> {}, next |-> "send"]}
           /\ faults < MaxFaults /\ faults' = faults + 1
     /\ UNCHANGED <<cluster, syncer, routes, stored, ports, changes>>

\* normalize asks for the endpoints as they are.
discoverEndpoints ==
  \E r \in request :
    /\ r.next = "endpoints"
    /\ \/ request' = {[r EXCEPT !.ips = slices[r.svc], !.next = "send"]}
          /\ UNCHANGED faults
       \/ request' = {[r EXCEPT !.next = "send"]}
          /\ faults < MaxFaults /\ faults' = faults + 1
    /\ UNCHANGED <<cluster, syncer, routes, stored, ports, changes>>

\* Mutant: the ports are saved with a route that is new.
CreateRouteOnce ==
  \E r \in request :
    /\ r.next = "send" /\ request' = {}
    /\ SaveUpstream(r.svc, r.ips)
    /\ ports' = [ports EXCEPT ![r.svc] = IF r.svc \in routes THEN @ ELSE @ \cup {r.port}]
    /\ UNCHANGED <<cluster, syncer, changes, faults>>

\* createUpstream, the call of CreateRoute, unless it fails.  Ports are added.
CreateRoute ==
  \E r \in request :
    /\ r.next = "send" /\ request' = {}
    /\ \/ /\ SaveUpstream(r.svc, r.ips) /\ UNCHANGED faults
          /\ ports' = [ports EXCEPT ![r.svc] = @ \cup ({r.port} \ {NotFound})]
       \/ /\ faults < MaxFaults /\ faults' = faults + 1
          /\ UNCHANGED <<routes, stored, ports>>
    /\ UNCHANGED <<cluster, syncer, changes>>

-----------------------------------------------------------------------------
Next ==
  \/ \E s \in Svcs : \/ NewIngress(s) \/ IngressDeleted(s)
                     \/ DeliverSlice(s) \/ discoverContainerPorts(s)
  \/ \E s \in Svcs, ips \in Addresses : SliceChanges(s, ips)
  \/ \E s \in Svcs, spec \in Specs : ServiceChanges(s, spec)
  \/ SyncSlice \/ SyncCache \/ runUpstreamSvcFqdnCache
  \/ discoverEndpoints \/ CreateRoute

Spec == Init /\ [][Next]_vars

\* The watch and the resyncs of both informers reach every object in turn,
\* the goroutines run, and select serves both channels.
Fairness ==
  /\ \A s \in Svcs : SF_vars(Seen(s)) /\ SF_vars(discoverContainerPorts(s))
  /\ WF_vars(SyncSlice) /\ WF_vars(SyncCache)
  /\ WF_vars(runUpstreamSvcFqdnCache)
  /\ WF_vars(discoverEndpoints) /\ WF_vars(CreateRoute)

FairSpec == Spec /\ Fairness

-----------------------------------------------------------------------------
(* What the agent must provide.                                            *)

\* Channels keep to their capacity and everything holds addresses.  What has
\* endpoints in the API server is a route.
TypeOK ==
  /\ ingresses \subseteq Svcs /\ routes \subseteq Svcs
  /\ services \in [Svcs -> Specs]
  /\ slices \in [Svcs -> Addresses] /\ informer \in [Svcs -> Addresses]
  /\ stored \in [Svcs -> Addresses]
  /\ \A s \in Svcs : stored[s] # {} \/ ports[s] # {} => s \in routes
  /\ epsCh \in Seq(Events) /\ Len(epsCh) <= EpsChCap
  /\ updaterCh \in Seq(SUBSET Svcs) /\ Len(updaterCh) <= UpdaterChCap
  /\ svcFqdnCache \subseteq Svcs
  /\ Cardinality(request) <= 1
  /\ \A r \in request : /\ r.svc \in Svcs /\ r.ips \in Addresses
                        /\ r.next \in {"endpoints", "send"}
                        /\ r.port = NotFound => r.ips = {}
  /\ changes \in 0..MaxChanges /\ faults \in 0..MaxFaults

\* A route comes only from the CreateRoute of an ingress.  UpdateRoute, which
\* saves an upstream it does not find, makes none, however old the syncer's
\* list of services is and whatever slices it is handed.
OnlyIngressesMakeRoutes ==
  [][routes' \ routes \subseteq {r.svc : r \in request}]_vars

\* Endpoints are looked up only for a request that has a container port.
RequestInv ==
  \A r \in request :
    /\ r = [svc |-> r.svc, port |-> r.port, ips |-> r.ips, next |-> r.next]
    /\ r.next = "endpoints" => r.port # NotFound

\* A list of services, in use or on its way, may miss a route but names nothing
\* that is not one: routes are never deleted.
ListsInv ==
  /\ svcFqdnCache \subseteq routes
  /\ \A i \in DOMAIN updaterCh : updaterCh[i] \subseteq routes

IInv == TypeOK /\ ports = [s \in Svcs |-> ports[s]] /\ RequestInv /\ ListsInv

\* Whatever the two informers overwrite of each other's, and whichever calls
\* fail, every service behind an ingress ends up with a route, and every route
\* with the endpoints of its service if it has any, the routes of deleted
\* ingresses included.
EndpointsConverge ==
  <>[](/\ ingresses \subseteq routes
       /\ \A s \in routes : slices[s] # {} => stored[s] = slices[s])

\* Although service, slice and route are read and written one after the other
\* and any of the calls may fail, every service behind an ingress ends up with
\* its container port among those of its route, where the agent can find it.
PortsConverge ==
  <>[](\A s \in ingresses :
         LET slicePorts == SlicePorts(services[s], Pod, slices[s])
             found == getContainerPortBySvcPort(services[s], slicePorts, Backend[s])
         IN found # NotFound => found \in ports[s])
=============================================================================
