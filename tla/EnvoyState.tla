---------------------------- MODULE EnvoyState ----------------------------
(***************************************************************************)
(* buildResources of the gateway's control plane: from the listed          *)
(* protections to the listeners and clusters of an Envoy snapshot.  The    *)
(* svc of a list entry is the upstream of Application.Ingress[0].  Fixed   *)
(* parts of the configuration (timeouts, access log, upgrade, the ext_proc *)
(* cluster that every snapshot has) are left out.                          *)
(***************************************************************************)
EXTENDS ListProtections

Managers ==
  [id: Hosts, xproc: {"ext_proc", None}, hops: DesiredStates, route: Hosts,
   mirror: BOOLEAN]

Listeners == [port: ProxyPorts \cup {None}, hcm: Managers]

LoadAssignments == SUBSET (IPs \X ContainerPorts)

Resources ==
  [stamp: Nat, listeners: [Hosts -> Listeners \cup {None}],
   clusters: [Hosts -> {None} \cup LoadAssignments], mirrors: SUBSET Hosts]

ASSUME ResourceAssumption ==
  /\ None \notin Listeners
  /\ \A a \in LoadAssignments : a # None

shouldSkipProtection(p) == p.svc = None

\* The first CONTAINER_PORT of the ingress, None for the error.
protectionContainerPort(p) == p.first

\* routes() and listeners() index Ingress[0] of every protection, without
\* shouldSkipProtection: the Go runtime panics on an empty slice.
buildPanics(list) == \E h \in Listed(list) : list[h].svc = None

wafieXprocFilter(p) == IF p.mode = "ON" THEN "ext_proc" ELSE None

\* The filters are the protection's id header, ext_proc and the router; the
\* trusted hops come from the desired state; the route goes to the
\* application's cluster and is mirrored when the policy is enabled.
httpConnectionManager(h, p) ==
  [id |-> h, xproc |-> wafieXprocFilter(p), hops |-> p.desired, route |-> h,
   mirror |-> p.mirrored]

\* One entry per protection; that of one without a container port stays nil.
listeners(list) ==
  [h \in Hosts |->
     IF h \notin Listed(list) \/ protectionContainerPort(list[h]) = None
     THEN None
     ELSE [port |-> protectionContainerPort(list[h]).proxy,
           hcm  |-> httpConnectionManager(h, list[h])]]

\* Every endpoint on every container port.
containerPortsEndpoints(p) == Keys(p.eps) \X {r.number : r \in p.rows}

clusters(list) ==
  [h \in Hosts |->
     IF h \notin Listed(list) \/ shouldSkipProtection(list[h]) THEN None
     ELSE containerPortsEndpoints(list[h])]

mirroredClusters(list) ==
  {h \in Listed(list) : ~ shouldSkipProtection(list[h]) /\ list[h].mirrored}

\* The resources, with the state version under which they were listed.
buildResources(list, stamp) ==
  [stamp |-> stamp, listeners |-> listeners(list),
   clusters |-> clusters(list), mirrors |-> mirroredClusters(list)]
=============================================================================
