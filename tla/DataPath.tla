------------------------------ MODULE DataPath ------------------------------
(***************************************************************************)
(* The path of a request, put together from the parts that program it: the *)
(* relay controller of a node (RelayController) and the gateway's control  *)
(* plane (ControlPlane) poll the same store, each at its own pace and with *)
(* failures of its own.  Neither knows of the other.  What a pod's socat   *)
(* sends and what Envoy listens for agree only because both take the proxy *)
(* port from the same row of the table ports.                              *)
(***************************************************************************)
EXTENDS EnvoyState, Sequences

CONSTANTS
  LocalPods,         \* the pods on the relay controller's node
  MaxStateVersion,   \* bound: state versions the store goes through
  MaxGatewayFaults,  \* bound: failures of the gateway
  MaxNodeFaults      \* bound: failures on the node

VARIABLES
  gPc, gStateVersion, gList, gTodo, built, resourcesCh, gen, snapshot, envoy,
  gMissed, panicked, gFaults,
  nPc, nStateVersion, nList, nTodo, pending, cur, specs, relay, nMissed, dirty,
  raced, nFaults

Gateway ==
  INSTANCE ControlPlane
  WITH pc <- gPc, stateVersion <- gStateVersion, list <- gList, todo <- gTodo,
       missed <- gMissed, faults <- gFaults, MaxFaults <- MaxGatewayFaults,
       MaxVersion <- MaxStateVersion + 1

Node ==
  INSTANCE RelayController
  WITH pc <- nPc, stateVersion <- nStateVersion, list <- nList, todo <- nTodo,
       missed <- nMissed, faults <- nFaults, MaxFaults <- MaxNodeFaults,
       MaxVersion <- MaxStateVersion + 1

ASSUME PathAssumption == None \notin Node!Options

gatewayVars == <<gPc, gStateVersion, gList, gTodo, built, resourcesCh, gen,
                 snapshot, envoy, gMissed, panicked, gFaults>>
nodeVars == <<nPc, nStateVersion, nList, nTodo, pending, cur, specs, relay,
              nMissed, dirty, raced, nFaults>>
pathVars == <<db, version, gPc, gStateVersion, gList, gTodo, built, resourcesCh, gen,
              snapshot, envoy, gMissed, panicked, gFaults, nPc, nStateVersion, nList,
              nTodo, pending, cur, specs, relay, nMissed, dirty, raced, nFaults>>

PathInit == Gateway!Init /\ Node!Init

\* The API server commits a statement, which both will see.  Statements that
\* make no version also come after the last one.
StoreNext ==
  Node!StoreNext /\ version' <= MaxStateVersion /\ UNCHANGED gatewayVars

GatewayNext == Gateway!Own /\ UNCHANGED nodeVars

NodeNext == Node!Own /\ UNCHANGED gatewayVars

PathNext == StoreNext \/ GatewayNext \/ NodeNext

PathSpec == PathInit /\ [][PathNext]_pathVars

\* The processes of the two parts run as in the parts alone.
PathFairness ==
  /\ WF_pathVars(Gateway!Watcher /\ UNCHANGED nodeVars)
  /\ WF_pathVars(Gateway!Generator /\ UNCHANGED nodeVars)
  /\ WF_pathVars(Gateway!EnvoyFetches /\ UNCHANGED nodeVars)
  /\ WF_pathVars(Node!Controller /\ UNCHANGED gatewayVars)
  /\ \A p \in LocalPods :
       /\ WF_pathVars(Node!InstanceUp(p) /\ UNCHANGED gatewayVars)
       /\ WF_pathVars(Node!Launch(p) /\ UNCHANGED gatewayVars)

PathFairSpec == PathSpec /\ PathFairness

-----------------------------------------------------------------------------
(* What the two must provide together.                                     *)

\* The traffic of pod p for its container port goes to Envoy's listener for
\* a host the pod serves, through the WAF filter with the id and the desired
\* state of that host, and from there back to the container port of the pod.
ComesBack(p, h) ==
  LET l == envoy.listeners[h]
      s == relay[p].socat
  IN /\ s # None /\ l # None /\ envoy.clusters[h] # None
     /\ relay[p].rule = s.number /\ s.proxy = l.port
     /\ l.hcm.id = h /\ l.hcm.xproc = "ext_proc" /\ l.hcm.hops = db.desired[h]
     /\ \E ip \in Keys(db.endpoints[db.ingresses[h]]) :
          /\ db.endpoints[db.ingresses[h]][ip] = p
          /\ <<ip, s.number>> \in envoy.clusters[h]

\* A host with several container ports has a listener for one of them, and
\* the relay redirects one: the first row each of the two queries returned.
OnePort(h) == \A r1, r2 \in ContainerPortRows(db, h) : r1 = r2

\* Pod p serves switched on hosts only, and each has one container port.
Expected(p) ==
  /\ Node!ProtectedHosts(p) # {} /\ Node!UnprotectedHosts(p) = {}
  /\ \A h \in Node!ProtectedHosts(p) : OnePort(h)

Guarded(p) == Expected(p) => \E h \in Node!ProtectedHosts(p) : ComesBack(p, h)

Steady ==
  /\ Gateway!Idle /\ gStateVersion = version /\ ~ gMissed /\ envoy = snapshot
  /\ nPc = "sleep" /\ nStateVersion = version

\* When both parts are at rest with the current version, the traffic of every
\* pod that serves protected hosts goes through the WAF and comes back to the
\* pod, but for pods a failure, a crash, a race or an unversioned change on
\* the node concerns: controller.go and cp.go both take the port from the
\* first container port of the list (discoverRelayOptions,
\* protectionContainerPort).
GuardedWhenSteady ==
  Steady => \A p \in LocalPods :
              Node!Spared(p) \/ relay[p].cmd = "launching" \/ Guarded(p)

\* At any moment, however stale either side is and whatever crashed: when
\* Envoy listens on the port that a socat sends to, the listener is that of
\* the one host the port was allocated for, and the socat was started for the
\* same container port.  Traffic may find no listener for a while; it never
\* meets that of another host.  This is what allocateProxyListenerPort has to
\* guarantee when it keeps the port of a row that exists.
NeverCrossed ==
  \A p \in LocalPods, h \in Hosts :
    /\ relay[p].socat # None /\ envoy.listeners[h] # None
    /\ envoy.listeners[h].port = relay[p].socat.proxy
    => \E row \in db.ports :
         /\ {r \in db.ports : r.proxy = relay[p].socat.proxy} = {row}
         /\ row.host = h /\ row.number = relay[p].socat.number

\* No two rows have one proxy port: for the proof of NeverCrossed.
OneOwner ==
  \A r1, r2 \in db.ports : r1.proxy = r2.proxy /\ r1.proxy # None => r1 = r2

\* Once the store is left alone every pod's traffic ends up guarded and stays
\* so, whichever of the two parts is first to see the last version.
PathConverges ==
  <>[](gMissed \/ Gateway!Orphan
         \/ \A p \in LocalPods : Node!Spared(p) \/ Guarded(p))
=============================================================================
