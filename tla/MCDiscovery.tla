---------------------------- MODULE MCDiscovery ----------------------------
(* A small instance of Discovery, and the ports of small services.         *)
EXTENDS Discovery

CONSTANTS s1, s2

MCSvcs == {s1, s2}
MCPod == [http |-> 8080, mgmt |-> 80]

\* A port with a number for its target, and two with names.
ByNumber == <<Port("", 80, IntOrString(8081, ""))>>
ByName == <<Port("web", 80, IntOrString(0, "http")), Port("adm", 81, IntOrString(0, "mgmt"))>>
MCSpecs == {ByNumber, ByName}

\* One ingress gives the number and the other the name of the port.
MCBackend == s1 :> IntOrString(80, "") @@ s2 :> IntOrString(0, "web")

-----------------------------------------------------------------------------
Targets == {IntOrString(n, "") : n \in {80, 81}}
           \cup {IntOrString(0, name) : name \in {"http", "mgmt"}}
OnePort == {<<Port(name, n, target)>> : name \in {"", "web"}, n \in {80, 81}, target \in Targets}
TwoPorts == {<<Port("web", n, t1), Port("adm", 161 - n, t2)>> :
               n \in {80, 81}, t1 \in Targets, t2 \in Targets}
KPorts == {IntOrString(n, "") : n \in {80, 81}}
          \cup {IntOrString(0, name) : name \in {"web", "adm"}}

AllFound ==
  \A service \in OnePort \cup TwoPorts, pod \in [{"http", "mgmt"} -> {80, 81, 82}],
     kPort \in KPorts :
    /\ ServiceAccepted(service, pod) /\ IngressAccepted(kPort)
    /\ FoundRight(service, pod, kPort)

\* getContainerPortBySvcPort finds the container port of every reference an
\* ingress may make to a port of the service: see FoundRight.
PortsFound == routes = {} => AllFound
=============================================================================
