---------------------------- MODULE ServicePorts ----------------------------
(***************************************************************************)
(* How the discovery agent finds the container port behind an ingress      *)
(* (discovery/pkg/discovery/ingress/utils.go), as operators.               *)
(*                                                                         *)
(* A service is the sequence of its ports.  An ingress names one of them   *)
(* by number or by name; a target is a number or the name of a container   *)
(* port, which only the endpoint slice resolves.  In both the other field  *)
(* is 0 or the empty string, as in the IntOrString of Kubernetes.          *)
(***************************************************************************)
EXTENDS Naturals, Sequences, SequencesExt

IntOrString(n, name) == [IntVal |-> n, StrVal |-> name]
Port(name, n, target) == [Name |-> name, Port |-> n, TargetPort |-> target]

\* The number a target has in the pods.
Resolve(target, pod) ==
  IF target.IntVal # 0 THEN target.IntVal ELSE pod[target.StrVal]

\* The ports of a service's endpoint slice: none while it has no endpoints.
SlicePorts(service, pod, addresses) ==
  IF addresses = {} THEN <<>>
  ELSE [i \in DOMAIN service |->
          [Name |-> service[i].Name, Port |-> Resolve(service[i].TargetPort, pod)]]

-----------------------------------------------------------------------------
NotFound == 0

\* The slice's port for a named target, among ports that have the number the
\* ingress asks for, or its name.
slicePort(slicePorts, kPort) ==
  LET i == SelectInSeq(slicePorts, LAMBDA q : q.Port = kPort.IntVal \/ q.Name = kPort.StrVal)
  IN IF i = 0 THEN NotFound ELSE slicePorts[i].Port

\* Mutant: the port of the service is taken for that of the container.
portFoundService(p, slicePorts, kPort) ==
  IF p.Name = kPort.StrVal \/ p.Port = kPort.IntVal THEN p.Port ELSE NotFound

\* What the loop finds at port p of the service.
portFound(p, slicePorts, kPort) ==
  IF p.Name # kPort.StrVal /\ p.Port # kPort.IntVal THEN NotFound
  ELSE IF p.TargetPort.IntVal # 0 THEN p.TargetPort.IntVal
  ELSE slicePort(slicePorts, kPort)

getContainerPortBySvcPort(service, slicePorts, kPort) ==
  LET i == SelectInSeq(service, LAMBDA p : portFound(p, slicePorts, kPort) # NotFound)
  IN IF i = 0 THEN NotFound ELSE portFound(service[i], slicePorts, kPort)

-----------------------------------------------------------------------------
\* The port of the service that an ingress refers to.
IsBackend(p, kPort) ==
  IF kPort.StrVal # "" THEN p.Name = kPort.StrVal ELSE p.Port = kPort.IntVal

\* What Kubernetes accepts: port numbers are not 0, a service with several ports
\* names them all, and differently.  (It also accepts a number twice, for TCP and
\* for UDP, which are not told apart here.)
ServiceAccepted(service, pod) ==
  /\ DOMAIN service = 1..Len(service) /\ Len(service) \in Nat
  /\ \A i \in DOMAIN service :
       service[i].Port # 0 /\ Resolve(service[i].TargetPort, pod) # 0
  /\ \A i, j \in DOMAIN service :
       i # j => /\ service[i].Name # "" /\ service[i].Name # service[j].Name
                /\ service[i].Port # service[j].Port

\* An ingress gives the number of a port or its name.
IngressAccepted(kPort) == kPort.IntVal = 0 <=> kPort.StrVal # ""

\* For an ingress that refers to a port of the service, the port found is the
\* container port traffic of that service port goes to, when the ingress gives
\* a name, the target is a number or the port has no name.  Else it is some
\* container port of the service, if any is found.
FoundRight(service, pod, kPort) ==
  LET found == getContainerPortBySvcPort(service, SlicePorts(service, pod, {"ip"}), kPort)
  IN \A i \in DOMAIN service :
       IsBackend(service[i], kPort) =>
         /\ \/ kPort.StrVal # "" \/ service[i].TargetPort.IntVal # 0 \/ service[i].Name = ""
            => found = Resolve(service[i].TargetPort, pod)
         /\ found # NotFound
              => \E j \in DOMAIN service : found = Resolve(service[j].TargetPort, pod)
=============================================================================
