SPECIFICATION Spec
CONSTANTS
  None = None
  Hosts = {h1, h2}
  Svcs = {s1}
  IPs = {i1, i2}
  Pods = {d1}
  ContainerPorts = {c1}
  SvcPorts = {v1}
  ProxyPorts = {p1, p2}
  DesiredStates = {x1}
  RouteClients = {r1}
  ProtectionClients = {u1}
  MaxVersion = 3
  MaxFaults = 1
INVARIANTS ProxyPortsUnique
PROPERTIES ImplementsStatements ImplementsVersionedConfig ProxyPortsSticky QuietResync
CHECK_DEADLOCK FALSE
SYMMETRY Symmetry
