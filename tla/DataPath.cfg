SPECIFICATION PathFairSpec
CONSTANTS
  None = None
  Hosts = {h1}
  Svcs = {s1}
  IPs = {i1}
  Pods = {d1}
  LocalPods = {d1}
  ContainerPorts = {c1}
  SvcPorts = {}
  ProxyPorts = {p1, p2}
  DesiredStates = {x1}
  MaxStateVersion = 2
  MaxGatewayFaults = 0
  MaxNodeFaults = 0
INVARIANTS GuardedWhenSteady NeverCrossed
PROPERTIES PathConverges
CHECK_DEADLOCK FALSE
