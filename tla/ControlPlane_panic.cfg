SPECIFICATION Spec
CONSTANTS
  None = None
  Hosts = {h1}
  Svcs = {s1}
  IPs = {i1}
  Pods = {d1}
  ContainerPorts = {c1}
  SvcPorts = {}
  ProxyPorts = {p1, p2}
  DesiredStates = {x1}
  MaxVersion = 3
  MaxFaults = 0
INVARIANT NoPanic
CHECK_DEADLOCK FALSE
