SPECIFICATION Spec
CONSTANTS
  None = None
  Hosts = {h1}
  Svcs = {s1}
  IPs = {i1}
  Pods = {d1}
  LocalPods = {d1}
  ContainerPorts = {c1, c2}
  SvcPorts = {}
  ProxyPorts = {p1, p2}
  DesiredStates = {x1}
  MaxVersion = 4
  MaxFaults = 1
PROPERTIES StartSpecCleansUp
CHECK_DEADLOCK FALSE
