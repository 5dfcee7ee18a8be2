SPECIFICATION FairSpec
CONSTANTS
  None = None
  Hosts = {h1}
  Svcs = {s1}
  IPs = {i1, i2}
  Pods = {d1, d2}
  LocalPods = {d1, d2}
  ContainerPorts = {c1}
  SvcPorts = {}
  ProxyPorts = {p1}
  DesiredStates = {x1}
  MaxVersion = 3
  MaxFaults = 1
INVARIANTS RelaysCurrent
PROPERTIES RelaysConverge
CHECK_DEADLOCK FALSE
