SPECIFICATION FairSpec
CONSTANTS
  None = None
  Hosts = {h1}
  Svcs = {s1}
  IPs = {i1}
  Pods = {d1}
  ContainerPorts = {c1, c2}
  SvcPorts = {v1}
  ProxyPorts = {p1, p2}
  DesiredStates = {x1}
  MaxVersion = 3
  MaxFaults = 1
INVARIANTS FreshWhenQuiescent
PROPERTIES EnvoyNeverOlder EnvoyConverges
CHECK_DEADLOCK FALSE
