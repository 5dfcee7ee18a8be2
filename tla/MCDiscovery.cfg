SPECIFICATION FairSpec
CONSTANTS
  s1 = s1
  s2 = s2
  Svcs <- MCSvcs
  Specs <- MCSpecs
  FirstSpec <- ByNumber
  Backend <- MCBackend
  Pod <- MCPod
  IPs = {i1, i2}
  EpsChCap = 2
  UpdaterChCap = 1
  MaxChanges = 3
  MaxFaults = 1
INVARIANTS TypeOK 
PROPERTIES OnlyIngressesMakeRoutes EndpointsConverge PortsConverge
