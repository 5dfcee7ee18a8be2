SPECIFICATION FairSpec
CONSTANTS
  None = None
  NoIp = NoIp
  Configs = {o1, o2}
  GatewayIps = {g1, g2}
  MaxRequests = 2
  MaxLaunches = 4
  MaxFaults = 1
INVARIANTS DoesAsAsked
PROPERTIES HandlersReturn FollowsGateway ExitsWithPod
CHECK_DEADLOCK FALSE
