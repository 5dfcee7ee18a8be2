SPECIFICATION FairSpec
CONSTANTS
  None = None
  Clash = Clash
  Protections = {p1, p2}
  RuleSets = {r1, r2}
  MaxChanges = 3
  MaxFaults = 2
INVARIANTS LoadedIsFetched LoadedStaysOnDisk
PROPERTIES RuleSetsConverge
