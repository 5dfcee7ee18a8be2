SPECIFICATION PutSpec
CONSTANTS
  Handlers = {c1, c2}
  Requests <- AllRequests
  Paths = {p1, p2}
  Names = {n1, n2}
  Vals = {v1, v2}
  CIDRs = {i1, i2}
  BadCIDRs = {i2}
  MaxPuts = 3
  MaxList = 1
  Nil = Nil
  Default = Default
  Panic = Panic
INVARIANTS PutTypeOK EntriesUnique AntiBotComplete
PROPERTIES RulesMergedAsAsked TokensMergedAsAsked
SYMMETRY Symmetry
CHECK_DEADLOCK FALSE
