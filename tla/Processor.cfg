SPECIFICATION ProcFairSpec
CONSTANTS
  Streams = {s1, s2}
  MaxCrashes = 1
INVARIANTS NothingPassesUnevaluated
PROPERTIES TransactionsDestroyed RequestsEnd
