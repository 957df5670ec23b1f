CONSTANTS a = a  b = b
CONSTANTS Ids <- MCIds
          Duplexes <- MCIds
          NoOwner = NoOwner
          MaxFaults = 0
          AllErrorsAnswered = TRUE
          Kinds = {"query", "begin", "cursor"}
          Races = {"reading in transaction"}
          MaxSubmits = 3
          MaxLeases = 2
SPECIFICATION PoolSpec
INVARIANT NoInheritedTransaction
CHECK_DEADLOCK FALSE
