CONSTANTS a = a  b = b
CONSTANTS Ids <- MCIds
          Duplexes <- MCIds
          NoOwner = NoOwner
          MaxFaults = 0
          AllErrorsAnswered = TRUE
          Kinds = {"cursor"}
          Races = {"busy portal"}
          MaxSubmits = 1
          MaxLeases = 1
SPECIFICATION PoolSpec
INVARIANT ExecutesAsOwner
CHECK_DEADLOCK FALSE
