CONSTANTS a = a  b = b
CONSTANTS Ids <- MCIds
          Duplexes <- MCIds
          NoOwner = NoOwner
          MaxFaults = 0
          AllErrorsAnswered = TRUE
          Kinds = {"cursor"}
          Races = {"early cursor"}
          MaxSubmits = 2
          MaxLeases = 2
SPECIFICATION PoolSpec
INVARIANT RecoverySparesBorrower
CHECK_DEADLOCK FALSE
