CONSTANTS a = a  b = b
CONSTANTS Ids <- MCIds
          Duplexes <- MCIds
          NoOwner = NoOwner
          MaxFaults = 0
          AllErrorsAnswered = TRUE
          Kinds = {"cursor"}
          Races = {"second cursor"}
          MaxSubmits = 2
          MaxLeases = 1
SPECIFICATION PoolSpec
PROPERTY ReleaseFreesSession
CHECK_DEADLOCK FALSE
