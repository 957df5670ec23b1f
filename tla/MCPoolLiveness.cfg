CONSTANTS a = a  b = b
CONSTANTS Ids <- MCIds
          Duplexes <- MCIds
          NoOwner = NoOwner
          MaxFaults = 0
          AllErrorsAnswered = TRUE
          Kinds = {"query", "begin", "end", "cursor"}
          Races = {}
          MaxSubmits = 2
          MaxLeases = 2
SPECIFICATION PoolSpec
PROPERTY DestroyedCloses
PROPERTY ReleaseFreesSession
CHECK_DEADLOCK FALSE
