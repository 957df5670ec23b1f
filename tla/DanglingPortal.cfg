CONSTANTS a = a  b = b  reset = reset
CONSTANTS Ids <- MCIds
          Duplexes <- MCDuplexes
          Ops <- MCOps
          NoOwner = NoOwner
          MaxFaults = 0
          AllErrorsAnswered = TRUE
          MaxFrames = 2
SPECIFICATION ServerSpec
INVARIANT NoForeignTransaction
CHECK_DEADLOCK FALSE
