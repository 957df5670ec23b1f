CONSTANTS a = a  b = b
CONSTANTS Ids <- MCIds
          Duplexes <- MCIds
          NoOwner = NoOwner
          MaxFaults = 1
          AllErrorsAnswered = FALSE
          Kinds = {"query", "begin", "end", "cursor"}
          Races = {}
          MaxSubmits = 3
          MaxLeases = 2
SPECIFICATION EndSpec
INVARIANT PoolTypeOK
INVARIANT NoForeignTransactionButPortal
INVARIANT ExecutesAsOwner
INVARIANT PortalHeld
INVARIANT RecoveryFindsPortal
INVARIANT RecoverySparesBorrower
INVARIANT NoInheritedTransaction
INVARIANT EndIsBarrier
SYMMETRY MCSymmetry
CHECK_DEADLOCK FALSE
