CONSTANTS a = a  b = b  reset = reset
CONSTANTS Ids <- MCIds
          Duplexes <- MCDuplexes
          Ops <- MCOps
          NoOwner = NoOwner
          MaxFaults = 1
          AllErrorsAnswered = FALSE
          MaxFrames = 3
SPECIFICATION ServerSpec
INVARIANT ServerTypeOK
INVARIANT NoForeignTransactionButPortal
INVARIANT ExecutesAsOwner
INVARIANT TransactionHeld
INVARIANT PortalHeld
INVARIANT GoneLeavesNothing
INVARIANT SessionOpAlone
INVARIANT CloseWaits
SYMMETRY MCSymmetry
CHECK_DEADLOCK FALSE
