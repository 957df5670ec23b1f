CONSTANTS a = a  b = b  c = c
CONSTANTS Ids <- MCIds
          NoOwner = NoOwner
SPECIFICATION FairLockSpec
INVARIANT LockInv
PROPERTY AcquireSettles
PROPERTY ImplementsLine
