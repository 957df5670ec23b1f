CONSTANTS t1 = t1  t2 = t2
CONSTANTS Tables <- MCTables
          Names <- MCNames
          Texts <- MCTexts
          TableOf <- MCTableOf
          InitialData <- MCInitialData
          Leftovers <- MCLeftovers
          MaxTokens = 1
          MaxCalls = 2
          MaxHistory = 3
          MaxEvents = 5
SPECIFICATION Spec
INVARIANT TypeOK
INVARIANT ClashExcused
INVARIANT FinishedMeansRan
INVARIANT NoScriptTwice
PROPERTY SnapshotsAtomic
PROPERTY StagingOnlySwept
PROPERTY SettingsScrubbedLast
PROPERTY StopsAtInvalidHistory
CHECK_DEADLOCK FALSE
