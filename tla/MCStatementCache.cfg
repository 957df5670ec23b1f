CONSTANTS c1 = c1  c2 = c2  t1 = t1  t2 = t2
CONSTANTS Clients <- MCClients
          Texts <- MCTexts
          Nobody = Nobody
          Capacity = 1
          MinUsages = 2
          MaxCalls = 6
SPECIFICATION CacheSpec
INVARIANT CacheTypeOK
INVARIANT CachesTruthful
INVARIANT OnlyRacingBindFails
INVARIANT NamesMeanOneText
INVARIANT EvictedIsFreed
INVARIANT ConnectWipeSparesSiblings
SYMMETRY MCSymmetry
CHECK_DEADLOCK FALSE
