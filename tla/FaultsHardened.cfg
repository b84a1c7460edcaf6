CONSTANTS Words = 18
          MM_HAS_CRC = TRUE
          MM_HAS_CANARY = TRUE
          MM_HAS_MIRROR = FALSE
          MM_HDR_SIZE = 2
          MM_TRAIL = 1
          MM_MIN_BLOCK = 6
          SmallBins = 2
          Octave0 = 3
          BinCount = 4
          ScanCap = 16
          Mode = "managed"
          ScrubInterval = 0
          ScrubBudget = 3
          RecoverySteps = 65536
          Requests = {1, 4}
          Fills = {TRUE}
          Aligns = {4}
          Base = 0
          MaxLive = 2
          MaxHits = 1
SPECIFICATION FSpec
INVARIANTS NoWildWrite NeighboursIntact LiveDisjoint LossBounded
