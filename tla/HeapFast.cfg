CONSTANTS Words = 14
          MM_HAS_CRC = FALSE
          MM_HAS_CANARY = FALSE
          MM_HAS_MIRROR = FALSE
          MM_HDR_SIZE = 1
          MM_TRAIL = 0
          MM_MIN_BLOCK = 4
          SmallBins = 2
          Octave0 = 3
          BinCount = 4
          ScanCap = 16
          Mode = "libc"
          ScrubInterval = 1
          ScrubBudget = 1
          RecoverySteps = 65536
          Requests = {1, 4}
          Fills = {TRUE}
          Aligns = {4}
          Base = 1
          MaxLive = 4
SPECIFICATION Spec
INVARIANT HeapConsistent
PROPERTY ImplementsTiling
