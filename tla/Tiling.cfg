CONSTANTS Units = 10
          MinBlock = 2
SPECIFICATION Spec
INVARIANTS TypeOK Tiled Coalesced
PROPERTIES QuarantineForever OneBlockPerCall
CHECK_DEADLOCK FALSE
