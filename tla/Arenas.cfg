CONSTANTS Threads = {t1, t2, t3}
          Main = main
          Extra = {x1, x2}
          b1 = b1
          b2 = b2
          Blocks = {b1, b2}
          Slots = 1
          MaxEpoch = 1
          Programs <- MCPrograms
          none = none
SYMMETRY Symmetry
SPECIFICATION Spec
INVARIANTS OneLock NoDeadlock PoolExact PrivateArena Confined ModesAgree
