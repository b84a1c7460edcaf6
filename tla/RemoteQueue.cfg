CONSTANTS Owner = o
          Producers = {p1, p2}
          Blocks = {b1, b2, b3}
          Slots = 2
          Wrap = 16
          Starts = {0, 14}
          MaxFrees = 4
          none = none
SPECIFICATION Spec
INVARIANT Accounted
PROPERTIES FullOnlyWhenFull QueuedApplied
