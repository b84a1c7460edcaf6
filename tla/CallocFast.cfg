CONSTANTS Profile = "fast"
          MM_CHUNK_SIZE = 16
          Page = 4
          Requests = {1, 7, 13}
          Alignments = {4}
          MaxSpans = 2
          SizeMax = 63
          BOOTSTRAP_BYTES = 6
          PoolRequests = {0, 2}
          MaxPool = 2
          none = none
SPECIFICATION Spec
INVARIANTS CallocZeroed
