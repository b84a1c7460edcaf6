CONSTANTS Arenas = {a1, a2}
          Lookers = {a1, a2}
          Units = 2
          Addresses = {3, 5}
          MM_INDEX_STATIC = 4
          MaxTables = 4
          MaxSpans = 2
          Mix <- MCMix
          none = none
SYMMETRY Symmetry
VIEW View
SPECIFICATION Spec
INVARIANTS AnswersRight TableExact FiledIsMapped DescriptorsOwned
