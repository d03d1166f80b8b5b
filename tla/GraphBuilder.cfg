SPECIFICATION Spec
CONSTANTS
  None = None
  anonymous = anonymous
  Ids <- FewIds
  Sizes <- One
  AllocSizes <- SmallAllocSizes
  Identities <- OneIdentity
  MaxU64 = 2
  MaxEntries = 3
  MaxGaps = 1
  MaxStreams = 1
INVARIANTS OneTree ChildListsExact VerdictFromTree
           SealedTotalsExact StreamsAttributed
PROPERTY ImplementsEntryTree
CHECK_DEADLOCK FALSE
