SPECIFICATION Spec
CONSTANTS
  h1 = h1
  h2 = h2
  w1 = w1
  w2 = w2
  r1 = r1
  r2 = r2
  None = None
  Hashes <- MCHashes
  Torrent <- MCTorrent
  PrefixSizes <- MCPinned
  SuffixBytes = 2
  CacheCap = 3
  Workers <- MCTwoWorkers
  Readers <- MCTwoReaders
  Droppable <- MCOneDroppable
  DropUnresolved = FALSE
  MaxCrash = 1
SYMMETRY MCSymmetry
INVARIANTS
  AccountingExact
  CompletionIsBacked
PROPERTY
  EvictionProtectsPlayheads
