\* DropForgetsCompletion fails as it is.  CompletionIsBacked (INVARIANT) fails with
\* DropUnresolved = TRUE, MaxCrash = 1, and also when a restart changes what is
\* pinned: PrefixSizes <- MCReconfigured, SuffixBytes = 0, MaxCrash = 2.
SPECIFICATION Spec
CONSTANTS
  h1 = h1
  h2 = h2
  w1 = w1
  w2 = w2
  r1 = r1
  r2 = r2
  None = None
  Hashes <- MCHashes
  Torrent <- MCSmallTorrent
  PrefixSizes <- MCPinned
  SuffixBytes = 2
  CacheCap = 1
  Workers <- MCOneWorker
  Readers <- MCNoReader
  Droppable <- MCOneDroppable
  DropUnresolved = FALSE
  MaxCrash = 0
INVARIANT
  DropForgetsCompletion
