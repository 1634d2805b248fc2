\* Each of these fails as it is; CandidatesAreUnwatched (PROPERTY) fails with
\* SPECIFICATION TmSerialSpec, so even without overlapping calls.
SPECIFICATION TmSpec
CONSTANTS
  h1 = h1
  a1 = a1
  v1 = v1
  v2 = v2
  NoHash = NoHash
  Hashes <- MCHashes
  Adders <- MCOneAdder
  Viewers <- MCViewers
  Transcoders <- MCTranscoders
  MaxGen = 2
INVARIANTS
  StorageDropIsExclusive
  TrackedIsLive
  TrackedIsReapable
PROPERTIES
  NoopReapIsLast
  ReapSparesNewViewer
  StallClockIsOwn
