SPECIFICATION TmFairSpec
CONSTANTS
  h1 = h1
  a1 = a1
  v1 = v1
  v2 = v2
  NoHash = NoHash
  Hashes <- MCHashes
  Adders <- MCOneAdder
  Viewers <- MCViewers
  Transcoders <- MCTranscoders
  MaxGen = 2
INVARIANTS
  ActiveReadersExact
  NoPhantomReaders
PROPERTY
  IdleIsReaped
