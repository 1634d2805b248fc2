SPECIFICATION FairSpec
CONSTANTS
  t1 = t1
  t2 = t2
  u1 = u1
  v1 = v1
  v2 = v2
  h1 = h1
  h2 = h2
  None = None
  Users <- MCUsers
  Hashes <- MCHashes
  Tabs <- MCOneTab
  User <- MCOneUser
  Videos <- MCOneVideo
  HashOf <- MCOneFilm
  MaxBeatGap = 1
  IdleEvict = 1
  DirtyGiveUp = 2
  PrepareTTL = 3
  MaxTime = 5
  MaxFaults = 2
  MaxDeletes = 1
INVARIANTS
  NeverOvercounts
  CleanIsSaved
PROPERTIES
  ForgottenIsSaved
  BeatsAreWritten
