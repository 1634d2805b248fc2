\* One tab of one film.  TotalsAreCumulative (INVARIANT) fails as it is;
\* DeployLosesNothing (INVARIANT) with MaxTime = 2, MaxFaults = 1;
\* BeatsCountTheirVideo (PROPERTY) with MaxTime = 2 and two tabs on a pack:
\* Tabs <- MCTwoTabs, User <- MCUser, Videos <- MCTwoVideos, HashOf <- MCPack.
SPECIFICATION Spec
CONSTANTS
  t1 = t1
  t2 = t2
  u1 = u1
  v1 = v1
  v2 = v2
  h1 = h1
  h2 = h2
  None = None
  Users <- MCUsers
  Hashes <- MCHashes
  Tabs <- MCOneTab
  User <- MCOneUser
  Videos <- MCOneVideo
  HashOf <- MCOneFilm
  MaxBeatGap = 1
  IdleEvict = 1
  DirtyGiveUp = 2
  PrepareTTL = 3
  MaxTime = 5
  MaxFaults = 0
  MaxDeletes = 0
INVARIANT
  TotalsAreCumulative
