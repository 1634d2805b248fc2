\* One machine.  RevokedIsDropped (INVARIANT) fails as it is;
\* DeregisterNeedsSession (PROPERTY) with Urls <- MCTwoUrls, MaxCalls = 3,
\* Tokens <- MCFiveTokens, MaxFaults = 2.
SPECIFICATION Spec
CONSTANTS
  m1 = m1
  m2 = m2
  i1 = i1
  u1 = u1
  u2 = u2
  t1 = t1
  t2 = t2
  t3 = t3
  t4 = t4
  t5 = t5
  None = None
  Machines <- MCOneMachine
  Ids <- MCIds
  Id <- MCOneId
  Urls <- MCOneUrl
  Tokens <- MCFourTokens
  MaxCalls = 2
  MaxFaults = 1
INVARIANT
  RevokedIsDropped
