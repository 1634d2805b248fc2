SPECIFICATION FairSpec
CONSTANTS
  m1 = m1
  m2 = m2
  i1 = i1
  u1 = u1
  u2 = u2
  t1 = t1
  t2 = t2
  t3 = t3
  t4 = t4
  t5 = t5
  None = None
  Machines <- MCTwoMachines
  Ids <- MCIds
  Id <- MCTwoId
  Urls <- MCOneUrl
  Tokens <- MCFiveTokens
  MaxCalls = 2
  MaxFaults = 2
INVARIANTS
  SessionIsPersonal
  RestartKeepsDecisions
PROPERTY
  ApprovedIsServed
