SPECIFICATION FairSpec
CONSTANTS
  None = None
  Ids = {1, 2}
  Strategy = "least-bandwidth"
  Hashes = {h1}
  Requests = {q1, q2}
  MaxGen = 2
  MaxEvents = 5
PROPERTIES
  ScanMissesNothing
  OwnersConverge
