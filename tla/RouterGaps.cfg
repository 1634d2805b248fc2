\* OneCopy (INVARIANT) fails as it is; DeleteLeavesNothing (PROPERTY) too, one
\* request (Requests = {q1}) is enough for it, and for StaleOwnerIsNotFatal
\* (PROPERTY) with MaxEvents = 6.
SPECIFICATION Spec
CONSTANTS
  None = None
  Ids = {1, 2}
  Strategy = "least-bandwidth"
  Hashes = {h1}
  Requests = {q1, q2}
  MaxGen = 1
  MaxEvents = 4
INVARIANT
  OneCopy
