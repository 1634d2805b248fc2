SPECIFICATION PaFairSpec
CONSTANTS
  None = None
  Users = {u1, u2}
  Tvs = {t1}
  Codes = {c1}
  CodeTtl = 3
  TokenTtl = 1
  TvCodes = 2
  Limit = 1
  Window = 2
  MaxKeys = 1
  Slack = 1
  MaxRows = 2
  MaxTime = 5
  MaxEvents = 1
INVARIANTS
  AccessIsGranted
  QuotaHolds
PROPERTY ApprovedIsPaired
CHECK_DEADLOCK FALSE
