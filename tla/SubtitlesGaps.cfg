SPECIFICATION Spec
CONSTANTS
  None = None
  Manual = Manual
  Visitors = {v1, v2}
  Operators = {}
  Crawls = {c1, c2}
  Deleters = {}
  Movies = {m1}
  Episodes = {}
  Files = {f1}
  MaxCount = 1
  MaxKeys = 2
  MaxFaults = 1
INVARIANT
  RowHasItsFile
  DeletedLeavesNoFile
  NoDuplicateDownload
PROPERTY
  CrawlAddsOnlyNew
CHECK_DEADLOCK FALSE
