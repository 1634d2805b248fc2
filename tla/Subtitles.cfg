SPECIFICATION Spec
CONSTANTS
  None = None
  Manual = Manual
  Visitors = {v1}
  Operators = {a1}
  Crawls = {c1}
  Deleters = {d1}
  Movies = {m1}
  Episodes = {}
  Files = {f1, f2}
  MaxCount = 2
  MaxKeys = 2
  MaxFaults = 1
INVARIANT
  SavedIsServed
  VietsubTells
  FilesAreAccountedFor
SYMMETRY FileSymmetry
CHECK_DEADLOCK FALSE
