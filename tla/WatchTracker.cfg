SPECIFICATION WtFairSpec
CONSTANTS
  NoTorrent = NoTorrent
  Sessions = {s1, s2}
  Hashes = {h1, h2}
  MaxTimers = 3
INVARIANTS
  CountsExact
PROPERTIES
  DropsOnlyUnwatched
  AbandonedIsDropped
