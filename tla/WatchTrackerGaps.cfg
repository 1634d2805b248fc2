\* NoDropUnderViewer (INVARIANT) fails as it is, and so does GraceIsHonoured
\* (PROPERTY).
SPECIFICATION WtSpec
CONSTANTS
  NoTorrent = NoTorrent
  Sessions = {s1, s2}
  Hashes = {h1}
  MaxTimers = 2
INVARIANT
  NoDropUnderViewer
