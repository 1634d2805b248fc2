\* BytesAreBackfilled needs MaxCopies = 1, so that the operator can save.
SPECIFICATION CtFairSpec
CONSTANTS
  Nil = Nil
  Titles = {t1, t2}
  Hashes = {h1, h2}
  Offers <- OffersDef
  Jobs = {"topRated"}
  Clicks = {c1}
  Fetches = {f1}
  MaxId = 4
  MaxCopies = 0
  MaxEvents = 2
  t1 = t1
  t2 = t2
  h1 = h1
  h2 = h2
INVARIANT
  ImportedOnce
PROPERTIES
  ListedIsPlayable
  BackfillOnlyRefreshes
  CrawlNeedsTorrent
  BytesAreBackfilled
