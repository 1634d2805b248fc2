SPECIFICATION CtFairSpec
CONSTANTS
  Nil = Nil
  Titles = {t1, t2}
  Hashes = {h1, h2}
  Offers <- OffersDef
  Jobs = {"topRated"}
  Clicks = {c1}
  Fetches = {f1}
  MaxId = 4
  MaxCopies = 1
  MaxEvents = 2
  t1 = t1
  t2 = t2
  h1 = h1
  h2 = h2
PROPERTY
  BytesAreNotLost
  EveryOfferIsImported
  EventuallyTranslated
  MagnetsAreFilled
