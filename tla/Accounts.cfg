SPECIFICATION Spec
CONSTANTS
  b1 = b1
  b2 = b2
  t1 = t1
  t2 = t2
  s1 = s1
  s2 = s2
  x1 = x1
  home = home
  page = page
  Offsite = Offsite
  c1 = c1
  c2 = c2
  None = None
  Browsers <- MCBrowsers
  Tabs <- MCTabs
  Subs <- MCSubs
  Titles <- MCTitles
  Pages <- MCPages
  Home <- MCHome
  Calls <- MCCalls
  MaxNonce = 2
  MaxEvents = 1
SYMMETRY MCSymmetry
INVARIANTS
  FlowsAreNotMixed
PROPERTIES
  NothingSavedIsLost
  BlockedStaysOut
