SPECIFICATION FairSpec
CONSTANTS
  None = None
  Users = {u1}
  Titles = {t1}
  Chains = {c1}
  WideChains = {c1}
  NewChains = {}
  Pollers = {p1, p2}
  PassUnits = 1
  TitleUnits = 2
  MaxDust = 1
  Fine = 10
  Ttl = 1
  PassDays = 2
  MinConf = 1
  ScanChunk = 1
  ScanLag = 1
  MaxInvoices = 2
  MaxTransfers = 2
  MaxTime = 2
  MaxHeight = 3
  MaxEvents = 1
INVARIANTS
  PassIsExact
  PlayIsPaidFor
  NoPaymentIsSkipped
PROPERTY
  ScanCatchesUp
