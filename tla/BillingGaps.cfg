\* PaysItsInvoice and OneCreditPerPayment (INVARIANT) and PaidInTimeIsCredited
\* (PROPERTY) fail as it is; NoPaymentIsSkipped (INVARIANT, SPECIFICATION Spec)
\* with ScanLag = 2, and also with NewChains = {c1}.
SPECIFICATION FairSpec
CONSTANTS
  None = None
  Users = {u1}
  Titles = {t1}
  MaxInvoices = 2
  MaxTransfers = 2
  Chains = {c1}
  WideChains = {c1}
  NewChains = {}
  Pollers = {p1}
  PassUnits = 1
  TitleUnits = 2
  MaxDust = 1
  Fine = 10
  Ttl = 2
  PassDays = 2
  MinConf = 1
  ScanChunk = 2
  ScanLag = 1
  MaxTime = 3
  MaxHeight = 4
  MaxEvents = 1
INVARIANT PaysItsInvoice
INVARIANT OneCreditPerPayment
PROPERTY PaidInTimeIsCredited
