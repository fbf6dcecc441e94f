SPECIFICATION Spec
CONSTANTS
  d1 = d1 d2 = d2 d3 = d3 b1 = b1 b2 = b2 i1 = i1 i2 = i2 h1 = h1 h2 = h2 s1 = s1 s2 = s2
  NoDeposit = NoDeposit NoBasket = NoBasket NoProc = NoProc
  Deposits = {d1, d2, d3}
  Baskets = {b1, b2}
  Instances = {i1}
  Handlers = {h1}
  Scanners = {s1}
  Home <- OneInstance
  Amount <- ThreeAmounts
  Target <- TwoTargets
  Total <- SumOfAmounts
  MinRate = 5000
  Deadlines = {1, 2}
  MaxTime = 1
  ScanLimit = 2
  BasketLimit = 2
  Budget <- ManyRequests
SYMMETRY SmallOnes
INVARIANTS PoolMirrorsRows LedgerBalanced NeverOverfilled NoOrphanedLock RecordsAgree
  ReleasedNotMatched ShortOnlyAfterTimeout
PROPERTIES CompletionFirst PendingWithoutRoom
CHECK_DEADLOCK FALSE
