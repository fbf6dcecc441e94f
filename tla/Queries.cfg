SPECIFICATION QueriesSpec
CONSTANTS
  d1 = d1 d2 = d2 d3 = d3 b1 = b1 b2 = b2 i1 = i1 i2 = i2 h1 = h1 h2 = h2 s1 = s1 s2 = s2 c1 = c1
  NoDeposit = NoDeposit NoBasket = NoBasket NoProc = NoProc
  Deposits = {d1, d2}
  Baskets = {b1}
  Instances = {i1}
  Handlers = {h1}
  Scanners = {s1}
  Home <- OneInstance
  Amount <- TwoAmounts
  Target <- OneTarget
  Total <- SumOfAmounts
  MinRate = 5000
  Deadlines = {1}
  MaxTime = 1
  Clients = {c1}
  NowUnix = {1}
  ScanLimit = 2
  BasketLimit = 2
  Budget <- ReadBudget
INVARIANTS MatchReplyWhole
PROPERTIES NeverToldBack
CHECK_DEADLOCK FALSE
