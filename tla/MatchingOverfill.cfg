SPECIFICATION Spec
CONSTANTS
  d1 = d1 d2 = d2 d3 = d3 b1 = b1 b2 = b2 i1 = i1 i2 = i2 h1 = h1 h2 = h2 s1 = s1 s2 = s2
  NoDeposit = NoDeposit NoBasket = NoBasket NoProc = NoProc
  Deposits = {d1, d2, d3}
  Baskets = {b1}
  Instances = {i1, i2}
  Handlers = {h1, h2}
  Scanners = {}
  Home <- TwoInstances
  Amount <- BigAmounts
  Target <- OneTarget
  Total <- SumOfAmounts
  MinRate = 5000
  Deadlines = {1}
  MaxTime = 1
  ScanLimit = 2
  BasketLimit = 2
  Budget <- PairBudget
INVARIANTS NeverOverfilled
CHECK_DEADLOCK FALSE
