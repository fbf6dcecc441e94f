SPECIFICATION JournalSpec
CONSTANTS
  d1 = d1 d2 = d2 d3 = d3 b1 = b1 b2 = b2 i1 = i1 i2 = i2 h1 = h1 h2 = h2 s1 = s1 s2 = s2
  NoDeposit = NoDeposit NoBasket = NoBasket NoProc = NoProc
  Deposits = {d1, d2}
  Baskets = {b1}
  Instances = {i1}
  Handlers = {h1}
  Scanners = {s1, s2}
  Home <- OneInstance
  Amount <- TwoAmounts
  Target <- OneTarget
  Total <- SumOfAmounts
  MinRate = 5000
  Deadlines = {1}
  MaxTime = 1
  ScanLimit = 2
  BasketLimit = 2
  Budget <- SmallFaults
INVARIANTS FaultSafe NotesTrue
CHECK_DEADLOCK FALSE
