SPECIFICATION Spec
CONSTANTS
  d1 = d1 d2 = d2 d3 = d3 b1 = b1 b2 = b2 b3 = b3
  Deposits = {d1, d2, d3}
  Baskets = {b1, b2, b3}
  Amount <- Amounts
  Target <- Targets
  Total <- SumOfAmounts
  Deadlines = {1, 2}
  Limit = 2
INVARIANTS IndexExact
PROPERTIES FindsTheBest
