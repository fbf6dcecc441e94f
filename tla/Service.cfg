SPECIFICATION ServiceSpec
CONSTANTS
  d1 = d1 d2 = d2 d3 = d3 b1 = b1 b2 = b2 s1 = s1 s2 = s2 none = none e1 = e1 e2 = e2 e3 = e3
  Half <- Bits28
  Targets = {10, 64, 13420}
  MinRates = {0, 3333, 10000, 20000}
  Steps = {7, 4473}
  Deposits = {d1, d2, d3}
  Baskets = {b1, b2}
  NoNumber = none
  Shards = {s1, s2}
  NoShard = none
  DepositRequests <- SomeDepositRequests
  BasketRequests <- SomeBasketRequests
  MinRate = 5000
  MaxRequests = 4
  Total <- SumOfValues
  Configs <- SomeConfigs
  MaxChecks = 2
  MaxOutages = 1
  Keys = {s1, s2}
  Goroutines = {g1, g2, g3}
  MaxShards = 3
  NoKey = none
  NoTag = none
  NoEvent = none
  Consumers = {c1, c2}
  LastMessage = 3
  Traffic <- SomeTraffic
  Configured <- Topics
  WorkerNum = 2
  MaxWorkers = 3
  MaxBatch = 2
  MaxAttempts = 2
  MaxFailures = 1
  Orders <- SomeOrders
  Events = {e1, e2}
  Levels = {0, 1, 19}
  MaxLevel = 18
  MaxMessages = 2
  MaxUseFailures = 2
  Instances = {i1}
  Unnumbered = {e1, e2, e3}
  Modulus = 5
  MaxSecond = 2
  MaxSaveFailures = 1
  MaxRestarts = 1
  RestartTakes = 1
INVARIANTS ShareDecides IntakeTrue ProcessSafe FirstTriesInOrder AckedWasHandled FormKept OrderOfItsOwn
PROPERTIES MapSafe StopsReturn MessagesLeave
CHECK_DEADLOCK FALSE
