SPECIFICATION FairSpec
CONSTANTS
  Callers = {c1, c2}
  TTL = 3
  Section = 2
  MaxCalls = 2
  MaxLost = 1
  NoToken = NoToken
INVARIANTS SectionKeepsKey
PROPERTIES Excludes WaitEnds
CHECK_DEADLOCK FALSE
