SPECIFICATION Spec
CONSTANTS
  s1 = s1
  s2 = s2
  tenant = tenant
  user1 = user1
  user2 = user2
  Slots = {s1, s2}
  Counters = {tenant, user1, user2}
  CountersOf <- MCCountersOf
  Limit <- MCLimit
  WarnAt <- MCWarnAt
  Window = 2
  Passes = 1
  Tokens = {1, 2}
  Leftover = {1}
  MaxBypasses = 1
  MaxLost = 1
INVARIANTS
  OvershootBounded
  WarnedOnce
