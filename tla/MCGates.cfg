SPECIFICATION GatesSpec
CONSTANTS
  r1 = r1
  r2 = r2
  r3 = r3
  Requests = {r1, r2, r3}
  Contexts <- MCContexts
  Counters <- MCCounters
  CountersOf <- MCCountersOf
  Amount <- MCAmount
  Limit <- MCLimit
  Window = 2
  Leftover <- MCLeftover
  Calls <- MCCalls
  Life = 2
  Leeway = 1
  MaxSkew = 1
  MaxAge = 4
SYMMETRY Symmetry
INVARIANTS
  AdmittedWithinCap
  CountedAsWhoTheyAre
PROPERTIES
  CountsInsideAWindow
  SkewTolerated
