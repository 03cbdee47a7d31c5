SPECIFICATION FairSpec
CONSTANTS
  NoCaller = NoCaller
  Callers = {c1, c2, c3}
  Lost = {c3}
  Threshold = 2
  OpenSeconds = 2
PROPERTIES
  OnlyTheProbeDecides
