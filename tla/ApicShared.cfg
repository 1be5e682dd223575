SPECIFICATION Spec
CONSTANTS
  NumCpus = 1
  Pins = {1, 2}
  Vectors = {33}
  Words <- MCWordsShared
  Dests <- MCDestsShared
  Ipis = {}
  Priorities = {0}
  SeoiEnabled = FALSE
INVARIANTS RequestedLevelHasTmr
