SPECIFICATION Spec
CONSTANTS
  p1 = p1
  p2 = p2
  Pages = {p1, p2}
  NoPage = NoPage
  LineCount = 4
  Group = 2
  RingSize = 2
  Instructions <- MCInstructions
  Boundaries <- MCBoundaries
  Masks <- MCMasks
  SplitOntoStack = FALSE
INVARIANTS TypeOK NoStaleCode
