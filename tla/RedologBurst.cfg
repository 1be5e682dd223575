SPECIFICATION Spec
CONSTANTS
  CatalogSize = 2
  ExtentBlocks = 2
  Data = {0, 1}
  Zero = 0
  Bases <- MCBases
  Burst = 2
  None = None
INVARIANTS ReadsAreContent
CHECK_DEADLOCK FALSE
