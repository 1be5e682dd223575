SPECIFICATION Spec
CONSTANTS
  CatalogSize = 2
  ExtentBlocks = 2
  Data = {0, 1}
  Zero = 0
  Bases <- MCBases
  Burst = 1
  None = None
INVARIANTS TypeOK CacheCoherent NeverFull
PROPERTIES ImplementsBlockDevice
CHECK_DEADLOCK FALSE
